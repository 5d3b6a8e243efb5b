-------------------------------- MODULE Memory --------------------------------
(***************************************************************************)
(* journal/agent_memory.md, the lessons the agent writes for itself        *)
(* (memory.py).  The file is a sequence of blocks, cut at its "## "        *)
(* headings: append_reflection writes one heading per reflection, and      *)
(* every heading the model puts into its text cuts another block.          *)
(***************************************************************************)
EXTENDS Integers, Sequences

CONSTANTS
  Dates,      \* trading days
  MaxEntries, \* blocks the file keeps (40 in the code)
  MaxParts    \* bound: blocks one reflection is cut into

Parts == 1..MaxParts

\* A block of the reflection on `days`, the part-th of `parts`; whole unless
\* the process died while writing it.
Block == [days : SUBSET Dates, part : Parts, parts : Parts, whole : BOOLEAN]

Reflection(days, n) ==
  [k \in 1..n |-> [days |-> days, part |-> k, parts |-> n, whole |-> TRUE]]

Newest_All(blocks) == blocks

\* The blocks that survive the cap.
Newest(blocks) ==
  IF Len(blocks) > MaxEntries
  THEN SubSeq(blocks, Len(blocks) - MaxEntries + 1, Len(blocks))
  ELSE blocks

AppendReflection(memory, entry) == Newest(memory \o entry)

\* write_text truncates the file and writes it anew: what a process that
\* dies on the way leaves is a prefix, its last block possibly cut short.
Torn(blocks) ==
  {SubSeq(blocks, 1, k) : k \in 0..Len(blocks)}
    \cup {[SubSeq(blocks, 1, k) EXCEPT ![k].whole = FALSE] : k \in 1..Len(blocks)}
=============================================================================
