--------------------------- MODULE TickAndReflect ---------------------------
(***************************************************************************)
(* tick_and_reflect of forward.py: the agent's tick (ForwardRecord) with   *)
(* the memory it reads before and the reflection it writes after, and      *)
(* run.json, which is written by the tick and again after the reflection.  *)
(*                                                                         *)
(* A reflection is known by the days its tick recorded; what it says is    *)
(* left out.  The process may die between any two writes, and while the    *)
(* memory file is being rewritten.                                         *)
(***************************************************************************)
EXTENDS ForwardRecord, Sequences

CONSTANTS
  UseLessons, \* agent.use_lessons of config.yaml
  MaxEntries, \* see Memory
  MaxParts

ASSUME LessonsAssumption == UseLessons \in BOOLEAN
ASSUME MemoryAssumption == MaxEntries \in Nat \ {0} /\ MaxParts \in Nat \ {0}

File == INSTANCE Memory

VARIABLES
  memory,    \* agent_memory.md
  marketCtx, \* whether this record's agent runs with --market-context
  lessons,   \* the memory the running agent was built with
  fresh,     \* the days the running tick appended
  stage,     \* what tick_and_reflect has yet to do once the record is written
  run,       \* run.json; `days` says which tick wrote it
  lateDeaths \* number of processes that died after the record was written

reflectVars == <<memory, marketCtx, lessons, fresh, stage, run, lateDeaths>>
allVars == <<vars, reflectVars>>

\* run.json missing or unreadable.
NoRun == [end |-> 0, days |-> {}, held |-> <<>>, reflected |-> "unknown"]

ReflectTypeOK ==
  /\ memory \in Seq(File!Block) /\ Len(memory) <= MaxEntries
  /\ marketCtx \in BOOLEAN
  /\ lessons \in Seq(File!Block)
  /\ fresh \in SUBSET Dates
  /\ stage \in {"none", "meta", "reflect", "reflected", "skipped"}
  /\ run \in [end : Dates \cup {0}, days : SUBSET Dates, held : Seq(File!Block),
              reflected : {"unknown", "yes", "no"}]
  /\ lateDeaths \in 0..MaxCrashes

ReflectInit ==
  /\ Init
  /\ memory = <<>>
  /\ marketCtx \in BOOLEAN
  /\ lessons = <<>>
  /\ fresh = {}
  /\ stage = "none"
  /\ run = NoRun
  /\ lateDeaths = 0

RefreshCache ==
  /\ stage = "none"
  /\ Refresh
  /\ UNCHANGED reflectVars

\* The memory is read, and the agent built, before the tick starts.
BuildAgent ==
  /\ stage = "none"
  /\ StartTick
  /\ lessons' = IF UseLessons THEN memory ELSE <<>>
  /\ UNCHANGED <<memory, marketCtx, fresh, stage, run, lateDeaths>>

\* The tick up to the rewriting of returns.csv.
RunTick ==
  /\ TickStep
  /\ pc' # "idle"
  /\ UNCHANGED reflectVars

Record ==
  /\ WriteReturns
  /\ fresh' = Recorded' \ Recorded
  /\ stage' = "meta"
  /\ UNCHANGED <<memory, marketCtx, lessons, run, lateDeaths>>

Meta_KeepsFlags ==
  [run EXCEPT !.end = IF Recorded = {} THEN 0 ELSE Max(Recorded), !.days = fresh]

\* tick's own run.json: a new dictionary, without the fields of the audit.
Meta ==
  [NoRun EXCEPT !.end = IF Recorded = {} THEN 0 ELSE Max(Recorded), !.days = fresh]

WriteMeta ==
  /\ stage = "meta"
  /\ run' = Meta
  /\ stage' = "reflect"
  /\ UNCHANGED <<vars, memory, marketCtx, lessons, fresh, lateDeaths>>

Reflects_AnyRecord == Recorded # {} /\ ~marketCtx

\* Only a tick that recorded something is reflected on, and the record with
\* the market block never writes the memory of the other.
Reflects == fresh # {} /\ ~marketCtx

\* The model may fail or answer with nothing; then nothing is written.
Reflect ==
  /\ stage = "reflect"
  /\ \/ /\ memory' = memory
        /\ stage' = "skipped"
     \/ /\ Reflects
        /\ \E n \in File!Parts :
             memory' = File!AppendReflection(memory, File!Reflection(fresh, n))
        /\ stage' = "reflected"
  /\ UNCHANGED <<vars, marketCtx, lessons, fresh, run, lateDeaths>>

\* run.json again, with what the agent held and whether it reflected.
WriteAudit ==
  /\ stage \in {"reflected", "skipped"}
  /\ run' = [run EXCEPT !.held = lessons,
                        !.reflected = IF stage = "reflected" THEN "yes" ELSE "no"]
  /\ stage' = "none"
  /\ lessons' = <<>> /\ fresh' = {}
  /\ UNCHANGED <<vars, memory, marketCtx, lateDeaths>>

Deaths == crashes + lateDeaths

DieInTick ==
  /\ Deaths < MaxCrashes
  /\ Crash
  /\ lessons' = <<>>
  /\ UNCHANGED <<memory, marketCtx, fresh, stage, run, lateDeaths>>

\* The process dies after the record was written: before or while it writes
\* run.json, while it waits for the model, or while it rewrites the memory.
DieAfterTick ==
  /\ stage # "none"
  /\ Deaths < MaxCrashes
  /\ lateDeaths' = lateDeaths + 1
  /\ stage' = "none"
  /\ lessons' = <<>> /\ fresh' = {}
  /\ \/ UNCHANGED <<memory, run>>
     \/ /\ stage # "reflect"
        /\ run' = NoRun
        /\ UNCHANGED memory
     \/ /\ stage = "reflect" /\ Reflects
        /\ \E n \in File!Parts :
             memory' \in File!Torn(File!AppendReflection(
                                     memory, File!Reflection(fresh, n)))
        /\ UNCHANGED run
  /\ UNCHANGED <<vars, marketCtx>>

ReflectNext ==
  \/ RefreshCache \/ BuildAgent \/ RunTick \/ Record
  \/ WriteMeta \/ Reflect \/ WriteAudit
  \/ DieInTick \/ DieAfterTick

ReflectSpec == ReflectInit /\ [][ReflectNext]_allVars

-----------------------------------------------------------------------------
\* The blocks of the memory come from ticks that recorded something, each
\* reflected on at most once: blocks of different reflections are about
\* different days, in whatever order holes in the record were filled, and
\* the blocks of one reflection stand together in order.
ReflectedOnce ==
  /\ \A k \in 1..Len(memory) :
       memory[k].days # {} /\ memory[k].days \subseteq Recorded
  /\ \A k, l \in 1..Len(memory) :
       k < l => \/ memory[k].days \cap memory[l].days = {}
                \/ /\ memory[k].days = memory[l].days
                   /\ memory[l].part - memory[k].part = l - k

\* run.json tells the truth about the education of the agent, whatever died
\* since: its end is recorded, "reflected" means that the memory ends with
\* the whole reflection on the tick that wrote it, and the lessons it
\* credits the agent with were there before that tick.
RunJsonTruthful ==
  /\ run.days \subseteq Recorded /\ run.end \in Recorded \cup {0}
  /\ run.reflected = "yes" =>
       LET last == memory[Len(memory)]
       IN /\ memory # <<>>
          /\ last.days = run.days /\ last.part = last.parts /\ last.whole
  /\ \A k \in 1..Len(run.held) : run.held[k].days \cap run.days = {}
=============================================================================
