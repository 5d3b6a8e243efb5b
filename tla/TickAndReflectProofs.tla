------------------------ MODULE TickAndReflectProofs ------------------------
(***************************************************************************)
(* Theorems about TickAndReflect, for every universe, calendar, cap of the *)
(* memory, length of a reflection and number of crashes.                   *)
(***************************************************************************)
EXTENDS TickAndReflect, ForwardRecordProofs, SequenceTheorems

(***************************************************************************)
(* The tick inside tick_and_reflect is the tick of ForwardRecord.          *)
(***************************************************************************)

\* Reading the memory, reflecting and writing run.json leave the record
\* alone, so all that is proved of a tick holds here as well.
THEOREM ReflectKeepsRecord == ReflectSpec => Spec
<1>1. ReflectInit => Init
  BY DEF ReflectInit
<1>2. [ReflectNext]_allVars => [Next]_vars
  BY DEF ReflectNext, allVars, Next, RefreshCache, BuildAgent, RunTick, Record,
         TickStep, WriteMeta, Reflect, WriteAudit, DieInTick, DieAfterTick
<1> QED
  BY <1>1, <1>2, PTL DEF Spec, ReflectSpec

LEMMA ReflectRecordInv == ReflectSpec => []RecordInv
BY ReflectKeepsRecord, SpecRecordInv, PTL

(***************************************************************************)
(* The memory file.                                                        *)
(***************************************************************************)

\* The blocks of m are about recorded days, and no day is reflected on by
\* two reflections.
Recalls(m, days) ==
  \A k \in 1..Len(m) : m[k].days # {} /\ m[k].days \subseteq days
Once(m) ==
  \A k, l \in 1..Len(m) :
    k < l => \/ m[k].days \cap m[l].days = {}
             \/ /\ m[k].days = m[l].days
                /\ m[l].part - m[k].part = l - k
Apart(m, days) == \A k \in 1..Len(m) : m[k].days \cap days = {}
EndsWith(m, days) ==
  LET last == m[Len(m)]
  IN m # <<>> /\ last.days = days /\ last.part = last.parts /\ last.whole

\* m stands in w from place o + 1 on, up to what was cut short.
Within(m, w, o) ==
  /\ m \in Seq(File!Block) /\ o \in Nat /\ Len(m) + o <= Len(w)
  /\ \A k \in 1..Len(m) : m[k].days = w[k + o].days /\ m[k].part = w[k + o].part

LEMMA WithinKeeps ==
  ASSUME NEW w \in Seq(File!Block), NEW m, NEW o, Within(m, w, o), Once(w),
         NEW days, Recalls(w, days)
  PROVE  Once(m) /\ Recalls(m, days)
<1>1. Len(m) \in Nat /\ Len(w) \in Nat /\ o \in Nat
  BY DEF Within
<1>2. \A k \in 1..Len(m) : k + o \in 1..Len(w)
  BY <1>1 DEF Within
<1>3. Recalls(m, days)
  BY <1>2 DEF Recalls, Within
<1>4. ASSUME NEW k \in 1..Len(m), NEW l \in 1..Len(m), k < l
      PROVE  \/ m[k].days \cap m[l].days = {}
             \/ m[k].days = m[l].days /\ m[l].part - m[k].part = l - k
  <2>1. k + o \in 1..Len(w) /\ l + o \in 1..Len(w) /\ k + o < l + o
    BY <1>1, <1>2, <1>4
  <2>2. (l + o) - (k + o) = l - k
    BY <1>1
  <2>3. \/ w[k + o].days \cap w[l + o].days = {}
        \/ /\ w[k + o].days = w[l + o].days
           /\ w[l + o].part - w[k + o].part = (l + o) - (k + o)
    BY <2>1 DEF Once
  <2> QED
    BY <2>2, <2>3 DEF Within
<1> QED
  BY <1>3, <1>4 DEF Once

LEMMA NewestWithin ==
  ASSUME NEW w \in Seq(File!Block)
  PROVE  /\ \E o : Within(File!Newest(w), w, o)
         /\ Len(File!Newest(w)) <= MaxEntries
         /\ w # <<>> => /\ File!Newest(w) # <<>>
                        /\ File!Newest(w)[Len(File!Newest(w))] = w[Len(w)]
<1>0. MaxEntries \in Nat /\ MaxEntries >= 1 /\ Len(w) \in Nat
  BY MemoryAssumption
<1>1. CASE Len(w) > MaxEntries
  <2> DEFINE o == Len(w) - MaxEntries
             m == SubSeq(w, o + 1, Len(w))
  <2>1. File!Newest(w) = m
    BY <1>1 DEF File!Newest
  <2>2. \A i \in (o + 1)..Len(w) : w[i] \in File!Block
    BY <1>0, <1>1, ElementOfSeq
  <2>3. /\ m \in Seq(File!Block) /\ Len(m) = MaxEntries
        /\ \A i \in 1..MaxEntries : m[i] = w[i + o]
    BY <1>0, <1>1, <2>2, SubSeqProperties
  <2>4. Within(m, w, o)
    BY <1>0, <1>1, <2>3 DEF Within
  <2>5. MaxEntries + o = Len(w) /\ MaxEntries \in 1..MaxEntries
    BY <1>0
  <2> HIDE DEF m, o
  <2>6. m # <<>> /\ m[Len(m)] = w[Len(w)]
    BY <1>0, <2>3, <2>5, EmptySeq
  <2> QED
    BY <1>0, <2>1, <2>3, <2>4, <2>6
<1>2. CASE ~(Len(w) > MaxEntries)
  <2>1. File!Newest(w) = w
    BY <1>2 DEF File!Newest
  <2>2. Within(w, w, 0)
    BY <1>0 DEF Within
  <2> QED
    BY <1>0, <1>2, <2>1, <2>2
<1> QED
  BY <1>1, <1>2

LEMMA TornWithin ==
  ASSUME NEW w \in Seq(File!Block), NEW m \in File!Torn(w)
  PROVE  Within(m, w, 0)
<1>1. ASSUME NEW k \in 0..Len(w)
      PROVE  /\ SubSeq(w, 1, k) \in Seq(File!Block) /\ Len(SubSeq(w, 1, k)) = k
             /\ \A i \in 1..k : SubSeq(w, 1, k)[i] = w[i]
  <2>1. \A i \in 1..k : w[i] \in File!Block
    BY ElementOfSeq
  <2> QED
    BY <2>1, SubSeqProperties
<1>2. CASE \E k \in 0..Len(w) : m = SubSeq(w, 1, k)
  BY <1>1, <1>2 DEF Within
<1>3. CASE \E k \in 1..Len(w) : m = [SubSeq(w, 1, k) EXCEPT ![k].whole = FALSE]
  <2>1. PICK k \in 1..Len(w) : m = [SubSeq(w, 1, k) EXCEPT ![k].whole = FALSE]
    BY <1>3
  <2> DEFINE p == SubSeq(w, 1, k)
             b == [p[k] EXCEPT !.whole = FALSE]
  <2>2. k \in 0..Len(w) /\ k \in 1..k /\ k \in Nat
    OBVIOUS
  <2>3. p \in Seq(File!Block) /\ Len(p) = k /\ \A i \in 1..k : p[i] = w[i]
    BY <1>1, <2>2
  <2>4. p[k] \in File!Block
    BY <2>2, <2>3, ElementOfSeq
  <2>5. b \in File!Block /\ b.days = p[k].days /\ b.part = p[k].part
    BY <2>4 DEF File!Block
  <2>6. m = [p EXCEPT ![k] = b]
    BY <2>1
  <2> HIDE DEF p, b
  <2>7. /\ m \in Seq(File!Block) /\ Len(m) = k
        /\ \A j \in 1..k : m[j] = IF j = k THEN b ELSE p[j]
    BY <2>2, <2>3, <2>5, <2>6, ExceptSeq
  <2> QED
    BY <2>2, <2>3, <2>5, <2>7 DEF Within
<1> QED
  BY <1>2, <1>3 DEF File!Torn

LEMMA ReflectionType ==
  ASSUME NEW days \in SUBSET Dates, NEW n \in File!Parts
  PROVE  /\ File!Reflection(days, n) \in Seq(File!Block)
         /\ Len(File!Reflection(days, n)) = n
         /\ \A k \in 1..n : File!Reflection(days, n)[k] =
              [days |-> days, part |-> k, parts |-> n, whole |-> TRUE]
<1> DEFINE b(k) == [days |-> days, part |-> k, parts |-> n, whole |-> TRUE]
           r == [k \in 1..n |-> b(k)]
<1>1. n \in Nat /\ n \in 1..MaxParts /\ MaxParts \in Nat
  BY MemoryAssumption DEF File!Parts
<1>2. \A k \in 1..n : b(k) \in File!Block
  BY <1>1 DEF File!Block, File!Parts
<1>3. \A k \in 1..n : r[k] = b(k)
  OBVIOUS
<1> HIDE DEF b
<1>4. r \in [1..n -> File!Block]
  BY <1>2
<1>5. r \in Seq(File!Block)
  BY <1>1, <1>4, SeqDef
<1>6. Len(r) = n
  BY <1>1, <1>4, <1>5, LenProperties
<1>7. File!Reflection(days, n) = r
  BY DEF File!Reflection, b
<1> HIDE DEF r
<1>8. \A k \in 1..n : File!Reflection(days, n)[k] =
              [days |-> days, part |-> k, parts |-> n, whole |-> TRUE]
  BY <1>3, <1>7 DEF b
<1> QED
  BY <1>5, <1>6, <1>7, <1>8

\* The file with one more reflection, before the cap.
LEMMA AppendKeeps ==
  ASSUME NEW m \in Seq(File!Block), NEW days \in SUBSET Dates, NEW n \in File!Parts,
         NEW R, Once(m), Recalls(m, R), days \subseteq R, days # {}, Apart(m, days)
  PROVE  LET w == m \o File!Reflection(days, n)
         IN w \in Seq(File!Block) /\ Once(w) /\ Recalls(w, R) /\ EndsWith(w, days)
<1> DEFINE r == File!Reflection(days, n)
           w == m \o r
           a == Len(m)
<1>1. /\ r \in Seq(File!Block) /\ Len(r) = n
      /\ \A k \in 1..n : r[k] = [days |-> days, part |-> k, parts |-> n, whole |-> TRUE]
  BY ReflectionType
<1>2. n \in Nat /\ n >= 1 /\ a \in Nat
  BY MemoryAssumption DEF File!Parts
<1> HIDE DEF r
<1>3. /\ w \in Seq(File!Block) /\ Len(w) = a + n
      /\ \A i \in 1..(a + n) : w[i] = IF i <= a THEN m[i] ELSE r[i - a]
  BY <1>1, ConcatProperties
<1> HIDE DEF w
<1>a. Len(w) \in Nat /\ a = Len(m)
  BY <1>2, <1>3
<1> HIDE DEF a
<1>4. \A i \in 1..Len(w) :
        \/ i \in 1..a /\ w[i] = m[i]
        \/ /\ i > a /\ i \in Nat
           /\ w[i].days = days /\ w[i].part = i - a
  <2> SUFFICES ASSUME NEW i \in 1..Len(w)
               PROVE  \/ i \in 1..a /\ w[i] = m[i]
                      \/ /\ i > a /\ i \in Nat
                         /\ w[i].days = days /\ w[i].part = i - a
    OBVIOUS
  <2>1. i \in 1..(a + n) /\ i \in Nat
    BY <1>2, <1>3
  <2>2. CASE i <= a
    BY <1>2, <1>3, <2>1, <2>2
  <2>3. CASE ~(i <= a)
    <3>1. i - a \in 1..n /\ i > a
      BY <1>2, <2>1, <2>3
    <3>2. w[i] = r[i - a]
      BY <1>3, <2>1, <2>3
    <3> QED
      BY <1>1, <2>1, <3>1, <3>2
  <2> QED
    BY <2>2, <2>3
<1>5. Recalls(w, R)
  BY <1>4, <1>a DEF Recalls
<1>6. ASSUME NEW k \in 1..Len(w), NEW l \in 1..Len(w), k < l
      PROVE  \/ w[k].days \cap w[l].days = {}
             \/ w[k].days = w[l].days /\ w[l].part - w[k].part = l - k
  <2>0. k \in Nat /\ l \in Nat
    BY <1>a
  <2>1. CASE l \in 1..a /\ w[l] = m[l]
    <3>1. k \in 1..a
      BY <1>2, <1>6, <2>0, <2>1
    <3>2. w[k] = m[k]
      BY <1>2, <1>4, <3>1
    <3> QED
      BY <1>6, <1>a, <2>1, <3>1, <3>2 DEF Once
  <2>2. CASE l > a /\ w[l].days = days /\ w[l].part = l - a
    <3>1. CASE k \in 1..a /\ w[k] = m[k]
      BY <1>a, <2>2, <3>1 DEF Apart
    <3>2. CASE w[k].days = days /\ w[k].part = k - a
      <4>1. (l - a) - (k - a) = l - k
        BY <1>2, <2>0
      <4> QED
        BY <2>2, <3>2, <4>1
    <3> QED
      BY <1>4, <3>1, <3>2
  <2> QED
    BY <1>4, <2>1, <2>2
<1>7. EndsWith(w, days)
  <2>1. Len(w) \in 1..(a + n) /\ Len(w) - a = n /\ ~(Len(w) <= a) /\ n \in 1..n
    BY <1>2, <1>3
  <2>2. w[Len(w)] = r[n]
    BY <1>3, <2>1
  <2>3. w # <<>>
    BY <1>2, <1>3, EmptySeq
  <2> QED
    BY <1>1, <2>1, <2>2, <2>3 DEF EndsWith
<1> QED
  BY <1>3, <1>5, <1>6, <1>7 DEF Once, w, r

(***************************************************************************)
(* The invariant.                                                          *)
(***************************************************************************)

\* The two properties of the runs, and what they need to be inductive: the
\* lessons of the agent and, until it reflects, the memory are older than
\* the days the tick recorded, and between its two writes run.json claims
\* nothing about the reflection.
ReflectInv ==
  /\ ReflectTypeOK
  /\ stage # "none" => pc = "idle"
  /\ fresh \subseteq Recorded
  /\ Once(memory) /\ Recalls(memory, Recorded)
  /\ \A k \in 1..Len(lessons) : lessons[k].days \subseteq Recorded
  /\ stage # "none" => Apart(lessons, fresh)
  /\ stage \in {"meta", "reflect"} => Apart(memory, fresh)
  /\ stage \in {"reflect", "reflected", "skipped"} =>
       run.days = fresh /\ run.reflected = "unknown"
  /\ stage = "reflected" => EndsWith(memory, fresh)
  /\ run.days \subseteq Recorded /\ run.end \in Recorded \cup {0}
  /\ run.reflected = "yes" => EndsWith(memory, run.days)
  /\ Apart(run.held, run.days)

LEMMA InitReflectInv == ReflectInit => ReflectInv
<1> SUFFICES ASSUME ReflectInit PROVE ReflectInv
  OBVIOUS
<1>1. Len(<<>>) = 0 /\ <<>> \in Seq(File!Block)
  BY EmptySeq
<1>2. ReflectTypeOK
  BY <1>1, MemoryAssumption, BoundsAssumption DEF ReflectInit, ReflectTypeOK, NoRun
<1>3. \A days : Apart(<<>>, days) /\ Recalls(<<>>, days) /\ Once(<<>>)
  BY <1>1 DEF Apart, Recalls, Once
<1> QED
  BY <1>1, <1>2, <1>3 DEF ReflectInv, ReflectInit, NoRun

\* Steps of the tick that leave the record, the memory and run.json alone.
LEMMA QuietSteps ==
  ASSUME RecordInv, ReflectInv, RefreshCache \/ RunTick \/ DieInTick \/ BuildAgent
  PROVE  ReflectInv'
<1>1. returns' = returns /\ stage = "none"
  <2>1. TickStep /\ pc' # "idle" => returns' = returns
    BY DEF TickStep, DecideBar, EndDecide, WritePos, AppendLog, WriteReturns, disk
  <2>2. RunTick \/ DieInTick => pc # "idle"
    BY DEF RunTick, DieInTick, Crash, TickStep, DecideBar, EndDecide, WritePos,
           AppendLog, WriteReturns
  <2> QED
    BY <2>1, <2>2 DEF RefreshCache, Refresh, RunTick, DieInTick, Crash, BuildAgent,
                      StartTick, disk, ReflectInv
<1>2. Recorded' = Recorded
  BY <1>1 DEF Recorded
<1>3. UNCHANGED <<memory, marketCtx, fresh, stage, run, lateDeaths>>
  BY DEF RefreshCache, RunTick, DieInTick, BuildAgent, reflectVars
<1>4. \/ lessons' \in {lessons, memory} 
      \/ lessons' = <<>>
  BY DEF RefreshCache, RunTick, DieInTick, BuildAgent, reflectVars
<1>5. lessons' \in Seq(File!Block)
      /\ \A k \in 1..Len(lessons') : lessons'[k].days \subseteq Recorded
  <2>1. CASE lessons' = <<>>
    BY <2>1, EmptySeq
  <2>2. CASE lessons' \in {lessons, memory}
    BY <2>2 DEF ReflectInv, ReflectTypeOK, Recalls
  <2> QED
    BY <1>4, <2>1, <2>2
<1>6. ReflectTypeOK'
  BY <1>3, <1>5 DEF ReflectInv, ReflectTypeOK
<1> QED
  BY <1>1, <1>2, <1>3, <1>5, <1>6 DEF ReflectInv, Once, Recalls, Apart, EndsWith

\* The tick appends days that were not recorded before.
LEMMA RecordStep ==
  ASSUME RecordInv, ReflectInv, Record
  PROVE  ReflectInv'
<1> USE DEF RecordInv
<1>1. WriteReturns /\ fresh' = Recorded' \ Recorded /\ stage' = "meta"
      /\ UNCHANGED <<memory, marketCtx, lessons, run, lateDeaths>>
  BY DEF Record
<1>2. pc = "returns" /\ pc' = "idle" /\ stage = "none"
  BY <1>1 DEF WriteReturns, ReflectInv
<1>3. Recorded \subseteq Recorded' /\ Recorded' \subseteq Dates
  <2>1. Recorded' = Recorded \cup NewDates
    BY <1>1 DEF WriteReturns, Recorded
  <2> QED
    BY <2>1, NewDatesGenuine DEF TypeOK, Recorded
<1>4. ReflectTypeOK'
  BY <1>1, <1>3 DEF ReflectInv, ReflectTypeOK
<1>5. Recalls(memory, Recorded') /\ Apart(memory, fresh')
  BY <1>1, <1>3 DEF ReflectInv, Recalls, Apart
<1>6. (\A k \in 1..Len(lessons) : lessons[k].days \subseteq Recorded')
      /\ Apart(lessons, fresh')
  BY <1>1, <1>3 DEF ReflectInv, Apart
<1> QED
  BY <1>1, <1>2, <1>3, <1>4, <1>5, <1>6
  DEF ReflectInv, Once, Recalls, Apart, EndsWith

\* run.json is written between the record and the reflection.
LEMMA WriteMetaStep ==
  ASSUME RecordInv, ReflectInv, WriteMeta
  PROVE  ReflectInv'
<1>1. stage = "meta" /\ stage' = "reflect" /\ run' = Meta
      /\ UNCHANGED <<memory, marketCtx, lessons, fresh, lateDeaths>>
      /\ Recorded' = Recorded /\ pc' = pc
  BY DEF WriteMeta, vars, disk, Recorded
<1>2. Recorded \in SUBSET Dates /\ (Recorded # {} => Max(Recorded) \in Recorded)
  BY MaxOfDates DEF RecordInv, TypeOK, Recorded
<1>3. /\ Meta.end \in Recorded \cup {0} /\ Meta.days = fresh
      /\ Meta.held = <<>> /\ Meta.reflected = "unknown"
      /\ Meta \in [end : Dates \cup {0}, days : SUBSET Dates, held : Seq(File!Block),
                   reflected : {"unknown", "yes", "no"}]
  BY <1>2, EmptySeq DEF Meta, NoRun, ReflectInv, ReflectTypeOK
<1>4. ReflectTypeOK'
  BY <1>1, <1>3 DEF ReflectInv, ReflectTypeOK
<1>5. Apart(run'.held, run'.days)
  BY <1>1, <1>3, EmptySeq DEF Apart
<1> QED
  BY <1>1, <1>3, <1>4, <1>5 DEF ReflectInv, Once, Recalls, Apart, EndsWith

\* What the memory is after a reflection, whole or cut short.
LEMMA MemoryAppended ==
  ASSUME RecordInv, ReflectInv, stage = "reflect", Reflects, NEW n \in File!Parts,
         NEW new, new = File!AppendReflection(memory, File!Reflection(fresh, n))
  PROVE  /\ new \in Seq(File!Block) /\ Len(new) <= MaxEntries
         /\ Once(new) /\ Recalls(new, Recorded) /\ EndsWith(new, fresh)
<1> DEFINE w == memory \o File!Reflection(fresh, n)
<1>1. w \in Seq(File!Block) /\ Once(w) /\ Recalls(w, Recorded) /\ EndsWith(w, fresh)
  BY AppendKeeps DEF ReflectInv, ReflectTypeOK, Reflects
<1>2. new = File!Newest(w)
  BY DEF File!AppendReflection
<1> HIDE DEF w
<1>3. PICK o : Within(new, w, o)
  BY <1>1, <1>2, NewestWithin
<1>4. Len(new) <= MaxEntries /\ EndsWith(new, fresh)
  BY <1>1, <1>2, NewestWithin DEF EndsWith
<1>5. new \in Seq(File!Block)
  BY <1>3 DEF Within
<1> QED
  BY <1>1, <1>3, <1>4, <1>5, WithinKeeps

LEMMA ReflectStep ==
  ASSUME RecordInv, ReflectInv, Reflect
  PROVE  ReflectInv'
<1>1. stage = "reflect" /\ Recorded' = Recorded /\ pc' = pc
      /\ UNCHANGED <<marketCtx, lessons, fresh, run, lateDeaths>>
  BY DEF Reflect, vars, disk, Recorded
<1>2. CASE memory' = memory /\ stage' = "skipped"
  BY <1>1, <1>2 DEF ReflectInv, ReflectTypeOK, Once, Recalls, Apart, EndsWith
<1>3. CASE /\ Reflects /\ stage' = "reflected"
           /\ \E n \in File!Parts :
                memory' = File!AppendReflection(memory, File!Reflection(fresh, n))
  <2>1. /\ memory' \in Seq(File!Block) /\ Len(memory') <= MaxEntries
        /\ Once(memory') /\ Recalls(memory', Recorded) /\ EndsWith(memory', fresh)
    BY <1>1, <1>3, MemoryAppended
  <2>2. ReflectTypeOK'
    BY <1>1, <1>3, <2>1 DEF ReflectInv, ReflectTypeOK
  <2> QED
    BY <1>1, <1>3, <2>1, <2>2 DEF ReflectInv, Once, Recalls, Apart, EndsWith
<1> QED
  BY <1>2, <1>3 DEF Reflect

LEMMA WriteAuditStep ==
  ASSUME RecordInv, ReflectInv, WriteAudit
  PROVE  ReflectInv'
<1>1. /\ stage \in {"reflected", "skipped"} /\ stage' = "none"
      /\ lessons' = <<>> /\ fresh' = {}
      /\ Recorded' = Recorded /\ UNCHANGED <<memory, marketCtx, lateDeaths>>
  BY DEF WriteAudit, vars, disk, Recorded
<1>2. /\ run'.end = run.end /\ run'.days = run.days /\ run'.held = lessons
      /\ run'.reflected = IF stage = "reflected" THEN "yes" ELSE "no"
      /\ run' \in [end : Dates \cup {0}, days : SUBSET Dates, held : Seq(File!Block),
                   reflected : {"unknown", "yes", "no"}]
  BY DEF WriteAudit, ReflectInv, ReflectTypeOK
<1>3. Len(<<>>) = 0 /\ <<>> \in Seq(File!Block)
  BY EmptySeq
<1>4. ReflectTypeOK'
  BY <1>1, <1>2, <1>3 DEF ReflectInv, ReflectTypeOK
<1>5. Apart(run'.held, run'.days)
  BY <1>1, <1>2 DEF ReflectInv, Apart
<1>6. run'.reflected = "yes" => EndsWith(memory', run'.days)
  BY <1>1, <1>2 DEF ReflectInv
<1> QED
  BY <1>1, <1>2, <1>3, <1>4, <1>5, <1>6 DEF ReflectInv, Once, Recalls, Apart, EndsWith

LEMMA DieAfterTickStep ==
  ASSUME RecordInv, ReflectInv, DieAfterTick
  PROVE  ReflectInv'
<1>1. /\ stage # "none" /\ stage' = "none" /\ lessons' = <<>> /\ fresh' = {}
      /\ Recorded' = Recorded /\ UNCHANGED marketCtx
  BY DEF DieAfterTick, vars, disk, Recorded
<1>2. lateDeaths' \in 0..MaxCrashes
  BY BoundsAssumption DEF DieAfterTick, Deaths, RecordInv, TypeOK, ReflectInv, ReflectTypeOK
<1>3. Len(<<>>) = 0 /\ <<>> \in Seq(File!Block)
  BY EmptySeq
<1>4. NoRun \in [end : Dates \cup {0}, days : SUBSET Dates, held : Seq(File!Block),
                 reflected : {"unknown", "yes", "no"}]
  BY <1>3 DEF NoRun
<1>5. CASE memory' = memory /\ run' \in {run, NoRun}
  <2>1. ReflectTypeOK'
    BY <1>1, <1>2, <1>3, <1>4, <1>5 DEF ReflectInv, ReflectTypeOK
  <2>2. CASE run' = run
    BY <1>1, <1>3, <1>5, <2>1, <2>2 DEF ReflectInv, Once, Recalls, Apart, EndsWith
  <2>3. CASE run' = NoRun
    BY <1>1, <1>3, <1>5, <2>1, <2>3 DEF ReflectInv, Once, Recalls, Apart, EndsWith, NoRun
  <2> QED
    BY <1>5, <2>2, <2>3
<1>6. CASE /\ stage = "reflect" /\ Reflects /\ run' = run
           /\ \E n \in File!Parts :
                memory' \in File!Torn(File!AppendReflection(
                                        memory, File!Reflection(fresh, n)))
  <2>1. PICK n \in File!Parts :
          memory' \in File!Torn(File!AppendReflection(memory, File!Reflection(fresh, n)))
    BY <1>6
  <2> DEFINE new == File!AppendReflection(memory, File!Reflection(fresh, n))
  <2>2. /\ new \in Seq(File!Block) /\ Len(new) <= MaxEntries
        /\ Once(new) /\ Recalls(new, Recorded)
    BY <1>6, MemoryAppended
  <2> HIDE DEF new
  <2>3. memory' \in File!Torn(new)
    BY <2>1 DEF new
  <2>4. Within(memory', new, 0)
    BY <2>2, <2>3, TornWithin
  <2>5. Once(memory') /\ Recalls(memory', Recorded)
    BY <2>2, <2>4, WithinKeeps
  <2>6. memory' \in Seq(File!Block) /\ Len(memory') <= MaxEntries
    BY <2>2, <2>4, MemoryAssumption DEF Within
  <2>7. ReflectTypeOK'
    BY <1>1, <1>2, <1>3, <1>6, <2>6 DEF ReflectInv, ReflectTypeOK
  <2> QED
    BY <1>1, <1>3, <1>6, <2>5, <2>7 DEF ReflectInv, Once, Recalls, Apart, EndsWith
<1> QED
  BY <1>5, <1>6 DEF DieAfterTick

LEMMA NextReflectInv == RecordInv /\ ReflectInv /\ [ReflectNext]_allVars => ReflectInv'
<1> SUFFICES ASSUME RecordInv, ReflectInv, [ReflectNext]_allVars PROVE ReflectInv'
  OBVIOUS
<1>1. CASE UNCHANGED allVars
  BY <1>1 DEF allVars, reflectVars, vars, disk, ReflectInv, ReflectTypeOK, Recorded,
              Once, Recalls, Apart, EndsWith
<1> QED
  BY <1>1, QuietSteps, RecordStep, WriteMetaStep, ReflectStep, WriteAuditStep,
     DieAfterTickStep DEF ReflectNext

LEMMA SpecReflectInv == ReflectSpec => []ReflectInv
BY InitReflectInv, NextReflectInv, ReflectRecordInv, PTL DEF ReflectSpec

\* The memory never outgrows its cap and run.json its fields.
THEOREM ReflectTypeCorrect == ReflectSpec => []ReflectTypeOK
<1>1. ReflectInv => ReflectTypeOK
  BY DEF ReflectInv
<1> QED
  BY <1>1, SpecReflectInv, PTL

\* No day is reflected on twice, and every reflection is on recorded days,
\* however often the cap cuts the memory or a crash tears it.
THEOREM OneReflectionPerDay == ReflectSpec => []ReflectedOnce
<1>1. ReflectInv => ReflectedOnce
  BY DEF ReflectInv, ReflectedOnce, Once, Recalls
<1> QED
  BY <1>1, SpecReflectInv, PTL

\* What run.json says of the agent's education is true at any moment, also
\* after a crash between its two writes or inside the memory's.
THEOREM TruthfulAudit == ReflectSpec => []RunJsonTruthful
<1>1. ReflectInv => RunJsonTruthful
  BY DEF ReflectInv, RunJsonTruthful, Apart, EndsWith
<1> QED
  BY <1>1, SpecReflectInv, PTL

\* The safety of the record under tick_and_reflect.
THEOREM RecordUnderReflection ==
  ReflectSpec => /\ []RecordedDaysAreGenuine
                 /\ []LoggedVerdictsAreCached
                 /\ VerdictsFrozen
                 /\ ImplementsTrackRecord
BY ReflectKeepsRecord, GenuineRecord, LogIsTruthful, FrozenVerdicts,
   RecordIsTrackRecord, PTL
=============================================================================
