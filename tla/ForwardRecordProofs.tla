------------------------- MODULE ForwardRecordProofs -------------------------
(***************************************************************************)
(* Theorems about ForwardRecord, for every universe, calendar, retry       *)
(* bound, set of unhealable calls and number of crashes, and whether or    *)
(* not the feed has gaps.                                                  *)
(***************************************************************************)
EXTENDS ForwardRecord, TLAPS, FiniteSetTheorems, WellFoundedInduction

(***************************************************************************)
(* Dates.                                                                  *)
(***************************************************************************)

\* A nonempty set of dates has a first one, and Min is it.
LEMMA MinOfDates ==
  ASSUME NEW S \in SUBSET Dates, S # {}
  PROVE  Min(S) \in S /\ \A x \in S : Min(S) <= x
<1>1. S \subseteq Nat
  BY DatesAssumption DEF Dates
<1>2. PICK m \in S : \A x \in S : ~(<<x, m>> \in OpToRel(<, Nat))
  BY <1>1, WFMin, NatLessThanWellFounded
<1>3. ASSUME NEW x \in S PROVE m <= x
  <2>1. ~(<<x, m>> \in {p \in Nat \X Nat : p[1] < p[2]})
    BY <1>2 DEF OpToRel
  <2>2. x \in Nat /\ m \in Nat
    BY <1>1
  <2> QED
    BY <2>1, <2>2
<1> QED
  BY <1>3 DEF Min

\* A nonempty set of dates has a last one, and Max is it.
LEMMA MaxOfDates ==
  ASSUME NEW S \in SUBSET Dates, S # {}
  PROVE  Max(S) \in S /\ \A x \in S : x <= Max(S)
<1> DEFINE T == {n \in Dates : MaxDate + 1 - n \in S}
<1>1. \A x \in S : MaxDate + 1 - x \in T
  BY DatesAssumption DEF Dates
<1>2. T \in SUBSET Dates /\ T # {}
  BY <1>1
<1>3. Min(T) \in T /\ \A x \in T : Min(T) <= x
  BY <1>2, MinOfDates
<1> DEFINE m == MaxDate + 1 - Min(T)
<1>4. m \in S /\ \A x \in S : m >= x
  BY <1>1, <1>3, DatesAssumption DEF Dates
<1>5. \A x \in S : Max(S) >= x
  BY <1>4 DEF Max
<1> QED
  BY <1>4, <1>5, DatesAssumption DEF Max, Dates

(***************************************************************************)
(* Type correctness.                                                       *)
(***************************************************************************)

LEMMA InitTypeOK == Init => TypeOK
<1> SUFFICES ASSUME Init PROVE TypeOK
  OBVIOUS
<1>1. bars \in [Symbols -> SUBSET Dates]
  <2>1. PICK h \in [Symbols -> Dates] : bars = [s \in Symbols |-> Prefix(h[s])]
    BY DEF Init
  <2>2. \A s \in Symbols : Prefix(h[s]) \in SUBSET Dates
    BY DatesAssumption DEF Dates, Prefix
  <2> QED
    BY <2>1, <2>2
<1>2. \E D \in SUBSET Dates : returns \in [D -> Bases]
  <2>1. returns \in [{} -> Bases]
    BY DEF Init
  <2> QED
    BY <2>1
<1>3. log \in [Symbols -> [Dates -> Answer]]
  <2>1. NoRow \in Answer
    BY DEF NoRow, Answer, Positions
  <2> QED
    BY <2>1 DEF Init
<1>4. /\ status \in [Symbols -> [Dates -> Statuses]]
      /\ pos \in [Symbols -> [Dates -> Positions]]
      /\ wstat \in [Symbols -> [Dates -> Statuses]]
      /\ wpos \in [Symbols -> [Dates -> Positions]]
  BY DEF Init, NoStatus, Flat, Statuses, Positions
<1>5. crashes \in 0..MaxCrashes
  BY BoundsAssumption DEF Init
<1> QED
  BY <1>1, <1>2, <1>3, <1>4, <1>5 DEF Init, TypeOK

\* The held position of a symbol is a position.
LEMMA HeldType ==
  ASSUME TypeOK, NEW s \in Symbols, NEW d \in Dates
  PROVE  Held(s, d) \in Positions
<1> DEFINE E == {e \in Dates : e < d /\ wstat[s][e] # "none"}
<1>1. CASE E = {}
  BY <1>1 DEF Held, Positions
<1>2. CASE E # {}
  <2>1. Max(E) \in Dates
    BY <1>2, MaxOfDates
  <2> QED
    BY <1>2, <2>1 DEF Held, TypeOK
<1> QED
  BY <1>1, <1>2

\* What decide_all leaves in the tick's dictionaries is well typed.
LEMMA DecideType ==
  ASSUME TypeOK, NEW d \in Dates, NEW answered \in SUBSET Symbols,
         NEW verdict \in [answered -> Targets], Decide(d, answered, verdict)
  PROVE  /\ wstat' \in [Symbols -> [Dates -> Statuses]]
         /\ wpos' \in [Symbols -> [Dates -> Positions]]
         /\ newRows' \in SUBSET (Symbols \X Dates)
<1>1. wstat' \in [Symbols -> [Dates -> Statuses]]
  BY DEF TypeOK, Decide, Statuses
<1>2. wpos' \in [Symbols -> [Dates -> Positions]]
  <2> DEFINE cell(s) == IF s \in answered THEN verdict[s]
                        ELSE IF s \in Todo(d) THEN Held(s, d) ELSE wpos[s][d]
  <2>1. \A s \in Symbols : cell(s) \in Positions
    BY HeldType DEF TypeOK, Positions
  <2>2. wpos' = [s \in Symbols |-> [wpos[s] EXCEPT ![d] = cell(s)]]
    BY DEF Decide
  <2>3. \A s \in Symbols : [wpos[s] EXCEPT ![d] = cell(s)] \in [Dates -> Positions]
    BY <2>1 DEF TypeOK
  <2> QED
    BY <2>2, <2>3
<1>3. newRows' \in SUBSET (Symbols \X Dates)
  BY DEF TypeOK, Decide, Todo
<1> QED
  BY <1>1, <1>2, <1>3

\* The basis of a day that every leg covers.
LEMMA BasisType ==
  ASSUME TypeOK, NEW p \in [Symbols -> [Dates -> Positions]],
         NEW d \in Dates, FullCoverage(d)
  PROVE  Basis(p, d) \in Bases
<1> DEFINE prev(s) == IF Earlier(s, d) = {} THEN 0 ELSE p[s][Max(Earlier(s, d))]
<1>1. ASSUME NEW s \in Symbols
      PROVE  prev(s) \in Positions /\ Min(Later(s, d)) \in Dates
  <2>1. Earlier(s, d) \in SUBSET Dates /\ Later(s, d) \in SUBSET Dates
    BY DEF TypeOK, Earlier, Later
  <2>2. Min(Later(s, d)) \in Dates
    BY <2>1, MinOfDates DEF FullCoverage
  <2>3. CASE Earlier(s, d) = {}
    BY <2>2, <2>3 DEF Positions
  <2>4. CASE Earlier(s, d) # {}
    <3>1. Max(Earlier(s, d)) \in Dates
      BY <2>1, <2>4, MaxOfDates
    <3> QED
      BY <2>2, <2>4, <3>1
  <2> QED
    BY <2>3, <2>4
<1> HIDE DEF prev
<1>2. Basis(p, d) = [s \in Symbols |->
                       [prev |-> prev(s), pos |-> p[s][d], next |-> Min(Later(s, d))]]
  BY DEF Basis, prev
<1> QED
  BY <1>1, <1>2 DEF Bases

\* New days are dates of the net series, hence fully covered dates on which
\* every name was answered.
LEMMA NewDatesGenuine ==
  ASSUME TypeOK, NEW d \in NewDates
  PROVE  /\ d \in Dates
         /\ FullCoverage(d)
         /\ d \notin Excluded
         /\ \A s \in Symbols : wstat[s][d] = "ok"
<1>1. d \in Index /\ d \notin Excluded /\ FullCoverage(d)
  BY DEF NewDates, NetDates
<1>2. d \in Dates
  BY <1>1 DEF Index, TypeOK
<1>3. \A s \in Symbols : wstat[s][d] = "ok"
  BY <1>1 DEF Excluded, NotOk, FullCoverage
<1> QED
  BY <1>1, <1>2, <1>3

\* The rows appended to the log are well-typed answers.
LEMMA AppendedType ==
  ASSUME TypeOK, NewRowsDecided, NEW R \in SUBSET newRows
  PROVE  Appended(R) \in [Symbols -> [Dates -> Answer]]
<1>1. ASSUME NEW s \in Symbols, NEW d \in Dates
      PROVE  (IF <<s, d>> \in R THEN LogRow(s, d) ELSE log[s][d]) \in Answer
  <2>1. CASE <<s, d>> \in R
    BY <2>1 DEF TypeOK, NewRowsDecided, LogRow, Answer
  <2>2. CASE <<s, d>> \notin R
    BY <2>2 DEF TypeOK
  <2> QED
    BY <2>1, <2>2
<1> QED
  BY <1>1 DEF Appended

\* returns.csv after a tick: well typed, the recorded rows unchanged.
LEMMA ReturnsType ==
  ASSUME TypeOK, WriteReturns
  PROVE  \E D \in SUBSET Dates : returns' \in [D -> Bases]
<1> DEFINE D == Recorded \cup NewDates
<1>1. Recorded \in SUBSET Dates /\ \A d \in Recorded : returns[d] \in Bases
  BY DEF TypeOK, Recorded
<1>2. ASSUME NEW d \in NewDates PROVE d \in Dates /\ Basis(wpos, d) \in Bases
  <2>1. d \in Dates /\ FullCoverage(d)
    BY NewDatesGenuine
  <2>2. wpos \in [Symbols -> [Dates -> Positions]]
    BY DEF TypeOK
  <2> QED
    BY <2>1, <2>2, BasisType
<1>3. D \in SUBSET Dates
  BY <1>1, <1>2
<1>4. returns' \in [D -> Bases]
  BY <1>1, <1>2 DEF WriteReturns
<1> QED
  BY <1>3, <1>4

LEMMA NextTypeOK ==
  ASSUME TypeOK, NewRowsDecided, [Next]_vars
  PROVE  TypeOK'
<1>1. CASE Refresh
  BY <1>1 DEF Refresh, TypeOK, disk, work
<1>2. CASE StartTick
  BY <1>2 DEF StartTick, TypeOK, disk, Loaded, Statuses, Positions
<1>3. ASSUME NEW d \in Dates, DecideBar(d) PROVE TypeOK'
  <2>1. PICK answered \in SUBSET Answerable(d) :
          \E verdict \in [answered -> Targets] : Decide(d, answered, verdict)
    BY <1>3 DEF DecideBar
  <2>2. answered \in SUBSET Symbols
    BY DEF Answerable, Todo
  <2> QED
    BY <1>3, <2>1, <2>2, DecideType DEF DecideBar, TypeOK, disk
<1>4. CASE EndDecide
  BY <1>4 DEF EndDecide, TypeOK, disk, work
<1>5. ASSUME NEW s \in Symbols, WritePos(s) PROVE TypeOK'
  BY <1>5 DEF WritePos, TypeOK
<1>6. CASE AppendLog
  <2>1. log' \in [Symbols -> [Dates -> Answer]]
    BY <1>6, AppendedType DEF AppendLog
  <2> QED
    BY <1>6, <2>1 DEF AppendLog, TypeOK, work
<1>7. NoStatus \in [Symbols -> [Dates -> Statuses]]
      /\ Flat \in [Symbols -> [Dates -> Positions]]
  BY DEF NoStatus, Flat, Statuses, Positions
<1>8. CASE WriteReturns
  BY <1>7, <1>8, ReturnsType DEF WriteReturns, TypeOK
<1>9. CASE Crash
  <2>1. log' \in [Symbols -> [Dates -> Answer]]
    BY <1>9, AppendedType DEF Crash, TypeOK
  <2>2. crashes' \in 0..MaxCrashes
    BY <1>9, BoundsAssumption DEF Crash, TypeOK
  <2> QED
    BY <1>7, <1>9, <2>1, <2>2 DEF Crash, TypeOK
<1>10. CASE UNCHANGED vars
  BY <1>10 DEF TypeOK, vars, disk, work
<1> QED
  BY <1>1, <1>2, <1>3, <1>4, <1>5, <1>6, <1>8, <1>9, <1>10 DEF Next, TickStep

(***************************************************************************)
(* The tick and the files.                                                 *)
(***************************************************************************)

\* decide_all touches only the rows it was asked about.
LEMMA DecideFrame ==
  ASSUME TypeOK, NEW e \in Dates, DecideBar(e),
         NEW s \in Symbols, NEW d \in Dates, wstat[s][d] # "none"
  PROVE  wstat'[s][d] = wstat[s][d] /\ wpos'[s][d] = wpos[s][d]
<1>1. PICK answered \in SUBSET Answerable(e) :
        \E verdict \in [answered -> Targets] : Decide(e, answered, verdict)
  BY DEF DecideBar
<1>2. d = e => s \notin Todo(e) /\ s \notin answered
  BY DEF Answerable, Todo
<1> QED
  BY <1>1, <1>2 DEF Decide, TypeOK

LEMMA NextWork ==
  ASSUME TypeOK, WorkKeepsVerdicts, WrittenFilesAgree, [Next]_vars
  PROVE  WorkKeepsVerdicts'
<1>1. CASE Refresh
  BY <1>1 DEF Refresh, WorkKeepsVerdicts, disk, work
<1>2. CASE StartTick
  BY <1>2 DEF StartTick, WorkKeepsVerdicts, TypeOK, disk, Loaded, HasFile, Unfrozen
<1>3. ASSUME NEW d \in Dates, DecideBar(d) PROVE WorkKeepsVerdicts'
  BY <1>3, DecideFrame DEF DecideBar, WorkKeepsVerdicts, disk
<1>4. CASE EndDecide
  BY <1>4 DEF EndDecide, WorkKeepsVerdicts, disk, work
<1>5. ASSUME NEW s \in Symbols, WritePos(s) PROVE WorkKeepsVerdicts'
  BY <1>5 DEF WritePos, WorkKeepsVerdicts, TypeOK
<1>6. CASE AppendLog
  BY <1>6 DEF AppendLog, WorkKeepsVerdicts, work
<1>7. CASE WriteReturns
  BY <1>7 DEF WriteReturns, WorkKeepsVerdicts
<1>8. CASE Crash
  BY <1>8 DEF Crash, WorkKeepsVerdicts
<1>9. CASE UNCHANGED vars
  BY <1>9 DEF WorkKeepsVerdicts, vars, disk, work
<1> QED
  BY <1>1, <1>2, <1>3, <1>4, <1>5, <1>6, <1>7, <1>8, <1>9 DEF Next, TickStep

LEMMA NextWritten ==
  ASSUME TypeOK, WrittenFilesAgree, [Next]_vars
  PROVE  WrittenFilesAgree'
<1>1. CASE Refresh
  BY <1>1 DEF Refresh, WrittenFilesAgree, disk, work
<1>2. CASE StartTick
  BY <1>2 DEF StartTick, WrittenFilesAgree
<1>3. ASSUME NEW d \in Dates, DecideBar(d) PROVE WrittenFilesAgree'
  BY <1>3 DEF DecideBar, WrittenFilesAgree, disk
<1>4. CASE EndDecide
  BY <1>4 DEF EndDecide, WrittenFilesAgree, disk, work
<1>5. ASSUME NEW s \in Symbols, WritePos(s) PROVE WrittenFilesAgree'
  BY <1>5 DEF WritePos, WrittenFilesAgree, TypeOK
<1>6. CASE AppendLog
  BY <1>6 DEF AppendLog, WrittenFilesAgree, work
<1>7. CASE WriteReturns
  BY <1>7 DEF WriteReturns, WrittenFilesAgree
<1>8. CASE Crash
  BY <1>8 DEF Crash, WrittenFilesAgree
<1>9. CASE UNCHANGED vars
  BY <1>9 DEF WrittenFilesAgree, vars, disk, work
<1> QED
  BY <1>1, <1>2, <1>3, <1>4, <1>5, <1>6, <1>7, <1>8, <1>9 DEF Next, TickStep

LEMMA NextNewRows ==
  ASSUME TypeOK, NewRowsDecided, [Next]_vars
  PROVE  NewRowsDecided'
<1>1. CASE Refresh
  BY <1>1 DEF Refresh, NewRowsDecided, disk, work
<1>2. CASE StartTick
  BY <1>2 DEF StartTick, NewRowsDecided
<1>3. ASSUME NEW e \in Dates, DecideBar(e) PROVE NewRowsDecided'
  <2>1. PICK answered \in SUBSET Answerable(e) :
          \E verdict \in [answered -> Targets] : Decide(e, answered, verdict)
    BY <1>3 DEF DecideBar
  <2> SUFFICES ASSUME NEW s \in Symbols, NEW d \in Dates, <<s, d>> \in newRows'
               PROVE  wstat'[s][d] \in {"ok", "failed"}
    BY DEF NewRowsDecided
  <2>2. CASE <<s, d>> \in newRows
    <3>1. wstat[s][d] \in {"ok", "failed"}
      BY <2>2 DEF NewRowsDecided
    <3> QED
      BY <1>3, <3>1, DecideFrame
  <2>3. CASE <<s, d>> \notin newRows
    <3>1. s \in Todo(e) /\ d = e
      BY <2>1, <2>3 DEF Decide
    <3> QED
      BY <2>1, <3>1 DEF Decide, TypeOK
  <2> QED
    BY <2>2, <2>3
<1>4. CASE EndDecide
  BY <1>4 DEF EndDecide, NewRowsDecided, disk, work
<1>5. ASSUME NEW s \in Symbols, WritePos(s) PROVE NewRowsDecided'
  BY <1>5 DEF WritePos, NewRowsDecided
<1>6. CASE AppendLog
  BY <1>6 DEF AppendLog, NewRowsDecided, work
<1>7. CASE WriteReturns
  BY <1>7 DEF WriteReturns, NewRowsDecided
<1>8. CASE Crash
  BY <1>8 DEF Crash, NewRowsDecided
<1>9. CASE UNCHANGED vars
  BY <1>9 DEF NewRowsDecided, vars, disk, work
<1> QED
  BY <1>1, <1>2, <1>3, <1>4, <1>5, <1>6, <1>7, <1>8, <1>9 DEF Next, TickStep

(***************************************************************************)
(* Verdicts, record and log.                                               *)
(***************************************************************************)

\* No step changes a settled row of a pos file.
LEMMA StepKeepsVerdicts ==
  ASSUME TypeOK, WorkKeepsVerdicts, [Next]_vars,
         NEW s \in Symbols, NEW d \in Dates, status[s][d] \in {"ok", "legacy"}
  PROVE  status'[s][d] = status[s][d] /\ pos'[s][d] = pos[s][d]
<1>1. ASSUME NEW r \in Symbols, WritePos(r)
      PROVE  status'[s][d] = status[s][d] /\ pos'[s][d] = pos[s][d]
  BY <1>1 DEF WritePos, WorkKeepsVerdicts, TypeOK
<1>2. CASE UNCHANGED <<status, pos>>
  BY <1>2
<1> QED
  BY <1>1, <1>2 DEF Next, TickStep, Refresh, StartTick, DecideBar, EndDecide,
                    AppendLog, WriteReturns, Crash, vars, disk

\* Days enter the record only in WriteReturns, and never leave it.
LEMMA RecordSteps ==
  ASSUME [Next]_vars
  PROVE  returns' = returns \/ WriteReturns
BY DEF Next, TickStep, Refresh, StartTick, DecideBar, EndDecide, WritePos,
       AppendLog, Crash, vars, disk

LEMMA NextGenuine ==
  ASSUME TypeOK, WorkKeepsVerdicts, WrittenFilesAgree,
         RecordedDaysAreGenuine, [Next]_vars
  PROVE  RecordedDaysAreGenuine'
<1> SUFFICES ASSUME NEW d \in DOMAIN returns', NEW s \in Symbols
             PROVE  status'[s][d] = "ok"
  BY DEF RecordedDaysAreGenuine, Recorded
<1>1. CASE d \in Recorded
  <2>1. status[s][d] = "ok" /\ d \in Dates
    BY <1>1 DEF RecordedDaysAreGenuine, TypeOK, Recorded
  <2> QED
    BY <2>1, StepKeepsVerdicts
<1>2. CASE d \notin Recorded
  <2>1. WriteReturns
    BY <1>2, RecordSteps DEF Recorded
  <2>2. d \in NewDates
    BY <1>2, <2>1 DEF WriteReturns
  <2>3. wstat[s][d] = "ok"
    BY <2>2, NewDatesGenuine
  <2>4. status' = status /\ status[s] = wstat[s]
    BY <2>1 DEF WriteReturns, WrittenFilesAgree
  <2> QED
    BY <2>3, <2>4
<1> QED
  BY <1>1, <1>2

\* A row that reaches the log describes the pos file, which is already
\* written; a row that is in the log describes a verdict, which is frozen.
LEMMA NextLogged ==
  ASSUME TypeOK, WorkKeepsVerdicts, WrittenFilesAgree,
         LoggedVerdictsAreCached, [Next]_vars
  PROVE  LoggedVerdictsAreCached'
<1> SUFFICES ASSUME NEW s \in Symbols, NEW d \in Dates,
                    log'[s][d].status = "ok"
             PROVE  status'[s][d] = "ok" /\ pos'[s][d] = log'[s][d].target
  BY DEF LoggedVerdictsAreCached
<1>1. CASE log'[s][d] = log[s][d]
  <2>1. status[s][d] = "ok" /\ pos[s][d] = log[s][d].target
    BY <1>1 DEF LoggedVerdictsAreCached
  <2> QED
    BY <1>1, <2>1, StepKeepsVerdicts
<1>2. CASE log'[s][d] # log[s][d]
  <2>1. /\ pc = "log"
        /\ status' = status /\ pos' = pos
        /\ \E R \in SUBSET newRows : log' = Appended(R)
    BY <1>2 DEF Next, TickStep, Refresh, StartTick, DecideBar, EndDecide,
                WritePos, AppendLog, WriteReturns, Crash, vars, disk
  <2>2. log'[s][d] = LogRow(s, d)
    BY <1>2, <2>1 DEF Appended
  <2>3. status[s] = wstat[s] /\ pos[s] = wpos[s]
    BY <2>1 DEF WrittenFilesAgree
  <2> QED
    BY <2>1, <2>2, <2>3 DEF LogRow
<1> QED
  BY <1>1, <1>2

(***************************************************************************)
(* The inductive invariant, and what follows from it.                      *)
(***************************************************************************)

LEMMA InitRecordInv == Init => RecordInv
<1> SUFFICES ASSUME Init PROVE RecordInv
  OBVIOUS
<1>1. TypeOK
  BY InitTypeOK
<1>2. WorkKeepsVerdicts /\ WrittenFilesAgree /\ NewRowsDecided
  BY DEF Init, WorkKeepsVerdicts, WrittenFilesAgree, NewRowsDecided
<1>3. RecordedDaysAreGenuine /\ LoggedVerdictsAreCached
  BY DEF Init, RecordedDaysAreGenuine, Recorded, LoggedVerdictsAreCached, NoRow
<1> QED
  BY <1>1, <1>2, <1>3 DEF RecordInv

LEMMA NextRecordInv == RecordInv /\ [Next]_vars => RecordInv'
BY NextTypeOK, NextWork, NextWritten, NextNewRows, NextGenuine, NextLogged
DEF RecordInv

LEMMA SpecRecordInv == Spec => []RecordInv
BY InitRecordInv, NextRecordInv, PTL DEF Spec

\* The files and the running tick always have the types of the model.
THEOREM TypeCorrect == Spec => []TypeOK
<1>1. RecordInv => TypeOK
  BY DEF RecordInv
<1> QED
  BY <1>1, SpecRecordInv, PTL

\* Whatever fails, is retried, crashes or arrives late: returns.csv only
\* holds days on which every name was genuinely answered.
THEOREM GenuineRecord == Spec => []RecordedDaysAreGenuine
<1>1. RecordInv => RecordedDaysAreGenuine
  BY DEF RecordInv
<1> QED
  BY <1>1, SpecRecordInv, PTL

\* A verdict in the append-only log is the verdict of the cache, although a
\* tick may die between the files it writes.
THEOREM LogIsTruthful == Spec => []LoggedVerdictsAreCached
<1>1. RecordInv => LoggedVerdictsAreCached
  BY DEF RecordInv
<1> QED
  BY <1>1, SpecRecordInv, PTL

\* A genuine verdict is never re-decided and a seeded row never changes.
THEOREM FrozenVerdicts == Spec => VerdictsFrozen
<1> DEFINE Frozen ==
      \A s \in Symbols, d \in Dates :
        status[s][d] \in {"ok", "legacy"} =>
          status'[s][d] = status[s][d] /\ pos'[s][d] = pos[s][d]
<1>1. RecordInv /\ [Next]_vars => [Frozen]_vars
  BY StepKeepsVerdicts DEF RecordInv
<1>2. VerdictsFrozen <=> [][Frozen]_vars
  BY DEF VerdictsFrozen
<1> HIDE DEF Frozen
<1> QED
  BY <1>1, <1>2, SpecRecordInv, PTL DEF Spec

(***************************************************************************)
(* The record only grows, and only forward.                                *)
(***************************************************************************)

\* One tick's effect on returns.csv.
LEMMA WriteReturnsAppends ==
  ASSUME TypeOK, WriteReturns
  PROVE  /\ \A d \in Recorded : d \in Recorded' /\ returns'[d] = returns[d]
         /\ IF Recorded = {} THEN Cardinality(Recorded') <= 1
            ELSE \A d \in Recorded' : d >= Min(Recorded)
<1>1. Recorded' = Recorded \cup NewDates
  BY DEF WriteReturns, Recorded
<1>2. \A d \in Recorded : d \in Recorded' /\ returns'[d] = returns[d]
  BY <1>1 DEF WriteReturns
<1>3. CASE Recorded = {}
  <2>1. Recorded' \in SUBSET {Max(NetDates)}
    BY <1>1, <1>3 DEF NewDates
  <2>2. Cardinality(Recorded') <= 1
    <3>1. IsFiniteSet({Max(NetDates)}) /\ Cardinality({Max(NetDates)}) = 1
      BY FS_Singleton
    <3> HIDE DEF Recorded
    <3> QED
      BY <2>1, <3>1, FS_Subset
  <2> QED
    BY <1>2, <1>3, <2>2
<1>4. CASE Recorded # {}
  <2>1. Recorded \in SUBSET Dates
    BY DEF TypeOK, Recorded
  <2>2. Min(Recorded) \in Recorded /\ \A x \in Recorded : Min(Recorded) <= x
    BY <1>4, <2>1, MinOfDates
  <2>3. Max(Recorded) \in Recorded
    BY <1>4, <2>1, MaxOfDates
  <2>4. ASSUME NEW d \in NewDates PROVE d >= Min(Recorded)
    <3>1. d \in Dates
      BY NewDatesGenuine
    <3>2. d > Max(Recorded) \/ d > Min(Recorded)
      BY <1>4 DEF NewDates
    <3>3. Min(Recorded) \in Int /\ Max(Recorded) \in Int /\ d \in Int
      <4>1. Dates \subseteq Int
        BY DatesAssumption DEF Dates
      <4> QED
        BY <2>1, <2>2, <2>3, <3>1, <4>1
    <3>4. Min(Recorded) <= Max(Recorded)
      BY <2>2, <2>3
    <3> QED
      BY <3>2, <3>3, <3>4
  <2>5. \A d \in Recorded' : d >= Min(Recorded)
    BY <1>1, <2>1, <2>2, <2>4 DEF Dates
  <2> QED
    BY <1>2, <1>4, <2>5
<1> QED
  BY <1>3, <1>4

(***************************************************************************)
(* The record implements TrackRecord.                                      *)
(***************************************************************************)

\* What the record and the pos files are to TrackRecord.
Known == [s \in Symbols |-> [d \in Dates |->
            IF status[s][d] = "ok" THEN {pos[s][d]} ELSE {}]]
Entered == [d \in Recorded |-> [s \in Symbols |-> {returns[d][s].pos}]]

LEMMA InitTrack == Init => Track!Init
<1> SUFFICES ASSUME Init PROVE Track!Init
  OBVIOUS
<1>1. Known = [s \in Symbols |-> [d \in Dates |-> {}]]
  BY DEF Init, NoStatus, Known
<1>2. Entered = <<>>
  BY DEF Init, Entered, Recorded
<1> QED
  BY <1>1, <1>2 DEF Track!Init, Known, Entered

\* A verdict that stands in a pos file is known for ever.
LEMMA KnownStands ==
  ASSUME TypeOK, WorkKeepsVerdicts, [Next]_vars, TypeOK'
  PROVE  /\ Known' \in [Symbols -> [Dates -> {{}} \cup {{p} : p \in Positions}]]
         /\ \A s \in Symbols, d \in Dates :
              Known[s][d] # {} => Known'[s][d] = Known[s][d]
<1>1. \A s \in Symbols, d \in Dates : pos'[s][d] \in Positions
  BY DEF TypeOK
<1>2. Known' \in [Symbols -> [Dates -> {{}} \cup {{p} : p \in Positions}]]
  BY <1>1 DEF Known
<1>3. ASSUME NEW s \in Symbols, NEW d \in Dates, Known[s][d] # {}
      PROVE  Known'[s][d] = Known[s][d]
  <2>1. status[s][d] = "ok"
    BY <1>3 DEF Known
  <2>2. status'[s][d] = "ok" /\ pos'[s][d] = pos[s][d]
    BY <2>1, StepKeepsVerdicts
  <2> QED
    BY <2>1, <2>2 DEF Known
<1> QED
  BY <1>2, <1>3

\* A tick enters the new days with the verdicts of the pos files.
LEMMA WriteReturnsEnters ==
  ASSUME TypeOK, WrittenFilesAgree, WriteReturns, NEW D, D = NewDates
  PROVE  Track!Enter(D)
<1>1. status = wstat /\ pos = wpos
  BY DEF WriteReturns, WrittenFilesAgree, TypeOK
<1>2. DOMAIN Entered = Recorded /\ Recorded \in SUBSET Dates
  BY DEF Entered, TypeOK, Recorded
<1>3. ASSUME NEW d \in D
      PROVE  /\ d \in Dates /\ d \notin Recorded
             /\ \A s \in Symbols : status[s][d] = "ok" /\ Known[s][d] = {pos[s][d]}
             /\ Recorded # {} => \E r \in Recorded : r < d
  <2>1. d \in Dates /\ \A s \in Symbols : wstat[s][d] = "ok"
    BY NewDatesGenuine
  <2>2. CASE Recorded = {}
    BY <1>1, <2>1, <2>2 DEF Known
  <2>3. CASE Recorded # {}
    <3>1. Max(Recorded) \in Recorded /\ Min(Recorded) \in Recorded
          /\ \A x \in Recorded : x <= Max(Recorded)
      BY <1>2, <2>3, MinOfDates, MaxOfDates
    <3>2. d > Max(Recorded) \/ (d > Min(Recorded) /\ d \notin Recorded)
      BY <2>3 DEF NewDates
    <3>3. Max(Recorded) \in Int /\ Min(Recorded) \in Int /\ d \in Int
      <4>1. Dates \subseteq Int
        BY DatesAssumption DEF Dates
      <4> QED
        BY <1>2, <2>1, <3>1, <4>1
    <3>4. d \notin Recorded /\ \E r \in Recorded : r < d
      BY <3>1, <3>2, <3>3
    <3> QED
      BY <1>1, <2>1, <3>4 DEF Known
  <2> QED
    BY <2>2, <2>3
<1>4. Recorded = {} => \A d, e \in D : d = e
  BY DEF NewDates
<1>5. Known' = Known
  BY DEF WriteReturns, Known
<1>6. Recorded' = Recorded \cup D
  BY DEF WriteReturns, Recorded
<1>7. Entered' = [d \in Recorded \cup D |->
                    IF d \in Recorded THEN Entered[d] ELSE [s \in Symbols |-> Known[s][d]]]
  <2>1. ASSUME NEW d \in Recorded
        PROVE  [s \in Symbols |-> {returns'[d][s].pos}] = Entered[d]
    BY DEF WriteReturns, Entered
  <2>2. ASSUME NEW d \in D, d \notin Recorded
        PROVE  [s \in Symbols |-> {returns'[d][s].pos}] = [s \in Symbols |-> Known[s][d]]
    <3>1. returns'[d] = Basis(wpos, d)
      BY <2>2 DEF WriteReturns
    <3>2. \A s \in Symbols : returns'[d][s].pos = pos[s][d]
      BY <1>1, <3>1 DEF Basis
    <3> QED
      BY <1>3, <3>2
  <2>3. Entered' = [d \in Recorded' |-> [s \in Symbols |-> {returns'[d][s].pos}]]
    BY DEF Entered
  <2> QED
    BY <1>6, <2>1, <2>2, <2>3
<1> QED
  BY <1>2, <1>3, <1>4, <1>5, <1>7 DEF Track!Enter, Track!Judged, Known, Entered

LEMMA StepTrack == RecordInv /\ [Next]_vars => [Track!Next]_<<Known, Entered>>
<1> SUFFICES ASSUME RecordInv, [Next]_vars
             PROVE  Track!Next
  OBVIOUS
<1> USE DEF RecordInv
<1>1. CASE WriteReturns
  <2>1. NewDates \in SUBSET Dates
    BY NewDatesGenuine
  <2>2. PICK D \in SUBSET Dates : D = NewDates
    BY <2>1
  <2>3. Track!Enter(D)
    BY <1>1, <2>2, WriteReturnsEnters
  <2> QED
    BY <2>3 DEF Track!Next
<1>2. CASE returns' = returns
  <2>1. TypeOK'
    BY NextTypeOK
  <2>2. Entered' = Entered
    BY <1>2 DEF Entered, Recorded
  <2>3. Track!Judge
    BY <2>1, <2>2, KnownStands DEF Track!Judge, Track!AtMostOne, Known, Entered
  <2> QED
    BY <2>3 DEF Track!Next
<1> QED
  BY <1>1, <1>2, RecordSteps

\* Whatever fails, is retried, crashes or arrives late, the record is one
\* that only grows, forward of its first day, with days on which every name
\* had a verdict, and keeps what it says of them.
THEOREM RecordIsTrackRecord == Spec => ImplementsTrackRecord
<1>1. RecordInv /\ [Next]_vars => [Track!Next]_<<Known, Entered>>
  BY StepTrack
<1>2. Track!Spec <=> Track!Init /\ [][Track!Next]_<<Known, Entered>>
  BY DEF Track!Spec, Known, Entered
<1> QED
  BY <1>1, <1>2, InitTrack, SpecRecordInv, PTL DEF Spec, ImplementsTrackRecord

(***************************************************************************)
(* With a feed that delivers bars in order, the record reproduces.         *)
(***************************************************************************)

\* The neighbours of a bar are the trading days before and after it.
LEMMA Neighbours ==
  ASSUME TypeOK, BarsInOrder, NEW s \in Symbols, NEW d \in bars[s]
  PROVE  /\ d \in Dates
         /\ Earlier(s, d) = {} <=> d = 1
         /\ d > 1 => d - 1 \in bars[s] /\ Max(Earlier(s, d)) = d - 1
         /\ Later(s, d) # {} => Min(Later(s, d)) = d + 1
<1>1. PICK h \in Dates : bars[s] = 1..h
  BY DEF BarsInOrder, Prefix
<1>2. h \in Nat /\ d \in 1..h /\ d \in Dates
  BY <1>1, DatesAssumption DEF Dates
<1>3. Earlier(s, d) = 1..(d - 1)
  BY <1>1, <1>2 DEF Earlier
<1>4. Later(s, d) = (d + 1)..h
  BY <1>1, <1>2 DEF Later
<1>5. ASSUME d > 1 PROVE Max(Earlier(s, d)) = d - 1
  <2>1. Earlier(s, d) \in SUBSET Dates /\ d - 1 \in Earlier(s, d)
    BY <1>1, <1>2, <1>3, <1>5, DatesAssumption DEF Dates
  <2>2. Max(Earlier(s, d)) \in 1..(d - 1) /\ d - 1 <= Max(Earlier(s, d))
    BY <1>3, <2>1, MaxOfDates
  <2> QED
    BY <1>2, <2>2
<1>6. ASSUME Later(s, d) # {} PROVE Min(Later(s, d)) = d + 1
  <2>1. Later(s, d) \in SUBSET Dates /\ d + 1 \in Later(s, d)
    BY <1>1, <1>2, <1>4, <1>6 DEF TypeOK, Later
  <2>2. Min(Later(s, d)) \in (d + 1)..h /\ Min(Later(s, d)) <= d + 1
    BY <1>4, <2>1, MinOfDates
  <2> QED
    BY <1>2, <2>2
<1>7. Earlier(s, d) = {} <=> d = 1
  <2>1. d # 1 => 1 \in 1..(d - 1)
    BY <1>2
  <2>2. d = 1 => 1..(d - 1) = {}
    BY <1>2
  <2> QED
    BY <1>3, <2>1, <2>2
<1>8. d > 1 => d - 1 \in bars[s]
  BY <1>1, <1>2
<1> QED
  BY <1>2, <1>5, <1>6, <1>7, <1>8

\* The basis of a covered day, without reference to the bars.
BasisWithoutBars ==
  \A d \in Dates : FullCoverage(d) =>
    Basis(pos, d) = [s \in Symbols |->
                       [prev |-> IF d = 1 THEN 0 ELSE pos[s][d - 1],
                        pos  |-> pos[s][d],
                        next |-> d + 1]]

LEMMA BasisInOrder == TypeOK /\ BarsInOrder => BasisWithoutBars
<1> SUFFICES ASSUME TypeOK, BarsInOrder, NEW d \in Dates, FullCoverage(d)
             PROVE  Basis(pos, d) = [s \in Symbols |->
                                      [prev |-> IF d = 1 THEN 0 ELSE pos[s][d - 1],
                                       pos  |-> pos[s][d],
                                       next |-> d + 1]]
  BY DEF BasisWithoutBars
<1>1. ASSUME NEW s \in Symbols
      PROVE  /\ (IF Earlier(s, d) = {} THEN 0 ELSE pos[s][Max(Earlier(s, d))])
                   = (IF d = 1 THEN 0 ELSE pos[s][d - 1])
             /\ Min(Later(s, d)) = d + 1
  <2>1. d \in bars[s] /\ Later(s, d) # {}
    BY DEF FullCoverage
  <2>2. d = 1 \/ d > 1
    BY DatesAssumption DEF Dates
  <2> QED
    BY <2>1, <2>2, Neighbours
<1> QED
  BY <1>1 DEF Basis

LEMMA BasisInOrderNext == (TypeOK /\ BarsInOrder)' => BasisWithoutBars'
BY BasisInOrder, PTL

\* The price cache only grows, in order.
LEMMA NextBars ==
  ASSUME TypeOK, BarsInOrder, Gapless = TRUE, [Next]_vars
  PROVE  BarsInOrder' /\ \A s \in Symbols : bars[s] \subseteq bars'[s]
<1>1. CASE Refresh
  BY <1>1 DEF Refresh, BarsInOrder, Prefix
<1>2. CASE bars' = bars
  BY <1>2 DEF BarsInOrder, Prefix
<1> QED
  BY <1>1, <1>2 DEF Next, TickStep, StartTick, DecideBar, EndDecide, WritePos,
                    AppendLog, WriteReturns, Crash, vars

LEMMA NextAllDecided ==
  ASSUME TypeOK, AllDecided, [Next]_vars
  PROVE  AllDecided'
<1>1. CASE Refresh
  BY <1>1 DEF Refresh, AllDecided
<1>2. CASE StartTick
  BY <1>2 DEF StartTick, AllDecided
<1>3. ASSUME NEW d \in Dates, DecideBar(d) PROVE AllDecided'
  BY <1>3 DEF DecideBar, AllDecided
<1>4. CASE EndDecide
  <2> SUFFICES ASSUME NEW s \in Symbols, NEW d \in bars[s] PROVE wstat[s][d] # "none"
    BY <1>4 DEF EndDecide, AllDecided, work
  <2>1. d \in Index
    BY DEF Index
  <2>2. Todo(d) = {}
    BY <1>4, <2>1 DEF EndDecide, TodoDates
  <2> QED
    BY <2>2 DEF Todo
<1>5. ASSUME NEW s \in Symbols, WritePos(s) PROVE AllDecided'
  BY <1>5 DEF WritePos, AllDecided
<1>6. CASE AppendLog
  BY <1>6 DEF AppendLog, AllDecided, work
<1>7. CASE WriteReturns
  BY <1>7 DEF WriteReturns, AllDecided
<1>8. CASE Crash
  BY <1>8 DEF Crash, AllDecided
<1>9. CASE UNCHANGED vars
  BY <1>9 DEF AllDecided, vars, work
<1> QED
  BY <1>1, <1>2, <1>3, <1>4, <1>5, <1>6, <1>7, <1>8, <1>9 DEF Next, TickStep

\* A new day's predecessor was answered for every name, or seeded: a failed
\* one would exclude the day as its successor.
LEMMA NewDaySettled ==
  ASSUME TypeOK, BarsInOrder, AllDecided, WriteReturns,
         NEW d \in NewDates, NEW s \in Symbols, d > 1
  PROVE  wstat[s][d - 1] \in {"ok", "legacy"}
<1>1. d \in Dates /\ FullCoverage(d) /\ d \notin Excluded
  BY NewDatesGenuine
<1>2. d \in bars[s] /\ d - 1 \in bars[s] /\ d - 1 \in Dates
  BY <1>1, Neighbours DEF FullCoverage, TypeOK
<1>3. d \in Index /\ d - 1 \in Index
  BY <1>2 DEF Index
<1>4. d - 1 \notin Pending
  <2>1. ASSUME d - 1 \in Pending PROVE d \in Successors(Pending)
    <3>1. \A f \in Index : ~(d - 1 < f /\ f < d)
      BY <1>1, DatesAssumption DEF Index, TypeOK, Dates
    <3>2. d - 1 < d
      BY <1>1, DatesAssumption DEF Dates
    <3> QED
      BY <1>3, <2>1, <3>1, <3>2 DEF Successors
  <2> QED
    BY <1>1, <2>1 DEF Excluded
<1>5. wstat[s][d - 1] # "failed"
  BY <1>3, <1>4 DEF Pending
<1>6. wstat[s][d - 1] # "none"
  BY <1>2 DEF AllDecided, WriteReturns
<1> QED
  BY <1>2, <1>5, <1>6 DEF TypeOK, Statuses

LEMMA NextSettled ==
  ASSUME RecordInv, BarsInOrder, AllDecided, RecordSettled,
         Gapless = TRUE, [Next]_vars
  PROVE  RecordSettled'
<1> USE DEF RecordInv
<1>1. /\ BarsInOrder' /\ TypeOK'
      /\ \A s \in Symbols : bars[s] \subseteq bars'[s]
  BY NextBars, NextTypeOK
<1> SUFFICES ASSUME NEW d \in DOMAIN returns'
             PROVE  /\ FullCoverage(d)'
                    /\ returns'[d] = Basis(pos, d)'
                    /\ \A s \in Symbols :
                         d > 1 => status'[s][d - 1] \in {"ok", "legacy"}
  BY DEF RecordSettled, Recorded
\* The two facts to establish about d before the step.
<1> DEFINE Covered == FullCoverage(d) /\ d \in Dates
           Frozen == \A s \in Symbols :
                       /\ status[s][d] = "ok"
                       /\ d > 1 => status[s][d - 1] \in {"ok", "legacy"}
<1>2. ASSUME Covered, Frozen, returns'[d] = Basis(pos, d)
      PROVE  /\ FullCoverage(d)'
             /\ returns'[d] = Basis(pos, d)'
             /\ \A s \in Symbols :
                  d > 1 => status'[s][d - 1] \in {"ok", "legacy"}
  <2>1. FullCoverage(d)'
    BY <1>1, <1>2 DEF FullCoverage, Later
  <2>2. ASSUME NEW s \in Symbols
        PROVE  /\ pos'[s][d] = pos[s][d]
               /\ d > 1 => /\ pos'[s][d - 1] = pos[s][d - 1]
                           /\ status'[s][d - 1] = status[s][d - 1]
    <3>1. d > 1 => d - 1 \in Dates
      BY <1>2, DatesAssumption DEF Dates
    <3> QED
      BY <1>2, <3>1, StepKeepsVerdicts
  <2>3. d = 1 \/ d > 1
    BY <1>2, DatesAssumption DEF Dates
  <2>4. Basis(pos, d) =
          [s \in Symbols |-> [prev |-> IF d = 1 THEN 0 ELSE pos[s][d - 1],
                              pos  |-> pos[s][d],
                              next |-> d + 1]]
    BY <1>2, BasisInOrder DEF BasisWithoutBars
  <2>5. Basis(pos, d)' =
          [s \in Symbols |-> [prev |-> IF d = 1 THEN 0 ELSE pos'[s][d - 1],
                              pos  |-> pos'[s][d],
                              next |-> d + 1]]
    BY <1>1, <1>2, <2>1, BasisInOrderNext DEF BasisWithoutBars
  <2>6. Basis(pos, d)' = Basis(pos, d)
    BY <2>2, <2>3, <2>4, <2>5
  <2> QED
    BY <1>2, <2>1, <2>2, <2>6
<1>3. CASE d \in Recorded
  <2>1. returns'[d] = returns[d]
    BY <1>3, RecordSteps, WriteReturnsAppends
  <2>2. d \in Dates
    BY <1>3 DEF TypeOK, Recorded
  <2>3. Covered /\ Frozen /\ returns[d] = Basis(pos, d)
    BY <1>3, <2>2 DEF RecordSettled, RecordedDaysAreGenuine
  <2> QED
    BY <1>2, <2>1, <2>3
<1>4. CASE d \notin Recorded
  <2>1. WriteReturns
    BY <1>4, RecordSteps DEF Recorded
  <2>2. d \in NewDates /\ returns'[d] = Basis(wpos, d)
    BY <1>4, <2>1 DEF WriteReturns
  <2>3. Covered /\ d \notin Excluded /\ \A s \in Symbols : wstat[s][d] = "ok"
    BY <2>2, NewDatesGenuine
  <2>4. /\ pc = "returns"
        /\ \A s \in Symbols : status[s] = wstat[s] /\ pos[s] = wpos[s]
    BY <2>1 DEF WriteReturns, WrittenFilesAgree
  <2>5. \A s \in Symbols : d > 1 => wstat[s][d - 1] \in {"ok", "legacy"}
    BY <2>1, <2>2, NewDaySettled
  <2>6. Frozen
    BY <2>3, <2>4, <2>5
  <2>7. pos = wpos
    BY <2>4 DEF TypeOK
  <2> QED
    BY <1>2, <2>2, <2>3, <2>6, <2>7
<1> QED
  BY <1>3, <1>4

\* A settled record reproduces.
LEMMA SettledReproduces ==
  ASSUME TypeOK, RecordedDaysAreGenuine, BarsInOrder, RecordSettled
  PROVE  RecordReproduces
<1>a. \A d \in Recorded : /\ FullCoverage(d)
                          /\ returns[d] = Basis(pos, d)
                          /\ \A s \in Symbols : status[s][d] = "ok"
  BY DEF RecordSettled, RecordedDaysAreGenuine
<1> SUFFICES ASSUME NEW d \in Recorded, NEW p \in Index, d \in Successors({p}),
                    NEW s \in Symbols
             PROVE  status[s][p] # "failed"
  BY <1>a DEF RecordReproduces, Drifted
<1>1. d \in bars[s] /\ p \in Dates /\ p < d
  BY DEF RecordSettled, FullCoverage, Successors, Index, TypeOK
<1>2. d > 1 /\ d - 1 \in Index /\ d \in Dates
  <2>1. d \in Dates /\ d > 1
    BY <1>1, DatesAssumption DEF Dates, TypeOK
  <2>2. d - 1 \in bars[s]
    BY <1>1, <2>1, Neighbours
  <2> QED
    BY <2>1, <2>2 DEF Index
<1>3. ~(p < d - 1 /\ d - 1 < d)
  BY <1>2 DEF Successors
<1>4. p = d - 1
  BY <1>1, <1>2, <1>3, DatesAssumption DEF Dates
<1> QED
  BY <1>2, <1>4 DEF RecordSettled

\* The drift report stays silent for ever: with a feed that delivers every
\* symbol's bars in order, a recorded day recomputes, from the pos files and
\* the price cache of any later moment, to what was recorded.
THEOREM ReproducibleRecord ==
  ASSUME Gapless = TRUE
  PROVE  Spec => []RecordReproduces
<1> DEFINE Inv == RecordInv /\ BarsInOrder /\ AllDecided /\ RecordSettled
<1>1. Init => Inv
  <2> SUFFICES ASSUME Init PROVE BarsInOrder /\ AllDecided /\ RecordSettled
    BY InitRecordInv
  <2> QED
    BY DEF Init, BarsInOrder, AllDecided, RecordSettled, Recorded
<1>2. Inv /\ [Next]_vars => Inv'
  BY NextRecordInv, NextBars, NextAllDecided, NextSettled DEF RecordInv
<1>3. Inv => RecordReproduces
  BY SettledReproduces DEF RecordInv
<1> QED
  BY <1>1, <1>2, <1>3, PTL DEF Spec

\* Nothing is ever recorded on an unsettled predecessor: the day before a
\* new day holds, for every leg, a verdict or a seeded row.
THEOREM NewDaysAreSettled ==
  ASSUME Gapless = TRUE
  PROVE  Spec => PredecessorSettled
<1> DEFINE Inv == RecordInv /\ BarsInOrder /\ AllDecided
           Settled == \A d \in Recorded' \ Recorded : \A s \in Symbols :
                        Earlier(s, d) # {} => status[s][Max(Earlier(s, d))] # "failed"
<1>1. Init => Inv
  BY InitRecordInv DEF Init, BarsInOrder, AllDecided
<1>2. Inv /\ [Next]_vars => Inv'
  BY NextRecordInv, NextBars, NextAllDecided DEF RecordInv
<1>3. ASSUME Inv, [Next]_vars PROVE Settled
  <2> SUFFICES ASSUME NEW d \in Recorded' \ Recorded, NEW s \in Symbols, Earlier(s, d) # {}
               PROVE  status[s][Max(Earlier(s, d))] # "failed"
    OBVIOUS
  <2> USE <1>3 DEF RecordInv
  <2>1. WriteReturns
    BY RecordSteps DEF Recorded
  <2>2. d \in NewDates
    BY <2>1 DEF WriteReturns, Recorded
  <2>3. d \in bars[s]
    BY <2>2, NewDatesGenuine DEF FullCoverage
  <2>4. d \in Dates /\ d # 1
    BY <2>3, Neighbours
  <2>5. d > 1
    BY <2>4, DatesAssumption DEF Dates
  <2>6. wstat[s][d - 1] \in {"ok", "legacy"} /\ Max(Earlier(s, d)) = d - 1
    BY <2>1, <2>2, <2>3, <2>5, NewDaySettled, Neighbours
  <2>7. status[s] = wstat[s]
    BY <2>1 DEF WriteReturns, WrittenFilesAgree
  <2> QED
    BY <2>6, <2>7
<1>4. Inv /\ [Next]_vars => [Settled]_vars
  BY <1>3
<1>5. PredecessorSettled <=> [][Settled]_vars
  BY DEF PredecessorSettled
<1> HIDE DEF Settled, Inv
<1> QED
  BY <1>1, <1>2, <1>4, <1>5, PTL DEF Spec

(***************************************************************************)
(* With a feed in order, a failed row holds the position before it.        *)
(***************************************************************************)

\* A date that is to be retried takes every later failed date with it.
LEMMA RetryUpward ==
  ASSUME NEW st, NEW d \in RetryDates(st), NEW e \in FailedDates(st), d < e
  PROVE  e \in RetryDates(st)
<1> DEFINE F == FailedDates(st)
           After(x) == {f \in F : f > x}
<1>1. IsFiniteSet(F) /\ F \subseteq Dates
  <2>1. IsFiniteSet(Dates)
    BY FS_Interval, DatesAssumption DEF Dates
  <2>2. F \subseteq Dates
    BY DEF FailedDates
  <2> QED
    BY <2>1, <2>2, FS_Subset
<1>2. After(e) \subseteq After(d)
  BY <1>1, DatesAssumption DEF Dates, RetryDates
<1>3. IsFiniteSet(After(d)) /\ IsFiniteSet(After(e))
  BY <1>1, FS_Subset
<1>4. Cardinality(After(e)) <= Cardinality(After(d))
  BY <1>2, <1>3, FS_Subset
<1>5. Cardinality(After(d)) \in Nat /\ Cardinality(After(e)) \in Nat
  BY <1>3, FS_CardinalityType
<1>6. Cardinality(After(d)) < RetryBound
  BY DEF RetryDates
<1>7. Cardinality(After(e)) < RetryBound
  BY <1>4, <1>5, <1>6, RetryAssumption
<1> QED
  BY <1>7 DEF RetryDates

LEMMA NextRowsAreBars ==
  ASSUME TypeOK, RowsAreBars, [Next]_vars
  PROVE  RowsAreBars'
<1>1. CASE Refresh
  BY <1>1 DEF Refresh, RowsAreBars, disk, work
<1>2. CASE StartTick
  BY <1>2 DEF StartTick, RowsAreBars, Loaded, disk
<1>3. ASSUME NEW e \in Dates, DecideBar(e) PROVE RowsAreBars'
  <2>1. PICK answered \in SUBSET Answerable(e) :
          \E verdict \in [answered -> Targets] : Decide(e, answered, verdict)
    BY <1>3 DEF DecideBar
  <2>2. ASSUME NEW s \in Symbols, NEW d \in Dates, wstat'[s][d] # "none"
        PROVE  d \in bars[s]
    <3>1. CASE wstat[s][d] # "none"
      BY <1>3, <3>1 DEF RowsAreBars, DecideBar
    <3>2. CASE wstat[s][d] = "none"
      <4>1. wstat'[s][d] # wstat[s][d] /\ answered \subseteq Todo(e)
        BY <2>1, <2>2, <3>2 DEF Answerable
      <4>2. d = e /\ s \in Todo(e)
        BY <2>1, <4>1 DEF Decide, TypeOK
      <4> QED
        BY <4>2 DEF Todo
    <3> QED
      BY <3>1, <3>2
  <2> QED
    BY <1>3, <2>2 DEF DecideBar, RowsAreBars, disk
<1>4. CASE EndDecide
  BY <1>4 DEF EndDecide, RowsAreBars, disk, work
<1>5. ASSUME NEW s \in Symbols, WritePos(s) PROVE RowsAreBars'
  BY <1>5 DEF WritePos, RowsAreBars, TypeOK
<1>6. CASE AppendLog
  BY <1>6 DEF AppendLog, RowsAreBars, work
<1>7. CASE WriteReturns
  BY <1>7 DEF WriteReturns, RowsAreBars
<1>8. CASE Crash
  BY <1>8 DEF Crash, RowsAreBars
<1>9. CASE UNCHANGED vars
  BY <1>9 DEF RowsAreBars, vars, disk, work
<1> QED
  BY <1>1, <1>2, <1>3, <1>4, <1>5, <1>6, <1>7, <1>8, <1>9 DEF Next, TickStep

\* The rows a tick starts from.
LEMMA StartRowsHold ==
  ASSUME TypeOK, RowsHold, StartTick, NEW s \in Symbols, NEW d \in Dates,
         wstat'[s][d] = "failed"
  PROVE  /\ wpos'[s][d] = IF d = 1 THEN 0 ELSE wpos'[s][d - 1]
         /\ d > 1 => wstat'[s][d - 1] # "none"
<1> DEFINE st == [r \in Symbols |-> Loaded(r)]
<1>1. st[s][d] = "failed" /\ d \notin RetryDates(st) /\ wpos'[s][d] = pos[s][d]
  BY DEF StartTick, Unfrozen
<1>2. st[s] = status[s]
  BY <1>1 DEF Loaded
<1>3. pos[s][d] = IF d = 1 THEN 0 ELSE pos[s][d - 1]
  BY <1>1, <1>2 DEF RowsHold, HoldsBefore
<1>4. CASE d = 1
  BY <1>1, <1>3, <1>4
<1>5. CASE d # 1
  <2>1. d > 1 /\ d - 1 \in Dates /\ d - 1 < d
    BY <1>5, DatesAssumption DEF Dates
  <2>2. status[s][d - 1] # "none"
    BY <1>1, <1>2, <2>1 DEF RowsHold
  <2>3. d \in FailedDates(st)
    BY <1>1 DEF FailedDates
  <2>4. d - 1 \notin RetryDates(st)
    BY <1>1, <2>1, <2>3, RetryUpward
  <2>5. wstat'[s][d - 1] = st[s][d - 1] /\ wpos'[s][d - 1] = pos[s][d - 1]
    BY <2>1, <2>4 DEF StartTick, Unfrozen
  <2> QED
    BY <1>1, <1>2, <1>3, <1>5, <2>2, <2>5
<1> QED
  BY <1>4, <1>5

\* The position a date is decided on is the one of the bar before it.
LEMMA HeldInOrder ==
  ASSUME TypeOK, BarsInOrder, NEW d \in Dates, FirstTodo(d), NEW s \in Todo(d)
  PROVE  /\ d > 1 => wstat[s][d - 1] # "none"
         /\ Held(s, d) = IF d = 1 THEN 0 ELSE wpos[s][d - 1]
<1> DEFINE E == {e \in Dates : e < d /\ wstat[s][e] # "none"}
<1>1. s \in Symbols /\ d \in bars[s]
  BY DEF Todo
<1>2. CASE d = 1
  <2>1. E = {}
    BY <1>2, DatesAssumption DEF Dates
  <2> QED
    BY <1>2, <2>1 DEF Held
<1>3. CASE d # 1
  <2>1. d > 1 /\ d - 1 \in Dates /\ d - 1 < d /\ ~(d <= d - 1)
    BY <1>3, DatesAssumption DEF Dates
  <2>2. d - 1 \in bars[s]
    BY <1>1, <2>1, Neighbours
  <2>3. d - 1 \notin TodoDates
    BY <2>1 DEF FirstTodo
  <2>4. wstat[s][d - 1] # "none"
    BY <1>1, <2>2, <2>3 DEF TodoDates, Todo, Index
  <2>5. d - 1 \in E /\ E \in SUBSET Dates
    BY <2>1, <2>4
  <2>6. Max(E) \in E /\ d - 1 <= Max(E)
    BY <2>5, MaxOfDates
  <2>7. Max(E) = d - 1
    BY <2>6, DatesAssumption DEF Dates
  <2> QED
    BY <1>3, <2>4, <2>5, <2>7 DEF Held
<1> QED
  BY <1>2, <1>3

LEMMA DecideRowsHold ==
  ASSUME TypeOK, BarsInOrder, RowsHold, NEW e \in Dates, DecideBar(e),
         NEW s \in Symbols, NEW d \in Dates, wstat'[s][d] = "failed"
  PROVE  /\ wpos'[s][d] = IF d = 1 THEN 0 ELSE wpos'[s][d - 1]
         /\ d > 1 => wstat'[s][d - 1] # "none"
<1>1. PICK answered \in SUBSET Answerable(e) :
        \E verdict \in [answered -> Targets] : Decide(e, answered, verdict)
  BY DEF DecideBar
<1>2. d = 1 \/ (d > 1 /\ d - 1 \in Dates)
  BY DatesAssumption DEF Dates
<1>3. /\ wpos'[s][d] = IF d = 1 THEN 0 ELSE wpos[s][d - 1]
      /\ d > 1 => wstat[s][d - 1] # "none"
  <2>1. CASE wstat[s][d] = "none"
    <3>1. d = e /\ s \in Todo(e) /\ s \notin answered
      BY <1>1, <2>1 DEF Decide, TypeOK, Answerable
    <3>2. wpos'[s][d] = Held(s, e)
      BY <1>1, <3>1 DEF Decide, TypeOK
    <3> QED
      BY <3>1, <3>2, HeldInOrder DEF DecideBar
  <2>2. CASE wstat[s][d] # "none"
    <3>1. wstat[s][d] = "failed" /\ wpos'[s][d] = wpos[s][d]
      BY <2>2, DecideFrame
    <3> QED
      BY <3>1 DEF RowsHold, HoldsBefore, DecideBar
  <2> QED
    BY <2>1, <2>2
<1>4. d > 1 => wpos'[s][d - 1] = wpos[s][d - 1] /\ wstat'[s][d - 1] # "none"
  BY <1>2, <1>3, DecideFrame
<1> QED
  BY <1>2, <1>3, <1>4

LEMMA NextRowsHold ==
  ASSUME TypeOK, BarsInOrder, AllDecided, RowsAreBars, RowsHold, [Next]_vars
  PROVE  RowsHold'
<1>1. CASE Refresh
  BY <1>1 DEF Refresh, RowsHold, HoldsBefore, disk, work
<1>2. CASE StartTick
  BY <1>2, StartRowsHold DEF StartTick, RowsHold, HoldsBefore, disk
<1>3. ASSUME NEW e \in Dates, DecideBar(e) PROVE RowsHold'
  BY <1>3, DecideRowsHold DEF DecideBar, RowsHold, HoldsBefore, disk
<1>4. CASE EndDecide
  BY <1>4 DEF EndDecide, RowsHold, HoldsBefore, disk, work
<1>5. ASSUME NEW r \in Symbols, WritePos(r) PROVE RowsHold'
  <2>1. ASSUME NEW d \in Dates, wstat[r][d] # "none", d > 1
        PROVE  wstat[r][d - 1] # "none"
    <3>1. d \in bars[r]
      BY <1>5, <2>1 DEF RowsAreBars, WritePos
    <3>2. d - 1 \in bars[r]
      BY <2>1, <3>1, Neighbours
    <3> QED
      BY <1>5, <3>2 DEF AllDecided, WritePos
  <2>2. /\ status' = [status EXCEPT ![r] = wstat[r]]
        /\ pos' = [pos EXCEPT ![r] = wpos[r]]
        /\ wstat' = wstat /\ wpos' = wpos /\ pc = "write"
    BY <1>5 DEF WritePos
  <2> SUFFICES ASSUME NEW s \in Symbols, NEW d \in Dates
               PROVE  /\ status'[s][d] # "none" /\ d > 1 => status'[s][d - 1] # "none"
                      /\ HoldsBefore(status', pos', s, d)
                      /\ wstat[s][d] = "failed" /\ d > 1 => wstat[s][d - 1] # "none"
                      /\ HoldsBefore(wstat, wpos, s, d)
    BY <2>2 DEF RowsHold, HoldsBefore
  <2>3. CASE s = r
    BY <2>1, <2>2, <2>3 DEF RowsHold, HoldsBefore, TypeOK
  <2>4. CASE s # r
    BY <2>2, <2>4 DEF RowsHold, HoldsBefore, TypeOK
  <2> QED
    BY <2>3, <2>4
<1>6. CASE AppendLog
  BY <1>6 DEF AppendLog, RowsHold, HoldsBefore, work
<1>7. CASE WriteReturns
  BY <1>7 DEF WriteReturns, RowsHold, HoldsBefore
<1>8. CASE Crash
  BY <1>8 DEF Crash, RowsHold, HoldsBefore
<1>9. CASE UNCHANGED vars
  BY <1>9 DEF RowsHold, HoldsBefore, vars, disk, work
<1> QED
  BY <1>1, <1>2, <1>3, <1>4, <1>5, <1>6, <1>7, <1>8, <1>9 DEF Next, TickStep

\* Retried newest-first, a failed date is never left behind an earlier one
\* that is re-decided: what a failed row holds is the position before it.
THEOREM FailedRowsHold ==
  ASSUME Gapless = TRUE
  PROVE  Spec => []FailedRowHolds
<1> DEFINE Inv == RecordInv /\ BarsInOrder /\ AllDecided /\ RowsAreBars /\ RowsHold
<1>1. Init => Inv
  <2> SUFFICES ASSUME Init PROVE BarsInOrder /\ AllDecided /\ RowsAreBars /\ RowsHold
    BY InitRecordInv
  <2>1. \A s \in Symbols, d \in Dates : status[s][d] = "none"
    BY DEF Init, NoStatus
  <2> QED
    BY <2>1 DEF Init, BarsInOrder, AllDecided, RowsAreBars, RowsHold, HoldsBefore
<1>2. Inv /\ [Next]_vars => Inv'
  BY NextRecordInv, NextBars, NextAllDecided, NextRowsAreBars, NextRowsHold DEF RecordInv
<1>3. Inv => FailedRowHolds
  <2> SUFFICES ASSUME Inv, NEW s \in Symbols, NEW d \in bars[s], status[s][d] = "failed"
               PROVE  pos[s][d] = IF Earlier(s, d) = {} THEN 0
                                  ELSE pos[s][Max(Earlier(s, d))]
    BY DEF FailedRowHolds
  <2>1. d \in Dates /\ (Earlier(s, d) = {} <=> d = 1)
        /\ (d > 1 => Max(Earlier(s, d)) = d - 1)
    BY Neighbours DEF RecordInv
  <2>2. d = 1 \/ d > 1
    BY <2>1, DatesAssumption DEF Dates
  <2>3. pos[s][d] = IF d = 1 THEN 0 ELSE pos[s][d - 1]
    BY <2>1 DEF RowsHold, HoldsBefore
  <2> QED
    BY <2>1, <2>2, <2>3
<1> QED
  BY <1>1, <1>2, <1>3, PTL DEF Spec

(***************************************************************************)
(* Until a tick dies, the log and the pos files describe the same rows.    *)
(***************************************************************************)

LEMMA NoCrashYet ==
  ASSUME TypeOK, [Next]_vars, crashes' = 0
  PROVE  crashes = 0 /\ ~Crash
<1>1. ~Crash
  <2>1. Crash => crashes' = crashes + 1 /\ crashes \in Nat
    BY BoundsAssumption DEF Crash, TypeOK
  <2> QED
    BY <2>1
<1>2. crashes' = crashes
  BY <1>1 DEF Next, TickStep, Refresh, StartTick, DecideBar, EndDecide, WritePos,
              AppendLog, WriteReturns, vars
<1> QED
  BY <1>1, <1>2

LEMMA NextLogInStep ==
  ASSUME TypeOK, WrittenFilesAgree, NewRowsDecided, AllDecided, RowsAreBars,
         LogInStep, ~Crash, [Next]_vars
  PROVE  LogInStep'
<1>1. CASE Refresh
  BY <1>1 DEF Refresh, LogInStep, LogFollows, disk, work
<1>2. CASE StartTick
  <2> SUFFICES ASSUME NEW s \in Symbols, NEW d \in Dates
               PROVE  \/ wstat'[s][d] = "none" /\ d \in bars[s]
                      \/ LogFollows(wstat', wpos', s, d)
    BY <1>2 DEF StartTick, LogInStep, LogFollows, disk
  <2> DEFINE st == [r \in Symbols |-> Loaded(r)]
  <2>1. LogFollows(status, pos, s, d)
    BY <1>2 DEF StartTick, LogInStep
  <2>2. CASE Unfrozen(st, s, d)
    <3>1. wstat'[s][d] = "none" /\ st[s][d] = "failed"
      BY <1>2, <2>2 DEF StartTick, Unfrozen
    <3>2. status[s][d] = "failed"
      BY <3>1 DEF Loaded
    <3> QED
      BY <3>1, <3>2 DEF RowsAreBars
  <2>3. CASE ~Unfrozen(st, s, d)
    <3>1. wstat'[s][d] = Loaded(s)[d] /\ wpos'[s][d] = pos[s][d]
      BY <1>2, <2>3 DEF StartTick
    <3>2. Loaded(s)[d] = status[s][d] \/ (status[s][d] = "none" /\ Loaded(s)[d] \in {"none", "legacy"})
      BY DEF Loaded, HasFile, TypeOK
    <3> QED
      BY <2>1, <3>1, <3>2 DEF LogFollows
  <2> QED
    BY <2>2, <2>3
<1>3. ASSUME NEW e \in Dates, DecideBar(e) PROVE LogInStep'
  <2>1. PICK answered \in SUBSET Answerable(e) :
          \E verdict \in [answered -> Targets] : Decide(e, answered, verdict)
    BY <1>3 DEF DecideBar
  <2>2. pc = "decide" /\ pc' = "decide" /\ log' = log /\ bars' = bars
    BY <1>3 DEF DecideBar, disk
  <2> SUFFICES ASSUME NEW s \in Symbols, NEW d \in Dates, <<s, d>> \notin newRows'
               PROVE  \/ wstat'[s][d] = "none" /\ d \in bars[s]
                      \/ LogFollows(wstat', wpos', s, d)
    BY <2>2 DEF LogInStep, LogFollows
  <2>3. <<s, d>> \notin newRows /\ (d = e => s \notin Todo(e) /\ s \notin answered)
    BY <2>1 DEF Decide, Answerable
  <2>4. wstat'[s][d] = wstat[s][d] /\ wpos'[s][d] = wpos[s][d]
    BY <2>1, <2>3 DEF Decide, TypeOK
  <2> QED
    BY <2>2, <2>3, <2>4 DEF LogInStep, LogFollows
<1>4. CASE EndDecide
  BY <1>4 DEF EndDecide, LogInStep, LogFollows, disk, work
<1>5. ASSUME NEW s \in Symbols, WritePos(s) PROVE LogInStep'
  BY <1>5 DEF WritePos, LogInStep, LogFollows
<1>6. CASE AppendLog
  <2> SUFFICES ASSUME NEW s \in Symbols, NEW d \in Dates
               PROVE  LogFollows(wstat, wpos, s, d)'
    BY <1>6 DEF AppendLog, LogInStep
  <2>1. /\ wstat' = wstat /\ wpos' = wpos /\ pc = "log"
        /\ log'[s][d] = IF <<s, d>> \in newRows THEN LogRow(s, d) ELSE log[s][d]
    BY <1>6 DEF AppendLog, work, Appended
  <2>2. CASE <<s, d>> \in newRows
    <3>1. wstat[s][d] \in {"ok", "failed"}
      BY <2>2 DEF NewRowsDecided
    <3> QED
      BY <2>1, <2>2, <3>1 DEF LogFollows, LogRow
  <2>3. CASE <<s, d>> \notin newRows
    <3>1. ~(wstat[s][d] = "none" /\ d \in bars[s])
      BY <2>1 DEF AllDecided
    <3> QED
      BY <2>1, <2>3, <3>1 DEF LogInStep, LogFollows
  <2> QED
    BY <2>2, <2>3
<1>7. CASE WriteReturns
  <2>1. status = wstat /\ pos = wpos /\ pc = "returns" /\ pc' = "idle"
        /\ status' = status /\ pos' = pos /\ log' = log
    BY <1>7 DEF WriteReturns, WrittenFilesAgree, TypeOK
  <2> QED
    BY <2>1 DEF LogInStep, LogFollows
<1>8. CASE UNCHANGED vars
  BY <1>8 DEF LogInStep, LogFollows, vars, disk, work
<1> QED
  BY <1>1, <1>2, <1>3, <1>4, <1>5, <1>6, <1>7, <1>8 DEF Next, TickStep

\* As long as no tick dies, the consistency report stays silent: whatever
\* failed, was retried or came late, the latest row of the log is the row of
\* the pos file.
THEOREM ConsistentLog == Spec => []LogMatchesCache
<1> DEFINE Inv ==
      RecordInv /\ AllDecided /\ RowsAreBars /\ (crashes = 0 => LogInStep)
<1>1. Init => Inv
  <2> SUFFICES ASSUME Init PROVE AllDecided /\ RowsAreBars /\ LogInStep
    BY InitRecordInv
  <2> QED
    BY DEF Init, NoStatus, AllDecided, RowsAreBars, LogInStep, LogFollows
<1>2. Inv /\ [Next]_vars => Inv'
  <2> SUFFICES ASSUME Inv, [Next]_vars PROVE Inv'
    OBVIOUS
  <2>1. ASSUME crashes' = 0 PROVE LogInStep'
    BY <2>1, NoCrashYet, NextLogInStep DEF RecordInv
  <2> QED
    BY <2>1, NextRecordInv, NextAllDecided, NextRowsAreBars DEF RecordInv
<1>3. Inv => LogMatchesCache
  <2> SUFFICES ASSUME Inv, pc = "idle", crashes = 0, NEW s \in Symbols, NEW d \in Dates
               PROVE  ~Disagree(s, d)
    BY DEF LogMatchesCache, Problems
  <2>1. LogFollows(status, pos, s, d)
    BY DEF LogInStep
  <2>2. CASE status[s][d] \in {"none", "legacy"}
    BY <2>1, <2>2 DEF LogFollows, Disagree
  <2>3. CASE status[s][d] \notin {"none", "legacy"}
    BY <2>1, <2>3 DEF LogFollows, Disagree, NoRow
  <2> QED
    BY <2>2, <2>3
<1> QED
  BY <1>1, <1>2, <1>3, PTL DEF Spec

=============================================================================
