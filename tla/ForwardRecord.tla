---------------------------- MODULE ForwardRecord ----------------------------
(***************************************************************************)
(* The agent's forward record: forward.py's tick for engine "agent".       *)
(*                                                                         *)
(* One eval directory holds three kinds of file.  pos_<sym>.csv is the     *)
(* cache of verdicts, one row per (symbol, date); decisions.jsonl is the   *)
(* append-only log of every answer; returns.csv is the track record, one   *)
(* row per realized day.  A tick reads the price cache and the pos files,  *)
(* asks the model for the bars that have no verdict, rewrites the pos      *)
(* files one by one, appends to the log and extends returns.csv.           *)
(*                                                                         *)
(* Abstractions.  Dates are the trading calendar 1..MaxDate.  A net        *)
(* return is represented by the inputs it is a function of (see Basis):    *)
(* settled prices are not revised here.  The log keeps its latest row per  *)
(* (symbol, date), which is all its readers use.  One file write is        *)
(* atomic; a tick may die between two of them.                             *)
(***************************************************************************)
EXTENDS Integers, FiniteSets, FiniteSetsExt

CONSTANTS
  Symbols,      \* the configured universe
  MaxDate,      \* bound: the last trading day of the model
  RetryBound,   \* failed dates un-frozen per tick (5 in the code)
  Targets,      \* positions the model may answer with
  Unhealable,   \* (symbol, date) pairs on which every call fails
  Gapless,      \* TRUE: the feed delivers each symbol's bars in order
  MaxCrashes    \* bound: ticks that die half-way

Dates == 1..MaxDate
Positions == Targets \cup {0}

ASSUME DatesAssumption == MaxDate \in Nat \ {0}
ASSUME RetryAssumption == RetryBound \in Nat \ {0}
ASSUME TargetsAssumption == Targets \subseteq Int /\ Targets # {}
ASSUME SymbolsAssumption == IsFiniteSet(Symbols) /\ Symbols # {}
ASSUME UnhealableAssumption == Unhealable \subseteq Symbols \X Dates
ASSUME BoundsAssumption == Gapless \in BOOLEAN /\ MaxCrashes \in Nat

VARIABLES
  bars,      \* price cache: the dates each symbol has a settled bar for
  status,    \* pos_<sym>.csv, column status ("none": no row)
  pos,       \* pos_<sym>.csv, column pos (0 where there is no row)
  log,       \* decisions.jsonl: latest row per symbol and date
  returns,   \* returns.csv: recorded date -> basis of its net return
  pc,        \* where the running tick is
  wstat,     \* the tick's dict `stat`
  wpos,      \* the tick's dict `decided`
  newRows,   \* the tick's list `new_rows`, as (symbol, date) pairs
  unwritten, \* symbols whose pos file this tick has still to write
  crashes    \* number of ticks that died

disk == <<status, pos, log, returns>>
work == <<wstat, wpos, newRows, unwritten>>
vars == <<bars, disk, pc, work, crashes>>

Statuses == {"none", "legacy", "ok", "failed"}
NoStatus == [s \in Symbols |-> [d \in Dates |-> "none"]]
Flat == [s \in Symbols |-> [d \in Dates |-> 0]]
NoRow == [status |-> "none", target |-> 0]
Answer == [status : {"none", "ok", "failed"}, target : Positions]

(***************************************************************************)
(* What the tick computes from the bars and its two dictionaries.          *)
(***************************************************************************)

\* The index the tick loops over: the union of every symbol's bar dates.
Index == UNION {bars[s] : s \in Symbols}

\* The dates of symbol s before and after d.
Earlier(s, d) == {e \in bars[s] : e < d}
Later(s, d) == {e \in bars[s] : e > d}

\* Seeding when a symbol has no file: every bar but the latest, flat, legacy.
HasFile(s) == \E d \in Dates : status[s][d] # "none"
Loaded(s) ==
  IF HasFile(s)
  THEN status[s]
  ELSE [d \in Dates |-> IF d \in bars[s] /\ Later(s, d) # {}
                        THEN "legacy" ELSE "none"]

FailedDates(st) == {d \in Dates : \E s \in Symbols : st[s][d] = "failed"}

RetryDates_OldestFirst(st) ==
  {d \in FailedDates(st) :
     Cardinality({e \in FailedDates(st) : e < d}) < RetryBound}

\* The newest RetryBound failed dates of the whole universe.
RetryDates(st) ==
  {d \in FailedDates(st) :
     Cardinality({e \in FailedDates(st) : e > d}) < RetryBound}

Unfrozen_WholeDate(st, s, d) == d \in RetryDates(st)

\* The row (s, d) is dropped back into "not yet decided".
Unfrozen(st, s, d) == d \in RetryDates(st) /\ st[s][d] = "failed"

\* Symbols to ask about date d, and the dates that still have some.
Todo(d) == {s \in Symbols : d \in bars[s] /\ wstat[s][d] = "none"}
TodoDates == {d \in Index : Todo(d) # {}}

\* `cur` when the loop reaches d: the latest decided position before d.
Held(s, d) ==
  LET E == {e \in Dates : e < d /\ wstat[s][e] # "none"}
  IN IF E = {} THEN 0 ELSE wpos[s][Max(E)]

NotOk(d) == \E s \in Symbols : d \in bars[s] /\ wstat[s][d] # "ok"
Pending == {d \in Index : \E s \in Symbols : wstat[s][d] = "failed"}
Successors(D) ==
  {e \in Index : \E d \in D : d < e /\ \A f \in Index : ~(d < f /\ f < e)}

Excluded_NoSuccessor == {d \in Index : NotOk(d)}
Excluded_FailedOnly == Pending \cup Successors(Pending)

\* EXCLUSION RULE and SUCCESSOR RULE.
Excluded == {d \in Index : NotOk(d)} \cup Successors(Pending)

\* A leg's return at d needs a bar at d and a later one.
FullCoverage(d) == \A s \in Symbols : d \in bars[s] /\ Later(s, d) # {}
NetDates == {d \in Index \ Excluded : FullCoverage(d)}

\* What net_returns reads for day d: the position, the position of the
\* previous bar (turnover and fill) and the bar the return runs to.
Basis(p, d) ==
  [s \in Symbols |->
     [prev |-> IF Earlier(s, d) = {} THEN 0 ELSE p[s][Max(Earlier(s, d))],
      pos  |-> p[s][d],
      next |-> Min(Later(s, d))]]
Bases == [Symbols -> [prev : Positions, pos : Positions, next : Dates]]

Recorded == DOMAIN returns

NewDates_PlainMax ==
  IF Recorded = {}
  THEN {d \in NetDates : d = Max(NetDates)}
  ELSE {d \in NetDates : d > Max(Recorded)}

\* The anchor on the first record; then newer days and interior gaps.
NewDates ==
  IF Recorded = {}
  THEN {d \in NetDates : d = Max(NetDates)}
  ELSE {d \in NetDates : \/ d > Max(Recorded)
                         \/ d > Min(Recorded) /\ d \notin Recorded}

\* What _report_drift finds between two ticks: recorded days whose value moved
\* or that fell out of the recomputed series.
Drifted ==
  {d \in Recorded :
     \/ ~FullCoverage(d)
     \/ \E s \in Symbols : status[s][d] # "ok"
     \/ \E p \in Index, s \in Symbols : d \in Successors({p}) /\ status[s][p] = "failed"
     \/ returns[d] # Basis(pos, d)}

\* What _report_record_consistency lists: rows the pos files and the latest
\* rows of the log describe differently.  Seeded rows have no row in the log.
Disagree(s, d) ==
  CASE status[s][d] = "none" -> log[s][d] # NoRow
    [] status[s][d] # "none" /\ log[s][d] = NoRow -> status[s][d] # "legacy"
    [] OTHER -> log[s][d] # [status |-> status[s][d], target |-> pos[s][d]]
Problems == {r \in Symbols \X Dates : Disagree(r[1], r[2])}

-----------------------------------------------------------------------------
TypeOK ==
  /\ bars \in [Symbols -> SUBSET Dates]
  /\ status \in [Symbols -> [Dates -> Statuses]]
  /\ pos \in [Symbols -> [Dates -> Positions]]
  /\ log \in [Symbols -> [Dates -> Answer]]
  /\ \E D \in SUBSET Dates : returns \in [D -> Bases]
  /\ pc \in {"idle", "decide", "write", "log", "returns"}
  /\ wstat \in [Symbols -> [Dates -> Statuses]]
  /\ wpos \in [Symbols -> [Dates -> Positions]]
  /\ newRows \in SUBSET (Symbols \X Dates)
  /\ unwritten \in SUBSET Symbols
  /\ crashes \in 0..MaxCrashes

Prefix(h) == 1..h

Init ==
  /\ \E h \in [Symbols -> Dates] : bars = [s \in Symbols |-> Prefix(h[s])]
  /\ status = NoStatus /\ pos = Flat
  /\ log = [s \in Symbols |-> [d \in Dates |-> NoRow]]
  /\ returns = <<>>
  /\ pc = "idle"
  /\ wstat = NoStatus /\ wpos = Flat
  /\ newRows = {} /\ unwritten = {}
  /\ crashes = 0

(***************************************************************************)
(* refresh.py merges fetched bars into the cache before the ticks.  The    *)
(* feed may be ahead for some symbols; with Gapless = FALSE it may also    *)
(* skip a bar (a null close) and deliver it later.                         *)
(***************************************************************************)
Refresh ==
  /\ pc = "idle"
  /\ \E b \in [Symbols -> SUBSET Dates] :
       /\ \A s \in Symbols : bars[s] \subseteq b[s]
       /\ Gapless => \A s \in Symbols : \E h \in Dates : b[s] = Prefix(h)
       /\ bars' = b
  /\ UNCHANGED <<disk, pc, work, crashes>>

\* Load or seed each symbol's rows, then un-freeze the dates to retry.
StartTick ==
  /\ pc = "idle"
  /\ LET st == [s \in Symbols |-> Loaded(s)]
     IN /\ wstat' = [s \in Symbols |-> [d \in Dates |->
                       IF Unfrozen(st, s, d) THEN "none" ELSE st[s][d]]]
        /\ wpos' = [s \in Symbols |-> [d \in Dates |->
                       IF Unfrozen(st, s, d) THEN 0 ELSE pos[s][d]]]
  /\ newRows' = {}
  /\ unwritten' = Symbols
  /\ pc' = "decide"
  /\ UNCHANGED <<bars, disk, crashes>>

\* decide_all on date d: the symbols in `answered` get a verdict, the rest
\* of todo a failure, which holds the position they came in with.
Decide(d, answered, verdict) ==
  /\ wstat' = [s \in Symbols |-> [wstat[s] EXCEPT ![d] =
                 IF s \in answered THEN "ok"
                 ELSE IF s \in Todo(d) THEN "failed" ELSE @]]
  /\ wpos' = [s \in Symbols |-> [wpos[s] EXCEPT ![d] =
                 IF s \in answered THEN verdict[s]
                 ELSE IF s \in Todo(d) THEN Held(s, d) ELSE @]]
  /\ newRows' = newRows \cup (Todo(d) \X {d})

Answerable(d) == {s \in Todo(d) : <<s, d>> \notin Unhealable}
FirstTodo(d) == d \in TodoDates /\ \A e \in TodoDates : d <= e

DecideBar(d) ==
  /\ pc = "decide"
  /\ FirstTodo(d)
  /\ \E answered \in SUBSET Answerable(d) :
       \E verdict \in [answered -> Targets] : Decide(d, answered, verdict)
  /\ UNCHANGED <<bars, disk, pc, unwritten, crashes>>

EndDecide ==
  /\ pc = "decide"
  /\ TodoDates = {}
  /\ pc' = "write"
  /\ UNCHANGED <<bars, disk, work, crashes>>

\* One symbol's pos file is rewritten from the dictionaries.
WritePos(s) ==
  /\ pc = "write"
  /\ s \in unwritten
  /\ status' = [status EXCEPT ![s] = wstat[s]]
  /\ pos' = [pos EXCEPT ![s] = wpos[s]]
  /\ unwritten' = unwritten \ {s}
  /\ pc' = IF unwritten' = {} THEN "log" ELSE "write"
  /\ UNCHANGED <<bars, log, returns, wstat, wpos, newRows, crashes>>

LogRow_NoStatus(s, d) == [status |-> "ok", target |-> wpos[s][d]]
LogRow_AnswersOnly(s, d) ==
  IF wstat[s][d] = "ok" THEN [status |-> "ok", target |-> wpos[s][d]]
                        ELSE log[s][d]

LogRow(s, d) == [status |-> wstat[s][d], target |-> wpos[s][d]]

Appended_AllRows(R) ==
  [s \in Symbols |-> [d \in Dates |->
     IF wstat[s][d] # "none" THEN LogRow(s, d) ELSE log[s][d]]]

\* The log after the rows R were appended.
Appended(R) ==
  [s \in Symbols |-> [d \in Dates |->
     IF <<s, d>> \in R THEN LogRow(s, d) ELSE log[s][d]]]

AppendLog ==
  /\ pc = "log"
  /\ log' = Appended(newRows)
  /\ pc' = "returns"
  /\ UNCHANGED <<bars, status, pos, returns, work, crashes>>

\* returns.csv is rewritten: rows already there win over recomputed ones.
WriteReturns ==
  /\ pc = "returns"
  /\ returns' = [d \in Recorded \cup NewDates |->
                   IF d \in Recorded THEN returns[d] ELSE Basis(wpos, d)]
  /\ pc' = "idle"
  /\ wstat' = NoStatus /\ wpos' = Flat /\ newRows' = {}
  /\ UNCHANGED <<bars, status, pos, log, unwritten, crashes>>

\* The process dies.  Files already written stay; of the rows being
\* appended to the log, those of the earlier dates may have reached it.
Crash ==
  /\ pc # "idle"
  /\ crashes < MaxCrashes
  /\ crashes' = crashes + 1
  /\ pc' = "idle"
  /\ wstat' = NoStatus /\ wpos' = Flat /\ newRows' = {} /\ unwritten' = {}
  /\ \/ log' = log
     \/ /\ pc = "log"
        /\ \E R \in SUBSET newRows :
             /\ \A r \in R, q \in newRows : q[2] < r[2] => q \in R
             /\ log' = Appended(R)
  /\ UNCHANGED <<bars, status, pos, returns>>

TickStep ==
  \/ \E d \in Dates : DecideBar(d)
  \/ EndDecide
  \/ \E s \in Symbols : WritePos(s)
  \/ AppendLog
  \/ WriteReturns

Next == Refresh \/ StartTick \/ TickStep \/ Crash

Spec == Init /\ [][Next]_vars

(***************************************************************************)
(* Fairness.  The schedule starts a tick every day and a started tick runs *)
(* on.  A call that is not unhealable fails only transiently: a date whose *)
(* decision is attempted again and again gets, at some attempt, an answer  *)
(* for every name that can be answered.                                    *)
(***************************************************************************)
AllAnswered(d) ==
  /\ pc = "decide"
  /\ FirstTodo(d)
  /\ \E verdict \in [Answerable(d) -> Targets] :
       Decide(d, Answerable(d), verdict)
  /\ UNCHANGED <<bars, disk, pc, unwritten, crashes>>

Fairness ==
  /\ WF_vars(StartTick)
  /\ WF_vars(TickStep)
  /\ \A d \in Dates : SF_vars(AllAnswered(d))

FairSpec == Spec /\ Fairness

-----------------------------------------------------------------------------
(***************************************************************************)
(* Safety.                                                                 *)
(***************************************************************************)

\* Every day in returns.csv is a day on which the model genuinely answered
\* for every name: no outage, no seeded row, whatever was retried, crashed
\* or half-written on the way.
RecordedDaysAreGenuine ==
  \A d \in Recorded : \A s \in Symbols : status[s][d] = "ok"

\* _report_drift stays silent: from the pos files and the price cache a
\* recorded day still recomputes to the value it was recorded with, and has
\* not fallen out of the series because a day before it is waiting for its
\* retry.  Needs a feed that delivers bars in order (Gapless).
RecordReproduces == Drifted = {}

\* A failed row holds the position of the bar before it, even after the
\* bars before it were retried and their positions changed: the retry order
\* never re-decides a date while a later failed one stays frozen.
FailedRowHolds ==
  \A s \in Symbols : \A d \in bars[s] :
    status[s][d] = "failed" =>
      pos[s][d] = IF Earlier(s, d) = {} THEN 0 ELSE pos[s][Max(Earlier(s, d))]

\* decisions.jsonl never claims a verdict that the cache does not hold,
\* although a tick may die after some of its files are written.
LoggedVerdictsAreCached ==
  \A s \in Symbols, d \in Dates :
    log[s][d].status = "ok" =>
      status[s][d] = "ok" /\ pos[s][d] = log[s][d].target

(***************************************************************************)
(* How a running tick relates to the files; the safety properties above    *)
(* are inductive together with it.                                         *)
(***************************************************************************)
\* The tick carries every settled row unchanged in its dictionaries.
WorkKeepsVerdicts ==
  pc # "idle" =>
    \A s \in Symbols, d \in Dates :
      status[s][d] \in {"ok", "legacy"} =>
        wstat[s][d] = status[s][d] /\ wpos[s][d] = pos[s][d]

\* A pos file that was written equals the dictionaries, and all are written
\* before the log is appended and the record extended.
WrittenFilesAgree ==
  /\ pc = "decide" => unwritten = Symbols
  /\ pc \in {"log", "returns"} => unwritten = {}
  /\ pc \in {"write", "log", "returns"} =>
       \A s \in Symbols \ unwritten :
         status[s] = wstat[s] /\ pos[s] = wpos[s]

\* Only dates with a decided row are among the rows to log.
NewRowsDecided ==
  \A s \in Symbols, d \in Dates :
    <<s, d>> \in newRows => wstat[s][d] \in {"ok", "failed"}

\* When decide_all is done every bar has a row.
AllDecided ==
  pc \in {"write", "log", "returns"} =>
    \A s \in Symbols : \A d \in bars[s] : wstat[s][d] # "none"

\* A feed without gaps: each symbol has every bar up to its latest.
BarsInOrder == \A s \in Symbols : \E h \in Dates : bars[s] = Prefix(h)

\* What keeps a recorded day reproducible: nothing it was computed from can
\* change any more.
RecordSettled ==
  \A d \in Recorded :
    /\ FullCoverage(d)
    /\ returns[d] = Basis(pos, d)
    /\ \A s \in Symbols : d > 1 => status[s][d - 1] \in {"ok", "legacy"}

\* Only bars have rows, in the files and in a running tick.
RowsAreBars ==
  \A s \in Symbols, d \in Dates :
    /\ status[s][d] # "none" => d \in bars[s]
    /\ pc # "idle" /\ wstat[s][d] # "none" => d \in bars[s]

\* Dates are decided in order: the row before a row is there, and a failed
\* row holds its position.
HoldsBefore(st, p, s, d) ==
  st[s][d] = "failed" => p[s][d] = IF d = 1 THEN 0 ELSE p[s][d - 1]
RowsHold ==
  \A s \in Symbols, d \in Dates :
    /\ status[s][d] # "none" /\ d > 1 => status[s][d - 1] # "none"
    /\ HoldsBefore(status, pos, s, d)
    /\ pc # "idle" =>
         /\ wstat[s][d] = "failed" /\ d > 1 => wstat[s][d - 1] # "none"
         /\ HoldsBefore(wstat, wpos, s, d)

\* What the log says of a row that the tick has not decided: what the row
\* says, or nothing yet, unless it is a failed one taken up again.
LogFollows(st, p, s, d) ==
  IF st[s][d] \in {"none", "legacy"} THEN log[s][d] = NoRow
  ELSE log[s][d] = [status |-> st[s][d], target |-> p[s][d]]
LogInStep ==
  \A s \in Symbols, d \in Dates :
    /\ pc = "idle" => LogFollows(status, pos, s, d)
    /\ pc \in {"decide", "write", "log"} /\ <<s, d>> \notin newRows =>
         \/ wstat[s][d] = "none" /\ d \in bars[s]
         \/ LogFollows(wstat, wpos, s, d)
    /\ pc = "returns" => LogFollows(wstat, wpos, s, d)

RecordInv ==
  /\ TypeOK
  /\ WorkKeepsVerdicts
  /\ WrittenFilesAgree
  /\ NewRowsDecided
  /\ RecordedDaysAreGenuine
  /\ LoggedVerdictsAreCached

\* _report_record_consistency finds nothing between ticks, whatever failed,
\* was retried or came late, until a tick dies: that leaves a disagreement.
LogMatchesCache == pc = "idle" /\ crashes = 0 => Problems = {}

(***************************************************************************)
(* The record is a TrackRecord: failures, retries, seeded rows, the order  *)
(* of the files and crashes are invisible in it.  Holes that heal are      *)
(* entered out of order, nothing before the first day, nothing twice, and  *)
(* what is recorded are the verdicts that stand in the pos files.          *)
(***************************************************************************)
Track == INSTANCE TrackRecord WITH
  Names <- Symbols,
  Days <- Dates,
  Verdicts <- Positions,
  verdict <- [s \in Symbols |-> [d \in Dates |->
                IF status[s][d] = "ok" THEN {pos[s][d]} ELSE {}]],
  record <- [d \in Recorded |-> [s \in Symbols |-> {returns[d][s].pos}]]
ImplementsTrackRecord == Track!Spec

\* A genuine verdict and a seeded row are frozen forever.
VerdictsFrozen ==
  [][\A s \in Symbols, d \in Dates :
       status[s][d] \in {"ok", "legacy"} =>
         status'[s][d] = status[s][d] /\ pos'[s][d] = pos[s][d]]_vars

\* No day is recorded while a leg's position on the bar before it is still
\* that of a failed call, which a retry could change.
PredecessorSettled ==
  [][\A d \in Recorded' \ Recorded : \A s \in Symbols :
       Earlier(s, d) # {} => status[s][Max(Earlier(s, d))] # "failed"]_vars

(***************************************************************************)
(* Liveness (FairSpec).                                                    *)
(***************************************************************************)
Healable(d) == \A s \in Symbols : <<s, d>> \notin Unhealable
\* Fewer than RetryBound later dates hold a retry slot for good.
NotStarved(d) ==
  Cardinality({e \in Dates : e > d /\ ~Healable(e)}) < RetryBound

\* A failed decision is eventually replaced by a genuine verdict, whatever
\* dates before it can never be answered.
FailuresHeal ==
  \A s \in Symbols, d \in Dates :
    <<s, d>> \notin Unhealable /\ NotStarved(d) =>
      (status[s][d] = "failed" ~> status[s][d] = "ok")

\* A hole in the record closes: a day after the first recorded one, once
\* every leg has its bar and the next, is eventually recorded if it and the
\* day before can be answered at all.
HolesClose ==
  \A d \in Dates \ {1} :
    Healable(d) /\ Healable(d - 1) /\ NotStarved(d - 1) =>
      ((\E r \in Recorded : r < d) /\ FullCoverage(d) ~> d \in Recorded)
=============================================================================
