---------------------------- MODULE DailyPipeline ----------------------------
(***************************************************************************)
(* The scheduled run: scripts/paper_cron.sh over refresh.py, data.py and   *)
(* the rule-based ticks of forward.py.                                     *)
(*                                                                         *)
(* A run restores cache and records from the paper-state branch, merges    *)
(* what the feed serves for the last REFRESH_DAYS into the cache, ticks    *)
(* the records one after the other and pushes everything in one commit.    *)
(* The workflow's concurrency group keeps two runs apart.  Only the        *)
(* refresh, the first tick and the push are fatal; a run that dies leaves  *)
(* the branch as it was, and its workspace is thrown away.                 *)
(*                                                                         *)
(* Abstractions.  Days are the exchange's trading days, on which a symbol  *)
(* may be halted.  A cached row is what kind of bar it is: a closed bar, a *)
(* bar cached while its session was open, or a volume-0 snapshot.  A net   *)
(* return is the bars it was scored from.  A batch is one symbol.  The     *)
(* agent's ticks and the paper run touch neither the cache nor these       *)
(* records (ForwardRecord, PaperRun).                                      *)
(***************************************************************************)
EXTENDS Integers, FiniteSets, FiniteSetsExt

CONSTANTS
  Symbols,     \* the configured universe
  MaxDay,      \* bound: the last day of the model
  Window,      \* REFRESH_DAYS: how far back a refresh asks
  Halted,      \* <<symbol, day>> pairs on which a symbol does not trade
  MaxDeaths    \* bound: runs that die

Days == 1..MaxDay
Records == {"main", "real"}   \* mean_reversion, mean_reversion_real
Kinds == {"none", "closed", "open", "snapshot"}

ASSUME CalendarAssumption == MaxDay \in Nat /\ MaxDay > 1
ASSUME UniverseAssumption == IsFiniteSet(Symbols) /\ Symbols # {}
ASSUME WindowAssumption == Window \in Nat
ASSUME HaltsAssumption == Halted \subseteq Symbols \X Days
ASSUME DeathsAssumption == MaxDeaths \in Nat

VARIABLES
  day, session,  \* the clock: UTC date, and the state of its US session
  branch,        \* paper-state: [cache, record]
  work,          \* the run's workspace, of the same shape
  pc,            \* the step the run is at
  today,         \* the date the refresh took from the clock
  unfetched,     \* symbols the refresh has still to ask for
  deaths         \* number of runs that died

clock == <<day, session>>
vars == <<clock, branch, work, pc, today, unfetched, deaths>>

-----------------------------------------------------------------------------
(***************************************************************************)
(* refresh.py and data.py: what a fetch returns and how it is merged.      *)
(***************************************************************************)
LastClosed == IF session = "after" THEN day ELSE day - 1
Traded(s) == {d \in Days : <<s, d>> \notin Halted}
ClosedOn(D) == [d \in Days |-> IF d \in D THEN "closed" ELSE "none"]

\* The days a refresh asks for, and those of them the symbol has a bar on.
Asked == {d \in Days : today - Window <= d /\ d <= today /\ d <= day}
Available(s) == {d \in Asked \cap Traded(s) : d <= LastClosed}

\* The rows of an answer; a null close is a day that is left out.
Served(answer) == [d \in Days |-> IF d \in Asked THEN answer[d] ELSE "none"]

Settles_AnyDate(rows, d) == rows[d] \in {"closed", "open"}
Settles_AnyVolume(rows, d) == rows[d] # "none" /\ d < today

\* update_cache keeps a fetched row if it has volume and is dated before today.
Settles(rows, d) == rows[d] \in {"closed", "open"} /\ d < today

\* Nothing kept: the file is left alone.  Otherwise its volume-0 rows go and
\* fresh rows win.
Merge(old, rows) ==
  IF \A d \in Days : ~Settles(rows, d) THEN old
  ELSE [d \in Days |-> IF Settles(rows, d) THEN rows[d]
                       ELSE IF old[d] = "snapshot" THEN "none" ELSE old[d]]

HasFile(cache, s) == \E d \in Days : cache[s][d] # "none"

\* get_bars: a symbol without a file is fetched with its history up to
\* yesterday, whatever bars of it the sources have; nothing is written if they
\* have none.  Unlike the refresh it filters nothing: that a history has no
\* volume-0 rows is assumed.
Files(s) ==
  IF HasFile(work.cache, s) THEN {work.cache[s]}
  ELSE {ClosedOn(D) : D \in SUBSET {d \in Traded(s) : d < day}}
Populations ==
  {cache \in [Symbols -> UNION {Files(s) : s \in Symbols}] :
     \A s \in Symbols : cache[s] \in Files(s)}

(***************************************************************************)
(* forward.py: the days a rule-based tick appends.                         *)
(***************************************************************************)
Bars(cache, s) == {d \in Days : cache[s][d] # "none"}
Later(cache, s, d) == {e \in Bars(cache, s) : e > d}
NetDates_NextBarOnly(cache) ==
  {d \in Days : \A s \in Symbols : Later(cache, s, d) # {}}

\* Full coverage: every symbol has a bar at d and a later one.
NetDates(cache) ==
  {d \in Days : \A s \in Symbols : d \in Bars(cache, s) /\ Later(cache, s, d) # {}}

\* The bars day d is scored from: its own and the symbol's next one.
Basis(cache, d) ==
  [s \in Symbols |-> LET e == Min(Later(cache, s, d))
                     IN [from |-> cache[s][d], to |-> e, at |-> cache[s][e]]]
Bases ==
  [Symbols -> [from : Kinds \ {"none"}, to : Days, at : Kinds \ {"none"}]]

NewDates_Backfills(recorded, net) ==
  IF recorded = {} THEN {d \in net : d = Max(net)} ELSE net \ recorded

\* The anchor on the first record; then newer days and interior gaps.
NewDates(recorded, net) ==
  IF recorded = {} THEN {d \in net : d = Max(net)}
  ELSE {d \in net : \/ d > Max(recorded)
                    \/ d > Min(recorded) /\ d \notin recorded}

Extended(record, cache) ==
  LET old == DOMAIN record
  IN [d \in old \cup NewDates(old, NetDates(cache)) |->
        IF d \in old THEN record[d] ELSE Basis(cache, d)]
-----------------------------------------------------------------------------
State ==
  [cache : [Symbols -> [Days -> Kinds]],
   record : [Records -> UNION {[D -> Bases] : D \in SUBSET Days}]]

TypeOK ==
  /\ day \in Days /\ session \in {"before", "open", "after"}
  /\ \A st \in {branch, work} :
       /\ st.cache \in [Symbols -> [Days -> Kinds]]
       /\ DOMAIN st.record = Records
       /\ \A r \in Records :
            /\ DOMAIN st.record[r] \subseteq Days
            /\ \A d \in DOMAIN st.record[r] : st.record[r][d] \in Bases
  /\ pc \in {"idle", "refresh", "persist"} \cup Records
  /\ today \in Days
  /\ unfetched \in SUBSET Symbols
  /\ deaths \in 0..MaxDeaths

\* paper-state was seeded with the closed bars of some symbols and no record.
Init ==
  /\ day = 2 /\ session = "before"
  /\ \E seeded \in SUBSET Symbols :
       branch = [cache  |-> [s \in Symbols |->
                               ClosedOn(IF s \in seeded THEN Traded(s) \cap {1} ELSE {})],
                 record |-> [r \in Records |-> <<>>]]
  /\ work = branch
  /\ pc = "idle" /\ today = 2 /\ unfetched = {}
  /\ deaths = 0

(***************************************************************************)
(* The clock.  It runs on while a run is under way, which may pass one     *)
(* midnight.  Any number of days may go by without a run.                  *)
(***************************************************************************)
SessionOpens == session = "before" /\ session' = "open" /\ day' = day
SessionCloses == session = "open" /\ session' = "after" /\ day' = day
Midnight ==
  /\ session = "after" /\ day < MaxDay
  /\ pc = "idle" \/ today = day
  /\ day' = day + 1 /\ session' = "before"

Clock ==
  /\ SessionOpens \/ SessionCloses \/ Midnight
  /\ UNCHANGED <<branch, work, pc, today, unfetched, deaths>>

Restore ==
  /\ pc = "idle"
  /\ work' = branch
  /\ today' = day
  /\ unfetched' = Symbols
  /\ pc' = "refresh"
  /\ UNCHANGED <<clock, branch, deaths>>

\* One batch is fetched and merged; a symbol the feed cannot serve is skipped.
Fetched(s, rows) ==
  /\ pc = "refresh"
  /\ s \in unfetched
  /\ work' = [work EXCEPT !.cache[s] = Merge(@, rows)]
  /\ unfetched' = unfetched \ {s}
  /\ pc' = IF unfetched' = {} THEN "main" ELSE "refresh"
  /\ UNCHANGED <<clock, branch, today, deaths>>

\* Of each day asked for the feed serves the closed bar if there is one, the
\* running bar of an open session, a volume-0 row, or nothing: any bar may be
\* missing, also in the middle of an answer.
Answers(s) ==
  {answer \in [Asked -> Kinds] : \A d \in Asked :
     /\ answer[d] = "closed" => d \in Available(s)
     /\ answer[d] = "open" => d = day /\ session = "open" /\ d \in Traded(s)}

Fetch(s) == \E answer \in Answers(s) : Fetched(s, Served(answer))

After(r) == IF r = "main" THEN "real" ELSE "persist"

Tick(r) ==
  /\ pc = r
  /\ \E cache \in Populations :
       /\ \A s \in Symbols : HasFile(cache, s)
       /\ work' = [cache  |-> cache,
                   record |-> [work.record EXCEPT ![r] = Extended(@, cache)]]
  /\ pc' = After(r)
  /\ UNCHANGED <<clock, branch, today, unfetched, deaths>>

\* A symbol that nothing could be fetched for fails the tick, and the run.
MainTickAborts ==
  /\ pc = "main"
  /\ \E cache \in Populations : \E s \in Symbols : ~HasFile(cache, s)
  /\ work' = branch
  /\ pc' = "idle"
  /\ UNCHANGED <<clock, branch, today, unfetched, deaths>>

TickFails_Fatal(r) ==
  /\ pc = r /\ r # "main"
  /\ work' = branch
  /\ pc' = "idle"
  /\ UNCHANGED <<clock, branch, today, unfetched, deaths>>

\* A tick that fails leaves what get_bars wrote; only the first one's failure
\* ends the run.
TickFails(r) ==
  /\ pc = r /\ r # "main"
  /\ \E cache \in Populations : work' = [work EXCEPT !.cache = cache]
  /\ pc' = After(r)
  /\ UNCHANGED <<clock, branch, today, unfetched, deaths>>

Persist_RecordsOnly ==
  /\ pc = "persist"
  /\ branch' = [branch EXCEPT !.record = work.record]
  /\ pc' = "idle"
  /\ UNCHANGED <<clock, work, today, unfetched, deaths>>

\* cache and records are committed together and pushed.
Persist ==
  /\ pc = "persist"
  /\ branch' = work
  /\ pc' = "idle"
  /\ UNCHANGED <<clock, work, today, unfetched, deaths>>

\* A batch raises, the first tick fails, the push is refused, the runner dies.
RunDies ==
  /\ pc # "idle"
  /\ deaths < MaxDeaths
  /\ deaths' = deaths + 1
  /\ work' = branch
  /\ pc' = "idle" /\ unfetched' = {}
  /\ UNCHANGED <<clock, branch, today>>

FetchStep == \E s \in Symbols : Fetch(s)
TickStep == MainTickAborts \/ \E r \in Records : Tick(r) \/ TickFails(r)

Next == Clock \/ Restore \/ FetchStep \/ TickStep \/ Persist \/ RunDies

Spec == Init /\ [][Next]_vars

(***************************************************************************)
(* Fairness.  The schedule starts a run every weekday and a run goes on.   *)
(* Feed failures are transient: among the fetches of a symbol there are    *)
(* again and again some that return every bar there is, and a first tick   *)
(* that is tried again and again succeeds.  Of the non-fatal tick only     *)
(* that it ends is asked.                                                  *)
(***************************************************************************)
Complete(s) == [d \in Asked |-> IF d \in Available(s) THEN "closed" ELSE "none"]
FullFetch(s) == Fetched(s, Served(Complete(s)))

Fairness ==
  /\ WF_vars(Restore)
  /\ \A s \in Symbols : SF_vars(FullFetch(s))
  /\ SF_vars(Tick("main"))
  /\ WF_vars(Tick("real") \/ TickFails("real"))
  /\ WF_vars(Persist)

FairSpec == Spec /\ Fairness
-----------------------------------------------------------------------------
(***************************************************************************)
(* Safety.                                                                 *)
(***************************************************************************)

\* No day is ever scored against a bar of a session that was still open or
\* a volume-0 snapshot, whenever in the day a run is started, however long
\* it takes and whatever the feed serves.
ScoredOnClosedBars ==
  \A st \in {branch, work}, r \in Records :
    \A d \in DOMAIN st.record[r] : \A s \in Symbols :
      st.record[r][d][s].from = "closed" /\ st.record[r][d][s].at = "closed"

\* A recorded day's return runs to the symbol's next trading day in every leg.
RunsToNextDay ==
  \A r \in Records : \A d \in DOMAIN work.record[r] : \A s \in Symbols :
    \A e \in Traded(s) : e > d => work.record[r][d][s].to <= e

\* What is on the branch belongs together, both ways, although ticks fail and
\* runs die between their steps: the bars a recorded day was scored from are in
\* the cache of the same commit, and a day after the first one that this cache
\* could score is in the main record.  So a symbol that falls silent stops the
\* record at its last bar and not before, and a hole that closes is filled.
CommitIsWhole ==
  /\ \A r \in Records : \A d \in DOMAIN branch.record[r] : \A s \in Symbols :
       /\ branch.cache[s][d] = branch.record[r][d][s].from
       /\ branch.cache[s][branch.record[r][d][s].to] = branch.record[r][d][s].at
  /\ \A d \in NetDates(branch.cache) :
       (\E first \in DOMAIN branch.record["main"] : first < d)
         => d \in DOMAIN branch.record["main"]

\* An intraday snapshot never overwrites a settled bar of the same date, and
\* no run loses one.
ClosedBarsStay ==
  [][\A s \in Symbols, d \in Days :
       branch.cache[s][d] = "closed" => branch'.cache[s][d] = "closed"]_vars

\* What a commit may make of a record: what was recorded stays as it was, a
\* record is opened with one day and then grows after its first day only, and
\* each leg of a new day ends on the first later bar the committed cache has,
\* one of a session that is over.
Enters(old, new, cache) ==
  /\ \A d \in DOMAIN old : d \in DOMAIN new /\ new[d] = old[d]
  /\ IF DOMAIN old = {} THEN \A d, e \in DOMAIN new : d = e
     ELSE \A d \in DOMAIN new \ DOMAIN old : \E first \in DOMAIN old : first < d
  /\ \A d \in DOMAIN new \ DOMAIN old, s \in Symbols :
       LET end == new[d][s].to
       IN /\ d < end /\ end <= LastClosed
          /\ \A e \in Days : d < e /\ e < end => cache[s][e] = "none"

\* Holes may close after later days were recorded, a day may be scored across a
\* hole that closes afterwards, ticks fail and runs die with the workspace they
\* had: no commit rewrites a day, reaches back before the first one, or skips a
\* bar it has.
CommitsEnterDays ==
  [][\A r \in Records :
       Enters(branch.record[r], branch'.record[r], branch'.cache)]_vars

(***************************************************************************)
(* Liveness (FairSpec).                                                    *)
(***************************************************************************)
\* The bars that score day d: every symbol trades on d, and again on a day that
\* is over.
Scorable(d) ==
  \A s \in Symbols :
    d \in Traded(s) /\ \E e \in Traded(s) : d < e /\ e < day

\* As long as the refresh still reaches a day that can be scored, nothing keeps
\* it out of the main record for good: not a hole the feed left in some answers,
\* not the later days recorded before it, not a run that died, and not the other
\* tick, however often it fails.
MainRecordGrows ==
  \A d \in Days :
    (\E first \in DOMAIN branch.record["main"] : first < d) /\ Scorable(d)
      ~> d \in DOMAIN branch.record["main"] \/ day - d > Window
=============================================================================
