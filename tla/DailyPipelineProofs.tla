-------------------------- MODULE DailyPipelineProofs --------------------------
(***************************************************************************)
(* Theorems about DailyPipeline, for every universe, calendar, window,     *)
(* set of halts, number of runs that die, and for a feed that may leave    *)
(* any bar out of any answer: days are scored from closed bars only, a     *)
(* commit holds the bars its records were scored from, no closed bar is    *)
(* ever lost, and a commit only enters days.                               *)
(*                                                                         *)
(* The argument is about one state (of the branch or of a workspace): its  *)
(* cache holds closed bars only and backs its records.  Each step of a run *)
(* keeps that, and keeps the closed bars of the branch in the workspace.   *)
(***************************************************************************)
EXTENDS DailyPipeline, TLAPS, FiniteSetTheorems, WellFoundedInduction

Rows == [Days -> {"none", "closed"}]
Caches == [Symbols -> Rows]
Histories == UNION {[D -> Bases] : D \in SUBSET Days}

\* The bars a history was scored from are closed bars of the cache.
BackedBy(h, cache) ==
  \A d \in DOMAIN h, s \in Symbols :
    /\ h[d][s].from = "closed" /\ h[d][s].at = "closed"
    /\ cache[s][d] = "closed" /\ cache[s][h[d][s].to] = "closed"

Sound(st) ==
  /\ st \in [cache : Caches, record : [Records -> Histories]]
  /\ \A r \in Records : BackedBy(st.record[r], st.cache)

\* A closed bar of the one is a closed bar of the other.
Keeps(old, new) ==
  \A s \in Symbols, d \in Days : old[s][d] = "closed" => new[s][d] = "closed"

PipeInv ==
  /\ day \in Days /\ session \in {"before", "open", "after"}
  /\ pc \in {"idle", "refresh", "persist"} \cup Records
  /\ today \in Days /\ today <= day
  /\ unfetched \in SUBSET Symbols
  /\ deaths \in 0..MaxDeaths
  /\ Sound(branch) /\ Sound(work)
  /\ pc # "idle" => Keeps(branch.cache, work.cache)

-----------------------------------------------------------------------------
(***************************************************************************)
(* Days, histories and caches.                                             *)
(***************************************************************************)

\* A nonempty set of days has a first one, and Min is it.
LEMMA MinOfDays ==
  ASSUME NEW S \in SUBSET Days, S # {}
  PROVE  Min(S) \in S
<1>1. S \subseteq Nat
  BY CalendarAssumption DEF Days
<1>2. PICK m \in S : \A x \in S : ~(<<x, m>> \in OpToRel(<, Nat))
  BY <1>1, WFMin, NatLessThanWellFounded
<1>3. ASSUME NEW x \in S PROVE m <= x
  <2>1. ~(<<x, m>> \in {p \in Nat \X Nat : p[1] < p[2]})
    BY <1>2 DEF OpToRel
  <2>2. x \in Nat /\ m \in Nat
    BY <1>1
  <2> QED
    BY <2>1, <2>2
<1> QED
  BY <1>3 DEF Min

LEMMA HistoryFacts ==
  ASSUME NEW h \in Histories
  PROVE  DOMAIN h \subseteq Days /\ h \in [DOMAIN h -> Bases]
<1>1. PICK D \in SUBSET Days : h \in [D -> Bases]
  BY DEF Histories
<1> QED
  BY <1>1

\* Closed bars stay backed when the cache only gains some.
LEMMA BackedStays ==
  ASSUME NEW h \in Histories, NEW old \in Caches, NEW new \in Caches,
         BackedBy(h, old), Keeps(old, new)
  PROVE  BackedBy(h, new)
<1> SUFFICES ASSUME NEW d \in DOMAIN h, NEW s \in Symbols
             PROVE  /\ h[d][s].from = "closed" /\ h[d][s].at = "closed"
                    /\ new[s][d] = "closed" /\ new[s][h[d][s].to] = "closed"
  BY DEF BackedBy
<1>1. d \in Days /\ h[d] \in Bases
  BY HistoryFacts
<1>2. h[d][s].to \in Days
  BY <1>1 DEF Bases
<1> QED
  BY <1>1, <1>2 DEF BackedBy, Keeps

(***************************************************************************)
(* The refresh.  The running bar of an open session is dated today or      *)
(* later, so what settles is closed.                                       *)
(***************************************************************************)
LEMMA AnswersSettleClosed ==
  ASSUME NEW s \in Symbols, NEW answer \in Answers(s),
         day \in Days, today \in Days, today <= day
  PROVE  \A d \in Days : Settles(Served(answer), d) =>
           Served(answer)[d] = "closed" /\ d \in Available(s)
<1> SUFFICES ASSUME NEW d \in Days, Settles(Served(answer), d)
             PROVE  Served(answer)[d] = "closed" /\ d \in Available(s)
  OBVIOUS
<1>1. d < today /\ Served(answer)[d] \in {"closed", "open"}
  BY DEF Settles
<1>2. d \in Asked /\ Served(answer)[d] = answer[d]
  BY <1>1 DEF Served
<1>3. d # day
  BY <1>1, CalendarAssumption DEF Days
<1>4. answer[d] = "closed"
  BY <1>1, <1>2, <1>3 DEF Answers
<1> QED
  BY <1>2, <1>4 DEF Answers

\* What a merge makes of a cached symbol.
LEMMA MergeFacts ==
  ASSUME NEW old \in Rows, NEW rows,
         \A d \in Days : Settles(rows, d) => rows[d] = "closed"
  PROVE  /\ Merge(old, rows) \in Rows
         /\ \A d \in Days : old[d] = "closed" => Merge(old, rows)[d] = "closed"
<1>1. CASE \A d \in Days : ~Settles(rows, d)
  BY <1>1 DEF Merge
<1>2. CASE ~(\A d \in Days : ~Settles(rows, d))
  <2>1. Merge(old, rows) =
          [d \in Days |-> IF Settles(rows, d) THEN rows[d]
                          ELSE IF old[d] = "snapshot" THEN "none" ELSE old[d]]
    BY <1>2 DEF Merge
  <2>2. \A d \in Days : old[d] \in {"none", "closed"}
    BY DEF Rows
  <2> QED
    BY <2>1, <2>2 DEF Rows
<1> QED
  BY <1>1, <1>2

LEMMA FetchKeepsSound ==
  ASSUME PipeInv, NEW s \in Symbols, NEW answer \in Answers(s),
         NEW rows, rows = Served(answer), Fetched(s, rows)
  PROVE  Sound(work') /\ Keeps(work.cache, work'.cache)
<1>1. /\ work \in [cache : Caches, record : [Records -> Histories]]
      /\ \A r \in Records : BackedBy(work.record[r], work.cache)
  BY DEF PipeInv, Sound
<1>2. work.cache[s] \in Rows
  BY <1>1 DEF Caches
<1>3. \A d \in Days : Settles(rows, d) => rows[d] = "closed"
  BY AnswersSettleClosed DEF PipeInv
<1> DEFINE merged == Merge(work.cache[s], rows)
<1>4. merged \in Rows /\ \A d \in Days : work.cache[s][d] = "closed" => merged[d] = "closed"
  BY <1>2, <1>3, MergeFacts
<1>5. work' = [work EXCEPT !.cache[s] = merged]
  BY DEF Fetched
<1> HIDE DEF merged
<1>6. /\ work' \in [cache : Caches, record : [Records -> Histories]]
      /\ work'.record = work.record
      /\ work'.cache = [work.cache EXCEPT ![s] = merged]
  BY <1>1, <1>4, <1>5 DEF Caches
<1>7. Keeps(work.cache, work'.cache)
  BY <1>1, <1>4, <1>6 DEF Keeps, Caches
<1>8. \A r \in Records : BackedBy(work'.record[r], work'.cache)
  BY <1>1, <1>6, <1>7, BackedStays
<1> QED
  BY <1>6, <1>7, <1>8 DEF Sound

(***************************************************************************)
(* The ticks.                                                              *)
(***************************************************************************)
LEMMA PopulationFacts ==
  ASSUME NEW cache \in Populations, work.cache \in Caches
  PROVE  /\ cache \in Caches /\ Keeps(work.cache, cache)
         /\ \A s \in Symbols :
              HasFile(work.cache, s) => cache[s] = work.cache[s]
<1>1. /\ cache \in [Symbols -> UNION {Files(s) : s \in Symbols}]
      /\ \A s \in Symbols : cache[s] \in Files(s)
  BY DEF Populations
<1>2. ASSUME NEW s \in Symbols PROVE cache[s] \in Rows
  <2>1. CASE HasFile(work.cache, s)
    BY <1>1, <2>1 DEF Files, Caches
  <2>2. CASE ~HasFile(work.cache, s)
    <3>1. PICK D : cache[s] = ClosedOn(D)
      BY <1>1, <2>2 DEF Files
    <3> QED
      BY <3>1 DEF ClosedOn, Rows
  <2> QED
    BY <2>1, <2>2
<1>3. cache \in Caches
  BY <1>1, <1>2 DEF Caches
<1>4. \A s \in Symbols : HasFile(work.cache, s) => cache[s] = work.cache[s]
  BY <1>1 DEF Files
<1>5. ASSUME NEW s \in Symbols, NEW d \in Days, work.cache[s][d] = "closed"
      PROVE  cache[s][d] = "closed"
  <2>1. HasFile(work.cache, s)
    BY <1>5 DEF HasFile
  <2> QED
    BY <1>4, <1>5, <2>1
<1> QED
  BY <1>3, <1>4, <1>5 DEF Keeps

\* A day with full coverage is scored from closed bars of a clean cache.
LEMMA BasisFacts ==
  ASSUME NEW cache \in Caches, NEW d \in NetDates(cache)
  PROVE  /\ Basis(cache, d) \in Bases
         /\ \A s \in Symbols :
              LET b == Basis(cache, d)[s]
              IN /\ b.from = "closed" /\ b.at = "closed"
                 /\ cache[s][d] = "closed" /\ cache[s][b.to] = "closed"
<1> DEFINE e(s) == Min(Later(cache, s, d))
<1>1. ASSUME NEW s \in Symbols
      PROVE  /\ d \in Days /\ cache[s][d] = "closed"
             /\ e(s) \in Days /\ cache[s][e(s)] = "closed"
  <2>1. /\ d \in Days /\ d \in Bars(cache, s)
        /\ Later(cache, s, d) # {} /\ Later(cache, s, d) \subseteq Bars(cache, s)
    BY DEF NetDates, Later
  <2>2. e(s) \in Bars(cache, s)
    BY <2>1, MinOfDays DEF Bars
  <2>3. \A x \in Bars(cache, s) : x \in Days /\ cache[s][x] = "closed"
    BY DEF Bars, Caches, Rows
  <2> QED
    BY <2>1, <2>2, <2>3
<1>2. Basis(cache, d) =
        [s \in Symbols |-> [from |-> cache[s][d], to |-> e(s), at |-> cache[s][e(s)]]]
  BY DEF Basis
<1> HIDE DEF e
<1> QED
  BY <1>1, <1>2 DEF Bases, Kinds

\* A tick extends a backed record to a backed record.
LEMMA ExtendedFacts ==
  ASSUME NEW cache \in Caches, NEW h \in Histories, BackedBy(h, cache)
  PROVE  Extended(h, cache) \in Histories /\ BackedBy(Extended(h, cache), cache)
<1> DEFINE new == NewDates(DOMAIN h, NetDates(cache))
           ext == Extended(h, cache)
<1>1. DOMAIN h \subseteq Days /\ h \in [DOMAIN h -> Bases]
  BY HistoryFacts
<1>2. new \subseteq NetDates(cache) /\ NetDates(cache) \subseteq Days
  BY DEF NewDates, NetDates
<1>3. ext = [d \in DOMAIN h \cup new |-> IF d \in DOMAIN h THEN h[d] ELSE Basis(cache, d)]
  BY DEF Extended
<1> HIDE DEF new, ext
<1>4. ASSUME NEW d \in DOMAIN h \cup new PROVE ext[d] \in Bases
  <2>1. CASE d \in DOMAIN h
    BY <1>1, <1>3, <2>1
  <2>2. CASE d \notin DOMAIN h
    BY <1>2, <1>3, <2>2, BasisFacts
  <2> QED
    BY <2>1, <2>2
<1>5. ext \in Histories
  <2>1. DOMAIN h \cup new \in SUBSET Days
    BY <1>1, <1>2
  <2>2. ext \in [DOMAIN h \cup new -> Bases]
    BY <1>3, <1>4
  <2> QED
    BY <2>1, <2>2 DEF Histories
<1>6. ASSUME NEW d \in DOMAIN ext, NEW s \in Symbols
      PROVE  /\ ext[d][s].from = "closed" /\ ext[d][s].at = "closed"
             /\ cache[s][d] = "closed" /\ cache[s][ext[d][s].to] = "closed"
  <2>1. CASE d \in DOMAIN h
    BY <1>3, <2>1 DEF BackedBy
  <2>2. CASE d \notin DOMAIN h
    BY <1>2, <1>3, <2>2, BasisFacts
  <2> QED
    BY <2>1, <2>2
<1> QED
  BY <1>5, <1>6 DEF BackedBy, ext

LEMMA TickKeepsSound ==
  ASSUME PipeInv, NEW r \in Records, Tick(r) \/ TickFails(r)
  PROVE  Sound(work') /\ Keeps(work.cache, work'.cache)
<1>1. /\ work \in [cache : Caches, record : [Records -> Histories]]
      /\ \A k \in Records : BackedBy(work.record[k], work.cache)
  BY DEF PipeInv, Sound
<1>2. PICK cache \in Populations :
        \/ work' = [cache  |-> cache,
                    record |-> [work.record EXCEPT ![r] = Extended(@, cache)]]
        \/ work' = [work EXCEPT !.cache = cache]
  BY DEF Tick, TickFails
<1>3. cache \in Caches /\ Keeps(work.cache, cache)
  BY <1>1, PopulationFacts
<1>4. \A k \in Records : work.record[k] \in Histories /\ BackedBy(work.record[k], cache)
  BY <1>1, <1>3, BackedStays
<1>5. /\ Extended(work.record[r], cache) \in Histories
      /\ BackedBy(Extended(work.record[r], cache), cache)
  BY <1>3, <1>4, ExtendedFacts
<1>6. /\ work' \in [cache : Caches, record : [Records -> Histories]]
      /\ work'.cache = cache
      /\ \/ work'.record = work.record
         \/ work'.record = [work.record EXCEPT ![r] = Extended(work.record[r], cache)]
  BY <1>1, <1>2, <1>3, <1>5
<1>7. \A k \in Records : BackedBy(work'.record[k], work'.cache)
  BY <1>1, <1>4, <1>5, <1>6
<1> QED
  BY <1>3, <1>6, <1>7 DEF Sound

LEMMA KeepsComposes ==
  ASSUME NEW a, NEW b, NEW c, Keeps(a, b), Keeps(b, c)
  PROVE  Keeps(a, c)
BY DEF Keeps

-----------------------------------------------------------------------------
(***************************************************************************)
(* The invariant.                                                          *)
(***************************************************************************)
LEMMA PipeInit == Init => PipeInv
<1> SUFFICES ASSUME Init PROVE PipeInv
  OBVIOUS
<1>1. PICK seeded \in SUBSET Symbols :
        branch = [cache  |-> [s \in Symbols |->
                                ClosedOn(IF s \in seeded THEN Traded(s) \cap {1} ELSE {})],
                  record |-> [r \in Records |-> <<>>]]
  BY DEF Init
<1>2. \A D : ClosedOn(D) \in Rows
  BY DEF ClosedOn, Rows
<1>3. branch.cache \in Caches
  BY <1>1, <1>2 DEF Caches
<1>4. <<>> \in Histories /\ \A cache : BackedBy(<<>>, cache)
  <2>1. <<>> \in [{} -> Bases] /\ DOMAIN <<>> = {}
    OBVIOUS
  <2> QED
    BY <2>1 DEF Histories, BackedBy
<1>5. /\ branch \in [cache : Caches, record : [Records -> Histories]]
      /\ \A r \in Records : branch.record[r] = <<>>
  BY <1>1, <1>3, <1>4
<1>6. Sound(branch)
  BY <1>4, <1>5 DEF Sound
<1>7. 2 \in Days
  BY CalendarAssumption DEF Days
<1>8. work = branch /\ day = 2 /\ session = "before" /\ pc = "idle" /\ today = 2
      /\ unfetched = {} /\ deaths = 0
  BY DEF Init
<1>9. Sound(work)
  BY <1>6, <1>8
<1> QED
  BY <1>6, <1>7, <1>8, <1>9, DeathsAssumption DEF PipeInv

LEMMA PipeStep == PipeInv /\ [Next]_vars => PipeInv'
<1> SUFFICES ASSUME PipeInv, [Next]_vars PROVE PipeInv'
  OBVIOUS
<1> USE DEF Records
<1>0. day \in Nat /\ today \in Nat /\ MaxDay \in Nat
  BY CalendarAssumption DEF PipeInv, Days
<1>1. CASE Clock
  <2>1. /\ day' \in {day, day + 1} /\ session' \in {"before", "open", "after"}
        /\ day' \in Days
    BY <1>0, <1>1 DEF Clock, SessionOpens, SessionCloses, Midnight, PipeInv, Days
  <2>2. UNCHANGED <<branch, work, pc, today, unfetched, deaths>>
    BY <1>1 DEF Clock
  <2>3. today <= day'
    BY <1>0, <2>1 DEF PipeInv
  <2> QED
    BY <2>1, <2>2, <2>3 DEF PipeInv, Sound
<1>2. CASE Restore
  <2>1. /\ work' = branch /\ branch' = branch /\ today' = day /\ pc' = "refresh"
        /\ unfetched' = Symbols /\ deaths' = deaths /\ day' = day /\ session' = session
    BY <1>2 DEF Restore, clock
  <2>2. Sound(branch)' /\ Sound(work)'
    BY <2>1 DEF PipeInv, Sound
  <2>3. Keeps(branch.cache, work.cache)'
    BY <2>1 DEF Keeps
  <2> QED
    BY <1>0, <2>1, <2>2, <2>3 DEF PipeInv
<1>3. ASSUME NEW s \in Symbols, Fetch(s) PROVE PipeInv'
  <2>1. PICK answer \in Answers(s) : Fetched(s, Served(answer))
    BY <1>3 DEF Fetch
  <2>2. Sound(work') /\ Keeps(work.cache, work'.cache)
    BY <2>1, FetchKeepsSound
  <2>3. /\ pc = "refresh" /\ pc' \in {"main", "refresh"}
        /\ unfetched' \in SUBSET Symbols
        /\ UNCHANGED <<day, session, branch, deaths, today>>
    BY <2>1 DEF Fetched, clock, PipeInv
  <2>4. Keeps(branch.cache, work'.cache)
    BY <2>2, <2>3, KeepsComposes DEF PipeInv
  <2>5. Sound(branch)'
    BY <2>3 DEF PipeInv, Sound
  <2>6. Sound(work)' /\ Keeps(branch.cache, work.cache)'
    BY <2>2, <2>3, <2>4 DEF Sound, Keeps
  <2> QED
    BY <2>3, <2>5, <2>6 DEF PipeInv
<1>4. CASE MainTickAborts
  <2>1. /\ work' = branch /\ pc' = "idle"
        /\ UNCHANGED <<day, session, branch, today, unfetched, deaths>>
    BY <1>4 DEF MainTickAborts, clock
  <2>2. Sound(branch)' /\ Sound(work)'
    BY <2>1 DEF PipeInv, Sound
  <2> QED
    BY <2>1, <2>2 DEF PipeInv
<1>5. ASSUME NEW r \in Records, Tick(r) \/ TickFails(r) PROVE PipeInv'
  <2>1. Sound(work') /\ Keeps(work.cache, work'.cache)
    BY <1>5, TickKeepsSound
  <2>2. /\ pc # "idle" /\ pc' \in {"real", "persist"}
        /\ UNCHANGED <<day, session, branch, today, unfetched, deaths>>
    BY <1>5 DEF Tick, TickFails, After, clock
  <2>3. Keeps(branch.cache, work'.cache)
    BY <2>1, <2>2, KeepsComposes DEF PipeInv
  <2>4. Sound(branch)'
    BY <2>2 DEF PipeInv, Sound
  <2>5. Sound(work)' /\ Keeps(branch.cache, work.cache)'
    BY <2>1, <2>2, <2>3 DEF Sound, Keeps
  <2> QED
    BY <2>2, <2>4, <2>5 DEF PipeInv
<1>6. CASE Persist
  <2>1. /\ branch' = work /\ work' = work /\ pc' = "idle"
        /\ UNCHANGED <<day, session, today, unfetched, deaths>>
    BY <1>6 DEF Persist, clock
  <2>2. Sound(branch)' /\ Sound(work)'
    BY <2>1 DEF PipeInv, Sound
  <2> QED
    BY <2>1, <2>2 DEF PipeInv
<1>7. CASE RunDies
  <2>1. /\ work' = branch /\ pc' = "idle" /\ unfetched' = {}
        /\ deaths' \in 0..MaxDeaths
        /\ UNCHANGED <<day, session, branch, today>>
    BY <1>7, DeathsAssumption DEF RunDies, clock, PipeInv
  <2>2. Sound(branch)' /\ Sound(work)'
    BY <2>1 DEF PipeInv, Sound
  <2> QED
    BY <2>1, <2>2 DEF PipeInv
<1>8. CASE UNCHANGED vars
  BY <1>8 DEF vars, clock, PipeInv, Sound, Keeps
<1> QED
  BY <1>1, <1>2, <1>3, <1>4, <1>5, <1>6, <1>7, <1>8 DEF Next, FetchStep, TickStep

LEMMA PipeInvariant == Spec => []PipeInv
BY PipeInit, PipeStep, PTL DEF Spec

-----------------------------------------------------------------------------
(***************************************************************************)
(* The theorems.                                                           *)
(***************************************************************************)

\* The clock, the run's step, the caches, the records and the bars each day
\* was scored from keep their types.
THEOREM TypeCorrect == Spec => []TypeOK
<1>1. PipeInv => TypeOK
  <2> SUFFICES ASSUME PipeInv PROVE TypeOK
    OBVIOUS
  <2>1. ASSUME NEW st, Sound(st)
        PROVE  /\ st.cache \in [Symbols -> [Days -> Kinds]]
               /\ DOMAIN st.record = Records
               /\ \A r \in Records :
                    /\ DOMAIN st.record[r] \subseteq Days
                    /\ \A d \in DOMAIN st.record[r] : st.record[r][d] \in Bases
    <3>1. st.cache \in Caches /\ st.record \in [Records -> Histories]
      BY <2>1 DEF Sound
    <3>2. st.cache \in [Symbols -> [Days -> Kinds]]
      BY <3>1 DEF Caches, Rows, Kinds
    <3> QED
      BY <3>1, <3>2, HistoryFacts
  <2> QED
    BY <2>1 DEF PipeInv, TypeOK
<1> QED
  BY <1>1, PipeInvariant, PTL

\* Whatever the feed serves, however long a run takes and wherever one dies,
\* no day is scored on an open session or a volume-0 snapshot.
THEOREM ScoresAreClosed == Spec => []ScoredOnClosedBars
<1>1. PipeInv => ScoredOnClosedBars
  BY DEF PipeInv, Sound, BackedBy, ScoredOnClosedBars
<1> QED
  BY <1>1, PipeInvariant, PTL

\* No commit loses a closed bar or puts another kind of bar in its place.
THEOREM ClosedBarsAreKept == Spec => ClosedBarsStay
<1>1. PipeInv /\ [Next]_vars =>
        [\A s \in Symbols, d \in Days :
           branch.cache[s][d] = "closed" => branch'.cache[s][d] = "closed"]_vars
  <2> SUFFICES ASSUME PipeInv, Next, NEW s \in Symbols, NEW d \in Days,
                      branch.cache[s][d] = "closed"
               PROVE  branch'.cache[s][d] = "closed"
    OBVIOUS
  <2>1. CASE Persist
    <3>1. branch' = work /\ pc # "idle"
      BY <2>1 DEF Persist
    <3> QED
      BY <3>1 DEF PipeInv, Keeps
  <2>2. CASE ~Persist
    <3>1. branch' = branch
      BY <2>2 DEF Next, Clock, Restore, FetchStep, Fetch, Fetched, TickStep,
                  MainTickAborts, Tick, TickFails, RunDies
    <3> QED
      BY <3>1
  <2> QED
    BY <2>1, <2>2
<1> QED
  BY <1>1, PipeInvariant, PTL DEF Spec, ClosedBarsStay

-----------------------------------------------------------------------------
(***************************************************************************)
(* What a commit makes of the records.  The workspace's record is the      *)
(* branch's, grown by the one tick a run has for it; the legs of the days  *)
(* it gained end on the next bar of the workspace's cache, which no later  *)
(* step of the run puts a bar before; and what is cached as closed is of a *)
(* session that is over.                                                   *)
(***************************************************************************)
\* Only bars of sessions that are over are cached as closed.
Seen(cache, last) ==
  \A s \in Symbols, d \in Days : cache[s][d] = "closed" => d <= last

\* What one tick makes of a history: one day to open it, later only days
\* after one that was there.
Grown(old, new) ==
  /\ DOMAIN old \subseteq DOMAIN new
  /\ \A d \in DOMAIN old : new[d] = old[d]
  /\ IF DOMAIN old = {} THEN \A d, e \in DOMAIN new : d = e
     ELSE \A d \in DOMAIN new \ DOMAIN old : \E first \in DOMAIN old : first < d

\* The legs of the days gained jump over no cached bar.
NextBars(old, new, cache) ==
  \A d \in DOMAIN new \ DOMAIN old, s \in Symbols :
    /\ d < new[d][s].to
    /\ \A e \in Days : d < e /\ e < new[d][s].to => cache[s][e] = "none"

\* A run ticks every record at most once.
EntryInv ==
  /\ PipeInv
  /\ Seen(branch.cache, LastClosed) /\ Seen(work.cache, LastClosed)
  /\ pc # "idle" =>
       \A r \in Records :
         /\ Grown(branch.record[r], work.record[r])
         /\ NextBars(branch.record[r], work.record[r], work.cache)
  /\ pc \in {"refresh", "main"} => work.record = branch.record
  /\ pc = "real" => work.record["real"] = branch.record["real"]

LEMMA DayFacts == Days \subseteq Nat /\ (MaxDay \in Nat) /\ (1 \in Days)
BY CalendarAssumption DEF Days

LEMMA MinOfDaysIsFirst ==
  ASSUME NEW S \in SUBSET Days, NEW x \in S
  PROVE  Min(S) <= x
<1>1. S \subseteq Nat
  BY DayFacts
<1>2. PICK m \in S : \A y \in S : ~(<<y, m>> \in OpToRel(<, Nat))
  BY <1>1, WFMin, NatLessThanWellFounded
<1>3. ASSUME NEW y \in S PROVE m <= y
  <2>1. ~(<<y, m>> \in {p \in Nat \X Nat : p[1] < p[2]})
    BY <1>2 DEF OpToRel
  <2>2. y \in Nat /\ m \in Nat
    BY <1>1
  <2> QED
    BY <2>1, <2>2
<1> QED
  BY <1>3 DEF Min

\* A nonempty set of days has a last one, and Max is it.
LEMMA MaxOfDays ==
  ASSUME NEW S \in SUBSET Days, S # {}
  PROVE  Max(S) \in S /\ \A x \in S : Max(S) >= x
<1> DEFINE T == {n \in Days : MaxDay + 1 - n \in S}
           m == MaxDay + 1 - Min(T)
<1>1. \A x \in S : MaxDay + 1 - x \in T
  BY DayFacts DEF Days
<1>2. T \in SUBSET Days /\ T # {}
  BY <1>1
<1>3. Min(T) \in T /\ \A n \in T : Min(T) <= n
  BY <1>2, MinOfDays, MinOfDaysIsFirst
<1>4. m \in S
  BY <1>3
<1>5. ASSUME NEW x \in S PROVE m >= x
  <2>1. Min(T) <= MaxDay + 1 - x
    BY <1>1, <1>3
  <2>2. Min(T) \in Nat /\ x \in Nat
    BY <1>3, DayFacts
  <2> QED
    BY <2>1, <2>2, DayFacts
<1> HIDE DEF m
<1> QED
  BY <1>4, <1>5 DEF Max

LEMMA LastClosedType ==
  ASSUME PipeInv PROVE day \in Nat /\ LastClosed \in Int /\ day - 1 <= LastClosed
BY DayFacts DEF PipeInv, LastClosed

\* Time passes.
LEMMA LastClosedGrows ==
  ASSUME PipeInv, [Next]_vars PROVE LastClosed <= LastClosed'
<1>1. day \in Nat
  BY DayFacts DEF PipeInv
<1>2. CASE Clock
  BY <1>1, <1>2 DEF Clock, SessionOpens, SessionCloses, Midnight, LastClosed
<1>3. CASE UNCHANGED clock
  BY <1>1, <1>3 DEF LastClosed, clock
<1> QED
  BY <1>2, <1>3 DEF Next, vars, Restore, FetchStep, Fetch, Fetched, TickStep,
                    MainTickAborts, Tick, TickFails, Persist, RunDies

LEMMA SeenLater ==
  ASSUME NEW cache, NEW a \in Int, NEW b \in Int, a <= b, Seen(cache, a)
  PROVE  Seen(cache, b)
BY DayFacts DEF Seen

\* A feed has no closed bar of a session that is not over.
LEMMA FetchSees ==
  ASSUME PipeInv, NEW s \in Symbols, Fetch(s), Seen(work.cache, LastClosed)
  PROVE  Seen(work'.cache, LastClosed)
<1>1. PICK answer \in Answers(s) : Fetched(s, Served(answer))
  BY DEF Fetch
<1> DEFINE rows == Served(answer)
<1>2. ASSUME NEW d \in Days, Settles(rows, d) PROVE d <= LastClosed
  <2>1. d \in Available(s)
    BY <1>2, AnswersSettleClosed DEF PipeInv
  <2> QED
    BY <2>1 DEF Available
<1>3. work \in [cache : Caches, record : [Records -> Histories]]
  BY DEF PipeInv, Sound
<1>4. work'.cache = [work.cache EXCEPT ![s] = Merge(work.cache[s], rows)]
  BY <1>1, <1>3 DEF Fetched
<1> HIDE DEF rows
<1>5. ASSUME NEW d \in Days, Merge(work.cache[s], rows)[d] = "closed"
      PROVE  d <= LastClosed
  <2>1. work.cache[s][d] = "closed" \/ Settles(rows, d)
    BY <1>5 DEF Merge
  <2> QED
    BY <1>2, <2>1 DEF Seen
<1> QED
  BY <1>3, <1>4, <1>5 DEF Seen, Caches

\* Nor has a history.
LEMMA PopulationSees ==
  ASSUME PipeInv, NEW cache \in Populations, Seen(work.cache, LastClosed)
  PROVE  Seen(cache, LastClosed)
<1> SUFFICES ASSUME NEW s \in Symbols, NEW d \in Days, cache[s][d] = "closed"
             PROVE  d <= LastClosed
  BY DEF Seen
<1>1. cache[s] \in Files(s)
  BY DEF Populations
<1>2. CASE HasFile(work.cache, s)
  BY <1>1, <1>2 DEF Files, Seen
<1>3. CASE ~HasFile(work.cache, s)
  <2>1. PICK D \in SUBSET {x \in Traded(s) : x < day} : cache[s] = ClosedOn(D)
    BY <1>1, <1>3 DEF Files
  <2>2. d \in D
    BY <2>1 DEF ClosedOn
  <2>3. d < day
    BY <2>1, <2>2
  <2> QED
    BY <2>3, LastClosedType, DayFacts
<1> QED
  BY <1>2, <1>3

\* The anchor is one day; the days a later tick finds lie after the first.
LEMMA ExtendedGrows ==
  ASSUME NEW h \in Histories, NEW cache
  PROVE  Grown(h, Extended(h, cache))
<1> DEFINE new == NewDates(DOMAIN h, NetDates(cache))
<1>1. Extended(h, cache) =
        [d \in DOMAIN h \cup new |->
           IF d \in DOMAIN h THEN h[d] ELSE Basis(cache, d)]
  BY DEF Extended
<1>2. ASSUME DOMAIN h = {}, NEW d \in new, NEW e \in new PROVE d = e
  BY <1>2 DEF NewDates
<1>3. ASSUME DOMAIN h # {}, NEW d \in new
      PROVE  \E first \in DOMAIN h : first < d
  <2>1. DOMAIN h \in SUBSET Days
    BY HistoryFacts
  <2>2. Max(DOMAIN h) \in DOMAIN h /\ Min(DOMAIN h) \in DOMAIN h
    BY <1>3, <2>1, MaxOfDays, MinOfDays
  <2>3. d > Max(DOMAIN h) \/ d > Min(DOMAIN h)
    BY <1>3 DEF NewDates
  <2>4. d \in Nat /\ Max(DOMAIN h) \in Nat /\ Min(DOMAIN h) \in Nat
    BY <2>1, <2>2, DayFacts DEF NewDates, NetDates
  <2> QED
    BY <2>2, <2>3, <2>4
<1> HIDE DEF new
<1> QED
  BY <1>1, <1>2, <1>3 DEF Grown

LEMMA NothingGrown ==
  ASSUME NEW h, NEW cache PROVE Grown(h, h) /\ NextBars(h, h, cache)
BY DEF Grown, NextBars

\* A day is scored to the next bar of the cache the tick reads.
LEMMA ExtendedNextBars ==
  ASSUME NEW h \in Histories, NEW cache \in Caches
  PROVE  NextBars(h, Extended(h, cache), cache)
<1> DEFINE new == NewDates(DOMAIN h, NetDates(cache))
           ext == Extended(h, cache)
<1>1. ext = [d \in DOMAIN h \cup new |->
               IF d \in DOMAIN h THEN h[d] ELSE Basis(cache, d)]
  BY DEF Extended
<1>2. new \subseteq NetDates(cache)
  BY DEF NewDates
<1> HIDE DEF new, ext
<1> SUFFICES ASSUME NEW d \in DOMAIN ext \ DOMAIN h, NEW s \in Symbols
             PROVE  /\ d < ext[d][s].to
                    /\ \A e \in Days : d < e /\ e < ext[d][s].to => cache[s][e] = "none"
  BY DEF NextBars, ext
<1> DEFINE later == Later(cache, s, d)
           end == Min(later)
<1>3. d \in NetDates(cache) /\ ext[d] = Basis(cache, d)
  BY <1>1, <1>2
<1>4. ext[d][s].to = end
  BY <1>3 DEF Basis
<1>5. d \in Days /\ later \in SUBSET Days /\ later # {}
  BY <1>3 DEF NetDates, Later, Bars
<1>6. end \in later /\ \A e \in later : end <= e
  BY <1>5, MinOfDays, MinOfDaysIsFirst
<1>7. end \in Days /\ d < end
  BY <1>5, <1>6 DEF Later
<1> HIDE DEF end
<1>8. ASSUME NEW e \in Days, d < e, e < end PROVE cache[s][e] = "none"
  <2>1. e \notin later
    BY <1>5, <1>6, <1>7, <1>8, DayFacts
  <2> QED
    BY <1>8, <2>1 DEF Later, Bars
<1> QED
  BY <1>4, <1>7, <1>8

\* What a tick leaves of the workspace: the files of symbols that had one, and
\* of the records it grows at most its own.
LEMMA TickGrows ==
  ASSUME EntryInv, NEW r \in Records, Tick(r) \/ TickFails(r)
  PROVE  /\ Seen(work'.cache, LastClosed)
         /\ \A k \in Records :
              /\ Grown(branch.record[k], work'.record[k])
              /\ NextBars(branch.record[k], work'.record[k], work'.cache)
         /\ r = "main" => work'.record["real"] = branch.record["real"]
<1>1. /\ work \in [cache : Caches, record : [Records -> Histories]]
      /\ \A k \in Records : BackedBy(work.record[k], work.cache)
  BY DEF EntryInv, PipeInv, Sound
<1>2. pc = r /\ pc \in {"main", "real"} /\ {"main", "real"} = Records
  BY DEF Tick, TickFails, Records
<1>3. work.record[r] = branch.record[r]
      /\ (r = "main" => work.record["real"] = branch.record["real"])
  BY <1>2 DEF EntryInv
<1>4. \A k \in Records :
        /\ Grown(branch.record[k], work.record[k])
        /\ NextBars(branch.record[k], work.record[k], work.cache)
  BY <1>2 DEF EntryInv
<1>5. PICK cache \in Populations :
        \/ work' = [cache  |-> cache,
                    record |-> [work.record EXCEPT ![r] = Extended(@, cache)]]
        \/ work' = [work EXCEPT !.cache = cache]
  BY DEF Tick, TickFails
<1>6. /\ cache \in Caches /\ Seen(cache, LastClosed)
      /\ \A s \in Symbols : HasFile(work.cache, s) => cache[s] = work.cache[s]
  BY <1>1, PopulationFacts, PopulationSees DEF EntryInv
<1>7. /\ work'.cache = cache
      /\ \A k \in Records \ {r} : work'.record[k] = work.record[k]
      /\ \/ work'.record[r] = work.record[r]
         \/ work'.record[r] = Extended(work.record[r], cache)
  BY <1>1, <1>5
<1>8. Grown(work.record[r], Extended(work.record[r], cache))
      /\ NextBars(work.record[r], Extended(work.record[r], cache), cache)
  BY <1>1, <1>6, ExtendedGrows, ExtendedNextBars
\* A leg scored before has its symbol's file, which get_bars leaves alone.
<1>9. ASSUME NEW k \in Records PROVE NextBars(branch.record[k], work.record[k], cache)
  <2> SUFFICES ASSUME NEW d \in DOMAIN work.record[k] \ DOMAIN branch.record[k],
                      NEW s \in Symbols
               PROVE  cache[s] = work.cache[s]
    BY <1>4 DEF NextBars
  <2>1. d \in Days /\ work.cache[s][d] = "closed"
    BY <1>1, HistoryFacts DEF BackedBy
  <2>2. HasFile(work.cache, s)
    BY <2>1 DEF HasFile
  <2> QED
    BY <1>6, <2>2
<1>10. \A k \in Records :
         /\ Grown(branch.record[k], work'.record[k])
         /\ NextBars(branch.record[k], work'.record[k], work'.cache)
  <2>1. CASE work'.record[r] = work.record[r]
    BY <1>4, <1>7, <1>9, <2>1
  <2>2. CASE work'.record[r] = Extended(work.record[r], cache)
    BY <1>3, <1>4, <1>7, <1>8, <1>9, <2>2
  <2> QED
    BY <1>7, <2>1, <2>2
<1> QED
  BY <1>2, <1>3, <1>6, <1>7, <1>10

LEMMA EntryInit == Init => EntryInv
<1> SUFFICES ASSUME Init PROVE EntryInv
  OBVIOUS
<1>1. PICK seeded \in SUBSET Symbols :
        branch = [cache  |-> [s \in Symbols |->
                                ClosedOn(IF s \in seeded THEN Traded(s) \cap {1} ELSE {})],
                  record |-> [r \in Records |-> <<>>]]
  BY DEF Init
<1>2. work = branch /\ pc = "idle" /\ LastClosed = 1
  BY DEF Init, LastClosed
<1>3. Seen(branch.cache, 1)
  BY <1>1 DEF Seen, ClosedOn
<1> QED
  BY <1>2, <1>3, PipeInit DEF EntryInv

LEMMA EntryStep ==
  ASSUME EntryInv, [Next]_vars
  PROVE  EntryInv'
<1>1. PipeInv'
  BY PipeStep DEF EntryInv
<1>2. LastClosed \in Int /\ LastClosed' \in Int /\ LastClosed <= LastClosed'
  <2>1. PipeInv
    BY DEF EntryInv
  <2>2. LastClosed \in Int
    BY <2>1, LastClosedType
  <2>3. LastClosed' \in Int
    BY <1>1, DayFacts DEF PipeInv, LastClosed
  <2> QED
    BY <2>1, <2>2, <2>3, LastClosedGrows
<1>3. Seen(branch.cache, LastClosed') /\ Seen(work.cache, LastClosed')
  BY <1>2, SeenLater DEF EntryInv
<1>4. CASE Clock
  <2>1. UNCHANGED <<branch, work, pc>>
    BY <1>4 DEF Clock
  <2> QED
    BY <1>1, <1>3, <2>1 DEF EntryInv, Seen, Grown, NextBars
<1>5. CASE Restore
  <2>1. branch' = branch /\ work' = branch /\ pc' = "refresh"
    BY <1>5 DEF Restore
  <2>2. \A r \in Records :
          /\ Grown(branch'.record[r], work'.record[r])
          /\ NextBars(branch'.record[r], work'.record[r], work'.cache)
    BY <2>1, NothingGrown
  <2>3. Seen(branch'.cache, LastClosed') /\ Seen(work'.cache, LastClosed')
    BY <1>3, <2>1
  <2> QED
    BY <1>1, <2>1, <2>2, <2>3 DEF EntryInv, Seen, Grown, NextBars
<1>6. ASSUME NEW s \in Symbols, Fetch(s) PROVE EntryInv'
  <2>1. Seen(work'.cache, LastClosed)
    BY <1>6, FetchSees DEF EntryInv
  <2>2. Seen(work'.cache, LastClosed')
    BY <1>2, <2>1, SeenLater
  <2>3. work \in [cache : Caches, record : [Records -> Histories]]
    BY DEF EntryInv, PipeInv, Sound
  <2>4. /\ branch' = branch /\ work'.record = work.record
        /\ pc = "refresh" /\ pc' \in {"refresh", "main"}
    BY <1>6, <2>3 DEF Fetch, Fetched
  <2>5. work'.record = branch'.record
    BY <2>4 DEF EntryInv
  <2>6. \A r \in Records :
          /\ Grown(branch'.record[r], work'.record[r])
          /\ NextBars(branch'.record[r], work'.record[r], work'.cache)
    BY <2>5, NothingGrown
  <2>7. Seen(branch'.cache, LastClosed')
    BY <1>3, <2>4
  <2> QED
    BY <1>1, <2>2, <2>4, <2>5, <2>6, <2>7 DEF EntryInv, Seen, Grown, NextBars
<1>7. ASSUME NEW r \in Records, Tick(r) \/ TickFails(r) PROVE EntryInv'
  <2>1. /\ Seen(work'.cache, LastClosed)
        /\ \A k \in Records :
             /\ Grown(branch.record[k], work'.record[k])
             /\ NextBars(branch.record[k], work'.record[k], work'.cache)
        /\ r = "main" => work'.record["real"] = branch.record["real"]
    BY <1>7, TickGrows
  <2>2. Seen(work'.cache, LastClosed')
    BY <1>2, <2>1, SeenLater
  <2>3. branch' = branch /\ pc' = IF r = "main" THEN "real" ELSE "persist"
    BY <1>7 DEF Tick, TickFails, After
  <2>4. Seen(branch'.cache, LastClosed')
    BY <1>3, <2>3
  <2> QED
    BY <1>1, <2>1, <2>2, <2>3, <2>4 DEF EntryInv, Seen, Grown, NextBars
<1>8. CASE MainTickAborts \/ RunDies
  <2>1. branch' = branch /\ work' = branch /\ pc' = "idle"
    BY <1>8 DEF MainTickAborts, RunDies
  <2>2. Seen(branch'.cache, LastClosed') /\ Seen(work'.cache, LastClosed')
    BY <1>3, <2>1
  <2> QED
    BY <1>1, <2>1, <2>2 DEF EntryInv, Seen
<1>9. CASE Persist
  <2>1. branch' = work /\ work' = work /\ pc' = "idle"
    BY <1>9 DEF Persist
  <2>2. Seen(branch'.cache, LastClosed') /\ Seen(work'.cache, LastClosed')
    BY <1>3, <2>1
  <2> QED
    BY <1>1, <2>1, <2>2 DEF EntryInv, Seen
<1>10. CASE UNCHANGED vars
  <2>1. UNCHANGED <<branch, work, pc>>
    BY <1>10 DEF vars
  <2> QED
    BY <1>1, <1>3, <2>1 DEF EntryInv, Seen, Grown, NextBars
<1> QED
  BY <1>4, <1>5, <1>6, <1>7, <1>8, <1>9, <1>10 DEF Next, FetchStep, TickStep

\* Only a commit changes the branch.
LEMMA BranchSteps ==
  ASSUME [Next]_vars PROVE Persist \/ branch' = branch
BY DEF Next, vars, Clock, Restore, FetchStep, Fetch, Fetched, TickStep,
       MainTickAborts, Tick, TickFails, RunDies

LEMMA PersistEnters ==
  ASSUME EntryInv, Persist, NEW r \in Records
  PROVE  Enters(branch.record[r], branch'.record[r], branch'.cache)
<1> DEFINE old == branch.record[r]
           new == work.record[r]
<1>1. branch' = work /\ pc # "idle"
  BY DEF Persist
<1>2. Grown(old, new) /\ NextBars(old, new, work.cache)
  BY <1>1 DEF EntryInv
<1>3. new \in Histories /\ BackedBy(new, work.cache) /\ Seen(work.cache, LastClosed)
  BY DEF EntryInv, PipeInv, Sound
<1>4. ASSUME NEW d \in DOMAIN new, NEW s \in Symbols
      PROVE  new[d][s].to <= LastClosed
  <2>1. new[d] \in Bases
    BY <1>3, HistoryFacts
  <2>2. new[d][s].to \in Days
    BY <2>1 DEF Bases
  <2> QED
    BY <1>3, <2>2 DEF BackedBy, Seen
<1> HIDE DEF old, new
<1>5. Enters(old, new, work.cache)
  BY <1>2, <1>4 DEF Enters, Grown, NextBars
<1> QED
  BY <1>1, <1>5 DEF old, new

\* Whichever bars the feed leaves out and whenever it delivers them, a commit
\* leaves the recorded days as they are, opens a record with one day, adds only
\* days after the first, and scores them to the next bar of its own cache, none
\* of them of a session that is still open.
THEOREM CommitsOnlyEnter == Spec => CommitsEnterDays
<1>1. EntryInv /\ [Next]_vars =>
        [\A r \in Records :
           Enters(branch.record[r], branch'.record[r], branch'.cache)]_vars
  <2> SUFFICES ASSUME EntryInv, Next, NEW r \in Records
               PROVE  Enters(branch.record[r], branch'.record[r], branch'.cache)
    OBVIOUS
  <2>1. CASE Persist
    BY <2>1, PersistEnters
  <2>2. CASE branch' = branch
    BY <2>2 DEF Enters
  <2> QED
    BY <2>1, <2>2, BranchSteps
<1>2. EntryInv /\ [Next]_vars => EntryInv'
  BY EntryStep
<1> QED
  BY <1>1, <1>2, EntryInit, PTL DEF Spec, CommitsEnterDays

-----------------------------------------------------------------------------
(***************************************************************************)
(* A commit leaves no day out.  The main tick has read the very cache that *)
(* is committed: after it every symbol has a file, and files are only      *)
(* fetched for symbols without one.                                        *)
(***************************************************************************)
\* Every day after the first that the cache could score is in the history.
FullHistory(h, cache) ==
  \A d \in NetDates(cache) :
    (\E first \in DOMAIN h : first < d) => d \in DOMAIN h

WholeInv ==
  /\ PipeInv
  /\ FullHistory(branch.record["main"], branch.cache)
  /\ pc \in {"real", "persist"} =>
       /\ FullHistory(work.record["main"], work.cache)
       /\ \A s \in Symbols : HasFile(work.cache, s)

LEMMA ExtendedIsFull ==
  ASSUME NEW h \in Histories, NEW cache
  PROVE  FullHistory(Extended(h, cache), cache)
<1> DEFINE old == DOMAIN h
           net == NetDates(cache)
           new == NewDates(old, net)
<1>1. DOMAIN Extended(h, cache) = old \cup new
  BY DEF Extended
<1>2. old \in SUBSET Days /\ net \in SUBSET Days
  BY HistoryFacts DEF NetDates
<1> SUFFICES ASSUME NEW d \in net, NEW first \in old \cup new, first < d
             PROVE  d \in old \cup new
  <2> HIDE DEF old, new
  <2> QED
    BY <1>1 DEF FullHistory
<1>3. CASE old = {}
  <2>1. first = Max(net) /\ first \in net
    BY <1>3 DEF NewDates
  <2>2. first >= d
    BY <1>2, <2>1, MaxOfDays
  <2>3. first \in Nat /\ d \in Nat
    BY <1>2, <2>1, DayFacts
  <2>4. FALSE
    BY <2>2, <2>3
  <2> QED
    BY <2>4
<1>4. CASE old # {}
  <2>1. Min(old) \in old /\ Max(old) \in old /\ \A x \in old : Min(old) <= x
    BY <1>2, <1>4, MinOfDays, MinOfDaysIsFirst, MaxOfDays
  <2>2. \A x \in new : x \in net /\ (x > Max(old) \/ x > Min(old))
    BY <1>4 DEF NewDates
  <2>3. Min(old) <= first
    <3>1. Min(old) \in Nat /\ Max(old) \in Nat /\ first \in Nat
      BY <1>2, <2>1, <2>2, DayFacts
    <3> QED
      BY <2>1, <2>2, <3>1
  <2>4. d > Min(old)
    <3>1. d \in Nat /\ Min(old) \in Nat /\ first \in Nat
      BY <1>2, <2>1, <2>2, DayFacts
    <3> QED
      BY <2>3, <3>1
  <2> QED
    BY <1>4, <2>4 DEF NewDates
<1> QED
  BY <1>3, <1>4

LEMMA WholeInit == Init => WholeInv
<1> SUFFICES ASSUME Init PROVE WholeInv
  OBVIOUS
<1>1. branch.record["main"] = <<>> /\ pc = "idle"
  BY DEF Init, Records
<1> QED
  BY <1>1, PipeInit DEF WholeInv, FullHistory

LEMMA WholeStep ==
  ASSUME WholeInv, [Next]_vars
  PROVE  WholeInv'
<1>1. PipeInv'
  BY PipeStep DEF WholeInv
<1>2. work \in [cache : Caches, record : [Records -> Histories]]
  BY DEF WholeInv, PipeInv, Sound
<1>3. CASE Tick("main")
  <2>1. PICK cache \in Populations :
          /\ \A s \in Symbols : HasFile(cache, s)
          /\ work' = [cache  |-> cache,
                      record |-> [work.record EXCEPT !["main"] = Extended(@, cache)]]
    BY <1>3 DEF Tick
  <2>2. /\ work'.cache = cache
        /\ work'.record["main"] = Extended(work.record["main"], cache)
        /\ work.record["main"] \in Histories
    BY <1>2, <2>1 DEF Records
  <2>3. FullHistory(work'.record["main"], work'.cache)
    BY <2>2, ExtendedIsFull
  <2>4. branch' = branch
    BY <1>3 DEF Tick
  <2> QED
    BY <1>1, <2>1, <2>2, <2>3, <2>4 DEF WholeInv, FullHistory, NetDates, Bars, Later, HasFile
<1>4. CASE Tick("real") \/ TickFails("real")
  <2>1. PICK cache \in Populations :
          \/ work' = [cache  |-> cache,
                      record |-> [work.record EXCEPT !["real"] = Extended(@, cache)]]
          \/ work' = [work EXCEPT !.cache = cache]
    BY <1>4 DEF Tick, TickFails
  <2>2. pc = "real" /\ branch' = branch
    BY <1>4 DEF Tick, TickFails
  <2>3. cache = work.cache
    <3>1. /\ cache \in Caches /\ work.cache \in Caches
          /\ \A s \in Symbols : cache[s] = work.cache[s]
      BY <1>2, <2>2, PopulationFacts DEF WholeInv
    <3> QED
      BY <3>1 DEF Caches
  <2>4. work'.cache = work.cache /\ work'.record["main"] = work.record["main"]
    BY <1>2, <2>1, <2>3 DEF Records
  <2> QED
    BY <1>1, <2>2, <2>4 DEF WholeInv, FullHistory, NetDates, Bars, Later, HasFile
<1>5. CASE Persist
  <2>1. branch' = work /\ pc = "persist" /\ pc' = "idle"
    BY <1>5 DEF Persist
  <2> QED
    BY <1>1, <2>1 DEF WholeInv, FullHistory, NetDates, Bars, Later
<1>6. CASE Clock \/ UNCHANGED vars
  <2>1. UNCHANGED <<branch, work, pc>>
    BY <1>6 DEF Clock, vars
  <2> QED
    BY <1>1, <2>1 DEF WholeInv, FullHistory, NetDates, Bars, Later, HasFile
<1>7. CASE Restore \/ MainTickAborts \/ RunDies \/ \E s \in Symbols : Fetch(s)
  <2>1. branch' = branch /\ pc' \in {"refresh", "main", "idle"}
    BY <1>7 DEF Restore, MainTickAborts, RunDies, Fetch, Fetched
  <2> QED
    BY <1>1, <2>1 DEF WholeInv, FullHistory, NetDates, Bars, Later
<1>8. CASE TickFails("main")
  BY <1>8 DEF TickFails
<1> QED
  BY <1>3, <1>4, <1>5, <1>6, <1>7, <1>8 DEF Next, FetchStep, TickStep, Records

\* Every commit holds the bars its recorded days were scored from, and its main
\* record every day after the first that its bars could score, however many
\* symbols are silent and wherever runs die.
THEOREM CommitsAreWhole == Spec => []CommitIsWhole
<1>1. WholeInv => CommitIsWhole
  <2> SUFFICES ASSUME WholeInv PROVE CommitIsWhole
    OBVIOUS
  <2>1. \A r \in Records : \A d \in DOMAIN branch.record[r] : \A s \in Symbols :
          /\ branch.cache[s][d] = branch.record[r][d][s].from
          /\ branch.cache[s][branch.record[r][d][s].to] = branch.record[r][d][s].at
    BY DEF WholeInv, PipeInv, Sound, BackedBy
  <2> QED
    BY <2>1 DEF CommitIsWhole, WholeInv, FullHistory
<1>2. WholeInv /\ [Next]_vars => WholeInv'
  BY WholeStep
<1> QED
  BY <1>1, <1>2, WholeInit, PTL DEF Spec
=============================================================================
