--------------------------- MODULE AgentPoolProofs ---------------------------
(***************************************************************************)
(* Proofs about AgentPool, for every set of symbols, every number of       *)
(* threads, every rate limit and every lateness: the pool implements       *)
(* BatchDecision, the slots it books are apart and no further ahead than   *)
(* there are threads, and the rate limit is kept.                          *)
(***************************************************************************)
EXTENDS AgentPool, TLAPS, FiniteSetTheorems, SequenceTheorems

Decisions == [status : {"none", "ok", "failed"}, target : Positions]
Places == {"free", "pace", "book", "sleep", "call"}

(***************************************************************************)
(* What makes a batch sound: a symbol waits for its Decision exactly while *)
(* it is queued or one thread works on it.                                 *)
(***************************************************************************)
BatchTypes ==
  /\ current \in [Symbols -> Positions]
  /\ decided \in [Symbols -> Decisions]
  /\ queue \in SUBSET Symbols
  /\ task \in [Workers -> Symbols \cup {NoTask}]
  /\ at \in [Workers -> Places]

FreeIffNoTask == \A w \in Workers : at[w] = "free" <=> task[w] = NoTask

QueuedIsPending == \A s \in queue : decided[s] = Pending

TakenIsPending ==
  \A w \in Workers : task[w] # NoTask =>
    task[w] \notin queue /\ decided[task[w]] = Pending

OneThreadPerSymbol ==
  \A v, w \in Workers : task[v] # NoTask /\ task[v] = task[w] => v = w

PendingIsSomewhere ==
  \A s \in Symbols : decided[s] = Pending =>
    s \in queue \/ \E w \in Workers : task[w] = s

BatchInv ==
  /\ BatchTypes
  /\ FreeIffNoTask
  /\ QueuedIsPending
  /\ TakenIsPending
  /\ OneThreadPerSymbol
  /\ PendingIsSomewhere

(***************************************************************************)
(* What keeps the slots apart: the thread in the lock holds the slot its   *)
(* booking will be computed from, whatever time passes meanwhile.          *)
(***************************************************************************)
PaceTypes ==
  /\ at \in [Workers -> Places]
  /\ age \in [Workers -> Nat]
  /\ nextCall \in Int
  /\ slot \in [Workers -> Int]
  /\ sleep \in [Workers -> Nat]

LockIsTheBooking == \A w \in Workers : at[w] = "book" <=> w \in lock
OneInLock == \A v, w \in lock : v = w

BookingIsCurrent ==
  \A w \in Workers : at[w] = "book" =>
    /\ age[w] <= MaxLate
    /\ slot[w] = Larger(-age[w], nextCall)
    /\ sleep[w] >= slot[w]

PaceInv ==
  /\ PaceTypes
  /\ LockIsTheBooking
  /\ lock \in SUBSET Workers
  /\ OneInLock
  /\ BookingIsCurrent
  /\ SlotsApart
-----------------------------------------------------------------------------
LEMMA DecisionValues ==
  /\ Pending \in Decisions
  /\ \A p \in Positions : Failure(p) \in Decisions /\ Failure(p) # Pending
  /\ \A t \in Targets : Verdict(t) \in Decisions /\ Verdict(t) # Pending
BY DEF Pending, Failure, Verdict, Decisions, Positions

LEMMA BatchInit == PoolInit => BatchInv
<1> SUFFICES ASSUME PoolInit PROVE BatchInv
  OBVIOUS
<1>1. BatchTypes
  BY DecisionValues DEF PoolInit, Init, BatchTypes, Places
<1>2. FreeIffNoTask /\ TakenIsPending /\ OneThreadPerSymbol
  BY DEF PoolInit, FreeIffNoTask, TakenIsPending, OneThreadPerSymbol
<1>3. QueuedIsPending /\ PendingIsSomewhere
  BY DEF PoolInit, Init, QueuedIsPending, PendingIsSomewhere
<1>4. QED
  BY <1>1, <1>2, <1>3 DEF BatchInv

\* A thread that only moves along within its task leaves the batch alone.
LEMMA BatchMove ==
  ASSUME BatchInv, NEW w \in Workers, at[w] # "free",
         NEW p \in Places \ {"free"}, at' = [at EXCEPT ![w] = p],
         UNCHANGED <<current, decided, queue, task>>
  PROVE  BatchInv'
<1>1. BatchTypes'
  BY DEF BatchInv, BatchTypes
<1>2. FreeIffNoTask'
  BY DEF BatchInv, BatchTypes, FreeIffNoTask
<1>3. (QueuedIsPending /\ TakenIsPending)'
  BY DEF BatchInv, QueuedIsPending, TakenIsPending
<1>4. (OneThreadPerSymbol /\ PendingIsSomewhere)'
  BY DEF BatchInv, OneThreadPerSymbol, PendingIsSomewhere
<1>5. QED
  BY <1>1, <1>2, <1>3, <1>4 DEF BatchInv

LEMMA BatchTake ==
  ASSUME BatchInv, NEW w \in Workers, Take(w)
  PROVE  BatchInv'
<1>1. PICK s \in queue : task' = [task EXCEPT ![w] = s] /\ queue' = queue \ {s}
  BY DEF Take
<1>2. s \in Symbols /\ s # NoTask /\ at[w] = "free" /\ task[w] = NoTask
  BY NoTaskAssumption DEF Take, BatchInv, BatchTypes, FreeIffNoTask
<1>3. UNCHANGED <<current, decided>> /\ at' = [at EXCEPT ![w] = "pace"]
  BY DEF Take
<1>4. BatchTypes'
  BY <1>1, <1>2, <1>3 DEF BatchInv, BatchTypes, Places
<1>5. FreeIffNoTask'
  BY <1>1, <1>2, <1>3 DEF BatchInv, BatchTypes, FreeIffNoTask
<1>6. QueuedIsPending'
  BY <1>1, <1>3 DEF BatchInv, QueuedIsPending
<1>7. TakenIsPending'
  BY <1>1, <1>2, <1>3 DEF BatchInv, BatchTypes, TakenIsPending, QueuedIsPending
<1>8. OneThreadPerSymbol'
  BY <1>1, <1>2 DEF BatchInv, BatchTypes, OneThreadPerSymbol, TakenIsPending
<1>9. PendingIsSomewhere'
  <2> SUFFICES ASSUME NEW x \in Symbols, decided[x] = Pending
               PROVE  x \in queue' \/ \E v \in Workers : task'[v] = x
    BY <1>3 DEF PendingIsSomewhere
  <2>1. CASE x = s
    BY <2>1, <1>1 DEF BatchInv, BatchTypes
  <2>2. CASE x # s /\ x \in queue
    BY <2>2, <1>1
  <2>3. CASE x # s /\ x \notin queue
    <3>1. PICK v \in Workers : task[v] = x
      BY <2>3 DEF BatchInv, PendingIsSomewhere
    <3>2. v # w
      BY <3>1, <1>2, NoTaskAssumption
    <3>3. QED
      BY <3>1, <3>2, <1>1 DEF BatchInv, BatchTypes
  <2>4. QED
    BY <2>1, <2>2, <2>3
<1>10. QED
  BY <1>4, <1>5, <1>6, <1>7, <1>8, <1>9 DEF BatchInv

\* What EndCall records: a Decision of the symbol the thread worked on.
LEMMA EndCallDecides ==
  ASSUME BatchInv, NEW w \in Workers, EndCall(w)
  PROVE  /\ task[w] \in Symbols
         /\ decided[task[w]] = Pending
         /\ \E d \in {Failure(current[task[w]])} \cup {Verdict(t) : t \in Targets} :
              /\ d \in Decisions /\ d # Pending
              /\ decided' = [decided EXCEPT ![task[w]] = d]
<1>1. task[w] \in Symbols /\ decided[task[w]] = Pending
  BY DEF EndCall, BatchInv, BatchTypes, FreeIffNoTask, TakenIsPending
<1>2. current[task[w]] \in Positions
  BY <1>1 DEF BatchInv, BatchTypes
<1>3. PICK d \in {Failure(current[task[w]])} \cup {Verdict(t) : t \in Targets} :
           decided' = [decided EXCEPT ![task[w]] = d]
  BY DEF EndCall, Fallback
<1>4. d \in Decisions /\ d # Pending
  BY <1>2, DecisionValues
<1>5. QED
  BY <1>1, <1>3, <1>4

LEMMA BatchEndCall ==
  ASSUME BatchInv, NEW w \in Workers, EndCall(w)
  PROVE  BatchInv'
<1>1. task[w] \in Symbols /\ task[w] # NoTask /\ task[w] \notin queue
  BY EndCallDecides, NoTaskAssumption DEF BatchInv, TakenIsPending
<1>2. PICK d \in Decisions : d # Pending /\ decided' = [decided EXCEPT ![task[w]] = d]
  BY EndCallDecides
<1>3. /\ task' = [task EXCEPT ![w] = NoTask]
      /\ at' = [at EXCEPT ![w] = "free"]
      /\ UNCHANGED <<current, queue>>
  BY DEF EndCall
<1>4. BatchTypes'
  BY <1>2, <1>3 DEF BatchInv, BatchTypes, Places
<1>5. FreeIffNoTask'
  BY <1>3 DEF BatchInv, BatchTypes, FreeIffNoTask
<1>6. QueuedIsPending'
  BY <1>1, <1>2, <1>3 DEF BatchInv, BatchTypes, QueuedIsPending
<1>7. TakenIsPending'
  <2> SUFFICES ASSUME NEW v \in Workers, task'[v] # NoTask
               PROVE  task'[v] \notin queue' /\ decided'[task'[v]] = Pending
    BY DEF TakenIsPending
  <2>1. v # w /\ task'[v] = task[v]
    BY <1>3 DEF BatchInv, BatchTypes
  <2>2. task[v] # task[w]
    BY <2>1, <1>1 DEF BatchInv, OneThreadPerSymbol
  <2>3. task[v] \in Symbols /\ task[v] \notin queue /\ decided[task[v]] = Pending
    BY <2>1 DEF BatchInv, BatchTypes, TakenIsPending
  <2>4. QED
    BY <2>1, <2>2, <2>3, <1>2, <1>3 DEF BatchInv, BatchTypes
<1>8. OneThreadPerSymbol'
  BY <1>3 DEF BatchInv, BatchTypes, OneThreadPerSymbol
<1>9. PendingIsSomewhere'
  <2> SUFFICES ASSUME NEW x \in Symbols, decided'[x] = Pending
               PROVE  x \in queue' \/ \E v \in Workers : task'[v] = x
    BY DEF PendingIsSomewhere
  <2>1. x # task[w] /\ decided[x] = Pending
    BY <1>1, <1>2 DEF BatchInv, BatchTypes
  <2>2. CASE x \in queue
    BY <2>2, <1>3
  <2>3. CASE x \notin queue
    <3>1. PICK v \in Workers : task[v] = x
      BY <2>1, <2>3 DEF BatchInv, PendingIsSomewhere
    <3>2. QED
      BY <3>1, <2>1, <1>3 DEF BatchInv, BatchTypes
  <2>4. QED
    BY <2>2, <2>3
<1>10. QED
  BY <1>4, <1>5, <1>6, <1>7, <1>8, <1>9 DEF BatchInv

\* When the pool is empty every symbol has its Decision.
LEMMA EmptyPoolIsDone ==
  ASSUME BatchInv, BatchOver PROVE Done
<1> SUFFICES ASSUME NEW s \in Symbols, decided[s] = Pending PROVE FALSE
  BY DEF Done
<1>1. PICK w \in Workers : task[w] = s
  BY DEF BatchInv, PendingIsSomewhere, BatchOver
<1>2. QED
  BY <1>1, NoTaskAssumption DEF BatchInv, FreeIffNoTask, BatchOver

LEMMA BatchNewBatch ==
  ASSUME BatchInv, NewBatch
  PROVE  BatchInv'
<1>1. \A w \in Workers : task[w] = NoTask
  BY DEF NewBatch, BatchOver, BatchInv, FreeIffNoTask
<1>2. \A s \in Symbols : decided[s].target \in Positions
  BY DEF BatchInv, BatchTypes, Decisions
<1>3. BatchTypes'
  BY <1>2, DecisionValues DEF NewBatch, threads, BatchInv, BatchTypes
<1>4. (FreeIffNoTask /\ TakenIsPending /\ OneThreadPerSymbol)'
  BY <1>1 DEF NewBatch, threads, BatchInv, FreeIffNoTask, TakenIsPending,
              OneThreadPerSymbol
<1>5. (QueuedIsPending /\ PendingIsSomewhere)'
  BY DEF NewBatch, QueuedIsPending, PendingIsSomewhere
<1>6. QED
  BY <1>3, <1>4, <1>5 DEF BatchInv

LEMMA BatchFrame ==
  ASSUME BatchInv, UNCHANGED <<current, decided, queue, task, at>>
  PROVE  BatchInv'
BY DEF BatchInv, BatchTypes, FreeIffNoTask, QueuedIsPending, TakenIsPending,
       OneThreadPerSymbol, PendingIsSomewhere

LEMMA BatchStep == BatchInv /\ [PoolNext]_vars => BatchInv'
<1> SUFFICES ASSUME BatchInv, [PoolNext]_vars PROVE BatchInv'
  OBVIOUS
<1>1. CASE Tick
  BY <1>1, BatchFrame DEF Tick
<1>2. CASE NewBatch
  BY <1>2, BatchNewBatch
<1>3. ASSUME NEW w \in Workers, Thread(w) PROVE BatchInv'
  <2>1. CASE Take(w)
    BY <2>1, BatchTake
  <2>2. CASE ReadClock(w)
    BY <2>2, BatchMove DEF ReadClock, Places
  <2>3. CASE BookSlot(w)
    BY <2>3, BatchMove DEF BookSlot, Places
  <2>4. CASE StartCall(w)
    BY <2>4, BatchMove DEF StartCall, Places
  <2>5. CASE EndCall(w)
    BY <2>5, BatchEndCall
  <2>6. QED
    BY <1>3, <2>1, <2>2, <2>3, <2>4, <2>5 DEF Thread
<1>4. CASE UNCHANGED vars
  BY <1>4, BatchFrame DEF vars, threads
<1>5. QED
  BY <1>1, <1>2, <1>3, <1>4 DEF PoolNext

LEMMA BatchInvariant == PoolSpec => []BatchInv
BY BatchInit, BatchStep, PTL DEF PoolSpec

\* decide_all gives every symbol one Decision, a failed call holds the
\* position it came in with, and no batch overlaps the next: the pool's every
\* step is a step of BatchDecision or changes nothing it sees.
THEOREM PoolKeepsPromise == PoolSpec => KeepsPromise
<1>1. PoolInit => Promise!Init
  BY DEF PoolInit, Init, Promise!Init, Promise!Positions, Positions,
         Promise!Pending, Pending
<1>2. ASSUME BatchInv, [PoolNext]_vars
      PROVE  [Promise!Next]_<<current, decided>>
  <2>1. CASE NewBatch
    <3>1. Promise!Done
      BY <1>2, <2>1, EmptyPoolIsDone
         DEF NewBatch, Done, Pending, Promise!Done, Promise!Pending
    <3>2. Promise!NextBatch
      BY <2>1, <3>1 DEF NewBatch, Pending, Promise!NextBatch, Promise!Pending
    <3>3. QED
      BY <3>2 DEF Promise!Next
  <2>2. ASSUME NEW w \in Workers, Thread(w)
        PROVE  [Promise!Next]_<<current, decided>>
    <3>1. CASE EndCall(w)
      <4>1. task[w] \in Symbols /\ decided[task[w]] = Pending
        BY <3>1, <1>2, EndCallDecides
      <4>2. \E d \in {Failure(current[task[w]])} \cup {Verdict(t) : t \in Targets} :
              decided' = [decided EXCEPT ![task[w]] = d]
        BY <3>1, <1>2, EndCallDecides
      <4>3. UNCHANGED current
        BY <3>1 DEF EndCall
      <4>4. Promise!DecideOne(task[w])
        BY <4>1, <4>2, <4>3
           DEF Promise!DecideOne, Promise!Pending, Promise!Failure,
               Promise!Verdict, Pending, Failure, Verdict
      <4>5. QED
        BY <4>1, <4>4 DEF Promise!Next
    <3>2. CASE ~EndCall(w)
      BY <2>2, <3>2 DEF Thread, Take, ReadClock, BookSlot, StartCall
    <3>3. QED
      BY <3>1, <3>2
  <2>3. CASE Tick \/ UNCHANGED vars
    BY <2>3 DEF Tick, vars
  <2>4. QED
    BY <1>2, <2>1, <2>2, <2>3 DEF PoolNext
<1>3. QED
  BY <1>1, <1>2, BatchInvariant, PTL DEF PoolSpec, KeepsPromise, Promise!Spec

LEMMA LargerFacts ==
  \A a, b \in Int : /\ Larger(a, b) \in Int
                    /\ Larger(a, b) >= a /\ Larger(a, b) >= b
                    /\ Larger(a, b) = a \/ Larger(a, b) = b
BY DEF Larger

LEMMA PaceStart == PoolInit => PaceInv
BY IntervalAssumption, LateAssumption
   DEF PoolInit, PaceInv, PaceTypes, Places, LockIsTheBooking, OneInLock,
       BookingIsCurrent, SlotsApart

\* Steps that leave the pace alone and take no thread to or from a slot.
LEMMA PaceMove ==
  ASSUME PaceInv, NEW w \in Workers, at[w] \notin {"book", "sleep"},
         NEW p \in Places \ {"book", "sleep"}, at' = [at EXCEPT ![w] = p],
         UNCHANGED <<lock, age, nextCall, slot, sleep>>
  PROVE  PaceInv'
<1>1. (PaceTypes /\ LockIsTheBooking /\ lock \in SUBSET Workers /\ OneInLock)'
  BY DEF PaceInv, PaceTypes, LockIsTheBooking, OneInLock
<1>2. \A v \in Workers : at'[v] \in {"book", "sleep"} => at[v] = at'[v]
  BY DEF PaceInv, PaceTypes
<1>3. (BookingIsCurrent /\ SlotsApart)'
  BY <1>2 DEF PaceInv, BookingIsCurrent, SlotsApart
<1>4. QED
  BY <1>1, <1>3 DEF PaceInv

LEMMA PaceReadClock ==
  ASSUME PaceInv, NEW w \in Workers, ReadClock(w)
  PROVE  PaceInv'
<1> DEFINE wait == Larger(0, nextCall)
<1>1. wait \in Nat /\ wait = Larger(-0, nextCall)
  BY LargerFacts DEF PaceInv, PaceTypes, Larger
<1>2. /\ at[w] = "pace" /\ lock = {}
      /\ lock' = {w}
      /\ age' = [age EXCEPT ![w] = 0]
      /\ slot' = [slot EXCEPT ![w] = wait]
      /\ sleep' = [sleep EXCEPT ![w] = wait]
      /\ at' = [at EXCEPT ![w] = "book"]
      /\ nextCall' = nextCall
  BY DEF ReadClock, MayEnter
<1> HIDE DEF wait
<1>3. PaceTypes'
  BY <1>1, <1>2 DEF PaceInv, PaceTypes, Places
<1>4. (LockIsTheBooking /\ lock \in SUBSET Workers /\ OneInLock)'
  BY <1>2 DEF PaceInv, PaceTypes, LockIsTheBooking, OneInLock
<1>5. BookingIsCurrent'
  <2> SUFFICES ASSUME NEW v \in Workers, at'[v] = "book"
               PROVE  /\ age'[v] <= MaxLate
                      /\ slot'[v] = Larger(-age'[v], nextCall')
                      /\ sleep'[v] >= slot'[v]
    BY DEF BookingIsCurrent
  <2>1. v = w
    BY <1>2 DEF PaceInv, PaceTypes, LockIsTheBooking
  <2>2. age'[v] = 0 /\ slot'[v] = wait /\ sleep'[v] = wait
    BY <2>1, <1>2 DEF PaceInv, PaceTypes
  <2>3. QED
    BY <2>2, <1>1, <1>2, LateAssumption
<1>6. \A v \in Workers : at'[v] = "sleep" =>
        v # w /\ at[v] = "sleep" /\ slot'[v] = slot[v] /\ sleep'[v] = sleep[v]
  BY <1>2 DEF PaceInv, PaceTypes
<1>7. SlotsApart'
  BY <1>2, <1>6 DEF PaceInv, SlotsApart
<1>8. QED
  BY <1>3, <1>4, <1>5, <1>7 DEF PaceInv

\* The booking is the slot the thread waits for, one Interval on, so it lies
\* after every slot booked before.
LEMMA PaceBookSlot ==
  ASSUME PaceInv, NEW w \in Workers, BookSlot(w)
  PROVE  PaceInv'
<1>1. /\ at[w] = "book"
      /\ lock' = lock \ {w}
      /\ age' = [age EXCEPT ![w] = 0]
      /\ at' = [at EXCEPT ![w] = "sleep"]
      /\ UNCHANGED <<slot, sleep>>
  BY DEF BookSlot
<1>2. /\ age[w] \in Nat /\ nextCall \in Int /\ slot[w] \in Int
      /\ slot[w] = Larger(-age[w], nextCall) /\ sleep[w] >= slot[w]
  BY <1>1 DEF PaceInv, PaceTypes, BookingIsCurrent
<1>3. nextCall' = slot[w] + Interval /\ slot[w] >= nextCall
  <2>1. nextCall' = slot[w] + Interval
    BY <1>2 DEF BookSlot, Booked
  <2>2. slot[w] >= nextCall
    BY <1>2 DEF Larger
  <2>3. QED
    BY <2>1, <2>2
<1>4. PaceTypes'
  BY <1>1, <1>2, <1>3, IntervalAssumption DEF PaceInv, PaceTypes, Places
<1>5. \A v \in Workers : at[v] = "book" => v = w
  BY <1>1 DEF PaceInv, LockIsTheBooking, OneInLock
<1>6. (LockIsTheBooking /\ lock \in SUBSET Workers /\ OneInLock)'
  BY <1>1, <1>5 DEF PaceInv, PaceTypes, LockIsTheBooking, OneInLock
<1>7. BookingIsCurrent'
  BY <1>1, <1>5 DEF PaceInv, PaceTypes, BookingIsCurrent
<1>8. SlotsApart'
  <2>1. \A v \in Workers : at'[v] = "sleep" /\ v # w =>
          /\ at[v] = "sleep" /\ slot[v] \in Int /\ sleep[v] >= slot[v]
          /\ slot[w] - slot[v] >= Interval
          /\ slot[w] + Interval >= slot[v] + Interval
    BY <1>1, <1>2, <1>3, IntervalAssumption DEF PaceInv, PaceTypes, SlotsApart
  <2>2. \A u, v \in Workers : at[u] = "sleep" /\ at[v] = "sleep" /\ u # v =>
          slot[u] - slot[v] >= Interval \/ slot[v] - slot[u] >= Interval
    BY DEF PaceInv, SlotsApart
  <2> SUFFICES ASSUME NEW u \in Workers, at'[u] = "sleep"
               PROVE  /\ nextCall' >= slot[u] + Interval
                      /\ sleep[u] >= slot[u]
                      /\ \A v \in Workers \ {u} : at'[v] = "sleep" =>
                           slot[u] - slot[v] >= Interval \/ slot[v] - slot[u] >= Interval
    BY <1>1 DEF SlotsApart
  <2>3. CASE u = w
    BY <2>1, <2>3, <1>2, <1>3, IntervalAssumption
  <2>4. CASE u # w
    <3>1. /\ nextCall' >= slot[u] + Interval /\ sleep[u] >= slot[u]
      BY <2>1, <2>4, <1>3
    <3>2. ASSUME NEW v \in Workers \ {u}, at'[v] = "sleep"
          PROVE  slot[u] - slot[v] >= Interval \/ slot[v] - slot[u] >= Interval
      <4>1. CASE v = w
        BY <4>1, <2>1, <2>4
      <4>2. CASE v # w
        BY <4>2, <3>2, <2>1, <2>2, <2>4
      <4>3. QED
        BY <4>1, <4>2
    <3>3. QED
      BY <3>1, <3>2
  <2>5. QED
    BY <2>3, <2>4
<1>9. QED
  BY <1>4, <1>6, <1>7, <1>8 DEF PaceInv

LEMMA PaceStartCall ==
  ASSUME PaceInv, NEW w \in Workers, StartCall(w)
  PROVE  PaceInv'
<1>1. /\ at[w] = "sleep"
      /\ at' = [at EXCEPT ![w] = "call"]
      /\ slot' = [slot EXCEPT ![w] = 0]
      /\ UNCHANGED <<lock, age, nextCall, sleep>>
  BY DEF StartCall
<1>2. (PaceTypes /\ LockIsTheBooking /\ lock \in SUBSET Workers /\ OneInLock)'
  BY <1>1 DEF PaceInv, PaceTypes, Places, LockIsTheBooking, OneInLock
<1>3. \A v \in Workers : at'[v] \in {"book", "sleep"} =>
        v # w /\ at[v] = at'[v] /\ slot'[v] = slot[v]
  BY <1>1 DEF PaceInv, PaceTypes
<1>4. (BookingIsCurrent /\ SlotsApart)'
  BY <1>1, <1>3 DEF PaceInv, BookingIsCurrent, SlotsApart
<1>5. QED
  BY <1>2, <1>4 DEF PaceInv

\* Time moves every booked slot and the next booking alike.
LEMMA PaceTick ==
  ASSUME PaceInv, Tick
  PROVE  PaceInv'
<1>1. UNCHANGED <<at, lock>>
  BY DEF Tick
<1>2. nextCall \in Int /\ MaxLate \in Nat
  BY LateAssumption DEF PaceInv, PaceTypes
<1>3. nextCall' = Larger(-MaxLate, nextCall - 1)
  BY DEF Tick
<1>4. nextCall' \in Int /\ nextCall' >= nextCall - 1
  BY <1>2, <1>3, LargerFacts
<1>5. \A w \in Workers :
        /\ age[w] \in Nat /\ slot[w] \in Int /\ sleep[w] \in Nat
        /\ age'[w] = IF at[w] = "book" THEN age[w] + 1 ELSE 0
        /\ slot'[w] = IF at[w] \in {"book", "sleep"} THEN slot[w] - 1 ELSE 0
        /\ sleep'[w] = IF at[w] = "sleep" THEN Larger(0, sleep[w] - 1) ELSE sleep[w]
  BY DEF PaceInv, PaceTypes, Tick
<1>6. PaceTypes'
  <2>1. age' \in [Workers -> Nat] /\ slot' \in [Workers -> Int]
    BY DEF PaceInv, PaceTypes, Tick
  <2>2. sleep' \in [Workers -> Nat]
    <3>1. \A w \in Workers : sleep'[w] \in Nat
      BY <1>5 DEF Larger
    <3>2. sleep' = [w \in Workers |-> sleep'[w]]
      BY DEF Tick
    <3>3. QED
      BY <3>1, <3>2
  <2>3. QED
    BY <2>1, <2>2, <1>1, <1>4 DEF PaceInv, PaceTypes
<1>7. (LockIsTheBooking /\ lock \in SUBSET Workers /\ OneInLock)'
  BY <1>1 DEF PaceInv, LockIsTheBooking, OneInLock
<1>8. BookingIsCurrent'
  <2> SUFFICES ASSUME NEW w \in Workers, at[w] = "book"
               PROVE  /\ age'[w] <= MaxLate
                      /\ slot'[w] = Larger(-age'[w], nextCall')
                      /\ sleep'[w] >= slot'[w]
    BY <1>1 DEF BookingIsCurrent
  <2>1. age[w] < MaxLate /\ slot[w] = Larger(-age[w], nextCall) /\ sleep[w] >= slot[w]
    BY DEF Tick, PaceInv, BookingIsCurrent
  <2>2. age'[w] = age[w] + 1 /\ slot'[w] = slot[w] - 1 /\ sleep'[w] = sleep[w]
    BY <1>5
  <2>3. age[w] \in Nat /\ slot[w] \in Int /\ sleep[w] \in Nat
    BY <1>5
  <2>4. slot[w] - 1 = Larger(-(age[w] + 1), Larger(-MaxLate, nextCall - 1))
    BY <2>1, <2>3, <1>2 DEF Larger
  <2>5. QED
    BY <2>1, <2>2, <2>3, <2>4, <1>2, <1>3
<1>9. SlotsApart'
  <2>1. \A w \in Workers : at[w] = "sleep" =>
          /\ slot'[w] = slot[w] - 1 /\ slot[w] \in Int
          /\ sleep'[w] >= sleep[w] - 1 /\ sleep'[w] \in Int /\ sleep[w] \in Int
    BY <1>5 DEF Larger
  <2>2. \A w \in Workers : at[w] = "sleep" =>
          nextCall >= slot[w] + Interval /\ sleep[w] >= slot[w]
    BY DEF PaceInv, SlotsApart
  <2>3. \A u, v \in Workers : at[u] = "sleep" /\ at[v] = "sleep" /\ u # v =>
          slot[u] - slot[v] >= Interval \/ slot[v] - slot[u] >= Interval
    BY DEF PaceInv, SlotsApart
  <2>4. \A w \in Workers : at[w] = "sleep" =>
          nextCall' >= slot'[w] + Interval /\ sleep'[w] >= slot'[w]
    BY <2>1, <2>2, <1>2, <1>4, IntervalAssumption
  <2>5. \A u, v \in Workers : at[u] = "sleep" /\ at[v] = "sleep" /\ u # v =>
          slot'[u] - slot'[v] >= Interval \/ slot'[v] - slot'[u] >= Interval
    BY <2>1, <2>3, IntervalAssumption
  <2>6. QED
    BY <2>4, <2>5, <1>1 DEF SlotsApart
<1>10. QED
  BY <1>6, <1>7, <1>8, <1>9 DEF PaceInv

LEMMA PaceFrame ==
  ASSUME PaceInv, UNCHANGED <<threads, nextCall>> PROVE PaceInv'
BY DEF threads, PaceInv, PaceTypes, LockIsTheBooking, OneInLock,
       BookingIsCurrent, SlotsApart

LEMMA PaceStep == PaceInv /\ [PoolNext]_vars => PaceInv'
<1> SUFFICES ASSUME PaceInv, [PoolNext]_vars PROVE PaceInv'
  OBVIOUS
<1>1. CASE Tick
  BY <1>1, PaceTick
<1>2. CASE NewBatch \/ UNCHANGED vars
  BY <1>2, PaceFrame DEF NewBatch, vars
<1>3. ASSUME NEW w \in Workers, Thread(w) PROVE PaceInv'
  <2>1. CASE Take(w)
    BY <2>1, PaceMove DEF Take, Places
  <2>2. CASE ReadClock(w)
    BY <2>2, PaceReadClock
  <2>3. CASE BookSlot(w)
    BY <2>3, PaceBookSlot
  <2>4. CASE StartCall(w)
    BY <2>4, PaceStartCall
  <2>5. CASE EndCall(w)
    BY <2>5, PaceMove DEF EndCall, Places
  <2>6. QED
    BY <1>3, <2>1, <2>2, <2>3, <2>4, <2>5 DEF Thread
<1>4. QED
  BY <1>1, <1>2, <1>3 DEF PoolNext

\* Two threads that wait never share a slot and the next booking comes after
\* them all, though _pace computes the booking from a clock value that time
\* has passed since, and every thread may be late.
THEOREM SlotsStayApart == PoolSpec => []SlotsApart
<1>1. PaceInv => SlotsApart
  BY DEF PaceInv
<1>2. QED
  BY <1>1, PaceStart, PaceStep, PTL DEF PoolSpec
-----------------------------------------------------------------------------
(***************************************************************************)
(* The rate limit.  Every remembered call is owed to a slot of its own,    *)
(* which it is no earlier than and at most MaxLate later than; the slots   *)
(* are apart from one another and from those of the threads that wait.     *)
(***************************************************************************)
Apart(x, y) == x - y >= Interval \/ y - x >= Interval

OwedTo(b) ==
  /\ \A i \in DOMAIN starts :
       /\ b[i] <= -starts[i] /\ -starts[i] <= b[i] + MaxLate
       /\ b[i] + Interval <= nextCall
       /\ \A w \in Workers : at[w] = "sleep" => Apart(b[i], slot[w])
  /\ \A i, j \in DOMAIN starts : i # j => Apart(b[i], b[j])

NewestFirst == \A i, j \in DOMAIN starts : i <= j => starts[i] <= starts[j]

NoneTooLate == \A w \in Workers : at[w] = "sleep" => slot[w] >= -MaxLate

RateInv ==
  /\ PaceInv
  /\ starts \in Seq(0..Span)
  /\ NewestFirst
  /\ NoneTooLate
  /\ \E b \in [DOMAIN starts -> Int] : OwedTo(b)

LEMMA RateStart == PoolInit => RateInv
<1> SUFFICES ASSUME PoolInit PROVE RateInv
  OBVIOUS
<1>1. starts = <<>> /\ \A w \in Workers : at[w] = "free"
  BY DEF PoolInit
<1>2. DOMAIN starts = {} /\ starts \in Seq(0..Span)
  BY <1>1
<1>3. NewestFirst /\ NoneTooLate
  BY <1>1, <1>2 DEF NewestFirst, NoneTooLate
<1>4. \E b \in [DOMAIN starts -> Int] : OwedTo(b)
  <2>1. [i \in DOMAIN starts |-> 0] \in [DOMAIN starts -> Int]
    OBVIOUS
  <2>2. \A b : OwedTo(b)
    BY <1>2 DEF OwedTo
  <2> QED
    BY <2>1, <2>2
<1> QED
  BY <1>2, <1>3, <1>4, PaceStart DEF RateInv

\* Steps that start no call, book no slot and take no time.
LEMMA RateMove ==
  ASSUME RateInv, PaceInv', UNCHANGED <<nextCall, starts>>,
         \A w \in Workers : at'[w] = "sleep" => at[w] = "sleep" /\ slot'[w] = slot[w]
  PROVE  RateInv'
<1>1. PICK b \in [DOMAIN starts -> Int] : OwedTo(b)
  BY DEF RateInv
<1>2. OwedTo(b)'
  BY <1>1 DEF OwedTo
<1>3. (NewestFirst /\ NoneTooLate /\ starts \in Seq(0..Span))'
  BY DEF RateInv, NewestFirst, NoneTooLate
<1> QED
  BY <1>2, <1>3 DEF RateInv

\* The new slot comes after those all remembered calls are owed to.
LEMMA RateBookSlot ==
  ASSUME RateInv, PaceInv', NEW w \in Workers, BookSlot(w)
  PROVE  RateInv'
<1>1. /\ at[w] = "book" /\ at' = [at EXCEPT ![w] = "sleep"]
      /\ UNCHANGED <<slot, starts>>
  BY DEF BookSlot
<1>2. /\ age[w] \in Nat /\ age[w] <= MaxLate /\ nextCall \in Int /\ slot[w] \in Int
      /\ slot[w] = Larger(-age[w], nextCall) /\ MaxLate \in Nat
      /\ Interval \in Nat \ {0}
  BY <1>1, IntervalAssumption, LateAssumption
     DEF RateInv, PaceInv, PaceTypes, BookingIsCurrent
<1>3. /\ nextCall' = slot[w] + Interval
      /\ slot[w] >= nextCall /\ slot[w] >= -MaxLate
  <2>1. nextCall' = slot[w] + Interval
    BY <1>2 DEF BookSlot, Booked
  <2>2. slot[w] >= nextCall /\ slot[w] >= -age[w]
    BY <1>2 DEF Larger
  <2> QED
    BY <1>2, <2>1, <2>2
<1>4. \A v \in Workers : at'[v] = "sleep" => v = w \/ at[v] = "sleep"
  BY <1>1 DEF RateInv, PaceInv, PaceTypes
<1>5. PICK b \in [DOMAIN starts -> Int] : OwedTo(b)
  BY DEF RateInv
<1>6. OwedTo(b)'
  <2>1. ASSUME NEW i \in DOMAIN starts
        PROVE  /\ b[i] <= -starts[i] /\ -starts[i] <= b[i] + MaxLate
               /\ b[i] + Interval <= nextCall'
               /\ Apart(b[i], slot[w])
    <3>1. b[i] \in Int /\ b[i] + Interval <= nextCall
      BY <1>5 DEF OwedTo
    <3>2. b[i] + Interval <= nextCall' /\ Apart(b[i], slot[w])
      BY <1>2, <1>3, <3>1 DEF Apart
    <3> QED
      BY <1>5, <3>2 DEF OwedTo
  <2>2. \A i \in DOMAIN starts, v \in Workers : at'[v] = "sleep" => Apart(b[i], slot[v])
    BY <1>4, <1>5, <2>1 DEF OwedTo
  <2>3. \A i, j \in DOMAIN starts : i # j => Apart(b[i], b[j])
    BY <1>5 DEF OwedTo
  <2> QED
    BY <1>1, <2>1, <2>2, <2>3 DEF OwedTo
<1>7. (NewestFirst /\ starts \in Seq(0..Span))'
  BY <1>1 DEF RateInv, NewestFirst
<1>8. NoneTooLate'
  BY <1>1, <1>3, <1>4 DEF RateInv, NoneTooLate
<1> QED
  BY <1>1, <1>6, <1>7, <1>8 DEF RateInv

\* A starting call is owed to the slot its thread waited for.
LEMMA RateStartCall ==
  ASSUME RateInv, PaceInv', NEW w \in Workers, StartCall(w)
  PROVE  RateInv'
<1> DEFINE n == Len(starts)
<1>1. /\ at[w] = "sleep" /\ sleep[w] = 0
      /\ at' = [at EXCEPT ![w] = "call"] /\ slot' = [slot EXCEPT ![w] = 0]
      /\ starts' = <<0>> \o starts
      /\ UNCHANGED nextCall
  BY DEF StartCall
<1>2. /\ slot[w] \in Int /\ slot[w] <= 0 /\ slot[w] >= -MaxLate
      /\ nextCall \in Int /\ nextCall >= slot[w] + Interval
      /\ MaxLate \in Nat /\ Span \in Nat /\ Interval \in Nat \ {0}
  BY <1>1, LateAssumption, IntervalAssumption
     DEF RateInv, PaceInv, PaceTypes, SlotsApart, NoneTooLate
<1>3. /\ n \in Nat /\ DOMAIN starts = 1..n /\ DOMAIN starts' = 1..n + 1
      /\ \A i \in 1..n : starts[i] \in 0..Span
      /\ starts'[1] = 0 /\ \A i \in 2..n + 1 : starts'[i] = starts[i - 1]
      /\ starts' \in Seq(0..Span)
  BY <1>1, <1>2 DEF RateInv
<1>4. \A v \in Workers : at'[v] = "sleep" =>
        v # w /\ at[v] = "sleep" /\ slot'[v] = slot[v] /\ slot[v] \in Int
  BY <1>1 DEF RateInv, PaceInv, PaceTypes
<1>5. PICK b \in [DOMAIN starts -> Int] : OwedTo(b)
  BY DEF RateInv
<1> HIDE DEF n
<1>6. PICK c : /\ c \in [1..n + 1 -> Int] /\ c[1] = slot[w]
               /\ \A i \in 2..n + 1 : c[i] = b[i - 1] /\ i - 1 \in DOMAIN starts
  <2> DEFINE d == [i \in 1..n + 1 |-> IF i = 1 THEN slot[w] ELSE b[i - 1]]
  <2>1. /\ d \in [1..n + 1 -> Int] /\ d[1] = slot[w]
        /\ \A i \in 2..n + 1 : d[i] = b[i - 1] /\ i - 1 \in DOMAIN starts
    BY <1>2, <1>3, <1>5
  <2> HIDE DEF d
  <2> QED
    BY <2>1
<1>7. \A i \in DOMAIN starts : b[i] \in Int /\ Apart(b[i], slot[w]) /\ Apart(slot[w], b[i])
  BY <1>1, <1>5 DEF OwedTo, Apart
<1>8. \A i \in 1..n + 1 :
        /\ c[i] <= -starts'[i] /\ -starts'[i] <= c[i] + MaxLate
        /\ c[i] + Interval <= nextCall'
        /\ \A v \in Workers : at'[v] = "sleep" => Apart(c[i], slot'[v])
  <2> SUFFICES ASSUME NEW i \in 1..n + 1
               PROVE  /\ c[i] <= -starts'[i] /\ -starts'[i] <= c[i] + MaxLate
                      /\ c[i] + Interval <= nextCall'
                      /\ \A v \in Workers : at'[v] = "sleep" => Apart(c[i], slot'[v])
    OBVIOUS
  <2>1. CASE i = 1
    <3>1. \A v \in Workers : at'[v] = "sleep" => Apart(slot[w], slot[v])
      BY <1>1, <1>4 DEF RateInv, PaceInv, SlotsApart, Apart
    <3> QED
      BY <1>1, <1>2, <1>3, <1>4, <1>6, <2>1, <3>1
  <2>2. CASE i # 1
    <3>1. i \in 2..n + 1
      BY <1>3, <2>2
    <3> QED
      BY <1>1, <1>3, <1>4, <1>5, <1>6, <3>1 DEF OwedTo
  <2> QED
    BY <2>1, <2>2
<1>9. \A i, j \in 1..n + 1 : i # j => Apart(c[i], c[j])
  <2> SUFFICES ASSUME NEW i \in 1..n + 1, NEW j \in 1..n + 1, i # j
               PROVE  Apart(c[i], c[j])
    OBVIOUS
  <2>1. CASE i = 1
    <3>1. j \in 2..n + 1
      BY <1>3, <2>1
    <3> QED
      BY <1>6, <1>7, <2>1, <3>1
  <2>2. CASE j = 1
    <3>1. i \in 2..n + 1
      BY <1>3, <2>2
    <3> QED
      BY <1>6, <1>7, <2>2, <3>1
  <2>3. CASE i # 1 /\ j # 1
    <3>1. i \in 2..n + 1 /\ j \in 2..n + 1 /\ i - 1 # j - 1
      BY <1>3, <2>3
    <3> QED
      BY <1>5, <1>6, <3>1 DEF OwedTo
  <2> QED
    BY <2>1, <2>2, <2>3
<1>10. OwedTo(c)' /\ c \in [DOMAIN starts' -> Int]
  BY <1>3, <1>6, <1>8, <1>9 DEF OwedTo, Apart
<1>11. NewestFirst'
  <2> SUFFICES ASSUME NEW i \in 1..n + 1, NEW j \in 1..n + 1, i <= j
               PROVE  starts'[i] <= starts'[j]
    BY <1>3 DEF NewestFirst
  <2>1. CASE i = 1
    <3>1. CASE j = 1
      BY <1>3, <2>1, <3>1
    <3>2. CASE j # 1
      <4>1. j \in 2..n + 1 /\ j - 1 \in 1..n
        BY <1>3, <3>2
      <4>2. starts'[j] = starts[j - 1] /\ starts[j - 1] \in 0..Span
        BY <1>3, <4>1
      <4> QED
        BY <1>2, <1>3, <2>1, <4>2
    <3> QED
      BY <3>1, <3>2
  <2>2. CASE i # 1
    <3>1. i - 1 \in 1..n /\ j - 1 \in 1..n /\ i - 1 <= j - 1 /\ i \in 2..n + 1 /\ j \in 2..n + 1
      BY <1>3, <2>2
    <3> QED
      BY <1>3, <3>1 DEF RateInv, NewestFirst
  <2> QED
    BY <2>1, <2>2
<1>12. NoneTooLate'
  BY <1>4 DEF RateInv, NoneTooLate
<1> QED
  BY <1>3, <1>10, <1>11, <1>12 DEF RateInv

\* The starts that are remembered are the first ones.
LEMMA RememberedFacts ==
  ASSUME starts \in Seq(0..Span), NewestFirst
  PROVE  /\ Cardinality(Remembered) \in Nat
         /\ Remembered = 1..Cardinality(Remembered)
         /\ Remembered \subseteq DOMAIN starts
<1> DEFINE m == Cardinality(Remembered)
<1>1. Len(starts) \in Nat /\ DOMAIN starts = 1..Len(starts) /\ Span \in Nat
      /\ \A i \in DOMAIN starts : starts[i] \in 0..Span
  BY LateAssumption
<1>2. Remembered \subseteq DOMAIN starts
  BY DEF Remembered
<1>3. IsFiniteSet(Remembered) /\ m \in Nat
  <2>1. IsFiniteSet(1..Len(starts))
    BY <1>1, FS_Interval
  <2>2. IsFiniteSet(Remembered)
    BY <1>1, <1>2, <2>1, FS_Subset
  <2> QED
    BY <2>2, FS_CardinalityType
<1>4. ASSUME NEW i \in Remembered PROVE i \in 1..m
  <2>1. i \in 1..Len(starts) /\ 1..i \subseteq Remembered
    BY <1>1 DEF Remembered, NewestFirst
  <2>2. Cardinality(1..i) = i
    BY <2>1, FS_Interval
  <2>3. i <= m
    BY <1>3, <2>1, <2>2, FS_Subset
  <2> QED
    BY <1>3, <2>1, <2>3
<1>5. IsFiniteSet(1..m) /\ Cardinality(1..m) = m
  BY <1>3, FS_Interval
<1>6. Remembered = 1..m
  BY <1>4, <1>5, FS_Subset
<1> QED
  BY <1>2, <1>3, <1>6

\* Time moves every slot and every call alike; the oldest are forgotten.
LEMMA RateTick ==
  ASSUME RateInv, PaceInv', Tick
  PROVE  RateInv'
<1> DEFINE m == Cardinality(Remembered)
<1>1. /\ at' = at
      /\ starts' = [i \in 1..m |-> starts[i] + 1]
      /\ nextCall' = Larger(-MaxLate, nextCall - 1)
      /\ \A w \in Workers : at[w] = "sleep" => slot[w] > -MaxLate /\ slot'[w] = slot[w] - 1
      /\ \A w \in Workers : slot[w] \in Int
  BY DEF Tick, RateInv, PaceInv, PaceTypes
<1>2. m \in Nat /\ Remembered = 1..m /\ Remembered \subseteq DOMAIN starts
  BY RememberedFacts DEF RateInv
<1> HIDE DEF m
<1>3. /\ MaxLate \in Nat /\ Span \in Nat /\ Interval \in Nat \ {0} /\ nextCall \in Int
      /\ \A i \in DOMAIN starts : starts[i] \in 0..Span
  BY LateAssumption, IntervalAssumption DEF RateInv, PaceInv, PaceTypes
<1>4. DOMAIN starts' = 1..m
      /\ \A i \in 1..m : /\ i \in DOMAIN starts /\ starts[i] \in Int
                         /\ starts'[i] = starts[i] + 1 /\ starts'[i] \in 0..Span
  <2>1. \A i \in 1..m : i \in DOMAIN starts /\ starts[i] \in 0..Span /\ starts[i] < Span
    BY <1>2, <1>3 DEF Remembered
  <2> QED
    BY <1>1, <1>3, <2>1
<1>5. starts' \in Seq(0..Span)
  <2>1. starts' \in [1..m -> 0..Span]
    BY <1>1, <1>4
  <2> QED
    BY <1>2, <2>1, SeqDef
<1>6. NewestFirst'
  BY <1>4 DEF RateInv, NewestFirst
<1>7. NoneTooLate'
  BY <1>1, <1>3 DEF NoneTooLate
<1>8. PICK b \in [DOMAIN starts -> Int] : OwedTo(b)
  BY DEF RateInv
<1>9. PICK c \in [1..m -> Int] : \A i \in 1..m : c[i] = b[i] - 1
  <2>1. [i \in 1..m |-> b[i] - 1] \in [1..m -> Int]
    BY <1>4, <1>8
  <2> QED
    BY <2>1
<1>10. nextCall' >= nextCall - 1 /\ nextCall' \in Int
  BY <1>1, <1>3 DEF Larger
<1>11. OwedTo(c)'
  <2>1. ASSUME NEW i \in 1..m
        PROVE  /\ c[i] <= -starts'[i] /\ -starts'[i] <= c[i] + MaxLate
               /\ c[i] + Interval <= nextCall'
    <3>1. b[i] \in Int /\ b[i] <= -starts[i] /\ -starts[i] <= b[i] + MaxLate
          /\ b[i] + Interval <= nextCall
      BY <1>4, <1>8 DEF OwedTo
    <3> QED
      BY <1>3, <1>4, <1>9, <1>10, <3>1
  <2>2. ASSUME NEW i \in 1..m, NEW w \in Workers, at'[w] = "sleep"
        PROVE  Apart(c[i], slot'[w])
    <3>1. b[i] \in Int /\ Apart(b[i], slot[w])
      BY <1>1, <1>4, <1>8, <2>2 DEF OwedTo
    <3>2. slot'[w] = slot[w] - 1 /\ slot[w] \in Int /\ c[i] = b[i] - 1
      BY <1>1, <1>9, <2>2
    <3> QED
      BY <1>3, <3>1, <3>2 DEF Apart
  <2>3. ASSUME NEW i \in 1..m, NEW j \in 1..m, i # j
        PROVE  Apart(c[i], c[j])
    <3>1. b[i] \in Int /\ b[j] \in Int /\ Apart(b[i], b[j])
      BY <1>4, <1>8, <2>3 DEF OwedTo
    <3> QED
      BY <1>3, <1>9, <3>1 DEF Apart
  <2> QED
    BY <1>4, <2>1, <2>2, <2>3 DEF OwedTo, Apart
<1> QED
  BY <1>4, <1>5, <1>6, <1>7, <1>9, <1>11 DEF RateInv

LEMMA RateStep == RateInv /\ [PoolNext]_vars => RateInv'
<1> SUFFICES ASSUME RateInv, [PoolNext]_vars PROVE RateInv'
  OBVIOUS
<1>1. PaceInv'
  BY PaceStep DEF RateInv
<1>2. at \in [Workers -> Places]
  BY DEF RateInv, PaceInv, PaceTypes
<1>3. CASE Tick
  BY <1>1, <1>3, RateTick
<1>4. CASE NewBatch \/ UNCHANGED vars
  BY <1>1, <1>4, RateMove DEF NewBatch, threads, vars
<1>5. ASSUME NEW w \in Workers, Thread(w) PROVE RateInv'
  <2>1. CASE Take(w)
    BY <1>1, <1>2, <2>1, RateMove DEF Take
  <2>2. CASE ReadClock(w)
    <3>1. /\ at' = [at EXCEPT ![w] = "book"] /\ slot' = [slot EXCEPT ![w] = Larger(0, nextCall)]
          /\ UNCHANGED <<nextCall, starts>>
      BY <2>2 DEF ReadClock
    <3>2. \A v \in Workers : at'[v] = "sleep" => at[v] = "sleep" /\ slot'[v] = slot[v]
      BY <1>2, <3>1 DEF RateInv, PaceInv, PaceTypes
    <3> QED
      BY <1>1, <3>1, <3>2, RateMove
  <2>3. CASE BookSlot(w)
    BY <1>1, <2>3, RateBookSlot
  <2>4. CASE StartCall(w)
    BY <1>1, <2>4, RateStartCall
  <2>5. CASE EndCall(w)
    BY <1>1, <1>2, <2>5, RateMove DEF EndCall
  <2> QED
    BY <1>5, <2>1, <2>2, <2>3, <2>4, <2>5 DEF Thread
<1> QED
  BY <1>3, <1>4, <1>5 DEF PoolNext

\* Two integers that are Interval apart lie in different parts of a range
\* cut into pieces of that length.
LEMMA DifferentPieces ==
  ASSUME NEW x \in Nat, NEW y \in Nat, Apart(x, y)
  PROVE  x \div Interval # y \div Interval
<1>1. Interval \in Nat \ {0}
  BY IntervalAssumption
<1> DEFINE p == x \div Interval
           q == y \div Interval
<1>2. /\ p \in Int /\ x = Interval * p + (x % Interval) /\ x % Interval \in 0..Interval - 1
      /\ q \in Int /\ y = Interval * q + (y % Interval) /\ y % Interval \in 0..Interval - 1
  BY <1>1
<1> HIDE DEF p, q
<1>3. p # q
  <2> SUFFICES ASSUME p = q PROVE FALSE
    OBVIOUS
  <2>1. Interval * p = Interval * q /\ Interval * p \in Int
    BY <1>1, <1>2
  <2>2. x - y = (x % Interval) - (y % Interval)
    <3> DEFINE a == Interval * p
    <3> HIDE DEF a
    <3>1. x = a + (x % Interval) /\ y = a + (y % Interval) /\ a \in Int
      BY <1>2, <2>1 DEF a
    <3> QED
      BY <1>1, <1>2, <3>1
  <2> QED
    BY <1>1, <1>2, <2>2 DEF Apart
<1> QED
  BY <1>3 DEF p, q

LEMMA PiecesAreOrdered ==
  ASSUME NEW x \in Nat, NEW y \in Nat, x <= y
  PROVE  x \div Interval \in 0..(y \div Interval)
<1>1. Interval \in Nat \ {0}
  BY IntervalAssumption
<1> DEFINE p == x \div Interval
           q == y \div Interval
<1>2. /\ p \in Nat /\ x = Interval * p + (x % Interval) /\ x % Interval \in 0..Interval - 1
      /\ q \in Nat /\ y = Interval * q + (y % Interval) /\ y % Interval \in 0..Interval - 1
  BY <1>1
<1> HIDE DEF p, q
<1>3. p <= q
  <2> SUFFICES ASSUME p >= q + 1 PROVE FALSE
    BY <1>2
  <2>1. Interval * p >= Interval * (q + 1)
    BY <1>1, <1>2
  <2>2. Interval * (q + 1) = Interval * q + Interval
    BY <1>1, <1>2
  <2> QED
    BY <1>1, <1>2, <2>1, <2>2
<1> QED
  BY <1>2, <1>3 DEF p, q

LEMMA RateFollows == RateInv => RateBounded
<1> SUFFICES ASSUME RateInv PROVE RateBounded
  OBVIOUS
<1>1. PICK b \in [DOMAIN starts -> Int] : OwedTo(b)
  BY DEF RateInv
<1> DEFINE n == Len(starts)
           top == (Span + MaxLate) \div Interval
           f == [i \in 1..n |-> (-b[i]) \div Interval]
<1>2. /\ n \in Nat /\ DOMAIN starts = 1..n /\ MaxLate \in Nat /\ Span \in Nat
      /\ \A i \in 1..n : starts[i] \in 0..Span
  BY LateAssumption DEF RateInv
<1>3. Span + MaxLate \in Nat /\ top \in Nat
  <2>1. Span + MaxLate \in Nat
    BY <1>2
  <2> QED
    BY <2>1, IntervalAssumption
<1> HIDE DEF n, top
<1>4. \A i \in 1..n : -b[i] \in Nat /\ -b[i] <= Span + MaxLate
  <2> SUFFICES ASSUME NEW i \in 1..n PROVE -b[i] \in Nat /\ -b[i] <= Span + MaxLate
    OBVIOUS
  <2>1. b[i] \in Int /\ b[i] <= -starts[i] /\ -starts[i] <= b[i] + MaxLate /\ starts[i] \in 0..Span
    BY <1>1, <1>2 DEF OwedTo
  <2> QED
    BY <1>2, <2>1
<1>5. \A i \in 1..n : (-b[i]) \div Interval \in 0..top
  BY <1>3, <1>4, PiecesAreOrdered DEF top
<1>6. \A i, j \in 1..n : i # j => (-b[i]) \div Interval # (-b[j]) \div Interval
  <2> SUFFICES ASSUME NEW i \in 1..n, NEW j \in 1..n, i # j
               PROVE  (-b[i]) \div Interval # (-b[j]) \div Interval
    OBVIOUS
  <2>1. b[i] \in Int /\ b[j] \in Int /\ Apart(b[i], b[j])
    BY <1>1, <1>2 DEF OwedTo
  <2>2. Apart(-b[i], -b[j])
    BY <2>1, IntervalAssumption DEF Apart
  <2> QED
    BY <1>4, <2>2, DifferentPieces
<1>7. f \in Injection(1..n, 0..top)
  BY <1>5, <1>6 DEF Injection, IsInjective
<1> HIDE DEF f
<1>8. Cardinality(1..n) <= Cardinality(0..top)
  <2>1. IsFiniteSet(0..top)
    BY <1>3, FS_Interval
  <2> QED
    BY <1>7, <2>1, FS_Injection
<1>9. Cardinality(1..n) = n /\ Cardinality(0..top) = top + 1
  BY <1>2, <1>3, FS_Interval
<1> QED
  BY <1>8, <1>9 DEF RateBounded, n, top

\* Whatever the number of threads, within Span ticks no more calls start than
\* the rate limit allows, plus those that were late.
THEOREM RateIsBounded == PoolSpec => []RateBounded
<1> QED
  BY RateStart, RateStep, RateFollows, PTL DEF PoolSpec
-----------------------------------------------------------------------------
(***************************************************************************)
(* How far ahead slots are booked.  A slot that is not due yet is no more  *)
(* than one Interval further than there are threads waiting for an earlier *)
(* one, and between two such slots there are as many threads as Intervals. *)
(***************************************************************************)
Sleepers(x, y) == {v \in Workers : at[v] = "sleep" /\ x <= slot[v] /\ slot[v] < y}
Number(x, y) == Cardinality(Sleepers(x, y))

Waited(x) == \E v \in Workers : at[v] = "sleep" /\ slot[v] = x

Filled(y) ==
  /\ y <= Interval * (Number(1, y) + 1)
  /\ \A x \in Int : Waited(x) /\ 1 <= x /\ x < y =>
       y - x <= Interval * Number(x, y)

Booking(y) == y = nextCall \/ Waited(y)

WaitInv ==
  /\ RateInv
  /\ \A y \in Int : Booking(y) => Filled(y)

LEMMA NumberFacts ==
  ASSUME NEW x, NEW y
  PROVE  /\ IsFiniteSet(Sleepers(x, y)) /\ Sleepers(x, y) \subseteq Workers
         /\ Number(x, y) \in Nat /\ Number(x, y) <= Cardinality(Workers)
<1>1. Sleepers(x, y) \subseteq Workers
  BY DEF Sleepers
<1>2. IsFiniteSet(Sleepers(x, y)) /\ Cardinality(Sleepers(x, y)) <= Cardinality(Workers)
  BY <1>1, WorkersAssumption, FS_Subset
<1> QED
  BY <1>1, <1>2, FS_CardinalityType DEF Number

\* Interval times a number that is not negative, and the next number.
LEMMA IntervalTimes ==
  ASSUME NEW n \in Nat
  PROVE  /\ Interval \in Nat \ {0}
         /\ Interval * n \in Nat
         /\ Interval * (n + 1) = Interval * n + Interval
BY IntervalAssumption

LEMMA TimesOrdered ==
  ASSUME NEW m \in Nat, NEW n \in Nat, m <= n
  PROVE  Interval * m <= Interval * n
BY IntervalAssumption

\* A slot that is due fills nothing.
LEMMA DueIsFilled ==
  ASSUME NEW y \in Int, y <= Interval, PaceTypes,
         \A v \in Workers : at[v] = "sleep" => slot[v] < 1 \/ slot[v] >= y
  PROVE  Filled(y)
<1>1. y <= Interval * (Number(1, y) + 1)
  <2> DEFINE n == Number(1, y)
  <2>1. n \in Nat
    BY NumberFacts
  <2> HIDE DEF n
  <2>2. Interval * (n + 1) = Interval * n + Interval /\ Interval * n \in Nat /\ Interval \in Nat
    BY <2>1, IntervalTimes
  <2> QED
    BY <2>2 DEF n
<1>2. ASSUME NEW x \in Int, Waited(x) PROVE ~(1 <= x /\ x < y)
  BY <1>2 DEF Waited
<1> QED
  BY <1>1, <1>2 DEF Filled

LEMMA DueIsFilledNext ==
  ASSUME NEW y \in Int, y <= Interval, PaceTypes',
         \A v \in Workers : at'[v] = "sleep" => slot'[v] < 1 \/ slot'[v] >= y
  PROVE  Filled(y)'
<1>1. y <= Interval * (Number(1, y)' + 1)
  <2> DEFINE n == Number(1, y)'
  <2>1. n \in Nat
    <3>1. Sleepers(1, y)' \subseteq Workers
      BY DEF Sleepers
    <3>2. IsFiniteSet(Sleepers(1, y)')
      BY <3>1, WorkersAssumption, FS_Subset
    <3> QED
      BY <3>2, FS_CardinalityType DEF Number
  <2> HIDE DEF n
  <2>2. Interval * (n + 1) = Interval * n + Interval /\ Interval * n \in Nat /\ Interval \in Nat
    BY <2>1, IntervalTimes
  <2> QED
    BY <2>2 DEF n
<1>2. ASSUME NEW x \in Int, Waited(x)' PROVE ~(1 <= x /\ x < y)
  BY <1>2 DEF Waited
<1> QED
  BY <1>1, <1>2 DEF Filled

LEMMA WaitStart == PoolInit => WaitInv
<1> SUFFICES ASSUME PoolInit PROVE WaitInv
  OBVIOUS
<1>1. RateInv /\ PaceTypes
  BY RateStart DEF RateInv, PaceInv
<1>2. nextCall = -MaxLate /\ MaxLate \in Nat /\ \A w \in Workers : at[w] = "free"
  BY LateAssumption DEF PoolInit
<1>3. ASSUME NEW y \in Int, Booking(y) PROVE Filled(y)
  <2>1. y <= Interval
    BY <1>2, <1>3, IntervalAssumption DEF Booking, Waited
  <2> QED
    BY <1>1, <1>2, <2>1, DueIsFilled
<1> QED
  BY <1>1, <1>3 DEF WaitInv

\* Steps that leave every slot that is not due yet as it is.
LEMMA WaitMove ==
  ASSUME WaitInv, RateInv', nextCall' = nextCall,
         \A v \in Workers : at'[v] = "sleep" => at[v] = "sleep" /\ slot'[v] = slot[v],
         \A v \in Workers : at[v] = "sleep" =>
           slot[v] <= 0 \/ (at'[v] = "sleep" /\ slot'[v] = slot[v])
  PROVE  WaitInv'
<1>1. \A v \in Workers : slot[v] \in Int /\ slot'[v] \in Int
  BY DEF WaitInv, RateInv, PaceInv, PaceTypes
<1>2. ASSUME NEW x \in Int, NEW y \in Int, 1 <= x
      PROVE  Number(x, y)' = Number(x, y)
  <2>1. Sleepers(x, y)' = Sleepers(x, y)
    BY <1>1, <1>2 DEF Sleepers
  <2> QED
    BY <2>1 DEF Number
<1>3. ASSUME NEW y \in Int, Booking(y)' PROVE Filled(y)'
  <2>1. Filled(y)
    BY <1>3 DEF Booking, Waited, WaitInv
  <2>2. y <= Interval * (Number(1, y)' + 1)
    BY <1>2, <2>1 DEF Filled
  <2>3. ASSUME NEW x \in Int, Waited(x)', 1 <= x, x < y
        PROVE  y - x <= Interval * Number(x, y)'
    <3>1. Waited(x)
      BY <2>3 DEF Waited
    <3>2. y - x <= Interval * Number(x, y)
      BY <2>1, <2>3, <3>1 DEF Filled
    <3> QED
      BY <1>2, <2>3, <3>2
  <2> QED
    BY <2>2, <2>3 DEF Filled
<1> QED
  BY <1>3 DEF WaitInv

\* The new slot is the next to be booked, or one that is due.
LEMMA WaitBookSlot ==
  ASSUME WaitInv, RateInv', NEW w \in Workers, BookSlot(w)
  PROVE  WaitInv'
<1>1. at[w] = "book" /\ at' = [at EXCEPT ![w] = "sleep"] /\ slot' = slot
  BY DEF BookSlot
<1>2. /\ nextCall \in Int /\ Interval \in Nat \ {0}
      /\ \A v \in Workers : slot[v] \in Int
      /\ \A v \in Workers : at[v] = "sleep" => slot[v] + Interval <= nextCall
      /\ \A v \in Workers : at'[v] = "sleep" <=> at[v] = "sleep" \/ v = w
  BY <1>1, IntervalAssumption DEF WaitInv, RateInv, PaceInv, PaceTypes, SlotsApart
<1>3. /\ nextCall' = slot[w] + Interval
      /\ slot[w] >= nextCall
      /\ slot[w] = nextCall \/ slot[w] <= 0
  <2>1. age[w] \in Nat /\ slot[w] = Larger(-age[w], nextCall)
    BY <1>1 DEF WaitInv, RateInv, PaceInv, PaceTypes, BookingIsCurrent
  <2>2. nextCall' = slot[w] + Interval
    BY <2>1 DEF BookSlot, Booked
  <2> QED
    BY <1>2, <2>1, <2>2 DEF Larger
<1>4. PaceTypes'
  BY DEF RateInv, PaceInv
<1>5. ASSUME NEW x \in Int, NEW y \in Int, y <= slot[w]
      PROVE  Number(x, y)' = Number(x, y)
  <2>1. Sleepers(x, y)' = Sleepers(x, y)
    BY <1>1, <1>2, <1>5 DEF Sleepers
  <2> QED
    BY <2>1 DEF Number
<1>6. ASSUME NEW x \in Int, x <= slot[w], slot[w] = nextCall,
             NEW y \in Int, y = slot[w] + Interval
      PROVE  Number(x, y)' = Number(x, nextCall) + 1
  <2>1. Sleepers(x, y)' = Sleepers(x, nextCall) \cup {w} /\ w \notin Sleepers(x, nextCall)
    BY <1>1, <1>2, <1>6 DEF Sleepers
  <2> QED
    BY <2>1, NumberFacts, FS_AddElement DEF Number
<1>7. ASSUME NEW y \in Int, Booking(y)' PROVE Filled(y)'
  <2>1. y = nextCall' \/ y = slot[w] \/ (Waited(y) /\ y < slot[w])
    BY <1>1, <1>2, <1>3, <1>7 DEF Booking, Waited
  <2>2. ASSUME y <= slot[w], Filled(y) PROVE Filled(y)'
    <3>1. y <= Interval * (Number(1, y)' + 1)
      BY <1>5, <2>2 DEF Filled
    <3>2. ASSUME NEW x \in Int, Waited(x)', 1 <= x, x < y
          PROVE  y - x <= Interval * Number(x, y)'
      <4>1. Waited(x)
        BY <1>1, <1>2, <2>2, <3>2 DEF Waited
      <4> QED
        BY <1>5, <2>2, <3>2, <4>1 DEF Filled
    <3> QED
      BY <3>1, <3>2 DEF Filled
  <2>3. CASE Waited(y) /\ y < slot[w]
    <3>1. Filled(y)
      BY <2>3 DEF WaitInv, Booking
    <3> QED
      BY <1>2, <2>2, <2>3, <3>1
  <2>4. CASE slot[w] <= 0 /\ (y = slot[w] \/ y = nextCall')
    <3>1. y <= Interval
      BY <1>2, <1>3, <2>4
    <3>2. \A v \in Workers : at'[v] = "sleep" => slot'[v] < 1
      BY <1>1, <1>2, <1>3, <2>4
    <3>3. \A v \in Workers : at'[v] = "sleep" => slot'[v] < 1 \/ slot'[v] >= y
      BY <3>2
    <3> QED
      BY <1>4, <3>1, <3>3, DueIsFilledNext
  <2>5. CASE slot[w] = nextCall /\ y = slot[w]
    BY <1>2, <2>2, <2>5 DEF WaitInv, Booking
  <2>6. CASE slot[w] = nextCall /\ slot[w] > 0 /\ y = nextCall'
    <3>1. y = slot[w] + Interval /\ Filled(nextCall)
      BY <1>2, <1>3, <2>6 DEF WaitInv, Booking
    <3>2. y <= Interval * (Number(1, y)' + 1)
      <4> DEFINE n == Number(1, nextCall)
      <4>1. Number(1, y)' = n + 1 /\ n \in Nat
        BY <1>2, <1>6, <2>6, <3>1, NumberFacts
      <4>2. nextCall <= Interval * (n + 1)
        BY <3>1 DEF Filled
      <4> HIDE DEF n
      <4>3. Interval * (n + 1 + 1) = Interval * (n + 1) + Interval /\ Interval * (n + 1) \in Nat
        BY <4>1, IntervalTimes
      <4> QED
        BY <1>2, <2>6, <3>1, <4>1, <4>2, <4>3
    <3>3. ASSUME NEW x \in Int, Waited(x)', 1 <= x, x < y
          PROVE  y - x <= Interval * Number(x, y)'
      <4> DEFINE n == Number(x, nextCall)
      <4>1. x <= slot[w] /\ (x = slot[w] \/ (Waited(x) /\ x < nextCall))
        BY <1>1, <1>2, <2>6, <3>3 DEF Waited
      <4>2. Number(x, y)' = n + 1 /\ n \in Nat
        BY <1>6, <2>6, <3>1, <4>1, NumberFacts
      <4>3. nextCall - x <= Interval * n
        <5>1. CASE x = slot[w]
          BY <1>2, <2>6, <4>2, <5>1, IntervalTimes
        <5>2. CASE Waited(x) /\ x < nextCall
          BY <3>1, <3>3, <5>2 DEF Filled
        <5> QED
          BY <4>1, <5>1, <5>2
      <4> HIDE DEF n
      <4>4. Interval * (n + 1) = Interval * n + Interval /\ Interval * n \in Nat
        BY <4>2, IntervalTimes
      <4> QED
        BY <1>2, <2>6, <3>1, <4>2, <4>3, <4>4
    <3> QED
      BY <3>2, <3>3 DEF Filled
  <2> QED
    BY <1>2, <1>3, <2>1, <2>3, <2>4, <2>5, <2>6
<1> QED
  BY <1>7 DEF WaitInv

\* All slots come nearer alike; the thread whose slot becomes due, of which
\* there is at most one, was waited for by all the others.
LEMMA WaitTick ==
  ASSUME WaitInv, RateInv', Tick
  PROVE  WaitInv'
<1>1. /\ at' = at /\ nextCall' = Larger(-MaxLate, nextCall - 1)
      /\ nextCall \in Int /\ MaxLate \in Nat /\ Interval \in Nat \ {0}
      /\ \A v \in Workers : slot[v] \in Int /\ (at[v] = "sleep" => slot'[v] = slot[v] - 1)
      /\ \A v \in Workers : at[v] = "sleep" => slot[v] + Interval <= nextCall
  BY IntervalAssumption, LateAssumption
     DEF Tick, WaitInv, RateInv, PaceInv, PaceTypes, SlotsApart
<1>2. PaceTypes'
  BY DEF RateInv, PaceInv
<1>3. ASSUME NEW x \in Int, NEW y \in Int
      PROVE  Number(x, y)' = Number(x + 1, y + 1)
  <2>1. Sleepers(x, y)' = Sleepers(x + 1, y + 1)
    BY <1>1 DEF Sleepers
  <2> QED
    BY <2>1 DEF Number
<1>4. ASSUME NEW x \in Int PROVE Waited(x)' <=> Waited(x + 1)
  BY <1>1 DEF Waited
<1>5. ASSUME NEW y \in Int, Booking(y + 1) PROVE Filled(y)'
  <2>1. Filled(y + 1)
    BY <1>5 DEF WaitInv
  <2>2. y <= Interval * (Number(1, y)' + 1)
    <3> DEFINE n == Number(2, y + 1)
    <3>1. Number(1, y)' = n /\ n \in Nat
      BY <1>3, NumberFacts
    <3>2. CASE \E v \in Workers : at[v] = "sleep" /\ slot[v] = 1 /\ 1 < y + 1
      <4>1. PICK v \in Workers : at[v] = "sleep" /\ slot[v] = 1 /\ 1 < y + 1
        BY <3>2
      <4>2. Sleepers(1, y + 1) = Sleepers(2, y + 1) \cup {v} /\ v \notin Sleepers(2, y + 1)
        <5>1. \A u \in Workers : at[u] = "sleep" /\ slot[u] = 1 => u = v
          <6> SUFFICES ASSUME NEW u \in Workers \ {v}, at[u] = "sleep", slot[u] = 1
                       PROVE  FALSE
            OBVIOUS
          <6>1. slot[v] - slot[u] >= Interval \/ slot[u] - slot[v] >= Interval
            BY <4>1 DEF WaitInv, RateInv, PaceInv, SlotsApart
          <6> QED
            BY <1>1, <4>1, <6>1
        <5> QED
          BY <1>1, <4>1, <5>1 DEF Sleepers
      <4>3. Number(1, y + 1) = n + 1
        BY <4>2, NumberFacts, FS_AddElement DEF Number
      <4>4. y + 1 - 1 <= Interval * Number(1, y + 1)
        BY <2>1, <4>1 DEF Filled, Waited
      <4> HIDE DEF n
      <4> QED
        BY <3>1, <4>3, <4>4
    <3>3. CASE ~ \E v \in Workers : at[v] = "sleep" /\ slot[v] = 1 /\ 1 < y + 1
      <4>1. Sleepers(1, y + 1) = Sleepers(2, y + 1)
        BY <1>1, <3>3 DEF Sleepers
      <4>2. y + 1 <= Interval * (n + 1)
        BY <2>1, <4>1 DEF Filled, Number
      <4> HIDE DEF n
      <4>3. Interval * (n + 1) \in Nat
        BY <3>1, IntervalTimes
      <4> QED
        BY <3>1, <4>2, <4>3
    <3> QED
      BY <3>2, <3>3
  <2>3. ASSUME NEW x \in Int, Waited(x)', 1 <= x, x < y
        PROVE  y - x <= Interval * Number(x, y)'
    <3>1. (y + 1) - (x + 1) <= Interval * Number(x + 1, y + 1)
      BY <1>4, <2>1, <2>3 DEF Filled
    <3> QED
      BY <1>3, <3>1
  <2> QED
    BY <2>2, <2>3 DEF Filled
<1>6. ASSUME NEW y \in Int, Booking(y)' PROVE Filled(y)'
  <2>1. CASE Waited(y)'
    BY <1>4, <1>5, <2>1 DEF Booking
  <2>2. CASE y = nextCall - 1
    BY <1>1, <1>5, <2>2 DEF Booking
  <2>3. CASE y = -MaxLate /\ y >= nextCall - 1
    <3>1. y <= Interval
      BY <1>1, <2>3
    <3>2. \A v \in Workers : at'[v] = "sleep" => slot'[v] < 1 \/ slot'[v] >= y
      BY <1>1, <2>3
    <3> QED
      BY <1>2, <3>1, <3>2, DueIsFilledNext
  <2> QED
    BY <1>1, <1>6, <2>1, <2>2, <2>3 DEF Booking, Larger
<1> QED
  BY <1>6 DEF WaitInv

Reach == Interval * Cardinality(Workers)

Bounds ==
  /\ age \in [Workers -> 0..MaxLate]
  /\ nextCall >= -MaxLate
  /\ \A w \in Workers :
       /\ slot[w] >= -MaxLate
       /\ at[w] \notin {"book", "sleep"} => slot[w] = 0
       /\ at[w] = "book" => slot[w] <= Reach
       /\ sleep[w] <= Reach + MaxLate

PoolInv == BatchInv /\ WaitInv /\ Bounds

LEMMA ReachFacts ==
  /\ Cardinality(Workers) \in Nat \ {0} /\ Reach \in Nat /\ Reach >= Interval
  /\ Interval \in Nat \ {0} /\ MaxLate \in Nat
  /\ Interval * (Cardinality(Workers) + 1) = Reach + Interval
<1> DEFINE k == Cardinality(Workers)
<1>1. k \in Nat \ {0}
  BY WorkersAssumption, FS_CardinalityType, FS_EmptySet
<1> HIDE DEF k
<1>2. PICK j \in Nat : k = j + 1
  <2>1. k - 1 \in Nat /\ k = (k - 1) + 1
    BY <1>1
  <2> QED
    BY <2>1
<1>3. Interval * k = Interval * j + Interval /\ Interval * j \in Nat
  BY <1>2, IntervalTimes
<1>4. Interval * (k + 1) = Interval * k + Interval
  BY <1>1, IntervalTimes
<1> QED
  BY <1>1, <1>3, <1>4, IntervalAssumption, LateAssumption DEF k, Reach

\* Among the threads that wait for an earlier slot is not the thread itself.
LEMMA OthersFewer ==
  ASSUME NEW x, NEW y, NEW w \in Workers, w \notin Sleepers(x, y)
  PROVE  Interval * (Number(x, y) + 1) <= Reach
<1>1. Number(x, y) \in Nat
  BY NumberFacts
<1>2. Sleepers(x, y) \cup {w} \subseteq Workers
  BY NumberFacts
<1>3. Cardinality(Sleepers(x, y) \cup {w}) = Number(x, y) + 1
  BY NumberFacts, FS_AddElement DEF Number
<1>4. Number(x, y) + 1 <= Cardinality(Workers)
  BY <1>2, <1>3, WorkersAssumption, FS_Subset
<1>5. Number(x, y) + 1 \in Nat /\ Cardinality(Workers) \in Nat
  BY <1>1, ReachFacts
<1> HIDE DEF Number
<1> QED
  BY <1>4, <1>5, TimesOrdered DEF Reach

LEMMA WaitBounds ==
  ASSUME WaitInv
  PROVE  /\ nextCall <= Reach + Interval
         /\ \A w \in Workers : at[w] # "sleep" => nextCall <= Reach
         /\ \A w \in Workers : at[w] = "sleep" => slot[w] <= Reach
<1>1. /\ nextCall \in Int /\ \A v \in Workers : slot[v] \in Int
      /\ Reach \in Nat /\ Interval \in Nat
  BY ReachFacts DEF WaitInv, RateInv, PaceInv, PaceTypes
<1>2. nextCall <= Interval * (Number(1, nextCall) + 1)
  BY <1>1 DEF WaitInv, Booking, Filled
<1>3. nextCall <= Reach + Interval
  <2> DEFINE n == Number(1, nextCall)
  <2>1. n \in Nat /\ n <= Cardinality(Workers) /\ Cardinality(Workers) \in Nat
    BY NumberFacts, ReachFacts
  <2>2. nextCall <= Interval * (n + 1)
    BY <1>2
  <2> HIDE DEF n
  <2>3. Interval * (n + 1) = Interval * n + Interval /\ Interval * n \in Nat
    BY <2>1, IntervalTimes
  <2>4. Interval * n <= Reach
    BY <2>1, TimesOrdered DEF Reach
  <2> QED
    BY <1>1, <2>2, <2>3, <2>4
<1>4. ASSUME NEW w \in Workers, at[w] # "sleep" PROVE nextCall <= Reach
  <2> DEFINE m == Interval * (Number(1, nextCall) + 1)
  <2>1. w \notin Sleepers(1, nextCall)
    BY <1>4 DEF Sleepers
  <2>2. m <= Reach /\ nextCall <= m
    BY <1>2, <2>1, OthersFewer
  <2>3. m \in Int
    BY <1>1, NumberFacts
  <2> HIDE DEF m
  <2> QED
    BY <1>1, <2>2, <2>3
<1>5. ASSUME NEW w \in Workers, at[w] = "sleep" PROVE slot[w] <= Reach
  <2> DEFINE m == Interval * (Number(1, slot[w]) + 1)
  <2>1. w \notin Sleepers(1, slot[w])
    BY <1>1 DEF Sleepers
  <2>2. slot[w] <= m
    BY <1>1, <1>5 DEF WaitInv, Booking, Waited, Filled
  <2>3. m <= Reach
    BY <2>1, OthersFewer
  <2>4. m \in Int
    BY <1>1, NumberFacts
  <2> HIDE DEF m
  <2> QED
    BY <1>1, <2>2, <2>3, <2>4
<1> QED
  BY <1>3, <1>4, <1>5

LEMMA WaitStep == WaitInv /\ [PoolNext]_vars => WaitInv'
<1> SUFFICES ASSUME WaitInv, [PoolNext]_vars PROVE WaitInv'
  OBVIOUS
<1>1. RateInv'
  BY RateStep DEF WaitInv
<1>2. at \in [Workers -> Places] /\ slot \in [Workers -> Int]
  BY DEF WaitInv, RateInv, PaceInv, PaceTypes
<1>3. CASE Tick
  BY <1>1, <1>3, WaitTick
<1>4. CASE NewBatch \/ UNCHANGED vars
  BY <1>1, <1>4, WaitMove DEF NewBatch, threads, vars
<1>5. ASSUME NEW w \in Workers, Thread(w) PROVE WaitInv'
  <2>1. CASE Take(w)
    BY <1>1, <1>2, <2>1, WaitMove DEF Take
  <2>2. CASE ReadClock(w)
    <3>1. /\ at[w] = "pace" /\ at' = [at EXCEPT ![w] = "book"]
          /\ slot' = [slot EXCEPT ![w] = Larger(0, nextCall)]
          /\ UNCHANGED <<nextCall, starts>>
      BY <2>2 DEF ReadClock
    <3>2. \A v \in Workers : v # w => at'[v] = at[v] /\ slot'[v] = slot[v]
      BY <1>2, <3>1
    <3>3. at'[w] = "book"
      BY <1>2, <3>1
    <3> QED
      BY <1>1, <3>1, <3>2, <3>3, WaitMove
  <2>3. CASE BookSlot(w)
    BY <1>1, <2>3, WaitBookSlot
  <2>4. CASE StartCall(w)
    <3>1. /\ at[w] = "sleep" /\ slot[w] <= 0 /\ at' = [at EXCEPT ![w] = "call"]
          /\ slot' = [slot EXCEPT ![w] = 0] /\ UNCHANGED nextCall
      BY <1>2, <2>4 DEF StartCall, WaitInv, RateInv, PaceInv, SlotsApart
    <3>2. \A v \in Workers : v # w => at'[v] = at[v] /\ slot'[v] = slot[v]
      BY <1>2, <3>1
    <3>3. at'[w] = "call"
      BY <1>2, <3>1
    <3> QED
      BY <1>1, <3>1, <3>2, <3>3, WaitMove
  <2>5. CASE EndCall(w)
    BY <1>1, <1>2, <2>5, WaitMove DEF EndCall
  <2> QED
    BY <1>5, <2>1, <2>2, <2>3, <2>4, <2>5 DEF Thread
<1> QED
  BY <1>3, <1>4, <1>5 DEF PoolNext

LEMMA BoundsStep ==
  ASSUME WaitInv, Bounds, [PoolNext]_vars
  PROVE  Bounds'
<1>1. /\ PaceTypes /\ BookingIsCurrent /\ MaxLate \in Nat /\ Reach \in Nat
      /\ Interval \in Nat \ {0}
  BY ReachFacts DEF WaitInv, RateInv, PaceInv
<1>2. CASE Tick
  <2>1. nextCall' >= -MaxLate
    BY <1>1, <1>2 DEF Tick, Larger, PaceTypes
  <2>2. age' \in [Workers -> 0..MaxLate]
    BY <1>1, <1>2 DEF Tick, Bounds
  <2>3. ASSUME NEW w \in Workers
        PROVE  /\ slot'[w] >= -MaxLate
               /\ at[w] \notin {"book", "sleep"} => slot'[w] = 0
               /\ at[w] = "book" => slot'[w] <= Reach
               /\ sleep'[w] <= Reach + MaxLate
    <3>1. /\ slot'[w] = IF at[w] \in {"book", "sleep"} THEN slot[w] - 1 ELSE 0
          /\ sleep'[w] = IF at[w] = "sleep" THEN Larger(0, sleep[w] - 1) ELSE sleep[w]
          /\ at[w] = "book" => age[w] < MaxLate
          /\ at[w] = "sleep" => slot[w] > -MaxLate
          /\ slot[w] \in Int /\ sleep[w] \in Nat /\ age[w] \in Nat /\ nextCall \in Int
      BY <1>1, <1>2 DEF Tick, PaceTypes
    <3>2. at[w] = "book" => slot[w] >= -age[w]
      BY <1>1, <3>1 DEF BookingIsCurrent, Larger
    <3> QED
      BY <1>1, <3>1, <3>2 DEF Bounds, Larger
  <2>4. at' = at
    BY <1>2 DEF Tick
  <2> QED
    BY <2>1, <2>2, <2>3, <2>4 DEF Bounds
<1>3. CASE NewBatch \/ UNCHANGED vars
  BY <1>3 DEF NewBatch, threads, vars, Bounds
<1>4. ASSUME NEW w \in Workers, Thread(w) PROVE Bounds'
  <2>1. CASE Take(w)
    BY <1>1, <2>1 DEF Take, Bounds, PaceTypes
  <2>2. CASE ReadClock(w)
    <3> DEFINE k == Larger(0, nextCall)
    <3>1. /\ at[w] = "pace" /\ at' = [at EXCEPT ![w] = "book"]
          /\ slot' = [slot EXCEPT ![w] = k] /\ sleep' = [sleep EXCEPT ![w] = k]
          /\ age' = [age EXCEPT ![w] = 0] /\ UNCHANGED nextCall
      BY <2>2 DEF ReadClock
    <3>2. k \in Nat /\ k <= Reach
      BY <1>1, <3>1, WaitBounds DEF PaceTypes, Larger
    <3> HIDE DEF k
    <3> QED
      BY <1>1, <3>1, <3>2 DEF Bounds, PaceTypes
  <2>3. CASE BookSlot(w)
    <3>1. /\ at[w] = "book" /\ at' = [at EXCEPT ![w] = "sleep"]
          /\ age' = [age EXCEPT ![w] = 0] /\ UNCHANGED <<slot, sleep>>
          /\ nextCall' = Larger(-age[w], nextCall) + Interval
      BY <2>3 DEF BookSlot, Booked
    <3>2. nextCall' >= -MaxLate
      BY <1>1, <3>1 DEF Bounds, PaceTypes, Larger
    <3> QED
      BY <1>1, <3>1, <3>2 DEF Bounds, PaceTypes
  <2>4. CASE StartCall(w)
    BY <1>1, <2>4 DEF StartCall, Bounds, PaceTypes
  <2>5. CASE EndCall(w)
    BY <1>1, <2>5 DEF EndCall, Bounds, PaceTypes
  <2> QED
    BY <1>4, <2>1, <2>2, <2>3, <2>4, <2>5 DEF Thread
<1> QED
  BY <1>2, <1>3, <1>4 DEF PoolNext

LEMMA PoolStart == PoolInit => PoolInv
<1> SUFFICES ASSUME PoolInit PROVE PoolInv
  OBVIOUS
<1>1. Reach \in Nat /\ MaxLate \in Nat
  BY ReachFacts
<1>2. Bounds
  BY <1>1 DEF PoolInit, Bounds
<1> QED
  BY <1>2, BatchInit, WaitStart DEF PoolInv

LEMMA PoolTypes == PoolInv => TypeOK
<1> SUFFICES ASSUME PoolInv PROVE TypeOK
  OBVIOUS
<1>1. /\ BatchTypes /\ PaceTypes /\ lock \in SUBSET Workers /\ OneInLock
      /\ starts \in Seq(0..Span)
  BY DEF PoolInv, BatchInv, WaitInv, RateInv, PaceInv
<1>2. /\ Reach \in Nat /\ MaxLate \in Nat /\ Interval \in Nat \ {0}
      /\ Interval * (Cardinality(Workers) + 1) = Reach + Interval
  BY ReachFacts
<1>3. Cardinality(lock) <= 1
  <2>1. CASE lock = {}
    BY <2>1, FS_EmptySet
  <2>2. CASE lock # {}
    <3>1. PICK w \in lock : TRUE
      BY <2>2
    <3>2. lock = {w}
      BY <1>1, <3>1 DEF OneInLock
    <3>3. Cardinality({w}) = 1
      BY FS_Singleton
    <3> QED
      BY <3>2, <3>3
  <2> QED
    BY <2>1, <2>2
<1>4. nextCall \in -MaxLate..(Interval * (Cardinality(Workers) + 1))
  <2>1. nextCall \in Int /\ nextCall >= -MaxLate /\ nextCall <= Reach + Interval
    BY <1>1, WaitBounds DEF PoolInv, Bounds, PaceTypes
  <2> QED
    BY <1>2, <2>1
<1>5. slot \in [Workers -> -MaxLate..Reach]
  <2>1. ASSUME NEW w \in Workers PROVE slot[w] \in -MaxLate..Reach
    <3>1. slot[w] \in Int /\ slot[w] >= -MaxLate
      BY <1>1 DEF PoolInv, Bounds, PaceTypes
    <3>2. slot[w] <= Reach
      BY <1>2, WaitBounds DEF PoolInv, Bounds
    <3> QED
      BY <1>2, <3>1, <3>2
  <2> QED
    BY <1>1, <2>1 DEF PaceTypes
<1>6. sleep \in [Workers -> 0..(Reach + MaxLate)]
  BY <1>1, <1>2 DEF PoolInv, Bounds, PaceTypes
<1>7. age \in [Workers -> 0..MaxLate]
  BY DEF PoolInv, Bounds
<1>8. \A i \in DOMAIN starts : starts[i] \in 0..Span
  <2>1. DOMAIN starts = 1..Len(starts) /\ \A i \in 1..Len(starts) : starts[i] \in 0..Span
    BY <1>1, LateAssumption
  <2> QED
    BY <2>1
<1>9. /\ slot \in [Workers -> -MaxLate..(Interval * Cardinality(Workers))]
      /\ sleep \in [Workers -> 0..(Interval * Cardinality(Workers) + MaxLate)]
  BY <1>5, <1>6 DEF Reach
<1>10. /\ current \in [Symbols -> Positions] /\ queue \in SUBSET Symbols
       /\ decided \in [Symbols -> [status : {"none", "ok", "failed"}, target : Positions]]
       /\ task \in [Workers -> Symbols \cup {NoTask}]
       /\ at \in [Workers -> {"free", "pace", "book", "sleep", "call"}]
  BY <1>1 DEF BatchTypes, Decisions, Places
<1> QED
  BY <1>1, <1>3, <1>4, <1>7, <1>8, <1>9, <1>10, Zenon DEF TypeOK

\* No slot is booked, and no thread sleeps, further ahead than one Interval
\* per thread, and every variable keeps its type.
THEOREM TypeCorrect == PoolSpec => []TypeOK
<1>1. PoolInv /\ [PoolNext]_vars => PoolInv'
  BY BatchStep, WaitStep, BoundsStep DEF PoolInv
<1> QED
  BY <1>1, PoolStart, PoolTypes, PTL DEF PoolSpec
=============================================================================
