------------------------------ MODULE AgentPool ------------------------------
(***************************************************************************)
(* engine.py: AgentEngine.decide_all fans one model call per symbol out to *)
(* a pool of threads; every call passes _pace first, which books the next  *)
(* slot of the rate limit under a lock and sleeps outside of it.           *)
(*                                                                         *)
(* Time is kept relative to now, in ticks, so it needs no bound: a booked  *)
(* slot k ticks ahead is k, one that has passed is negative.  A thread may *)
(* be late, by at most MaxLate ticks.  A call ends with an answer, or with *)
(* any exception, a timeout among them.  The client library's own retries  *)
(* happen inside a call and are not paced (external).                      *)
(***************************************************************************)
EXTENDS BatchDecision, FiniteSets, Sequences

CONSTANTS
  Workers,   \* threads of the pool (MAX_WORKERS)
  Interval,  \* ticks between two slots (60 s / RATE_LIMIT_PER_MIN)
  MaxLate,   \* assumed: ticks a thread may be scheduled late
  Span,      \* bound: how many ticks back the starts of calls are remembered
  NoTask     \* what a free thread works on

ASSUME WorkersAssumption == IsFiniteSet(Workers) /\ Workers # {}
ASSUME IntervalAssumption == Interval \in Nat \ {0}
ASSUME NoTaskAssumption == NoTask \notin Symbols
ASSUME LateAssumption == MaxLate \in Nat /\ Span \in Nat

VARIABLES
  queue,     \* submitted symbols no thread has taken
  task,      \* the symbol a thread works on
  at,        \* where it is: free, pace, book, sleep, call
  lock,      \* threads inside `with _pace_lock`
  age,       \* ticks since a thread in the lock read `now`
  nextCall,  \* _next_call_at, relative to now
  slot,      \* the slot a thread has booked, relative to now
  sleep,     \* ticks it has still to sleep
  starts     \* how long ago the latest calls started, newest first

threads == <<task, at, lock, age, slot, sleep>>
vars == <<current, decided, queue, threads, nextCall, starts>>

Larger(a, b) == IF a >= b THEN a ELSE b

TypeOK ==
  /\ current \in [Symbols -> Positions]
  /\ decided \in [Symbols -> [status : {"none", "ok", "failed"}, target : Positions]]
  /\ queue \in SUBSET Symbols
  /\ task \in [Workers -> Symbols \cup {NoTask}]
  /\ at \in [Workers -> {"free", "pace", "book", "sleep", "call"}]
  /\ lock \in SUBSET Workers /\ Cardinality(lock) <= 1
  /\ age \in [Workers -> 0..MaxLate]
  /\ nextCall \in -MaxLate..(Interval * (Cardinality(Workers) + 1))
  /\ slot \in [Workers -> -MaxLate..(Interval * Cardinality(Workers))]
  /\ sleep \in [Workers -> 0..(Interval * Cardinality(Workers) + MaxLate)]
  /\ \A i \in DOMAIN starts : starts[i] \in 0..Span

PoolInit ==
  /\ Init
  /\ queue = Symbols
  /\ task = [w \in Workers |-> NoTask]
  /\ at = [w \in Workers |-> "free"]
  /\ lock = {}
  /\ age = [w \in Workers |-> 0]
  /\ nextCall = -MaxLate
  /\ slot = [w \in Workers |-> 0]
  /\ sleep = [w \in Workers |-> 0]
  /\ starts = <<>>

Take(w) ==
  /\ at[w] = "free"
  /\ \E s \in queue :
       /\ task' = [task EXCEPT ![w] = s]
       /\ queue' = queue \ {s}
  /\ at' = [at EXCEPT ![w] = "pace"]
  /\ UNCHANGED <<current, decided, lock, age, nextCall, slot, sleep, starts>>

MayEnter_NoLock(w) == TRUE
MayEnter(w) == lock = {}

\* _pace: take the lock, read the clock, compute how long to wait.
ReadClock(w) ==
  /\ at[w] = "pace"
  /\ MayEnter(w)
  /\ lock' = lock \cup {w}
  /\ age' = [age EXCEPT ![w] = 0]
  /\ slot' = [slot EXCEPT ![w] = Larger(0, nextCall)]
  /\ sleep' = [sleep EXCEPT ![w] = Larger(0, nextCall)]
  /\ at' = [at EXCEPT ![w] = "book"]
  /\ UNCHANGED <<current, decided, queue, task, nextCall, starts>>

Booked_FromNow(w) == Interval - age[w]
\* The clock value read may be age[w] ticks old by now.
Booked(w) == Larger(-age[w], nextCall) + Interval

\* _pace: book the slot, release the lock, then sleep if there is a wait.
BookSlot(w) ==
  /\ at[w] = "book"
  /\ nextCall' = Booked(w)
  /\ lock' = lock \ {w}
  /\ age' = [age EXCEPT ![w] = 0]
  /\ at' = [at EXCEPT ![w] = "sleep"]
  /\ UNCHANGED <<current, decided, queue, task, slot, sleep, starts>>

StartCall(w) ==
  /\ at[w] = "sleep"
  /\ sleep[w] = 0
  /\ at' = [at EXCEPT ![w] = "call"]
  /\ slot' = [slot EXCEPT ![w] = 0]
  /\ starts' = <<0>> \o starts
  /\ UNCHANGED <<current, decided, queue, task, lock, age, nextCall, sleep>>

Fallback_Flat(s) == Failure(0)
Fallback_Raise(s) == Pending
\* decide swallows every exception and holds the current position.
Fallback(s) == Failure(current[s])

EndCall(w) ==
  /\ at[w] = "call"
  /\ \E d \in {Fallback(task[w])} \cup {Verdict(t) : t \in Targets} :
       decided' = [decided EXCEPT ![task[w]] = d]
  /\ task' = [task EXCEPT ![w] = NoTask]
  /\ at' = [at EXCEPT ![w] = "free"]
  /\ UNCHANGED <<current, queue, lock, age, nextCall, slot, sleep, starts>>

\* The `with` block waits for every future.
BatchOver == queue = {} /\ \A w \in Workers : at[w] = "free"

\* The tick's next date: a new pool, the pace carries over.
NewBatch ==
  /\ BatchOver
  /\ current' = [s \in Symbols |-> decided[s].target]
  /\ decided' = [s \in Symbols |-> Pending]
  /\ queue' = Symbols
  /\ UNCHANGED <<threads, nextCall, starts>>

\* The starts still worth remembering after the next tick.
Remembered == {i \in DOMAIN starts : starts[i] < Span}

\* One tick passes.  No thread is later than MaxLate.
Tick ==
  /\ \A w \in Workers :
       /\ at[w] = "book" => age[w] < MaxLate
       /\ at[w] = "sleep" => slot[w] > -MaxLate
  /\ nextCall' = Larger(-MaxLate, nextCall - 1)
  /\ age' = [w \in Workers |-> IF at[w] = "book" THEN age[w] + 1 ELSE 0]
  /\ slot' = [w \in Workers |-> IF at[w] \in {"book", "sleep"}
                                 THEN slot[w] - 1 ELSE 0]
  /\ sleep' = [w \in Workers |-> IF at[w] = "sleep"
                                  THEN Larger(0, sleep[w] - 1) ELSE sleep[w]]
  /\ starts' = [i \in 1..Cardinality(Remembered) |-> starts[i] + 1]
  /\ UNCHANGED <<current, decided, queue, task, at, lock>>

Thread(w) == Take(w) \/ ReadClock(w) \/ BookSlot(w) \/ StartCall(w) \/ EndCall(w)

PoolNext == Tick \/ NewBatch \/ \E w \in Workers : Thread(w)

PoolSpec == PoolInit /\ [][PoolNext]_vars

\* Threads are scheduled, time passes, every call ends (the client has a
\* timeout), and the tick goes on to its next date.
Fairness ==
  /\ WF_vars(Tick)
  /\ WF_vars(NewBatch)
  /\ \A w \in Workers :
       /\ WF_vars(Take(w) \/ BookSlot(w) \/ StartCall(w) \/ EndCall(w))
       /\ SF_vars(ReadClock(w))

FairSpec == PoolSpec /\ Fairness
-----------------------------------------------------------------------------
(***************************************************************************)
(* Safety.                                                                 *)
(***************************************************************************)

\* However many threads there are and however fast the endpoint answers, the
\* calls that start within Span ticks are no more than the rate limit allows,
\* plus those that were late.
RateBounded ==
  Len(starts) <= (Span + MaxLate) \div Interval + 1

\* The slots of waiting threads are one Interval apart and the next booking
\* comes after them all; nobody wakes before the slot, however stale the clock
\* value it computed its sleep from.
SlotsApart ==
  \A w \in Workers :
    at[w] = "sleep" =>
      /\ nextCall >= slot[w] + Interval
      /\ sleep[w] >= slot[w]
      /\ \A v \in Workers \ {w} : at[v] = "sleep" =>
           slot[w] - slot[v] >= Interval \/ slot[v] - slot[w] >= Interval

\* decide_all implements what the tick relies on: one Decision per symbol,
\* a failure holds, nothing changes afterwards, no batch overlaps the next.
Promise == INSTANCE BatchDecision
KeepsPromise == Promise!Spec

(***************************************************************************)
(* Liveness (FairSpec).                                                    *)
(***************************************************************************)
\* Every batch ends with a Decision for every symbol, whatever fails.
BatchesEnd == []<>Done
=============================================================================
