---------------------------- MODULE BatchDecision ----------------------------
(***************************************************************************)
(* What AgentEngine.decide_all promises the tick: every symbol of a batch  *)
(* gets one Decision, a verdict of the model or a failure that holds the   *)
(* position it came in with, and the next batch starts only after that.    *)
(* ForwardRecord takes a batch as one step with any mix of the two.        *)
(***************************************************************************)
EXTENDS Integers

CONSTANTS
  Symbols,  \* symbols of a batch
  Targets   \* positions the model may answer with

ASSUME SymbolsNotEmpty == Symbols # {}
ASSUME TargetsAssumption == Targets \subseteq Int /\ Targets # {}

VARIABLES
  current,  \* the position each symbol comes in with
  decided   \* the Decision of each symbol; Pending until it has one

Positions == Targets \cup {0}
Pending == [status |-> "none", target |-> 0]
Verdict(t) == [status |-> "ok", target |-> t]
Failure(p) == [status |-> "failed", target |-> p]

Done == \A s \in Symbols : decided[s] # Pending

Init ==
  /\ current \in [Symbols -> Positions]
  /\ decided = [s \in Symbols |-> Pending]

DecideOne(s) ==
  /\ decided[s] = Pending
  /\ \E d \in {Failure(current[s])} \cup {Verdict(t) : t \in Targets} :
       decided' = [decided EXCEPT ![s] = d]
  /\ UNCHANGED current

\* A failure leaves the position as it was, so the next batch of the symbol
\* starts from what was decided.
NextBatch ==
  /\ Done
  /\ current' = [s \in Symbols |-> decided[s].target]
  /\ decided' = [s \in Symbols |-> Pending]

Next == NextBatch \/ \E s \in Symbols : DecideOne(s)

Spec == Init /\ [][Next]_<<current, decided>>
=============================================================================
