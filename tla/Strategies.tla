------------------------------ MODULE Strategies ------------------------------
(***************************************************************************)
(* strategies/mean_reversion.py and strategies/momentum.py, one bar at a   *)
(* time.  The code recomputes the whole series from every bar's history;   *)
(* rolling statistics look back only, so the last value of each prefix is  *)
(* the value of one run of this machine.                                   *)
(*                                                                         *)
(* A score is a z-score or a trailing return, a signed number of steps, or *)
(* NaN (warm-up, or a window of equal closes).  Prices are log prices, so  *)
(* the stop is a number of steps.                                          *)
(***************************************************************************)
EXTENDS Integers

CONSTANTS
  Entry,   \* mean reversion enters beyond this score
  Exit,    \* and leaves within this one
  Stop,    \* adverse move that stops a position out; 0 disables
  NaN      \* no score

ASSUME ThresholdAssumption == Entry \in Nat /\ Exit \in Int /\ Exit <= Entry
ASSUME StopAssumption == Stop \in Nat
ASSUME NaNAssumption == NaN \notin Int

Size(q) == IF q < 0 THEN -q ELSE q
Conviction(score) == IF score = NaN THEN NaN ELSE Size(score)

\* clamp_short
Clamped(p, allowShort) == IF p = -1 /\ ~allowShort THEN 0 ELSE p

(***************************************************************************)
(* Mean reversion.  The machine is in a trade, long or short, whatever the *)
(* clamp lets through, or it is flat, perhaps latched after a stop.        *)
(***************************************************************************)
Flat == [holding |-> 0, price |-> 0, stopped |-> FALSE]

Latched_Never(m, z) == FALSE
\* A stop-out keeps the machine flat until the score has been within Entry.
Latched(m, z) == m.stopped /\ Size(z) > Entry

Side(z) == IF z < -Entry THEN 1 ELSE IF z > Entry THEN -1 ELSE 0

FromFlat(m, z, px) ==
  LET side == IF Latched(m, z) THEN 0 ELSE Side(z)
  IN [holding |-> side,
      price   |-> IF side = 0 THEN 0 ELSE px,
      stopped |-> Latched(m, z)]

StopHit(m, px) == Stop # 0 /\ m.holding * (px - m.price) <= -Stop

Reverted_Beyond(m, z) ==
  (m.holding = 1 /\ z > -Exit) \/ (m.holding = -1 /\ z < Exit)
Reverted(m, z) ==
  (m.holding = 1 /\ z >= -Exit) \/ (m.holding = -1 /\ z <= Exit)

\* One bar with z-score z and close px.
Advance(m, z, px) ==
  CASE z = NaN -> m
    [] z # NaN /\ m.holding = 0 -> FromFlat(m, z, px)
    [] z # NaN /\ m.holding # 0 /\ StopHit(m, px) -> [Flat EXCEPT !.stopped = TRUE]
    [] z # NaN /\ m.holding # 0 /\ ~StopHit(m, px) ->
         IF Reverted(m, z) THEN Flat ELSE m

\* The target after that bar: nothing is reported on a bar without a score.
Reported(m, z, allowShort) ==
  IF z = NaN THEN 0 ELSE Clamped(m.holding, allowShort)

(***************************************************************************)
(* Momentum: the sign of the trailing return.                              *)
(***************************************************************************)
Trend(score, allowShort) ==
  IF score = NaN \/ score = 0 THEN 0
  ELSE Clamped(IF score > 0 THEN 1 ELSE -1, allowShort)
=============================================================================
