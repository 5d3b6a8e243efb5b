----------------------------- MODULE PaperTrader -----------------------------
(***************************************************************************)
(* papertrade.py: the bar-by-bar loop of PaperTrader.run for one symbol,   *)
(* with the conviction gate of overlay.py.  Symbols do not interact in the *)
(* loop but for the mean of their daily nets.                              *)
(*                                                                         *)
(* The engine is a strategy, whose score on a bar gives both its target    *)
(* and its conviction, or the agent, which answers any target and has no   *)
(* conviction.  Scores and prices are inputs, independent of each other.   *)
(* Prices are log prices in whole steps, so that the return of a position  *)
(* is its quantity times a difference and returns add up.  Costs are       *)
(* counted in sides traded.                                                *)
(***************************************************************************)
EXTENDS Strategies, FiniteSets, Sequences

CONSTANTS
  Last,        \* bound: number of bars
  Prices,      \* log prices of opens and closes
  Scores,      \* scores of a strategy, with NaN
  Engines,     \* engines to run, of "mean_reversion", "momentum", "agent"
  Shorting,    \* values of allow_short to run with
  Window,      \* convictions the gate looks back on (120)
  Pctile,      \* its percentile, in percent (60)
  FillModes    \* values of nextOpen to run with

Targets == {-1, 0, 1}

ASSUME BarsAssumption == Last \in Nat /\ Last > 1
ASSUME PricesAssumption == Prices # {} /\ Prices \subseteq Int
ASSUME ScoresAssumption == Scores \subseteq Int \cup {NaN}
ASSUME EnginesAssumption ==
  Engines \subseteq {"mean_reversion", "momentum", "agent"} /\ Shorting \subseteq BOOLEAN
ASSUME GateAssumption == Window \in Nat \ {0} /\ Pctile \in 0..100
ASSUME FillAssumption == FillModes \subseteq BOOLEAN

VARIABLES
  engine,     \* the engine of the run
  allowShort, \* its allow_short
  nextOpen,   \* the fill model: NextOpenFill or CloseFill
  machine,    \* the mean-reversion machine after the last bar
  bar,        \* bars done
  open,       \* open of the next bar
  close,      \* close of the last bar done
  score,      \* the last bar's score
  signals,    \* convictions of the bars done
  past,       \* the gate's history for the symbol
  kept,       \* per bar done: the gate let the target through
  pos,        \* the position after the last bar
  fresh,      \* entered at the next open: skips the gap before it
  trade,      \* the open trade
  trades,     \* what the closed trades add up to: gross, sides, sides closed
              \* at end of data, round trips of zero bars opened from flat
  curve,      \* what the daily nets add up to
  gaps,       \* history: moves between the close and the fill of an exit
  before,     \* history: the position before the last bar
  backtest    \* history: what backtest.net_returns adds up to on the positions

vars == <<engine, allowShort, nextOpen, machine, bar, open, close, score, signals, past,
          kept, pos, fresh, trade, trades, curve, gaps, before, backtest>>

NoTrade == [qty |-> 0, price |-> 0, entry |-> 0, reversed |-> FALSE]

-----------------------------------------------------------------------------
(***************************************************************************)
(* The gate, and its vectorised twin of the forward path.                  *)
(***************************************************************************)
\* The v-th smallest element of a sequence of magnitudes, v from 0.
Ranked(seq, v) ==
  CHOOSE x \in {seq[i] : i \in DOMAIN seq} :
    /\ Cardinality({i \in DOMAIN seq : seq[i] < x}) <= v
    /\ Cardinality({i \in DOMAIN seq : seq[i] <= x}) > v

\* c exceeds the percentile of seq, interpolated linearly between two ranks.
Exceeds(c, seq) ==
  LET place == (Len(seq) - 1) * Pctile
      below == place \div 100
      rest  == place % 100
      above == IF rest = 0 THEN below ELSE below + 1
  IN 100 * c > (100 - rest) * Ranked(seq, below) + rest * Ranked(seq, above)

Trailing(seq) == SubSeq(seq, Len(seq) - Window + 1, Len(seq))

\* ConvictionGate.adjust: the threshold comes from before today.
Passes_SelfIncluded(c) ==
  c = NaN \/ Len(past) < Window \/ Exceeds(c, Trailing(Append(past, c)))
Passes(c) ==
  c = NaN \/ Len(past) < Window \/ Exceeds(c, Trailing(past))

\* apply_conviction over a whole series, at place t.
Valid(series) == {i \in DOMAIN series : series[i] # NaN}
PriorValid(series, t) == {i \in Valid(series) : i < t}
Place(series, t, k) ==
  CHOOSE i \in PriorValid(series, t) :
    Cardinality({j \in PriorValid(series, t) : j > i}) = Window - k
Rolling(series, t) == [k \in 1..Window |-> series[Place(series, t, k)]]
Keeps(series, t) ==
  \/ series[t] = NaN
  \/ Cardinality(PriorValid(series, t)) < Window
  \/ Exceeds(series[t], Rolling(series, t))
-----------------------------------------------------------------------------
TypeOK ==
  /\ bar \in 0..Last + 1
  /\ open \in Prices /\ close \in Prices
  /\ engine \in Engines /\ allowShort \in Shorting /\ nextOpen \in FillModes
  /\ machine \in [holding : Targets, price : Prices \cup {0}, stopped : BOOLEAN]
  /\ score \in Scores \cup {NaN}
  /\ \A i \in DOMAIN signals : signals[i] \in Nat \cup {NaN}
  /\ \A i \in DOMAIN past : past[i] \in Nat
  /\ Len(kept) = Len(signals)
  /\ pos \in Targets
  /\ fresh \in BOOLEAN
  /\ trade.qty = pos
  /\ trades \in [gross : Int, sides : Nat, ended : 0..1, instant : Nat]
  /\ curve \in [gross : Int, sides : Nat]
  /\ gaps \in Int
  /\ before \in Targets
  /\ backtest \in [gross : Int, sides : Nat]

Init ==
  /\ engine \in Engines /\ allowShort \in Shorting /\ nextOpen \in FillModes
  /\ machine = Flat /\ score = NaN
  /\ bar = 0
  /\ open \in Prices /\ close \in Prices
  /\ signals = <<>> /\ past = <<>> /\ kept = <<>>
  /\ pos = 0 /\ fresh = FALSE
  /\ trade = NoTrade
  /\ trades = [gross |-> 0, sides |-> 0, ended |-> 0, instant |-> 0]
  /\ curve = [gross |-> 0, sides |-> 0]
  /\ gaps = 0
  /\ before = 0
  /\ backtest = [gross |-> 0, sides |-> 0]

\* close_trade at bar i: the move from entry to exit, cost on both sides.
Closed(price, i) ==
  [trades EXCEPT !.gross = @ + trade.qty * (price - trade.price),
                 !.sides = @ + 2 * Size(trade.qty),
                 !.instant = @ + (IF trade.entry = i /\ ~trade.reversed
                                         THEN 1 ELSE 0)]

\* No fresh position on the last bar.
Taken_Unguarded(t, i) == t
Taken(t, i) == IF t # 0 /\ pos = 0 /\ i = Last THEN pos ELSE t

\* FillModel.fill: there is no next bar after the last.
Fill(i, c, next) == IF nextOpen /\ i < Last THEN next ELSE c

\* Under next-open fills a fresh position earns from today's open only.
Base_Close(i) == close
Base(i) == IF fresh THEN open ELSE close

(***************************************************************************)
(* backtest.net_returns, the vectorised twin of the curve: the net of a    *)
(* bar is what its position makes up to the next close, less its turnover. *)
(* On a bar whose position changed, next-open fills earn from the open.    *)
(* The last bar has no next close, and is dropped with its turnover.       *)
(***************************************************************************)
NetReturns_AllDelayed(today) ==
  [gross |-> backtest.gross + pos * (today - (IF nextOpen /\ pos # 0 THEN open ELSE close)),
   sides |-> backtest.sides + Size(pos - before)]
NetReturns(today) ==
  [gross |-> backtest.gross
             + pos * (today - (IF nextOpen /\ pos # before THEN open ELSE close)),
   sides |-> backtest.sides + Size(pos - before)]

\* The gate's history has no missing values.
Recorded_Always(c) == Append(past, c)
Recorded(c) == IF c = NaN THEN past ELSE Append(past, c)

\* StrategyEngine.decide on the history up to a bar with this score and close;
\* the signal of mean reversion is -z.
Wanted(x, m) ==
  CASE engine = "mean_reversion" -> {Reported(m, x, allowShort)}
    [] engine = "momentum" -> {Trend(x, allowShort)}
    [] engine = "agent" -> {Clamped(p, allowShort) : p \in Targets}

Machine(x, today) ==
  IF engine = "mean_reversion" THEN Advance(machine, x, today) ELSE machine

Step(want, c, today, next) ==
  LET i == bar + 1
      t == Taken(IF Passes(c) THEN want ELSE 0, i)
      price == Fill(i, today, next)
  IN /\ bar < Last
     /\ bar' = i
     /\ close' = today
     /\ open' = next
     /\ signals' = Append(signals, c)
     /\ past' = Recorded(c)
     /\ kept' = Append(kept, Passes(c))
     /\ curve' = [gross |-> curve.gross
                             + (IF i > 1 THEN pos * (today - Base(i)) ELSE 0),
                  sides |-> curve.sides + Size(t - pos)]
     /\ trades' = IF t # pos /\ pos # 0 THEN Closed(price, i) ELSE trades
     /\ gaps' = IF t # pos THEN gaps + pos * (price - today) ELSE gaps
     /\ trade' = IF t = pos THEN trade
                 ELSE IF t = 0 THEN NoTrade
                 ELSE [qty |-> t, price |-> price, entry |-> i,
                       reversed |-> pos # 0]
     /\ fresh' = (nextOpen /\ t # pos)
     /\ pos' = t
     /\ before' = pos
     /\ backtest' = IF i > 1 THEN NetReturns(today) ELSE backtest

NextBar ==
  \E x \in Scores, today \in Prices, next \in Prices :
    /\ engine = "agent" => x = NaN
    /\ machine' = Machine(x, today)
    /\ score' = x
    /\ \E want \in Wanted(x, machine') : Step(want, Conviction(x), today, next)
    /\ UNCHANGED <<engine, allowShort, nextOpen>>

\* After the last bar an open trade is closed at the last close.
EndOfData ==
  /\ bar = Last
  /\ bar' = Last + 1
  /\ trades' = IF pos = 0 THEN trades
               ELSE [Closed(close, Last) EXCEPT !.ended = @ + Size(pos)]
  /\ trade' = NoTrade /\ pos' = 0
  /\ UNCHANGED <<engine, allowShort, nextOpen, machine, open, close, score, signals, past,
                 kept, fresh, curve, gaps, before, backtest>>

Next == NextBar \/ EndOfData

Spec == Init /\ [][Next]_vars
-----------------------------------------------------------------------------
(***************************************************************************)
(* Safety.                                                                 *)
(***************************************************************************)

\* The curve's gross is that of the closed trades and the mark of the open
\* one, but for the move between the close and the next open at which an
\* exit was filled, which only the ledger sees.
GrossMatches ==
  LET mark == IF fresh \/ bar = 0 THEN 0 ELSE pos * (close - trade.price)
  IN curve.gross + gaps = trades.gross + mark

\* Every side traded is charged once to the curve and once to the ledger,
\* except that the curve is not charged for the close at end of data.
CostsMatch == trades.sides = curve.sides - Size(pos) + trades.ended

\* The ledger and the equity curve tell the same story, in moves and in costs.
LedgerMatchesCurve == GrossMatches /\ CostsMatch

\* The loop and the backtest agree bar by bar on the same positions, except
\* that the loop charges the turnover of the last bar as well.
CurveMatchesBacktest ==
  bar <= Last =>
    /\ curve.gross = backtest.gross
    /\ curve.sides = backtest.sides + Size(pos - before)

\* No round trip of zero bars: a trade opened from flat is never closed on
\* the bar it was opened.  (Reversing a position on the last bar opens one.)
NoPhantomTrades == trades.instant = 0

\* apply_conviction reproduces the bar-by-bar gate exactly, on every series
\* with missing values anywhere, and looks at no later bar.
TwinAgrees ==
  \A t \in DOMAIN signals : kept[t] = Keeps(signals, t)

\* What the trader holds is what the strategy stands for: no short where
\* shorting is off; a mean-reversion position is one the machine is in, on a
\* bar with a score that has not reverted, within the stop of its entry bar.
\* The gate, the guard on the last bar and missing scores come between.
PositionsJustified ==
  /\ pos = -1 => allowShort
  /\ engine = "mean_reversion" /\ pos # 0 =>
       /\ score # NaN /\ pos = machine.holding
       /\ pos * score < -Exit
       /\ Stop # 0 => pos * (close - machine.price) > -Stop

\* After a stop-out there is no new trade before the score has come back
\* within Entry on some bar: a price that keeps falling is not bought again.
StopOutWaits ==
  [][machine.stopped =>
       machine'.holding = 0 /\ (~machine'.stopped => Size(score') <= Entry)]_vars
=============================================================================
