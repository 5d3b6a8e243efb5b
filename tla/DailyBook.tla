------------------------------ MODULE DailyBook ------------------------------
(***************************************************************************)
(* What the paper account promises, without orders, counters, halts or     *)
(* crashes: the account on disk changes by the trades of a whole run at a  *)
(* time, and the trades of one run taken together stay within the limits   *)
(* of the configuration, as the account stood before them.                 *)
(***************************************************************************)
EXTENDS PaperAccount

CONSTANTS
  Prices,            \* closes
  PerTradeMax,       \* what a position is bought for, and sold for at most
  TotalDeployedMax,  \* no run buys over this
  MaxNewPositions,   \* positions a run may open
  MaxOrders,         \* trades a run may make
  DailyLossLimit     \* realized loss of a day that ends its trading

VARIABLE book  \* the account on disk

Init == book = Initial

\* The day is over, and its realized P&L with it.
DayEnds ==
  /\ book.date = "today"
  /\ book' = [book EXCEPT !.date = "earlier"]

\* What a step opens and closes.
Opened == HeldSymbols(book') \ HeldSymbols(book)
Closed == HeldSymbols(book) \ HeldSymbols(book')

\* The trades of one run, of a universe whose symbols are quoted: it may buy
\* for one notional each, and sell what is worth no more than that.
WithinLimits(before, quoted, quote, bought, sold) ==
  /\ bought \cup sold \subseteq quoted
  /\ bought \cup sold # {} => before.realized > -DailyLossLimit
  /\ Cardinality(bought) <= MaxNewPositions
  /\ Cardinality(bought) + Cardinality(sold) <= MaxOrders
  /\ \A s \in sold : PositionValue(before, quote, s) <= PerTradeMax
  /\ bought # {} =>
       /\ PerTradeMax <= before.cash
       /\ ValueOf(before, quote, Valued(before, quoted)) + PerTradeMax
            <= TotalDeployedMax

Booked(before, quote, bought, sold) ==
  /\ book'.cash =
       before.cash + ValueOf(before, quote, sold)
         - Cardinality(bought) * PerTradeMax
  /\ book'.realized =
       before.realized + ValueOf(before, quote, sold)
         - Cardinality(sold) * PerTradeMax
  /\ book'.positions =
       [s \in Symbols |->
          IF s \in bought
          THEN [shares |-> PerTradeMax \div quote[s], cost |-> PerTradeMax]
          ELSE IF s \in sold THEN NoPosition ELSE before.positions[s]]

\* A run that leaves the account as it was is no step.
RunEnds ==
  /\ book' # book /\ book'.date = "today"
  /\ \E quoted \in SUBSET Symbols, quote \in [Symbols -> Prices] :
       /\ WithinLimits(RollToDay(book), quoted, quote, Opened, Closed)
       /\ Booked(RollToDay(book), quote, Opened, Closed)

Next == DayEnds \/ RunEnds

Spec == Init /\ [][Next]_book
=============================================================================
