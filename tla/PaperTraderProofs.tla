-------------------------- MODULE PaperTraderProofs --------------------------
(***************************************************************************)
(* Proofs about PaperTrader, for every number of bars, every prices,       *)
(* scores, gate, stop and engine: the ledger, the equity curve and the     *)
(* backtest agree, what is held is what the strategy stands for, the       *)
(* vectorised gate is the bar-by-bar one, and every variable keeps its     *)
(* type.                                                                   *)
(***************************************************************************)
EXTENDS PaperTrader, TLAPS, FiniteSetTheorems

TraderTypes ==
  /\ engine \in {"mean_reversion", "momentum", "agent"}
  /\ allowShort \in BOOLEAN /\ nextOpen \in BOOLEAN
  /\ machine \in [holding : Targets, price : Int, stopped : BOOLEAN]
  /\ score \in Int \cup {NaN}
  /\ bar \in 0..Last + 1
  /\ open \in Int /\ close \in Int
  /\ pos \in Targets
  /\ fresh \in BOOLEAN
  /\ trade \in [qty : Int, price : Int, entry : Int, reversed : BOOLEAN]
  /\ trades \in [gross : Int, sides : Int, ended : Int, instant : Int]
  /\ curve \in [gross : Int, sides : Int]
  /\ gaps \in Int
  /\ before \in Targets
  /\ backtest \in [gross : Int, sides : Int]

\* The open trade is the position; no trade is open before the first bar.
TradeIsPosition == trade.qty = pos /\ (bar = 0 => pos = 0)

\* A position taken on the last bar done waits for its fill at the next open,
\* or was filled at the last close.
FreshFill ==
  fresh /\ pos # 0 => trade.price = IF bar < Last THEN open ELSE close

\* A trade was opened on a bar that is done, and on the last one only by
\* reversing another.
EntryInPast ==
  pos # 0 => trade.entry <= bar /\ (trade.entry = Last => trade.reversed)

\* The loop marks a position as fresh on the bars on which the backtest sees
\* the position change.
FreshIsTurnover ==
  bar <= Last =>
    /\ fresh = (nextOpen /\ pos # before)
    /\ bar = 0 => pos = before

LedgerInv ==
  /\ TraderTypes
  /\ TradeIsPosition
  /\ FreshFill
  /\ EntryInPast
  /\ GrossMatches
  /\ CostsMatch
  /\ NoPhantomTrades
  /\ FreshIsTurnover
  /\ CurveMatchesBacktest

(***************************************************************************)
(* What one bar does to the books when the target is t, however it came    *)
(* about.                                                                  *)
(***************************************************************************)
Books(t, today, next) ==
  LET price == Fill(bar + 1, today, next)
  IN /\ bar' = bar + 1 /\ close' = today /\ open' = next
     /\ curve' = [gross |-> curve.gross
                             + (IF bar + 1 > 1 THEN pos * (today - Base(bar + 1)) ELSE 0),
                  sides |-> curve.sides + Size(t - pos)]
     /\ trades' = IF t # pos /\ pos # 0 THEN Closed(price, bar + 1) ELSE trades
     /\ gaps' = IF t # pos THEN gaps + pos * (price - today) ELSE gaps
     /\ trade' = IF t = pos THEN trade
                 ELSE IF t = 0 THEN NoTrade
                 ELSE [qty |-> t, price |-> price, entry |-> bar + 1,
                       reversed |-> pos # 0]
     /\ fresh' = (nextOpen /\ t # pos)
     /\ pos' = t
     /\ before' = pos
     /\ backtest' = IF bar + 1 > 1 THEN NetReturns(today) ELSE backtest

-----------------------------------------------------------------------------
LEMMA TargetFacts ==
  /\ Targets = {-1, 0, 1}
  /\ \A p \in Targets : Clamped(p, allowShort) \in Targets
BY DEF Targets, Clamped

\* The machine keeps its type, and a trade it is in after a bar with a score
\* is justified by that bar.
LEMMA AdvanceFacts ==
  ASSUME NEW m \in [holding : Targets, price : Int, stopped : BOOLEAN],
         NEW x \in Int \cup {NaN}, NEW px \in Int
  PROVE  LET n == Advance(m, x, px)
         IN /\ n \in [holding : Targets, price : Int, stopped : BOOLEAN]
            /\ x # NaN /\ n.holding # 0 =>
                 /\ n.holding * x < -Exit
                 /\ Stop # 0 => n.holding * (px - n.price) > -Stop
            /\ m.stopped /\ m.holding = 0 =>
                 n.holding = 0 /\ (~n.stopped => Size(x) <= Entry)
            /\ (m.stopped => m.holding = 0) => (n.stopped => n.holding = 0)
<1> DEFINE n == Advance(m, x, px)
<1>1. CASE x = NaN
  <2>1. n = m
    BY <1>1 DEF Advance
  <2>2. m.stopped /\ m.holding = 0 => n.stopped /\ n.holding = 0
    BY <2>1
  <2> QED
    BY <1>1, <2>1, <2>2
<1>2. CASE x # NaN /\ m.holding = 0
  <2>1. n = FromFlat(m, x, px) /\ x \in Int
    BY <1>2 DEF Advance
  <2>2. Side(x) \in Targets /\ Latched(m, x) \in BOOLEAN
    BY TargetFacts DEF Side, Latched
  <2>3. n \in [holding : Targets, price : Int, stopped : BOOLEAN]
    BY <2>1, <2>2, TargetFacts DEF FromFlat
  <2>4. ASSUME n.holding # 0
        PROVE  n.holding * x < -Exit /\ (Stop # 0 => n.holding * (px - n.price) > -Stop)
    <3>1. n.price = px /\ n.holding = Side(x)
      BY <2>1, <2>4, <1>2 DEF FromFlat
    <3>2. (n.holding = 1 /\ x < -Entry) \/ (n.holding = -1 /\ x > Entry)
      BY <2>4, <3>1 DEF Side
    <3>3. n.holding * x < -Exit
      BY <3>2, <2>1, ThresholdAssumption
    <3>4. n.holding * (px - n.price) = 0
      BY <3>1, <3>2
    <3> QED
      BY <3>3, <3>4, StopAssumption
  <2>5. ASSUME m.stopped
        PROVE  n.holding = 0 /\ (~n.stopped => Size(x) <= Entry)
    <3>1. Size(x) \in Int
      BY <2>1 DEF Size
    <3>2. CASE Size(x) > Entry
      BY <2>1, <2>5, <3>2 DEF FromFlat, Latched
    <3>3. CASE ~(Size(x) > Entry)
      <4>1. Side(x) = 0
        BY <2>1, <3>3, ThresholdAssumption DEF Size, Side
      <4>2. Size(x) <= Entry
        BY <3>1, <3>3, ThresholdAssumption
      <4> QED
        BY <2>1, <4>1, <4>2 DEF FromFlat
    <3> QED
      BY <3>2, <3>3
  <2>6. n.stopped => n.holding = 0
    BY <2>1 DEF FromFlat
  <2> QED
    BY <2>3, <2>4, <2>5, <2>6
<1>3. CASE x # NaN /\ m.holding # 0
  <2>1. CASE StopHit(m, px)
    <3>1. n = [Flat EXCEPT !.stopped = TRUE]
      BY <1>3, <2>1 DEF Advance
    <3>2. n = [holding |-> 0, price |-> 0, stopped |-> TRUE]
      BY <3>1 DEF Flat
    <3> QED
      BY <1>3, <3>2 DEF Targets
  <2>2. CASE ~StopHit(m, px) /\ Reverted(m, x)
    <3>1. n = Flat
      BY <1>3, <2>2 DEF Advance
    <3> QED
      BY <1>3, <3>1 DEF Flat, Targets
  <2>3. CASE ~StopHit(m, px) /\ ~Reverted(m, x)
    <3>1. n = m
      BY <1>3, <2>3 DEF Advance
    <3>2. x \in Int /\ m.holding \in {-1, 1} /\ m.price \in Int
      BY <1>3 DEF Targets
    <3>3. m.holding * x < -Exit
      BY <2>3, <3>2, ThresholdAssumption DEF Reverted
    <3>4. Stop # 0 => m.holding * (px - m.price) > -Stop
      <4>1. m.holding * (px - m.price) \in Int
        BY <3>2
      <4> QED
        BY <2>3, <4>1, StopAssumption DEF StopHit
    <3> QED
      BY <1>3, <3>1, <3>3, <3>4
  <2> QED
    BY <2>1, <2>2, <2>3
<1> QED
  BY <1>1, <1>2, <1>3

\* Every bar books some target: the wanted one, none, or, on the last bar,
\* the position there was.
LEMMA NextBarBooks ==
  ASSUME TraderTypes, NextBar
  PROVE  \E t \in Targets, today \in Int, next \in Int, x \in Int \cup {NaN} :
           /\ bar < Last
           /\ Books(t, today, next)
           /\ t # 0 /\ pos = 0 => bar + 1 # Last
           /\ t # 0 => t \in Wanted(x, machine')
           /\ machine' = Machine(x, today) /\ score' = x
           /\ UNCHANGED <<engine, allowShort, nextOpen>>
<1>1. PICK x \in Scores, today \in Prices, next \in Prices :
           /\ machine' = Machine(x, today) /\ score' = x
           /\ \E want \in Wanted(x, machine') : Step(want, Conviction(x), today, next)
           /\ UNCHANGED <<engine, allowShort, nextOpen>>
  BY DEF NextBar
<1>2. today \in Int /\ next \in Int /\ x \in Int \cup {NaN}
  BY PricesAssumption, ScoresAssumption
<1>3. PICK want \in Wanted(x, machine') : Step(want, Conviction(x), today, next)
  BY <1>1
<1>4. machine'.holding \in Targets
  BY <1>1, <1>2, AdvanceFacts DEF TraderTypes, Machine
<1>5. want \in Targets
  BY <1>3, <1>4, TargetFacts DEF Wanted, Reported, Trend, TraderTypes, Targets
<1> DEFINE gated == IF Passes(Conviction(x)) THEN want ELSE 0
           t == Taken(gated, bar + 1)
<1>6. gated \in Targets /\ (gated # 0 => gated = want)
  BY <1>5, TargetFacts
<1>7. bar < Last /\ Books(t, today, next)
  BY <1>3 DEF Step, Books
<1> HIDE DEF gated
<1>8. /\ t \in Targets
      /\ t # 0 /\ pos = 0 => bar + 1 # Last
      /\ t # 0 => t = want
  BY <1>6, TargetFacts DEF Taken, TraderTypes
<1> HIDE DEF t
<1>9. t # 0 => t \in Wanted(x, machine')
  BY <1>3, <1>8
<1> QED
  BY <1>1, <1>2, <1>7, <1>8, <1>9

LEMMA LedgerInit == Init => LedgerInv
<1> SUFFICES ASSUME Init PROVE LedgerInv
  OBVIOUS
<1>1. TraderTypes
  <2>1. machine \in [holding : Targets, price : Int, stopped : BOOLEAN]
    BY TargetFacts DEF Init, Flat
  <2>2. /\ trade \in [qty : Int, price : Int, entry : Int, reversed : BOOLEAN]
        /\ trades \in [gross : Int, sides : Int, ended : Int, instant : Int]
        /\ curve \in [gross : Int, sides : Int] /\ gaps \in Int
    BY DEF Init, NoTrade
  <2>3. /\ engine \in {"mean_reversion", "momentum", "agent"}
        /\ allowShort \in BOOLEAN /\ nextOpen \in BOOLEAN
    BY EnginesAssumption, FillAssumption DEF Init
  <2>4. bar \in 0..Last + 1 /\ pos \in Targets
    BY BarsAssumption, TargetFacts DEF Init
  <2>6. before \in Targets /\ backtest \in [gross : Int, sides : Int]
    BY TargetFacts DEF Init
  <2>5. score \in Int \cup {NaN} /\ open \in Int /\ close \in Int /\ fresh \in BOOLEAN
    BY PricesAssumption DEF Init
  <2> QED
    BY <2>1, <2>2, <2>3, <2>4, <2>5, <2>6 DEF TraderTypes
<1>2. TradeIsPosition /\ FreshFill /\ EntryInPast
  BY DEF Init, TradeIsPosition, FreshFill, EntryInPast, NoTrade
<1>3. GrossMatches /\ CostsMatch /\ NoPhantomTrades
  BY DEF Init, GrossMatches, CostsMatch, NoPhantomTrades, Size
<1>4. FreshIsTurnover /\ CurveMatchesBacktest
  <2>1. pos = 0 /\ before = 0 /\ fresh = FALSE
    BY DEF Init
  <2>2. curve.gross = backtest.gross /\ curve.sides = 0 /\ backtest.sides = 0
    BY DEF Init
  <2>3. Size(pos - before) = 0
    BY <2>1 DEF Size
  <2>4. FreshIsTurnover
    BY <2>1, Zenon DEF FreshIsTurnover
  <2> QED
    BY <2>2, <2>3, <2>4 DEF CurveMatchesBacktest
<1> QED
  BY <1>1, <1>2, <1>3, <1>4 DEF LedgerInv

\* The books of one bar keep the ledger.
LEMMA BooksKeepLedger ==
  ASSUME LedgerInv, bar < Last,
         NEW t \in Targets, NEW today \in Int, NEW next \in Int,
         Books(t, today, next), t # 0 /\ pos = 0 => bar + 1 # Last,
         UNCHANGED <<engine, allowShort, nextOpen>>,
         machine' \in [holding : Targets, price : Int, stopped : BOOLEAN],
         score' \in Int \cup {NaN}
  PROVE  LedgerInv'
<1> DEFINE price == Fill(bar + 1, today, next)
           moved == IF bar + 1 > 1 THEN pos * (today - Base(bar + 1)) ELSE 0
           closed == trade.qty * (price - trade.price)
<1> USE TargetFacts, BarsAssumption
<1>1. TraderTypes /\ bar \in Nat /\ bar + 1 <= Last /\ pos \in {-1, 0, 1}
      /\ t \in {-1, 0, 1} /\ trade.qty = pos
  BY DEF LedgerInv, TraderTypes, TradeIsPosition
<1>2. price \in Int /\ Base(bar + 1) \in Int
      /\ trade.price \in Int /\ trade.entry \in Int
  BY <1>1 DEF Fill, Base, TraderTypes
<1>3. moved \in Int /\ closed \in Int /\ pos * (price - today) \in Int
      /\ Size(t - pos) \in Int /\ Size(pos) \in Int
  BY <1>1, <1>2 DEF Size
<1>4. /\ bar' = bar + 1 /\ close' = today /\ open' = next /\ pos' = t
      /\ fresh' = (nextOpen /\ t # pos)
      /\ curve' = [gross |-> curve.gross + moved, sides |-> curve.sides + Size(t - pos)]
      /\ gaps' = IF t # pos THEN gaps + pos * (price - today) ELSE gaps
      /\ trade' = IF t = pos THEN trade
                  ELSE IF t = 0 THEN NoTrade
                  ELSE [qty |-> t, price |-> price, entry |-> bar + 1,
                        reversed |-> pos # 0]
  BY DEF Books
<1>5. trades' = IF t # pos /\ pos # 0
                THEN [gross |-> trades.gross + closed, sides |-> trades.sides + 2 * Size(pos),
                      ended |-> trades.ended, instant |-> trades.instant]
                ELSE trades
  <2>1. trades' = IF t # pos /\ pos # 0 THEN Closed(price, bar + 1) ELSE trades
    BY DEF Books
  <2>2. pos # 0 => trade.entry # bar + 1
    BY <1>1, <1>2 DEF LedgerInv, EntryInPast
  <2>3. pos # 0 =>
          Closed(price, bar + 1) =
            [gross |-> trades.gross + closed, sides |-> trades.sides + 2 * Size(pos),
             ended |-> trades.ended, instant |-> trades.instant]
    <3> SUFFICES ASSUME pos # 0
                 PROVE  Closed(price, bar + 1) =
                          [gross |-> trades.gross + closed,
                           sides |-> trades.sides + 2 * Size(pos),
                           ended |-> trades.ended, instant |-> trades.instant]
      OBVIOUS
    <3>1. Closed(price, bar + 1) =
            [trades EXCEPT !.gross = @ + closed, !.sides = @ + 2 * Size(pos),
                           !.instant = @ + 0]
      BY <1>1, <2>2 DEF Closed
    <3>2. trades \in [gross : Int, sides : Int, ended : Int, instant : Int]
      BY <1>1 DEF TraderTypes
    <3>3. trades = [gross |-> trades.gross, sides |-> trades.sides,
                    ended |-> trades.ended, instant |-> trades.instant]
      BY <3>2
    <3>4. trades.instant + 0 = trades.instant
      BY <3>2
    <3> HIDE DEF closed
    <3> QED
      BY <3>1, <3>3, <3>4
  <2> QED
    BY <2>1, <2>3
<1> HIDE DEF price, moved, closed
<1>13. before' = pos /\ before' \in Targets /\ backtest' \in [gross : Int, sides : Int]
  <2>1. /\ before' = pos
        /\ backtest' = IF bar + 1 > 1 THEN NetReturns(today) ELSE backtest
    BY DEF Books
  <2>2. /\ open \in Int /\ close \in Int /\ before \in {-1, 0, 1}
        /\ backtest \in [gross : Int, sides : Int]
    BY <1>1 DEF TraderTypes
  <2>3. NetReturns(today) \in [gross : Int, sides : Int]
    BY <1>1, <2>2 DEF NetReturns, Size
  <2> QED
    BY <1>1, <2>1, <2>2, <2>3
<1>6. TraderTypes'
  <2>1. trade' \in [qty : Int, price : Int, entry : Int, reversed : BOOLEAN]
    BY <1>1, <1>2, <1>4 DEF TraderTypes, NoTrade
  <2>2. trades' \in [gross : Int, sides : Int, ended : Int, instant : Int]
    BY <1>1, <1>3, <1>5 DEF TraderTypes
  <2>3. curve' \in [gross : Int, sides : Int] /\ gaps' \in Int
    BY <1>1, <1>3, <1>4 DEF TraderTypes
  <2>4. bar' \in 0..Last + 1 /\ fresh' \in BOOLEAN /\ pos' \in Targets
    BY <1>1, <1>4 DEF TraderTypes
  <2>5. UNCHANGED <<engine, allowShort, nextOpen>> /\ open' \in Int /\ close' \in Int
    BY <1>4
  <2> QED
    BY <1>1, <1>13, <2>1, <2>2, <2>3, <2>4, <2>5 DEF TraderTypes
<1>7. TradeIsPosition'
  BY <1>1, <1>4 DEF TradeIsPosition, NoTrade
<1>8. FreshFill'
  <2> SUFFICES ASSUME fresh', t # 0
               PROVE  trade'.price = IF bar + 1 < Last THEN next ELSE today
    BY <1>4 DEF FreshFill
  <2>1. nextOpen /\ t # pos
    BY <1>4
  <2>2. trade'.price = price
    BY <1>4, <2>1
  <2> QED
    BY <1>1, <2>1, <2>2 DEF Fill, price
<1>9. EntryInPast'
  <2> SUFFICES ASSUME t # 0
               PROVE  trade'.entry <= bar + 1 /\ (trade'.entry = Last => trade'.reversed)
    BY <1>4 DEF EntryInPast
  <2>1. CASE t = pos
    <3>1. trade' = trade /\ trade.entry <= bar
      BY <2>1, <1>4 DEF LedgerInv, EntryInPast
    <3>2. trade.entry < Last
      BY <3>1, <1>1, <1>2
    <3> QED
      BY <3>1, <3>2, <1>1, <1>2
  <2>2. CASE t # pos
    <3>1. trade' = [qty |-> t, price |-> price, entry |-> bar + 1, reversed |-> pos # 0]
      BY <2>2, <1>4
    <3>2. trade'.entry = bar + 1 /\ (pos # 0 => trade'.reversed)
      BY <3>1
    <3>3. bar + 1 = Last => pos # 0
      OBVIOUS
    <3> QED
      BY <3>2, <3>3, <1>1
  <2> QED
    BY <2>1, <2>2
<1>10. CostsMatch'
  <2>1. trades.sides = curve.sides - Size(pos) + trades.ended
    BY DEF LedgerInv, CostsMatch
  <2>2. trades.sides \in Int /\ curve.sides \in Int /\ trades.ended \in Int
    BY <1>1 DEF TraderTypes
  <2>3. CASE t = pos
    BY <2>1, <2>2, <2>3, <1>1, <1>4, <1>5 DEF CostsMatch, Size
  <2>4. CASE t # pos /\ pos = 0
    BY <2>1, <2>2, <2>4, <1>1, <1>4, <1>5 DEF CostsMatch, Size
  <2>5. CASE t # pos /\ pos # 0
    BY <2>1, <2>2, <2>5, <1>1, <1>4, <1>5 DEF CostsMatch, Size
  <2> QED
    BY <2>3, <2>4, <2>5
<1>11. NoPhantomTrades'
  BY <1>5 DEF LedgerInv, NoPhantomTrades
<1>12. GrossMatches'
  <2> DEFINE mark == IF fresh \/ bar = 0 THEN 0 ELSE pos * (close - trade.price)
             mark2 == IF fresh' THEN 0 ELSE t * (today - trade'.price)
  <2>1. curve.gross + gaps = trades.gross + mark
    BY DEF LedgerInv, GrossMatches
  <2>2. /\ curve.gross \in Int /\ trades.gross \in Int /\ gaps \in Int
        /\ close \in Int /\ open \in Int
    BY <1>1 DEF TraderTypes
  <2>3. bar + 1 # 0
    BY <1>1
  <2> SUFFICES curve'.gross + gaps' = trades'.gross + mark2
    BY <2>3, <1>4 DEF GrossMatches
  \* What the position made on this bar completes its mark at today's close.
  <2>4. moved + mark = pos * (today - trade.price)
    <3>1. CASE pos = 0
      BY <3>1, <1>1, <1>2, <2>2 DEF moved, Base
    <3>2. CASE pos # 0 /\ fresh
      <4>1. trade.price = open /\ bar + 1 > 1
        BY <3>2, <1>1 DEF LedgerInv, FreshFill, TradeIsPosition
      <4> QED
        BY <3>2, <4>1, <1>1, <1>2, <2>2 DEF moved, Base
    <3>3. CASE pos # 0 /\ ~fresh
      <4>1. bar # 0 /\ bar + 1 > 1
        BY <3>3, <1>1 DEF LedgerInv, TradeIsPosition
      <4> QED
        BY <3>3, <4>1, <1>1, <1>2, <2>2 DEF moved, Base
    <3> QED
      BY <3>1, <3>2, <3>3
  <2>5. mark \in Int
    BY <1>1, <1>2, <2>2
  <2> HIDE DEF mark
  <2>6. CASE t = pos
    <3>1. mark2 = pos * (today - trade.price)
      BY <2>6, <1>4
    <3>2. curve'.gross = curve.gross + moved /\ gaps' = gaps /\ trades'.gross = trades.gross
      BY <2>6, <1>4, <1>5
    <3> QED
      BY <2>1, <2>2, <2>4, <2>5, <3>1, <3>2, <1>3
  <2>7. CASE t # pos
    <3>1. mark2 = 0
      <4>1. CASE t = 0
        <5>1. trade'.price = 0
          BY <4>1, <1>4, <2>7 DEF NoTrade
        <5> QED
          BY <5>1, <4>1
      <4>2. CASE t # 0 /\ nextOpen
        BY <4>2, <2>7, <1>4
      <4>3. CASE t # 0 /\ ~nextOpen
        <5>1. trade'.price = today
          BY <4>3, <2>7, <1>4 DEF price, Fill
        <5> QED
          BY <5>1, <1>1
      <4> QED
        BY <4>1, <4>2, <4>3, <1>1 DEF TraderTypes
    <3>2. /\ curve'.gross = curve.gross + moved
          /\ gaps' = gaps + pos * (price - today)
          /\ trades'.gross = trades.gross + (IF pos # 0 THEN closed ELSE 0)
      BY <2>7, <1>3, <1>4, <1>5, <2>2
    <3>3. closed = pos * (price - trade.price)
      BY <1>1 DEF closed
    <3> DEFINE held == pos * (today - trade.price)
               gap == pos * (price - today)
               made == IF pos # 0 THEN closed ELSE 0
    <3>4. held + gap = made
      BY <3>3, <1>1, <1>2
    <3>5. held \in Int /\ gap \in Int /\ made \in Int
      BY <1>1, <1>2, <1>3
    <3>6. /\ curve'.gross = curve.gross + moved
          /\ gaps' = gaps + gap
          /\ trades'.gross = trades.gross + made
          /\ moved + mark = held
      BY <3>2, <2>4
    <3> HIDE DEF mark2, held, gap, made
    <3>7. curve.gross + moved + gaps + gap = trades.gross + made
      BY <2>1, <2>2, <2>5, <3>4, <3>5, <3>6, <1>3
    <3>8. curve'.gross + gaps' = curve.gross + moved + gaps + gap
      BY <2>2, <3>5, <3>6, <1>3
    <3>9. trades'.gross + mark2 = trades.gross + made
      BY <2>2, <3>1, <3>5, <3>6
    <3> QED
      BY <3>7, <3>8, <3>9
  <2> QED
    BY <2>6, <2>7
<1>14. FreshIsTurnover'
  BY <1>1, <1>4, <1>13 DEF FreshIsTurnover
<1>15. CurveMatchesBacktest'
  <2>1. /\ curve.gross = backtest.gross
        /\ curve.sides = backtest.sides + Size(pos - before)
        /\ fresh = (nextOpen /\ pos # before)
        /\ bar = 0 => pos = before
    BY <1>1 DEF LedgerInv, CurveMatchesBacktest, FreshIsTurnover
  <2>2. /\ curve'.gross = curve.gross + moved
        /\ curve'.sides = curve.sides + Size(t - pos)
        /\ pos' - before' = t - pos
    BY <1>4, <1>13
  <2>3. /\ curve.gross \in Int /\ curve.sides \in Int
        /\ backtest.gross \in Int /\ backtest.sides \in Int
        /\ open \in Int /\ close \in Int
    BY <1>1 DEF TraderTypes
  <2>4. CASE bar = 0
    <3>1. backtest' = backtest /\ moved = 0
      BY <2>4 DEF Books, moved
    <3>2. Size(pos - before) = 0
      BY <1>1, <2>1, <2>4 DEF Size
    <3> QED
      BY <1>3, <2>1, <2>2, <2>3, <3>1, <3>2 DEF CurveMatchesBacktest
  <2>5. CASE bar # 0
    <3>1. backtest' = NetReturns(today)
      BY <1>1, <2>5 DEF Books
    <3>2. /\ backtest'.gross = backtest.gross + pos * (today - Base(bar + 1))
          /\ backtest'.sides = backtest.sides + Size(pos - before)
      BY <2>1, <3>1 DEF NetReturns, Base
    <3>3. moved = pos * (today - Base(bar + 1))
      BY <1>1, <2>5 DEF moved
    <3>4. curve'.gross = backtest'.gross /\ curve'.sides = backtest'.sides + Size(t - pos)
      BY <1>3, <2>1, <2>2, <2>3, <3>2, <3>3
    <3> QED
      BY <2>2, <3>4 DEF CurveMatchesBacktest
  <2> QED
    BY <2>4, <2>5
<1> QED
  BY <1>6, <1>7, <1>8, <1>9, <1>10, <1>11, <1>12, <1>14, <1>15 DEF LedgerInv

LEMMA EndKeepsLedger ==
  ASSUME LedgerInv, EndOfData
  PROVE  LedgerInv'
<1> USE TargetFacts, BarsAssumption
<1> DEFINE closed == trade.qty * (close - trade.price)
<1>1. /\ bar = Last /\ bar' = Last + 1 /\ pos' = 0 /\ trade' = NoTrade
      /\ UNCHANGED <<engine, allowShort, nextOpen, machine, open, close, score,
                     fresh, curve, gaps, before, backtest>>
  BY DEF EndOfData
<1>2. /\ pos \in {-1, 0, 1} /\ trade.qty = pos /\ trade.price \in Int /\ close \in Int
      /\ trades \in [gross : Int, sides : Int, ended : Int, instant : Int]
      /\ curve.gross \in Int /\ curve.sides \in Int /\ gaps \in Int
  BY DEF LedgerInv, TraderTypes, TradeIsPosition
<1>3. closed \in Int /\ Size(pos) \in Int
  BY <1>2 DEF Size
<1>4. trades' = IF pos = 0 THEN trades
                ELSE [gross |-> trades.gross + closed, sides |-> trades.sides + 2 * Size(pos),
                      ended |-> trades.ended + Size(pos), instant |-> trades.instant]
  <2>1. trades' = IF pos = 0 THEN trades
                  ELSE [Closed(close, Last) EXCEPT !.ended = @ + Size(pos)]
    BY DEF EndOfData
  <2> SUFFICES ASSUME pos # 0
               PROVE  [Closed(close, Last) EXCEPT !.ended = @ + Size(pos)] =
                        [gross |-> trades.gross + closed,
                         sides |-> trades.sides + 2 * Size(pos),
                         ended |-> trades.ended + Size(pos), instant |-> trades.instant]
    BY <2>1
  <2>2. ~(trade.entry = Last /\ ~trade.reversed)
    BY DEF LedgerInv, EntryInPast
  <2>3. Closed(close, Last) =
          [trades EXCEPT !.gross = @ + closed, !.sides = @ + 2 * Size(pos),
                         !.instant = @ + 0]
    BY <1>2, <2>2 DEF Closed
  <2>4. trades = [gross |-> trades.gross, sides |-> trades.sides,
                  ended |-> trades.ended, instant |-> trades.instant]
    BY <1>2
  <2>5. trades.instant + 0 = trades.instant
    BY <1>2
  <2> HIDE DEF closed
  <2>6. Closed(close, Last) =
          [gross |-> trades.gross + closed, sides |-> trades.sides + 2 * Size(pos),
           ended |-> trades.ended, instant |-> trades.instant]
    BY <2>3, <2>4, <2>5
  <2> QED
    BY <2>6
<1> HIDE DEF closed
<1>5. TraderTypes'
  <2>1. trades' \in [gross : Int, sides : Int, ended : Int, instant : Int]
    BY <1>2, <1>3, <1>4
  <2>2. trade' \in [qty : Int, price : Int, entry : Int, reversed : BOOLEAN]
    BY <1>1 DEF NoTrade
  <2> QED
    BY <1>1, <2>1, <2>2 DEF LedgerInv, TraderTypes
<1>6. (TradeIsPosition /\ FreshFill /\ EntryInPast)'
  BY <1>1 DEF TradeIsPosition, FreshFill, EntryInPast, NoTrade
<1>7. CostsMatch'
  <2>1. trades.sides = curve.sides - Size(pos) + trades.ended
    BY DEF LedgerInv, CostsMatch
  <2>2. Size(pos') = 0 /\ curve' = curve
    BY <1>1 DEF Size
  <2>3. CASE pos = 0
    BY <2>1, <2>2, <2>3, <1>2, <1>4 DEF CostsMatch, Size
  <2>4. CASE pos # 0
    BY <2>1, <2>2, <2>4, <1>2, <1>3, <1>4 DEF CostsMatch
  <2> QED
    BY <2>3, <2>4
<1>8. NoPhantomTrades'
  BY <1>4 DEF LedgerInv, NoPhantomTrades
<1>9. GrossMatches'
  <2>1. curve.gross + gaps =
          trades.gross + (IF fresh \/ bar = 0 THEN 0 ELSE pos * (close - trade.price))
    BY DEF LedgerInv, GrossMatches
  <2>4. (IF fresh' \/ bar' = 0 THEN 0 ELSE pos' * (close' - trade'.price)) = 0
    <3>1. pos' = 0 /\ trade'.price = 0 /\ close' = close
      BY <1>1 DEF NoTrade
    <3>2. pos' * (close' - trade'.price) = 0
      BY <3>1, <1>2
    <3> QED
      BY <3>2
  <2>5. trades.gross \in Int
    BY <1>2
  <2> SUFFICES curve.gross + gaps = trades'.gross + 0
    BY <2>4, <1>1 DEF GrossMatches
  <2>2. CASE pos = 0
    <3>1. trades'.gross = trades.gross
      BY <2>2, <1>4
    <3>2. curve.gross + gaps = trades.gross
      BY <2>1, <2>2, <2>5, <1>2
    <3> QED
      BY <2>5, <3>1, <3>2
  <2>3. CASE pos # 0
    <3>1. fresh => trade.price = close
      BY <2>3, <1>1 DEF LedgerInv, FreshFill
    <3>2. bar # 0
      BY <1>1
    <3>3. closed = IF fresh \/ bar = 0 THEN 0 ELSE pos * (close - trade.price)
      BY <3>1, <3>2, <1>2 DEF closed
    <3>4. trades'.gross = trades.gross + closed
      BY <2>3, <1>4
    <3> QED
      BY <2>1, <2>5, <3>3, <3>4, <1>2, <1>3
  <2> QED
    BY <2>2, <2>3
<1>10. FreshIsTurnover' /\ CurveMatchesBacktest'
  BY <1>1 DEF FreshIsTurnover, CurveMatchesBacktest
<1> QED
  BY <1>5, <1>6, <1>7, <1>8, <1>9, <1>10 DEF LedgerInv

LEMMA MachineTyped ==
  ASSUME TraderTypes, NEW x \in Int \cup {NaN}, NEW today \in Int
  PROVE  Machine(x, today) \in [holding : Targets, price : Int, stopped : BOOLEAN]
BY AdvanceFacts DEF TraderTypes, Machine

LEMMA LedgerStep == LedgerInv /\ [Next]_vars => LedgerInv'
<1> SUFFICES ASSUME LedgerInv, [Next]_vars PROVE LedgerInv'
  OBVIOUS
<1>1. CASE NextBar
  <2>1. PICK t \in Targets, today \in Int, next \in Int, x \in Int \cup {NaN} :
             /\ bar < Last
             /\ Books(t, today, next)
             /\ t # 0 /\ pos = 0 => bar + 1 # Last
             /\ machine' = Machine(x, today) /\ score' = x
             /\ UNCHANGED <<engine, allowShort, nextOpen>>
    BY <1>1, NextBarBooks DEF LedgerInv
  <2>2. machine' \in [holding : Targets, price : Int, stopped : BOOLEAN]
    BY <2>1, MachineTyped DEF LedgerInv
  <2> QED
    BY <2>1, <2>2, BooksKeepLedger
<1>2. CASE EndOfData
  BY <1>2, EndKeepsLedger
<1>3. CASE UNCHANGED vars
  BY <1>3 DEF vars, LedgerInv, TraderTypes, TradeIsPosition, FreshFill, EntryInPast,
              GrossMatches, CostsMatch, NoPhantomTrades, FreshIsTurnover,
              CurveMatchesBacktest
<1> QED
  BY <1>1, <1>2, <1>3 DEF Next

LEMMA LedgerInvariant == Spec => []LedgerInv
BY LedgerInit, LedgerStep, PTL DEF Spec

\* On every history, the equity curve's gross is that of the trade ledger and
\* the mark of the open trade, up to the moves between close and fill; and
\* both are charged for the same sides.
THEOREM LedgerAgrees == Spec => []LedgerMatchesCurve
<1>1. LedgerInv => LedgerMatchesCurve
  BY DEF LedgerInv, LedgerMatchesCurve
<1> QED
  BY <1>1, LedgerInvariant, PTL

\* On every history, the loop's curve is that of the vectorised backtest on
\* the positions it held, but for the turnover of the last bar.
THEOREM BacktestAgrees == Spec => []CurveMatchesBacktest
<1>1. LedgerInv => CurveMatchesBacktest
  BY DEF LedgerInv
<1> QED
  BY <1>1, LedgerInvariant, PTL

\* On every history, no trade opened from flat is closed on the bar it was
\* opened, the last bar included.
THEOREM NoTradeIsPhantom == Spec => []NoPhantomTrades
<1>1. LedgerInv => NoPhantomTrades
  BY DEF LedgerInv
<1> QED
  BY <1>1, LedgerInvariant, PTL

-----------------------------------------------------------------------------
(***************************************************************************)
(* What is held is what the strategy stands for.                           *)
(***************************************************************************)
StoppedIsFlat == machine.stopped => machine.holding = 0

JustInv == LedgerInv /\ PositionsJustified /\ StoppedIsFlat

\* The machine after a bar, and what a stop leaves of it.
LEMMA MachineFacts ==
  ASSUME TraderTypes, StoppedIsFlat,
         NEW x \in Int \cup {NaN}, NEW today \in Int
  PROVE  LET n == Machine(x, today)
         IN /\ engine = "mean_reversion" /\ x # NaN /\ n.holding # 0 =>
                 /\ n.holding * x < -Exit
                 /\ Stop # 0 => n.holding * (today - n.price) > -Stop
            /\ machine.stopped => n.holding = 0 /\ (~n.stopped => Size(x) <= Entry)
            /\ n.stopped => n.holding = 0
<1>1. machine \in [holding : Targets, price : Int, stopped : BOOLEAN]
  BY DEF TraderTypes
<1>2. CASE engine = "mean_reversion"
  <2>1. Machine(x, today) = Advance(machine, x, today)
    BY <1>2 DEF Machine
  <2> QED
    BY <1>1, <2>1, AdvanceFacts DEF StoppedIsFlat
<1>3. CASE engine # "mean_reversion"
  <2>1. Machine(x, today) = machine
    BY <1>3 DEF Machine
  <2> QED
    BY <1>3, <2>1 DEF StoppedIsFlat
<1> QED
  BY <1>2, <1>3

\* A target other than flat is never a short where shorting is off, and the
\* mean-reversion one is what its machine holds on a bar with a score.
LEMMA WantedFacts ==
  ASSUME TraderTypes, NEW x \in Int \cup {NaN},
         NEW m \in [holding : Targets, price : Int, stopped : BOOLEAN],
         NEW t \in Wanted(x, m), t # 0
  PROVE  /\ t = -1 => allowShort
         /\ engine = "mean_reversion" => x # NaN /\ t = m.holding
<1>1. engine \in {"mean_reversion", "momentum", "agent"}
  BY DEF TraderTypes
<1>2. CASE engine = "mean_reversion"
  <2>1. t = Reported(m, x, allowShort)
    BY <1>2 DEF Wanted
  <2> QED
    BY <2>1 DEF Reported, Clamped
<1>3. CASE engine = "momentum"
  <2>1. t = Trend(x, allowShort)
    BY <1>3 DEF Wanted
  <2> QED
    BY <2>1, <1>3 DEF Trend, Clamped
<1>4. CASE engine = "agent"
  <2>1. PICK p \in Targets : t = Clamped(p, allowShort)
    BY <1>4 DEF Wanted
  <2> QED
    BY <2>1, <1>4 DEF Clamped
<1> QED
  BY <1>1, <1>2, <1>3, <1>4

LEMMA BarIsJustified ==
  ASSUME JustInv, NextBar
  PROVE  /\ PositionsJustified' /\ StoppedIsFlat'
         /\ machine.stopped =>
              machine'.holding = 0 /\ (~machine'.stopped => Size(score') <= Entry)
<1>1. TraderTypes /\ StoppedIsFlat
  BY DEF JustInv, LedgerInv
<1>2. PICK t \in Targets, today \in Int, next \in Int, x \in Int \cup {NaN} :
           /\ Books(t, today, next)
           /\ t # 0 => t \in Wanted(x, machine')
           /\ machine' = Machine(x, today) /\ score' = x
           /\ UNCHANGED <<engine, allowShort, nextOpen>>
  BY <1>1, NextBarBooks
<1>3. machine' \in [holding : Targets, price : Int, stopped : BOOLEAN]
  BY <1>1, <1>2, MachineTyped
<1>4. pos' = t /\ close' = today
  BY <1>2 DEF Books
<1>5. PositionsJustified'
  <2>1. CASE t = 0
    BY <2>1, <1>4 DEF PositionsJustified
  <2>2. CASE t # 0
    <3>1. /\ t = -1 => allowShort
          /\ engine = "mean_reversion" => x # NaN /\ t = machine'.holding
      BY <2>2, <1>1, <1>2, <1>3, WantedFacts
    <3>2. engine = "mean_reversion" =>
            /\ t * x < -Exit
            /\ Stop # 0 => t * (today - machine'.price) > -Stop
      BY <2>2, <3>1, <1>1, <1>2, MachineFacts
    <3> QED
      BY <3>1, <3>2, <1>2, <1>4 DEF PositionsJustified
  <2> QED
    BY <2>1, <2>2
<1>6. /\ StoppedIsFlat'
      /\ machine.stopped =>
           machine'.holding = 0 /\ (~machine'.stopped => Size(score') <= Entry)
  BY <1>1, <1>2, MachineFacts DEF StoppedIsFlat
<1> QED
  BY <1>5, <1>6

LEMMA JustStep == JustInv /\ [Next]_vars => JustInv'
<1> SUFFICES ASSUME JustInv, [Next]_vars PROVE JustInv'
  OBVIOUS
<1>1. LedgerInv'
  BY LedgerStep DEF JustInv
<1>2. CASE NextBar
  BY <1>1, <1>2, BarIsJustified DEF JustInv
<1>3. CASE EndOfData
  BY <1>1, <1>3 DEF EndOfData, JustInv, PositionsJustified, StoppedIsFlat
<1>4. CASE UNCHANGED vars
  BY <1>1, <1>4 DEF vars, JustInv, PositionsJustified, StoppedIsFlat
<1> QED
  BY <1>2, <1>3, <1>4 DEF Next

LEMMA JustInvariant == Spec => []JustInv
<1>1. Init => JustInv
  BY LedgerInit DEF Init, JustInv, PositionsJustified, StoppedIsFlat, Flat
<1> QED
  BY <1>1, JustStep, PTL DEF Spec

\* On every history and with every engine, a position is one the strategy
\* stands for on that very bar.
THEOREM HeldIsJustified == Spec => []PositionsJustified
<1>1. JustInv => PositionsJustified
  BY DEF JustInv
<1> QED
  BY <1>1, JustInvariant, PTL

\* On every history, a stop-out is followed by no trade before the score has
\* come back within Entry.
THEOREM StopOutIsKept == Spec => StopOutWaits
<1> DEFINE Kept == machine.stopped =>
                     machine'.holding = 0 /\ (~machine'.stopped => Size(score') <= Entry)
<1>1. JustInv /\ [Next]_vars => [Kept]_vars
  <2> SUFFICES ASSUME JustInv, Next PROVE Kept
    OBVIOUS
  <2>1. CASE NextBar
    BY <2>1, BarIsJustified
  <2>2. CASE EndOfData
    BY <2>2 DEF EndOfData, JustInv, StoppedIsFlat
  <2> QED
    BY <2>1, <2>2 DEF Next
<1> QED
  BY <1>1, JustInvariant, PTL DEF Spec, StopOutWaits

-----------------------------------------------------------------------------
(***************************************************************************)
(* The types in full, on top of those the ledger needs.                    *)
(***************************************************************************)
ExactTypes ==
  /\ engine \in Engines /\ allowShort \in Shorting /\ nextOpen \in FillModes
  /\ open \in Prices /\ close \in Prices
  /\ machine.price \in Prices \cup {0}
  /\ score \in Scores \cup {NaN}
  /\ signals \in Seq(Nat \cup {NaN}) /\ past \in Seq(Nat) /\ kept \in Seq(BOOLEAN)
  /\ Len(kept) = Len(signals)
  /\ trades.sides \in Nat /\ trades.instant \in Nat
  /\ trades.ended \in 0..1 /\ (bar <= Last => trades.ended = 0)
  /\ curve.sides \in Nat /\ backtest.sides \in Nat

LEMMA ConvictionFacts ==
  ASSUME NEW x \in Int \cup {NaN}
  PROVE  Conviction(x) \in Nat \cup {NaN} /\ (Conviction(x) # NaN => Conviction(x) \in Nat)
BY NaNAssumption DEF Conviction, Size

\* The machine remembers no price but a close it was shown.
LEMMA MachinePrice ==
  ASSUME NEW x, NEW today \in Prices, machine.price \in Prices \cup {0},
         machine \in [holding : Targets, price : Int, stopped : BOOLEAN]
  PROVE  Machine(x, today).price \in Prices \cup {0}
<1>1. Machine(x, today) = machine \/ Machine(x, today) = Advance(machine, x, today)
  BY DEF Machine
<1>2. \/ Advance(machine, x, today) \in {machine, Flat, [Flat EXCEPT !.stopped = TRUE]}
      \/ Advance(machine, x, today) = FromFlat(machine, x, today)
  <2>1. CASE x = NaN
    BY <2>1 DEF Advance
  <2>2. CASE x # NaN /\ machine.holding = 0
    BY <2>2 DEF Advance
  <2>3. CASE x # NaN /\ machine.holding # 0 /\ StopHit(machine, today)
    BY <2>3 DEF Advance
  <2>4. CASE x # NaN /\ machine.holding # 0 /\ ~StopHit(machine, today)
    BY <2>4 DEF Advance
  <2> QED
    BY <2>1, <2>2, <2>3, <2>4
<1>3. FromFlat(machine, x, today).price \in Prices \cup {0}
  BY DEF FromFlat
<1>4. Flat.price = 0 /\ [Flat EXCEPT !.stopped = TRUE].price = 0
  BY DEF Flat
<1> QED
  BY <1>1, <1>2, <1>3, <1>4

LEMMA BarKeepsExactTypes ==
  ASSUME LedgerInv, ExactTypes, NextBar
  PROVE  ExactTypes'
<1>1. PICK x \in Scores, today \in Prices, next \in Prices :
           /\ machine' = Machine(x, today) /\ score' = x
           /\ \E want \in Wanted(x, machine') : Step(want, Conviction(x), today, next)
           /\ UNCHANGED <<engine, allowShort, nextOpen>>
  BY DEF NextBar
<1>2. PICK want \in Wanted(x, machine') : Step(want, Conviction(x), today, next)
  BY <1>1
<1> DEFINE c == Conviction(x)
           i == bar + 1
           t == Taken(IF Passes(c) THEN want ELSE 0, i)
           price == Fill(i, today, next)
<1>3. /\ bar < Last /\ bar' = i /\ open' = next /\ close' = today /\ pos' = t
      /\ signals' = Append(signals, c) /\ kept' = Append(kept, Passes(c))
      /\ past' = Recorded(c)
      /\ curve'.sides = curve.sides + Size(t - pos)
      /\ trades' = IF t # pos /\ pos # 0 THEN Closed(price, i) ELSE trades
      /\ backtest' = IF i > 1 THEN NetReturns(today) ELSE backtest
  BY <1>2 DEF Step
<1>4. TraderTypes /\ trade.qty = pos /\ x \in Int \cup {NaN} /\ bar \in Nat
  BY ScoresAssumption, BarsAssumption DEF LedgerInv, TraderTypes, TradeIsPosition
<1>5. t \in Int
  <2>1. machine'.holding \in Targets
    <3>1. today \in Int
      BY PricesAssumption
    <3> QED
      BY <1>1, <1>4, <3>1, MachineTyped
  <2>2. want \in Targets
    BY <1>2, <1>4, <2>1, TargetFacts DEF Wanted, Reported, Trend, TraderTypes, Targets
  <2> QED
    BY <1>4, <2>2, TargetFacts DEF Taken, TraderTypes
<1>6. c \in Nat \cup {NaN} /\ (c # NaN => c \in Nat)
  BY <1>4, ConvictionFacts
<1> HIDE DEF c, t, price
<1>7. /\ signals' \in Seq(Nat \cup {NaN}) /\ past' \in Seq(Nat) /\ kept' \in Seq(BOOLEAN)
      /\ Len(kept') = Len(signals')
  <2>1. Passes(c) \in BOOLEAN
    BY DEF Passes
  <2>2. past' \in Seq(Nat)
    BY <1>3, <1>6 DEF Recorded, ExactTypes
  <2> HIDE DEF ExactTypes
  <2>3. signals \in Seq(Nat \cup {NaN}) /\ kept \in Seq(BOOLEAN) /\ Len(kept) = Len(signals)
    BY DEF ExactTypes
  <2> QED
    BY <1>3, <1>6, <2>1, <2>2, <2>3
<1>8. /\ trades'.sides \in Nat /\ trades'.instant \in Nat
      /\ trades'.ended = trades.ended
  <2>1. trades \in [gross : Int, sides : Int, ended : Int, instant : Int]
        /\ trades.sides \in Nat /\ trades.instant \in Nat
    BY <1>4 DEF TraderTypes, ExactTypes
  <2>2. Size(trade.qty) \in Nat
    BY <1>4, TargetFacts DEF TraderTypes, Size
  <2>3. /\ Closed(price, i).sides = trades.sides + 2 * Size(trade.qty)
        /\ Closed(price, i).ended = trades.ended
        /\ Closed(price, i).instant \in {trades.instant, trades.instant + 1}
    BY <2>1 DEF Closed
  <2> QED
    BY <1>3, <2>1, <2>2, <2>3
<1>9. curve'.sides \in Nat /\ backtest'.sides \in Nat
  <2>1. pos \in Int /\ before \in Int
    BY <1>4, TargetFacts DEF TraderTypes
  <2>2. Size(t - pos) \in Nat /\ Size(pos - before) \in Nat
    BY <1>5, <2>1 DEF Size
  <2>3. curve.sides \in Nat /\ backtest.sides \in Nat
    BY DEF ExactTypes
  <2>4. NetReturns(today).sides = backtest.sides + Size(pos - before)
    BY DEF NetReturns
  <2> QED
    BY <1>3, <2>2, <2>3, <2>4
<1>10. machine'.price \in Prices \cup {0}
  BY <1>1, <1>4, MachinePrice DEF TraderTypes, ExactTypes
<1>11. bar <= Last
  BY <1>3, <1>4, BarsAssumption
<1>12. trades'.ended \in 0..1 /\ trades'.ended = 0
  BY <1>8, <1>11 DEF ExactTypes
<1> QED
  BY <1>1, <1>3, <1>7, <1>8, <1>9, <1>10, <1>12 DEF ExactTypes

LEMMA EndKeepsExactTypes ==
  ASSUME LedgerInv, ExactTypes, EndOfData
  PROVE  ExactTypes'
<1>1. /\ bar = Last /\ bar' = Last + 1
      /\ trades' = IF pos = 0 THEN trades
                   ELSE [Closed(close, Last) EXCEPT !.ended = @ + Size(pos)]
      /\ UNCHANGED <<engine, allowShort, nextOpen, machine, open, close, score, signals,
                     past, kept, curve, backtest>>
  BY DEF EndOfData
<1>2. /\ trades \in [gross : Int, sides : Int, ended : Int, instant : Int]
      /\ trades.sides \in Nat /\ trades.instant \in Nat /\ trades.ended = 0
      /\ trade.qty = pos /\ pos \in {-1, 0, 1}
  BY <1>1, TargetFacts, BarsAssumption
     DEF LedgerInv, TraderTypes, TradeIsPosition, ExactTypes
<1>3. Size(pos) \in 0..1
  BY <1>2 DEF Size
<1> DEFINE closed == Closed(close, Last)
<1>4. /\ closed \in [gross : Int, sides : Int, ended : Int, instant : Int]
      /\ closed.sides = trades.sides + 2 * Size(pos)
      /\ closed.ended = 0
      /\ closed.instant \in {trades.instant, trades.instant + 1}
  <2>1. trade.price \in Int /\ close \in Int
    BY DEF LedgerInv, TraderTypes
  <2> DEFINE move == trade.qty * (close - trade.price)
             trip == IF trade.entry = Last /\ ~trade.reversed THEN 1 ELSE 0
  <2>2. move \in Int /\ trip \in {0, 1}
    BY <1>2, <2>1
  <2>3. closed = [trades EXCEPT !.gross = @ + move, !.sides = @ + 2 * Size(pos),
                                !.instant = @ + trip]
    BY <1>2 DEF Closed
  <2> HIDE DEF closed, move, trip
  <2>4. trades = [gross |-> trades.gross, sides |-> trades.sides,
                  ended |-> trades.ended, instant |-> trades.instant]
    BY <1>2
  <2>5. closed = [gross |-> trades.gross + move, sides |-> trades.sides + 2 * Size(pos),
                  ended |-> trades.ended, instant |-> trades.instant + trip]
    BY <2>3, <2>4
  <2>6. /\ trades.gross + move \in Int /\ trades.sides + 2 * Size(pos) \in Int
        /\ trades.instant + trip \in {trades.instant, trades.instant + 1}
        /\ trades.instant + trip \in Int
    BY <1>2, <1>3, <2>2
  <2> QED
    BY <1>2, <2>5, <2>6
<1> HIDE DEF closed
<1>5. pos # 0 => /\ trades'.sides = closed.sides /\ trades'.instant = closed.instant
                 /\ trades'.ended = Size(pos)
  <2>1. pos # 0 => trades' = [closed EXCEPT !.ended = @ + Size(pos)]
    BY <1>1 DEF closed
  <2> QED
    BY <1>3, <1>4, <2>1
<1>6. trades'.sides \in Nat /\ trades'.instant \in Nat /\ trades'.ended \in 0..1
  <2>1. CASE pos = 0
    BY <1>1, <1>2, <2>1
  <2>2. CASE pos # 0
    BY <1>2, <1>3, <1>4, <1>5, <2>2
  <2> QED
    BY <2>1, <2>2
<1>7. ~(bar' <= Last)
  BY <1>1, BarsAssumption
<1> QED
  BY <1>1, <1>6, <1>7 DEF ExactTypes

LEMMA ExactInit == Init => ExactTypes
<1> SUFFICES ASSUME Init PROVE ExactTypes
  OBVIOUS
<1>1. /\ signals = <<>> /\ past = <<>> /\ kept = <<>> /\ machine = Flat /\ bar = 0
      /\ trades = [gross |-> 0, sides |-> 0, ended |-> 0, instant |-> 0]
      /\ curve = [gross |-> 0, sides |-> 0] /\ backtest = [gross |-> 0, sides |-> 0]
  BY DEF Init
<1>2. /\ engine \in Engines /\ allowShort \in Shorting /\ nextOpen \in FillModes
      /\ open \in Prices /\ close \in Prices /\ score = NaN
  BY DEF Init
<1>3. machine.price = 0
  BY <1>1 DEF Flat
<1> QED
  BY <1>1, <1>2, <1>3 DEF ExactTypes

\* On every history every variable keeps its type: the gate's history has no
\* missing values, and at most one trade is closed at end of data.
THEOREM TypeCorrect == Spec => []TypeOK
<1>1. LedgerInv /\ ExactTypes /\ [Next]_vars => ExactTypes'
  <2> SUFFICES ASSUME LedgerInv, ExactTypes, [Next]_vars PROVE ExactTypes'
    OBVIOUS
  <2>1. CASE UNCHANGED vars
    BY <2>1 DEF vars, ExactTypes
  <2> QED
    BY <2>1, BarKeepsExactTypes, EndKeepsExactTypes DEF Next
<1>2. LedgerInv /\ ExactTypes => TypeOK
  <2> SUFFICES ASSUME LedgerInv, ExactTypes PROVE TypeOK
    OBVIOUS
  <2>1. TraderTypes /\ trade.qty = pos
    BY DEF LedgerInv, TradeIsPosition
  <2>2. machine \in [holding : Targets, price : Prices \cup {0}, stopped : BOOLEAN]
    BY <2>1 DEF TraderTypes, ExactTypes
  <2>3. /\ trades \in [gross : Int, sides : Nat, ended : 0..1, instant : Nat]
        /\ curve \in [gross : Int, sides : Nat]
        /\ backtest \in [gross : Int, sides : Nat]
    BY <2>1 DEF TraderTypes, ExactTypes
  <2>4. /\ \A i \in DOMAIN signals : signals[i] \in Nat \cup {NaN}
        /\ \A i \in DOMAIN past : past[i] \in Nat
    <3>1. signals \in Seq(Nat \cup {NaN}) /\ past \in Seq(Nat)
      BY DEF ExactTypes
    <3> QED
      BY <3>1
  <2> QED
    BY <2>1, <2>2, <2>3, <2>4 DEF TypeOK, TraderTypes, ExactTypes
<1> QED
  BY <1>1, <1>2, LedgerInvariant, ExactInit, PTL DEF Spec

-----------------------------------------------------------------------------
(***************************************************************************)
(* The gate and its vectorised twin.  The gate's history holds the valid   *)
(* convictions of the series in order: the one at place i is the i's rank  *)
(* among them.  So the window of the twin is the tail of the history.      *)
(***************************************************************************)
Convictions == Nat \cup {NaN}

Rank(series, i) == Cardinality({j \in Valid(series) : j <= i})

Recalls(past1, series) ==
  /\ Cardinality(Valid(series)) = Len(past1)
  /\ \A i \in Valid(series) :
       Rank(series, i) \in 1..Len(past1) /\ past1[Rank(series, i)] = series[i]
  /\ \A r \in 1..Len(past1) : \E i \in Valid(series) : Rank(series, i) = r

\* The twin finds the places of its window.
Places(series) ==
  \A t \in DOMAIN series :
    Cardinality(PriorValid(series, t)) >= Window =>
      \A k \in 1..Window : Place(series, t, k) \in PriorValid(series, t)

TwinInv ==
  /\ LedgerInv /\ ExactTypes
  /\ Recalls(past, signals)
  /\ Places(signals)
  /\ TwinAgrees

LEMMA ValidFacts ==
  ASSUME NEW s \in Seq(Convictions)
  PROVE  /\ Valid(s) \subseteq 1..Len(s)
         /\ \A i \in Valid(s) : s[i] \in Nat
         /\ \A T \in SUBSET Valid(s) : IsFiniteSet(T) /\ Cardinality(T) \in Nat
<1>1. Valid(s) \subseteq 1..Len(s) /\ \A i \in Valid(s) : s[i] \in Nat
  BY DEF Valid, Convictions
<1>2. IsFiniteSet(1..Len(s))
  BY FS_Interval
<1>3. \A T \in SUBSET (1..Len(s)) : IsFiniteSet(T)
  BY <1>2, FS_Subset
<1> QED
  BY <1>1, <1>3, FS_CardinalityType

\* What a new conviction adds to the valid ones.
LEMMA ValidAppend ==
  ASSUME NEW s \in Seq(Convictions), NEW c \in Convictions
  PROVE  LET u == Append(s, c)
         IN /\ u \in Seq(Convictions) /\ Len(u) = Len(s) + 1
            /\ \A i \in 1..Len(s) : u[i] = s[i]
            /\ u[Len(s) + 1] = c
            /\ Valid(u) = IF c = NaN THEN Valid(s) ELSE Valid(s) \cup {Len(s) + 1}
<1> DEFINE u == Append(s, c)
<1>1. /\ u \in Seq(Convictions) /\ Len(u) = Len(s) + 1 /\ DOMAIN u = 1..(Len(s) + 1)
      /\ DOMAIN s = 1..Len(s) /\ Len(s) \in Nat
      /\ \A i \in 1..Len(s) : u[i] = s[i]
      /\ u[Len(s) + 1] = c
  OBVIOUS
<1> HIDE DEF u
<1>2. Valid(u) = IF c = NaN THEN Valid(s) ELSE Valid(s) \cup {Len(s) + 1}
  BY <1>1 DEF Valid
<1> QED
  BY <1>1, <1>2 DEF u

LEMMA RecallsAppend ==
  ASSUME NEW s \in Seq(Convictions), NEW h \in Seq(Nat), NEW c \in Convictions,
         Recalls(h, s)
  PROVE  Recalls(IF c = NaN THEN h ELSE Append(h, c), Append(s, c))
<1> DEFINE u == Append(s, c)
           n == Len(s) + 1
<1>1. /\ u \in Seq(Convictions)
      /\ \A i \in 1..Len(s) : u[i] = s[i]
      /\ u[n] = c
      /\ Valid(u) = IF c = NaN THEN Valid(s) ELSE Valid(s) \cup {n}
  BY ValidAppend
<1>2. Valid(s) \subseteq 1..Len(s) /\ Len(s) \in Nat /\ Len(h) \in Nat
  BY ValidFacts
<1> HIDE DEF u
<1>3. CASE c = NaN
  <2>1. Valid(u) = Valid(s)
    BY <1>1, <1>3
  <2>2. \A i \in Valid(s) : Rank(u, i) = Rank(s, i) /\ u[i] = s[i]
    BY <1>1, <1>2, <2>1 DEF Rank
  <2>3. Recalls(h, u)
    BY <2>1, <2>2 DEF Recalls
  <2> QED
    BY <1>3, <2>3 DEF u
<1>4. CASE c # NaN
  <2> DEFINE g == Append(h, c)
  <2>1. Valid(u) = Valid(s) \cup {n} /\ n \notin Valid(s) /\ c \in Nat
    BY <1>1, <1>2, <1>4 DEF Convictions
  <2>2. Len(g) = Len(h) + 1 /\ g[Len(h) + 1] = c /\ \A r \in 1..Len(h) : g[r] = h[r]
    BY <1>2, <2>1
  <2> HIDE DEF g
  <2>3. Cardinality(Valid(u)) = Len(g)
    <3>1. IsFiniteSet(Valid(s)) /\ Cardinality(Valid(s)) = Len(h)
      BY ValidFacts DEF Recalls
    <3> QED
      BY <2>1, <2>2, <3>1, FS_AddElement
  <2>4. ASSUME NEW i \in Valid(s) PROVE Rank(u, i) = Rank(s, i) /\ u[i] = s[i]
    <3>1. i \in 1..Len(s) /\ i < n
      BY <1>2
    <3>2. {j \in Valid(u) : j <= i} = {j \in Valid(s) : j <= i}
      BY <1>2, <2>1, <3>1
    <3> QED
      BY <1>1, <3>1, <3>2 DEF Rank
  <2>5. Rank(u, n) = Len(h) + 1
    <3>1. {j \in Valid(u) : j <= n} = Valid(u)
      BY <1>2, <2>1
    <3> QED
      BY <2>2, <2>3, <3>1 DEF Rank
  <2>6. ASSUME NEW i \in Valid(u)
        PROVE  Rank(u, i) \in 1..Len(g) /\ g[Rank(u, i)] = u[i]
    <3>1. CASE i \in Valid(s)
      <4>1. Rank(s, i) \in 1..Len(h) /\ h[Rank(s, i)] = s[i]
        BY <3>1 DEF Recalls
      <4> QED
        BY <1>2, <2>2, <2>4, <3>1, <4>1
    <3>2. CASE i = n
      BY <1>1, <1>2, <2>2, <2>5, <3>2
    <3> QED
      BY <2>1, <3>1, <3>2
  <2>7. ASSUME NEW r \in 1..Len(g)
        PROVE  \E i \in Valid(u) : Rank(u, i) = r
    <3>1. CASE r = Len(h) + 1
      BY <2>1, <2>5, <3>1
    <3>2. CASE r # Len(h) + 1
      <4>1. r \in 1..Len(h)
        BY <1>2, <2>2, <3>2
      <4>2. PICK i \in Valid(s) : Rank(s, i) = r
        BY <4>1 DEF Recalls
      <4> QED
        BY <2>1, <2>4, <4>2
    <3> QED
      BY <3>1, <3>2
  <2>8. Recalls(g, u)
    BY <2>3, <2>6, <2>7 DEF Recalls
  <2> QED
    BY <1>4, <2>8 DEF u, g
<1> QED
  BY <1>3, <1>4

\* On the newest bar the twin's window is the tail of the gate's history.
LEMMA NewestWindow ==
  ASSUME NEW s \in Seq(Convictions), NEW h \in Seq(Nat), NEW c \in Convictions,
         Recalls(h, s)
  PROVE  LET u == Append(s, c)
             t == Len(s) + 1
         IN /\ PriorValid(u, t) = Valid(s)
            /\ Len(h) >= Window =>
                 \A k \in 1..Window :
                   /\ Place(u, t, k) \in Valid(s)
                   /\ u[Place(u, t, k)] = h[Len(h) - Window + k]
<1> DEFINE u == Append(s, c)
           t == Len(s) + 1
<1>1. /\ \A i \in 1..Len(s) : u[i] = s[i]
      /\ Valid(u) = IF c = NaN THEN Valid(s) ELSE Valid(s) \cup {t}
  BY ValidAppend
<1>2. /\ Valid(s) \subseteq 1..Len(s) /\ Len(s) \in Nat /\ Len(h) \in Nat /\ Window \in Nat
      /\ IsFiniteSet(Valid(s)) /\ Cardinality(Valid(s)) = Len(h)
  BY ValidFacts, GateAssumption DEF Recalls
<1> HIDE DEF u
<1>3. PriorValid(u, t) = Valid(s)
  BY <1>1, <1>2 DEF PriorValid
<1>4. ASSUME NEW i \in Valid(s)
      PROVE  Cardinality({j \in Valid(s) : j > i}) = Len(h) - Rank(s, i)
  <2>1. {j \in Valid(s) : j > i} = Valid(s) \ {j \in Valid(s) : j <= i}
    BY <1>2
  <2>2. Valid(s) \cap {j \in Valid(s) : j <= i} = {j \in Valid(s) : j <= i}
    OBVIOUS
  <2> QED
    BY <1>2, <2>1, <2>2, FS_Difference DEF Rank
<1>5. ASSUME Len(h) >= Window, NEW k \in 1..Window
      PROVE  /\ Place(u, t, k) \in Valid(s)
             /\ u[Place(u, t, k)] = h[Len(h) - Window + k]
  <2> DEFINE r == Len(h) - Window + k
             p == Place(u, t, k)
  <2>1. r \in 1..Len(h) /\ Len(h) - r = Window - k
    BY <1>2, <1>5
  <2>2. PICK i \in Valid(s) : Rank(s, i) = r
    BY <2>1 DEF Recalls
  <2>3. Cardinality({j \in Valid(s) : j > i}) = Window - k
    BY <1>4, <2>1, <2>2
  <2>4. p = CHOOSE x \in Valid(s) : Cardinality({j \in Valid(s) : j > x}) = Window - k
    BY <1>3 DEF Place
  <2>5. p \in Valid(s) /\ Cardinality({j \in Valid(s) : j > p}) = Window - k
    BY <2>3, <2>4
  <2> HIDE DEF p
  <2>6. Rank(s, p) \in 1..Len(h) /\ h[Rank(s, p)] = s[p]
    BY <2>5 DEF Recalls
  <2>7. Rank(s, p) = r
    <3>1. Len(h) - Rank(s, p) = Window - k
      BY <1>4, <2>5
    <3>2. Rank(s, p) \in Int /\ r \in Int /\ Len(h) - r = Window - k
      BY <2>1, <2>6
    <3> HIDE DEF r
    <3> QED
      BY <1>2, <3>1, <3>2
  <2>8. u[p] = s[p]
    BY <1>1, <1>2, <2>5
  <2> QED
    BY <2>5, <2>6, <2>7, <2>8 DEF p
<1> QED
  BY <1>3, <1>5 DEF u

\* The twin's window at an earlier bar is not affected by a later one.
LEMMA EarlierWindow ==
  ASSUME NEW s \in Seq(Convictions), NEW c \in Convictions, NEW t \in DOMAIN s,
         Places(s)
  PROVE  LET u == Append(s, c)
         IN /\ PriorValid(u, t) = PriorValid(s, t)
            /\ \A k \in 1..Window : Place(u, t, k) = Place(s, t, k)
            /\ Keeps(u, t) = Keeps(s, t)
<1> DEFINE u == Append(s, c)
<1>1. /\ \A i \in 1..Len(s) : u[i] = s[i]
      /\ Valid(u) = IF c = NaN THEN Valid(s) ELSE Valid(s) \cup {Len(s) + 1}
      /\ DOMAIN s = 1..Len(s) /\ Len(s) \in Nat
  BY ValidAppend
<1>2. Valid(s) \subseteq 1..Len(s) /\ Window \in Nat
  BY ValidFacts, GateAssumption
<1> HIDE DEF u
<1>3. PriorValid(u, t) = PriorValid(s, t)
  BY <1>1, <1>2 DEF PriorValid
<1>4. \A k \in 1..Window : Place(u, t, k) = Place(s, t, k)
  BY <1>3 DEF Place
<1>5. u[t] = s[t]
  BY <1>1
<1>6. ASSUME Cardinality(PriorValid(s, t)) < Window
      PROVE  Keeps(u, t) = Keeps(s, t)
  <2>1. Keeps(u, t) = TRUE
    BY <1>3, <1>6 DEF Keeps
  <2>2. Keeps(s, t) = TRUE
    BY <1>6 DEF Keeps
  <2> QED
    BY <2>1, <2>2
<1>7. ASSUME ~(Cardinality(PriorValid(s, t)) < Window)
      PROVE  Keeps(u, t) = Keeps(s, t)
  <2>1. Cardinality(PriorValid(s, t)) >= Window
    <3>1. IsFiniteSet(PriorValid(s, t))
      <4>1. PriorValid(s, t) \subseteq Valid(s) /\ IsFiniteSet(Valid(s))
        BY ValidFacts DEF PriorValid
      <4> QED
        BY <4>1, FS_Subset
    <3>2. Cardinality(PriorValid(s, t)) \in Nat
      BY <3>1, FS_CardinalityType
    <3> QED
      BY <1>2, <1>7, <3>2
  <2>2. \A k \in 1..Window : u[Place(u, t, k)] = s[Place(s, t, k)]
    <3>1. \A k \in 1..Window : Place(s, t, k) \in 1..Len(s)
      BY <1>2, <2>1 DEF Places, PriorValid
    <3> QED
      BY <1>1, <1>4, <3>1
  <2>3. Rolling(u, t) = Rolling(s, t)
    BY <2>2 DEF Rolling
  <2> QED
    BY <1>3, <1>5, <2>3 DEF Keeps
<1>8. Keeps(u, t) = Keeps(s, t)
  BY <1>6, <1>7
<1> QED
  BY <1>3, <1>4, <1>8 DEF u

LEMMA TwinStep ==
  ASSUME TwinInv, NextBar
  PROVE  Recalls(past', signals') /\ Places(signals') /\ TwinAgrees'
<1>1. PICK x \in Scores, today \in Prices, next \in Prices :
        \E want \in Wanted(x, machine') : Step(want, Conviction(x), today, next)
  BY DEF NextBar
<1> DEFINE c == Conviction(x)
           n == Len(signals) + 1
<1>2. c \in Convictions
  BY ScoresAssumption, ConvictionFacts DEF Convictions
<1>3. /\ signals' = Append(signals, c) /\ kept' = Append(kept, Passes(c))
      /\ past' = IF c = NaN THEN past ELSE Append(past, c)
  BY <1>1 DEF Step, Recorded
<1> HIDE DEF c
<1>4. /\ signals \in Seq(Convictions) /\ past \in Seq(Nat) /\ kept \in Seq(BOOLEAN)
      /\ Len(kept) = Len(signals)
      /\ Recalls(past, signals) /\ Places(signals) /\ TwinAgrees
  BY DEF TwinInv, ExactTypes, Convictions
<1>5. Recalls(past', signals')
  BY <1>2, <1>3, <1>4, RecallsAppend
<1>6. /\ DOMAIN signals = 1..Len(signals) /\ DOMAIN signals' = 1..n /\ Len(signals) \in Nat
      /\ signals'[n] = c
      /\ Passes(c) \in BOOLEAN
      /\ kept'[n] = Passes(c) /\ \A t \in 1..Len(signals) : kept'[t] = kept[t]
  <2>1. Passes(c) \in BOOLEAN
    BY DEF Passes
  <2> QED
    BY <1>2, <1>3, <1>4, <2>1
<1>7. PriorValid(signals', n) = Valid(signals) /\ Cardinality(Valid(signals)) = Len(past)
  BY <1>2, <1>3, <1>4, NewestWindow DEF Recalls
<1>8. Len(past) >= Window =>
        \A k \in 1..Window :
          /\ Place(signals', n, k) \in Valid(signals)
          /\ signals'[Place(signals', n, k)] = past[Len(past) - Window + k]
  BY <1>2, <1>3, <1>4, NewestWindow
<1>9. Len(past) >= Window => Rolling(signals', n) = Trailing(past)
  <2> SUFFICES ASSUME Len(past) >= Window PROVE Rolling(signals', n) = Trailing(past)
    OBVIOUS
  <2>1. Window \in Nat /\ Len(past) \in Nat
    BY <1>4, GateAssumption
  <2>2. Trailing(past) = [k \in 1..Window |-> past[Len(past) - Window + k]]
    <3>1. Trailing(past) = [k \in 1..(1 + Len(past) - (Len(past) - Window + 1)) |->
                             past[k + (Len(past) - Window + 1) - 1]]
      BY <1>4, <2>1 DEF Trailing
    <3>2. 1 + Len(past) - (Len(past) - Window + 1) = Window
      BY <2>1
    <3>3. \A k \in 1..Window : k + (Len(past) - Window + 1) - 1 = Len(past) - Window + k
      BY <2>1
    <3> QED
      BY <3>1, <3>2, <3>3
  <2>3. Rolling(signals', n) = [k \in 1..Window |-> past[Len(past) - Window + k]]
    BY <1>8 DEF Rolling
  <2> QED
    BY <2>2, <2>3
<1>10. ASSUME NEW t \in DOMAIN signals
       PROVE  /\ PriorValid(signals', t) = PriorValid(signals, t)
              /\ \A k \in 1..Window : Place(signals', t, k) = Place(signals, t, k)
              /\ Keeps(signals', t) = Keeps(signals, t)
  BY <1>2, <1>3, <1>4, EarlierWindow
<1>11. Places(signals')
  <2> SUFFICES ASSUME NEW t \in 1..n, Cardinality(PriorValid(signals', t)) >= Window,
                      NEW k \in 1..Window
               PROVE  Place(signals', t, k) \in PriorValid(signals', t)
    BY <1>6 DEF Places
  <2>1. CASE t = n
    BY <1>7, <1>8, <2>1
  <2>2. CASE t # n
    <3>1. t \in DOMAIN signals
      BY <1>6, <2>2
    <3> QED
      BY <1>4, <1>10, <3>1 DEF Places
  <2> QED
    BY <2>1, <2>2
<1>12. TwinAgrees'
  <2> SUFFICES ASSUME NEW t \in 1..n PROVE kept'[t] = Keeps(signals', t)
    BY <1>6 DEF TwinAgrees
  <2>1. CASE t = n
    <3> DEFINE Either(seq) == c = NaN \/ Len(past) < Window \/ Exceeds(c, seq)
    <3>1. Keeps(signals', n) = Either(Rolling(signals', n))
      BY <1>6, <1>7 DEF Keeps
    <3>2. Passes(c) = Either(Trailing(past))
      BY DEF Passes
    <3>3. Len(past) >= Window \/ Len(past) < Window
      BY <1>4, GateAssumption
    <3>4. ASSUME Len(past) < Window
          PROVE  Keeps(signals', n) = Passes(c)
      <4>1. Keeps(signals', n) = TRUE
        BY <3>1, <3>4
      <4>2. Passes(c) = TRUE
        BY <3>2, <3>4
      <4> QED
        BY <4>1, <4>2
    <3>5. ASSUME Len(past) >= Window
          PROVE  Keeps(signals', n) = Passes(c)
      <4>1. Rolling(signals', n) = Trailing(past)
        BY <1>9, <3>5
      <4> HIDE DEF Either
      <4> QED
        BY <3>1, <3>2, <4>1
    <3>6. Keeps(signals', n) = Passes(c)
      BY <3>3, <3>4, <3>5
    <3> QED
      BY <1>6, <2>1, <3>6
  <2>2. CASE t # n
    <3>1. t \in DOMAIN signals
      BY <1>6, <2>2
    <3> QED
      BY <1>4, <1>6, <1>10, <3>1 DEF TwinAgrees
  <2> QED
    BY <2>1, <2>2
<1> QED
  BY <1>5, <1>11, <1>12

\* On every series of convictions, with missing values anywhere, for every
\* window and percentile, the vectorised gate is the bar-by-bar one.
THEOREM TwinsAgree == Spec => []TwinAgrees
<1>1. Init => TwinInv
  <2> SUFFICES ASSUME Init PROVE TwinInv
    OBVIOUS
  <2>1. signals = <<>> /\ past = <<>>
    BY DEF Init
  <2>2. Valid(signals) = {} /\ DOMAIN signals = {} /\ Len(past) = 0
    BY <2>1 DEF Valid
  <2>3. Recalls(past, signals)
    BY <2>2, FS_EmptySet DEF Recalls
  <2>4. Places(signals) /\ TwinAgrees
    BY <2>2 DEF Places, TwinAgrees
  <2> QED
    BY <2>3, <2>4, LedgerInit, ExactInit DEF TwinInv
<1>2. TwinInv /\ [Next]_vars => TwinInv'
  <2> SUFFICES ASSUME TwinInv, [Next]_vars PROVE TwinInv'
    OBVIOUS
  <2>1. LedgerInv'
    BY LedgerStep DEF TwinInv
  <2>2. CASE NextBar
    BY <2>1, <2>2, BarKeepsExactTypes, TwinStep DEF TwinInv
  <2>3. CASE EndOfData
    <3>1. ExactTypes'
      BY <2>3, EndKeepsExactTypes DEF TwinInv
    <3>2. UNCHANGED <<signals, past, kept>>
      BY <2>3 DEF EndOfData
    <3> QED
      BY <2>1, <3>1, <3>2 DEF TwinInv, TwinAgrees
  <2>4. CASE UNCHANGED vars
    BY <2>1, <2>4 DEF vars, TwinInv, ExactTypes, TwinAgrees
  <2> QED
    BY <2>2, <2>3, <2>4 DEF Next
<1>3. TwinInv => TwinAgrees
  BY DEF TwinInv
<1> QED
  BY <1>1, <1>2, <1>3, PTL DEF Spec
=============================================================================
