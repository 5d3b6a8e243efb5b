---------------------------- MODULE PaperRunProofs ----------------------------
(***************************************************************************)
(* Theorems about PaperRun, for every set of limits, every universe, every *)
(* course of prices and targets, and any number of runs and crashes.       *)
(***************************************************************************)
EXTENDS PaperRun, TLAPS, FiniteSetTheorems, Sums

(***************************************************************************)
(* Arithmetic of notionals.                                                *)
(***************************************************************************)

LEMMA TimesMonotone ==
  \A a, b, c \in Nat : a <= b => a * c <= b * c
OBVIOUS

\* A notional buys at least one share.
LEMMA SharesBought ==
  ASSUME NEW p \in Prices
  PROVE  PerTradeMax \div p \in Nat \ {0}
<1>1. p \in Nat \ {0} /\ PerTradeMax \in Nat \ {0} /\ PerTradeMax % p = 0
  BY PricesAssumption, LimitsAssumption
<1>2. PerTradeMax = p * (PerTradeMax \div p) + (PerTradeMax % p)
  BY <1>1
<1>3. PerTradeMax \div p \in Int
  BY <1>1
<1>4. PerTradeMax = p * (PerTradeMax \div p)
  BY <1>1, <1>2
<1>5. ASSUME PerTradeMax \div p <= 0
      PROVE  FALSE
  <2>1. \A a \in Nat, b \in Int : b <= 0 => a * b <= 0
    OBVIOUS
  <2> QED
    BY <1>1, <1>3, <1>4, <1>5, <2>1
<1> QED
  BY <1>3, <1>5

(***************************************************************************)
(* Bookkeeping.                                                            *)
(***************************************************************************)

LEMMA RollToDayType ==
  ASSUME NEW a \in Account
  PROVE  /\ RollToDay(a) \in Account
         /\ RollToDay(a).cash = a.cash
         /\ RollToDay(a).positions = a.positions
<1>1. CASE a.date = "today"
  BY <1>1 DEF RollToDay
<1>2. CASE a.date # "today"
  <2>1. RollToDay(a) = [a EXCEPT !.date = "today", !.realized = 0]
    BY <1>2 DEF RollToDay
  <2> DEFINE Reset(d, r) == [a EXCEPT !.date = d, !.realized = r]
  <2>2. ASSUME NEW d \in {"today", "earlier"}, NEW r \in Int
        PROVE  /\ Reset(d, r) \in Account
               /\ Reset(d, r).cash = a.cash
               /\ Reset(d, r).positions = a.positions
    BY DEF Account
  <2>3. RollToDay(a) = Reset("today", 0)
    BY <2>1
  <2> HIDE DEF Reset
  <2> QED
    BY <2>2, <2>3
<1> QED
  BY <1>1, <1>2

LEMMA BoughtType ==
  ASSUME NEW a \in Account, NEW s \in Symbols, NEW p \in Prices,
         NEW o, o = [symbol |-> s, side |-> "buy", notional |-> PerTradeMax]
  PROVE  /\ Bought(a, o, p) \in Account
         /\ Bought(a, o, p).cash = a.cash - PerTradeMax
         /\ Bought(a, o, p).positions =
              [a.positions EXCEPT ![s] =
                 [shares |-> a.positions[s].shares + PerTradeMax \div p,
                  cost |-> a.positions[s].cost + PerTradeMax]]
BY SharesBought, LimitsAssumption DEF Bought, Account

LEMMA SoldType ==
  ASSUME NEW a \in Account, NEW s \in Symbols, NEW n \in Nat,
         NEW o, o = [symbol |-> s, side |-> "sell", notional |-> n]
  PROVE  /\ Sold(a, o) \in Account
         /\ Sold(a, o).cash = a.cash + n
         /\ Sold(a, o).positions = [a.positions EXCEPT ![s] = NoPosition]
<1> DEFINE r == a.realized + n - a.positions[s].cost
           c == a.cash + n
           ps == [a.positions EXCEPT ![s] = NoPosition]
<1>1. r \in Int /\ c \in Int
  BY DEF Account
<1>2. ps \in [Symbols -> [shares : Nat, cost : Nat]]
  BY DEF Account, NoPosition
<1>3. Sold(a, o) = [a EXCEPT !.positions = ps, !.realized = r, !.cash = c]
  BY DEF Sold, Account
<1> HIDE DEF r, c, ps
<1>4. Sold(a, o) \in Account
  BY <1>1, <1>2, <1>3 DEF Account
<1>5. Sold(a, o).cash = c /\ Sold(a, o).positions = ps
  BY <1>1, <1>2, <1>3 DEF Account
<1> QED
  BY <1>4, <1>5 DEF c, ps

\* Rolling to the day touches neither the cash nor the positions.
LEMMA RolledAccount ==
  ASSUME TypeOK
  PROVE  /\ Rolled \in Account
         /\ Rolled.cash = saved.cash
         /\ Rolled.positions = saved.positions
         /\ HeldSymbols(Rolled) = HeldSymbols(saved)
<1>1. saved \in Account
  BY DEF TypeOK
<1>2. Rolled \in Account /\ Rolled.cash = saved.cash
                         /\ Rolled.positions = saved.positions
  BY <1>1, RollToDayType DEF Rolled
<1> QED
  BY <1>2 DEF HeldSymbols

LEMMA SnapshotFields ==
  ASSUME TypeOK, NEW p
  PROVE  /\ SnapshotAt(p).buyingPower = saved.cash
         /\ SnapshotAt(p).positions = HeldSymbols(saved) \cap universe
         /\ SnapshotAt(p).realized = Rolled.realized
BY RolledAccount DEF SnapshotAt, GuardrailAccount, Valued

(***************************************************************************)
(* An order of a run is either a buy of one notional, of a symbol that is  *)
(* not held, or a sell of a held symbol for what it is worth.              *)
(***************************************************************************)
IsBuy(s) == OrderOf(s) = [symbol |-> s, side |-> "buy", notional |-> PerTradeMax]
IsSell(s) ==
  \E n \in Nat : OrderOf(s) = [symbol |-> s, side |-> "sell", notional |-> n]

LEMMA OrdersAreBuysOrSells ==
  ASSUME RunInv, NEW s \in orders, pc = "run"
  PROVE  /\ s \in Symbols /\ s \in universe
         /\ \/ IsBuy(s) /\ s \notin HeldSymbols(saved)
                        /\ state.positions[s] = NoPosition
            \/ IsSell(s)
<1>1. s \in Symbols /\ s \in universe
  BY DEF RunInv, TypeOK
<1>2. TypeOK
  BY DEF RunInv
<1>3. CASE WantsSell(s, price, target)
  <2>1. Rolled.positions[s].shares \in Nat /\ price[s] \in Nat
    BY <1>1, <1>2, RolledAccount, PricesAssumption DEF Account, TypeOK
  <2>2. PositionValue(Rolled, price, s) \in Nat
    BY <2>1 DEF PositionValue
  <2> QED
    BY <1>1, <1>3, <2>2 DEF OrderOf, IsSell
<1>4. CASE ~WantsSell(s, price, target)
  <2>1. WantsBuy(s, price, target)
    BY <1>4 DEF RunInv, RunFollowsSnapshot, OrdersFor
  <2>2. s \notin HeldSymbols(saved)
    BY <2>1, <1>1, <1>2, SnapshotFields DEF WantsBuy
  <2>3. state.positions[s] = NoPosition
    <3>1. saved.positions[s].shares = 0
      BY <2>2, <1>1 DEF HeldSymbols
    <3>2. saved.positions[s] = NoPosition
      BY <3>1, <1>1 DEF RunInv, SavedWhole
    <3> QED
      BY <3>2 DEF RunInv, RunFollowsSnapshot
  <2> QED
    BY <1>1, <1>4, <2>2, <2>3 DEF OrderOf, IsBuy
<1> QED
  BY <1>3, <1>4

(***************************************************************************)
(* Right after a run has begun or is over the account in memory is the     *)
(* saved one, and nothing has been opened or spent.                        *)
(***************************************************************************)
LEMMA NothingSpent ==
  ASSUME TypeOK', SavedWhole', AboveFloor(saved.cash)', counters' = NewRun,
         state'.positions = saved'.positions, state'.cash = saved'.cash
  PROVE  WholePositions' /\ OpenedAreCounted' /\ SpendingIsCounted'
<1>1. WholePositions'
  BY DEF WholePositions, SavedWhole
<1>2. OpenedAreCounted'
  <2>1. HeldSymbols(state') \ HeldSymbols(saved') = {}
    BY DEF HeldSymbols
  <2>2. Cardinality({}) = 0
    BY FS_EmptySet
  <2> QED
    BY <2>1, <2>2 DEF OpenedAreCounted, NewRun
<1>3. SpendingIsCounted'
  <2>1. saved'.cash \in Int /\ PerTradeMax \in Nat
    BY LimitsAssumption DEF TypeOK, Account
  <2>2. counters'.opened = 0
    BY DEF NewRun
  <2> QED
    BY <2>1, <2>2 DEF SpendingIsCounted
<1> QED
  BY <1>1, <1>2, <1>3

LEMMA FloorHolds == RunInv => AboveFloor(state.cash)
<1> SUFFICES ASSUME RunInv PROVE AboveFloor(state.cash)
  OBVIOUS
<1> DEFINE o == counters.opened
           m == MaxNewPositions
           p == PerTradeMax
<1>1. /\ o \in Nat /\ m \in Nat /\ p \in Nat /\ o <= m
      /\ state.cash \in Int /\ saved.cash \in Int
  BY LimitsAssumption DEF RunInv, TypeOK, Account
<1>2. o * p <= m * p /\ o * p \in Nat /\ m * p \in Nat
  BY <1>1, TimesMonotone
<1>3. (m - 1) * p = m * p - p
  BY <1>1
<1>4. state.cash >= saved.cash - o * p
  BY DEF RunInv, SpendingIsCounted
<1>5. CASE o = 0
  <2>1. o * p = 0
    BY <1>5, <1>1
  <2>2. state.cash >= saved.cash
    BY <1>1, <1>4, <2>1
  <2>3. AboveFloor(saved.cash)
    BY DEF RunInv, SpendingIsCounted
  <2>4. (m - 1) * p \in Int
    BY <1>1
  <2> QED
    BY <1>1, <2>2, <2>3, <2>4 DEF AboveFloor
<1>6. CASE o > 0
  <2>1. saved.cash >= p
    BY <1>6 DEF RunInv, SpendingIsCounted
  <2>2. state.cash >= p - m * p
    BY <1>1, <1>2, <1>4, <2>1
  <2> QED
    BY <1>1, <1>2, <1>3, <2>2 DEF AboveFloor
<1> QED
  BY <1>1, <1>5, <1>6

\* What is held after a run step is at most one symbol more than before.
LEMMA OneMoreOpened ==
  ASSUME RunInv, NEW s \in Symbols, saved' = saved,
         HeldSymbols(state') \subseteq HeldSymbols(state) \cup {s}
  PROVE  Cardinality(HeldSymbols(state') \ HeldSymbols(saved'))
           <= counters.opened + 1
<1> DEFINE Opened == HeldSymbols(state) \ HeldSymbols(saved)
           Opened2 == HeldSymbols(state') \ HeldSymbols(saved)
<1>1. IsFiniteSet(Opened)
  BY SymbolsAssumption, FS_Subset DEF HeldSymbols
<1>2. IsFiniteSet(Opened \cup {s})
      /\ Cardinality(Opened \cup {s}) <= Cardinality(Opened) + 1
  <2>1. Cardinality(Opened) \in Nat
    BY <1>1, FS_CardinalityType
  <2> QED
    BY <1>1, <2>1, FS_AddElement
<1>3. Cardinality(Opened2) <= Cardinality(Opened \cup {s})
  BY <1>2, FS_Subset
<1>4. Cardinality(Opened) <= counters.opened
  BY DEF RunInv, OpenedAreCounted
<1>5. /\ Cardinality(Opened) \in Nat /\ Cardinality(Opened2) \in Nat
      /\ Cardinality(Opened \cup {s}) \in Nat
  BY <1>1, <1>2, FS_CardinalityType, FS_Subset
<1>6. counters.opened \in Nat
  BY LimitsAssumption DEF RunInv, TypeOK
<1> HIDE DEF Opened, Opened2
<1>7. Cardinality(Opened2) <= counters.opened + 1
  BY <1>2, <1>3, <1>4, <1>5, <1>6
<1> QED
  BY <1>7 DEF Opened2

(***************************************************************************)
(* Placing an order: the heart of the invariant.                           *)
(***************************************************************************)
LEMMA BuyKeepsRunInv ==
  ASSUME RunInv, NEW s \in Symbols, PlaceOrder(s),
         IsBuy(s), s \notin HeldSymbols(saved),
         state.positions[s] = NoPosition
  PROVE  /\ state' \in Account
         /\ counters' \in [orders : 0..MaxOrders, opened : 0..MaxNewPositions]
         /\ state'.positions = [state.positions EXCEPT ![s] =
              [shares |-> PerTradeMax \div price[s], cost |-> PerTradeMax]]
         /\ OpenedAreCounted' /\ SpendingIsCounted'
<1> DEFINE o == [symbol |-> s, side |-> "buy", notional |-> PerTradeMax]
<1>1. OrderOf(s) = o
  BY DEF IsBuy
<1>2. /\ ValidOrder(o, Snapshot, counters)
      /\ state' = Bought(state, o, price[s])
      /\ counters' = Counted(o, Snapshot, counters)
      /\ saved' = saved
  BY <1>1 DEF PlaceOrder, ApplyFill
<1>3. state \in Account /\ price[s] \in Prices
  BY DEF RunInv, TypeOK
<1>4. /\ state' \in Account
      /\ state'.cash = state.cash - PerTradeMax
      /\ state'.positions = [state.positions EXCEPT ![s] =
           [shares |-> state.positions[s].shares + PerTradeMax \div price[s],
            cost |-> state.positions[s].cost + PerTradeMax]]
  BY <1>2, <1>3, BoughtType
<1>5. state.positions[s].shares = 0 /\ state.positions[s].cost = 0
  BY DEF NoPosition
<1>6. state'.positions = [state.positions EXCEPT ![s] =
        [shares |-> PerTradeMax \div price[s], cost |-> PerTradeMax]]
  BY <1>3, <1>4, <1>5, SharesBought, LimitsAssumption
<1>7. OpensPosition(o, Snapshot)
  <2>1. s \notin Snapshot.positions
    BY SnapshotFields DEF RunInv, Snapshot
  <2> QED
    BY <2>1 DEF OpensPosition
<1>8. /\ counters.orders < MaxOrders
      /\ counters.opened < MaxNewPositions
      /\ PerTradeMax <= saved.cash
  BY <1>2, <1>7, SnapshotFields
     DEF ValidOrder, AffordableFrom, RunInv, Snapshot
<1>9. counters' = [orders |-> counters.orders + 1,
                   opened |-> counters.opened + 1]
  BY <1>2, <1>7 DEF Counted
<1>10. counters' \in [orders : 0..MaxOrders, opened : 0..MaxNewPositions]
  BY <1>8, <1>9, LimitsAssumption DEF RunInv, TypeOK
<1>11. OpenedAreCounted'
  <2>1. \A r \in Symbols \ {s} : state'.positions[r] = state.positions[r]
    BY <1>3, <1>6 DEF Account
  <2>2. HeldSymbols(state') \subseteq HeldSymbols(state) \cup {s}
    BY <2>1 DEF HeldSymbols
  <2>3. counters'.opened = counters.opened + 1
    BY <1>9
  <2> QED
    BY <1>2, <2>2, <2>3, OneMoreOpened DEF OpenedAreCounted
<1>12. SpendingIsCounted'
  <2>1. /\ PerTradeMax \in Nat /\ counters.opened \in Nat
        /\ saved.cash \in Int /\ state.cash \in Int
    BY LimitsAssumption DEF RunInv, TypeOK, Account
  <2>2. (counters.opened + 1) * PerTradeMax
          = counters.opened * PerTradeMax + PerTradeMax
    BY <2>1
  <2>3. counters.opened * PerTradeMax \in Int
    BY <2>1
  <2>4. state.cash >= saved.cash - counters.opened * PerTradeMax
    BY DEF RunInv, SpendingIsCounted
  <2>5. state'.cash >= saved.cash - (counters.opened + 1) * PerTradeMax
    BY <1>4, <2>1, <2>2, <2>3, <2>4
  <2>6. AboveFloor(saved.cash)
    BY DEF RunInv, SpendingIsCounted
  <2> QED
    BY <1>2, <1>8, <1>9, <2>5, <2>6 DEF SpendingIsCounted, AboveFloor
<1> QED
  BY <1>4, <1>6, <1>10, <1>11, <1>12

LEMMA SellKeepsRunInv ==
  ASSUME RunInv, NEW s \in Symbols, PlaceOrder(s), IsSell(s)
  PROVE  /\ state' \in Account
         /\ counters' \in [orders : 0..MaxOrders, opened : 0..MaxNewPositions]
         /\ state'.positions = [state.positions EXCEPT ![s] = NoPosition]
         /\ OpenedAreCounted' /\ SpendingIsCounted'
<1>1. PICK n \in Nat :
        OrderOf(s) = [symbol |-> s, side |-> "sell", notional |-> n]
  BY DEF IsSell
<1> DEFINE o == [symbol |-> s, side |-> "sell", notional |-> n]
<1>2. /\ ValidOrder(o, Snapshot, counters)
      /\ state' = Sold(state, o)
      /\ counters' = Counted(o, Snapshot, counters)
      /\ saved' = saved
  BY <1>1 DEF PlaceOrder, ApplyFill
<1>3. state \in Account
  BY DEF RunInv, TypeOK
<1>4. /\ state' \in Account
      /\ state'.cash = state.cash + n
      /\ state'.positions = [state.positions EXCEPT ![s] = NoPosition]
  BY <1>2, <1>3, SoldType
<1>5. ~OpensPosition(o, Snapshot)
  BY DEF OpensPosition
<1>6. counters.orders < MaxOrders
  BY <1>2 DEF ValidOrder
<1>7. counters' = [orders |-> counters.orders + 1, opened |-> counters.opened]
  <2>1. counters' = [orders |-> counters.orders + 1,
                     opened |-> counters.opened + 0]
    BY <1>2, <1>5 DEF Counted
  <2> QED
    BY <2>1, LimitsAssumption DEF RunInv, TypeOK
<1>8. counters' \in [orders : 0..MaxOrders, opened : 0..MaxNewPositions]
  BY <1>6, <1>7, LimitsAssumption DEF RunInv, TypeOK
<1>9. OpenedAreCounted'
  <2>1. \A r \in Symbols \ {s} : state'.positions[r] = state.positions[r]
    BY <1>3, <1>4 DEF Account
  <2>2. state'.positions[s].shares = 0
    BY <1>3, <1>4 DEF Account, NoPosition
  <2>3. HeldSymbols(state') \subseteq HeldSymbols(state)
    BY <2>1, <2>2 DEF HeldSymbols
  <2> DEFINE Opened == HeldSymbols(state) \ HeldSymbols(saved)
             Opened2 == HeldSymbols(state') \ HeldSymbols(saved)
  <2>4. IsFiniteSet(Opened)
    BY SymbolsAssumption, FS_Subset DEF HeldSymbols
  <2>5. Cardinality(Opened2) <= Cardinality(Opened)
    BY <2>3, <2>4, FS_Subset
  <2>6. Cardinality(Opened) <= counters.opened
    BY DEF RunInv, OpenedAreCounted
  <2>7. /\ Cardinality(Opened) \in Nat /\ Cardinality(Opened2) \in Nat
        /\ counters.opened \in Nat
    BY <2>3, <2>4, FS_Subset, FS_CardinalityType, LimitsAssumption
       DEF RunInv, TypeOK
  <2> HIDE DEF Opened, Opened2
  <2>8. Cardinality(Opened2) <= counters.opened
    BY <2>5, <2>6, <2>7
  <2> QED
    BY <1>2, <1>7, <2>8 DEF Opened2, OpenedAreCounted
<1>10. SpendingIsCounted'
  <2>1. /\ PerTradeMax \in Nat /\ counters.opened \in Nat
        /\ saved.cash \in Int /\ state.cash \in Int
    BY LimitsAssumption DEF RunInv, TypeOK, Account
  <2>2. counters.opened * PerTradeMax \in Int
    BY <2>1
  <2>3. state'.cash >= saved.cash - counters.opened * PerTradeMax
    BY <1>4, <2>1, <2>2 DEF RunInv, SpendingIsCounted
  <2> QED
    BY <1>2, <1>7, <2>3 DEF RunInv, SpendingIsCounted, AboveFloor
<1> QED
  BY <1>4, <1>8, <1>9, <1>10

LEMMA PlaceOrderKeepsRunInv ==
  ASSUME RunInv, NEW s \in Symbols, PlaceOrder(s)
  PROVE  RunInv'
<1>1. /\ pc = "run" /\ pc' = "run" /\ s \in orders
      /\ orders' = orders \ {s}
      /\ UNCHANGED <<saved, price, target, universe, haltFile, crashes>>
  BY DEF PlaceOrder, NextOrder, inputs, config
<1>2. /\ state' \in Account
      /\ counters' \in [orders : 0..MaxOrders, opened : 0..MaxNewPositions]
      /\ OpenedAreCounted' /\ SpendingIsCounted'
  BY <1>1, OrdersAreBuysOrSells, BuyKeepsRunInv, SellKeepsRunInv
<1>3. PICK h \in [shares : Nat, cost : Nat] :
        /\ \/ h = NoPosition
           \/ h.shares > 0 /\ h.cost = PerTradeMax
        /\ state'.positions = [state.positions EXCEPT ![s] = h]
  <2>1. CASE IsBuy(s) /\ s \notin HeldSymbols(saved)
                      /\ state.positions[s] = NoPosition
    <3> DEFINE h == [shares |-> PerTradeMax \div price[s], cost |-> PerTradeMax]
    <3>1. PerTradeMax \div price[s] \in Nat \ {0} /\ PerTradeMax \in Nat
      BY SharesBought, LimitsAssumption DEF RunInv, TypeOK
    <3>2. h \in [shares : Nat, cost : Nat] /\ h.shares > 0
          /\ h.cost = PerTradeMax
      BY <3>1
    <3>3. state'.positions = [state.positions EXCEPT ![s] = h]
      BY <2>1, BuyKeepsRunInv
    <3> HIDE DEF h
    <3> QED
      BY <3>2, <3>3
  <2>2. CASE IsSell(s)
    <3>1. NoPosition \in [shares : Nat, cost : Nat]
      BY DEF NoPosition
    <3>2. state'.positions = [state.positions EXCEPT ![s] = NoPosition]
      BY <2>2, SellKeepsRunInv
    <3> QED
      BY <3>1, <3>2
  <2> QED
    BY <1>1, <2>1, <2>2, OrdersAreBuysOrSells
<1>4. state.positions \in [Symbols -> [shares : Nat, cost : Nat]]
  BY DEF RunInv, TypeOK, Account
<1>5. TypeOK'
  BY <1>1, <1>2 DEF RunInv, TypeOK
<1>6. WholePositions'
  BY <1>3, <1>4 DEF RunInv, WholePositions
<1>7. SavedWhole'
  BY <1>1 DEF RunInv, SavedWhole
<1>8. RunFollowsSnapshot'
  <2>1. OrdersFor(price, target)' = OrdersFor(price, target)
    BY <1>1 DEF OrdersFor, WantsBuy, WantsSell, SnapshotAt, GuardrailAccount,
                Rolled, RollToDay, Valued, HeldSymbols
  <2>2. orders' \subseteq OrdersFor(price, target)
    BY <1>1 DEF RunInv, RunFollowsSnapshot
  <2>3. \A r \in orders' : state'.positions[r] = saved'.positions[r]
    <3>1. orders' \subseteq Symbols
      BY <1>1 DEF RunInv, TypeOK
    <3> QED
      BY <1>1, <1>3, <1>4, <3>1 DEF RunInv, RunFollowsSnapshot
  <2> QED
    BY <1>1, <2>1, <2>2, <2>3 DEF RunFollowsSnapshot
<1>9. StartedUnderLossLimit'
  BY <1>1 DEF RunInv, StartedUnderLossLimit
<1> QED
  BY <1>2, <1>5, <1>6, <1>7, <1>8, <1>9 DEF RunInv

(***************************************************************************)
(* The other steps.                                                        *)
(***************************************************************************)
LEMMA HaltedRunKeepsRunInv == RunInv /\ HaltedRun => RunInv'
<1> SUFFICES ASSUME RunInv, HaltedRun PROVE RunInv'
  OBVIOUS
<1>1. /\ saved' = Rolled /\ state' = Rolled
      /\ pc = "idle"
      /\ UNCHANGED <<counters, pc, orders, target, universe, haltFile, crashes>>
      /\ price' \in [Symbols -> Prices]
  BY DEF HaltedRun, config
<1>2. TypeOK
  BY DEF RunInv
<1>3. TypeOK'
  BY <1>1, <1>2, RolledAccount DEF TypeOK
<1>4. RunFollowsSnapshot'
  BY <1>1 DEF RunInv, RunFollowsSnapshot
<1>5. SavedWhole' /\ AboveFloor(saved.cash)'
  BY <1>1, <1>2, RolledAccount
     DEF RunInv, SavedWhole, SpendingIsCounted, AboveFloor
<1>6. counters' = NewRun
  BY <1>1 DEF RunInv, RunFollowsSnapshot
<1>7. WholePositions' /\ OpenedAreCounted' /\ SpendingIsCounted'
  BY <1>1, <1>3, <1>5, <1>6, NothingSpent
<1> QED
  BY <1>1, <1>3, <1>4, <1>5, <1>7 DEF RunInv, StartedUnderLossLimit

LEMMA BeginRunKeepsRunInv == RunInv /\ BeginRun => RunInv'
<1> SUFFICES ASSUME RunInv, BeginRun PROVE RunInv'
  OBVIOUS
<1>1. /\ state' = Rolled /\ counters' = NewRun /\ pc' = "run"
      /\ UNCHANGED <<saved, universe, haltFile, crashes>>
      /\ price' \in [Symbols -> Prices] /\ target' \in [Symbols -> Targets]
  BY DEF BeginRun, config
<1>2. TypeOK
  BY DEF RunInv
<1>3. orders' = OrdersFor(price', target')
      /\ ~Halted(SnapshotAt(price'), haltFile)
  BY DEF BeginRun
<1>4. TypeOK'
  <2>1. orders' \subseteq universe'
    BY <1>1, <1>3 DEF OrdersFor
  <2>2. counters' \in [orders : 0..MaxOrders, opened : 0..MaxNewPositions]
    BY <1>1, LimitsAssumption DEF NewRun
  <2> QED
    BY <1>1, <1>2, <2>1, <2>2, RolledAccount DEF TypeOK
<1>5. RunFollowsSnapshot'
  <2>1. orders' = OrdersFor(price, target)'
    BY <1>1, <1>3 DEF OrdersFor, WantsBuy, WantsSell, SnapshotAt,
                      GuardrailAccount, Rolled, RollToDay, Valued, HeldSymbols
  <2> QED
    BY <1>1, <1>2, <2>1, RolledAccount DEF RunFollowsSnapshot
<1>6. SavedWhole' /\ AboveFloor(saved.cash)'
  BY <1>1 DEF RunInv, SavedWhole, SpendingIsCounted, AboveFloor
<1>7. WholePositions' /\ OpenedAreCounted' /\ SpendingIsCounted'
  BY <1>1, <1>2, <1>4, <1>6, RolledAccount, NothingSpent
<1>8. StartedUnderLossLimit'
  <2>1. ~(Rolled.realized <= -DailyLossLimit)
    BY <1>2, <1>3, SnapshotFields DEF Halted
  <2>2. saved.date = "today" => Rolled = saved
    BY DEF Rolled, RollToDay
  <2> QED
    BY <1>1, <2>1, <2>2 DEF StartedUnderLossLimit
<1> QED
  BY <1>4, <1>5, <1>6, <1>7, <1>8 DEF RunInv

LEMMA RejectOrderKeepsRunInv ==
  ASSUME RunInv, NEW s \in Symbols, RejectOrder(s)
  PROVE  RunInv'
<1>1. /\ orders' = orders \ {s} /\ pc = "run"
      /\ UNCHANGED <<saved, state, counters, pc, price, target, universe,
                     haltFile, crashes>>
  BY DEF RejectOrder, NextOrder, inputs, config
<1>2. TypeOK'
  BY <1>1 DEF RunInv, TypeOK
<1>3. RunFollowsSnapshot'
  <2>1. OrdersFor(price, target)' = OrdersFor(price, target)
    BY <1>1 DEF OrdersFor, WantsBuy, WantsSell, SnapshotAt, GuardrailAccount,
                Rolled, RollToDay, Valued, HeldSymbols
  <2> QED
    BY <1>1, <2>1 DEF RunInv, RunFollowsSnapshot
<1>4. WholePositions' /\ SavedWhole' /\ OpenedAreCounted'
  BY <1>1 DEF RunInv, WholePositions, SavedWhole, OpenedAreCounted, HeldSymbols
<1>5. SpendingIsCounted' /\ StartedUnderLossLimit'
  BY <1>1 DEF RunInv, SpendingIsCounted, AboveFloor, StartedUnderLossLimit
<1> QED
  BY <1>2, <1>3, <1>4, <1>5 DEF RunInv

LEMMA EndRunKeepsRunInv == RunInv /\ EndRun => RunInv'
<1> SUFFICES ASSUME RunInv, EndRun PROVE RunInv'
  OBVIOUS
<1>1. /\ saved' = state /\ counters' = NewRun /\ pc' = "idle" /\ orders = {}
      /\ UNCHANGED <<state, orders, price, target, universe, haltFile, crashes>>
  BY DEF EndRun, inputs, config
<1>2. TypeOK'
  BY <1>1, LimitsAssumption DEF RunInv, TypeOK, NewRun
<1>3. SavedWhole' /\ AboveFloor(saved.cash)'
  BY <1>1, FloorHolds DEF RunInv, SavedWhole, WholePositions, AboveFloor
<1>4. WholePositions' /\ OpenedAreCounted' /\ SpendingIsCounted'
  BY <1>1, <1>2, <1>3, NothingSpent
<1> QED
  BY <1>1, <1>2, <1>3, <1>4
     DEF RunInv, RunFollowsSnapshot, StartedUnderLossLimit

LEMMA CrashKeepsRunInv == RunInv /\ Crash => RunInv'
<1> SUFFICES ASSUME RunInv, Crash PROVE RunInv'
  OBVIOUS
<1>1. /\ state' = saved /\ counters' = NewRun /\ pc' = "idle" /\ orders' = {}
      /\ crashes' = crashes + 1 /\ crashes < MaxCrashes
      /\ UNCHANGED <<saved, price, target, universe, haltFile>>
  BY DEF Crash, inputs, config
<1>2. TypeOK'
  BY <1>1, LimitsAssumption, CrashesAssumption DEF RunInv, TypeOK, NewRun
<1>3. SavedWhole' /\ AboveFloor(saved.cash)'
  BY <1>1 DEF RunInv, SavedWhole, SpendingIsCounted, AboveFloor
<1>4. WholePositions' /\ OpenedAreCounted' /\ SpendingIsCounted'
  BY <1>1, <1>2, <1>3, NothingSpent
<1> QED
  BY <1>1, <1>2, <1>3, <1>4
     DEF RunInv, RunFollowsSnapshot, StartedUnderLossLimit

LEMMA NewDayKeepsRunInv == RunInv /\ NewDay => RunInv'
<1> SUFFICES ASSUME RunInv, NewDay PROVE RunInv'
  OBVIOUS
<1>1. /\ saved' = [saved EXCEPT !.date = "earlier"] /\ state' = saved'
      /\ pc = "idle"
      /\ UNCHANGED <<counters, pc, orders, price, target, universe, haltFile,
                     crashes>>
  BY DEF NewDay, inputs, config
<1>2. saved \in Account
  BY DEF RunInv, TypeOK
<1>3. /\ saved' \in Account
      /\ saved'.cash = saved.cash /\ saved'.positions = saved.positions
  <2>1. ASSUME NEW d \in {"today", "earlier"}
        PROVE  /\ [saved EXCEPT !.date = d] \in Account
               /\ [saved EXCEPT !.date = d].cash = saved.cash
               /\ [saved EXCEPT !.date = d].positions = saved.positions
    BY <1>2 DEF Account
  <2> QED
    BY <1>1, <2>1
<1>4. TypeOK'
  BY <1>1, <1>3 DEF RunInv, TypeOK
<1>5. counters' = NewRun /\ RunFollowsSnapshot'
  BY <1>1 DEF RunInv, RunFollowsSnapshot
<1>6. SavedWhole' /\ AboveFloor(saved.cash)'
  BY <1>3 DEF RunInv, SavedWhole, SpendingIsCounted, AboveFloor
<1>7. WholePositions' /\ OpenedAreCounted' /\ SpendingIsCounted'
  BY <1>1, <1>4, <1>5, <1>6, NothingSpent
<1> QED
  BY <1>1, <1>4, <1>5, <1>6, <1>7 DEF RunInv, StartedUnderLossLimit

LEMMA OperatorKeepsRunInv == RunInv /\ Operator => RunInv'
<1> SUFFICES ASSUME RunInv, Operator PROVE RunInv'
  OBVIOUS
<1>1. UNCHANGED <<saved, state, counters, pc, orders, price, target, crashes>>
  BY DEF Operator, ToggleHaltFile, DropSymbol, ListSymbol, run, inputs
<1>2. \/ universe' = universe
      \/ universe' \in SUBSET Symbols /\ pc = "idle"
  BY DEF Operator, ToggleHaltFile, DropSymbol, ListSymbol, RunInv, TypeOK
<1>3. haltFile' \in BOOLEAN
  BY DEF Operator, ToggleHaltFile, DropSymbol, ListSymbol, RunInv, TypeOK
<1>4. pc = "idle" => orders = {}
  BY DEF RunInv, RunFollowsSnapshot
<1>5. TypeOK'
  BY <1>1, <1>2, <1>3, <1>4 DEF RunInv, TypeOK
<1>6. RunFollowsSnapshot'
  <2>1. CASE universe' = universe
    <3>1. OrdersFor(price, target)' = OrdersFor(price, target)
      BY <1>1, <2>1 DEF OrdersFor, WantsBuy, WantsSell, SnapshotAt,
                        GuardrailAccount, Rolled, RollToDay, Valued, HeldSymbols
    <3> QED
      BY <1>1, <3>1 DEF RunInv, RunFollowsSnapshot
  <2>2. CASE pc = "idle"
    BY <1>1, <2>2 DEF RunInv, RunFollowsSnapshot
  <2> QED
    BY <1>2, <2>1, <2>2
<1>7. WholePositions' /\ SavedWhole' /\ OpenedAreCounted'
  BY <1>1 DEF RunInv, WholePositions, SavedWhole, OpenedAreCounted, HeldSymbols
<1>8. SpendingIsCounted' /\ StartedUnderLossLimit'
  BY <1>1 DEF RunInv, SpendingIsCounted, AboveFloor, StartedUnderLossLimit
<1> QED
  BY <1>5, <1>6, <1>7, <1>8 DEF RunInv

(***************************************************************************)
(* The invariant, and the theorems.                                        *)
(***************************************************************************)
LEMMA InitRunInv == Init => RunInv
<1> SUFFICES ASSUME Init PROVE RunInv
  OBVIOUS
<1>1. /\ saved = Initial /\ state = Initial /\ counters = NewRun
      /\ pc = "idle" /\ orders = {} /\ universe = Symbols
      /\ haltFile = FALSE /\ crashes = 0
  BY DEF Init
<1>2. Initial \in Account
  BY CashAssumption DEF Initial, Account, NoPosition
<1>3. TypeOK
  <2>1. price \in [Symbols -> Prices] /\ target \in [Symbols -> Targets]
    BY DEF Init
  <2>2. counters \in [orders : 0..MaxOrders, opened : 0..MaxNewPositions]
    BY <1>1, LimitsAssumption DEF NewRun
  <2>3. crashes \in 0..MaxCrashes
    BY <1>1, CrashesAssumption
  <2>4. pc \in {"idle", "run"} /\ haltFile \in BOOLEAN
    BY <1>1
  <2>5. universe \in SUBSET Symbols /\ orders \in SUBSET universe
    BY <1>1
  <2>6. saved \in Account /\ state \in Account
    BY <1>1, <1>2
  <2> QED
    BY <2>1, <2>2, <2>3, <2>4, <2>5, <2>6 DEF TypeOK
<1>4. WholePositions /\ SavedWhole
  BY <1>1 DEF WholePositions, SavedWhole, Initial
<1>5. OpenedAreCounted
  <2>1. HeldSymbols(state) \ HeldSymbols(saved) = {}
    BY <1>1
  <2> QED
    BY <1>1, <2>1, FS_EmptySet DEF OpenedAreCounted, NewRun
<1>6. SpendingIsCounted
  <2>1. state.cash = saved.cash /\ saved.cash \in Nat
    BY <1>1, CashAssumption DEF Initial
  <2>2. counters.opened = 0 /\ counters.opened * PerTradeMax = 0
    BY <1>1, LimitsAssumption DEF NewRun
  <2> QED
    BY <2>1, <2>2 DEF SpendingIsCounted, AboveFloor
<1> QED
  BY <1>1, <1>3, <1>4, <1>5, <1>6
     DEF RunInv, RunFollowsSnapshot, StartedUnderLossLimit

LEMMA NextRunInv == RunInv /\ [Next]_vars => RunInv'
<1> SUFFICES ASSUME RunInv, [Next]_vars PROVE RunInv'
  OBVIOUS
<1>1. CASE HaltedRun
  BY <1>1, HaltedRunKeepsRunInv
<1>2. CASE BeginRun
  BY <1>2, BeginRunKeepsRunInv
<1>3. ASSUME NEW s \in Symbols, RejectOrder(s) PROVE RunInv'
  BY <1>3, RejectOrderKeepsRunInv
<1>4. ASSUME NEW s \in Symbols, PlaceOrder(s) PROVE RunInv'
  BY <1>4, PlaceOrderKeepsRunInv
<1>5. CASE EndRun
  BY <1>5, EndRunKeepsRunInv
<1>6. CASE Crash
  BY <1>6, CrashKeepsRunInv
<1>7. CASE NewDay
  BY <1>7, NewDayKeepsRunInv
<1>8. CASE Operator
  BY <1>8, OperatorKeepsRunInv
<1>9. CASE UNCHANGED vars
  <2>1. UNCHANGED <<saved, state, counters, pc, orders, price, target,
                    universe, haltFile, crashes>>
    BY <1>9 DEF vars, run, inputs, config
  <2>2. OrdersFor(price, target)' = OrdersFor(price, target)
    BY <2>1 DEF OrdersFor, WantsBuy, WantsSell, SnapshotAt, GuardrailAccount,
                Rolled, RollToDay, Valued, HeldSymbols
  <2>3. TypeOK' /\ RunFollowsSnapshot'
    BY <2>1, <2>2 DEF RunInv, TypeOK, RunFollowsSnapshot
  <2>4. WholePositions' /\ SavedWhole' /\ OpenedAreCounted'
    BY <2>1 DEF RunInv, WholePositions, SavedWhole, OpenedAreCounted,
                HeldSymbols
  <2>5. SpendingIsCounted' /\ StartedUnderLossLimit'
    BY <2>1 DEF RunInv, SpendingIsCounted, AboveFloor, StartedUnderLossLimit
  <2> QED
    BY <2>3, <2>4, <2>5 DEF RunInv
<1> QED
  BY <1>1, <1>2, <1>3, <1>4, <1>5, <1>6, <1>7, <1>8, <1>9 DEF Next, RunStep

LEMMA RunInvariant == Spec => []RunInv
BY InitRunInv, NextRunInv, PTL DEF Spec

\* The saved account, the run's account, its counters and its orders have
\* their types in every run; the counters never pass the configured limits.
THEOREM TypeCorrect == Spec => []TypeOK
<1>1. RunInv => TypeOK
  BY DEF RunInv
<1> QED
  BY <1>1, RunInvariant, PTL

\* paper_run.py never adds to a position: a repeated signal, a second run of
\* the day or a run after a crash leaves every symbol at one notional or none.
THEOREM PositionsAreWhole == Spec => []WholePositions
<1>1. RunInv => WholePositions
  BY DEF RunInv
<1> QED
  BY <1>1, RunInvariant, PTL

\* The counter that the executor advances does bound what it is there for:
\* the symbols held now and not held when the run began.
THEOREM NewPositionsAreBounded == Spec => []NewPositionsBounded
<1>1. RunInv => NewPositionsBounded
  <2> SUFFICES ASSUME RunInv PROVE NewPositionsBounded
    OBVIOUS
  <2> DEFINE Opened == HeldSymbols(state) \ HeldSymbols(saved)
  <2>1. IsFiniteSet(Opened)
    BY SymbolsAssumption, FS_Subset DEF HeldSymbols
  <2>2. Cardinality(Opened) \in Nat
    BY <2>1, FS_CardinalityType
  <2>3. Cardinality(Opened) <= counters.opened
    BY DEF RunInv, OpenedAreCounted
  <2>4. counters.opened \in 0..MaxNewPositions
    BY DEF RunInv, TypeOK
  <2> HIDE DEF Opened
  <2>5. Cardinality(Opened) <= MaxNewPositions
    BY <2>2, <2>3, <2>4, LimitsAssumption
  <2> QED
    BY <2>5 DEF Opened, NewPositionsBounded
<1> QED
  BY <1>1, RunInvariant, PTL

\* The guardrails check every buy against the cash the run began with; the
\* account still never goes further below zero than the other new positions
\* of one run, however many runs there are.
THEOREM CashStaysAboveFloor == Spec => []CashFloor
<1>1. RunInv => CashFloor
  BY FloorHolds DEF AboveFloor, CashFloor
<1> QED
  BY <1>1, RunInvariant, PTL

\* check_halted at the top of a run is enough for the kill switch: no order
\* is placed on a day whose saved account shows the daily loss limit.
THEOREM LossLimitIsKept == Spec => LossLimitStopsTheDay
<1> DEFINE Over == saved.date = "today" /\ saved.realized <= -DailyLossLimit
<1>1. RunInv => \A s \in Symbols : PlaceOrder(s) => ~Over
  BY DEF RunInv, StartedUnderLossLimit, PlaceOrder, NextOrder
<1>2. RunInv /\ [Next]_vars
        => [\A s \in Symbols : PlaceOrder(s) => ~Over]_vars
  BY <1>1
<1> QED
  BY <1>2, RunInvariant, PTL DEF Spec, LossLimitStopsTheDay

(***************************************************************************)
(* The account's sums.                                                     *)
(***************************************************************************)
ValueFn(a, p) == [s \in Symbols |-> PositionValue(a, p, s)]
CostFn(a) == [s \in Symbols |-> a.positions[s].cost]

LEMMA ValueIsSum ==
  ASSUME NEW a, NEW p, NEW S \in SUBSET Symbols
  PROVE  ValueOf(a, p, S) = Sum(ValueFn(a, p), S)
<1> DEFINE Direct(g) ==
             g = [T \in SUBSET S |->
                    IF T = {} THEN 0
                    ELSE PositionValue(a, p, First(T)) + g[T \ {First(T)}]]
           Indirect(g) == SubsetSums(g, ValueFn(a, p), S)
<1>1. ASSUME NEW g PROVE Direct(g) <=> Indirect(g)
  <2>1. ASSUME NEW T \in SUBSET S, T # {}
        PROVE  ValueFn(a, p)[First(T)] = PositionValue(a, p, First(T))
    BY <2>1, FirstIn DEF ValueFn
  <2> QED
    BY <2>1 DEF SubsetSums, PartialSums
<1>2. ValueOf(a, p, S) = (CHOOSE g : Direct(g))[S]
  BY DEF ValueOf, MapThenSumSet, MapThenFoldSet, First
<1>3. Sum(ValueFn(a, p), S) = (CHOOSE g : Indirect(g))[S]
  BY SumDef
<1> HIDE DEF Direct, Indirect
<1>4. (CHOOSE g : Direct(g)) = (CHOOSE g : Indirect(g))
  BY <1>1, Zenon
<1> QED
  BY <1>2, <1>3, <1>4

LEMMA CostIsSum ==
  ASSUME NEW a
  PROVE  CostOf(a) = Sum(CostFn(a), Symbols)
<1> DEFINE Direct(g) ==
             g = [T \in SUBSET Symbols |->
                    IF T = {} THEN 0
                    ELSE a.positions[First(T)].cost + g[T \ {First(T)}]]
           Indirect(g) == SubsetSums(g, CostFn(a), Symbols)
<1>1. ASSUME NEW g PROVE Direct(g) <=> Indirect(g)
  <2>1. ASSUME NEW T \in SUBSET Symbols, T # {}
        PROVE  CostFn(a)[First(T)] = a.positions[First(T)].cost
    BY <2>1, FirstIn DEF CostFn
  <2> QED
    BY <2>1 DEF SubsetSums, PartialSums
<1>2. CostOf(a) = (CHOOSE g : Direct(g))[Symbols]
  BY DEF CostOf, MapThenSumSet, MapThenFoldSet, First
<1>3. Sum(CostFn(a), Symbols) = (CHOOSE g : Indirect(g))[Symbols]
  BY SumDef
<1> HIDE DEF Direct, Indirect
<1>4. (CHOOSE g : Direct(g)) = (CHOOSE g : Indirect(g))
  BY <1>1, Zenon
<1> QED
  BY <1>2, <1>3, <1>4

LEMMA CostOfType ==
  ASSUME NEW a \in Account
  PROVE  CostOf(a) \in Int
<1>1. IsFiniteSet(Symbols)
  BY SymbolsAssumption
<1>2. \A s \in Symbols : CostFn(a)[s] \in Int
  BY DEF CostFn, Account
<1> QED
  BY <1>1, <1>2, SumTakesOut, CostIsSum

\* Replacing the position in one symbol changes the cost by the difference.
LEMMA CostAfterChange ==
  ASSUME NEW a \in Account, NEW b \in Account, NEW s \in Symbols,
         NEW h \in [shares : Nat, cost : Nat],
         b.positions = [a.positions EXCEPT ![s] = h]
  PROVE  CostOf(b) = CostOf(a) - a.positions[s].cost + h.cost
<1>1. IsFiniteSet(Symbols)
  BY SymbolsAssumption
<1>2. a.positions \in [Symbols -> [shares : Nat, cost : Nat]]
  BY DEF Account
<1>3. /\ \A r \in Symbols : CostFn(a)[r] \in Int /\ CostFn(b)[r] \in Int
      /\ \A r \in Symbols \ {s} : CostFn(b)[r] = CostFn(a)[r]
      /\ CostFn(a)[s] = a.positions[s].cost /\ CostFn(b)[s] = h.cost
  BY <1>2 DEF CostFn
<1>4. Sum(CostFn(b), Symbols)
        = Sum(CostFn(a), Symbols) - CostFn(a)[s] + CostFn(b)[s]
  BY <1>1, <1>3, SumWithOneChange
<1> QED
  BY <1>3, <1>4, CostIsSum

(***************************************************************************)
(* What an order books.                                                    *)
(***************************************************************************)
LEMMA BuyBooks ==
  ASSUME RunInv, NEW s \in Symbols, PlaceOrder(s),
         IsBuy(s), s \notin HeldSymbols(saved)
  PROVE  /\ state'.cash = state.cash - PerTradeMax
         /\ state'.realized = state.realized
         /\ counters'.opened = counters.opened + 1
         /\ Snapshot.deployed + PerTradeMax <= TotalDeployedMax
<1> DEFINE o == [symbol |-> s, side |-> "buy", notional |-> PerTradeMax]
<1>1. /\ ValidOrder(o, Snapshot, counters)
      /\ state' = Bought(state, o, price[s])
      /\ counters' = Counted(o, Snapshot, counters)
  BY DEF IsBuy, PlaceOrder, ApplyFill
<1>2. state \in Account /\ price[s] \in Prices
  BY DEF RunInv, TypeOK
<1>3. state'.cash = state.cash - PerTradeMax
  BY <1>1, <1>2 DEF Bought, Account
<1>4. state'.realized = state.realized
  BY <1>1, <1>2 DEF Bought, Account
<1>5. s \notin Snapshot.positions
  BY SnapshotFields DEF Snapshot, RunInv
<1>6. counters'.opened = counters.opened + 1
  BY <1>1, <1>5 DEF Counted, OpensPosition
<1>7. Snapshot.deployed + PerTradeMax <= TotalDeployedMax
  BY <1>1 DEF ValidOrder, UnderCap
<1> QED
  BY <1>3, <1>4, <1>6, <1>7

LEMMA SellBooks ==
  ASSUME RunInv, NEW s \in Symbols, PlaceOrder(s), IsSell(s)
  PROVE  /\ counters'.opened = counters.opened
         /\ \E n \in Nat :
              /\ state'.cash = state.cash + n
              /\ state'.realized = state.realized + n - state.positions[s].cost
<1>1. PICK n \in Nat :
        OrderOf(s) = [symbol |-> s, side |-> "sell", notional |-> n]
  BY DEF IsSell
<1> DEFINE o == [symbol |-> s, side |-> "sell", notional |-> n]
<1>2. state' = Sold(state, o) /\ counters' = Counted(o, Snapshot, counters)
  BY <1>1 DEF PlaceOrder, ApplyFill
<1>3. state \in Account /\ counters.opened \in Nat
  BY LimitsAssumption DEF RunInv, TypeOK
<1>4. state'.cash = state.cash + n
  BY <1>2, <1>3 DEF Sold, Account
<1>5. state'.realized = state.realized + n - state.positions[s].cost
  BY <1>2, <1>3 DEF Sold, Account
<1>6. counters'.opened = counters.opened
  BY <1>2, <1>3 DEF Counted, OpensPosition
<1> QED
  BY <1>4, <1>5, <1>6

LEMMA PlaceOrderKeepsFillsBalance ==
  ASSUME RunInv, FillsBalance, NEW s \in Symbols, PlaceOrder(s)
  PROVE  FillsBalance'
<1>1. pc = "run" /\ s \in orders /\ saved' = saved
  BY DEF PlaceOrder, NextOrder
<1>2. RunInv'
  BY PlaceOrderKeepsRunInv
<1>3. state \in Account /\ state' \in Account
  BY <1>2 DEF RunInv, TypeOK
<1>4. CostOf(state) \in Int /\ CostOf(state') \in Int
  BY <1>3, CostOfType
<1>5. Worth(state) = Worth(saved) + state.realized - Rolled.realized
  BY <1>1 DEF FillsBalance
<1>6. Rolled' = Rolled /\ Worth(saved)' = Worth(saved)
  BY <1>1 DEF Rolled, RollToDay
<1>7. Worth(state)' - Worth(state) = state'.realized - state.realized
  <2>1. CASE IsBuy(s) /\ s \notin HeldSymbols(saved)
                      /\ state.positions[s] = NoPosition
    <3> DEFINE h == [shares |-> PerTradeMax \div price[s], cost |-> PerTradeMax]
    <3>1. price[s] \in Prices /\ PerTradeMax \in Nat
      BY LimitsAssumption DEF RunInv, TypeOK
    <3>2. h \in [shares : Nat, cost : Nat] /\ h.cost = PerTradeMax
      BY <3>1, SharesBought
    <3>3. state'.positions = [state.positions EXCEPT ![s] = h]
      BY <2>1, BuyKeepsRunInv
    <3> HIDE DEF h
    <3>4. CostOf(state') = CostOf(state) - state.positions[s].cost + h.cost
      BY <1>3, <3>2, <3>3, CostAfterChange
    <3>5. CostOf(state') = CostOf(state) + PerTradeMax
      BY <1>4, <2>1, <3>1, <3>2, <3>4 DEF NoPosition
    <3>6. /\ state'.cash = state.cash - PerTradeMax
          /\ state'.realized = state.realized
      BY <2>1, BuyBooks
    <3> QED
      BY <1>3, <1>4, <3>1, <3>5, <3>6 DEF Worth, Account
  <2>2. CASE IsSell(s)
    <3>1. NoPosition \in [shares : Nat, cost : Nat] /\ NoPosition.cost = 0
      BY DEF NoPosition
    <3>2. state'.positions = [state.positions EXCEPT ![s] = NoPosition]
      BY <2>2, SellKeepsRunInv
    <3>3. CostOf(state') = CostOf(state) - state.positions[s].cost + NoPosition.cost
      BY <1>3, <3>1, <3>2, CostAfterChange
    <3>4. PICK n \in Nat :
            /\ state'.cash = state.cash + n
            /\ state'.realized = state.realized + n - state.positions[s].cost
      BY <2>2, SellBooks
    <3>5. state.positions[s].cost \in Nat
      BY <1>3 DEF Account
    <3>6. CostOf(state') = CostOf(state) - state.positions[s].cost
      BY <1>4, <3>1, <3>3, <3>5
    <3> QED
      BY <1>3, <1>4, <3>4, <3>5, <3>6 DEF Worth, Account
  <2> QED
    BY <1>1, <2>1, <2>2, OrdersAreBuysOrSells
<1>8. Worth(state) \in Int /\ Worth(state)' \in Int
  BY <1>3, <1>4 DEF Worth, Account
<1>9. /\ Worth(saved) \in Int /\ Rolled.realized \in Int
      /\ state.realized \in Int /\ state'.realized \in Int
  <2>1. saved \in Account /\ TypeOK
    BY DEF RunInv, TypeOK
  <2>2. CostOf(saved) \in Int
    BY <2>1, CostOfType
  <2> QED
    BY <1>3, <2>1, <2>2, RolledAccount DEF Worth, Account
<1>10. Worth(state)' = Worth(saved)' + state'.realized - Rolled'.realized
  BY <1>5, <1>6, <1>7, <1>8, <1>9
<1> QED
  BY <1>10 DEF FillsBalance

LEMMA RolledWorth ==
  ASSUME TypeOK
  PROVE  /\ Worth(Rolled) = Worth(saved)
         /\ Worth(saved) \in Int /\ Rolled.realized \in Int
<1>1. Rolled.cash = saved.cash /\ Rolled.positions = saved.positions
  BY RolledAccount
<1>2. CostOf(Rolled) = CostOf(saved)
  <2>1. CostFn(Rolled) = CostFn(saved)
    BY <1>1 DEF CostFn
  <2> QED
    BY <2>1, CostIsSum
<1>3. saved \in Account /\ Rolled \in Account
  BY RolledAccount DEF TypeOK
<1>4. CostOf(saved) \in Int
  BY <1>3, CostOfType
<1> QED
  BY <1>1, <1>2, <1>3, <1>4 DEF Worth, Account

LEMMA NextFillsBalance ==
  RunInv /\ FillsBalance /\ [Next]_vars => FillsBalance'
<1> SUFFICES ASSUME RunInv, FillsBalance, [Next]_vars PROVE FillsBalance'
  OBVIOUS
<1>1. CASE BeginRun
  <2>1. state' = Rolled /\ saved' = saved
    BY <1>1 DEF BeginRun
  <2>2. Rolled' = Rolled /\ Worth(saved)' = Worth(saved)
    BY <2>1 DEF Rolled, RollToDay
  <2>3. /\ Worth(Rolled) = Worth(saved)
        /\ Worth(saved) \in Int /\ Rolled.realized \in Int
    BY RolledWorth DEF RunInv
  <2>4. Worth(state)' = Worth(saved)' + state'.realized - Rolled'.realized
    BY <2>1, <2>2, <2>3
  <2> QED
    BY <2>4 DEF FillsBalance
<1>2. ASSUME NEW s \in Symbols, PlaceOrder(s) PROVE FillsBalance'
  BY <1>2, PlaceOrderKeepsFillsBalance
<1>3. ASSUME UNCHANGED <<saved, state, pc>> PROVE FillsBalance'
  <2>1. Rolled' = Rolled /\ Worth(saved)' = Worth(saved)
                         /\ Worth(state)' = Worth(state)
    BY <1>3 DEF Rolled, RollToDay
  <2> QED
    BY <1>3, <2>1 DEF FillsBalance
<1>4. ASSUME pc' = "idle" PROVE FillsBalance'
  BY <1>4 DEF FillsBalance
<1>5. CASE HaltedRun
  BY <1>4, <1>5 DEF HaltedRun
<1>6. ASSUME NEW s \in Symbols, RejectOrder(s) PROVE FillsBalance'
  BY <1>3, <1>6 DEF RejectOrder
<1>7. CASE EndRun \/ Crash \/ NewDay
  BY <1>4, <1>7 DEF EndRun, Crash, NewDay
<1>8. CASE Operator
  BY <1>3, <1>8 DEF Operator, ToggleHaltFile, DropSymbol, ListSymbol, run
<1>9. CASE UNCHANGED vars
  BY <1>3, <1>9 DEF vars, run
<1> QED
  BY <1>1, <1>2, <1>5, <1>6, <1>7, <1>8, <1>9 DEF Next, RunStep

(***************************************************************************)
(* What is deployed.                                                       *)
(***************************************************************************)

\* A bought notional is deployed in full.
LEMMA NotionalIsDeployed ==
  ASSUME NEW p \in Prices
  PROVE  (PerTradeMax \div p) * p = PerTradeMax
<1>1. p \in Nat \ {0} /\ PerTradeMax \in Nat \ {0} /\ PerTradeMax % p = 0
  BY PricesAssumption, LimitsAssumption
<1>2. PerTradeMax = p * (PerTradeMax \div p) + (PerTradeMax % p)
  BY <1>1
<1>3. PerTradeMax \div p \in Int
  BY <1>1
<1> QED
  BY <1>1, <1>2, <1>3

LEMMA ValueType ==
  ASSUME NEW a \in Account, NEW p \in [Symbols -> Prices],
         NEW S \in SUBSET Symbols
  PROVE  /\ IsFiniteSet(S)
         /\ \A s \in S : ValueFn(a, p)[s] \in Nat
         /\ ValueOf(a, p, S) \in Int
<1>1. IsFiniteSet(S)
  BY SymbolsAssumption, FS_Subset
<1>2. ASSUME NEW s \in S PROVE ValueFn(a, p)[s] \in Nat
  <2>1. a.positions[s].shares \in Nat /\ p[s] \in Nat
    BY PricesAssumption DEF Account
  <2> QED
    BY <2>1 DEF ValueFn, PositionValue
<1>3. \A s \in S : ValueFn(a, p)[s] \in Int
  BY <1>2
<1> QED
  BY <1>1, <1>2, <1>3, SumTakesOut, ValueIsSum

\* A position that is bought is added to the value, at what it cost.
LEMMA ValueAfterBuy ==
  ASSUME NEW a \in Account, NEW b \in Account, NEW p \in [Symbols -> Prices],
         NEW U \in SUBSET Symbols, NEW s \in U, a.positions[s] = NoPosition,
         b.positions = [a.positions EXCEPT ![s] =
                          [shares |-> PerTradeMax \div p[s], cost |-> PerTradeMax]]
  PROVE  ValueOf(b, p, Valued(b, U)) = ValueOf(a, p, Valued(a, U)) + PerTradeMax
<1> DEFINE V == Valued(a, U)
           W == Valued(b, U)
<1>1. a.positions \in [Symbols -> [shares : Nat, cost : Nat]]
  BY DEF Account
<1>2. /\ p[s] \in Prices /\ PerTradeMax \div p[s] \in Nat \ {0}
      /\ (PerTradeMax \div p[s]) * p[s] = PerTradeMax
  BY SharesBought, NotionalIsDeployed
<1>3. /\ b.positions[s].shares = PerTradeMax \div p[s]
      /\ \A r \in Symbols \ {s} : b.positions[r] = a.positions[r]
  BY <1>1
<1>4. s \in W /\ s \notin V /\ W \ {s} = V
  <2>1. a.positions[s].shares = 0 /\ b.positions[s].shares # 0
    BY <1>2, <1>3 DEF NoPosition
  <2> QED
    BY <1>3, <2>1 DEF Valued, HeldSymbols
<1>5. V \in SUBSET Symbols /\ W \in SUBSET Symbols
  BY DEF Valued
<1> HIDE DEF V, W
<1>6. /\ IsFiniteSet(V) /\ \A r \in V : ValueFn(a, p)[r] \in Int
      /\ IsFiniteSet(W) /\ \A r \in W : ValueFn(b, p)[r] \in Int
  BY <1>5, ValueType
<1>7. Sum(ValueFn(b, p), W) = ValueFn(b, p)[s] + Sum(ValueFn(b, p), V)
  BY <1>4, <1>6, SumTakesOut
<1>8. ValueFn(b, p)[s] = PerTradeMax
  BY <1>2, <1>3 DEF ValueFn, PositionValue
<1>9. \A r \in V : ValueFn(b, p)[r] = ValueFn(a, p)[r]
  BY <1>3, <1>4, <1>5 DEF ValueFn, PositionValue
<1>10. Sum(ValueFn(b, p), V) = Sum(ValueFn(a, p), V)
  BY <1>6, <1>9, SumsAgree
<1>11. ValueOf(a, p, V) \in Int /\ PerTradeMax \in Int
  BY <1>5, ValueType, LimitsAssumption
<1>12. ValueOf(b, p, W) = ValueOf(a, p, V) + PerTradeMax
  BY <1>5, <1>7, <1>8, <1>10, <1>11, ValueIsSum
<1> QED
  BY <1>12 DEF V, W

\* A position that is sold takes its value, which is not negative, with it.
LEMMA ValueAfterSell ==
  ASSUME NEW a \in Account, NEW b \in Account, NEW p \in [Symbols -> Prices],
         NEW U \in SUBSET Symbols, NEW s \in U,
         b.positions = [a.positions EXCEPT ![s] = NoPosition]
  PROVE  ValueOf(b, p, Valued(b, U)) <= ValueOf(a, p, Valued(a, U))
<1> DEFINE V == Valued(a, U)
           W == Valued(b, U)
<1>1. a.positions \in [Symbols -> [shares : Nat, cost : Nat]]
  BY DEF Account
<1>2. /\ b.positions[s].shares = 0
      /\ \A r \in Symbols \ {s} : b.positions[r] = a.positions[r]
  BY <1>1 DEF NoPosition
<1>3. W = V \ {s}
  BY <1>2 DEF Valued, HeldSymbols
<1>4. V \in SUBSET Symbols /\ W \in SUBSET Symbols
  BY DEF Valued
<1> HIDE DEF V, W
<1>5. /\ IsFiniteSet(V) /\ \A r \in V : ValueFn(a, p)[r] \in Nat
      /\ IsFiniteSet(W)
  BY <1>4, ValueType
<1>6. \A r \in W : ValueFn(b, p)[r] = ValueFn(a, p)[r]
  BY <1>2, <1>3, <1>4 DEF ValueFn, PositionValue
<1>7. \A r \in W : ValueFn(a, p)[r] \in Int
  BY <1>3, <1>5
<1>8. Sum(ValueFn(b, p), W) = Sum(ValueFn(a, p), W)
  BY <1>5, <1>6, <1>7, SumsAgree
<1>9. ValueOf(a, p, V) \in Int /\ ValueOf(a, p, W) \in Int
  BY <1>4, ValueType
<1>10. ValueOf(a, p, W) <= ValueOf(a, p, V)
  <2>1. CASE s \in V
    <3>1. \A r \in V : ValueFn(a, p)[r] \in Int
      BY <1>5
    <3>2. Sum(ValueFn(a, p), V) = ValueFn(a, p)[s] + Sum(ValueFn(a, p), W)
      BY <1>3, <1>5, <2>1, <3>1, SumTakesOut
    <3>3. ValueFn(a, p)[s] \in Nat
      BY <1>5, <2>1
    <3> QED
      BY <1>4, <1>9, <3>2, <3>3, ValueIsSum
  <2>2. CASE s \notin V
    <3>1. W = V
      BY <1>3, <2>2
    <3> QED
      BY <1>9, <3>1
  <2> QED
    BY <2>1, <2>2
<1>11. ValueOf(b, p, W) = ValueOf(a, p, W)
  BY <1>4, <1>8, ValueIsSum
<1> QED
  BY <1>10, <1>11 DEF V, W

LEMMA DeployedType ==
  ASSUME TypeOK
  PROVE  Deployed \in Int /\ Snapshot.deployed \in Int
<1>1. /\ state \in Account /\ Rolled \in Account
      /\ price \in [Symbols -> Prices] /\ universe \in SUBSET Symbols
  BY RolledAccount DEF TypeOK
<1>2. /\ Valued(state, universe) \in SUBSET Symbols
      /\ Valued(Rolled, universe) \in SUBSET Symbols
  BY DEF Valued, HeldSymbols
<1>3. Deployed \in Int
  BY <1>1, <1>2, ValueType DEF Deployed
<1>4. ValueOf(Rolled, price, Valued(Rolled, universe)) \in Int
  BY <1>1, <1>2, ValueType
<1>5. Snapshot.deployed = ValueOf(Rolled, price, Valued(Rolled, universe))
  BY DEF Snapshot, SnapshotAt, GuardrailAccount
<1> QED
  BY <1>3, <1>4, <1>5

\* Neither the snapshot nor what is deployed changes unless the account, the
\* closes or the universe does.
LEMMA DeployedUnchanged ==
  ASSUME UNCHANGED <<saved, price, universe>>
  PROVE  /\ Snapshot' = Snapshot
         /\ state' = state => Deployed' = Deployed
<1>1. Rolled' = Rolled
  BY DEF Rolled, RollToDay
<1>2. SnapshotAt(price)' = SnapshotAt(price)
  BY <1>1 DEF SnapshotAt
<1>3. ASSUME state' = state PROVE Deployed' = Deployed
  BY <1>3 DEF Deployed
<1> QED
  BY <1>2, <1>3 DEF Snapshot

LEMMA PlaceOrderKeepsDeployedIsCounted ==
  ASSUME RunInv, DeployedIsCounted, NEW s \in Symbols, PlaceOrder(s)
  PROVE  DeployedIsCounted'
<1>1. /\ pc = "run" /\ s \in orders
      /\ UNCHANGED <<saved, price, universe>>
  BY DEF PlaceOrder, NextOrder, inputs, config
<1>2. RunInv' /\ TypeOK
  BY PlaceOrderKeepsRunInv DEF RunInv
<1>3. /\ state \in Account /\ state' \in Account
      /\ price \in [Symbols -> Prices] /\ universe \in SUBSET Symbols
      /\ s \in universe
  BY <1>1, <1>2 DEF RunInv, TypeOK
<1>4. Snapshot' = Snapshot
  BY <1>1, DeployedUnchanged
<1> DEFINE d == Snapshot.deployed
           n == counters.opened
           c == n * PerTradeMax
           now == ValueOf(state, price, Valued(state, universe))
           then == ValueOf(state', price, Valued(state', universe))
<1>5. /\ Deployed = now /\ Deployed' = then
  BY <1>1 DEF Deployed
<1>6. /\ d \in Int /\ now \in Int /\ n \in Nat /\ PerTradeMax \in Nat
      /\ TotalDeployedMax \in Int
  BY <1>2, <1>5, DeployedType, LimitsAssumption DEF TypeOK
<1>7. then \in Int
  <2>1. Valued(state', universe) \in SUBSET Symbols
    BY <1>3 DEF Valued
  <2> QED
    BY <1>3, <2>1, ValueType
<1>8. c \in Int /\ (n + 1) * PerTradeMax = c + PerTradeMax
  BY <1>6
<1>9. now <= d + c /\ (n > 0 => d + PerTradeMax <= TotalDeployedMax)
  BY <1>1, <1>5 DEF DeployedIsCounted
<1> HIDE DEF now, then, d
<1>10. CASE IsBuy(s) /\ s \notin HeldSymbols(saved)
                     /\ state.positions[s] = NoPosition
  <2>1. counters'.opened = n + 1 /\ d + PerTradeMax <= TotalDeployedMax
    BY <1>10, BuyBooks DEF d
  <2>2. state'.positions = [state.positions EXCEPT ![s] =
          [shares |-> PerTradeMax \div price[s], cost |-> PerTradeMax]]
    BY <1>10, BuyKeepsRunInv
  <2>3. then = now + PerTradeMax
    BY <1>3, <1>10, <2>2, ValueAfterBuy DEF now, then
  <2>4. then <= d + (n + 1) * PerTradeMax
    BY <1>6, <1>8, <1>9, <2>3
  <2> QED
    BY <1>4, <1>5, <2>1, <2>4 DEF DeployedIsCounted, d
<1>11. CASE IsSell(s)
  <2>1. counters'.opened = n
    BY <1>11, SellBooks
  <2>2. state'.positions = [state.positions EXCEPT ![s] = NoPosition]
    BY <1>11, SellKeepsRunInv
  <2>3. then <= now
    BY <1>3, <2>2, ValueAfterSell DEF now, then
  <2>4. then <= d + c
    BY <1>6, <1>7, <1>8, <1>9, <2>3
  <2> QED
    BY <1>4, <1>5, <1>9, <2>1, <2>4 DEF DeployedIsCounted, d
<1> QED
  BY <1>1, <1>10, <1>11, OrdersAreBuysOrSells

LEMMA NextDeployedIsCounted ==
  RunInv /\ DeployedIsCounted /\ [Next]_vars => DeployedIsCounted'
<1> SUFFICES ASSUME RunInv, DeployedIsCounted, [Next]_vars
             PROVE  DeployedIsCounted'
  OBVIOUS
<1>1. CASE BeginRun
  <2>1. state' = Rolled /\ saved' = saved /\ counters' = NewRun
    BY <1>1 DEF BeginRun
  <2>2. Rolled' = Rolled
    BY <2>1 DEF Rolled, RollToDay
  <2>3. Deployed' = Snapshot'.deployed
    BY <2>1, <2>2 DEF Deployed, Snapshot, SnapshotAt, GuardrailAccount
  <2>4. Deployed' \in Int
    <3>1. Rolled \in Account /\ universe \in SUBSET Symbols
      BY RolledAccount DEF RunInv, TypeOK
    <3>2. price' \in [Symbols -> Prices] /\ universe' = universe
      BY <1>1 DEF BeginRun, config
    <3>3. Valued(Rolled, universe) \in SUBSET Symbols
      BY <3>1 DEF Valued
    <3>4. ValueOf(Rolled, price', Valued(Rolled, universe)) \in Int
      BY <3>1, <3>2, <3>3, ValueType
    <3> QED
      BY <2>1, <3>2, <3>4 DEF Deployed
  <2>5. counters'.opened = 0 /\ counters'.opened * PerTradeMax = 0
    BY <2>1, LimitsAssumption DEF NewRun
  <2> QED
    BY <2>3, <2>4, <2>5 DEF DeployedIsCounted
<1>2. ASSUME NEW s \in Symbols, PlaceOrder(s) PROVE DeployedIsCounted'
  BY <1>2, PlaceOrderKeepsDeployedIsCounted
<1>3. ASSUME UNCHANGED <<saved, state, counters, pc, price, universe>>
      PROVE  DeployedIsCounted'
  <2>1. Snapshot' = Snapshot /\ Deployed' = Deployed
    BY <1>3, DeployedUnchanged
  <2> QED
    BY <1>3, <2>1 DEF DeployedIsCounted
<1>4. ASSUME pc' = "idle" PROVE DeployedIsCounted'
  BY <1>4 DEF DeployedIsCounted
<1>5. CASE HaltedRun
  BY <1>4, <1>5 DEF HaltedRun
<1>6. ASSUME NEW s \in Symbols, RejectOrder(s) PROVE DeployedIsCounted'
  BY <1>3, <1>6 DEF RejectOrder, inputs, config
<1>7. CASE EndRun \/ Crash \/ NewDay
  BY <1>4, <1>7 DEF EndRun, Crash, NewDay
<1>8. CASE Operator
  BY <1>3, <1>4, <1>8
     DEF Operator, ToggleHaltFile, DropSymbol, ListSymbol, run, inputs
<1>9. CASE UNCHANGED vars
  BY <1>3, <1>9 DEF vars, run, inputs, config
<1> QED
  BY <1>1, <1>2, <1>5, <1>6, <1>7, <1>8, <1>9 DEF Next, RunStep

LEMMA SumsInvariant == Spec => []SumsInv
<1>1. Init => SumsInv
  BY DEF Init, SumsInv, FillsBalance, DeployedIsCounted
<1>2. RunInv /\ SumsInv /\ [Next]_vars => SumsInv'
  BY NextFillsBalance, NextDeployedIsCounted DEF SumsInv
<1> QED
  BY <1>1, <1>2, RunInvariant, PTL DEF Spec

\* The buys of one run are checked against the snapshot it began with; they
\* still never take what is deployed further past the cap than the other new
\* positions of that run, at whatever closes and however many runs there are.
THEOREM OvershootIsBounded == Spec => []OvershootBounded
<1>1. RunInv /\ SumsInv => OvershootBounded
  <2> SUFFICES ASSUME RunInv, SumsInv, pc = "run"
               PROVE  \/ Deployed <= Snapshot.deployed
                      \/ Deployed <= TotalDeployedMax
                                       + (MaxNewPositions - 1) * PerTradeMax
    BY DEF OvershootBounded
  <2> DEFINE n == counters.opened
             m == MaxNewPositions
             p == PerTradeMax
             d == Snapshot.deployed
  <2>1. /\ n \in Nat /\ m \in Nat /\ p \in Nat /\ n <= m
        /\ TotalDeployedMax \in Int
    BY LimitsAssumption DEF RunInv, TypeOK
  <2>2. d \in Int /\ Deployed \in Int
    BY DeployedType DEF RunInv
  <2>3. n * p <= m * p /\ n * p \in Nat /\ m * p \in Nat
    BY <2>1, TimesMonotone
  <2>4. (m - 1) * p = m * p - p
    BY <2>1
  <2>5. /\ Deployed <= d + n * p
        /\ n > 0 => d + p <= TotalDeployedMax
    BY DEF SumsInv, DeployedIsCounted
  <2> HIDE DEF d
  <2>6. CASE n = 0
    <3>1. n * p = 0
      BY <2>1, <2>6
    <3>2. Deployed <= d
      BY <2>2, <2>5, <3>1
    <3> QED
      BY <3>2 DEF d
  <2>7. CASE n > 0
    BY <2>1, <2>2, <2>3, <2>4, <2>5, <2>7
  <2> QED
    BY <2>1, <2>6, <2>7
<1> QED
  BY <1>1, RunInvariant, SumsInvariant, PTL

\* No dollar is lost or made up between two saved files: whatever a run
\* filled, and whether it was halted, died or ran over midnight, cash plus
\* cost basis moves by what the day's counter says was realized.
THEOREM BooksAreBalanced == Spec => BooksBalance
<1> DEFINE Counter == IF saved.date = "today" THEN saved.realized ELSE 0
           Balanced == saved'.date = "today" =>
                         Worth(saved') = Worth(saved) + saved'.realized - Counter
<1>1. RunInv /\ SumsInv /\ [Next]_vars => [Balanced]_vars
  <2> SUFFICES ASSUME RunInv, SumsInv, Next, saved'.date = "today"
               PROVE  Worth(saved') = Worth(saved) + saved'.realized - Counter
    OBVIOUS
  <2>1. saved \in Account /\ TypeOK
    BY DEF RunInv, TypeOK
  <2>2. Rolled.realized = Counter
    BY <2>1 DEF Rolled, RollToDay, Account
  <2>3. /\ Worth(Rolled) = Worth(saved)
        /\ Worth(saved) \in Int /\ Rolled.realized \in Int
    BY <2>1, RolledWorth
  <2>4. CASE saved' = Rolled
    BY <2>2, <2>3, <2>4
  <2>5. CASE EndRun
    <3>1. pc = "run" /\ saved' = state
      BY <2>5 DEF EndRun
    <3> QED
      BY <2>2, <3>1 DEF SumsInv, FillsBalance
  <2>6. CASE saved' = saved
    <3>1. Rolled = saved
      BY <2>6 DEF Rolled, RollToDay
    <3> QED
      BY <2>4, <2>6, <3>1
  <2>7. CASE NewDay
    <3>1. saved'.date = "earlier"
      BY <2>1, <2>7 DEF NewDay, Account
    <3> QED
      BY <3>1
  <2>8. CASE HaltedRun
    BY <2>4, <2>8 DEF HaltedRun
  <2>9. CASE BeginRun \/ Crash \/ Operator
               \/ \E s \in Symbols : RejectOrder(s) \/ PlaceOrder(s)
    BY <2>6, <2>9 DEF BeginRun, Crash, RejectOrder, PlaceOrder, Operator,
                      ToggleHaltFile, DropSymbol, ListSymbol
  <2> QED
    BY <2>5, <2>7, <2>8, <2>9 DEF Next, RunStep
<1> QED
  BY <1>1, RunInvariant, SumsInvariant, PTL DEF Spec, BooksBalance

(***************************************************************************)
(* A run as a whole.                                                       *)
(***************************************************************************)

\* A sell is of a symbol the snapshot holds, for what the snapshot says.
LEMMA SellIsOfHeld ==
  ASSUME RunInv, NEW s \in orders, pc = "run", IsSell(s)
  PROVE  /\ s \in universe \cap HeldSymbols(saved)
         /\ OrderOf(s) = [symbol |-> s, side |-> "sell",
                          notional |-> PositionValue(Rolled, price, s)]
<1>1. TypeOK /\ s \in universe
  BY DEF RunInv, TypeOK
<1>2. WantsSell(s, price, target)
  BY DEF IsSell, OrderOf
<1>3. s \in HeldSymbols(saved)
  BY <1>1, <1>2, SnapshotFields DEF WantsSell
<1> QED
  BY <1>1, <1>2, <1>3 DEF OrderOf

\* One more symbol adds its value.
LEMMA ValueOfOneMore ==
  ASSUME NEW a \in Account, NEW p \in [Symbols -> Prices],
         NEW S \in SUBSET Symbols, NEW s \in Symbols \ S
  PROVE  /\ ValueOf(a, p, S) \in Int
         /\ PositionValue(a, p, s) \in Int
         /\ ValueOf(a, p, S \cup {s}) = ValueOf(a, p, S) + PositionValue(a, p, s)
<1> DEFINE T == S \cup {s}
<1>1. T \in SUBSET Symbols /\ T \ {s} = S /\ s \in T
  OBVIOUS
<1> HIDE DEF T
<1>2. IsFiniteSet(T) /\ \A r \in T : ValueFn(a, p)[r] \in Nat
  BY <1>1, ValueType
<1>3. \A r \in T : ValueFn(a, p)[r] \in Int
  BY <1>2
<1>4. Sum(ValueFn(a, p), T) = ValueFn(a, p)[s] + Sum(ValueFn(a, p), S)
  BY <1>1, <1>2, <1>3, SumTakesOut
<1>5. ValueFn(a, p)[s] = PositionValue(a, p, s) /\ ValueFn(a, p)[s] \in Int
  BY <1>1, <1>3 DEF ValueFn
<1>6. ValueOf(a, p, S) \in Int
  BY ValueType
<1>7. ValueOf(a, p, T) = ValueOf(a, p, S) + PositionValue(a, p, s)
  BY <1>1, <1>4, <1>5, <1>6, ValueIsSum
<1> QED
  BY <1>5, <1>6, <1>7 DEF T

\* One more symbol is one more to count.
LEMMA OneMore ==
  ASSUME NEW S \in SUBSET Symbols, NEW s \in Symbols \ S
  PROVE  /\ Cardinality(S) \in Nat
         /\ Cardinality(S \cup {s}) = Cardinality(S) + 1
<1>1. IsFiniteSet(S)
  BY SymbolsAssumption, FS_Subset
<1> QED
  BY <1>1, FS_CardinalityType, FS_AddElement

LEMMA OneMoreTimes ==
  \A n, p \in Nat : (n + 1) * p = n * p + p /\ n * p \in Int
OBVIOUS

\* What the limits of a run come from, in a state that has booked trades.
LEMMA BookedTypes ==
  ASSUME RunInv
  PROVE  /\ saved \in Account /\ Rolled \in Account /\ state \in Account
         /\ price \in [Symbols -> Prices]
         /\ universe \in SUBSET Symbols
         /\ saved.cash \in Int /\ Rolled.realized \in Int
         /\ counters.orders \in Nat /\ counters.opened \in Nat
         /\ PerTradeMax \in Nat
BY RolledAccount, LimitsAssumption DEF RunInv, TypeOK, Account

LEMMA BuyKeepsTradesBooked ==
  ASSUME RunInv, NEW s \in Symbols, PlaceOrder(s),
         IsBuy(s), s \notin HeldSymbols(saved),
         state.positions[s] = NoPosition,
         NEW bought \in SUBSET Symbols, NEW sold \in SUBSET Symbols,
         TradesBooked(bought, sold)
  PROVE  TradesBooked(bought \cup {s}, sold)'
<1> DEFINE o == [symbol |-> s, side |-> "buy", notional |-> PerTradeMax]
           proceeds == ValueOf(Rolled, price, sold)
           n == Cardinality(bought)
           k == Cardinality(sold)
<1>1. /\ pc = "run" /\ s \in orders /\ orders' = orders \ {s}
      /\ UNCHANGED <<saved, price, universe>>
  BY DEF PlaceOrder, NextOrder, inputs, config
<1>2. Rolled' = Rolled /\ Snapshot' = Snapshot
  BY <1>1, DeployedUnchanged DEF Rolled, RollToDay
<1>3. /\ bought \subseteq universe \ HeldSymbols(saved)
      /\ sold \subseteq universe \cap HeldSymbols(saved)
      /\ orders \cap (bought \cup sold) = {}
      /\ n = counters.opened /\ n + k = counters.orders
      /\ \A r \in sold : PositionValue(Rolled, price, r) <= PerTradeMax
  BY DEF TradesBooked
<1>4. s \in Symbols \ bought /\ s \notin sold /\ s \in universe
  BY <1>1, <1>3 DEF RunInv, TypeOK
<1>5. n \in Nat /\ Cardinality(bought \cup {s}) = n + 1
  BY <1>4, OneMore
<1>6. /\ ValidOrder(o, Snapshot, counters)
      /\ state' = Bought(state, o, price[s])
      /\ counters' = Counted(o, Snapshot, counters)
  BY DEF IsBuy, PlaceOrder, ApplyFill
<1>7. k \in Nat
  BY SymbolsAssumption, FS_Subset, FS_CardinalityType
<1>8. /\ counters'.opened = n + 1
      /\ counters'.orders = n + k + 1
  BY <1>3, <1>6, BuyBooks DEF Counted
<1>9. PerTradeMax <= saved.cash
  BY <1>6, SnapshotFields DEF ValidOrder, AffordableFrom, Snapshot, RunInv
<1>10. Snapshot.deployed + PerTradeMax <= TotalDeployedMax
  BY BuyBooks
<1>11. state'.date = "today"
  BY <1>6, BookedTypes DEF Bought, Account, TradesBooked
<1>12. proceeds \in Int
  BY BookedTypes, ValueType
<1>13. /\ state'.cash = saved.cash + proceeds - (n + 1) * PerTradeMax
       /\ state'.realized = Rolled.realized + proceeds - k * PerTradeMax
  <2>1. /\ state.cash = saved.cash + proceeds - n * PerTradeMax
        /\ state.realized = Rolled.realized + proceeds - k * PerTradeMax
    BY DEF TradesBooked
  <2>2. /\ state'.cash = state.cash - PerTradeMax
        /\ state'.realized = state.realized
    BY BuyBooks
  <2>3. (n + 1) * PerTradeMax = n * PerTradeMax + PerTradeMax
        /\ n * PerTradeMax \in Int /\ k * PerTradeMax \in Int
    BY <1>5, <1>7, BookedTypes, OneMoreTimes
  <2> HIDE DEF proceeds, n, k
  <2> QED
    BY <1>12, <2>1, <2>2, <2>3, BookedTypes
<1>14. state'.positions =
         [r \in Symbols |->
            IF r \in bought \cup {s}
            THEN [shares |-> PerTradeMax \div price[r], cost |-> PerTradeMax]
            ELSE IF r \in sold THEN NoPosition ELSE saved.positions[r]]
  <2>1. state'.positions = [state.positions EXCEPT ![s] =
          [shares |-> PerTradeMax \div price[s], cost |-> PerTradeMax]]
    BY BuyKeepsRunInv
  <2>2. state.positions =
         [r \in Symbols |->
            IF r \in bought
            THEN [shares |-> PerTradeMax \div price[r], cost |-> PerTradeMax]
            ELSE IF r \in sold THEN NoPosition ELSE saved.positions[r]]
    BY DEF TradesBooked
  <2> QED
    BY <1>4, <2>1, <2>2
<1> HIDE DEF o, n, k
<1>15. proceeds = ValueOf(Rolled, price, sold)'
  BY <1>1, <1>2
<1>16. (bought \cup {s}) \subseteq universe \ HeldSymbols(saved)
  BY <1>3, <1>4
<1>17. orders' \cap ((bought \cup {s}) \cup sold) = {}
  BY <1>1, <1>3
<1>18. HeldSymbols(saved)' = HeldSymbols(saved)
  BY <1>1
<1>19. n + 1 + k = n + k + 1
  BY <1>5, <1>7 DEF n, k
<1> HIDE DEF proceeds
<1> QED
  BY <1>1, <1>2, <1>3, <1>5, <1>8, <1>9, <1>10, <1>11, <1>13, <1>14, <1>15,
     <1>16, <1>17, <1>18, <1>19
     DEF TradesBooked, n, k

LEMMA SellKeepsTradesBooked ==
  ASSUME RunInv, NEW s \in Symbols, PlaceOrder(s), IsSell(s),
         NEW bought \in SUBSET Symbols, NEW sold \in SUBSET Symbols,
         TradesBooked(bought, sold)
  PROVE  TradesBooked(bought, sold \cup {s})'
<1> DEFINE value == PositionValue(Rolled, price, s)
           o == [symbol |-> s, side |-> "sell", notional |-> value]
           proceeds == ValueOf(Rolled, price, sold)
           n == Cardinality(bought)
           k == Cardinality(sold)
<1>1. /\ pc = "run" /\ s \in orders /\ orders' = orders \ {s}
      /\ UNCHANGED <<saved, price, universe>>
  BY DEF PlaceOrder, NextOrder, inputs, config
<1>2. Rolled' = Rolled /\ Snapshot' = Snapshot
  BY <1>1, DeployedUnchanged DEF Rolled, RollToDay
<1>3. /\ bought \subseteq universe \ HeldSymbols(saved)
      /\ sold \subseteq universe \cap HeldSymbols(saved)
      /\ orders \cap (bought \cup sold) = {}
      /\ n = counters.opened /\ n + k = counters.orders
      /\ \A r \in sold : PositionValue(Rolled, price, r) <= PerTradeMax
      /\ bought # {} =>
           /\ PerTradeMax <= saved.cash
           /\ Snapshot.deployed + PerTradeMax <= TotalDeployedMax
  BY DEF TradesBooked
<1>4. s \in universe \cap HeldSymbols(saved) /\ OrderOf(s) = o
  BY <1>1, SellIsOfHeld
<1>5. s \in Symbols \ sold /\ s \notin bought
  BY <1>1, <1>3
<1>6. k \in Nat /\ Cardinality(sold \cup {s}) = k + 1
  BY <1>5, OneMore
<1>7. /\ ValidOrder(o, Snapshot, counters)
      /\ state' = Sold(state, o)
      /\ counters' = Counted(o, Snapshot, counters)
  BY <1>4 DEF PlaceOrder, ApplyFill
<1>8. n \in Nat
  BY SymbolsAssumption, FS_Subset, FS_CardinalityType
<1>9. /\ counters'.opened = n
      /\ counters'.orders = n + k + 1
  BY <1>3, <1>7, SellBooks DEF Counted
<1>10. value <= PerTradeMax
  BY <1>7 DEF ValidOrder
<1>11. state'.date = "today"
  BY <1>7, BookedTypes DEF Sold, Account, TradesBooked
<1>12. /\ proceeds \in Int /\ value \in Int
       /\ ValueOf(Rolled, price, sold \cup {s}) = proceeds + value
  BY <1>5, BookedTypes, ValueOfOneMore
<1>13. state.positions[s].cost = PerTradeMax
  <2>1. state.positions[s] = saved.positions[s]
    BY <1>1 DEF RunInv, RunFollowsSnapshot
  <2>2. saved.positions[s] # NoPosition
    BY <1>4 DEF HeldSymbols, NoPosition
  <2> QED
    BY <2>1, <2>2 DEF RunInv, SavedWhole
<1>14. /\ state'.cash = state.cash + value
       /\ state'.realized = state.realized + value - PerTradeMax
  <2> HIDE DEF value
  <2> QED
    BY <1>7, <1>13, BookedTypes DEF Sold, Account
<1>15. /\ state'.cash = saved.cash + (proceeds + value) - n * PerTradeMax
       /\ state'.realized =
            Rolled.realized + (proceeds + value) - (k + 1) * PerTradeMax
  <2>1. /\ state.cash = saved.cash + proceeds - n * PerTradeMax
        /\ state.realized = Rolled.realized + proceeds - k * PerTradeMax
    BY DEF TradesBooked
  <2>2. (k + 1) * PerTradeMax = k * PerTradeMax + PerTradeMax
        /\ n * PerTradeMax \in Int /\ k * PerTradeMax \in Int
    BY <1>6, <1>8, BookedTypes, OneMoreTimes
  <2> HIDE DEF proceeds, n, k, value
  <2> QED
    BY <1>12, <1>14, <2>1, <2>2, BookedTypes
<1>16. state'.positions =
         [r \in Symbols |->
            IF r \in bought
            THEN [shares |-> PerTradeMax \div price[r], cost |-> PerTradeMax]
            ELSE IF r \in sold \cup {s} THEN NoPosition ELSE saved.positions[r]]
  <2>1. state'.positions = [state.positions EXCEPT ![s] = NoPosition]
    BY SellKeepsRunInv
  <2>2. state.positions =
         [r \in Symbols |->
            IF r \in bought
            THEN [shares |-> PerTradeMax \div price[r], cost |-> PerTradeMax]
            ELSE IF r \in sold THEN NoPosition ELSE saved.positions[r]]
    BY DEF TradesBooked
  <2> QED
    BY <1>5, <2>1, <2>2
<1> HIDE DEF o, n, k
<1>17. ValueOf(Rolled, price, sold \cup {s})' = proceeds + value
  BY <1>1, <1>2, <1>12
<1>18. (sold \cup {s}) \subseteq universe \cap HeldSymbols(saved)
  BY <1>3, <1>4
<1>19. orders' \cap (bought \cup (sold \cup {s})) = {}
  BY <1>1, <1>3
<1>20. HeldSymbols(saved)' = HeldSymbols(saved)
  BY <1>1
<1>21. n + (k + 1) = n + k + 1
  BY <1>6, <1>8 DEF n, k
<1>22. \A r \in sold \cup {s} : PositionValue(Rolled, price, r) <= PerTradeMax
  BY <1>3, <1>10
<1>23. /\ bought \subseteq universe \ HeldSymbols(saved)
       /\ Cardinality(bought) = n /\ Cardinality(sold \cup {s}) = k + 1
       /\ bought # {} =>
            /\ PerTradeMax <= saved.cash
            /\ Snapshot.deployed + PerTradeMax <= TotalDeployedMax
  BY <1>3, <1>6 DEF n, k
<1> HIDE DEF proceeds, value
<1> QED
  BY <1>1, <1>2, <1>9, <1>11, <1>15, <1>16, <1>17, <1>18, <1>19, <1>20,
     <1>21, <1>22, <1>23
     DEF TradesBooked

LEMMA ValueOfNone ==
  ASSUME NEW a, NEW p
  PROVE  ValueOf(a, p, {}) = 0
BY ValueIsSum, SumOfNone

\* A run begins with no trades booked.
LEMMA BeginRunBooksNothing ==
  ASSUME RunInv, BeginRun
  PROVE  RunIsTrades'
<1>1. /\ state' = Rolled /\ counters' = NewRun
      /\ UNCHANGED <<saved, universe>>
      /\ ~Halted(SnapshotAt(price'), haltFile)
  BY DEF BeginRun, config
<1>2. Rolled' = Rolled
  BY <1>1 DEF Rolled, RollToDay
<1>3. TypeOK
  BY DEF RunInv
<1>4. Rolled.realized > -DailyLossLimit
  <2>1. ~(Rolled.realized <= -DailyLossLimit)
    BY <1>1, <1>3, SnapshotFields DEF Halted
  <2>2. Rolled.realized \in Int /\ DailyLossLimit \in Nat
    BY BookedTypes, LimitsAssumption
  <2> QED
    BY <2>1, <2>2
<1>5. Rolled.date = "today" /\ Rolled.cash = saved.cash
      /\ Rolled.positions = saved.positions
  BY <1>3, RolledAccount DEF Rolled, RollToDay, TypeOK, Account
<1>6. Cardinality({}) = 0 /\ ValueOf(Rolled, price', {}) = 0
  BY FS_EmptySet, ValueOfNone
<1>7. /\ 0 * PerTradeMax = 0
      /\ saved.cash + 0 - 0 * PerTradeMax = saved.cash
      /\ Rolled.realized + 0 - 0 * PerTradeMax = Rolled.realized
  BY BookedTypes
<1>8. saved.positions = [s \in Symbols |-> saved.positions[s]]
  BY BookedTypes DEF Account
<1>9. TradesBooked({}, {})'
  BY <1>1, <1>2, <1>5, <1>6, <1>7, <1>8 DEF TradesBooked, NewRun
<1> QED
  BY <1>2, <1>4, <1>9 DEF RunIsTrades

LEMMA NextRunIsTrades ==
  RunInv /\ RunIsTrades /\ [Next]_vars => RunIsTrades'
<1> SUFFICES ASSUME RunInv, RunIsTrades, [Next]_vars PROVE RunIsTrades'
  OBVIOUS
<1>1. CASE BeginRun
  BY <1>1, BeginRunBooksNothing
<1>2. ASSUME NEW s \in Symbols, PlaceOrder(s) PROVE RunIsTrades'
  <2>1. pc = "run" /\ s \in orders /\ saved' = saved
    BY <1>2 DEF PlaceOrder, NextOrder
  <2>2. Rolled' = Rolled /\ Rolled.realized > -DailyLossLimit
    BY <2>1 DEF Rolled, RollToDay, RunIsTrades
  <2>3. PICK bought \in SUBSET Symbols, sold \in SUBSET Symbols :
          TradesBooked(bought, sold)
    BY <2>1 DEF RunIsTrades
  <2>4. CASE IsBuy(s) /\ s \notin HeldSymbols(saved)
                      /\ state.positions[s] = NoPosition
    <3>1. TradesBooked(bought \cup {s}, sold)'
      BY <1>2, <2>3, <2>4, BuyKeepsTradesBooked
    <3>2. bought \cup {s} \in SUBSET Symbols
      OBVIOUS
    <3> QED
      BY <2>2, <3>1, <3>2 DEF RunIsTrades
  <2>5. CASE IsSell(s)
    <3>1. TradesBooked(bought, sold \cup {s})'
      BY <1>2, <2>3, <2>5, SellKeepsTradesBooked
    <3>2. sold \cup {s} \in SUBSET Symbols
      OBVIOUS
    <3> QED
      BY <2>2, <3>1, <3>2 DEF RunIsTrades
  <2> QED
    BY <2>1, <2>4, <2>5, OrdersAreBuysOrSells
<1>3. ASSUME UNCHANGED <<saved, state, counters, pc, price, universe>>,
             orders' \subseteq orders
      PROVE  RunIsTrades'
  <2>1. Rolled' = Rolled /\ Snapshot' = Snapshot
    BY <1>3, DeployedUnchanged DEF Rolled, RollToDay
  <2>2. ASSUME NEW bought \in SUBSET Symbols, NEW sold \in SUBSET Symbols,
               TradesBooked(bought, sold)
        PROVE  TradesBooked(bought, sold)'
    <3>1. /\ ValueOf(Rolled, price, sold)' = ValueOf(Rolled, price, sold)
          /\ HeldSymbols(saved)' = HeldSymbols(saved)
      BY <1>3, <2>1
    <3>2. orders \cap (bought \cup sold) = {}
      BY <2>2 DEF TradesBooked
    <3>3. orders' \cap (bought \cup sold) = {}
      BY <1>3, <3>2
    <3> QED
      BY <1>3, <2>1, <2>2, <3>1, <3>3 DEF TradesBooked
  <2> QED
    BY <1>3, <2>1, <2>2 DEF RunIsTrades
<1>4. ASSUME pc' = "idle" PROVE RunIsTrades'
  BY <1>4 DEF RunIsTrades
<1>5. CASE HaltedRun
  BY <1>4, <1>5 DEF HaltedRun
<1>6. ASSUME NEW s \in Symbols, RejectOrder(s) PROVE RunIsTrades'
  <2>1. /\ UNCHANGED <<saved, state, counters, pc, price, universe>>
        /\ orders' \subseteq orders
    BY <1>6 DEF RejectOrder, inputs, config
  <2> QED
    BY <1>3, <2>1
<1>7. CASE EndRun \/ Crash \/ NewDay
  BY <1>4, <1>7 DEF EndRun, Crash, NewDay
<1>8. CASE Operator
  <2>1. \/ pc' = "idle"
        \/ /\ UNCHANGED <<saved, state, counters, pc, price, universe>>
           /\ orders' \subseteq orders
    BY <1>8 DEF Operator, ToggleHaltFile, DropSymbol, ListSymbol, run, inputs
  <2> QED
    BY <1>3, <1>4, <2>1
<1>9. CASE UNCHANGED vars
  <2>1. /\ UNCHANGED <<saved, state, counters, pc, price, universe>>
        /\ orders' \subseteq orders
    BY <1>9 DEF vars, run, inputs, config
  <2> QED
    BY <1>3, <2>1
<1> QED
  BY <1>1, <1>2, <1>5, <1>6, <1>7, <1>8, <1>9 DEF Next, RunStep

LEMMA RunIsTradesInvariant == Spec => []RunIsTrades
<1>1. Init => RunIsTrades
  BY DEF Init, RunIsTrades
<1> QED
  BY <1>1, NextRunIsTrades, RunInvariant, PTL DEF Spec

(***************************************************************************)
(* The refinement of DailyBook.                                            *)
(***************************************************************************)

\* The abstract book's account is the same one.
LEMMA BookOperators ==
  /\ Book!Initial = Initial
  /\ Book!NoPosition = NoPosition
  /\ \A a : /\ Book!RollToDay(a) = RollToDay(a)
            /\ Book!HeldSymbols(a) = HeldSymbols(a)
  /\ \A a, p, s : Book!PositionValue(a, p, s) = PositionValue(a, p, s)
  /\ \A a, p, S : Book!ValueOf(a, p, S) = ValueOf(a, p, S)
  /\ \A a, S : Book!Valued(a, S) = Valued(a, S)
  /\ \A S : Book!Cardinality(S) = Cardinality(S)
<1>1. Book!NoPosition = NoPosition
  BY DEF Book!NoPosition, NoPosition
<1>2. Book!Initial = Initial
  BY <1>1 DEF Book!Initial, Initial
<1>3. ASSUME NEW a
      PROVE  Book!RollToDay(a) = RollToDay(a)
             /\ Book!HeldSymbols(a) = HeldSymbols(a)
  BY DEF Book!RollToDay, RollToDay, Book!HeldSymbols, HeldSymbols
<1>4. ASSUME NEW a, NEW p, NEW s
      PROVE  Book!PositionValue(a, p, s) = PositionValue(a, p, s)
  BY DEF Book!PositionValue, PositionValue
<1>5. ASSUME NEW a, NEW p, NEW S
      PROVE  Book!ValueOf(a, p, S) = ValueOf(a, p, S)
  BY Zenon DEF Book!ValueOf, ValueOf, Book!PositionValue, PositionValue,
               Book!MapThenSumSet, Book!MapThenFoldSet,
               MapThenSumSet, MapThenFoldSet
<1>6. ASSUME NEW a, NEW S
      PROVE  Book!Valued(a, S) = Valued(a, S)
  BY DEF Book!Valued, Valued, Book!HeldSymbols, HeldSymbols
<1>7. ASSUME NEW S
      PROVE  Book!Cardinality(S) = Cardinality(S)
  BY Zenon DEF Book!Cardinality, Cardinality
<1> QED
  BY <1>1, <1>2, <1>3, <1>4, <1>5, <1>6, <1>7

\* Once its trades are booked, a run is a step of the abstract book.
LEMMA EndRunIsBookStep ==
  ASSUME RunInv, RunIsTrades, EndRun
  PROVE  Book!RunEnds \/ UNCHANGED saved
<1> SUFFICES ASSUME saved' # saved PROVE Book!RunEnds
  OBVIOUS
<1>1. pc = "run" /\ saved' = state
  BY DEF EndRun
<1>2. PICK bought \in SUBSET Symbols, sold \in SUBSET Symbols :
        TradesBooked(bought, sold)
  BY <1>1 DEF RunIsTrades
<1>3. Rolled.realized > -DailyLossLimit
  BY <1>1 DEF RunIsTrades
<1>4. /\ Rolled.cash = saved.cash /\ Rolled.positions = saved.positions
      /\ HeldSymbols(Rolled) = HeldSymbols(saved)
      /\ price \in [Symbols -> Prices] /\ universe \in SUBSET Symbols
  BY RolledAccount DEF RunInv, TypeOK
<1>5. bought \subseteq universe \ HeldSymbols(saved)
      /\ sold \subseteq universe \cap HeldSymbols(saved)
  BY <1>2 DEF TradesBooked
<1>6. \A s \in Symbols :
        state.positions[s].shares =
          IF s \in bought THEN PerTradeMax \div price[s]
          ELSE IF s \in sold THEN 0 ELSE saved.positions[s].shares
  BY <1>2 DEF TradesBooked, NoPosition
<1>7. \A s \in bought : PerTradeMax \div price[s] # 0
  BY <1>4, <1>5, SharesBought
<1>8. /\ HeldSymbols(state) \ HeldSymbols(saved) = bought
      /\ HeldSymbols(saved) \ HeldSymbols(state) = sold
  BY <1>5, <1>6, <1>7 DEF HeldSymbols
<1>9. Book!Opened = bought /\ Book!Closed = sold
  BY <1>1, <1>8, BookOperators DEF Book!Opened, Book!Closed
<1>10. Cardinality(bought) <= MaxNewPositions
       /\ Cardinality(bought) + Cardinality(sold) <= MaxOrders
  <2>1. counters \in [orders : 0..MaxOrders, opened : 0..MaxNewPositions]
    BY DEF RunInv, TypeOK
  <2> QED
    BY <1>2, <2>1, LimitsAssumption DEF TradesBooked
<1>11. Snapshot.deployed = ValueOf(Rolled, price, Valued(Rolled, universe))
  BY DEF Snapshot, SnapshotAt, GuardrailAccount
<1>12. Book!RollToDay(saved) = Rolled
  BY BookOperators DEF Rolled
<1>13. Book!WithinLimits(Rolled, universe, price, bought, sold)
       /\ Book!Booked(Rolled, price, bought, sold)
  <2>1. bought \cup sold \subseteq universe
    BY <1>5
  <2>2. \A s \in sold : Book!PositionValue(Rolled, price, s) <= PerTradeMax
    BY <1>2, BookOperators DEF TradesBooked
  <2>3. bought # {} =>
          /\ PerTradeMax <= Rolled.cash
          /\ Book!ValueOf(Rolled, price, Book!Valued(Rolled, universe))
               + PerTradeMax <= TotalDeployedMax
    BY <1>2, <1>4, <1>11, BookOperators DEF TradesBooked
  <2>4. Book!ValueOf(Rolled, price, sold) = ValueOf(Rolled, price, sold)
    BY BookOperators
  <2>5. saved'.cash = Rolled.cash + ValueOf(Rolled, price, sold)
                        - Cardinality(bought) * PerTradeMax
    BY <1>1, <1>2, <1>4 DEF TradesBooked
  <2>6. saved'.realized = Rolled.realized + ValueOf(Rolled, price, sold)
                            - Cardinality(sold) * PerTradeMax
    BY <1>1, <1>2 DEF TradesBooked
  <2>7. saved'.positions =
          [s \in Symbols |->
             IF s \in bought
             THEN [shares |-> PerTradeMax \div price[s], cost |-> PerTradeMax]
             ELSE IF s \in sold THEN Book!NoPosition ELSE Rolled.positions[s]]
    BY <1>1, <1>2, <1>4, BookOperators DEF TradesBooked
  <2>8. Book!WithinLimits(Rolled, universe, price, bought, sold)
    BY <1>3, <1>10, <2>1, <2>2, <2>3, BookOperators DEF Book!WithinLimits
  <2>9. Book!Booked(Rolled, price, bought, sold)
    BY <2>4, <2>5, <2>6, <2>7, BookOperators DEF Book!Booked
  <2> QED
    BY <2>8, <2>9
<1>14. saved'.date = "today"
  BY <1>1, <1>2 DEF TradesBooked
<1> QED
  BY <1>4, <1>9, <1>12, <1>13, <1>14 DEF Book!RunEnds

\* A halted run only rolls the account to the day.
LEMMA HaltedRunIsBookStep ==
  ASSUME RunInv, HaltedRun
  PROVE  Book!RunEnds \/ UNCHANGED saved
<1> SUFFICES ASSUME saved' # saved PROVE Book!RunEnds
  OBVIOUS
<1>1. saved' = Rolled
  BY DEF HaltedRun
<1>2. /\ Rolled.date = "today" /\ Rolled.positions = saved.positions
      /\ HeldSymbols(Rolled) = HeldSymbols(saved)
      /\ price \in [Symbols -> Prices]
  BY RolledAccount DEF Rolled, RollToDay, RunInv, TypeOK, Account
<1>3. Book!Opened = {} /\ Book!Closed = {}
  BY <1>1, <1>2, BookOperators DEF Book!Opened, Book!Closed
<1>4. Book!RollToDay(saved) = Rolled
  BY BookOperators DEF Rolled
<1>5. Cardinality({}) = 0 /\ Book!ValueOf(Rolled, price, {}) = 0
  BY FS_EmptySet, ValueOfNone, BookOperators
<1>6. /\ 0 <= MaxNewPositions /\ 0 + 0 <= MaxOrders
      /\ 0 * PerTradeMax = 0
      /\ Rolled.cash + 0 - 0 * PerTradeMax = Rolled.cash
      /\ Rolled.realized + 0 - 0 * PerTradeMax = Rolled.realized
  BY LimitsAssumption, BookedTypes DEF Account
<1>7. Rolled.positions = [s \in Symbols |-> Rolled.positions[s]]
  BY BookedTypes DEF Account
<1>8. Book!WithinLimits(Rolled, {}, price, {}, {})
  BY <1>5, <1>6, BookOperators DEF Book!WithinLimits
<1>9. Book!Booked(Rolled, price, {}, {})
  BY <1>1, <1>5, <1>6, <1>7, BookOperators DEF Book!Booked
<1> QED
  BY <1>1, <1>2, <1>3, <1>4, <1>8, <1>9 DEF Book!RunEnds

\* Whatever the stale snapshot let through order by order, wherever runs died
\* or were halted, and however often a day was run: what reaches the file is
\* the trades of whole runs, and each run's trades together are within the
\* limits as the account stood before the run.
THEOREM RunsAreBookTrades == Spec => ImplementsDailyBook
<1>1. Init => Book!Init
  BY BookOperators DEF Init, Book!Init
<1>2. RunInv /\ RunIsTrades /\ [Next]_vars => [Book!Next]_saved
  <2> SUFFICES ASSUME RunInv, RunIsTrades, [Next]_vars, saved' # saved
               PROVE  Book!Next
    OBVIOUS
  <2>1. CASE EndRun
    BY <2>1, EndRunIsBookStep DEF Book!Next
  <2>2. CASE HaltedRun
    BY <2>2, HaltedRunIsBookStep DEF Book!Next
  <2>3. CASE NewDay
    BY <2>3 DEF NewDay, Book!Next, Book!DayEnds
  <2>4. CASE BeginRun \/ Crash \/ Operator
               \/ \E s \in Symbols : RejectOrder(s) \/ PlaceOrder(s)
    BY <2>4 DEF BeginRun, Crash, RejectOrder, PlaceOrder, Operator,
                ToggleHaltFile, DropSymbol, ListSymbol
  <2>5. CASE UNCHANGED vars
    BY <2>5 DEF vars
  <2> QED
    BY <2>1, <2>2, <2>3, <2>4, <2>5 DEF Next, RunStep
<1> QED
  BY <1>1, <1>2, RunInvariant, RunIsTradesInvariant, PTL
     DEF Spec, ImplementsDailyBook, Book!Spec

(***************************************************************************)
(* The deployed-capital cap, order by order.                               *)
(***************************************************************************)

\* A run holds what it began with and what it was quoted.
LEMMA HeldIsQuoted ==
  ASSUME RunIsTrades, pc = "run", HeldSymbols(saved) \subseteq universe
  PROVE  HeldSymbols(state) \subseteq universe
<1>1. PICK bought \in SUBSET Symbols, sold \in SUBSET Symbols :
        TradesBooked(bought, sold)
  BY DEF RunIsTrades
<1>2. bought \subseteq universe
  BY <1>1 DEF TradesBooked
<1>3. \A s \in Symbols \ bought :
        state.positions[s] \in {NoPosition, saved.positions[s]}
  BY <1>1 DEF TradesBooked
<1> QED
  BY <1>2, <1>3 DEF HeldSymbols, NoPosition

LEMMA BuyNearCap ==
  ASSUME RunInv, DeployedIsCounted, RunIsTrades, RunIsTrades',
         NEW s \in Symbols, PlaceOrder(s), OrderOf(s).side = "buy",
         HeldSymbols(saved) \subseteq universe
  PROVE  /\ counters'.opened > 0
         /\ ValueOf(state', price, HeldSymbols(state'))
              <= TotalDeployedMax + (counters'.opened - 1) * PerTradeMax
<1>1. /\ pc = "run" /\ pc' = "run" /\ s \in orders
      /\ UNCHANGED <<saved, price, universe>>
  BY DEF PlaceOrder, NextOrder, inputs, config
<1>2. IsBuy(s) /\ s \notin HeldSymbols(saved)
  BY <1>1, OrdersAreBuysOrSells DEF IsSell
<1>3. /\ counters'.opened = counters.opened + 1
      /\ Snapshot.deployed + PerTradeMax <= TotalDeployedMax
  BY <1>2, BuyBooks
<1>4. DeployedIsCounted'
  BY PlaceOrderKeepsDeployedIsCounted
<1>5. Snapshot' = Snapshot
  BY <1>1, DeployedUnchanged
<1>6. HeldSymbols(state') \subseteq universe
  <2>1. (RunIsTrades /\ pc = "run" /\ HeldSymbols(saved) \subseteq universe
          => HeldSymbols(state) \subseteq universe)'
    BY HeldIsQuoted, PTL
  <2> QED
    BY <1>1, <2>1 DEF HeldSymbols
<1>7. Deployed' = ValueOf(state', price, HeldSymbols(state'))
  <2>1. Valued(state', universe) = HeldSymbols(state')
    BY <1>6 DEF Valued
  <2>2. Deployed' = ValueOf(state', price, Valued(state', universe))
    BY <1>1 DEF Deployed
  <2> QED
    BY <2>1, <2>2
<1>8. /\ counters.opened \in Nat /\ PerTradeMax \in Nat
      /\ TotalDeployedMax \in Int /\ Snapshot.deployed \in Int
  BY DeployedType, LimitsAssumption DEF RunInv, TypeOK
<1>9. Deployed' \in Int
  <2>1. TypeOK'
    BY PlaceOrderKeepsRunInv DEF RunInv
  <2>2. state' \in Account /\ price \in [Symbols -> Prices]
    BY <1>1, <2>1 DEF TypeOK, RunInv
  <2>3. HeldSymbols(state') \in SUBSET Symbols
    BY DEF HeldSymbols
  <2> QED
    BY <1>7, <2>2, <2>3, ValueType
<1> DEFINE d == Snapshot.deployed
           n == counters.opened
           c == n * PerTradeMax
<1>10. c \in Int /\ (n + 1) * PerTradeMax = c + PerTradeMax
       /\ (n + 1 - 1) * PerTradeMax = c
  BY <1>8
<1>11. Deployed' <= d + (n + 1) * PerTradeMax
  BY <1>1, <1>3, <1>4, <1>5 DEF DeployedIsCounted
<1> HIDE DEF d, c
<1>12. d \in Int /\ d + PerTradeMax <= TotalDeployedMax
  BY <1>3, <1>8 DEF d
<1>13. Deployed' <= TotalDeployedMax + c
  BY <1>8, <1>9, <1>10, <1>11, <1>12
<1>14. (counters'.opened - 1) * PerTradeMax = c /\ counters'.opened > 0
  BY <1>3, <1>8, <1>10
<1> QED
  BY <1>7, <1>13, <1>14

\* The cap is passed by nothing but the snapshot the later buys of a run are
\* checked against: the first buy of a run keeps it, and so does every buy if a run
\* may open one position; the k-th passes it by at most k - 1 notionals.
THEOREM BuysStayNearCap == Spec => BuysNearCap
<1>1. RunInv /\ SumsInv /\ RunIsTrades /\ RunIsTrades' /\ [Next]_vars
        => [\A s \in Symbols :
              /\ PlaceOrder(s) /\ OrderOf(s).side = "buy"
              /\ HeldSymbols(saved) \subseteq universe
              => /\ counters'.opened > 0
                 /\ ValueOf(state', price, HeldSymbols(state'))
                      <= TotalDeployedMax
                           + (counters'.opened - 1) * PerTradeMax]_vars
  BY BuyNearCap DEF SumsInv
<1> QED
  BY <1>1, RunInvariant, SumsInvariant, RunIsTradesInvariant, PTL
     DEF Spec, BuysNearCap
=============================================================================
