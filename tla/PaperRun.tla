------------------------------- MODULE PaperRun -------------------------------
(***************************************************************************)
(* paper_run.py: the daily paper-trading run over the persisted account.   *)
(*                                                                         *)
(* A run loads the account, rolls it to the day, takes ONE snapshot of it  *)
(* for the guardrails, derives an order per symbol whose target differs    *)
(* from what is held, and executes them in the order of the universe; each *)
(* accepted order is journaled and booked in memory, and the account is    *)
(* saved when all of them are done.                                        *)
(*                                                                         *)
(* Symbols are 1..n, in the order the universe lists them.  The closes and *)
(* the strategy's latest targets are inputs of a run.  The saved file is   *)
(* replaced atomically.                                                    *)
(***************************************************************************)
EXTENDS Guardrails, PaperAccount

CONSTANTS
  Prices,     \* closes; each divides the per-trade notional
  Targets,    \* latest positions of the strategy (0 flat, 1 long)
  CashBand,   \* bound: no run starts once realized P&L leaves this band
  MaxCrashes  \* bound: runs that die

ASSUME SymbolsAssumption ==
  IsFiniteSet(Symbols) /\ Symbols = 1..Cardinality(Symbols)
ASSUME TickersAssumption == Symbols \subseteq Tickers
ASSUME CashAssumption == StartingCash \in Nat /\ CashBand \in Nat
ASSUME PricesAssumption ==
  /\ Prices # {}
  /\ \A p \in Prices : p \in Nat \ {0} /\ PerTradeMax % p = 0
ASSUME TargetsAssumption == Targets \subseteq {-1, 0, 1} /\ Targets # {}
ASSUME CrashesAssumption == MaxCrashes \in Nat

VARIABLES
  saved,     \* journal/paper_account.json
  state,     \* the run's AccountState
  counters,  \* the run's RunState
  pc,        \* "idle" or "run"
  orders,    \* symbols whose order of this run is still to execute
  price,     \* last cached close of each symbol
  target,    \* latest target position of each symbol
  universe,  \* symbols the configuration lists
  haltFile,  \* the HALT file is present
  crashes    \* number of runs that died

run == <<state, counters, pc, orders>>
inputs == <<price, target>>
config == <<universe, haltFile>>
vars == <<saved, run, inputs, config, crashes>>

(***************************************************************************)
(* The snapshot is taken before the first order and never refreshed.  The  *)
(* file is not written meanwhile, so it is the snapshot's source.          *)
(***************************************************************************)
Rolled == RollToDay(saved)
SnapshotAt(p) == GuardrailAccount(Rolled, p, universe)
Snapshot == SnapshotAt(price)

\* orders_from_positions: buy what is wanted and not held, for the fixed
\* notional; sell what is held and not wanted, for its market value.
WantsBuy_Unconditionally(s, p, t) == t[s] = 1
WantsBuy(s, p, t) == t[s] = 1 /\ s \notin SnapshotAt(p).positions
WantsSell(s, p, t) == t[s] = 0 /\ s \in SnapshotAt(p).positions
OrdersFor_AllSymbols(p, t) == {s \in Symbols : WantsBuy(s, p, t) \/ WantsSell(s, p, t)}
OrdersFor(p, t) == {s \in universe : WantsBuy(s, p, t) \/ WantsSell(s, p, t)}

OrderOf(s) ==
  IF WantsSell(s, price, target)
  THEN [symbol |-> s, side |-> "sell",
        notional |-> PositionValue(Rolled, price, s)]
  ELSE [symbol |-> s, side |-> "buy", notional |-> PerTradeMax]

-----------------------------------------------------------------------------
Account ==
  [date : {"today", "earlier"}, cash : Int, realized : Int,
   positions : [Symbols -> [shares : Nat, cost : Nat]]]

TypeOK ==
  /\ saved \in Account
  /\ state \in Account
  /\ counters \in [orders : 0..MaxOrders, opened : 0..MaxNewPositions]
  /\ pc \in {"idle", "run"}
  /\ orders \in SUBSET universe
  /\ price \in [Symbols -> Prices]
  /\ target \in [Symbols -> Targets]
  /\ universe \in SUBSET Symbols
  /\ haltFile \in BOOLEAN
  /\ crashes \in 0..MaxCrashes

Init ==
  /\ saved = Initial /\ state = Initial
  /\ counters = NewRun
  /\ pc = "idle" /\ orders = {}
  /\ price \in {[s \in Symbols |-> p] : p \in Prices}
  /\ target \in {[s \in Symbols |-> t] : t \in Targets}
  /\ universe = Symbols
  /\ haltFile = FALSE
  /\ crashes = 0

\* The bound on the account's worth: no run starts outside it.
WithinBand ==
  LET worth == saved.cash + CostOf(saved) - StartingCash
  IN worth \in -CashBand..CashBand

\* The run reads closes and targets for the universe and for no other symbol.
Read(p, t) ==
  \A s \in Symbols \ universe : p[s] = price[s] /\ t[s] = target[s]

\* A halted run saves the rolled account and does nothing else.
HaltedRun ==
  /\ pc = "idle" /\ WithinBand
  /\ \E p \in [Symbols -> Prices] :
       /\ Read(p, target)
       /\ Halted(SnapshotAt(p), haltFile)
       /\ price' = p
  /\ saved' = Rolled
  /\ state' = Rolled
  /\ UNCHANGED <<counters, pc, orders, target, config, crashes>>

BeginRun ==
  /\ pc = "idle" /\ WithinBand
  /\ \E p \in [Symbols -> Prices], t \in [Symbols -> Targets] :
       /\ Read(p, t)
       /\ ~Halted(SnapshotAt(p), haltFile)
       /\ price' = p
       /\ target' = t
       /\ orders' = OrdersFor(p, t)
  /\ state' = Rolled
  /\ counters' = NewRun
  /\ pc' = "run"
  /\ UNCHANGED <<saved, config, crashes>>

NextOrder(s) == pc = "run" /\ s \in orders /\ \A r \in orders : s <= r

\* OrderExecutor.execute on the next order: rejected ...
RejectOrder(s) ==
  /\ NextOrder(s)
  /\ ~ValidOrder(OrderOf(s), Snapshot, counters)
  /\ orders' = orders \ {s}
  /\ UNCHANGED <<saved, state, counters, pc, inputs, config, crashes>>

\* ... or placed with the mock broker, counted and booked.
PlaceOrder(s) ==
  /\ NextOrder(s)
  /\ ValidOrder(OrderOf(s), Snapshot, counters)
  /\ state' = ApplyFill(state, OrderOf(s), price[s])
  /\ counters' = Counted(OrderOf(s), Snapshot, counters)
  /\ orders' = orders \ {s}
  /\ UNCHANGED <<saved, pc, inputs, config, crashes>>

EndRun ==
  /\ pc = "run" /\ orders = {}
  /\ saved' = state
  /\ counters' = NewRun
  /\ pc' = "idle"
  /\ UNCHANGED <<state, orders, inputs, config, crashes>>

\* The process dies before the account is saved.
Crash ==
  /\ pc = "run"
  /\ crashes < MaxCrashes
  /\ crashes' = crashes + 1
  /\ state' = saved
  /\ counters' = NewRun
  /\ orders' = {}
  /\ pc' = "idle"
  /\ UNCHANGED <<saved, inputs, config>>

\* Midnight: the file's date is no longer today's.
NewDay ==
  /\ pc = "idle"
  /\ saved.date = "today"
  /\ saved' = [saved EXCEPT !.date = "earlier"]
  /\ state' = saved'
  /\ UNCHANGED <<counters, pc, orders, inputs, config, crashes>>

ToggleHaltFile ==
  /\ haltFile' = ~haltFile
  /\ UNCHANGED <<saved, run, inputs, universe, crashes>>

\* A symbol is dropped from the configured universe, or listed (again).  A
\* position in it stays in the account, unquoted, while it is not listed.
DropSymbol(s) ==
  /\ pc = "idle"
  /\ s \in universe
  /\ universe' = universe \ {s}
  /\ UNCHANGED <<saved, run, inputs, haltFile, crashes>>

ListSymbol(s) ==
  /\ pc = "idle"
  /\ s \notin universe
  /\ universe' = universe \cup {s}
  /\ UNCHANGED <<saved, run, inputs, haltFile, crashes>>

RunStep ==
  \/ \E s \in Symbols : RejectOrder(s) \/ PlaceOrder(s)
  \/ EndRun

Operator == ToggleHaltFile \/ \E s \in Symbols : DropSymbol(s) \/ ListSymbol(s)

Next == HaltedRun \/ BeginRun \/ RunStep \/ Crash \/ NewDay \/ Operator

Spec == Init /\ [][Next]_vars

\* The schedule starts a run every day, and a started run runs on.
Fairness ==
  /\ WF_vars(HaltedRun \/ BeginRun)
  /\ WF_vars(RunStep)
  /\ WF_vars(NewDay)

FairSpec == Spec /\ Fairness
-----------------------------------------------------------------------------
(***************************************************************************)
(* Safety.                                                                 *)
(***************************************************************************)
Worth(account) == account.cash + CostOf(account)

\* The saved account is that of the abstract book: a run reaches the file as
\* a whole or not at all, and the orders it placed one by one against a stale
\* snapshot add up to trades within the limits.
Book == INSTANCE DailyBook WITH book <- saved
ImplementsDailyBook == Book!Spec

\* Every dollar is accounted for from one saved file to the next, across
\* runs, day rolls, halts and crashes: cash plus cost basis changes exactly
\* by the P&L the day's counter says was realized.
BooksBalance ==
  [][saved'.date = "today" =>
       Worth(saved') = Worth(saved) + saved'.realized
                       - (IF saved.date = "today" THEN saved.realized ELSE 0)]_vars

\* Positions are whole: a symbol is held at exactly one notional of cost or
\* not at all, so a repeated buy signal, a re-run of the same day or a run
\* after a crash never adds to a position.
WholePositions ==
  \A s \in Symbols :
    LET held == state.positions[s]
    IN \/ held = NoPosition
       \/ held.shares > 0 /\ held.cost = PerTradeMax

\* A run opens at most max_new_positions_per_run positions.
NewPositionsBounded ==
  Cardinality(HeldSymbols(state) \ HeldSymbols(saved)) <= MaxNewPositions

\* What is deployed, at the closes the run has read.
Deployed == ValueOf(state, price, Valued(state, universe))

\* The snapshot is not refreshed between the orders of a run, so the buys of
\* one run can pass the deployed-capital cap, by less than the new positions
\* it may open; a run that starts over the cap does not add to it.
OvershootBounded ==
  pc = "run" =>
    \/ Deployed <= Snapshot.deployed
    \/ Deployed <= TotalDeployedMax + (MaxNewPositions - 1) * PerTradeMax

\* For the same reason cash can go below zero, but no further than the other
\* new positions of the run.
CashFloor ==
  state.cash >= 0 \/ state.cash >= -(MaxNewPositions - 1) * PerTradeMax

\* The kill switch: on a day whose saved account already shows the daily
\* loss limit no order is placed, however often the run is started again.
LossLimitStopsTheDay ==
  [][\A s \in Symbols : PlaceOrder(s) =>
       ~(saved.date = "today" /\ saved.realized <= -DailyLossLimit)]_vars

(***************************************************************************)
(* How a run relates to the saved account; the properties above are        *)
(* inductive together with it.                                             *)
(***************************************************************************)
\* Between runs the account is the saved one.  In a run the orders still to
\* come are those of the snapshot, and their symbols are untouched.
RunFollowsSnapshot ==
  /\ pc = "idle" => state = saved /\ orders = {} /\ counters = NewRun
  /\ pc = "run" =>
       /\ orders \subseteq OrdersFor(price, target)
       /\ \A s \in orders : state.positions[s] = saved.positions[s]

\* Positions opened in this run are among those the counter counts.
OpenedAreCounted ==
  Cardinality(HeldSymbols(state) \ HeldSymbols(saved)) <= counters.opened

\* The saved positions are whole, too.
SavedWhole ==
  \A s \in Symbols :
    \/ saved.positions[s] = NoPosition
    \/ saved.positions[s].shares > 0 /\ saved.positions[s].cost = PerTradeMax

AboveFloor(cash) ==
  cash >= 0 \/ cash >= -(MaxNewPositions - 1) * PerTradeMax

\* A run spends at most one notional per position it opened, and opens none
\* unless the snapshot could pay for one.
SpendingIsCounted ==
  /\ AboveFloor(saved.cash)
  /\ state.cash >= saved.cash - counters.opened * PerTradeMax
  /\ counters.opened > 0 => saved.cash >= PerTradeMax

\* A run is only under way on a day that was not over its loss limit.
StartedUnderLossLimit ==
  pc = "run" => ~(saved.date = "today" /\ saved.realized <= -DailyLossLimit)

\* In a run, the account's worth has moved by what its fills realized.
FillsBalance ==
  pc = "run" =>
    Worth(state) = Worth(saved) + state.realized - Rolled.realized

\* A run deploys at most one notional per position it opened, and opens none
\* unless the snapshot had room for one under the cap.
DeployedIsCounted ==
  pc = "run" =>
    /\ Deployed <= Snapshot.deployed + counters.opened * PerTradeMax
    /\ counters.opened > 0 =>
         Snapshot.deployed + PerTradeMax <= TotalDeployedMax

SumsInv == FillsBalance /\ DeployedIsCounted

\* The account in memory is the saved one with these trades booked, which are
\* the orders the counters count.
TradesBooked(bought, sold) ==
  LET proceeds == ValueOf(Rolled, price, sold)
  IN /\ bought \subseteq universe \ HeldSymbols(saved)
     /\ sold \subseteq universe \cap HeldSymbols(saved)
     /\ orders \cap (bought \cup sold) = {}
     /\ Cardinality(bought) = counters.opened
     /\ Cardinality(bought) + Cardinality(sold) = counters.orders
     /\ \A s \in sold : PositionValue(Rolled, price, s) <= PerTradeMax
     /\ bought # {} =>
          /\ PerTradeMax <= saved.cash
          /\ Snapshot.deployed + PerTradeMax <= TotalDeployedMax
     /\ state.date = "today"
     /\ state.cash =
          saved.cash + proceeds - Cardinality(bought) * PerTradeMax
     /\ state.realized =
          Rolled.realized + proceeds - Cardinality(sold) * PerTradeMax
     /\ state.positions =
          [s \in Symbols |->
             IF s \in bought
             THEN [shares |-> PerTradeMax \div price[s], cost |-> PerTradeMax]
             ELSE IF s \in sold THEN NoPosition ELSE saved.positions[s]]

RunIsTrades ==
  pc = "run" =>
    /\ Rolled.realized > -DailyLossLimit
    /\ \E bought, sold \in SUBSET Symbols : TradesBooked(bought, sold)

RunInv ==
  /\ TypeOK
  /\ RunFollowsSnapshot
  /\ WholePositions /\ SavedWhole
  /\ OpenedAreCounted
  /\ SpendingIsCounted
  /\ StartedUnderLossLimit

\* Stated by config.yaml: no buy leaves more than total_deployed_max_usd deployed.
DeployedUnderCap ==
  [][\A s \in Symbols : PlaceOrder(s) /\ OrderOf(s).side = "buy" =>
       ValueOf(state', price, HeldSymbols(state')) <= TotalDeployedMax]_vars

\* What holds of that line: if every held symbol is quoted, the first buy of a run
\* stays under the cap, and each buy after it passes it by one notional more.
BuysNearCap ==
  [][\A s \in Symbols :
       /\ PlaceOrder(s) /\ OrderOf(s).side = "buy"
       /\ HeldSymbols(saved) \subseteq universe
       => /\ counters'.opened > 0
          /\ ValueOf(state', price, HeldSymbols(state'))
               <= TotalDeployedMax + (counters'.opened - 1) * PerTradeMax]_vars

(***************************************************************************)
(* Liveness (FairSpec).                                                    *)
(***************************************************************************)
\* What keeps the strategy asking to leave s and the operator out of it.
ExitSignalled(s) == s \in universe /\ target[s] = 0 /\ ~haltFile
Sellable(s) == saved.positions[s].shares <= PerTradeMax \div price[s]
OutOf(s) == s \notin HeldSymbols(saved)

\* An exit that stays signalled is sold in the end, whatever the symbols
\* before it in the universe do: the run's order budget is shared in
\* universe order, and max_orders_per_run > 2 * max_new_positions_per_run
\* leaves room.  A position worth more than the per-trade cap is excepted.
ExitsHappen ==
  \A s \in Symbols :
    []<>(ExitSignalled(s) /\ Sellable(s) => OutOf(s))

\* strategy_runner.py: on an exit the sell liquidates the actual held value.
EveryExitSells ==
  \A s \in Symbols :
    []<>(ExitSignalled(s) => OutOf(s))
=============================================================================
