------------------------------ MODULE Guardrails ------------------------------
(***************************************************************************)
(* guardrails.py: the deterministic order validation that every order      *)
(* passes, as pure operators over an account snapshot, a run's counters    *)
(* and the configured limits.  Amounts are whole dollars.                  *)
(***************************************************************************)
EXTENDS Integers

CONSTANTS
  Tickers,           \* symbols of the shape of a US equity ticker
  PerTradeMax,       \* per_trade_max_usd
  TotalDeployedMax,  \* total_deployed_max_usd
  MaxNewPositions,   \* max_new_positions_per_run
  MaxOrders,         \* max_orders_per_run
  DailyLossLimit     \* daily_loss_limit_usd

ASSUME LimitsAssumption ==
  /\ PerTradeMax \in Nat \ {0}
  /\ TotalDeployedMax \in Nat
  /\ MaxNewPositions \in Nat
  /\ MaxOrders \in Nat
  /\ DailyLossLimit \in Nat

Sides == {"buy", "sell"}

\* An order is [symbol, side, notional]; an account snapshot has the fields
\* buyingPower, deployed, positions and realized; the counters of a run are
\* [orders, opened].
NewRun == [orders |-> 0, opened |-> 0]

\* check_halted: the gate at the top of a run.
Halted(account, haltFile) ==
  haltFile \/ account.realized <= -DailyLossLimit

WellFormed(order) ==
  order.side \in Sides /\ order.symbol \in Tickers /\ order.notional > 0

OpensPosition(order, account) ==
  order.side = "buy" /\ order.symbol \notin account.positions

AffordableFrom_AnyCash(order, account) == TRUE
\* A buy needs the cash, and room under the deployed-capital cap.
AffordableFrom(order, account) == order.notional <= account.buyingPower

UnderCap_HeldOnly(order, account) ==
  account.deployed <= TotalDeployedMax
UnderCap(order, account) ==
  account.deployed + order.notional <= TotalDeployedMax

\* validate_order: TRUE only if every check passes.
ValidOrder(order, account, counters) ==
  /\ WellFormed(order)
  /\ order.notional <= PerTradeMax
  /\ counters.orders < MaxOrders
  /\ order.side = "buy" =>
       /\ AffordableFrom(order, account)
       /\ UnderCap(order, account)
       /\ OpensPosition(order, account) => counters.opened < MaxNewPositions

Counted_OrdersOnly(order, account, counters) ==
  [counters EXCEPT !.orders = @ + 1]
\* OrderExecutor._advance_counters, after an order is accepted.
Counted(order, account, counters) ==
  [orders |-> counters.orders + 1,
   opened |-> counters.opened + (IF OpensPosition(order, account) THEN 1 ELSE 0)]
=============================================================================
