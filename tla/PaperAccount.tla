----------------------------- MODULE PaperAccount -----------------------------
(***************************************************************************)
(* paper_account.py: the persisted paper account, as pure operators on the *)
(* record that paper_account.json holds.                                   *)
(*                                                                         *)
(* The file's date only ever matters by whether it is today's, so it is    *)
(* "today" or "earlier".  A symbol without a position has NoPosition.      *)
(* Shares are whole: every price divides every notional that is bought.    *)
(***************************************************************************)
EXTENDS Integers, FiniteSets, FiniteSetsExt

CONSTANTS
  Symbols,       \* every symbol the account may ever hold
  StartingCash   \* DEFAULT_STARTING_CASH_USD

NoPosition == [shares |-> 0, cost |-> 0]

Initial ==
  [date |-> "today", cash |-> StartingCash, realized |-> 0,
   positions |-> [s \in Symbols |-> NoPosition]]

RollToDay_Always(account) ==
  [account EXCEPT !.date = "today", !.realized = 0]

\* roll_to_day: today's realized P&L restarts on a new day, and only then.
RollToDay(account) ==
  IF account.date = "today" THEN account
  ELSE [account EXCEPT !.date = "today", !.realized = 0]

HeldSymbols(account) == {s \in Symbols : account.positions[s].shares # 0}

\* position_values: what each held symbol is worth; one without a quote is
\* left out rather than priced at zero.
PositionValue(account, prices, s) == account.positions[s].shares * prices[s]

Valued(account, quoted) == HeldSymbols(account) \cap quoted

\* The market value of a set of positions, and their cost basis.
ValueOf(account, prices, S) ==
  MapThenSumSet(LAMBDA s : PositionValue(account, prices, s), S)
CostOf(account) ==
  MapThenSumSet(LAMBDA s : account.positions[s].cost, Symbols)

\* to_guardrail_account: the snapshot the guardrails compare against.
GuardrailAccount(account, prices, quoted) ==
  [buyingPower |-> account.cash,
   deployed    |-> ValueOf(account, prices, Valued(account, quoted)),
   positions   |-> Valued(account, quoted),
   realized    |-> account.realized]

Bought(account, order, price) ==
  [account EXCEPT
     !.positions[order.symbol].shares = @ + order.notional \div price,
     !.positions[order.symbol].cost = @ + order.notional,
     !.cash = @ - order.notional]

Sold_KeepsBasis(account, order) ==
  [account EXCEPT
     !.positions[order.symbol].shares = 0,
     !.realized = @ + order.notional - account.positions[order.symbol].cost,
     !.cash = @ + order.notional]

\* A sell pops the whole position and realizes its P&L against cost.
Sold(account, order) ==
  [account EXCEPT
     !.positions[order.symbol] = NoPosition,
     !.realized = @ + order.notional - account.positions[order.symbol].cost,
     !.cash = @ + order.notional]

\* apply_fill.
ApplyFill(account, order, price) ==
  IF order.side = "buy" THEN Bought(account, order, price)
                        ELSE Sold(account, order)
=============================================================================
