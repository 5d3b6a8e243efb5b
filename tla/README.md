# Specifications of the paper-trading system

TLA+ models of `rhagent` (the code under `src/src/rhagent`) and of the pipeline
that runs it once per weekday (`src/scripts/paper_cron.sh`), model-checked with
TLC, with theorems about the central models proved by TLAPS. Paths below are
relative to `src/`.

## 1. Inventory

The system is a batch program. One scheduled run restores its files from the
`paper-state` branch, refreshes the price cache, ticks four forward records,
runs the paper account once, and pushes the files back. Nothing is a server;
what makes it hard is that its memory is a set of files which several steps of
several days extend, that the steps fail or die half-way, that calls to the
model fail one by one, and that the feed is late, early or full of holes.

| component | state | operations | interacts with |
| --- | --- | --- | --- |
| price cache (`refresh.py`, `data.py`) | `data/<SYM>.csv` | `update_cache` merges fetched bars, drops unsettled ones; `get_bars` reads, or fetches what has no file; `fallback_fetch` tries sources in order | read by every tick and by the paper run |
| decision engine (`engine.py`) | pace clock, worker pool | `decide`, `decide_all`, `_pace` | called by the agent's tick, once per date |
| forward record (`forward.py`) | `pos_<sym>.csv`, `decisions.jsonl`, `returns.csv`, `run.json` | `tick`, `tick_and_reflect`, `_agent_positions`, reports | reads the cache, asks the engine, feeds the paper run and the memory |
| strategies, overlays (`strategies/`, `overlay.py`) | none (pure), the gate's history | `positions`, `signal`, `adjust`, `apply_conviction` | used by the record, the paper run and the paper trader |
| guardrails, executor (`guardrails.py`, `executor.py`) | counters of a run | `check_halted`, `validate_order`, `execute` | gate every order of the paper run |
| paper account, paper run (`paper_account.py`, `paper_run.py`, `strategy_runner.py`) | `paper_account.json`, the run's copy of it | `load`, `roll_to_day`, `to_guardrail_account`, `apply_fill`, `save`, `run` | trades the strategy's latest positions at cached closes |
| paper trader (`papertrade.py`) | positions, open trades, ledger, equity | `PaperTrader.run` | backtest-style loop over the cache |
| memory (`memory.py`, `learn.py`) | `agent_memory.md`, the audit fields of `run.json` | `read_memory`, `append_reflection`, `reflect`, `tick_and_reflect` | read before, written after the agent's tick |
| pipeline (`scripts/paper_cron.sh`, workflow) | the `paper-state` branch | restore, refresh, ticks, paper run, persist | orders everything above |
| evaluation, dashboard, journal, broker, config | files they print or append | pure numerics, reports, audit lines | - |

## 2. Plan

Most important behaviour first; each module is written to be proved about
(constants with named assumptions, one action per operation, no `RECURSIVE`).

| order | module | models | composes | state |
| --- | --- | --- | --- | --- |
| 1 | `ForwardRecord` | the tick of engine `agent` and its two reports | - | checked and proved |
| 2 | `Guardrails`, `PaperAccount` | order validation, account arithmetic (pure operators) | - | used by 3 |
| 3 | `PaperRun` | the daily run | extends both of 2 | checked and proved |
| 4 | `DailyPipeline` | `paper_cron.sh`, `refresh.py`, `get_bars`, the rule-based ticks | - | checked and proved |
| 5 | `BatchDecision`, `AgentPool` | `decide_all`: what it promises, and the pool with `_pace` that keeps it | `AgentPool` implements `BatchDecision` | checked and proved |
| 6 | `Strategies`, `PaperTrader` | mean reversion, momentum, the gate and its twin, the loop of `papertrade.py`, `net_returns` | extends `Strategies` | checked and proved |
| 7 | `TrackRecord` | what the record promises, without ticks, files or retries | implemented by `ForwardRecord` | checked and proved |
| 8 | `DailyBook` | what the account on disk promises, without orders, counters, halts or crashes | implemented by `PaperRun` | checked and proved |
| 9 | `Memory`, `TickAndReflect` | `append_reflection`, the two writes of `run.json`, `tick_and_reflect` | extends 1, uses `Memory` | checked and proved |

Three abstract specifications are stated and implemented: `TrackRecord` by
`ForwardRecord` (and through it by `TickAndReflect`), `BatchDecision` by
`AgentPool`, `DailyBook` by `PaperRun`. `DailyPipeline` does not implement `TrackRecord`:
there a name's verdict on a day is settled before the day is entered, while what a
rule-based record scores a day against is settled only by the commit that enters it, as
long as a bar the feed left out may still come. What such a commit may do is the action
property `CommitsEnterDays` instead. `Sums` has no model: it holds the lemmas
about sums over finite sets by which the account is valued. What could follow: several
symbols in `PaperTrader` with `HistoricalSource`'s trimming, and a torn account file in
`PaperRun`.

## 3. The modules and the code

`PROJECT.json` maps every definition to its lines. Names follow the source.

**`ForwardRecord`** (`forward.py:70-390`). `status`/`pos` are the two columns of
`pos_<sym>.csv`, `log` the latest row of `decisions.jsonl` per symbol and date,
`returns` is `returns.csv`. A running tick is `pc` with the dictionaries `wstat`,
`wpos`, `newRows`. `Refresh` delivers bars; `StartTick` loads or seeds the rows
and un-freezes the newest `RetryBound` failed dates; `DecideBar` asks for one
date, oldest first; `WritePos` rewrites one file at a time, in any order of
symbols; `AppendLog`, `WriteReturns` end the tick; `Crash` ends it anywhere, also
within the append of the log. A net return is represented by what it is a
function of (`Basis`: the position, the one before, the bar it runs to), so two
returns are equal exactly if the code would compute them from the same inputs.
`Problems` is what the two reports of `forward.py` would print.

**`TrackRecord`** is the record as its readers see it: every name gets a verdict
per day once and for all, days all names are judged on are entered, one to open the
record and then any later than the first, and what was entered never changes.
`ForwardRecord` implements it with `verdict` read off the settled rows of the pos
files and `record` off `returns.csv`. It is the place where failed calls, seeded
rows, retries, holes that heal out of order and dying ticks have to disappear.

**`Memory`, `TickAndReflect`** (`memory.py`, `forward.py:378-451`). The memory
file is a sequence of blocks, cut at its headings: a reflection whose text has
headings of its own is several blocks, and the cap counts blocks. A block is known by
the days its tick recorded. `BuildAgent` reads the memory and starts the tick of
`ForwardRecord`; `Record` rewrites `returns.csv`, `WriteMeta` is the tick's own
`run.json`, `Reflect` the model's answer (or failure) and the rewritten memory,
`WriteAudit` the second `run.json`. `DieInTick` and `DieAfterTick` end the process
between any two of these, and in the middle of a rewrite of the memory or of
`run.json`, which leaves a prefix of the one and nothing readable of the other.

**`Guardrails`, `PaperAccount`, `PaperRun`** (`guardrails.py`, `executor.py`,
`paper_account.py`, `strategy_runner.py`, `paper_run.py`). `saved` is
`paper_account.json`, `state` and `counters` are the objects of a run.
`HaltedRun`/`BeginRun` cover everything up to the orders: load, roll to the day,
snapshot, halt check, orders. `PlaceOrder`/`RejectOrder` are `execute` on the next
order in universe order; `EndRun` saves; `Crash` dies before that. The operator
may toggle the HALT file at any time, drop a symbol from the configuration, held or
not, and list it again.
Money is whole dollars; prices divide the notional, so shares are whole.

**`DailyBook`** is the account as whoever opens `paper_account.json` sees it: the day
ends, or a run of a universe trades once. `WithinLimits` states the configured limits
for the trades of the run together: so many positions opened, so many orders, each sale
worth at most the per-trade cap, no buy that the account *before* the run could not
afford or that would have passed the cap by itself, no trade on a day that has lost the
limit. `Booked` is the account after it. Order of execution, counters, halts, rejected
orders and dying runs have to disappear; that the limits are those of the account before
the run is what the stale snapshot makes of them.

**`DailyPipeline`** (`paper_cron.sh`, `refresh.py`, `data.py`, `forward.py:265-364`).
`branch` is the state branch, `work` the workspace of a run, each a cache and the
two rule-based records. A cached row is only what kind of bar it is: closed,
cached while its session was open, or a volume-0 snapshot. The clock runs on while
a run is under way: a session opens and closes, and one midnight may pass between
the refresh, which fixed its `today`, and the ticks, which read the clock again.
Nothing is assumed of how complete the feed is. A symbol does not trade on the days
`Halted` says. Of the days a refresh asks for, the feed may leave out any it likes, also
in the middle of the window while it serves later ones (a null close is skipped,
`refresh.py:141`; a volume-0 row is served and dropped, `:76`), and different ones in the
next answer (`Answers`); the history `get_bars` fetches for a symbol without a file
may have the same holes (`Files`). So caches have interior holes that close later, out of
order, or never.

**`BatchDecision`, `AgentPool`** (`engine.py:24-42`, `:257-349`). `BatchDecision` is
what the tick relies on, and what `ForwardRecord!DecideBar` takes as one step.
`AgentPool` is the pool: a thread takes a symbol, enters the lock and reads the
clock (`ReadClock`), books a slot and leaves the lock (`BookSlot`), sleeps, calls,
and ends with a verdict or a failure. Time is relative to now, so no bound on it is
needed; between reading the clock and booking, and between waking and calling, a
thread may be late.

**`Strategies`, `PaperTrader`** (`strategies/`, `overlay.py`, `papertrade.py`).
`Strategies` has mean reversion as a machine that is advanced one bar at a time.
The code recomputes the series from each prefix of the history; the rolling
statistics only look back, so the last value of a prefix is the state of one run
of the machine. `NextBar` is one iteration of the loop of `PaperTrader.run`, gate
and all; `EndOfData` the close of what is still open. Prices are log prices in
whole steps, so returns add up and the equity curve's gross can be compared with
the ledger's; the stop is a number of such steps. Costs are counted in sides.
`NetReturns` is the vectorised `net_returns` of the backtest, built along the same bars
in the history variable `backtest`, and `Keeps` the vectorised gate; neither feeds back
into the loop, they are the twins it is compared with.

The external definitions are the exchange's session and the clock
(`DailyPipeline`), time and the thread scheduler (`AgentPool`), and the operator
(`PaperRun`).

## 4. The runs

Every run but `paper_trader` checks deadlock; the paper trader really stops at the
end of its data.

| run | question | result |
| --- | --- | --- |
| `forward_safety` | with bars in order and a tick dying anywhere, does the record keep reproducing, do failed rows hold, is every day's predecessor settled, and do the two reports find nothing until the crash? | holds |
| `forward_faults` | with bars skipped and delivered late, a model that fails, and a process that dies anywhere in `tick_and_reflect`, can anything false be recorded or logged, a verdict be lost, a day be entered that `TrackRecord` forbids, a day be reflected on twice, `run.json` lie? | no |
| `forward_live` | do failures heal and holes close although one date can never be answered and only one retry is allowed per tick? | yes |
| `forward_successor` | with skipped bars, is a day ever recorded while a leg's bar before it still waits for a retry? | **yes** |
| `paper_safety` | any targets, repeated runs, halts, day rolls, symbols dropped and listed again, a crash: whole positions, balanced books, limits up to one run's new positions, a file that changes by whole runs as `DailyBook` promises? | holds |
| `paper_exits` | four symbols compete for the order budget: is every lasting exit sold? | yes |
| `paper_cap` | is the deployed-capital cap kept by every buy? | **no** |
| `paper_winner` | is every lasting exit sold, also of a position over the per-trade cap? | **no** |
| `pipeline` | runs at any hour, a halt, a feed that leaves out any bar and serves open and volume-0 ones, failing ticks, dying runs: only closed bars scored, cache and records committed whole, commits that only enter days and skip no bar they have, and does the main record grow while the window reaches what it lacks? | holds |
| `pipeline_gap` | no symbol is ever halted, but the feed may leave out a bar: does a recorded return still run to the next trading day? | **no** |
| `agent_pool` | three threads race for the slots, are late and fail: rate limit, promise to the tick, every batch ends? | holds |
| `paper_trader` | every history of four bars under every engine and fill model: do ledger, equity curve, backtest, gate twin and strategy agree? | yes |

Every property of a passing run has a mutant of the code in `PROJECT.json` (an
operator such as `RetryDates_OldestFirst`, `MayEnter_NoLock`, `Settles_AnyDate`)
under which the same run finds it violated.

### Bounds, and why they are enough

- *ForwardRecord.* Two symbols are the least with one failing while the other
  answers and with uneven bars. The exclusion and successor rules span two days
  and a return one more; four days (three with gaps, where subsets of bars
  multiply) let an outage of two days be retried around a recorded day. A retry
  bound of 1 stands for 5: it makes two failed dates compete. The liveness run
  needs seven days for one symbol so that an unanswerable date, an anchor after
  it and a later hole coexist. One crash reaches every mixture of files of two
  ticks; further crashes repeat it, and the theorems do not bound them. The liveness run
  has none: a crash would only be one more tick that ended early.
- *TickAndReflect.* `forward_faults` runs it with one crash in all. Three days with
  gaps give two reflections and one on a healed hole; reflections of up to two
  blocks in a memory of two let the cap cut a reflection in half and evict another.
  `UseLessons` is on, the case with more state.
- *PaperRun.* Three symbols and two new positions per run let a run overshoot
  once; two prices let a position double past the per-trade cap, or halve to a
  loss over the daily limit. `CashBand` stops a behaviour when realized profit has left the
  band, so the state space is finite; four symbols in `paper_exits` make exits
  and entries compete for three orders.
- *DailyPipeline.* Five days hold a seeded bar, an anchor, a day with a hole, the refresh
  that may close it and a day scored after it; a window of 2 both reaches back over such a
  hole and leaves one behind for good when two runs miss it. One of two symbols is halted
  on day 2, which puts a day that can never have full coverage between days that can.
  For safety a halt is nothing but a day that is left out of every answer; it restricts
  only what `MainRecordGrows` may ask for. A window of 3 has about seven times the states,
  too many for the liveness check. It would add interior days that are filled in after
  a later one was recorded: with 2, days are entered in order. `CommitsOnlyEnter` and `CommitsAreWhole`
  cover them for every window, and `forward_live` checks `HolesClose` on the
  same lines of `forward.py` with seven days.
- *AgentPool.* Three threads and three symbols: one in the lock, one waiting for
  it, one asleep. An interval of three ticks and a lateness of one let a stale
  clock value matter. `Span` only bounds the memory of past calls.
- *PaperTrader.* Four bars hold entry, hold, reversal or stop, and a last bar; a
  gate window of 2 is full on the third. Five scores and NaN cross both thresholds in
  both directions; prices move by more than the stop.

### Fairness and assumptions, and why the code justifies them

- The workflow is scheduled on weekdays and its concurrency group lets no two runs
  overlap: a tick, a run, a restore starts again and again (`WF`), and what has
  started goes on.
- Failures of calls and of the feed are transient unless named otherwise: a date
  tried again and again is some time fully answered (`SF` of `AllAnswered`),
  except for `Unhealable` pairs, which the liveness run uses to show that a
  permanent failure harms no other date. Likewise a symbol's fetch is some time
  complete, and the first tick, tried again and again, succeeds.
- In `DailyPipeline` that is `SF` of `FullFetch`: among the fetches of a symbol there are
  again and again some that return every bar there is. It asks nothing of any particular
  day, so a bar may stay out until the window has left it behind; `MainRecordGrows` therefore
  promises a day only as long as the window reaches it, and only if every symbol
  traded on it (`Scorable`). Beyond that the record keeps a hole, or stops, as
  `forward.py:276-279` says. Safety needs no assumption on feed or schedule. Nothing is
  assumed of the non-fatal tick.
- `DailyPipeline` assumes that the history `get_bars` fetches for a symbol
  without a file has no volume-0 rows: the range ends yesterday, which keeps open
  sessions out, but unlike the refresh it filters nothing (`data.py:57`). A snapshot
  there would be scored, and `ScoredOnClosedBars` would not hold.
- In `AgentPool`, calls end because the client has a timeout; threads are scheduled
  and the lock is eventually granted (`SF` of `ReadClock`); a thread is at most
  `MaxLate` late, which no code can guarantee and the rate bound is stated up to. What is
  paced and counted is a call of `decide`: the retries the SDK's client makes on its own
  inside one call are not paced by the code and not counted by `RateBounded`.

Liveness of the paper run needs that HALT is not left in place, that the exit
signal lasts, and that the position is worth no more than the per-trade cap; these
are conditions of `ExitsHappen`, not fairness.

## 5. Proofs

The theorems hold for every value of the constants allowed by the named
assumptions in the modules. TLC evaluates those assumptions in the runs. No
theorem rests on anything unproved.

- **`ForwardRecordProofs`.** `RecordInv` strengthens "recorded days are genuine"
  and "the log is truthful" by what a running tick knows: settled rows travel
  unchanged in its dictionaries (`WorkKeepsVerdicts`), written files equal them
  (`WrittenFilesAgree`), and only decided rows are to be logged. Without these a
  tick could write back an older verdict. From it `RecordIsTrackRecord` follows: a
  step that writes a file judges, the step that writes `returns.csv` enters, and all
  others stutter. For bars in order (`Gapless`), `RecordReproduces` and
  `PredecessorSettled` need in addition that the day before a recorded day is
  settled (`RecordSettled`), which is what the successor rule is for; with gaps it
  is not inductive, and `forward_successor` shows why. `FailedRowsHold` carries the
  holding rule through the dictionaries date by date; `ConsistentLog` says that
  until a tick dies the log and the files differ by exactly the rows still to be
  appended.
- **`TickAndReflectProofs`.** `ReflectKeepsRecord`: every step of `tick_and_reflect` is a
  step of `ForwardRecord` or leaves its variables alone, so all theorems above carry
  over (`RecordUnderReflection` is one of them). `ReflectInv` says that until a tick
  reflects, memory and lessons are older than the days it recorded, and that between
  its two writes `run.json` claims nothing; from it `ReflectedOnce` and
  `RunJsonTruthful`, whatever dies where. That cutting the memory at the cap, or a torn
  write, keeps blocks apart is a lemma about windows of sequences.
- **`PaperRunProofs`.** `RunInv` ties a run to the file it started from: the orders
  still to come concern symbols the run has not touched, positions opened are
  counted, and money spent is at most a notional per position counted
  (`SpendingIsCounted`). From it follow whole positions, the bound on new
  positions (`NewPositionsBounded`, which the runs see as a limit of `DailyBook`), the
  floor of the cash and the kill switch. `SumsInv` adds the sums: every fill moves as
  much money as cost basis and realized P&L (`FillsBalance`), and each new position
  adds at most one notional to what is deployed, a sale nothing (`DeployedIsCounted`).
  `OvershootIsBounded` and `BooksAreBalanced` follow. `RunIsTrades` says what a run under
  way amounts to: the account it read, with the positions `bought` and `sold` so far
  booked at once, as many as the counters say, none of them still to come in `orders`,
  and each within the limits of the snapshot. It is `DailyBook`'s step with the run not
  over yet, so `RunsAreBookTrades` maps the saving of a run to `RunEnds`, the halted run
  to one without trades, and everything else, a crash above all, to a stutter.
- **`Sums`.** The community modules define a sum as a recursive function on the subsets of
  a set. The lemmas say that any two such functions agree, so that the sum does not depend
  on the set the recursion was started from, that it takes any element out, not only the
  one `CHOOSE` takes first, and that two functions that differ in one element have sums
  that differ by it. Induction over the size of a set is done without an induction rule:
  among the counterexamples there would be a smallest one.
- **`AgentPoolProofs`.** `PoolKeepsPromise` is the refinement of `BatchDecision`. Its
  invariant `BatchInv` says that a symbol is queued, with exactly one thread, or
  decided; from it an empty queue and idle threads mean that all are decided, so
  `NewBatch` maps to `NextBatch`. `SlotsStayApart` needs `PaceInv`: only one thread is
  between reading and booking, and what it read is still current up to its age.
  `RateIsBounded` adds `RateInv`: every remembered call is owed to a slot of its own, at
  most `MaxLate` before it, and all those slots are an interval apart; so the calls of
  a span map one to one into the pieces of that length (a pigeonhole). `TypeCorrect`
  adds `WaitInv`, how far ahead slots are booked: between two slots that are not due
  there are as many threads as intervals, so nobody sleeps longer than an interval
  per thread.
- **`DailyPipelineProofs`.** `PipeInv` says that branch and workspace are each sound (only
  closed bars scored, every recorded day backed by its cache) and that the workspace
  of a run under way keeps every closed bar of the branch, so a push loses none
  and a run that dies leaves the branch as it was. From it the types,
  `ScoresAreClosed` and `ClosedBarsAreKept`. `CommitsOnlyEnter` needs `EntryInv`: a cached bar
  is of a session that is over (`Seen`); a workspace's record is the branch's, grown by the
  one tick a run has for it (`Grown`), which is why an anchor is never followed by older days
  in the same commit; and its new days run to the next bar of the workspace's cache
  (`NextBars`), which later steps of the run do not change, because a scored leg has a
  file and `get_bars` only fetches for symbols without one. `CommitsAreWhole` adds
  `WholeInv`: after the main tick its record has every day after the first that the
  cache could score (`FullHistory`), and the other tick reads the very same cache. All of
  it holds for every feed, window and set of halts; none of it says to which trading day a
  return runs (`RunsToNextDay`), which is false (`pipeline_gap`).
- **`PaperTraderProofs`.** `LedgerInv` adds to the agreement of ledger, curve and backtest
  at which price and on which bar the open trade was entered: a fresh position is
  booked at the open it will accrue from (`FreshFill`), and none entered on the last
  bar came from flat (`EntryInPast`). `JustInv` adds that a stopped machine is flat.
  Any target and any prices are allowed, so these hold for every strategy that
  answers -1, 0 or 1. `TwinsAgree` needs that the gate's history recalls the series
  (`Recalls`): its k-th entry is the value of rank k among those that are not
  missing. So the twin's window at the newest bar is the tail of the history, and at
  earlier bars it does not see the new one.

What the theorems of restricted instances assume: `Gapless = TRUE` (no bar is
skipped) for `RecordReproduces`, `PredecessorSettled` and `FailedRowHolds`. The passing run
that checks these properties makes the same choice, and `forward_successor` shows what
happens without.

Left to TLC: all liveness (`FailuresHeal`, `HolesClose`, `ExitsHappen`, `BatchesEnd`,
`MainRecordGrows`), and what the violation runs refute. Every other property of a
passing run is a theorem. `NewPositionsBounded` and `BuysNearCap` are
proved without a passing run of their own: of the first the runs check what
reaches the file (`ImplementsDailyBook`), and
`BuysNearCap` is `OvershootBounded` told order by order.

What some properties do not say, although their names may suggest it:

- `LogMatchesCache` holds until the first crash. The crash that leaves verdicts unlogged is
  a hazard of the code no property excludes; section 6 notes it.
- `OvershootBounded` counts the positions that have a quote. A held symbol dropped from the
  universe is in no total of the code either (section 6), so it does not bound what is
  deployed including such symbols.
- `forward_live` has one symbol. That one silent symbol freezes a whole universe, and that
  the record goes on when it is back, is `CommitIsWhole` and `MainRecordGrows` of
  `pipeline`, which has two.
- `RateBounded` is checked with a span of one interval, which is the minimal separation of
  calls; `RateIsBounded` has it for every span.

## 6. Findings

Each of the first four is a run that finds the quoted sentence violated.

1. *Successor rule* (`forward_successor`, `forward.py:188`). The successor of a
   failed date is looked up in the union of all bars. A symbol without a bar there
   has a later next day, which is recorded while its predecessor still waits.
2. *Deployed-capital cap* (`paper_cap`, `paper_run.py:61`, `:102`). All orders of a
   run are checked against the snapshot before the first: two buys can pass the cap
   together. `OvershootBounded` and `CashFloor` bound by how much, and the theorem
   `BuysStayNearCap` says that this is all: with every held symbol quoted, the first buy
   of a run keeps the cap, the k-th passes it by at most k - 1 notionals.
3. *Exits of winners* (`paper_winner`, `guardrails.py:109`). The per-trade cap applies
   to sells of the whole market value, so a position over it is never sold.
4. *Multi-day returns* (`pipeline_gap`, `forward.py:283`). Full coverage asks each leg for
   a value, and a leg's value runs to its own next row, not to the next trading day. One bar
   the feed leaves out (a null close, `refresh.py:141`; a volume-0 row, `:76`), in an
   answer or in a fetched history, or a silence longer than the window, is a hole with
   later bars behind it. The day before it is recorded with a return over several trading
   days, and stays so when the hole closes (what is recorded is never rewritten). The
   day in the hole is recorded only if the hole closes.

Noted while modelling, without a run of their own:

- `config.yaml:18` says the loss limit halts "for the rest of the day", but it is
  looked at once per run: the run whose own sells realize the loss goes on
  (`paper_run.py:62`). The next run of the day is stopped (`LossLimitStopsTheDay`).
- A held symbol that leaves the universe has no quote and drops out of the deployed
  total (`paper_account.py:98`), so the cap compares with less than is held.
- Reversing a position on the last bar opens a trade that end-of-data closes on the
  same bar: the guard (`papertrade.py:216`) only looks at positions opened from flat.
  `NoPhantomTrades` is stated for those.
- `overlay.py:42` says the gate vetoes entries; it also closes held positions on a
  low-conviction bar and lets them be re-entered on the next (`papertrade.py:210`).
- Long-only mean reversion still enters shorts internally (`mean_reversion.py:56`): it
  reports flat meanwhile, and long entries wait until the phantom short has reverted.
- A bar without a score reports flat while the machine keeps holding
  (`mean_reversion.py:45`), so the position is closed and re-opened around it.
- `get_bars` writes what it fetched for a symbol without a file without the filters
  that refresh applies (`data.py:57`); the exclusive end date is the only guard.
- A tick that dies between the pos files and the log leaves verdicts that are never
  logged (`forward.py:191`); that is why `LogMatchesCache` holds until the first crash.
- A tick that dies after the record and before the reflection is never reflected on: the
  next one has no new days (`forward.py:425`). `ReflectedOnce` is "at most once".
- The cap of the memory counts `## ` headings (`memory.py:34`). A reflection whose text has
  headings of its own uses up several of the forty, and may be cut in half by it.
- With `use_lessons` on, a failed date that is retried is decided with lessons the agent
  learned from later days (`forward.py:138`, `:418`): the prompt of a retry is not the prompt
  of its day.
- `HistoricalSource` drops the caches that are much shorter than the others before it
  intersects the dates (`papertrade.py:50-73`); caches of equal length over different days
  pass that test and still collapse the common index.
- The running maximum of the drawdown in `backtest.result_from_returns` starts at the first
  bar's equity (`backtest.py:82`), so a loss on the first bar is not part of a drawdown.

## 7. Not modelled

- The text of reflections, of `recent_outcomes` and of `learn.py`'s digest of the
  evaluation journals: wording of prompts. That they are read and written when
  `TickAndReflect` says is modelled.
- The format of report lines, the dashboard and the journal: written, never read back
  by a decision.
- Prices, features, Sharpe ratios and bootstrap intervals: numerics whose
  correctness is not a matter of states; where a property depends on them, the model
  has the inputs they are functions of.
- `McpBroker`, the MCP session and the HTTP clients: thin wrappers over services that
  the scheduled path does not use, or whose answers are inputs here.
- A torn `paper_account.json` (`paper_account.py:81` is not atomic; `docs/safety-drills.md:69`
  lists the drill as open), a torn csv: the models replace such a file in one step.
  Only the memory and `run.json` may be torn. After a torn account every run fails in
  `load` until someone repairs the file.
- Concurrent writers to the state branch: the workflow's concurrency group excludes
  them, and a refused push is a run that dies.
