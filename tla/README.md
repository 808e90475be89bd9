# xaut-paper-bot: models, checks and proofs

TLA+ modules of the decision and execution core of the bot, the TLC runs that
check them on small instances, and theorems about them that TLAPS checks for
all values of the constants. File names without a directory are below
`src/internal/`. `PROJECT.json` maps every definition to the lines it models.

## 1. The system

| Component | State | Operations | Talks to |
|---|---|---|---|
| `execution/planner.go` | none | `Plan`: account, target, tracker state and book to one order or a set of cancellations | called by the tick |
| `position/tracker.go` | position, entry, stop, best price, opened-at; `position_state.json` | `Arm`, `SetEntryContext`, `Reconcile` | tick; feeds the planner with quantity and stop |
| `app/app.go` | cached account and its time, last submission, last exit reason | `tick`, `execute`, `Run`, seeding | everything, one goroutine |
| `app/polling.go` | two schedules, a shared pause, cached trades and funding | `tradesForTick`, `fundingForTick` | REST through the adapter |
| `exchange/bitfinex/adapter.go` | last account, order books | `Account`, `Submit`, `Cancel`, `CancelBotOrders`, `Fills`, `Books` | Bitfinex |
| `risk/manager.go` | equity anchors, loss counter, latched halt; `risk_state.json` | `ObserveEquity`, `RecordClosedTrade`, `Evaluate` | tick |
| `performance/ledger.go` | seen fills, last fill time, open trade; `performance_state.json`, `fills.jsonl`, `trades.jsonl` | `Since`, `Process` | fills from the adapter, closed trades to the risk manager and the strategy |
| `strategy/engine.go` | time each side was stopped, in memory | `MarkStopped`, `Signal` | features, regime |
| `regime/classifier.go` | none | `Classify` | features, fair value |
| `features`, `series` | rolling windows; `basis_state.json` | `Update`, `Seed`, `SeedBasis` | books, trades |
| `fairvalue` | none | `Estimate` | books |
| `journal`, `monitor`, `diagnostic`, `config`, `cmd` | logs, last status | append, serve, collect, load | outside of decisions |

One goroutine ticks. A tick reads books, features, the account (cached for
`AccountRefresh` unless something was sent or cancelled), reconciles the
tracker, computes the signal, reads fills and counts closed trades, observes
equity, evaluates risk, plans and executes at most one order or one batch of
cancellations. What makes this hard is not concurrency inside the process but
the exchange on the other side: it fills orders in parts at any moment, the
cached snapshot is stale by the time it is used, requests fail or their answers
are lost, the process stops between any two of them, and three components
(planner, tracker, adapter) each decide with thresholds of their own what a
position is.

What makes each component correct:

- planner: never opens over the other venue's inventory, never reduces while a
  stop is live, protects before it grows, ends where the target is, and agrees
  with the adapter's last check;
- tracker: the stop never widens, what is due or hit is exited;
- loop: never more than one order of a kind, exposure under the cap with what
  is working included, a halt beats every entry and ends flat;
- ledger: every fill once, every trade counted once, flat means closed;
- strategy: no early re-entry;
- risk manager: a loss that reaches a limit halts, nothing else does, a halt
  stays, and what a tick lets a position grow to fits cap and risk budget;
- polling: a rate limit silences both streams, each backs off for itself, and
  neither cache freezes;
- basis windows: values, times and sources stay aligned through wrap-around and
  reload, live samples outlive a restart, the file catches up after a failed
  write.

`PROJECT.json` lists the hazards at their lines, with the property that would
notice each or the reason why there is none.

## 2. Modules

    Planner <- Engine <- Exchange <- SyncLoop <- Reentry (with Strategy)
                 ^          |  ^------ Bot
              Tracker       +-> Desk: abstract, implemented by SyncLoop, Reentry and Bot

    Sizing <- Risk          Ledger          Polling          Basis

| Module | Models | Correspondence |
|---|---|---|
| `Desk` | nothing of the code's insides: what it promises the exchange | one live order per group, inventory grown on one venue, no reduction under a live stop, no margin bought but to close, the cap with all that is live |
| `Planner` | `Plan` and its helpers | `Plan` has the branches of `Planner.Plan` in order; a plan is `[cancel, intent]`; `SpotBuy`, `SpotSell`, `MarginSell`, `MarginClose`, `Protective` are the methods of the same name |
| `Engine` | `Reconcile` in the abstract (`Observe`, `ExitRequired`), the four branches of `tick` (`TickPlan`), the adapter's last check (`ValidIntent`) | a tracker is `[qty, stop, hit, due]` |
| `Tracker` | the arithmetic of `Reconcile`: entry, average entry, initial stop, best price, trail | `Opened`, `Grown`, `Trailed` are `openLocked`, the growing branch, `updateBestAndTrailLocked` |
| `Exchange` | balances, orders, partial fills, reduce-only rules, XAUT fees; external | variables `spot`, `margin`, `orders`; `Live` is what `Submit` leaves at the exchange; `BookOf` is the mapping to `Desk`'s `book` |
| `SyncLoop` | the loop when a tick is atomic and sees the account as it is | `Tick`, `TickBadBook`; fills, prices, liquidity, age and changes of target are actions of the environment |
| `Bot` | the loop request by request | `pc` is the place in the tick: three reads of `Account`, decision, cancellations one at a time, submission; failures, lost answers, crash, shutdown, restart |
| `Strategy` | `Classify`, `Signal`, `MarkStopped`, `reentryBlocked` | a market is a record of what the tests look at; a block is an age in ticks per side |
| `Reentry` | the whole tick around the re-entry block, in the order of the code | `TradingTick` = Reconcile, mark from the software stop, Signal, fills and mark from the ledger, Evaluate, plan, execute |
| `Ledger` | `Process`, load and save, `RecordClosedTrade`, write by write | `pc` is the place in the tick's ledger part; memory and disk copies of ledger and risk state |
| `Sizing` | the arithmetic of `Evaluate`, from the exposure asked for to the quantity | `Size`; `TargetNotional`, `StopLoss`, `SizedTarget`, `WorstCase` are its paragraphs in order |
| `Risk` | `ObserveEquity`, `RecordClosedTrade`, `Evaluate`'s early returns, load and save, over days | `mem` and `disk` are `PersistentState` in memory and in `risk_state.json`; `seen` and `earned` keep what truly happened |
| `Polling` | `tradesForTick`, `fundingForTick` | `wait` and `backoff` are a `pollSchedule`, `pause` is `publicBlocked`, both as time left; `pc` is the place in the tick |
| `Basis` | the basis window and its file, `seedBasis`, the closed candles of a timeframe | `basis.ring`, `next`, `full` are a `series.Window`, `times` and `sources` the slices next to it; a value is named by the minute and source it was computed from |
| `MCSyncLoop`, `MCTracker`, `MCBot`, `MCReentry`, `MCLedger`, `MCRisk`, `MCBasis` | instances for TLC | signed sets a `.cfg` cannot hold; `MCTracker` also evaluates `Tracker` against `Engine`, `MCBasis` the results `Basis` states against the loops of the code. `Polling` needs none |
| `DeskProofs`, `SyncLoopProofs`, `ReentryProofs`, `BotProofs`, `LedgerProofs`, `RiskProofs`, `PollingProofs`, `BasisProofs` | theorems | section 5 |

Three loops are written by what they leave instead of step by step, so that
they can be reasoned about without induction over data: the fills of a tick
(`Ledger` takes the oldest of a set), the fills a tick reads (`AfterFills` of
`Reentry` takes the latest stop-out of a side) and the seeding of a window
(`Ordered`, `Filled`, `SeedFrame` of `Basis`). `MCBasis` has TLC compare the last
of these with the loops, sample by sample and candle by candle, on every small
input.

Abstractions. Quantities and prices are integers on a grid fine enough to tell
the thresholds apart (`Tol` is `TargetToleranceXAUT`, `MinQty` the exchange's
minimum, `Step` and `PriceStep` its steps); the tracker's 1e-8 is exact. The
notional cap is a quantity (`Cap`), as if the price did not move between
decision and check. Order identifiers are reused when nothing refers to them.
Times are ages in ticks (re-entry), half seconds (ledger), minutes (basis) or
what is left of them (polling). The price, urgency
and post-only flag of a LIMIT order are left out: an order may fill, not fill or
be dropped. Signal weights, feature statistics and P&L are inputs; of the fair
value `Risk` has whether it is valid, too dispersed to trade, or without two
routes and so 0. `Risk` counts money in integers and fractions in percent, and a
division rounds towards the smaller order; the account is read afresh in every
tick, its staleness being `Bot`'s subject.

## 3. What the runs check

Runs that pass:

| Run | Properties | Shows |
|---|---|---|
| `SyncLoop_dust` | `TypeOK`, `OneVenue`, `OneOrderPerGroup`, `PlanPassesGuard`, `NoUnprotectedGrowth`, `ImplementsDesk` | safety with fills of any size and fees that leave dust; each step is one of the abstract desk |
| `SyncLoop_even` | `Converges`, `HeldTooLongExits`, `StopMaintained` | liveness when fills leave no dust: reversals complete, due positions close, stops come to rest and stay |
| `Bot_reliable` | `TypeOK`, `OneVenue`, `OneOrderPerGroup`, `WithinCap`, `NoEntryOnceHalted`, `NoReductionOverStop`, `HaltFlattens`, `ImplementsDesk` | safety at the exchange, not in the snapshot, with stale snapshots, failing requests, crash, shutdown, restart; a latched halt ends flat |
| `Reentry_block` | `ReentryTypeOK`, `ReentryOnlyAfterReset` | once a stop-out is known no entry reopens its side before cooldown and reset |
| `Ledger_crash` | `TypeOK`, `Reconciled`, `CountedOnce`, `HaltLatched`, `Settles` | fills once, trades once, a halt for ever, with a failing write and a crash anywhere |
| `Risk_days` | `TypeOK`, `LossHalts`, `HaltEarned`, `GrowthWithinRisk` | over days and weeks a halt is latched exactly when the account reached a limit, measured from what truly was its first and highest equity; growth fits cap and budget of the true account |
| `Polling_limits` | `TypeOK`, `QuietAfterLimit`, `BacksOff`, `BothRefreshed` | no request of either stream within the pause of a rate limit; the distance of two requests is what interval and doublings say; both streams are asked for ever |
| `Basis_restart` | `TypeOK`, `SamplesMatch`, `ClosedOnce`, `LiveSurvives`, `FileCatchesUp`, `WarmAfterRestart` | samples keep their minute and source through wrap-around, save, reload and backfill; no candle is closed twice |

Runs in which TLC finds what a document says violated by what the code does:

| Run | Document | What happens |
|---|---|---|
| `SyncLoop_due` | "exits after the maximum holding time" | XAUT fees leave dust between the tracker's 1e-8 and the planner's 1e-3: it becomes due, is exited by every tick and sold by none, and as every tick then plans towards zero nothing is entered either |
| `Bot_lost` | "absolute gross exposure ceiling: 1.00x" | an error from a submission that took effect leaves the old snapshot in use; the entry is sent twice |
| `Ledger_fees` | "completed trades are stored" | a fee in XAUT leaves a remainder that never closes the trade, so neither the trade nor its loss is counted |
| `Risk_fair` | "drawdown monitoring uses actual uncapped account equity" | with fewer than two fresh routes the fair price is 0, the XAUT held is worth nothing to `Account`, and a drawdown nobody made latches the hard halt |

Each of these has a counterpart that passes and names the circumstance that
breaks the promise: `HeldTooLongExits` in `SyncLoop_even`, where no dust arises;
`WithinCap` in `Bot_reliable`, where an error means that nothing happened;
`HaltEarned` in `Risk_days`, where a fair value may be too dispersed to trade but
has a price; `Reconciled` in `Ledger_crash`, without fees.

Met while modelling, and left without a run of their own because another one is
closer to the money:

- a target below the position by less than the tolerance cancels the stop in one
  tick and places it in the next, for ever (planner.go:167; README.md:43 "An
  exchange-side `STOP` order is maintained separately"). `StopMaintained` speaks
  of positions the planner is not asked to reduce;
- the participation caps bound a flatten too, and in thin markets keep it below
  the minimum order (planner.go:229; ARCHITECTURE.md:112 "Reductions and emergency
  flattening are allowed to bypass the entry-liquidity cap"). `Converges`,
  `HeldTooLongExits` and `HaltFlattens` assume a market that takes the minimum;
- the tick that reads the fill of a stop has computed its signal before and may
  reopen the stopped side at once (app.go:334; README.md:49 "blocked from
  immediate re-entry"). `ReentryOnlyAfterReset` begins with the tick after;
- samples older than the window count when `seedBasis` decides whether it needs
  candles (app.go:150; ARCHITECTURE.md:138 "absent, insufficient or stale").
  `WarmAfterRestart` exempts a file that has some;
- the age of the order pair's book is never tested (app.go:287; README.md:66
  "order approval always requires fresh executable WebSocket books"). Books are
  inputs here.

### The abstract desk

`Desk` has the inventory and one live order per group and nothing of the bot.
`SyncLoop` and `Bot` map to it by `spot`, `margin` and `BookOf(orders)`, the
order with the group's identifier if there is exactly one; identifiers, stop
prices, snapshots, plans, the tracker and `pc` have no image. Reads, decisions,
failed requests, crashes and changes of the market are stutters, a batch of
cancellations and a shutdown are `Withdraw`, a landing order is `Work` or
`Protect`, a fill `Filled`. The refinement is checked as a property of the runs
and proved. `DeskIsSafe` then says what the promise is worth: `OneSided` and
`Bounded`, from which `BotProofs` takes `OneVenue` and `WithinCap`.

### Bounds, and why they are enough

- `Tol = 1, MinQty = 2, Step = PriceStep = 1` with lots of 1 is the smallest
  grid with dust (1), an order of minimum size (2), a position that needs
  several children (4) and a remainder that cannot be traded (3). The liveness
  runs without dust use lots of `MinQty` instead; `SyncLoop_even` uses
  `Tol = 2, MinQty = 4, Lot = 4` so that the tolerance is below a minimum order.
- Targets on both sides and zero make both venues and every reversal reachable;
  `Cap = 5` is one above the largest target, so that a second child or a
  duplicate breaks it. Participation caps lie below, at and above `MinQty`.
- Two stop levels let the stop be trailed and replaced. Three identifiers
  suffice where two orders can be live; `Bot` needs more as snapshots remember
  orders that are gone.
- `MaxChanges` bounds how often the environment changes its mind (target,
  liquidity, price, age, stop triggers). Under it the liveness properties speak
  of what happens after the last change. Ticks and fills are not bounded.
- `MaxUses = 2`: a snapshot serves one more tick than the one that read it, the
  smallest staleness. `MaxStops = 1`: one crash or shutdown anywhere.
- `Ledger`: four fills allow a trade that grows, shrinks, closes and a second
  one; `SeenCap = 2` forces trimming, the code keeps 2000; one failing write and
  one crash fall anywhere, in either order. No more fills than `SeenCap` fall
  into one look-back, as the code assumes of 2000.
- `Risk`: prices 8 and 10 against a capital of 30 make a loss at the stop, a
  daily, a weekly and a drawdown limit reachable one by one, each below the next;
  two days to the week and three days cross both anchors; three moves (of the
  price or by a closed trade), one failing write and one crash fall anywhere. A
  single stop distance suffices as prices already put it on either side of the
  entry.
- `Polling`: `MaxBackoff = 7` is no multiple of any floor, so that the cap cuts
  a doubling; the two intervals lie below the minute of a rate limit, one at the
  second; ticks come late by one unit. Three rate limits in any order, one
  restart; failures of other kinds are not bounded.
- `Basis`: a window of 3 wraps twice within 8 minutes, `WarmupSamples = 2` lies
  below it, candles of 2 minutes and jumps of 2 leave gaps; two restarts reload
  what a restart has written, with every subset of the candles.
- `Reentry`: `Cooldown = 2` ticks distinguishes before, at and after; thresholds
  are those of `config.Default` in hundredths, and `MCFeatures` has a market for
  each return of `Signal`. `Reentry` has no restart: the block is in memory only.

### Fairness

- `SyncLoop`: weak fairness of `Tick` (the ticker) and strong fairness of
  `FillWorking`: ageing cancels and replaces working orders again and again, so
  an order is offered repeatedly rather than continuously. Stops are not fair:
  the market may never reach them.
- `Bot`: weak fairness of the loop's own progress including the restart by a
  supervisor (`supervisord.conf`); strong fairness of reads, decisions on a
  valid book, submissions, cancellations and fills, that is: an exchange that is
  tried again and again answers in the end. Failures and crashes are never fair.
- `Ledger`: weak fairness of the loop's steps; failures and crashes are bounded.
- `Polling`: weak fairness of ticks and answers: the ticker goes on and every
  request returns, with an error or not. Nothing says that it succeeds.
- `Risk` and `Basis` are checked for safety only.

`CHECK_DEADLOCK FALSE` stands where the bound on days or minutes ends the model:
`Risk_days`, `Risk_fair`, `Basis_restart`.

### Mutants

Each property of a passing run has a mutant of a modelled definition that breaks
it. Their operators stand before the definition they mutate and are marked
`Mutant:`; nothing else uses them.

## 4. Assumptions worth knowing

- `Bot` without `TornReads` takes the three requests of one account read for a
  single moment. With the switch on, TLC finds `OneVenue` and `WithinCap`
  violated: a fill between two of the requests yields an account of no moment.
- Orders are enabled and the account verified: observe-only mode is not modelled.
- The tracker's state and the halt are saved when they change; in `Bot` these
  saves succeed. Failing saves of the risk state are in `Ledger`.
- In `Bot` and `Reentry` a target is any that `Evaluate` could settle on: the
  checks other than the hard cap and halts are a free Boolean. What they compute
  is in `Sizing` and `Risk`.
- The exchange liquidates a margin position before all is lost (`Solvent`), so
  the branch that replaces an equity of zero or less by the capital base
  (app.go:373) is taken only while no fair price values what is held.
- `LossHalts` and `HaltEarned` exempt a crash after a failed write (`forgot`): what
  the file never had, nobody can restore.
- A basis file that cannot be decoded counts as an absent one.
- The stop fraction is below one (configuration caps its minimum at 0.25), so a
  stop price is positive.

## 5. Proofs

Every constant is arbitrary within the `ASSUME`s of the modules, which TLC
evaluates on the instances. `tlapm` checks all proofs to the leaves.

- `DeskProofs`, planning. `PlannedIntents` classifies every order a plan can contain;
  `FlattenNeverOpens`, `PlacedStopIsKept` (the rounding of quantity and price
  stays inside the mismatch tolerances, so a stop is not replaced for ever),
  `GrowthIsProtected` and `ReductionsWaitForStops` follow from it and from lemmas
  on rounding and child sizes.
- `DeskProofs`, tracking. `StopNeverWidens`: no step moves the stop of a held side
  away from the market, whatever prices, base price and armed fraction.
  `ReconcileIsObserve`: a step of the arithmetic is a step of `Observe` with the
  computed stop as level, which lets every other module use the small tracker.
- `DeskProofs`, the desk. `DeskIsSafe`: `OneSided` and `Bounded` in every state of `Desk`,
  by the invariant that no live order can build the side opposite to what is held
  and that the cap has room for all of it. The module also holds the lemmas both
  loops need: what a fill, a cancellation and an accepted intent are to the desk.
- `SyncLoopProofs`. `Inv` adds to the types that live orders are well formed (a
  stop never opens, a margin buy is reduce-only), that there is one of a group at
  most, that margin is never positive and that a position tracked has a stop
  price. From it every step of the loop maps to a step of `Desk` or to a stutter
  (`LoopImplementsDesk`; `ExecuteFacts` for ticks, by the adapter's check and
  `PlannedIntents`, `FillFillsDesk` for fills). `OneVenue` is not inductive, an
  order still working may build the other side, and comes from `DeskIsSafe`
  through the refinement (`SpotAndMarginApart`). `TypeCorrect` and `OrdersApart`
  are parts of `Inv`, `GrowthProtected` is the action property from it.
  `PlansPassTheGuard`: no tick plans an order that the adapter refuses, assuming
  `Roomy`, that `Tol` of dust fits under the cap beside the largest target.
  The planner looks at the venue it trades on, the adapter's cap counts both.
- `BotProofs`. `Invariance` and `TypeCorrect` hold with every fault.
  `EntriesStopOnceHalted` too: the halt is looked at by the decision that makes
  the plan, and no step between decision and submission latches one. The others
  assume consistent reads and honest answers (`~TornReads`, `~LostAnswers`), the
  two switches of `Bot`. What makes them inductive is `SeenOK`: while a snapshot
  may still be used, it is what the exchange has but for fills and orders that
  are gone since (`Fresh`), so that a plan made on it adds no second order of a
  kind. From `SafeInv = Inv /\ SeenOK /\ OneOrderPerGroup` follow
  `BotImplementsDesk`, `OrdersStaySingle` and `ReductionsMeetNoStop`; `VenuesStayApart`
  and `CapHolds` come from `DeskIsSafe` through the refinement.
- `ReentryProofs`. The whole tick, with the strategy, the block and the ledger's
  answer in it, still implements `Desk` (`ReentryImplementsDesk`), since what
  `SyncLoopProofs` says of a tick rests on `TickInv` alone: the part of `Inv` about
  account, orders and tracker, and nothing about where the target came from.
  `ReentryWaits` is `ReentryOnlyAfterReset` for every market, threshold and cooldown.
  Its argument: an order opens only in a tick that trades, and then between what
  is held and the target (`OpensTowardsTarget`); the target has a side only if the
  signal wants it and the block lets it through (`WantedSide`); and a block goes
  only with the cooldown over and the thesis reset (`ReleasedBlock`). `ReentryInv` is
  `TickInv` with the types.
- `LedgerProofs`. `ReadsOnce` and `CountsOnce` are the accounting: `LedgerInv` says
  that in memory and on disk the open trade is the sum over exactly the fills
  taken (`Done`: seen, or older than the look-back) whose append did not fail, that
  no look-back holds more fills than a save keeps, that what the disk has taken
  memory has too, that a tick takes its fills oldest first, and that a closed trade
  not yet counted is among the fills taken. Sums are over finite sets; what a sum
  does when a fill is added is proved from a smallest counterexample, as induction
  is out of reach. `HaltOutlives`: a halt on disk is also in memory, so no save,
  failed save or crash releases it. `LedgerTypes`.
- `RiskProofs`. `LossesHalt` and `HaltsAreEarned`, for every limit, price and day,
  under `FairThroughout` ("none" is not a fair state), which is what `Risk_fair`
  shows to be needed. `RiskInv`: the manager's anchors are those of the history,
  and so is the file, unless a write has failed. `GrowthIsWithinRisk`, under the
  same assumption: `SizeWithinRisk` follows the quantity through the paragraphs of
  `Evaluate`, with `LossGrows` (the loss at the stop grows with the quantity) and
  `ScaledLoss` (scaling to a limit brings the loss within it, rounding included).
  `RiskTypes` needs no assumption.
- `PollingProofs`. `QuietAfterEveryLimit`: the time since a rate limit and what is
  left of the pause add up to a minute at least. `BacksOffAlways`: `BackoffInv` says
  of each stream that n failures of one kind in a row have doubled the first wait
  n - 1 times, up to the longest, and that the time since its last request and
  what is left of the wait make up the last wait at least; the doublings are
  powers of two, which `PowerOfTwo` counts as subsets. `PollingTypes`.
- `BasisProofs`. All six properties of `Basis_restart`. `BasisInv` has a part for the
  window (`WindowOK`: the i-th time, the i-th source and the cell of the ring that
  `Cell` names belong to one sample, times increase, and the length is the ring's),
  one for the file, one for the timeframe, and `SavedOK`: if the last minute known
  to be saved is the window's last, then the file is the window. Without that one
  `FileFollows` fails at the tick that has nothing to write. `CellsMove` is the
  wrap-around: what stays in the window stays in its cell, and the cell written is
  one that holds nothing of it. `FilledFacts`: what seeding leaves reads back as
  what was supplied. `LiveSamplesSurvive` counts the minutes from a live sample on:
  there are never more than the window holds. `RestartsWarm` counts what is left
  of candles and file. `BasisAssumption` says that time reaches past the first
  window (`MaxMinutes`, the bound of the model); the code has no such bound.

Only model-checked: the liveness properties (`Converges`, `HeldTooLongExits`,
`StopMaintained`, `HaltFlattens`, `Settles`, `BothRefreshed`), which rest on
fairness and are out of the prover's reach, and what the assumptions named above
exclude: `HaltEarned` without a fair price and the desk's promises with torn reads
or lost answers, all of which are violated. That `Filled`, `Ordered` and `SeedFrame`
are what the loops of the code leave is evaluated by `MCBasis` on small inputs.

## 6. Not modelled

Feature statistics, signal weights, the weights and the gold anchor of the fair
value (floating point; their results are inputs); WebSocket books, their ages and
paper verification; prices and P&L of the ledger; loading of the configuration
(what it validates appears as assumptions); journal, monitor, diagnostics and the
command lines, which no decision depends on. A margin long that an operator
opens: the bot's own orders never build one (`DeskIsSafe`).

## 7. Plan

What was planned is done, in an order that puts first what can lose money or
protection: the planner with the loop around it, the loop request by request,
re-entry and ledger, the tracker's arithmetic, the abstract desk and its
refinement, the risk manager, polling, the basis window, and the proofs of each.
What would come next:

1. the age of books: a module of WebSocket events, `Books`, the routes and the
   classifier, composed with the decision;
2. `Risk` and `Bot` in one module, with a stale account valued at a new price;
3. proofs about the decision of a tick as a whole: that what `Risk` sizes is a
   target `Bot` may be given, and that the block of `Strategy` holds in `Bot` too.
