-------------------------------- MODULE Bot --------------------------------
(***************************************************************************)
(* The trading loop against an exchange that moves while the loop thinks.  *)
(* A tick reads the account in three requests, decides on that snapshot,   *)
(* and cancels or submits one request at a time; the snapshot serves the   *)
(* next tick too unless something was cancelled or submitted.  Requests    *)
(* fail, answers get lost, the process crashes, is shut down and restarts. *)
(***************************************************************************)
EXTENDS Exchange

CONSTANTS
    Targets,             \* targets a decision may carry
    Levels,              \* stop prices
    Caps,                \* participation caps of a child order
    FlattenOnHardHalt,
    MaxUses,             \* ticks one account snapshot serves
    TornReads,           \* the account may change between the three reads
    LostAnswers,         \* a request may take effect and yet return an error
    MaxStops             \* bound on crashes and shutdowns

ASSUME BotAssumption ==
    /\ Targets \subseteq Int
    /\ Levels \subseteq Nat \ {0}
    /\ Levels # {}
    /\ Caps \subseteq Nat
    /\ Caps # {}
    /\ {FlattenOnHardHalt, TornReads, LostAnswers} \subseteq BOOLEAN
    /\ MaxUses \in Nat \ {0}
    /\ MaxStops \in Nat

VARIABLES
    pc,        \* where the tick is
    snap,      \* the cached account, in the app and in the adapter
    uses,      \* ticks snap still serves; 0 when accountAt is zero or too old
    plan,      \* what is left to execute of this tick's plan
    recent,    \* the previous tick submitted: MinimumSubmitInterval may not be over
    tracker,   \* the position tracker, saved at every change
    halted,    \* the risk manager's HardHalt, saved when it latches
    stops      \* crashes and shutdowns so far

exchangeVars == <<spot, margin, orders>>
botVars == <<pc, snap, uses, plan, recent, tracker, halted, stops>>
vars == <<spot, margin, orders, pc, snap, uses, plan, recent, tracker, halted, stops>>

NoAccount == [spot |-> 0, margin |-> 0, orders |-> {}]

-----------------------------------------------------------------------------
(* Ends a tick.  used is what is left of the snapshot's life; a snapshot   *)
(* that will be read again before any use is forgotten.                    *)
EndTick(used, submitted) ==
    /\ pc' = "idle"
    /\ plan' = Nothing
    /\ uses' = used
    /\ snap' = IF used = 0 THEN NoAccount ELSE snap
    /\ recent' = submitted

StartTick ==
    /\ pc = "idle"
    /\ pc' = IF uses = 0 THEN "wallets" ELSE "decide"
    /\ UNCHANGED <<exchangeVars, snap, uses, plan, recent, tracker, halted, stops>>

(* Adapter.Account.                                                        *)
ReadWallets ==
    /\ pc = "wallets"
    /\ pc' = "positions"
    /\ snap' = [snap EXCEPT !.spot = spot]
    /\ UNCHANGED <<exchangeVars, uses, plan, recent, tracker, halted, stops>>

ReadPositions ==
    /\ pc = "positions"
    /\ pc' = "orders"
    /\ snap' = [snap EXCEPT !.margin = margin]
    /\ UNCHANGED <<exchangeVars, uses, plan, recent, tracker, halted, stops>>

ReadOrders ==
    /\ pc = "orders"
    /\ pc' = "decide"
    /\ snap' = [snap EXCEPT !.orders = orders]
    /\ uses' = MaxUses
    /\ UNCHANGED <<exchangeVars, plan, recent, tracker, halted, stops>>

ReadFails ==
    /\ pc \in {"wallets", "positions", "orders"}
    /\ EndTick(0, FALSE)
    /\ UNCHANGED <<exchangeVars, tracker, halted, stops>>

-----------------------------------------------------------------------------
(* Reconcile, the halts, the decision and the plan.  The signal, the       *)
(* regime, the other risk checks and the price are any: target, blocked    *)
(* and exit.  A decision whose worst case exceeds the cap is not Allowed.  *)
WorstCase(target) ==
    LET pending(side) == MapThenSumSet(LAMBDA o : o.rem,
            {o \in snap.orders : Opens(o.venue, o.rem) /\ o.venue = side})
    IN  Greater(Abs(target),
                Greater(Abs(NetXAUT(snap)),
                        Abs(NetXAUT(snap) + pending("spot") + pending("margin"))))

(* The halt is latched before the risk check of the same tick.             *)
Latch == halted' \in IF halted THEN {TRUE} ELSE BOOLEAN

(* Mutant: the decision is taken before the equity of this tick is seen.   *)
TickBranchBeforeLatch(t, target, exit, blocked, cap, aged, bookOk) ==
    TickPlan(snap, t, target, exit \/ (halted /\ FlattenOnHardHalt),
             blocked \/ halted \/ snap.margin > 0 \/ WorstCase(target) > Cap, cap, aged, bookOk)

(* Mutant: a halt blocks entries and leaves the position alone.            *)
TickBranchWithoutFlatten(t, target, exit, blocked, cap, aged, bookOk) ==
    TickPlan(snap, t, target, exit,
             blocked \/ halted' \/ snap.margin > 0 \/ WorstCase(target) > Cap, cap, aged, bookOk)

TickBranch(t, target, exit, blocked, cap, aged, bookOk) ==
    TickPlan(snap, t, target, exit \/ (halted' /\ FlattenOnHardHalt),
             blocked \/ halted' \/ snap.margin > 0 \/ WorstCase(target) > Cap, cap, aged, bookOk)

Decide ==
    /\ pc = "decide"
    /\ Latch
    /\ \E target \in Targets, blocked \in BOOLEAN, level \in Levels, cap \in Caps,
          hit \in BOOLEAN, aged \in SUBSET Ids(WithGid(snap.orders, "work")) :
        LET t == Observe(tracker, snap, level)
            exit == Simultaneous(snap) \/ (t.qty # 0 /\ hit)
        IN  /\ tracker' = t
            /\ plan' = TickBranch(t, target, exit, blocked, cap, aged, TRUE)
    /\ pc' = "execute"
    /\ uses' = uses - 1
    /\ UNCHANGED <<exchangeVars, snap, recent, stops>>

DecideBadBook ==
    /\ pc = "decide"
    /\ Latch
    /\ plan' = TickBranch(tracker, 0, FALSE, TRUE, 0, {}, FALSE)
    /\ pc' = "execute"
    /\ uses' = uses - 1
    /\ UNCHANGED <<exchangeVars, snap, recent, tracker, stops>>

-----------------------------------------------------------------------------
(* execute.  The first cancellation that fails ends the tick, and the      *)
(* snapshot stays in use.                                                  *)
Cancelling(id) == pc = "execute" /\ id \in plan.cancel /\ \A j \in plan.cancel : id <= j

CancelSucceeds ==
    /\ \E o \in orders :
         /\ Cancelling(o.id)
         /\ orders' = orders \ {o}
         /\ IF plan.cancel = {o.id} THEN EndTick(0, FALSE)
            ELSE /\ plan' = [plan EXCEPT !.cancel = @ \ {o.id}]
                 /\ UNCHANGED <<pc, snap, uses, recent>>
    /\ UNCHANGED <<spot, margin, tracker, halted, stops>>

CancelFails ==
    /\ \E id \in plan.cancel :
         /\ Cancelling(id)
         /\ orders' \in {orders} \union IF LostAnswers THEN {{o \in orders : o.id # id}} ELSE {}
    /\ EndTick(uses, FALSE)
    /\ UNCHANGED <<spot, margin, tracker, halted, stops>>

NothingToDo ==
    /\ pc = "execute"
    /\ plan = Nothing
    /\ EndTick(uses, FALSE)
    /\ UNCHANGED <<exchangeVars, tracker, halted, stops>>

(* An identifier that nothing refers to any more: OrderIds bounds how many *)
(* orders live at a time.                                                  *)
FreeIds == OrderIds \ (Ids(orders) \union Ids(snap.orders))
FreshId == CHOOSE id \in FreeIds : TRUE

Submitting == pc = "execute" /\ plan.intent # {}

(* The order reaches the book.                                             *)
Lands(i) ==
    /\ FreeIds # {}
    /\ ValidIntent(i, snap)
    /\ Accepts(i)
    /\ orders' = orders \union {Live(FreshId, i)}

(* Mutant: the snapshot stays in use after a submission.                   *)
SubmitOnKeptSnapshot ==
    /\ Submitting
    /\ \E i \in plan.intent : Lands(i)
    /\ EndTick(uses, TRUE)
    /\ UNCHANGED <<spot, margin, tracker, halted, stops>>

SubmitSucceeds ==
    /\ Submitting
    /\ \E i \in plan.intent : Lands(i)
    /\ EndTick(0, TRUE)
    /\ UNCHANGED <<spot, margin, tracker, halted, stops>>

(* Refused by the adapter or by the exchange, or lost on the way there or  *)
(* on the way back: the caller only sees an error.                         *)
SubmitFails ==
    /\ Submitting
    /\ \/ orders' = orders
       \/ LostAnswers /\ \E i \in plan.intent : Lands(i)
    /\ EndTick(uses, FALSE)
    /\ UNCHANGED <<spot, margin, tracker, halted, stops>>

SubmitTooSoon ==
    /\ Submitting
    /\ recent
    /\ EndTick(uses, FALSE)
    /\ UNCHANGED <<exchangeVars, tracker, halted, stops>>

-----------------------------------------------------------------------------
(* The exchange, at any moment the fault model allows.                     *)
Quiet == TornReads \/ pc \notin {"positions", "orders"}

FillWorking == Quiet /\ FillIn("work") /\ UNCHANGED botVars
StopTriggers == Quiet /\ FillIn("stop") /\ UNCHANGED botVars

(* A post-only entry that would take liquidity is dropped.                 *)
DropPostOnly ==
    /\ Quiet
    /\ \E o \in WithGid(orders, "work") : orders' = orders \ {o}
    /\ UNCHANGED <<spot, margin, botVars>>

-----------------------------------------------------------------------------
Down ==
    /\ pc' = "down"
    /\ plan' = Nothing
    /\ uses' = 0
    /\ snap' = NoAccount
    /\ recent' = FALSE
    /\ stops' = stops + 1
    /\ UNCHANGED <<spot, margin, tracker, halted>>

Crash ==
    /\ stops < MaxStops
    /\ pc # "down"
    /\ Down
    /\ UNCHANGED orders

(* CancelBotOrders cancels both groups and stops at the first error.       *)
Shutdown ==
    /\ stops < MaxStops
    /\ pc = "idle"
    /\ Down
    /\ orders' \in SUBSET orders

Restart ==
    /\ pc = "down"
    /\ pc' = "idle"
    /\ UNCHANGED <<exchangeVars, snap, uses, plan, recent, tracker, halted, stops>>

-----------------------------------------------------------------------------
Init ==
    /\ spot = 0
    /\ margin = 0
    /\ orders = {}
    /\ pc = "idle"
    /\ snap = NoAccount
    /\ uses = 0
    /\ plan = Nothing
    /\ recent = FALSE
    /\ tracker = NoPosition
    /\ halted = FALSE
    /\ stops = 0

Next ==
    \/ StartTick \/ ReadWallets \/ ReadPositions \/ ReadOrders \/ ReadFails
    \/ Decide \/ DecideBadBook
    \/ CancelSucceeds \/ CancelFails \/ NothingToDo
    \/ SubmitSucceeds \/ SubmitFails \/ SubmitTooSoon
    \/ FillWorking \/ StopTriggers \/ DropPostOnly
    \/ Crash \/ Shutdown \/ Restart

Spec == Init /\ [][Next]_vars

(* What the loop does by itself: every request returns, one way or the     *)
(* other, and a supervisor restarts the process.                           *)
Advance ==
    \/ StartTick \/ ReadWallets \/ ReadPositions \/ ReadOrders
    \/ Decide \/ DecideBadBook
    \/ CancelSucceeds \/ CancelFails \/ NothingToDo
    \/ SubmitSucceeds \/ SubmitFails
    \/ Restart

(* The exchange is not down for ever: reads, books, submissions and        *)
(* cancellations that keep being tried work again and again, and a         *)
(* marketable order that keeps being offered is filled.                    *)
Fairness ==
    /\ WF_vars(Advance)
    /\ SF_vars(ReadWallets) /\ SF_vars(ReadPositions) /\ SF_vars(ReadOrders)
    /\ SF_vars(Decide)
    /\ SF_vars(SubmitSucceeds)
    /\ SF_vars(CancelSucceeds)
    /\ SF_vars(FillWorking)

LiveSpec == Spec /\ Fairness

-----------------------------------------------------------------------------
TypeOK ==
    /\ ExchangeTypeOK
    /\ pc \in {"idle", "wallets", "positions", "orders", "decide", "execute", "down"}
    /\ snap \in [spot : Nat, margin : Int, orders : SUBSET OrderType]
    /\ uses \in 0 .. MaxUses
    /\ plan.cancel \subseteq OrderIds
    /\ recent \in BOOLEAN
    /\ tracker \in [qty : Int, stop : Nat, hit : BOOLEAN, due : BOOLEAN]
    /\ halted \in BOOLEAN
    /\ stops \in 0 .. MaxStops

-----------------------------------------------------------------------------
(* The loop implements the abstract desk: whatever snapshots, decisions,   *)
(* cancellations and failures it goes through, every step it causes at the *)
(* exchange is one the desk allows.                                        *)
ImplementsDesk == D!Spec

(* README: "spot long and margin short are never intentionally held        *)
(* together", on the exchange itself and not only in the snapshot the      *)
(* order was checked against: beyond dust, inventory is on one venue.      *)
OneVenue == ~(spot > Tol /\ margin < -Tol)

(* One working order and one protective stop at most are live at the       *)
(* exchange, whatever the reused snapshot, the failed cancellation or the  *)
(* restart made the loop believe.                                          *)
OneOrderPerGroup == \A o, p \in orders : o.gid = p.gid => o = p

(* README: "absolute gross exposure ceiling: 1.00x", pending opening       *)
(* orders included, for what is really owned and really working.           *)
WithinCap == Abs(spot) + Abs(margin) + PendingOpening(account) <= Cap

(* The orders a step adds at the exchange.                                 *)
Added == {o \in orders' : o.id \notin Ids(orders)}

(* app.go: consuming fills and latching halts comes before evaluating      *)
(* risk, "otherwise the tick that observes the final allowed loss could    *)
(* still submit one extra entry".  No entry is sent once a halt has        *)
(* latched, by any tick, before or after a restart.                        *)
NoEntryOnceHalted == [][\A o \in Added : Opens(o.venue, o.rem) => ~halted]_vars

(* planner.go: "Never reduce/flatten/reverse while an old protective stop  *)
(* can also execute."  A reducing order is sent only when no stop is live  *)
(* at the exchange.                                                        *)
NoReductionOverStop ==
    [][\A o \in Added : o.gid = "work" /\ ~Opens(o.venue, o.rem)
          => WithGid(orders, "stop") = {}]_vars

(* A latched halt with flatten_on_hard_halt gets rid of the position and   *)
(* of every order that could rebuild it, through failed and refused        *)
(* requests, stale snapshots, a crash or a shutdown.                       *)
HaltFlattens ==
    halted ~> /\ Abs(spot + margin) < MinQty
              /\ \A o \in orders : ~Opens(o.venue, o.rem)
=============================================================================
