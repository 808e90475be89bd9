------------------------------ MODULE SyncLoop ------------------------------
(***************************************************************************)
(* The trading loop when every tick sees the account as it is: planner,    *)
(* tracker and adapter check closed over an exchange that fills, partially *)
(* fills or refuses what it is sent.  Asynchrony, stale snapshots, lost    *)
(* answers and crashes are in module Bot.                                  *)
(***************************************************************************)
EXTENDS Exchange

CONSTANTS
    Targets,      \* targets the strategy and the risk manager can settle on
    Levels,       \* stop prices
    Caps,         \* values of cap
    MaxChanges    \* bound on changes of mind of the market and the strategy

(* Two orders at most are live, so a third identifier is always free.      *)
ASSUME SyncLoopAssumption ==
    /\ \E i, j, k \in OrderIds : i # j /\ j # k /\ k # i
    /\ Targets \subseteq Int
    /\ Levels \subseteq Nat \ {0}
    /\ Levels # {}
    /\ Caps \subseteq Nat
    /\ MaxChanges \in Nat

VARIABLES
    tracker,   \* the position tracker's state
    target,    \* the risk-checked target
    blocked,   \* signal.NoNewEntries or a decision that is not Allowed
    cap,       \* what the participation caps of a child order come to
    changes

vars == <<spot, margin, orders, tracker, target, blocked, cap, changes>>

-----------------------------------------------------------------------------
FreshId == CHOOSE id \in OrderIds : id \notin Ids(orders)

FillWorking ==
    /\ FillIn("work")
    /\ UNCHANGED <<tracker, target, blocked, cap, changes>>

(* A stop fills when the market trades through it.                         *)
StopTriggers ==
    /\ changes < MaxChanges
    /\ changes' = changes + 1
    /\ FillIn("stop")
    /\ UNCHANGED <<tracker, target, blocked, cap>>

-----------------------------------------------------------------------------
(* execute: cancellations, or a submission the adapter and the exchange    *)
(* may refuse.                                                             *)
Execute(p) ==
    orders' =
        IF p.cancel # {} THEN {o \in orders : o.id \notin p.cancel}
        ELSE orders \union {Live(FreshId, i) :
                              i \in {j \in p.intent : ValidIntent(j, account) /\ Accepts(j)}}

Tick ==
    \E level \in Levels, aged \in SUBSET Ids(WithGid(orders, "work")) :
        LET t == Observe(tracker, account, level)
        IN  /\ tracker' = t
            /\ Execute(TickPlan(account, t, target, ExitRequired(t, account), blocked,
                                cap, aged, TRUE))
            /\ UNCHANGED <<spot, margin, target, blocked, cap, changes>>

(* With an invalid execution book the tracker does nothing, the decision   *)
(* is not Allowed and the planner returns no order: working orders are     *)
(* cancelled all the same.                                                 *)
TickBadBook ==
    /\ Execute(TickPlan(account, tracker, target, FALSE, TRUE, cap, {}, FALSE))
    /\ UNCHANGED <<spot, margin, tracker, target, blocked, cap, changes>>

(* The market and the strategy move.                                       *)
Decide ==
    /\ changes < MaxChanges
    /\ changes' = changes + 1
    /\ target' \in Targets
    /\ blocked' \in BOOLEAN
    /\ UNCHANGED <<spot, margin, orders, tracker, cap>>

LiquidityMoves ==
    /\ changes < MaxChanges
    /\ changes' = changes + 1
    /\ cap' \in Caps
    /\ UNCHANGED <<spot, margin, orders, tracker, target, blocked>>

PriceMoves ==
    /\ changes < MaxChanges
    /\ changes' = changes + 1
    /\ tracker.qty # 0
    /\ tracker' = [tracker EXCEPT !.hit = ~@]
    /\ UNCHANGED <<spot, margin, orders, target, blocked, cap>>

HoldingTimePasses ==
    /\ changes < MaxChanges
    /\ changes' = changes + 1
    /\ tracker.qty # 0
    /\ tracker' = [tracker EXCEPT !.due = TRUE]
    /\ UNCHANGED <<spot, margin, orders, target, blocked, cap>>

-----------------------------------------------------------------------------
Init ==
    /\ spot = 0
    /\ margin = 0
    /\ orders = {}
    /\ tracker = NoPosition
    /\ target \in Targets
    /\ blocked = FALSE
    /\ cap \in Caps
    /\ changes = 0

Next ==
    \/ Tick
    \/ TickBadBook
    \/ FillWorking
    \/ StopTriggers
    \/ Decide
    \/ LiquidityMoves
    \/ PriceMoves
    \/ HoldingTimePasses

(* The ticker keeps ticking on a valid book, and an order that stays good  *)
(* is filled in the end even if ageing cancels and replaces it.  Stops may *)
(* never trigger.                                                          *)
Fairness == WF_vars(Tick) /\ SF_vars(FillWorking)

Spec == Init /\ [][Next]_vars /\ Fairness

-----------------------------------------------------------------------------
TypeOK ==
    /\ ExchangeTypeOK
    /\ tracker \in [qty : Int, stop : Nat, hit : BOOLEAN, due : BOOLEAN]
    /\ target \in Targets
    /\ blocked \in BOOLEAN
    /\ cap \in Caps
    /\ changes \in 0 .. MaxChanges

-----------------------------------------------------------------------------
Protects(o, t) ==
    /\ o.gid = "stop"
    /\ Abs(Abs(o.rem) - Abs(t.qty)) <= 2 * Step
    /\ 2 * Abs(o.px - t.stop) <= 3 * PriceStep

(* The loop implements the abstract desk: whatever snapshots, decisions,   *)
(* cancellations and failures it goes through, every step it causes at the *)
(* exchange is one the desk allows.                                        *)
ImplementsDesk == D!Spec

(* README: "spot long and margin short are never intentionally held        *)
(* together".  Inventory the planner can still trade is on one venue only. *)
OneVenue == ~(spot > Tol /\ margin < -Tol)

(* At most one working order and one protective stop at a time: what keeps *)
(* the position from overshooting the target child by child.               *)
OneOrderPerGroup == \A o, p \in orders : o.gid = p.gid => o = p

(* The planner and the adapter agree: whatever a tick may plan from this   *)
(* account, the adapter's own check of the order accepts it, so a tick is  *)
(* never wasted on an order that is refused again and again.               *)
PlanPassesGuard ==
    \A level \in Levels, c \in Caps :
        LET t == Observe(tracker, account, level)
            p == TickPlan(account, t, target, ExitRequired(t, account), blocked, c, {}, TRUE)
        IN  \A i \in p.intent : ValidIntent(i, account)

(* README: "Any partial entry fill is protected before the planner waits   *)
(* for or submits another child entry."  No opening order is added to a    *)
(* position large enough for a stop that has none at its size and price.   *)
NoUnprotectedGrowth ==
    [][\A o \in orders' :
          ProtectiveStops /\ o.id \notin Ids(orders) /\ Opens(o.venue, o.rem) =>
              \/ Abs(tracker'.qty) <= Tol
              \/ RoundDown(Abs(tracker'.qty)) < MinQty
              \/ \E s \in orders : Protects(s, tracker')]_vars

(* Once the strategy has settled on a target, stops are not hit and the    *)
(* market can absorb a minimum order, the position ends within one minimum *)
(* order of it, whatever was held before, reversals through flat included. *)
(* The participation caps bound exits as well: without the last condition  *)
(* a flatten may wait for ever.                                            *)
Converges ==
    \A q \in Targets :
        <>[](target = q /\ ~blocked /\ cap >= MinQty) => <>[](Abs(spot + margin - q) < MinQty)

(* "exits after the maximum holding time": a position that is due is       *)
(* closed and forgotten, once the market can absorb a minimum order.       *)
HeldTooLongExits == <>[](cap >= MinQty) => (tracker.due ~> tracker.qty = 0)

(* A position the planner is not asked to reduce ends up with a stop that  *)
(* stays, at the tracker's size and price, through ageing, trailing and    *)
(* partial fills.                                                          *)
Reducing == ~blocked /\ NeedsStopCancellation(PlannerInput(account, tracker, target, 0, {}, TRUE))

StopMaintained ==
    <>[](Abs(spot + margin) >= MinQty /\ ~Reducing /\ ~tracker.hit /\ ~tracker.due)
        => <>[](\E o \in orders : Protects(o, tracker))
=============================================================================
