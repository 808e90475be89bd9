------------------------------- MODULE Engine -------------------------------
(***************************************************************************)
(* The decision half of one tick of internal/app: what the position        *)
(* tracker makes of an account snapshot, which target reaches the planner, *)
(* and the adapter's last check of an order before it leaves.              *)
(*                                                                         *)
(* An account is a record [spot, margin, orders].  The tracker is a record *)
(* [qty, stop, hit, due]: its position, its stop price, whether the        *)
(* executable side of the book is at or beyond that stop, and whether the  *)
(* maximum holding time has passed.  Observe takes the stop price that the *)
(* market suggests: how it is computed is module Tracker.                  *)
(***************************************************************************)
EXTENDS Planner, FiniteSetsExt

CONSTANT Cap   \* gross exposure limit, as a quantity at the order's price

ASSUME EngineAssumption == Cap \in Nat

-----------------------------------------------------------------------------
(* Tracker.Reconcile.                                                      *)
NoPosition == [qty |-> 0, stop |-> 0, hit |-> FALSE, due |-> FALSE]

Simultaneous(a) == a.spot > 0 /\ a.margin < 0

CurrentQuantity(a) ==
    IF a.spot > 0 THEN a.spot ELSE IF a.margin < 0 THEN a.margin ELSE 0

SameDirection(p, q) == (p > 0 /\ q > 0) \/ (p < 0 /\ q < 0)

(* A stop only moves towards the market.                                   *)
Tighter(qty, level, stop) == IF qty > 0 THEN level > stop ELSE level < stop

(* A new position's stop is set a fraction away from its entry; the model  *)
(* lets the market reach it in a later step (PriceMoves).                  *)
Observe(t, a, level) ==
    LET q == CurrentQuantity(a)
    IN  IF Simultaneous(a) THEN t
        ELSE IF q = 0 THEN NoPosition
        ELSE IF ~SameDirection(q, t.qty) THEN
            [qty |-> q, stop |-> level, hit |-> FALSE, due |-> FALSE]
        ELSE [t EXCEPT !.qty = q,
                       !.stop = IF Tighter(q, level, @) THEN level ELSE @]

(* Mutant: the maximum holding time is not looked at.                      *)
ExitOnStopOnly(t, a) == Simultaneous(a) \/ (t.qty # 0 /\ t.hit)

ExitRequired(t, a) == Simultaneous(a) \/ (t.qty # 0 /\ (t.hit \/ t.due))

-----------------------------------------------------------------------------
PlannerInput(a, t, target, cap, aged, bookOk) ==
    [spot |-> a.spot, margin |-> a.margin, orders |-> a.orders, target |-> target,
     qty |-> t.qty, stop |-> t.stop, bookOk |-> bookOk, cap |-> cap, aged |-> aged]

(* The four branches of tick: a software exit, a halt that flattens, blocked *)
(* entries, and the ordinary case.  flatten stands for the first two.        *)
TickPlan(a, t, target, flatten, blocked, cap, aged, bookOk) ==
    LET Towards(q) == Plan(PlannerInput(a, t, q, cap, aged, bookOk))
        working == WithGid(a.orders, "work")
    IN  IF flatten THEN Towards(0)
        ELSE IF blocked THEN
            IF working # {} THEN CancelOnly(working) ELSE Towards(NetXAUT(a))
        ELSE Towards(target)

-----------------------------------------------------------------------------
(* Adapter.validateIntentAgainstCachedAccount.  The snapshot's age is not  *)
(* kept: a tick that cannot refresh the account stops, so the snapshot an  *)
(* order is checked against never nears AccountMaximumAge.                 *)
PendingOpening(a) ==
    LET openings == {o \in a.orders : Opens(o.venue, o.rem)}
        sum[s \in SUBSET openings] ==
            IF s = {} THEN 0
            ELSE LET o == CHOOSE o \in s : TRUE IN Abs(o.rem) + sum[s \ {o}]
    IN  sum[openings]

ValidVenueSide(i, a) ==
    \/ i.venue = "spot" /\ i.amt < 0 /\ -i.amt <= a.spot + Step
    \/ i.venue = "margin" /\ i.amt > 0 /\ i.close /\ i.amt <= Short(a) + Step
    \/ i.venue = "margin" /\ i.amt < 0 /\ ~i.close /\ a.spot <= Tol
    \/ i.venue = "spot" /\ i.amt > 0 /\ a.margin >= -Tol

ValidIntent(i, a) ==
    /\ ValidVenueSide(i, a)
    /\ Opens(i.venue, i.amt) =>
         Abs(a.spot) + Abs(a.margin) + PendingOpening(a) + Abs(i.amt) <= Cap
=============================================================================
