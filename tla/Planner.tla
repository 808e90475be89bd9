------------------------------- MODULE Planner -------------------------------
(***************************************************************************)
(* internal/execution: from a target position and an account snapshot to   *)
(* at most one order, or a set of orders to cancel.                        *)
(*                                                                         *)
(* Quantities and prices are integers (the code's floats on a grid fine    *)
(* enough to tell the thresholds apart); its 1e-9 comparisons are exact.   *)
(* An order is a record                                                    *)
(*   [id, gid, venue, rem, px, close]                                      *)
(* with rem the signed remaining amount (positive buys).  Group "stop"     *)
(* holds exactly the orders of type STOP and group "work" the LIMIT orders,*)
(* as in every intent the planner builds, so the type is not kept.         *)
(*                                                                         *)
(* A planning input is a record                                            *)
(*   [spot, margin, orders, target, qty, stop, bookOk, cap, aged]          *)
(* where qty and stop are the tracker's position and stop price, bookOk    *)
(* says that the execution book is valid, cap is the smallest of the       *)
(* child-notional, depth and recent-volume caps, and aged the identifiers  *)
(* of the orders older than MaximumOrderAge.  Urgency and post-only choose *)
(* the price of a LIMIT order, which is left out.                          *)
(***************************************************************************)
EXTENDS Integers, FiniteSets

CONSTANTS
    Tol,              \* TargetToleranceXAUT
    MinQty,           \* MinimumXAUTQuantity
    Step,             \* QuantityStep
    PriceStep,        \* PriceStep
    ProtectiveStops   \* ProtectiveStops

ASSUME PlannerAssumption ==
    /\ Tol \in Nat
    /\ MinQty \in Nat \ {0}
    /\ Step \in Nat \ {0}
    /\ PriceStep \in Nat \ {0}
    /\ ProtectiveStops \in BOOLEAN

-----------------------------------------------------------------------------
Abs(x) == IF x < 0 THEN -x ELSE x
Lesser(a, b) == IF a < b THEN a ELSE b
Greater(a, b) == IF a > b THEN a ELSE b

NetXAUT(in) == in.spot + in.margin
Long(in) == Greater(0, in.spot)
Short(in) == Abs(Lesser(0, in.margin))

WithGid(orders, g) == {o \in orders : o.gid = g}
Ids(orders) == {o.id : o \in orders}

RoundDown(v) == v - (v % Step)

(* Sells round up, buys round down.                                        *)
RoundPrice(v, side) ==
    IF side = "buy" THEN v - (v % PriceStep) ELSE v + ((-v) % PriceStep)

(* isOpeningIntent: the same test on an intent and on an open order.       *)
Opens(venue, amt) ==
    \/ venue = "spot" /\ amt > 0
    \/ venue = "margin" /\ amt < 0

-----------------------------------------------------------------------------
(* A plan is [cancel, intent]; intent is a set with at most one element.   *)
Nothing == [cancel |-> {}, intent |-> {}]
CancelOnly(orders) == [cancel |-> Ids(orders), intent |-> {}]
Submit(i) == [cancel |-> {}, intent |-> {i}]

NeedsStopCancellation(in) ==
    \/ NetXAUT(in) = 0
    \/ in.target = 0
    \/ (in.target > 0) # (NetXAUT(in) > 0)
    \/ Abs(in.target) < Abs(NetXAUT(in))

(* Mutant: protects only what has reached its target.                      *)
ProtectsWhenBuilt(in) ==
    /\ in.qty # 0
    /\ in.stop > 0
    /\ NetXAUT(in) # 0
    /\ in.target = NetXAUT(in)

ShouldProtectDuringBuild(in) ==
    /\ in.qty # 0
    /\ in.stop > 0
    /\ NetXAUT(in) # 0
    /\ (in.target > 0) = (NetXAUT(in) > 0)
    /\ Abs(in.target) >= Abs(NetXAUT(in))

(* A live stop is left alone only when every stop is this close to the     *)
(* tracker: two quantity steps, one and a half price steps.                *)
StopMismatch(o, in) ==
    \/ Abs(Abs(o.rem) - Abs(in.qty)) > 2 * Step
    \/ 2 * Abs(o.px - in.stop) > 3 * PriceStep

(* Mutant: the price of a sell is signed like its amount.                  *)
SignedStopPrice(in) ==
    IF in.qty < 0
    THEN [gid |-> "stop", venue |-> "margin", amt |-> RoundDown(Abs(in.qty)),
          close |-> TRUE, px |-> RoundPrice(in.stop, "buy")]
    ELSE [gid |-> "stop", venue |-> "spot", amt |-> -RoundDown(Abs(in.qty)),
          close |-> FALSE, px |-> -RoundPrice(in.stop, "sell")]

StopIntent(in) ==
    IF in.qty < 0
    THEN [gid |-> "stop", venue |-> "margin", amt |-> RoundDown(Abs(in.qty)),
          close |-> TRUE, px |-> RoundPrice(in.stop, "buy")]
    ELSE [gid |-> "stop", venue |-> "spot", amt |-> -RoundDown(Abs(in.qty)),
          close |-> FALSE, px |-> RoundPrice(in.stop, "sell")]

(* Mutant: does not look for a stop that is already there.                 *)
ProtectiveAgain(in) ==
    IF ~ProtectiveStops \/ Abs(in.qty) <= Tol \/ in.stop <= 0 THEN Nothing
    ELSE IF RoundDown(Abs(in.qty)) < MinQty THEN Nothing
    ELSE Submit(StopIntent(in))

(* Mutant: never refreshes a stop whose size or price is out of date.      *)
ProtectiveOnce(in) ==
    IF WithGid(in.orders, "stop") # {} THEN Nothing ELSE ProtectiveAgain(in)

Protective(in) ==
    LET stops == WithGid(in.orders, "stop")
    IN  IF ~ProtectiveStops \/ Abs(in.qty) <= Tol \/ in.stop <= 0 THEN Nothing
        ELSE IF stops # {} THEN
            IF \E o \in stops : StopMismatch(o, in) THEN CancelOnly(stops) ELSE Nothing
        ELSE IF RoundDown(Abs(in.qty)) < MinQty THEN Nothing
        ELSE Submit(StopIntent(in))

-----------------------------------------------------------------------------
(* Working orders.                                                         *)
OrderSupportsTarget(o, in) ==
    LET buys == o.rem > 0
        grows == in.target - Long(in)                \* spot, target > 0
        deepens == Abs(in.target) - Short(in)        \* margin, target < 0
    IN  IF in.target > 0 THEN
            IF in.margin < 0 THEN o.venue = "margin" /\ buys
            ELSE o.venue = "spot" /\ ((grows > 0 /\ buys) \/ (grows < 0 /\ o.rem < 0))
        ELSE IF in.target < 0 THEN
            IF in.spot > 0 THEN o.venue = "spot" /\ o.rem < 0
            ELSE o.venue = "margin" /\ ((deepens > 0 /\ o.rem < 0) \/ (deepens < 0 /\ buys))
        ELSE \/ o.venue = "spot" /\ o.rem < 0
             \/ o.venue = "margin" /\ buys

StaleWorking(in) ==
    {o \in WithGid(in.orders, "work") : o.id \in in.aged \/ ~OrderSupportsTarget(o, in)}

(* spotBuy, spotSell, marginSell, marginClose: a child order of at most    *)
(* the participation caps, or nothing when what is left is below MinQty.   *)
Child(in, venue, sign, quantity, close) ==
    LET q == RoundDown(Lesser(quantity, in.cap))
    IN  IF q < MinQty THEN Nothing
        ELSE Submit([gid |-> "work", venue |-> venue, amt |-> sign * q,
                     close |-> close, px |-> 0])

SpotBuy(in, q) == Child(in, "spot", 1, q, FALSE)
SpotSell(in, q) == Child(in, "spot", -1, q, FALSE)
MarginSell(in, q) == Child(in, "margin", -1, q, FALSE)
(* Mutant: forgets reduce-only.                                            *)
MarginBuy(in, q) == Child(in, "margin", 1, q, FALSE)

MarginClose(in, q) == Child(in, "margin", 1, q, TRUE)

Flatten(in) ==
    IF Long(in) > Tol THEN SpotSell(in, Long(in))
    ELSE IF Short(in) > Tol THEN MarginClose(in, Short(in))
    ELSE Nothing

(* Mutant: only ever increases a long.                                     *)
IncreaseLong(in) ==
    LET delta == in.target - Long(in)
    IN  IF delta > Tol THEN SpotBuy(in, delta) ELSE Protective(in)

AdjustLong(in) ==
    LET delta == in.target - Long(in)
    IN  IF Abs(delta) <= Tol THEN Protective(in)
        ELSE IF delta > 0 THEN SpotBuy(in, delta)
        ELSE SpotSell(in, -delta)

AdjustShort(in) ==
    LET delta == Abs(in.target) - Short(in)
    IN  IF Abs(delta) <= Tol THEN Protective(in)
        ELSE IF delta > 0 THEN MarginSell(in, delta)
        ELSE MarginClose(in, -delta)

Trade(in) ==
    IF in.target > Tol /\ Short(in) > Tol THEN MarginClose(in, Short(in))
    ELSE IF in.target < -Tol /\ Long(in) > Tol THEN SpotSell(in, Long(in))
    ELSE IF Abs(in.target) <= Tol THEN Flatten(in)
    ELSE IF in.target > 0 THEN AdjustLong(in)
    ELSE AdjustShort(in)

-----------------------------------------------------------------------------
(* Mutant: does not wait for a working order.                              *)
PlanWithoutWaiting(in) ==
    LET stops == WithGid(in.orders, "stop")
    IN  IF ~in.bookOk THEN Nothing
        ELSE IF stops # {} /\ NeedsStopCancellation(in) THEN CancelOnly(stops)
        ELSE IF ShouldProtectDuringBuild(in) /\ Protective(in) # Nothing THEN Protective(in)
        ELSE Trade(in)

(* Mutant: trades with the protective stop still live.                     *)
PlanOverStops(in) ==
    IF ~in.bookOk THEN Nothing
    ELSE IF ShouldProtectDuringBuild(in) /\ Protective(in) # Nothing THEN Protective(in)
    ELSE IF WithGid(in.orders, "work") # {} THEN CancelOnly(StaleWorking(in))
    ELSE Trade(in)

Plan(in) ==
    LET stops == WithGid(in.orders, "stop")
    IN  IF ~in.bookOk THEN Nothing
        ELSE IF stops # {} /\ NeedsStopCancellation(in) THEN CancelOnly(stops)
        ELSE IF ShouldProtectDuringBuild(in) /\ Protective(in) # Nothing THEN Protective(in)
        ELSE IF WithGid(in.orders, "work") # {} THEN CancelOnly(StaleWorking(in))
        ELSE Trade(in)

=============================================================================
