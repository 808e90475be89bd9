----------------------------- MODULE DeskProofs -----------------------------
(***************************************************************************)
(* The decision half of a tick: what a plan may and may not do, for every  *)
(* account, target and configuration, and that the tracker's arithmetic    *)
(* does what module Engine assumes of it.  Then what the two loops share   *)
(* at the exchange: how their orders look, what a fill, a cancellation and *)
(* a placement do to the abstract desk, and what the desk guarantees to    *)
(* whoever implements it.                                                  *)
(***************************************************************************)
EXTENDS Exchange, Tracker, TLAPS

-----------------------------------------------------------------------------
(* Planning and tracking.                                                  *)

(* What the planner is told: the fields it computes with are numbers.      *)
InputOK(in) ==
    /\ in.spot \in Nat
    /\ in.margin \in Int
    /\ in.target \in Int
    /\ in.qty \in Int
    /\ in.stop \in Nat
    /\ in.cap \in Nat

IntentOK(i) ==
    /\ i \in [gid : {"work", "stop"}, venue : {"spot", "margin"}, amt : Int,
              close : BOOLEAN, px : Nat]
    /\ i.amt # 0
    /\ i.venue = "margin" /\ i.amt > 0 => i.close
    /\ i.gid = "stop" => ~Opens(i.venue, i.amt)

-----------------------------------------------------------------------------
(* Rounding a quantity down loses less than a step.                        *)
LEMMA RoundDownFacts ==
    ASSUME NEW v \in Nat
    PROVE  /\ RoundDown(v) \in Nat
           /\ RoundDown(v) <= v
           /\ v - RoundDown(v) < Step
<1>1. v % Step \in 0 .. (Step - 1)
  BY PlannerAssumption
<1>2. v % Step <= v
  BY PlannerAssumption
<1> QED
  BY <1>1, <1>2, PlannerAssumption DEF RoundDown

(* Rounding a price moves it by less than a price step.                    *)
LEMMA RoundPriceFacts ==
    ASSUME NEW v \in Nat
    PROVE  /\ RoundPrice(v, "sell") \in Nat /\ Abs(RoundPrice(v, "sell") - v) < PriceStep
           /\ RoundPrice(v, "buy") \in Nat /\ Abs(RoundPrice(v, "buy") - v) < PriceStep
<1>1. /\ v % PriceStep \in 0 .. (PriceStep - 1)
      /\ (-v) % PriceStep \in 0 .. (PriceStep - 1)
  BY PlannerAssumption
<1>2. v % PriceStep <= v
  BY PlannerAssumption
<1>3. RoundPrice(v, "sell") = v + ((-v) % PriceStep)
  BY DEF RoundPrice
<1>4. RoundPrice(v, "buy") = v - (v % PriceStep)
  BY DEF RoundPrice
<1> QED
  BY <1>1, <1>2, <1>3, <1>4, PlannerAssumption DEF Abs

-----------------------------------------------------------------------------
(* A child order is at least a minimum order and at most what was asked.   *)
ChildOf(i, venue, sign, quantity, close) ==
    /\ i.gid = "work"
    /\ i.venue = venue
    /\ i.close = close
    /\ i.px = 0
    /\ i.amt \in Int
    /\ sign * i.amt >= MinQty
    /\ sign * i.amt <= quantity

(* A child order never exceeds the quantity it was split from, nor falls *)
(* below the exchange's minimum.                                         *)
LEMMA ChildFacts ==
    ASSUME NEW in, InputOK(in), NEW venue, NEW sign \in {-1, 1}, NEW quantity \in Nat,
           NEW close \in BOOLEAN
    PROVE  /\ Child(in, venue, sign, quantity, close).cancel = {}
           /\ \A i \in Child(in, venue, sign, quantity, close).intent :
                 /\ ChildOf(i, venue, sign, quantity, close)
                 /\ DOMAIN i = {"gid", "venue", "amt", "close", "px"}
                 /\ i = [gid |-> "work", venue |-> venue, amt |-> i.amt,
                         close |-> close, px |-> 0]
<1> DEFINE least == Lesser(quantity, in.cap)
           q == RoundDown(least)
<1>1. least \in Nat /\ least <= quantity
  BY DEF InputOK, Lesser
<1>2. q \in Nat /\ q <= least
  BY <1>1, RoundDownFacts
<1>3. CASE q < MinQty
  BY <1>3 DEF Child, Nothing
<1>4. CASE ~(q < MinQty)
  <2>1. Child(in, venue, sign, quantity, close)
        = [cancel |-> {},
           intent |-> {[gid |-> "work", venue |-> venue, amt |-> sign * q,
                        close |-> close, px |-> 0]}]
    BY <1>4 DEF Child, Submit
  <2> QED
    BY <2>1, <1>1, <1>2, <1>4, PlannerAssumption DEF ChildOf
<1> QED
  BY <1>3, <1>4

(* The stop the planner asks for covers the tracked position and no more.  *)
LEMMA StopFacts ==
    ASSUME NEW in, InputOK(in)
    PROVE  /\ Protective(in).intent \subseteq {StopIntent(in)}
           /\ Protective(in).intent # {} =>
                /\ WithGid(in.orders, "stop") = {}
                /\ in.qty # 0
                /\ IntentOK(StopIntent(in))
                /\ Abs(StopIntent(in).amt) <= Abs(in.qty)
                /\ StopIntent(in).gid = "stop"
                /\ in.qty > 0 => StopIntent(in).amt < 0
                /\ in.qty < 0 => StopIntent(in).amt > 0
<1> DEFINE size == RoundDown(Abs(in.qty))
<1>1. Abs(in.qty) \in Nat
  BY DEF InputOK, Abs
<1>2. size \in Nat /\ size <= Abs(in.qty)
  BY <1>1, RoundDownFacts
<1>3. RoundPrice(in.stop, "sell") \in Nat /\ RoundPrice(in.stop, "buy") \in Nat
  BY RoundPriceFacts DEF InputOK
<1>4. Protective(in).intent \subseteq {StopIntent(in)}
  BY DEF Protective, Nothing, CancelOnly, Submit
<1>5. ASSUME Protective(in).intent # {}
      PROVE  WithGid(in.orders, "stop") = {} /\ Abs(in.qty) > Tol /\ size >= MinQty
  BY <1>2, <1>5, <1>1, PlannerAssumption DEF Protective, Nothing, CancelOnly, Submit
<1>6. ASSUME Abs(in.qty) > Tol, size >= MinQty
      PROVE  /\ in.qty # 0
             /\ IntentOK(StopIntent(in))
             /\ Abs(StopIntent(in).amt) <= Abs(in.qty)
             /\ StopIntent(in).gid = "stop"
             /\ in.qty > 0 => StopIntent(in).amt < 0
             /\ in.qty < 0 => StopIntent(in).amt > 0
  <2>1. in.qty \in Int /\ in.qty # 0
    BY <1>6, PlannerAssumption DEF InputOK, Abs
  <2>2. CASE in.qty > 0
    <3>1. StopIntent(in) = [gid |-> "stop", venue |-> "spot", amt |-> -size,
                            close |-> FALSE, px |-> RoundPrice(in.stop, "sell")]
      BY <2>2, <2>1 DEF StopIntent
    <3>2. -size \in Int /\ -size < 0 /\ RoundPrice(in.stop, "sell") \in Nat
      BY <1>2, <1>3, <1>6, PlannerAssumption
    <3>3. IntentOK(StopIntent(in))
      BY <3>1, <3>2 DEF IntentOK, Opens
    <3>4. Abs(StopIntent(in).amt) <= Abs(in.qty)
      BY <3>1, <3>2, <1>2 DEF Abs
    <3>5. StopIntent(in).gid = "stop" /\ StopIntent(in).amt < 0
      BY <3>1, <3>2
    <3> QED
      BY <2>1, <2>2, <3>3, <3>4, <3>5
  <2>3. CASE in.qty < 0
    <3>1. StopIntent(in) = [gid |-> "stop", venue |-> "margin", amt |-> size,
                            close |-> TRUE, px |-> RoundPrice(in.stop, "buy")]
      BY <2>3, <2>1 DEF StopIntent
    <3>2. size \in Int /\ size > 0 /\ RoundPrice(in.stop, "buy") \in Nat
      BY <1>2, <1>3, <1>6, PlannerAssumption
    <3>3. IntentOK(StopIntent(in))
      BY <3>1, <3>2 DEF IntentOK, Opens
    <3>4. Abs(StopIntent(in).amt) <= Abs(in.qty)
      BY <3>1, <3>2, <1>2 DEF Abs
    <3>5. StopIntent(in).gid = "stop" /\ StopIntent(in).amt > 0
      BY <3>1, <3>2
    <3> QED
      BY <2>1, <2>3, <3>3, <3>4, <3>5
  <2> QED
    BY <2>1, <2>2, <2>3
<1> QED
  BY <1>4, <1>5, <1>6

-----------------------------------------------------------------------------
(* A child order as the four operations of the planner issue it.           *)
LEMMA TradeOpFacts ==
    ASSUME NEW in, InputOK(in), NEW quantity \in Nat
    PROVE  /\ \A i \in SpotBuy(in, quantity).intent :
                 IntentOK(i) /\ ChildOf(i, "spot", 1, quantity, FALSE)
           /\ \A i \in SpotSell(in, quantity).intent :
                 IntentOK(i) /\ ChildOf(i, "spot", -1, quantity, FALSE)
           /\ \A i \in MarginSell(in, quantity).intent :
                 IntentOK(i) /\ ChildOf(i, "margin", -1, quantity, FALSE)
           /\ \A i \in MarginClose(in, quantity).intent :
                 IntentOK(i) /\ ChildOf(i, "margin", 1, quantity, TRUE)
<1>1. ASSUME NEW venue \in {"spot", "margin"}, NEW sign \in {-1, 1}, NEW close \in BOOLEAN,
             venue = "spot" \/ sign = -1 \/ close = TRUE,
             NEW i \in Child(in, venue, sign, quantity, close).intent
      PROVE  IntentOK(i) /\ ChildOf(i, venue, sign, quantity, close)
  <2>1. /\ ChildOf(i, venue, sign, quantity, close)
        /\ i = [gid |-> "work", venue |-> venue, amt |-> i.amt, close |-> close, px |-> 0]
    BY <1>1, ChildFacts
  <2>2. i.amt \in Int /\ i.amt # 0 /\ (i.amt > 0 => sign = 1)
    BY <1>1, <2>1, PlannerAssumption DEF ChildOf
  <2> QED
    BY <1>1, <2>1, <2>2 DEF IntentOK, ChildOf
<1>2. \A i \in SpotBuy(in, quantity).intent :
         IntentOK(i) /\ ChildOf(i, "spot", 1, quantity, FALSE)
  BY <1>1 DEF SpotBuy
<1>3. \A i \in SpotSell(in, quantity).intent :
         IntentOK(i) /\ ChildOf(i, "spot", -1, quantity, FALSE)
  BY <1>1 DEF SpotSell
<1>4. \A i \in MarginSell(in, quantity).intent :
         IntentOK(i) /\ ChildOf(i, "margin", -1, quantity, FALSE)
  BY <1>1 DEF MarginSell
<1>5. \A i \in MarginClose(in, quantity).intent :
         IntentOK(i) /\ ChildOf(i, "margin", 1, quantity, TRUE)
  BY <1>1 DEF MarginClose
<1> QED
  BY <1>2, <1>3, <1>4, <1>5

(* The intent the planner returns when it neither cancels nor waits:       *)
(* a stop, or a child order whose direction matches the way to the target. *)
TradeOK(in, i) ==
    \/ i \in Protective(in).intent /\ Abs(in.target) > Tol
    \/ /\ i.venue = "spot" /\ i.gid = "work" /\ i.amt < 0
       /\ -i.amt <= Long(in)
    \/ /\ i.venue = "margin" /\ i.gid = "work" /\ i.amt > 0 /\ i.close
       /\ i.amt <= Short(in)
    \/ /\ i.venue = "spot" /\ i.gid = "work" /\ i.amt > 0
       /\ in.target > Tol /\ Short(in) <= Tol
       /\ Long(in) + i.amt <= in.target
    \/ /\ i.venue = "margin" /\ i.gid = "work" /\ i.amt < 0 /\ ~i.close
       /\ in.target < -Tol /\ Long(in) <= Tol
       /\ Short(in) - i.amt <= -in.target

(* What Trade submits closes, or opens towards the target on its venue.  *)
LEMMA TradeFacts ==
    ASSUME NEW in, InputOK(in), NEW i \in Trade(in).intent
    PROVE  TradeOK(in, i) /\ IntentOK(i)
<1>1. Long(in) \in Nat /\ Short(in) \in Nat /\ in.target \in Int
  BY DEF InputOK, Long, Short, Greater, Lesser, Abs
<1>2. ASSUME NEW q \in Nat, q <= Long(in), i \in SpotSell(in, q).intent
      PROVE  TradeOK(in, i) /\ IntentOK(i)
  <2>1. IntentOK(i) /\ ChildOf(i, "spot", -1, q, FALSE)
    BY <1>2, TradeOpFacts
  <2> QED
    BY <2>1, <1>1, <1>2, PlannerAssumption DEF TradeOK, ChildOf
<1>3. ASSUME NEW q \in Nat, q <= Short(in), i \in MarginClose(in, q).intent
      PROVE  TradeOK(in, i) /\ IntentOK(i)
  <2>1. IntentOK(i) /\ ChildOf(i, "margin", 1, q, TRUE)
    BY <1>3, TradeOpFacts
  <2> QED
    BY <2>1, <1>1, <1>3, PlannerAssumption DEF TradeOK, ChildOf
<1>4. ASSUME i \in Protective(in).intent, Abs(in.target) > Tol
      PROVE  TradeOK(in, i) /\ IntentOK(i)
  BY <1>4, StopFacts DEF TradeOK
<1>5. CASE in.target > Tol /\ Short(in) > Tol
  BY <1>1, <1>3, <1>5 DEF Trade
<1>6. CASE in.target < -Tol /\ Long(in) > Tol
  BY <1>1, <1>2, <1>6, PlannerAssumption DEF Trade
<1>7. CASE Abs(in.target) <= Tol
  <2>1. i \in Flatten(in).intent
    BY <1>1, <1>7, PlannerAssumption DEF Trade, Abs
  <2> QED
    BY <2>1, <1>1, <1>2, <1>3 DEF Flatten, Nothing
<1>8. CASE Abs(in.target) > Tol /\ in.target > 0 /\ Short(in) <= Tol
  <2>1. i \in AdjustLong(in).intent /\ in.target > Tol
    BY <1>1, <1>8, PlannerAssumption DEF Trade, Abs
  <2> DEFINE delta == in.target - Long(in)
  <2>2. CASE Abs(delta) <= Tol
    BY <2>1, <2>2, <1>4, <1>8 DEF AdjustLong
  <2>3. CASE Abs(delta) > Tol /\ delta > 0
    <3>1. delta \in Nat /\ i \in SpotBuy(in, delta).intent
      BY <2>1, <2>3, <1>1, PlannerAssumption DEF AdjustLong, Abs
    <3>2. IntentOK(i) /\ ChildOf(i, "spot", 1, delta, FALSE)
      BY <3>1, TradeOpFacts
    <3> QED
      BY <3>1, <3>2, <2>1, <1>1, <1>8, PlannerAssumption DEF TradeOK, ChildOf
  <2>4. CASE Abs(delta) > Tol /\ ~(delta > 0)
    BY <2>1, <2>4, <1>1, <1>2, PlannerAssumption DEF AdjustLong, Abs
  <2> QED
    BY <1>1, <2>2, <2>3, <2>4, PlannerAssumption DEF Abs
<1>9. CASE Abs(in.target) > Tol /\ ~(in.target > 0) /\ Long(in) <= Tol
  <2>1. i \in AdjustShort(in).intent /\ in.target < -Tol /\ Abs(in.target) = -in.target
    BY <1>1, <1>9, PlannerAssumption DEF Trade, Abs
  <2> DEFINE delta == Abs(in.target) - Short(in)
  <2>2. CASE Abs(delta) <= Tol
    BY <2>1, <2>2, <1>4, <1>9 DEF AdjustShort
  <2>3. CASE Abs(delta) > Tol /\ delta > 0
    <3>1. delta \in Nat /\ i \in MarginSell(in, delta).intent
      BY <2>1, <2>3, <1>1, PlannerAssumption DEF AdjustShort, Abs
    <3>2. IntentOK(i) /\ ChildOf(i, "margin", -1, delta, FALSE)
      BY <3>1, TradeOpFacts
    <3> QED
      BY <3>1, <3>2, <2>1, <1>1, <1>9, PlannerAssumption DEF TradeOK, ChildOf
  <2>4. CASE Abs(delta) > Tol /\ ~(delta > 0)
    BY <2>1, <2>4, <1>1, <1>3, PlannerAssumption DEF AdjustShort, Abs
  <2> QED
    BY <1>1, <2>1, <2>2, <2>3, <2>4, PlannerAssumption DEF Abs
<1> QED
  BY <1>1, <1>5, <1>6, <1>7, <1>8, <1>9, PlannerAssumption DEF Abs

-----------------------------------------------------------------------------
(* An intent of a plan is well formed, comes without cancellations, joins  *)
(* no order of its own group, and only ever closes part of what is held or *)
(* opens towards the target, on the venue of its side, without passing it. *)
THEOREM PlannedIntents ==
    ASSUME NEW in, InputOK(in), NEW i \in Plan(in).intent
    PROVE  /\ IntentOK(i)
           /\ Plan(in).cancel = {}
           /\ WithGid(in.orders, i.gid) = {}
           /\ i \in Protective(in).intent \/ TradeOK(in, i)
<1>1. ASSUME i \in Protective(in).intent
      PROVE  IntentOK(i) /\ i.gid = "stop" /\ WithGid(in.orders, "stop") = {}
             /\ Protective(in).cancel = {}
  <2>1. IntentOK(i) /\ i.gid = "stop" /\ WithGid(in.orders, "stop") = {}
    BY <1>1, StopFacts
  <2>2. Protective(in).cancel = {}
    BY <1>1 DEF Protective, Nothing, CancelOnly, Submit
  <2> QED
    BY <2>1, <2>2
<1>2. CASE Plan(in) = Protective(in)
  BY <1>1, <1>2
<1>3. CASE Plan(in) = Trade(in) /\ WithGid(in.orders, "work") = {}
  <2>1. TradeOK(in, i) /\ IntentOK(i)
    BY <1>3, TradeFacts
  <2>2. CASE i \in Protective(in).intent
    <3>1. Trade(in).cancel = {}
      BY <1>1, <2>2, <1>3 DEF Trade, AdjustLong, AdjustShort, Flatten, SpotBuy, SpotSell,
                              MarginSell, MarginClose, Child, Submit, Nothing
    <3> QED
      BY <1>1, <1>3, <2>1, <2>2, <3>1
  <2>3. CASE i \notin Protective(in).intent
    <3>1. i.gid = "work"
      BY <2>1, <2>3 DEF TradeOK
    <3>2. Trade(in).cancel = {}
      BY <1>3, <2>3 DEF Trade, AdjustLong, AdjustShort, Flatten, SpotBuy, SpotSell,
                        MarginSell, MarginClose, Child, Submit, Nothing
    <3> QED
      BY <1>3, <2>1, <3>1, <3>2
  <2> QED
    BY <2>2, <2>3
<1>4. Plan(in) = Protective(in) \/ (Plan(in) = Trade(in) /\ WithGid(in.orders, "work") = {})
  BY DEF Plan, Nothing, CancelOnly
<1> QED
  BY <1>2, <1>3, <1>4

(* Flattening never adds to a position, whatever the account looks like.   *)
THEOREM FlattenNeverOpens ==
    ASSUME NEW in, InputOK(in), in.target = 0, NEW i \in Plan(in).intent
    PROVE  ~Opens(i.venue, i.amt)
<1>1. IntentOK(i) /\ (i \in Protective(in).intent \/ TradeOK(in, i))
  BY PlannedIntents
<1>2. CASE i \in Protective(in).intent
  <2>1. i.gid = "stop"
    BY <1>2, StopFacts
  <2> QED
    BY <1>1, <2>1 DEF IntentOK
<1>3. CASE TradeOK(in, i)
  <2>1. CASE i \in Protective(in).intent
    BY <1>2, <2>1
  <2>2. CASE i \notin Protective(in).intent
    <3>1. i.amt \in Int /\ ~(in.target > Tol) /\ ~(in.target < -Tol)
      BY <1>1, PlannerAssumption DEF IntentOK
    <3> QED
      BY <1>3, <2>2, <3>1 DEF TradeOK, Opens
  <2> QED
    BY <2>1, <2>2
<1> QED
  BY <1>1, <1>2, <1>3

(* Nor does it place a stop: a tick that flattens asks for none.           *)
LEMMA FlattenPlacesNoStop ==
    ASSUME NEW in, InputOK(in), in.target = 0, NEW i \in Plan(in).intent
    PROVE  TradeOK(in, i) /\ i.gid = "work"
<1>1. ~ShouldProtectDuringBuild(in)
  <2>1. NetXAUT(in) \in Int
    BY DEF NetXAUT, InputOK
  <2>2. NetXAUT(in) # 0 /\ ~(NetXAUT(in) > 0) => Abs(NetXAUT(in)) > 0
    BY <2>1 DEF Abs
  <2>3. Abs(0) = 0 /\ Abs(NetXAUT(in)) \in Int
    BY <2>1 DEF Abs
  <2>4. CASE NetXAUT(in) > 0
    BY <2>4 DEF ShouldProtectDuringBuild
  <2>5. CASE ~(NetXAUT(in) > 0)
    BY <2>2, <2>3, <2>5 DEF ShouldProtectDuringBuild
  <2> QED
    BY <2>4, <2>5
<1>2. i \in Trade(in).intent
  BY <1>1 DEF Plan, Nothing, CancelOnly
<1>3. TradeOK(in, i)
  BY <1>2, TradeFacts
<1>4. ~(Abs(in.target) > Tol)
  BY PlannerAssumption DEF Abs
<1> QED
  BY <1>3, <1>4 DEF TradeOK

(* A protective stop that a plan has just placed, seen again by            *)
(* a tick for the same position and stop price, is left alone: rounding    *)
(* the quantity and the price never starts a cancel and replace loop.      *)
THEOREM PlacedStopIsKept ==
    ASSUME NEW in, InputOK(in), Protective(in).intent # {}, NEW id
    PROVE  LET i == StopIntent(in)
               o == [id |-> id, gid |-> i.gid, venue |-> i.venue, rem |-> i.amt,
                     px |-> i.px, close |-> i.close]
           IN  ~StopMismatch(o, in)
<1> DEFINE i == StopIntent(in)
           o == [id |-> id, gid |-> i.gid, venue |-> i.venue, rem |-> i.amt,
                 px |-> i.px, close |-> i.close]
<1>1. in.qty \in Int /\ in.stop \in Nat /\ Abs(in.qty) \in Nat
  BY DEF InputOK, Abs
<1>2. RoundDown(Abs(in.qty)) \in Nat /\ RoundDown(Abs(in.qty)) <= Abs(in.qty)
      /\ Abs(in.qty) - RoundDown(Abs(in.qty)) < Step
  BY <1>1, RoundDownFacts
<1>3. Abs(i.amt) = RoundDown(Abs(in.qty))
  BY <1>1, <1>2 DEF StopIntent, Abs
<1>4. i.px \in Nat /\ Abs(i.px - in.stop) < PriceStep
  BY <1>1, RoundPriceFacts DEF StopIntent
<1>5. Abs(Abs(i.amt) - Abs(in.qty)) <= 2 * Step
  BY <1>1, <1>2, <1>3, PlannerAssumption DEF Abs
<1>6. 2 * Abs(i.px - in.stop) <= 3 * PriceStep
  BY <1>1, <1>4, PlannerAssumption DEF Abs
<1>7. o.rem = i.amt /\ o.px = i.px
  OBVIOUS
<1>8. ~StopMismatch(o, in)
  <2>1. Abs(o.rem) = Abs(i.amt) /\ Abs(o.px - in.stop) = Abs(i.px - in.stop)
    BY <1>7
  <2>2. Abs(Abs(i.amt) - Abs(in.qty)) \in Int /\ Abs(i.px - in.stop) \in Int
    BY <1>1, <1>2, <1>3, <1>4 DEF Abs
  <2> QED
    BY <1>5, <1>6, <2>1, <2>2, PlannerAssumption DEF StopMismatch
<1> QED
  BY <1>8

(* "Never reduce/flatten/reverse while an old protective stop can also     *)
(* execute": on an account with inventory on one venue, or flattening, an  *)
(* order that reduces is planned only when the account shows no stop.      *)
THEOREM ReductionsWaitForStops ==
    ASSUME NEW in, InputOK(in),
           in.target = 0 \/ (in.margin <= 0 /\ ~(in.spot > 0 /\ in.margin < 0)),
           NEW i \in Plan(in).intent, i.gid = "work", ~Opens(i.venue, i.amt)
    PROVE  WithGid(in.orders, "stop") = {}
<1> DEFINE stops == WithGid(in.orders, "stop")
<1>1. SUFFICES ASSUME stops # {} PROVE FALSE
  OBVIOUS
<1>2. i \notin Protective(in).intent
  BY StopFacts
<1>3. ~NeedsStopCancellation(in) /\ i \in Trade(in).intent
  BY <1>1, <1>2 DEF Plan, Nothing, CancelOnly
<1>4. /\ in.spot \in Nat /\ in.margin \in Int /\ in.target \in Int
      /\ NetXAUT(in) = in.spot + in.margin
      /\ in.target # 0 /\ (in.target > 0) = (NetXAUT(in) > 0) /\ NetXAUT(in) # 0
      /\ Abs(NetXAUT(in)) <= Abs(in.target)
      /\ in.margin <= 0 /\ ~(in.spot > 0 /\ in.margin < 0)
  BY <1>3 DEF NeedsStopCancellation, InputOK, NetXAUT, Abs
<1>5. CASE in.target > 0
  <2>1. /\ in.margin = 0 /\ in.spot <= in.target
        /\ Long(in) = in.spot /\ Short(in) = 0
    BY <1>4, <1>5 DEF Abs, Long, Short, Greater, Lesser
  <2> DEFINE delta == in.target - Long(in)
  <2>2. delta \in Nat /\ Abs(delta) = delta /\ Abs(in.target) = in.target
    BY <2>1, <1>4, <1>5 DEF Abs
  <2>3. i \in AdjustLong(in).intent
    BY <2>1, <2>2, <1>3, <1>4, <1>5, PlannerAssumption DEF Trade, Flatten, Nothing
  <2>4. i \in SpotBuy(in, delta).intent
    BY <2>2, <2>3, <1>2, PlannerAssumption DEF AdjustLong
  <2>5. ChildOf(i, "spot", 1, delta, FALSE)
    BY <2>2, <2>4, TradeOpFacts
  <2> QED
    BY <2>5, PlannerAssumption DEF ChildOf, Opens
<1>6. CASE in.target < 0
  <2>1. /\ in.spot = 0 /\ in.target <= in.margin /\ in.margin < 0
        /\ Long(in) = 0 /\ Short(in) = -in.margin
    BY <1>4, <1>6 DEF Abs, Long, Short, Greater, Lesser
  <2> DEFINE delta == Abs(in.target) - Short(in)
  <2>2. delta \in Nat /\ Abs(delta) = delta /\ Abs(in.target) = -in.target
    BY <2>1, <1>4, <1>6 DEF Abs
  <2>3. i \in AdjustShort(in).intent
    BY <2>1, <2>2, <1>3, <1>4, <1>6, PlannerAssumption DEF Trade, Flatten, Nothing
  <2>4. i \in MarginSell(in, delta).intent
    BY <2>2, <2>3, <1>2, PlannerAssumption DEF AdjustShort
  <2>5. ChildOf(i, "margin", -1, delta, FALSE)
    BY <2>2, <2>4, TradeOpFacts
  <2>6. i.amt \in Int /\ i.amt < 0 /\ i.venue = "margin"
    BY <2>5, PlannerAssumption DEF ChildOf
  <2> QED
    BY <2>6 DEF Opens
<1> QED
  BY <1>4, <1>5, <1>6

(* A plan submits one order at most.                                       *)
AtMostOne(p) == \A i, j \in p.intent : i = j

(* Every way through Plan submits one order or none.                     *)
LEMMA OneIntent ==
    ASSUME NEW in
    PROVE  AtMostOne(Plan(in))
<1>1. AtMostOne(Nothing)
  BY DEF AtMostOne, Nothing
<1>2. ASSUME NEW x PROVE AtMostOne(Submit(x)) /\ AtMostOne(CancelOnly(x))
  BY DEF AtMostOne, Submit, CancelOnly
<1>3. AtMostOne(Protective(in))
  BY <1>1, <1>2 DEF Protective
<1>4. ASSUME NEW venue, NEW sign, NEW q, NEW close
      PROVE  AtMostOne(Child(in, venue, sign, q, close))
  BY <1>1, <1>2 DEF Child
<1>5. ASSUME NEW q
      PROVE  /\ AtMostOne(SpotBuy(in, q)) /\ AtMostOne(SpotSell(in, q))
             /\ AtMostOne(MarginSell(in, q)) /\ AtMostOne(MarginClose(in, q))
  BY <1>4 DEF SpotBuy, SpotSell, MarginSell, MarginClose
<1>6. AtMostOne(Flatten(in)) /\ AtMostOne(AdjustLong(in)) /\ AtMostOne(AdjustShort(in))
  BY <1>1, <1>3, <1>5 DEF Flatten, AdjustLong, AdjustShort
<1>7. AtMostOne(Trade(in))
  BY <1>5, <1>6 DEF Trade
<1> QED
  BY <1>1, <1>2, <1>3, <1>7 DEF Plan

-----------------------------------------------------------------------------
(* The position the tracker reports for the account being planned on.      *)
Tracked(in) ==
    /\ in.margin <= 0
    /\ ~(in.spot > 0 /\ in.margin < 0)
    /\ in.qty = IF in.spot > 0 THEN in.spot ELSE in.margin
    /\ in.qty # 0 => in.stop > 0

(* An opening order is planned only over a position that is too small for  *)
(* a stop, or that has one already: the planner never spends a tick on     *)
(* growing what is unprotected.                                            *)
THEOREM GrowthIsProtected ==
    ASSUME NEW in, InputOK(in), Tracked(in), NEW i \in Plan(in).intent, Opens(i.venue, i.amt)
    PROVE  \/ ~ProtectiveStops
           \/ Abs(in.qty) <= Tol
           \/ RoundDown(Abs(in.qty)) < MinQty
           \/ /\ WithGid(in.orders, "stop") # {}
              /\ \A o \in WithGid(in.orders, "stop") : ~StopMismatch(o, in)
<1>1. IntentOK(i) /\ (i \in Protective(in).intent \/ TradeOK(in, i))
  BY PlannedIntents
<1>2. i \notin Protective(in).intent
  BY <1>1, StopFacts DEF IntentOK
<1>3. TradeOK(in, i) /\ i.amt \in Int
  BY <1>1, <1>2 DEF IntentOK
<1>4. \/ /\ in.target > Tol /\ Short(in) <= Tol /\ Long(in) < in.target
      \/ /\ in.target < -Tol /\ Long(in) <= Tol /\ Short(in) < -in.target
  <2>1. Long(in) \in Nat /\ Short(in) \in Nat /\ in.target \in Int
    BY DEF InputOK, Long, Short, Greater, Lesser, Abs
  <2> QED
    BY <1>2, <1>3, <2>1, PlannerAssumption DEF TradeOK, Opens
<1>5. SUFFICES ASSUME Abs(in.qty) > Tol
               PROVE  Protective(in) = Nothing
  <2>2. Abs(in.qty) \in Nat
    BY DEF InputOK, Abs
  <2>3. CASE Abs(in.qty) <= Tol
    BY <2>3
  <2>4. CASE Abs(in.qty) > Tol
    <3>1. Protective(in) = Nothing
      BY <1>5, <2>4
    <3>2. in.qty # 0 /\ in.stop > 0 /\ in.stop \in Nat
      BY <2>4, PlannerAssumption DEF Tracked, InputOK, Abs
    <3> DEFINE stops == WithGid(in.orders, "stop")
    <3>3. CancelOnly(stops) = Nothing => stops = {}
      BY DEF CancelOnly, Nothing, Ids
    <3>4. Submit(StopIntent(in)) # Nothing
      BY DEF Submit, Nothing
    <3>5. CASE ProtectiveStops /\ stops # {}
      <4>1. ~\E o \in stops : StopMismatch(o, in)
        BY <3>1, <3>2, <3>3, <3>5, <2>2, <2>4, PlannerAssumption DEF Protective
      <4> QED
        BY <4>1, <3>5
    <3>6. CASE ProtectiveStops /\ stops = {}
      BY <3>1, <3>2, <3>4, <3>6, <2>2, <2>4, PlannerAssumption DEF Protective
    <3> QED
      BY <3>5, <3>6
  <2> QED
    BY <2>2, <2>3, <2>4, PlannerAssumption
<1>6. /\ in.qty # 0 /\ in.stop > 0 /\ NetXAUT(in) # 0
      /\ (in.target > 0) = (NetXAUT(in) > 0)
      /\ Abs(in.target) >= Abs(NetXAUT(in))
  BY <1>4, <1>5, PlannerAssumption
     DEF Tracked, InputOK, NetXAUT, Long, Short, Greater, Lesser, Abs
<1>7. ShouldProtectDuringBuild(in)
  BY <1>6 DEF ShouldProtectDuringBuild
<1>8. CASE Protective(in) # Nothing
  <2>1. Plan(in) = Protective(in) \/ Plan(in) = CancelOnly(WithGid(in.orders, "stop"))
        \/ Plan(in) = Nothing
    BY <1>7, <1>8 DEF Plan
  <2> QED
    BY <1>2, <2>1 DEF CancelOnly, Nothing
<1> QED
  BY <1>8

-----------------------------------------------------------------------------
(* The tracker.                                                            *)
PositionType == [qty : Int, entry : Int, frac : Nat, best : Int, stop : Int]

AccountOK(a) == a.spot \in Int /\ a.margin \in Int

(* A short that is tracked has a stop above zero.                          *)
ShortHasStop(p) == p.qty < 0 => p.stop > 0

(* The stop of p is no further from the market than that of o.             *)
NoWider(o, p) == IF p.qty > 0 THEN p.stop >= o.stop ELSE p.stop <= o.stop

-----------------------------------------------------------------------------
(* The share of a price is an integer.                                     *)
LEMMA PartType ==
  ASSUME NEW x \in Int, NEW f \in Int
  PROVE  Part(x, f) \in Int
<1>1. x * f \in Int
  OBVIOUS
<1> QED
  BY <1>1, TrackerAssumption DEF Part

(* ... and not negative when the price is not.                             *)
LEMMA PartNat ==
  ASSUME NEW x \in Nat, NEW f \in Nat
  PROVE  Part(x, f) \in Nat
<1>1. x * f \in Nat
  OBVIOUS
<1> QED
  BY <1>1, TrackerAssumption DEF Part

(* Tightening keeps everything but the stop, and never loosens that.       *)
LEMMA TightenedFacts ==
  ASSUME NEW p \in PositionType, NEW level \in Int, ShortHasStop(p)
  PROVE  /\ Tightened(p, level) \in PositionType
         /\ Tightened(p, level).qty = p.qty
         /\ NoWider(p, Tightened(p, level))
BY DEF Tightened, PositionType, ShortHasStop, NoWider, Tighter

(* Trailing keeps the quantity and never loosens the stop.                 *)
LEMMA TrailedFacts ==
  ASSUME NEW p \in PositionType, NEW price \in Nat \ {0}, ShortHasStop(p)
  PROVE  /\ Trailed(p, price) \in PositionType
         /\ Trailed(p, price).qty = p.qty
         /\ NoWider(p, Trailed(p, price))
         /\ ShortHasStop(Trailed(p, price))
<1> DEFINE b == Improved(p, price)
           rd == Part(b.entry, b.frac)
           level == b.best - Dir(b.qty) * Part(rd, TrailingDistanceR)
<1>1. /\ b \in PositionType
      /\ b.qty = p.qty
      /\ b.stop = p.stop
      /\ ShortHasStop(b)
  BY DEF Improved, PositionType, ShortHasStop
<1>2. rd \in Int
  <2>1. b.entry \in Int /\ b.frac \in Int
    BY <1>1 DEF PositionType
  <2> QED
    BY <2>1, PartType
<1>3. level \in Int
  <2>1. Part(rd, TrailingDistanceR) \in Int
    BY <1>2, PartType, TrackerAssumption
  <2>2. b.best \in Int /\ Dir(b.qty) \in {1, -1}
    BY <1>1 DEF PositionType, Dir
  <2> QED
    BY <2>1, <2>2
<1>4. /\ Tightened(b, level) \in PositionType
      /\ Tightened(b, level).qty = p.qty
      /\ NoWider(b, Tightened(b, level))
  <2> HIDE DEF b, level
  <2> QED
    BY <1>1, <1>3, TightenedFacts
<1>5. NoWider(p, p) /\ NoWider(p, b) /\ NoWider(p, Tightened(b, level))
  <2> HIDE DEF b, level
  <2> QED
    BY <1>1, <1>4 DEF NoWider, PositionType
<1>6. \/ Trailed(p, price) \in {p, b}
      \/ rd > 0 /\ Trailed(p, price) = Tightened(b, level)
  BY DEF Trailed
<1>7. rd > 0 => ShortHasStop(Tightened(b, level))
  <2> SUFFICES ASSUME rd > 0, b.qty < 0
               PROVE  Tightened(b, level).stop > 0
    BY <1>1, <1>4 DEF ShortHasStop
  <2>1. b.best > 0 /\ b.best \in Int /\ Dir(b.qty) = -1
    BY <1>1 DEF Improved, PositionType, Dir
  <2>2. Part(rd, TrailingDistanceR) \in Nat
    <3>1. rd \in Nat /\ TrailingDistanceR \in Nat
      BY <1>2, TrackerAssumption
    <3> HIDE DEF rd
    <3> QED
      BY <3>1, PartNat
  <2>3. level > 0
    BY <2>1, <2>2
  <2>4. b.stop > 0
    BY <1>1 DEF ShortHasStop
  <2> HIDE DEF b, level
  <2> QED
    BY <1>1, <2>3, <2>4 DEF Tightened, PositionType
<1> HIDE DEF b, level, rd
<1> QED
  BY <1>1, <1>4, <1>5, <1>6, <1>7

(* Growing a position keeps its side and never loosens the stop.           *)
LEMMA GrownFacts ==
  ASSUME NEW p \in PositionType, NEW q \in Int, NEW base \in Int, NEW price \in Int,
         NEW pending \in Nat, SameDirection(q, p.qty), ShortHasStop(p)
  PROVE  LET g == Grown(p, q, base, price, pending)
         IN  /\ g \in PositionType
             /\ g.qty = q
             /\ NoWider(p, g)
             /\ ShortHasStop(g)
<1> DEFINE avg == Average(p, q, base, price)
           frac == Greater(p.frac, StopFraction(pending))
           g == [qty |-> q, entry |-> avg, frac |-> frac, best |-> p.best, stop |-> p.stop]
           level == StopAt(g.entry, g.frac, q)
<1>1. avg \in Int
  <2>1. Abs(q) \in Nat \ {0}
    BY DEF Abs, SameDirection
  <2>2. /\ p.entry * Abs(p.qty) \in Int
        /\ price * (Abs(q) - Abs(p.qty)) \in Int
    BY <2>1 DEF PositionType, Abs
  <2> DEFINE sum == p.entry * Abs(p.qty) + price * (Abs(q) - Abs(p.qty))
  <2>3. sum \in Int
    BY <2>2
  <2>4. sum \div Abs(q) \in Int
    <3> HIDE DEF sum
    <3> QED
      BY <2>1, <2>3
  <2> QED
    BY <2>4 DEF Average
<1>2. frac \in Nat
  BY TrackerAssumption DEF Greater, StopFraction, PositionType
<1>3. /\ g \in PositionType
      /\ g.qty = q /\ g.stop = p.stop /\ g.entry = avg /\ g.frac = frac
      /\ ShortHasStop(g)
  <2> HIDE DEF avg, frac
  <2>1. p.best \in Int /\ p.stop \in Int /\ p.qty \in Int
    BY DEF PositionType
  <2>2. q < 0 => p.stop > 0
    BY <2>1 DEF ShortHasStop, SameDirection
  <2> QED
    BY <1>1, <1>2, <2>1, <2>2 DEF PositionType, ShortHasStop
<1>4. level \in Int
  <2>1. Part(avg, frac) \in Int
    <3> HIDE DEF avg, frac
    <3> QED
      BY <1>1, <1>2, PartType
  <2>2. Dir(q) \in {1, -1}
    BY DEF Dir
  <2>3. StopAt(avg, frac, q) \in Int
    <3> HIDE DEF avg, frac
    <3> QED
      BY <1>1, <2>1, <2>2 DEF StopAt
  <2> QED
    BY <1>3, <2>3
<1>5. /\ Tightened(g, level) \in PositionType
      /\ Tightened(g, level).qty = q
      /\ NoWider(g, Tightened(g, level))
  <2> HIDE DEF g, level
  <2> QED
    BY <1>3, <1>4, TightenedFacts
<1>6. \/ Grown(p, q, base, price, pending) = g
      \/ avg > 0 /\ Grown(p, q, base, price, pending) = Tightened(g, level)
  <2>1. \/ Grown(p, q, base, price, pending) = g
        \/ ~(g.entry <= 0) /\ Grown(p, q, base, price, pending) = Tightened(g, level)
    BY DEF Grown
  <2> HIDE DEF g, level, avg
  <2> QED
    BY <1>1, <1>3, <2>1
<1>7. NoWider(p, g) /\ NoWider(p, Tightened(g, level))
  <2> HIDE DEF g, level
  <2> QED
    BY <1>3, <1>5 DEF NoWider, PositionType, SameDirection
<1>8. avg > 0 => ShortHasStop(Tightened(g, level))
  <2> SUFFICES ASSUME avg > 0, g.qty < 0
               PROVE  Tightened(g, level).stop > 0
    BY <1>3, <1>5 DEF ShortHasStop
  <2>1. Part(avg, frac) \in Nat
    <3> HIDE DEF avg, frac
    <3> QED
      BY <1>1, <1>2, PartNat
  <2>2. StopAt(avg, frac, q) > 0
    <3> HIDE DEF avg, frac
    <3>1. Dir(q) = -1
      BY <1>3 DEF Dir
    <3> QED
      BY <1>1, <2>1, <3>1 DEF StopAt
  <2>3. level > 0
    BY <1>3, <2>2
  <2>4. g.stop > 0
    BY <1>3 DEF ShortHasStop
  <2> HIDE DEF g, level
  <2> QED
    BY <1>3, <2>3, <2>4 DEF Tightened, PositionType
<1> HIDE DEF g, level, avg
<1> QED
  BY <1>3, <1>5, <1>6, <1>7, <1>8

-----------------------------------------------------------------------------
(* A new position has its stop where Arm and the entry put it.             *)
LEMMA OpenedFacts ==
  ASSUME NEW q \in Int \ {0}, NEW entry \in Nat \ {0}, NEW frac \in Nat
  PROVE  LET o == Opened(q, entry, frac)
         IN  o \in PositionType /\ o.qty = q /\ ShortHasStop(o)
<1>1. Part(entry, frac) \in Nat
  BY PartNat
<1>2. Dir(q) \in {1, -1} /\ (q < 0 => Dir(q) = -1)
  BY DEF Dir
<1>3. StopAt(entry, frac, q) \in Int /\ (q < 0 => StopAt(entry, frac, q) > 0)
  BY <1>1, <1>2 DEF StopAt
<1> QED
  BY <1>3 DEF Opened, PositionType, ShortHasStop

(* What Reconcile makes of a position with a valid book: the quantity the  *)
(* account shows, a stop for every short, and, while the side stays, a     *)
(* stop no further from the market than before ("never widens the initial  *)
(* stop", docs/ARCHITECTURE.md).                                           *)
THEOREM StopNeverWidens ==
  ASSUME NEW p \in PositionType, NEW a, AccountOK(a), ShortHasStop(p),
         NEW base \in Int, NEW price \in Nat \ {0}, NEW pending \in Nat
  PROVE  LET r == Reconcile(p, a, base, price, pending)
         IN  /\ r \in PositionType
             /\ ShortHasStop(r)
             /\ ~Simultaneous(a) => r.qty = CurrentQuantity(a)
             /\ SameDirection(r.qty, p.qty) => NoWider(p, r)
<1> DEFINE q == CurrentQuantity(a)
           r == Reconcile(p, a, base, price, pending)
<1>1. q \in Int
  BY DEF CurrentQuantity, AccountOK
<1> HIDE DEF q
<1>2. CASE Simultaneous(a)
  <2>1. r = p
    BY <1>2 DEF Reconcile
  <2> QED
    BY <1>2, <2>1 DEF NoWider, PositionType
<1>3. CASE ~Simultaneous(a) /\ q = 0
  <2>1. r = NoTrackedPosition
    BY <1>3 DEF Reconcile, q
  <2> QED
    BY <1>3, <2>1 DEF NoTrackedPosition, PositionType, ShortHasStop, SameDirection, q
<1>4. CASE ~Simultaneous(a) /\ q # 0 /\ ~SameDirection(q, p.qty)
  <2> DEFINE entry == EntryPrice(q, base, price)
             o == Opened(q, entry, StopFraction(pending))
  <2>1. r = Trailed(o, price)
    BY <1>4 DEF Reconcile, q
  <2>2. entry \in Nat \ {0} /\ StopFraction(pending) \in Nat
    BY TrackerAssumption DEF EntryPrice, StopFraction, Greater
  <2>3. o \in PositionType /\ o.qty = q /\ ShortHasStop(o)
    <3> HIDE DEF entry
    <3> QED
      BY <1>1, <1>4, <2>2, OpenedFacts
  <2> HIDE DEF o
  <2>4. r \in PositionType /\ r.qty = q /\ ShortHasStop(r)
    BY <2>1, <2>3, TrailedFacts
  <2> QED
    BY <1>4, <2>4 DEF q
<1>5. CASE /\ ~Simultaneous(a) /\ SameDirection(q, p.qty)
           /\ Abs(q) > Abs(p.qty)
  <2> DEFINE g == Grown(p, q, base, price, pending)
  <2>0. q # 0
    BY <1>5 DEF SameDirection
  <2>1. r = Trailed(g, price)
    BY <1>5, <2>0 DEF Reconcile, q
  <2>2. g \in PositionType /\ g.qty = q /\ NoWider(p, g) /\ ShortHasStop(g)
    BY <1>1, <1>5, GrownFacts
  <2> HIDE DEF g
  <2>3. r \in PositionType /\ r.qty = q /\ NoWider(g, r) /\ ShortHasStop(r)
    BY <2>1, <2>2, TrailedFacts
  <2>4. NoWider(p, r)
    BY <1>5, <2>2, <2>3 DEF NoWider, PositionType, SameDirection
  <2> QED
    BY <1>5, <2>3, <2>4 DEF q
<1>6. CASE /\ ~Simultaneous(a) /\ SameDirection(q, p.qty)
           /\ ~(Abs(q) > Abs(p.qty))
  <2> DEFINE g == [p EXCEPT !.qty = q]
  <2>0. q # 0
    BY <1>6 DEF SameDirection
  <2>1. r = Trailed(g, price)
    BY <1>6, <2>0 DEF Reconcile, q
  <2>2. g \in PositionType /\ g.qty = q /\ g.stop = p.stop /\ ShortHasStop(g)
    BY <1>1, <1>6 DEF PositionType, ShortHasStop, SameDirection
  <2> HIDE DEF g
  <2>3. r \in PositionType /\ r.qty = q /\ NoWider(g, r) /\ ShortHasStop(r)
    BY <2>1, <2>2, TrailedFacts
  <2>4. NoWider(p, r)
    BY <1>6, <2>2, <2>3 DEF NoWider, PositionType, SameDirection
  <2> QED
    BY <1>6, <2>3, <2>4 DEF q
<1> QED
  BY <1>2, <1>3, <1>4, <1>5, <1>6

(* Engine's Observe, with the stop the tracker computes as its level, is   *)
(* what the tracker does: the loop that is checked with any level covers   *)
(* the arithmetic of this one.                                             *)
THEOREM ReconcileIsObserve ==
  ASSUME NEW p \in PositionType, NEW a, AccountOK(a), ShortHasStop(p),
         NEW base \in Int, NEW price \in Nat \ {0}, NEW pending \in Nat,
         NEW hit \in BOOLEAN, NEW due \in BOOLEAN,
         p.qty = 0 => p.stop = 0
  PROVE  LET r == Reconcile(p, a, base, price, pending)
             o == Observe([qty |-> p.qty, stop |-> p.stop, hit |-> hit, due |-> due],
                          a, r.stop)
         IN  o.qty = r.qty /\ o.stop = r.stop
<1> DEFINE r == Reconcile(p, a, base, price, pending)
           t == [qty |-> p.qty, stop |-> p.stop, hit |-> hit, due |-> due]
           o == Observe(t, a, r.stop)
<1>1. /\ r \in PositionType
      /\ ~Simultaneous(a) => r.qty = CurrentQuantity(a)
      /\ SameDirection(r.qty, p.qty) => NoWider(p, r)
  BY StopNeverWidens
<1>2. CASE Simultaneous(a)
  BY <1>2 DEF Reconcile, Observe
<1>3. CASE ~Simultaneous(a) /\ CurrentQuantity(a) = 0
  BY <1>3 DEF Reconcile, Observe, NoTrackedPosition, NoPosition
<1>4. CASE /\ ~Simultaneous(a) /\ CurrentQuantity(a) # 0
           /\ ~SameDirection(CurrentQuantity(a), p.qty)
  <2>1. o = [qty |-> CurrentQuantity(a), stop |-> r.stop, hit |-> FALSE, due |-> FALSE]
    BY <1>4 DEF Observe
  <2> HIDE DEF r, o
  <2> QED
    BY <1>1, <1>4, <2>1 DEF r, o
<1>5. CASE ~Simultaneous(a) /\ SameDirection(CurrentQuantity(a), p.qty)
  <2>1. CurrentQuantity(a) # 0
    BY <1>5 DEF SameDirection
  <2> DEFINE c == CurrentQuantity(a)
             level == r.stop
  <2>2. o = [qty |-> c, stop |-> IF Tighter(c, level, p.stop) THEN level ELSE p.stop,
             hit |-> hit, due |-> due]
    BY <1>5, <2>1 DEF Observe
  <2>3. /\ c \in Int /\ level \in Int /\ p.stop \in Int /\ p.qty \in Int
        /\ r.qty = c
    BY <1>1, <1>5 DEF PositionType, CurrentQuantity, AccountOK
  <2>4. IF c > 0 THEN level >= p.stop ELSE level <= p.stop
    BY <1>1, <1>5, <2>3 DEF NoWider, SameDirection
  <2>5. (IF Tighter(c, level, p.stop) THEN level ELSE p.stop) = level
    <3> HIDE DEF c, level
    <3> QED
      BY <2>3, <2>4 DEF Tighter
  <2> QED
    BY <2>2, <2>3, <2>5
<1> QED
  BY <1>2, <1>3, <1>4, <1>5

-----------------------------------------------------------------------------
(* The desk.  Beyond inventory on one venue, no live order can still build *)
(* the other.                                                              *)
DeskInv ==
    LET work == BookOf(orders)["work"]
        stop == BookOf(orders)["stop"]
    IN  /\ spot \in Int /\ margin \in Int
        /\ {work, stop} \subseteq D!Order \union {D!None}
        /\ ~D!Opening(stop)
        /\ D!OneSided
        /\ spot > Tol => ~(work.venue = "margin" /\ work.rem < 0)
        /\ margin < -Tol => ~(work.venue = "spot" /\ work.rem > 0)
        /\ spot - margin + D!Pending(work) <= Cap

(* What is left of an order is an order of the same side, or none.         *)
LEMMA RemainderFacts ==
    ASSUME NEW o \in D!Order,
           NEW q \in 1 .. (IF o.rem > 0 THEN o.rem ELSE -o.rem)
    PROVE  LET r == D!Remainder(o, q)
           IN  \/ r = D!None
               \/ /\ r \in D!Order /\ r.venue = o.venue /\ r.close = o.close
                  /\ (r.rem > 0) = (o.rem > 0)
                  /\ o.rem > 0 => r.rem = o.rem - q
                  /\ o.rem < 0 => r.rem = o.rem + q
<1>1. o.rem \in Int /\ o.rem # 0 /\ q \in Int /\ o.venue \in {"spot", "margin"}
      /\ o.close \in BOOLEAN
  BY DEF D!Order
<1>2. CASE q = o.rem \/ q = -o.rem
  BY <1>2 DEF D!Remainder
<1>3. CASE ~(q = o.rem \/ q = -o.rem)
  <2> DEFINE left == IF o.rem > 0 THEN o.rem - q ELSE o.rem + q
  <2>1. left \in Int /\ left # 0 /\ (left > 0) = (o.rem > 0)
    BY <1>1, <1>3
  <2>2. D!Remainder(o, q) = [venue |-> o.venue, rem |-> left, close |-> o.close]
    BY <1>3 DEF D!Remainder
  <2> QED
    <3>1. /\ D!Remainder(o, q).rem = left /\ D!Remainder(o, q).venue = o.venue
          /\ D!Remainder(o, q).close = o.close /\ D!Remainder(o, q) \in D!Order
      BY <1>1, <2>1, <2>2 DEF D!Order
    <3> QED
      BY <1>1, <2>1, <3>1
<1> QED
  BY <1>2, <1>3

(* A fill moves what its order moves and leaves at most a smaller order.   *)
LEMMA DeskFillKeeps ==
    ASSUME DeskInv, NEW g \in {"work", "stop"}, D!Filled(g)
    PROVE  DeskInv'
<1> DEFINE book == BookOf(orders)
           o == book[g]
<1>1. PICK q \in 1 .. (IF o.rem > 0 THEN o.rem ELSE -o.rem) :
        /\ D!Moves(o, q)
        /\ book' = [h \in D!Groups |->
             LET left == IF h = g THEN D!Remainder(o, q) ELSE book[h]
             IN  IF left.close /\ margin' = 0 THEN D!None ELSE left]
  BY DEF D!Filled
<1>2. /\ spot \in Int /\ margin \in Int
      /\ \A h \in {"work", "stop"} : book[h] \in D!Order \union {D!None}
  BY DEF DeskInv
<1>3. o \in D!Order
  BY <1>1, <1>2 DEF D!None
<1>4. /\ o.rem \in Int /\ q \in Int /\ q > 0 /\ o.venue \in {"spot", "margin"}
  BY <1>1, <1>3 DEF D!Order
<1>5. ASSUME NEW h \in {"work", "stop"}
      PROVE  \/ book'[h] = D!None
             \/ /\ book'[h] \in D!Order
                /\ book'[h].venue = book[h].venue
                /\ (book'[h].rem > 0) = (book[h].rem > 0)
                /\ h # g => book'[h] = book[h]
                /\ h = g /\ o.rem > 0 => book'[h].rem = o.rem - q
                /\ h = g /\ o.rem < 0 => book'[h].rem = o.rem + q
  <2> DEFINE left == IF h = g THEN D!Remainder(o, q) ELSE book[h]
  <2>1. book'[h] = IF left.close /\ margin' = 0 THEN D!None ELSE left
    BY <1>1 DEF D!Groups
  <2>2. CASE h = g
    BY <2>1, <2>2, <1>1, <1>3, RemainderFacts
  <2>3. CASE h # g
    BY <2>1, <2>3, <1>2
  <2> QED
    BY <2>2, <2>3
<1> DEFINE Buys(b) == b.venue = "spot" /\ b.rem > 0
           Sells(b) == b.venue = "margin" /\ b.rem < 0
<1>6. ASSUME NEW h \in {"work", "stop"}
      PROVE  (Buys(book'[h]) => Buys(book[h])) /\ (Sells(book'[h]) => Sells(book[h]))
  <2>1. CASE book'[h] = D!None
    BY <2>1 DEF D!None
  <2>2. CASE book'[h] # D!None
    <3>1. /\ book'[h] \in D!Order /\ book'[h].venue = book[h].venue
          /\ (book'[h].rem > 0) = (book[h].rem > 0)
      BY <2>2, <1>5
    <3>2. book[h] \in D!Order
      BY <3>1, <1>2 DEF D!Order, D!None
    <3> QED
      BY <3>1, <3>2 DEF D!Order
  <2> QED
    BY <2>1, <2>2
<1>7. ~D!Opening(book["stop"]) /\ ~D!Opening(book["stop"]')
  BY <1>6 DEF DeskInv, D!Opening
<1>8. /\ spot' \in Int /\ margin' \in Int /\ margin' <= 0
      /\ spot' > spot => Buys(o) /\ margin' = margin
      /\ margin' < margin => Sells(o) /\ spot' = spot
  BY <1>1, <1>2, <1>4 DEF D!Moves, DeskInv, D!OneSided
<1>9. Buys(o) \/ Sells(o) => o = book["work"]
  BY <1>7 DEF D!Opening
<1>10. ~(Buys(book["work"]) /\ Sells(book["work"]))
  OBVIOUS
<1>11. {book["work"]', book["stop"]'} \subseteq D!Order \union {D!None}
  BY <1>5
<1>12. D!OneSided'
  BY <1>2, <1>8, <1>9, PlannerAssumption DEF DeskInv, D!OneSided
<1>13. /\ spot' > Tol => ~Sells(book["work"]')
       /\ margin' < -Tol => ~Buys(book["work"]')
  BY <1>2, <1>6, <1>8, <1>9, <1>10, PlannerAssumption DEF DeskInv
<1>14. spot' - margin' + D!Pending(book["work"]') <= Cap
  <2> DEFINE w == book["work"]
             v == book["work"]'
  <2>1. /\ w \in D!Order \union {D!None} /\ v \in D!Order \union {D!None}
        /\ spot - margin + D!Pending(w) <= Cap
    BY <1>11 DEF DeskInv
  <2>2. /\ D!Pending(w) \in Nat /\ D!Pending(v) \in Nat
        /\ w = D!None \/ w.rem \in Int
    BY <2>1 DEF D!Pending, D!Order, D!Opening, D!None
  <2>3. CASE g = "work"
    <3>1. /\ v = D!None \/ (v.venue = w.venue /\ (v.rem > 0) = (w.rem > 0)
                              /\ (w.rem > 0 => v.rem = w.rem - q)
                              /\ (w.rem < 0 => v.rem = w.rem + q))
      BY <2>3, <1>5
    <3>2. CASE Buys(w)
      <4>1. D!Pending(w) = w.rem /\ spot' <= spot + q /\ margin' = margin
        BY <2>3, <3>2, <1>1, <1>2, <1>4 DEF D!Pending, D!Opening, D!Moves
      <4>2. D!Pending(v) <= w.rem - q
        <5>1. v = D!None \/ (Buys(v) /\ v.rem = w.rem - q /\ v.rem \in Int)
          BY <3>1, <3>2, <2>1, <1>4, <2>3 DEF D!Order
        <5> QED
          BY <5>1, <2>3, <3>2, <1>1, <1>4 DEF D!Pending, D!Opening, D!None
      <4> QED
        BY <4>1, <4>2, <2>1, <2>2, <2>3, <1>2, <1>4, <1>8, EngineAssumption
    <3>3. CASE Sells(w)
      <4>1. D!Pending(w) = -w.rem /\ spot' = spot /\ margin' = margin - q
        BY <2>3, <3>3, <1>1, <1>2, <1>4 DEF D!Pending, D!Opening, D!Moves
      <4>2. D!Pending(v) <= -w.rem - q
        <5>1. v = D!None \/ (Sells(v) /\ v.rem = w.rem + q /\ v.rem \in Int)
          BY <3>1, <3>3, <2>1, <1>4, <2>3 DEF D!Order
        <5> QED
          BY <5>1, <2>3, <3>3, <1>1, <1>4 DEF D!Pending, D!Opening, D!None
      <4> QED
        BY <4>1, <4>2, <2>1, <2>2, <2>3, <1>2, <1>4, <1>8, EngineAssumption
    <3>4. CASE ~Buys(w) /\ ~Sells(w)
      <4>1. /\ D!Pending(v) = 0 /\ D!Pending(w) = 0
            /\ spot' <= spot /\ margin' >= margin
        <5>1. ~Buys(v) /\ ~Sells(v)
          BY <3>4, <1>6
        <5>2. D!Pending(v) = 0 /\ D!Pending(w) = 0
          BY <5>1, <3>4 DEF D!Pending, D!Opening
        <5>3. spot' <= spot /\ margin' >= margin
          BY <2>3, <3>4, <1>2, <1>8
        <5> QED
          BY <5>2, <5>3
      <4>2. spot - margin <= Cap
        BY <4>1, <2>1, <1>2, EngineAssumption
      <4>3. spot' - margin' <= Cap
        <5>1. spot' <= spot /\ margin' >= margin
          BY <4>1
        <5>2. spot \in Int /\ margin \in Int /\ spot' \in Int /\ margin' \in Int /\ Cap \in Int
          BY <1>2, <1>8, EngineAssumption
        <5>3. ASSUME NEW x \in Int, NEW y \in Int, NEW z \in Int, NEW u \in Int,
                     z <= x, u >= y, x - y <= Cap
              PROVE  z - u <= Cap
          BY <5>2, <5>3
        <5> QED
          BY <5>1, <5>2, <5>3, <4>2
      <4> QED
        BY <4>1, <4>3, <1>8
    <3> QED
      BY <3>2, <3>3, <3>4
  <2>4. CASE g # "work"
    <3>1. spot' <= spot /\ margin' >= margin
      BY <2>4, <1>2, <1>7, <1>8 DEF D!Opening
    <3>2. v = D!None \/ v = w
      BY <2>4, <1>5
    <3>3. D!Pending(v) <= D!Pending(w)
      BY <3>2, <2>2 DEF D!Pending, D!None, D!Opening
    <3> QED
      BY <3>1, <3>3, <2>1, <2>2, <1>2, <1>8, EngineAssumption
  <2> QED
    BY <2>3, <2>4
<1> QED
  BY <1>7, <1>8, <1>11, <1>12, <1>13, <1>14 DEF DeskInv

(* Every step of the desk keeps it one-sided.                              *)
LEMMA DeskNext == DeskInv /\ [D!Next]_(D!vars) => DeskInv'
<1> DEFINE book == BookOf(orders)
<1> SUFFICES ASSUME DeskInv, [D!Next]_(D!vars) PROVE DeskInv'
  OBVIOUS
<1>1. CASE D!Withdraw
  <2>1. PICK gone \in SUBSET D!Groups :
          book' = [g \in D!Groups |-> IF g \in gone THEN D!None ELSE book[g]]
    BY <1>1 DEF D!Withdraw
  <2>2. \A g \in {"work", "stop"} : book'[g] = D!None \/ book'[g] = book[g]
    BY <2>1 DEF D!Groups
  <2>3. spot' = spot /\ margin' = margin
    BY <1>1 DEF D!Withdraw
  <2>4. spot - margin + D!Pending(book'["work"]) <= Cap
    <3>1. /\ D!Pending(D!None) = 0
          /\ D!Pending(book["work"]) \in Nat /\ spot \in Int /\ margin \in Int
      BY DEF DeskInv, D!Pending, D!Order, D!None, D!Opening
    <3> QED
      BY <2>2, <3>1, EngineAssumption DEF DeskInv
  <2> QED
    BY <2>2, <2>3, <2>4 DEF DeskInv, D!None, D!Opening, D!OneSided
<1>2. CASE D!Work
  <2>1. /\ book'["work"] \in D!Order /\ book' = [book EXCEPT !["work"] = book'["work"]]
        /\ spot' = spot /\ margin' = margin
    BY <1>2 DEF D!Work, D!Place
  <2>2. book'["stop"] = book["stop"]
    BY <2>1 DEF BookOf
  <2>3. LET o == book'["work"]
        IN  \/ o.venue = "spot" /\ o.rem > 0 /\ margin >= -Tol /\ spot - margin + o.rem <= Cap
            \/ o.venue = "margin" /\ o.rem < 0 /\ spot <= Tol /\ spot - margin - o.rem <= Cap
            \/ o.venue = "spot" /\ o.rem < 0
            \/ o.venue = "margin" /\ o.rem > 0
    BY <1>2 DEF D!Work
  <2>4. book'["work"].rem \in Int /\ spot \in Int /\ margin \in Int
    BY <2>1 DEF D!Order, DeskInv
  <2>5. /\ spot' > Tol => ~(book'["work"].venue = "margin" /\ book'["work"].rem < 0)
        /\ margin' < -Tol => ~(book'["work"].venue = "spot" /\ book'["work"].rem > 0)
    BY <2>1, <2>3, <2>4, PlannerAssumption
  <2>6. {book'["work"], book'["stop"]} \subseteq D!Order \union {D!None}
    BY <2>1, <2>2 DEF DeskInv
  <2>7. spot - margin + D!Pending(book'["work"]) <= Cap
    <3>1. spot - margin <= Cap
      BY <2>4, EngineAssumption DEF DeskInv, D!Pending, D!Order, D!Opening, D!None
    <3> QED
      BY <3>1, <2>3, <2>4, EngineAssumption DEF D!Pending, D!Opening
  <2> QED
    BY <2>1, <2>2, <2>4, <2>5, <2>6, <2>7 DEF DeskInv, D!Opening, D!OneSided
<1>3. CASE D!Protect
  <2>1. /\ book'["stop"] \in D!Order /\ book' = [book EXCEPT !["stop"] = book'["stop"]]
        /\ spot' = spot /\ margin' = margin
    BY <1>3 DEF D!Protect, D!Place
  <2>2. book'["work"] = book["work"]
    BY <2>1 DEF BookOf
  <2>3. book'["stop"].rem \in Int
    BY <2>1 DEF D!Order
  <2>4. ~D!Opening(book'["stop"])
    BY <1>3, <2>3 DEF D!Protect, D!Opening
  <2> QED
    BY <2>1, <2>2, <2>4 DEF DeskInv, D!OneSided
<1>4. CASE D!Filled("work")
  BY <1>4, DeskFillKeeps
<1>5. CASE D!Filled("stop")
  BY <1>5, DeskFillKeeps
<1>6. CASE UNCHANGED D!vars
  BY <1>6 DEF D!vars, DeskInv, D!OneSided
<1> QED
  BY <1>1, <1>2, <1>3, <1>4, <1>5, <1>6 DEF D!Next

(* Whoever implements the desk holds inventory on one venue only, never a  *)
(* margin long, and never more than the cap once all that is live fills.   *)
THEOREM DeskIsSafe == D!Spec => [](D!OneSided /\ D!Bounded)
<1>1. D!Init => DeskInv
  BY PlannerAssumption, EngineAssumption
     DEF D!Init, DeskInv, D!Groups, D!None, D!Opening, D!OneSided, D!Pending
<1>2. DeskInv /\ [D!Next]_(D!vars) => DeskInv'
  BY DeskNext
<1>3. DeskInv => D!OneSided /\ D!Bounded
  <2>1. DeskInv => D!Pending(BookOf(orders)["stop"]) = 0
    BY DEF DeskInv, D!Pending
  <2>2. DeskInv => /\ spot - margin + D!Pending(BookOf(orders)["work"]) \in Int
    BY DEF DeskInv, D!Pending, D!Order, D!None, D!Opening
  <2> QED
    BY <2>1, <2>2 DEF DeskInv, D!Bounded
<1> QED
  BY <1>1, <1>2, <1>3, PTL DEF D!Spec

-----------------------------------------------------------------------------
(* The book of the implementing loops: every live order is one the planner *)
(* can have placed, and it is alone in its group.                          *)
OnePerGroup(os) == \A o, p \in os : o.gid = p.gid => o = p

Wellformed(o) ==
    /\ o.rem # 0
    /\ o.venue = "margin" /\ o.rem > 0 => o.close
    /\ o.gid = "stop" => ~Opens(o.venue, o.rem)

ExchangeOK ==
    /\ ExchangeTypeOK
    /\ margin <= 0
    /\ \A o \in orders : Wellformed(o)

(* What the abstract book shows of a group: its only order, or none.       *)
LEMMA BookFacts ==
    ASSUME NEW os, OnePerGroup(os)
    PROVE  /\ \A g \in {"work", "stop"} : WithGid(os, g) = {} => BookOf(os)[g] = D!None
           /\ \A o \in os : o.gid \in {"work", "stop"} => BookOf(os)[o.gid] = Summary(o)
<1>1. \A g \in {"work", "stop"} : WithGid(os, g) = {} => BookOf(os)[g] = D!None
  BY DEF BookOf, D!None
<1>2. ASSUME NEW o \in os, o.gid \in {"work", "stop"}
      PROVE  BookOf(os)[o.gid] = Summary(o)
  <2>1. o \in WithGid(os, o.gid)
    BY DEF WithGid
  <2>2. (CHOOSE p \in os : p.gid = o.gid) = o
    BY DEF OnePerGroup
  <2>3. BookOf(os)[o.gid] = Summary(CHOOSE p \in os : p.gid = o.gid)
    BY <1>2, <2>1 DEF BookOf
  <2> QED
    BY <2>2, <2>3
<1> QED
  BY <1>1, <1>2

(* Cancelling, dropping and losing orders is a withdrawal.                 *)
LEMMA RemovalWithdraws ==
    ASSUME ExchangeOK, OnePerGroup(orders), orders' \subseteq orders,
           UNCHANGED <<spot, margin>>
    PROVE  D!Withdraw
<1> DEFINE gone == {g \in {"work", "stop"} : WithGid(orders', g) = {}}
<1>1. OnePerGroup(orders')
  BY DEF OnePerGroup
<1>2. ASSUME NEW g \in {"work", "stop"}
      PROVE  BookOf(orders')[g] = IF g \in gone THEN D!None ELSE BookOf(orders)[g]
  <2>1. CASE g \in gone
    BY <2>1, <1>1, BookFacts
  <2>2. CASE g \notin gone
    <3>1. PICK o \in orders' : o.gid = g
      BY <2>2 DEF WithGid
    <3>2. BookOf(orders')[g] = Summary(o)
      BY <3>1, <1>1, BookFacts
    <3>3. BookOf(orders)[g] = Summary(o)
      BY <3>1, BookFacts
    <3> QED
      BY <2>2, <3>2, <3>3
  <2> QED
    BY <2>1, <2>2
<1>3. BookOf(orders') = [g \in {"work", "stop"} |->
                           IF g \in gone THEN D!None ELSE BookOf(orders)[g]]
  BY <1>2 DEF BookOf
<1>4. gone \in SUBSET {"work", "stop"}
  OBVIOUS
<1> QED
  BY <1>3, <1>4 DEF D!Withdraw, D!Groups

(* An intent that passed the checks becomes the desk's order.              *)
LEMMA PlacementWorksOrProtects ==
    ASSUME ExchangeOK, OnePerGroup(orders), NEW i, NEW id, IntentOK(i),
           orders' = orders \union {Live(id, i)},
           WithGid(orders, i.gid) = {},
           i.venue = "spot" /\ i.amt > 0 => margin >= -Tol /\ spot - margin + i.amt <= Cap,
           i.venue = "margin" /\ i.amt < 0 => spot <= Tol /\ spot - margin - i.amt <= Cap,
           i.gid = "work" /\ ~Opens(i.venue, i.amt) => WithGid(orders, "stop") = {},
           UNCHANGED <<spot, margin>>
    PROVE  (D!Work \/ D!Protect) /\ OnePerGroup(orders')
<1> DEFINE n == Live(id, i)
           book == BookOf(orders)
<1>1. /\ i.gid \in {"work", "stop"} /\ i.venue \in {"spot", "margin"}
      /\ i.amt \in Int /\ i.amt # 0 /\ i.close \in BOOLEAN
      /\ i.venue = "margin" /\ i.amt > 0 => i.close
      /\ i.gid = "stop" => ~Opens(i.venue, i.amt)
  BY DEF IntentOK
<1>2. /\ n.gid = i.gid /\ n.venue = i.venue /\ n.rem = i.amt /\ n.close = i.close
      /\ Summary(n) = [venue |-> i.venue, rem |-> i.amt, close |-> i.close]
  BY DEF Live, Summary
<1>3. OnePerGroup(orders')
  BY <1>2 DEF OnePerGroup, WithGid
<1>4. BookOf(orders')[i.gid] = Summary(n)
  <2>1. n \in orders'
    OBVIOUS
  <2> QED
    BY <2>1, <1>1, <1>2, <1>3, BookFacts
<1>5. ASSUME NEW h \in {"work", "stop"}, h # i.gid
      PROVE  BookOf(orders')[h] = book[h]
  <2>1. CASE WithGid(orders, h) = {}
    <3>1. WithGid(orders', h) = {}
      BY <2>1, <1>2, <1>5 DEF WithGid
    <3> QED
      BY <2>1, <3>1, <1>3, BookFacts
  <2>2. CASE WithGid(orders, h) # {}
    <3>1. PICK o \in orders : o.gid = h
      BY <2>2 DEF WithGid
    <3> QED
      BY <3>1, <1>3, BookFacts
  <2> QED
    BY <2>1, <2>2
<1>6. /\ book[i.gid] = D!None
      /\ BookOf(orders')[i.gid] \in D!Order
  BY <1>1, <1>2, <1>4, BookFacts DEF D!Order
<1>7. BookOf(orders') = [book EXCEPT ![i.gid] = BookOf(orders')[i.gid]]
  <2>1. book = [h \in {"work", "stop"} |-> book[h]]
        /\ BookOf(orders') = [h \in {"work", "stop"} |-> BookOf(orders')[h]]
    BY DEF BookOf
  <2>2. [book EXCEPT ![i.gid] = BookOf(orders')[i.gid]]
        = [h \in {"work", "stop"} |-> IF h = i.gid THEN BookOf(orders')[i.gid] ELSE book[h]]
    BY <2>1
  <2> QED
    BY <2>1, <2>2, <1>5
<1>8. D!Place(i.gid)
  BY <1>6, <1>7 DEF D!Place
<1>9. CASE i.gid = "stop"
  <2>1. LET o == BookOf(orders')["stop"]
        IN  \/ o.venue = "spot" /\ o.rem < 0
            \/ o.venue = "margin" /\ o.rem > 0 /\ o.close
    BY <1>1, <1>2, <1>4, <1>9 DEF Opens
  <2> QED
    BY <2>1, <1>3, <1>8, <1>9 DEF D!Protect
<1>10. CASE i.gid = "work"
  <2>1. ~Opens(i.venue, i.amt) => book["stop"] = D!None
    BY <1>10, BookFacts
  <2>2. LET o == BookOf(orders')["work"]
        IN  \/ o.venue = "spot" /\ o.rem > 0 /\ margin >= -Tol /\ spot - margin + o.rem <= Cap
            \/ o.venue = "margin" /\ o.rem < 0 /\ spot <= Tol /\ spot - margin - o.rem <= Cap
            \/ o.venue = "spot" /\ o.rem < 0 /\ book["stop"] = D!None
            \/ o.venue = "margin" /\ o.rem > 0 /\ o.close /\ book["stop"] = D!None
    BY <1>1, <1>2, <1>4, <1>10, <2>1 DEF Opens
  <2> QED
    BY <2>2, <1>3, <1>8, <1>10 DEF D!Work
<1> QED
  BY <1>1, <1>9, <1>10

-----------------------------------------------------------------------------
(* Filling.  An order after a fill is an order of before with the same     *)
(* sign, and what is held only moves the way the filled order says.        *)
SameButSmaller(p, o) ==
    /\ p.id = o.id /\ p.gid = o.gid /\ p.venue = o.venue /\ p.close = o.close
    /\ p.rem # 0
    /\ (p.rem > 0) = (o.rem > 0)

Smaller(o, q) == [o EXCEPT !.rem = IF @ > 0 THEN @ - q ELSE @ + q]

(* What a partial fill leaves is the same order for less.                  *)
LEMMA SmallerFacts ==
    ASSUME NEW o \in OrderType, NEW q \in 1 .. Abs(o.rem), q # Abs(o.rem)
    PROVE  /\ Smaller(o, q) \in OrderType
           /\ SameButSmaller(Smaller(o, q), o)
           /\ Summary(Smaller(o, q)) = D!Remainder(Summary(o), q)
<1> DEFINE left == IF o.rem > 0 THEN o.rem - q ELSE o.rem + q
<1>1. o.rem \in Int /\ o.rem # 0 /\ q \in Nat /\ q > 0 /\ q < Abs(o.rem)
  BY DEF OrderType, Abs
<1>2. /\ left \in Int /\ left # 0 /\ (left > 0) = (o.rem > 0)
      /\ q # o.rem /\ q # -o.rem
  BY <1>1 DEF Abs
<1>3. /\ Smaller(o, q) \in OrderType
      /\ Smaller(o, q).rem = left /\ Smaller(o, q).id = o.id /\ Smaller(o, q).gid = o.gid
      /\ Smaller(o, q).venue = o.venue /\ Smaller(o, q).close = o.close
  BY <1>1, <1>2 DEF OrderType, Smaller
<1>4. SameButSmaller(Smaller(o, q), o)
  BY <1>2, <1>3 DEF SameButSmaller
<1>5. Summary(Smaller(o, q)) = [venue |-> o.venue, rem |-> left, close |-> o.close]
  BY <1>3 DEF Summary
<1>6. /\ Summary(o).rem = o.rem /\ Summary(o).venue = o.venue /\ Summary(o).close = o.close
  BY DEF Summary
<1>7. D!Remainder(Summary(o), q) = [venue |-> o.venue, rem |-> left, close |-> o.close]
  BY <1>2, <1>6 DEF D!Remainder
<1> QED
  BY <1>3, <1>4, <1>5, <1>7

(* A fill moves one balance, in the direction of its order, and the book   *)
(* with it.                                                                *)
LEMMA FillFacts ==
    ASSUME ExchangeOK, NEW o \in orders, NEW q \in 1 .. Abs(o.rem), Fill(o, q)
    PROVE  /\ spot' \in Nat /\ margin' \in Int /\ margin' <= 0
           /\ D!Moves(Summary(o), q)
           /\ orders' = AfterFill(o, q, -margin')
<1>1. /\ o \in OrderType /\ o.rem \in Int /\ o.rem # 0 /\ q \in Nat /\ q > 0
      /\ spot \in Nat /\ margin \in Int /\ margin <= 0
      /\ o.venue = "margin" /\ o.rem > 0 => o.close
  BY DEF ExchangeOK, ExchangeTypeOK, OrderType, Wellformed, Abs
<1>2. Summary(o).venue = o.venue /\ Summary(o).rem = o.rem
  BY DEF Summary
<1>3. ASSUME NEW fee \in Fees, FillSpot(o, q, fee)
      PROVE  /\ spot' \in Nat /\ margin' = margin
             /\ D!Moves(Summary(o), q)
             /\ orders' = AfterFill(o, q, -margin')
  <2>1. fee \in Nat
    BY <1>3, ExchangeAssumption
  <2>2. orders' = AfterFill(o, q, -margin')
    BY <1>3 DEF FillSpot
  <2> QED
    BY <1>1, <1>2, <1>3, <2>1, <2>2 DEF FillSpot, D!Moves
<1>4. ASSUME FillMargin(o, q)
      PROVE  /\ margin' \in Int /\ margin' <= 0 /\ spot' = spot
             /\ D!Moves(Summary(o), q)
             /\ orders' = AfterFill(o, q, -margin')
  BY <1>1, <1>2, <1>4 DEF FillMargin, D!Moves
<1> QED
  BY <1>1, <1>3, <1>4 DEF Fill

(* Every order after a fill is one of before, in part at most.             *)
LEMMA FilledOrders ==
    ASSUME ExchangeOK, NEW g, FillIn(g)
    PROVE  \A p \in orders' : \E o \in orders :
              p \in OrderType /\ Wellformed(p) /\ SameButSmaller(p, o)
<1>1. PICK o \in orders : \E q \in 1 .. Abs(o.rem) : Fill(o, q)
  BY DEF FillIn, WithGid
<1>2. PICK q \in 1 .. Abs(o.rem) : Fill(o, q)
  BY <1>1
<1>3. orders' = AfterFill(o, q, -margin')
  BY <1>2, FillFacts
<1>4. /\ \A p \in orders : p \in OrderType /\ Wellformed(p) /\ SameButSmaller(p, p)
      /\ o \in OrderType /\ o.rem \in Int
  BY DEF ExchangeOK, ExchangeTypeOK, Wellformed, SameButSmaller, OrderType
<1>5. ASSUME NEW p \in orders', p \notin orders
      PROVE  p \in OrderType /\ Wellformed(p) /\ SameButSmaller(p, o)
  <2>1. q # Abs(o.rem) /\ p = Smaller(o, q)
    BY <1>3, <1>5 DEF AfterFill, Smaller
  <2>2. p \in OrderType /\ SameButSmaller(p, o)
    BY <2>1, <1>4, SmallerFacts
  <2>3. p.rem \in Int
    BY <2>2 DEF OrderType
  <2> QED
    BY <2>2, <2>3, <1>4 DEF Wellformed, SameButSmaller, Opens
<1> QED
  BY <1>4, <1>5

(* A fill keeps the exchange well formed.                                  *)
LEMMA FillKeepsExchange ==
    ASSUME ExchangeOK, NEW g, FillIn(g)
    PROVE  /\ ExchangeOK'
           /\ OnePerGroup(orders) => OnePerGroup(orders')
<1>1. PICK o \in orders : \E q \in 1 .. Abs(o.rem) : Fill(o, q)
  BY DEF FillIn, WithGid
<1>2. PICK q \in 1 .. Abs(o.rem) : Fill(o, q)
  BY <1>1
<1>3. /\ spot' \in Nat /\ margin' \in Int /\ margin' <= 0
      /\ orders' = AfterFill(o, q, -margin')
  BY <1>2, FillFacts
<1>4. \A p \in orders' : p \in OrderType /\ Wellformed(p)
  BY FilledOrders
<1>5. ExchangeOK'
  BY <1>3, <1>4 DEF ExchangeOK, ExchangeTypeOK
<1>6. ASSUME OnePerGroup(orders), NEW p \in orders', NEW r \in orders', p.gid = r.gid
      PROVE  p = r
  <2>1. ASSUME NEW x \in orders' PROVE (x \in orders /\ x # o) \/ x = Smaller(o, q)
    BY <2>1, <1>3 DEF AfterFill, Smaller
  <2>2. Smaller(o, q).gid = o.gid
    BY DEF Smaller, ExchangeOK, ExchangeTypeOK, OrderType
  <2> QED
    BY <2>1, <2>2, <1>6 DEF OnePerGroup
<1> QED
  BY <1>5, <1>6 DEF OnePerGroup

(* A fill is a fill of the desk.                                           *)
LEMMA FillFillsDesk ==
    ASSUME ExchangeOK, OnePerGroup(orders), NEW g \in {"work", "stop"}, FillIn(g)
    PROVE  D!Filled(g)
<1>1. PICK o \in orders : o.gid = g /\ \E q \in 1 .. Abs(o.rem) : Fill(o, q)
  BY DEF FillIn, WithGid
<1>2. PICK q \in 1 .. Abs(o.rem) : Fill(o, q)
  BY <1>1
<1> DEFINE book == BookOf(orders)
           Left(h) == IF h = g THEN D!Remainder(book[g], q) ELSE book[h]
<1>3. /\ book[g] = Summary(o) /\ Summary(o).rem = o.rem
      /\ o \in OrderType /\ o.rem \in Int /\ q \in Int
  BY <1>1, BookFacts DEF Summary, ExchangeOK, ExchangeTypeOK, OrderType
<1>4. /\ D!Moves(book[g], q) /\ margin' \in Int /\ margin' <= 0
      /\ orders' = AfterFill(o, q, -margin')
  BY <1>2, <1>3, FillFacts
<1>5. OnePerGroup(orders')
  BY FillKeepsExchange
<1>6. q \in 1 .. (IF book[g].rem > 0 THEN book[g].rem ELSE -book[g].rem)
  BY <1>3 DEF Abs
<1>7. -margin' > 0 <=> margin' # 0
  <2>1. margin' \in Int /\ margin' <= 0
    BY <1>4
  <2>2. ASSUME NEW m \in Int, m <= 0 PROVE -m > 0 <=> m # 0
    BY <2>2
  <2> QED
    BY ONLY <2>1, <2>2
<1>8. ASSUME NEW h \in {"work", "stop"}, h # g
      PROVE  BookOf(orders')[h] = IF Left(h).close /\ margin' = 0 THEN D!None ELSE Left(h)
  <2>1. CASE WithGid(orders, h) = {}
    <3>1. WithGid(orders', h) = {}
      BY <2>1, <1>1, <1>3, <1>4, <1>8 DEF WithGid, AfterFill, OrderType
    <3> QED
      BY <2>1, <3>1, <1>5, <1>8, BookFacts DEF D!None
  <2>2. CASE WithGid(orders, h) # {}
    <3>1. PICK p \in orders : p.gid = h
      BY <2>2 DEF WithGid
    <3>2. book[h] = Summary(p) /\ book[h].close = p.close
      BY <3>1, BookFacts DEF Summary
    <3>3. CASE p.close /\ margin' = 0
      <4>1. p \notin orders'
        BY <3>3, <1>4 DEF AfterFill
      <4>2. WithGid(orders', h) = {}
        BY <4>1, <3>1, <1>1, <1>3, <1>4, <1>8 DEF WithGid, AfterFill, OrderType, OnePerGroup
      <4> QED
        BY <4>2, <3>2, <3>3, <1>5, <1>8, BookFacts
    <3>4. CASE ~(p.close /\ margin' = 0)
      <4>1. p \in orders'
        BY <3>1, <3>4, <1>1, <1>4, <1>7, <1>8 DEF AfterFill
      <4> QED
        BY <4>1, <3>1, <3>2, <3>4, <1>5, <1>8, BookFacts
    <3> QED
      BY <3>3, <3>4
  <2> QED
    BY <2>1, <2>2
<1>9. BookOf(orders')[g] = IF Left(g).close /\ margin' = 0 THEN D!None ELSE Left(g)
  <2>1. CASE q = Abs(o.rem)
    <3>1. Left(g) = D!None
      BY <2>1, <1>3 DEF D!Remainder, Abs
    <3>2. WithGid(orders', g) = {}
      BY <2>1, <1>1, <1>4 DEF WithGid, AfterFill, OnePerGroup
    <3> QED
      BY <3>1, <3>2, <1>5, BookFacts DEF D!None
  <2>2. CASE q # Abs(o.rem)
    <3> DEFINE s == Smaller(o, q)
    <3>1. Left(g) = Summary(s) /\ Summary(s).close = s.close /\ s.gid = g
      BY <2>2, <1>1, <1>3, SmallerFacts DEF SameButSmaller, Summary
    <3>2. \A p \in orders' : p.gid = g => p = s
      BY <1>1, <1>4 DEF AfterFill, Smaller, OnePerGroup
    <3>3. s \in orders' <=> ~(s.close /\ margin' = 0)
      <4>1. s \in orders' <=> (s.close => -margin' > 0)
        <5>1. AfterFill(o, q, -margin')
              = {p \in (orders \ {o}) \union {s} : p.close => -margin' > 0}
          BY <2>2 DEF AfterFill, Smaller
        <5> QED
          BY <5>1, <1>4
      <4> QED
        BY <4>1, <1>7
    <3>4. CASE s.close /\ margin' = 0
      <4>1. WithGid(orders', g) = {}
        BY <3>2, <3>3, <3>4 DEF WithGid
      <4> QED
        BY <4>1, <3>1, <3>4, <1>5, BookFacts
    <3>5. CASE ~(s.close /\ margin' = 0)
      BY <3>1, <3>3, <3>5, <1>5, BookFacts
    <3> QED
      BY <3>4, <3>5
  <2> QED
    BY <2>1, <2>2
<1>10. BookOf(orders') = [h \in {"work", "stop"} |->
                            IF Left(h).close /\ margin' = 0 THEN D!None ELSE Left(h)]
  BY <1>8, <1>9 DEF BookOf
<1> QED
  BY <1>4, <1>6, <1>10 DEF D!Filled, D!Groups

-----------------------------------------------------------------------------
(* Pending openings: none when no order opens, all of one when it is the   *)
(* only one.                                                               *)
LEMMA PendingFacts ==
    ASSUME NEW a, NEW openings, openings = {o \in a.orders : Opens(o.venue, o.rem)}
    PROVE  /\ openings = {} => PendingOpening(a) = 0
           /\ \A o : openings = {o} /\ o.rem \in Int => PendingOpening(a) = Abs(o.rem)
<1> DEFINE F(f) == f = [s \in SUBSET openings |->
                         IF s = {} THEN 0
                         ELSE LET o == CHOOSE o \in s : TRUE
                              IN  Abs(o.rem) + f[s \ {o}]]
           sum == CHOOSE f : F(f)
<1>1. PendingOpening(a) = sum[openings]
  BY DEF PendingOpening
<1>2. ASSUME openings = {} PROVE PendingOpening(a) = 0
  <2>1. \A s \in SUBSET openings : s = {}
    BY <1>2
  <2>2. F([s \in SUBSET openings |-> 0])
    BY <2>1
  <2>3. F(sum)
    BY <2>2
  <2> QED
    BY <1>1, <1>2, <2>3
<1>3. ASSUME NEW o, openings = {o}, o.rem \in Int
      PROVE  PendingOpening(a) = Abs(o.rem)
  <2>1. \A s \in SUBSET openings : s = {} \/ s = {o}
    BY <1>3
  <2>2. (CHOOSE p \in {o} : TRUE) = o /\ {o} \ {o} = {}
    OBVIOUS
  <2>3. Abs(o.rem) + 0 = Abs(o.rem)
    BY <1>3 DEF Abs
  <2> DEFINE f == [s \in SUBSET openings |-> IF s = {} THEN 0 ELSE Abs(o.rem)]
  <2>4. {} \in SUBSET openings /\ f[{}] = 0
    OBVIOUS
  <2>5. ASSUME NEW s \in SUBSET openings
        PROVE  f[s] = IF s = {} THEN 0
                      ELSE LET p == CHOOSE p \in s : TRUE IN Abs(p.rem) + f[s \ {p}]
    BY <2>1, <2>2, <2>3, <2>4
  <2>6. F(f)
    BY <2>5
  <2>7. F(sum)
    BY <2>6
  <2>8. sum[{}] = 0
    BY <2>4, <2>7
  <2>9. sum[{o}] = Abs(o.rem) + sum[{}]
    BY <2>2, <2>7, <1>3
  <2> QED
    BY <1>1, <1>3, <2>3, <2>8, <2>9
<1> QED
  BY <1>2, <1>3

(* The adapter's check of an opening order whose group has no order yet:   *)
(* the other venue is empty and the whole of it stays within the cap.      *)
LEMMA AcceptedOpening ==
    ASSUME NEW a, a.spot \in Nat, a.margin \in Int, a.margin <= 0, a.orders \subseteq OrderType,
           \A o \in a.orders : Wellformed(o),
           NEW i, IntentOK(i), ValidIntent(i, a), WithGid(a.orders, i.gid) = {}
    PROVE  /\ i.venue = "spot" /\ i.amt > 0 =>
                 a.margin >= -Tol /\ a.spot - a.margin + i.amt <= Cap
           /\ i.venue = "margin" /\ i.amt < 0 =>
                 a.spot <= Tol /\ a.spot - a.margin - i.amt <= Cap
<1>1. /\ i.gid \in {"work", "stop"} /\ i.venue \in {"spot", "margin"} /\ i.amt \in Int
      /\ i.gid = "stop" => ~Opens(i.venue, i.amt)
  BY DEF IntentOK
<1>2. ASSUME Opens(i.venue, i.amt)
      PROVE  a.spot - a.margin + Abs(i.amt) <= Cap
  <2>1. WithGid(a.orders, "work") = {}
    BY <1>1, <1>2
  <2>2. {o \in a.orders : Opens(o.venue, o.rem)} = {}
    BY <2>1 DEF WithGid, Wellformed, OrderType
  <2>3. PendingOpening(a) = 0
    BY <2>2, PendingFacts
  <2>4. Abs(a.spot) + Abs(a.margin) + 0 + Abs(i.amt) <= Cap
    BY <1>2, <2>3 DEF ValidIntent
  <2>5. Abs(a.spot) = a.spot /\ Abs(a.margin) = -a.margin /\ Abs(i.amt) \in Nat
    BY <1>1 DEF Abs
  <2> QED
    BY <2>4, <2>5, EngineAssumption
<1>3. ValidVenueSide(i, a)
  BY DEF ValidIntent
<1>4. CASE i.venue = "spot" /\ i.amt > 0
  <2>1. a.margin >= -Tol
    BY <1>1, <1>3, <1>4 DEF ValidVenueSide
  <2>2. Opens(i.venue, i.amt) /\ Abs(i.amt) = i.amt
    BY <1>1, <1>4 DEF Opens, Abs
  <2> QED
    BY <1>2, <1>4, <2>1, <2>2
<1>5. CASE i.venue = "margin" /\ i.amt < 0
  <2>1. a.spot <= Tol
    BY <1>1, <1>3, <1>5 DEF ValidVenueSide
  <2>2. Opens(i.venue, i.amt) /\ Abs(i.amt) = -i.amt
    BY <1>1, <1>5 DEF Opens, Abs
  <2>3. a.spot - a.margin + -i.amt <= Cap
    BY <1>2, <2>2
  <2>4. a.spot - a.margin - i.amt <= Cap
    BY <2>3, <1>1, EngineAssumption
  <2> QED
    BY <1>5, <2>1, <2>4
<1> QED
  BY <1>1, <1>4, <1>5

-----------------------------------------------------------------------------
(* Deciding.                                                               *)
TrackerType == [qty : Int, stop : Nat, hit : BOOLEAN, due : BOOLEAN]

(* What a tick may submit for an account without a margin long: an intent  *)
(* of a group that has no order, nothing that opens when the tick flattens *)
(* or is blocked, and nothing that reduces under a stop.                   *)
LEMMA TickPlanFacts ==
    ASSUME NEW a, a.spot \in Nat, a.margin \in Int, a.margin <= 0,
           NEW t \in TrackerType, NEW target \in Int, NEW flatten, NEW blocked,
           NEW cap \in Nat, NEW aged, NEW ok, Simultaneous(a) /\ ok => flatten,
           NEW i \in TickPlan(a, t, target, flatten, blocked, cap, aged, ok).intent
    PROVE  /\ IntentOK(i)
           /\ TickPlan(a, t, target, flatten, blocked, cap, aged, ok).cancel = {}
           /\ \A j \in TickPlan(a, t, target, flatten, blocked, cap, aged, ok).intent : i = j
           /\ WithGid(a.orders, i.gid) = {}
           /\ flatten \/ blocked => ~Opens(i.venue, i.amt)
           /\ i.gid = "work" /\ ~Opens(i.venue, i.amt) => WithGid(a.orders, "stop") = {}
<1> DEFINE In(r) == PlannerInput(a, t, r, cap, aged, ok)
           P == TickPlan(a, t, target, flatten, blocked, cap, aged, ok)
<1>1. NetXAUT(a) \in Int
  BY DEF NetXAUT
<1>2. ASSUME NEW r \in Int
      PROVE  /\ InputOK(In(r)) /\ In(r).orders = a.orders /\ In(r).target = r
             /\ In(r).spot = a.spot /\ In(r).margin = a.margin
             /\ In(r).bookOk = ok
  BY DEF InputOK, PlannerInput, TrackerType
<1>3. PICK r \in Int : /\ P = Plan(In(r))
                       /\ \/ flatten /\ r = 0
                          \/ ~flatten /\ blocked /\ r = NetXAUT(a)
                          \/ ~flatten /\ ~blocked /\ r = target
  <2>1. CASE flatten
    BY <2>1 DEF TickPlan
  <2>2. CASE ~flatten /\ blocked
    BY <2>2, <1>1 DEF TickPlan, CancelOnly
  <2>3. CASE ~flatten /\ ~blocked
    BY <2>3 DEF TickPlan
  <2> QED
    BY <2>1, <2>2, <2>3
<1>4. /\ IntentOK(i) /\ P.cancel = {} /\ WithGid(a.orders, i.gid) = {}
      /\ i \in Protective(In(r)).intent \/ TradeOK(In(r), i)
  BY <1>2, <1>3, PlannedIntents
<1>5. \A j \in P.intent : i = j
  BY <1>3, OneIntent DEF AtMostOne
<1>6. ok
  BY <1>2, <1>3 DEF Plan, Nothing
<1>7. ASSUME flatten PROVE ~Opens(i.venue, i.amt)
  BY <1>2, <1>3, <1>7, FlattenNeverOpens
<1>8. ASSUME ~flatten, blocked PROVE ~Opens(i.venue, i.amt)
  <2>1. CASE i \in Protective(In(r)).intent
    BY <2>1, <1>2, <1>4, StopFacts DEF IntentOK
  <2>2. CASE TradeOK(In(r), i) /\ i \notin Protective(In(r)).intent
    <3>1. /\ i.amt \in Int /\ r = a.spot + a.margin
          /\ In(r).target = r /\ Long(In(r)) = a.spot /\ Short(In(r)) = -a.margin
      BY <1>2, <1>3, <1>4, <1>8
         DEF IntentOK, NetXAUT, Long, Short, Greater, Lesser, Abs
    <3> QED
      BY <2>2, <3>1 DEF TradeOK, Opens
  <2> QED
    BY <2>1, <2>2, <1>4
<1>9. ASSUME i.gid = "work", ~Opens(i.venue, i.amt)
      PROVE  WithGid(a.orders, "stop") = {}
  <2>1. r = 0 \/ ~(a.spot > 0 /\ a.margin < 0)
    BY <1>3, <1>6 DEF Simultaneous
  <2>2. i \in Plan(In(r)).intent
    BY <1>3
  <2> QED
    BY <1>2, <1>9, <2>1, <2>2, ReductionsWaitForStops
<1> QED
  BY <1>4, <1>5, <1>7, <1>8, <1>9

(* What the tracker makes of a snapshot: its quantity is what is held, a   *)
(* position has a stop.                                                    *)
LEMMA ObserveFacts ==
    ASSUME NEW t \in TrackerType, t.qty # 0 => t.stop > 0,
           NEW a, a.spot \in Nat, a.margin \in Int,
           NEW level \in Nat, level > 0
    PROVE  LET o == Observe(t, a, level)
           IN  /\ o \in TrackerType
               /\ o.qty # 0 => o.stop > 0
               /\ a.margin <= 0 /\ ~Simultaneous(a) =>
                     o.qty = IF a.spot > 0 THEN a.spot ELSE a.margin
<1> DEFINE o == Observe(t, a, level)
           q == CurrentQuantity(a)
<1>1. q \in Int /\ (a.margin <= 0 => q = IF a.spot > 0 THEN a.spot ELSE a.margin)
  BY DEF CurrentQuantity
<1>2. CASE Simultaneous(a)
  BY <1>2 DEF Observe
<1>3. CASE ~Simultaneous(a) /\ q = 0
  <2>1. o = NoPosition
    BY <1>3 DEF Observe
  <2> QED
    BY <2>1, <1>1, <1>3 DEF NoPosition, TrackerType
<1>4. CASE ~Simultaneous(a) /\ q # 0 /\ ~SameDirection(q, t.qty)
  <2>1. o = [qty |-> q, stop |-> level, hit |-> FALSE, due |-> FALSE]
    BY <1>4 DEF Observe
  <2> QED
    BY <2>1, <1>1 DEF TrackerType
<1>5. CASE ~Simultaneous(a) /\ q # 0 /\ SameDirection(q, t.qty)
  <2>1. o = [t EXCEPT !.qty = q, !.stop = IF Tighter(q, level, @) THEN level ELSE @]
    BY <1>5 DEF Observe
  <2>2. /\ o.qty = q
        /\ o.stop \in {level, t.stop}
        /\ o \in TrackerType
    BY <2>1, <1>1 DEF TrackerType
  <2>3. t.qty # 0
    BY <1>5, <1>1 DEF SameDirection, TrackerType
  <2> QED
    BY <2>2, <2>3, <1>1
<1> QED
  BY <1>2, <1>3, <1>4, <1>5
=============================================================================
