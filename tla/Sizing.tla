------------------------------- MODULE Sizing -------------------------------
(***************************************************************************)
(* internal/risk, the arithmetic of Manager.Evaluate: from the exposure a  *)
(* signal asks for to the quantity the planner is given.                   *)
(*                                                                         *)
(* Money, prices and quantities are integers and fractions are in percent; *)
(* a division rounds towards the smaller order, where the code's floats    *)
(* are exact.  A request is a record                                       *)
(*   [equity, dayLoss, exposure, price, gap, depth, net, pending, entry]   *)
(* with gap the distance of the stop in price, depth the depth a target    *)
(* may take (0 when unknown), net the position the account has, pending    *)
(* the opening orders at work and entry the tracker's average entry.       *)
(***************************************************************************)
EXTENDS Integers

CONSTANTS
    CapitalBase,               \* CapitalBaseUSD
    AbsoluteGrossExposure,     \* percent, as all fractions here
    RiskPerTradeFraction,
    MaximumOpenRiskFraction,
    MinimumOrderNotional,
    DailySoftLoss1, DailySoftLoss1Throttle,
    DailySoftLoss2, DailySoftLoss2Throttle

(* Validate of internal/config.                                            *)
ASSUME SizingAssumption ==
    /\ CapitalBase \in Nat \ {0}
    /\ AbsoluteGrossExposure \in 1 .. 100
    /\ RiskPerTradeFraction \in 1 .. 100
    /\ MaximumOpenRiskFraction \in RiskPerTradeFraction .. 100
    /\ MinimumOrderNotional \in Nat
    /\ {DailySoftLoss1, DailySoftLoss2} \subseteq Nat
    /\ {DailySoftLoss1Throttle, DailySoftLoss2Throttle} \subseteq 0 .. 100

-----------------------------------------------------------------------------
Abs(x) == IF x < 0 THEN -x ELSE x
Lesser(a, b) == IF a < b THEN a ELSE b
Greater(a, b) == IF a > b THEN a ELSE b
Sign(x) == IF x > 0 THEN 1 ELSE IF x < 0 THEN -1 ELSE 0
Percent(p, v) == (p * v) \div 100

Refused == [allowed |-> FALSE, qty |-> 0]
Allowed(q) == [allowed |-> TRUE, qty |-> q]

-----------------------------------------------------------------------------
EffectiveEquity(r) == Lesser(r.equity, CapitalBase)

Throttle(r) ==
    IF r.dayLoss >= DailySoftLoss2 THEN DailySoftLoss2Throttle
    ELSE IF r.dayLoss >= DailySoftLoss1 THEN DailySoftLoss1Throttle
    ELSE 100

DesiredExposure(r) ==
    Sign(r.exposure) * Percent(Throttle(r), Lesser(Abs(r.exposure), AbsoluteGrossExposure))

(* Mutant: the throttle reduces the exposure and not the risk.             *)
UnthrottledBudget(r) == Percent(RiskPerTradeFraction, EffectiveEquity(r))

RiskBudget(r) == Percent(RiskPerTradeFraction, Percent(Throttle(r), EffectiveEquity(r)))
OpenRiskCap(r) == Percent(MaximumOpenRiskFraction, EffectiveEquity(r))
AbsoluteCap(r) == Percent(AbsoluteGrossExposure, EffectiveEquity(r))

IsReduction(r) ==
    LET want == DesiredExposure(r)
    IN  \/ want = 0
        \/ /\ Sign(want) = Sign(r.net)
           /\ Abs(want) * EffectiveEquity(r) < 100 * Abs(r.net) * r.price

(* The caps a target passes through; a reduction is held to the last only. *)
TargetNotional(r) ==
    LET desired == Percent(Abs(DesiredExposure(r)), EffectiveEquity(r))
        riskSized == (RiskBudget(r) * r.price) \div r.gap
        liquid == IF r.depth <= 0 THEN desired ELSE r.depth
        capped == Lesser(desired, AbsoluteCap(r))
        n == IF IsReduction(r) THEN capped ELSE Lesser(capped, Lesser(riskSized, liquid))
    IN  IF n < MinimumOrderNotional THEN 0 ELSE n

(* What a position of size n loses at the stop: the quantity it shares     *)
(* with the position of today at that one's entry, the rest at the price.  *)
StopLoss(r, side, n) ==
    LET old == IF Sign(r.net) = side /\ r.entry > 0 THEN Abs(r.net) ELSE 0
        kept == side * (r.entry - r.price) + r.gap
    IN  Greater(0, Lesser(n, old) * kept + Greater(0, n - old) * r.gap)

Scaled(n, loss, limit) == IF loss > limit THEN (n * limit) \div loss ELSE n

(* Scaling to the open-risk cap and then to the budget of the trade.  The  *)
(* loss of the scaled target is taken to be the cap it was scaled to.      *)
SizedTarget(r) ==
    LET side == Sign(DesiredExposure(r))
        n == TargetNotional(r) \div r.price
        loss == StopLoss(r, side, n)
        open == Scaled(n, loss, OpenRiskCap(r))
        left == Lesser(loss, OpenRiskCap(r))
    IN  IF IsReduction(r) THEN side * n ELSE side * Scaled(open, left, RiskBudget(r))

WorstCase(r) ==
    Greater(TargetNotional(r), Greater(Abs(r.net), Abs(r.net + r.pending)) * r.price)

Size(r) ==
    IF EffectiveEquity(r) <= 0 \/ WorstCase(r) > AbsoluteCap(r) THEN Refused
    ELSE Allowed(SizedTarget(r))
=============================================================================
