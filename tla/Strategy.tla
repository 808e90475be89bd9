------------------------------ MODULE Strategy ------------------------------
(***************************************************************************)
(* internal/regime and internal/strategy: the regime of the market, the    *)
(* signal it leads to, and the block that keeps a stopped direction from   *)
(* being entered again.                                                    *)
(*                                                                         *)
(* What a tick knows of the market is a record                             *)
(*   [market, trend, z, agree, raw, confident, edge, funded]               *)
(* in hundredths for trend (TrendScore) and z (BasisZ).  market is "bad"   *)
(* when a book, the fair value or the warm-up rules trading out, "rough"   *)
(* when volatility, acceleration or basis instability does, "calm"         *)
(* otherwise; agree says that the fair-value routes agree; raw is the side *)
(* whose entry threshold the weighted score reaches, 0 for neither; edge   *)
(* and funded stand for the tests of expected edge and of funding data.    *)
(* The weights themselves are left out: raw is not tied to trend and z.    *)
(*                                                                         *)
(* Sides are 1 and -1.  block[side] is the number of ticks since the side  *)
(* was stopped, up to Cooldown, or Unblocked.                              *)
(***************************************************************************)
EXTENDS Integers

CONSTANTS
    TrendRegimeThreshold, DislocationZThreshold, MeanReversionTrendVeto,
    TrendExitThreshold, MeanReversionExitZ,
    ThesisResetBasisZ, ThesisResetTrend,
    Cooldown          \* ReentryCooldown, in ticks

ASSUME StrategyAssumption ==
    /\ {TrendRegimeThreshold, DislocationZThreshold, MeanReversionTrendVeto,
        TrendExitThreshold, MeanReversionExitZ, ThesisResetBasisZ, ThesisResetTrend}
           \subseteq Nat
    /\ Cooldown \in Nat

-----------------------------------------------------------------------------
Magnitude(x) == IF x < 0 THEN -x ELSE x
Side(x) == IF x > 0 THEN 1 ELSE IF x < 0 THEN -1 ELSE 0

Classify(f) ==
    IF f.market = "bad" THEN "no_trade"
    ELSE IF f.market = "rough" THEN "transition"
    ELSE IF Magnitude(f.trend) >= TrendRegimeThreshold THEN "trend"
    ELSE IF Magnitude(f.trend) > MeanReversionTrendVeto THEN "transition"
    ELSE IF Magnitude(f.z) >= DislocationZThreshold /\ f.agree THEN "dislocation"
    ELSE "range"

Tradeable(f) == Classify(f) \notin {"no_trade", "transition"}

(* A position is closed when the basis normalises or the trend gives way.  *)
ThesisGone(f, held) ==
    /\ held # 0
    /\ \/ Classify(f) \in {"range", "dislocation"} /\ Magnitude(f.z) <= MeanReversionExitZ
       \/ Classify(f) = "trend" /\ held * f.trend <= TrendExitThreshold

-----------------------------------------------------------------------------
Unblocked == -1

(* MarkStopped; elapsed is the time since the stop.                        *)
MarkStopped(block, side, elapsed) ==
    IF side = 0 THEN block ELSE [block EXCEPT ![side] = elapsed]

ThesisReset(f) ==
    /\ Magnitude(f.z) <= ThesisResetBasisZ
    /\ Magnitude(f.trend) <= ThesisResetTrend

(* Mutant: the cooldown alone releases the block.                          *)
BlockedInCooldown(block, side, f) ==
    block[side] # Unblocked /\ block[side] < Cooldown

ReentryBlocked(block, side, f) ==
    block[side] # Unblocked /\ (block[side] < Cooldown \/ ~ThesisReset(f))

(* Only a tick that would enter looks at the block.                        *)
AsksForEntry(f, held) ==
    Tradeable(f) /\ ~ThesisGone(f, held) /\ f.confident /\ f.raw # 0

(* The block after Signal: finding the thesis reset releases it.           *)
BlockAfter(f, held, block) ==
    IF AsksForEntry(f, held) /\ ~ReentryBlocked(block, f.raw, f)
    THEN [block EXCEPT ![f.raw] = Unblocked]
    ELSE block

Wants(want) == [want |-> want, noNew |-> FALSE]
Refuses(want) == [want |-> want, noNew |-> TRUE]

(* Signal: "hold" keeps the current exposure, "flat" closes it.            *)
Signal(f, held, block) ==
    IF ~Tradeable(f) THEN Refuses("hold")
    ELSE IF ThesisGone(f, held) THEN Wants("flat")
    ELSE IF ~f.confident THEN Refuses("hold")
    ELSE IF f.raw = 0 THEN Wants(IF held # 0 THEN "hold" ELSE "flat")
    ELSE IF ReentryBlocked(block, f.raw, f) THEN Refuses("flat")
    ELSE IF f.raw = -1 /\ ~f.funded THEN Refuses("flat")
    ELSE IF ~f.edge THEN Wants("flat")
    ELSE Wants(IF f.raw = 1 THEN "long" ELSE "short")
=============================================================================
