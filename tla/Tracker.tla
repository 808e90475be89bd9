------------------------------ MODULE Tracker ------------------------------
(***************************************************************************)
(* internal/position: how the tracker computes the stop price that module  *)
(* Engine takes as given.  A position is a record                          *)
(*   [qty, entry, frac, best, stop]                                        *)
(* with prices in price units and fractions in parts of Unit.  Reconcile   *)
(* is what Tracker.Reconcile does to it on a valid book; the exit tests    *)
(* are ExitRequired in Engine.  The stop fraction Arm leaves for the next  *)
(* opening (PendingStopFraction) is not kept here: pending is any.         *)
(***************************************************************************)
EXTENDS Engine

CONSTANTS
    Unit,                  \* what a fraction or an R multiple of 1 is
    MinimumStopFraction,
    TrailingActivationR,
    TrailingDistanceR

ASSUME TrackerAssumption ==
    /\ Unit \in Nat \ {0}
    /\ MinimumStopFraction \in Nat
    /\ TrailingActivationR \in Nat
    /\ TrailingDistanceR \in Nat

-----------------------------------------------------------------------------
Dir(q) == IF q > 0 THEN 1 ELSE -1

Part(x, frac) == (x * frac) \div Unit

(* The price frac away from entry on the losing side.                      *)
StopAt(entry, frac, q) == entry - Dir(q) * Part(entry, frac)

(* A stop moves towards the market only; a short without one takes any.    *)
Tightened(p, level) ==
    IF Tighter(p.qty, level, p.stop) \/ (p.qty < 0 /\ p.stop <= 0)
    THEN [p EXCEPT !.stop = level] ELSE p

(* stopFractionLocked: pending is what Arm left for the next opening.      *)
StopFraction(pending) == Greater(pending, MinimumStopFraction)

EntryPrice(q, base, price) == IF q < 0 /\ base > 0 THEN base ELSE price

Opened(q, entry, frac) ==
    [qty |-> q, entry |-> entry, frac |-> frac, best |-> entry,
     stop |-> StopAt(entry, frac, q)]

(* More of the same side: the entry is averaged, or the exchange's base    *)
(* price of a short, and the stop may follow it.                           *)
Average(p, q, base, price) ==
    IF q < 0 /\ base > 0 THEN base
    ELSE (p.entry * Abs(p.qty) + price * (Abs(q) - Abs(p.qty))) \div Abs(q)

Grown(p, q, base, price, pending) ==
    LET g == [qty |-> q, entry |-> Average(p, q, base, price),
              frac |-> Greater(p.frac, StopFraction(pending)),
              best |-> p.best, stop |-> p.stop]
    IN  IF g.entry <= 0 \/ g.frac <= 0 THEN g
        ELSE Tightened(g, StopAt(g.entry, g.frac, q))

(* updateBestAndTrailLocked: past the activation the stop follows the best *)
(* price at a distance.                                                    *)
Improved(p, price) ==
    IF (p.qty > 0 /\ price > p.best) \/ (p.qty < 0 /\ (p.best <= 0 \/ price < p.best))
    THEN [p EXCEPT !.best = price] ELSE p

Trailed(p, price) ==
    LET b  == Improved(p, price)
        rd == Part(b.entry, b.frac)
    IN  IF p.entry <= 0 THEN p
        ELSE IF /\ rd > 0 /\ TrailingActivationR > 0 /\ TrailingDistanceR > 0
                /\ Dir(b.qty) * (b.best - b.entry) * Unit >= TrailingActivationR * rd
        THEN Tightened(b, b.best - Dir(b.qty) * Part(rd, TrailingDistanceR))
        ELSE b

NoTrackedPosition == [qty |-> 0, entry |-> 0, frac |-> 0, best |-> 0, stop |-> 0]

(* base is the margin position's base price, price the mid of the book.    *)
Reconcile(p, a, base, price, pending) ==
    LET q == CurrentQuantity(a)
    IN  IF Simultaneous(a) THEN p
        ELSE IF q = 0 THEN NoTrackedPosition
        ELSE IF ~SameDirection(q, p.qty) THEN
            Trailed(Opened(q, EntryPrice(q, base, price), StopFraction(pending)), price)
        ELSE IF Abs(q) > Abs(p.qty) THEN Trailed(Grown(p, q, base, price, pending), price)
        ELSE Trailed([p EXCEPT !.qty = q], price)
=============================================================================
