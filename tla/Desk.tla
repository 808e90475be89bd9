-------------------------------- MODULE Desk --------------------------------
(***************************************************************************)
(* What the planner, the tracker, the adapter's check and the loop promise *)
(* together, seen from the exchange: one working order and one protective  *)
(* stop at a time, inventory grown on one venue only, nothing reduced      *)
(* under a live stop, no margin long.  How the bot decides, caches, fails  *)
(* and restarts is left out; SyncLoop and Bot implement this module.       *)
(***************************************************************************)
EXTENDS Integers

CONSTANTS
    Tol,       \* TargetToleranceXAUT
    Cap        \* gross exposure limit

VARIABLES
    spot,      \* XAUT held
    margin,    \* margin position
    book       \* the live order of each group: [venue, rem, close], or None

vars == <<spot, margin, book>>

Groups == {"work", "stop"}
Order == [venue : {"spot", "margin"}, rem : Int \ {0}, close : BOOLEAN]
None == [venue |-> "none", rem |-> 0, close |-> FALSE]

Opening(o) == (o.venue = "spot" /\ o.rem > 0) \/ (o.venue = "margin" /\ o.rem < 0)

-----------------------------------------------------------------------------
(* Orders are cancelled, dropped or lost; none appears.                    *)
Withdraw ==
    /\ \E gone \in SUBSET Groups :
         book' = [g \in Groups |-> IF g \in gone THEN None ELSE book[g]]
    /\ UNCHANGED <<spot, margin>>

(* An order appears in a group that had none.                              *)
Place(g) ==
    /\ book[g] = None
    /\ book'[g] \in Order
    /\ book' = [book EXCEPT ![g] = book'[g]]
    /\ UNCHANGED <<spot, margin>>

(* A working order grows inventory on a venue when the other is empty and  *)
(* the cap leaves room for all of it, or reduces it when no stop could do  *)
(* the same; margin is bought to close.                                    *)
Work ==
    /\ Place("work")
    /\ LET o == book'["work"]
       IN  \/ o.venue = "spot" /\ o.rem > 0 /\ margin >= -Tol /\ spot - margin + o.rem <= Cap
           \/ o.venue = "margin" /\ o.rem < 0 /\ spot <= Tol /\ spot - margin - o.rem <= Cap
           \/ o.venue = "spot" /\ o.rem < 0 /\ book["stop"] = None
           \/ o.venue = "margin" /\ o.rem > 0 /\ o.close /\ book["stop"] = None

Protect ==
    /\ Place("stop")
    /\ LET o == book'["stop"]
       IN  \/ o.venue = "spot" /\ o.rem < 0
           \/ o.venue = "margin" /\ o.rem > 0 /\ o.close

(* Part of an order is filled.  A spot purchase may lose a fee; what only  *)
(* reduces a short disappears with it.                                     *)
Remainder(o, q) ==
    IF q = o.rem \/ q = -o.rem THEN None
    ELSE [venue |-> o.venue, rem |-> IF o.rem > 0 THEN o.rem - q ELSE o.rem + q,
          close |-> o.close]

Moves(o, q) ==
    \/ o.venue = "spot" /\ o.rem > 0 /\ spot' \in (spot + 1) .. (spot + q) /\ margin' = margin
    \/ o.venue = "spot" /\ o.rem < 0 /\ 0 <= spot' /\ spot' = spot - q /\ margin' = margin
    \/ o.venue = "margin" /\ o.rem > 0 /\ margin' = margin + q /\ margin' <= 0 /\ spot' = spot
    \/ o.venue = "margin" /\ o.rem < 0 /\ margin' = margin - q /\ spot' = spot

Filled(g) ==
    \E q \in 1 .. (IF book[g].rem > 0 THEN book[g].rem ELSE -book[g].rem) :
        /\ Moves(book[g], q)
        /\ book' = [h \in Groups |->
               LET left == IF h = g THEN Remainder(book[g], q) ELSE book[h]
               IN  IF left.close /\ margin' = 0 THEN None ELSE left]

-----------------------------------------------------------------------------
Init ==
    /\ spot = 0
    /\ margin = 0
    /\ book = [g \in Groups |-> None]

Next == Withdraw \/ Work \/ Protect \/ Filled("work") \/ Filled("stop")

Spec == Init /\ [][Next]_vars

-----------------------------------------------------------------------------
(* README: "spot long and margin short are never intentionally held        *)
(* together", and no margin long: beyond dust, inventory is on one venue,  *)
(* and the margin position is never positive.                              *)
OneSided == margin <= 0 /\ ~(spot > Tol /\ margin < -Tol)

(* README: "absolute gross exposure ceiling", what is held and what the    *)
(* live orders may still add together.                                     *)
Pending(o) == IF ~Opening(o) THEN 0 ELSE IF o.rem > 0 THEN o.rem ELSE -o.rem

Bounded == spot - margin + Pending(book["work"]) + Pending(book["stop"]) <= Cap
=============================================================================
