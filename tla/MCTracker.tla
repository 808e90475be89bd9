----------------------------- MODULE MCTracker -----------------------------
(* SyncLoop together with the tracker's arithmetic, so that TLC compares   *)
(* the two on small numbers.                                               *)
EXTENDS MCSyncLoop, Tracker

SmallAccounts == [spot : {0, 2, 3}, margin : {-3, -2, 0}]

SmallPositions ==
    {NoTrackedPosition}
        \union {p \in [qty : {2, 3, -2, -3}, entry : {10, 20}, frac : {1, 3}, best : {9, 14, 20},
                       stop : {7, 9, 12, 22}] : p.qty > 0 => p.stop < p.best}

(* Whatever the price does, a tracker step is a step of Observe with the   *)
(* stop it computes as the level, and no stop moves away from the market   *)
(* while the side stays.                                                   *)
ASSUME TrackerIsObserved ==
    \A a \in SmallAccounts, p \in SmallPositions, base \in {0, 10, 13},
       price \in {6, 10, 15, 30}, pending \in {0, 2} :
        LET r == Reconcile(p, a, base, price, pending)
            o == Observe([qty |-> p.qty, stop |-> p.stop, hit |-> FALSE, due |-> FALSE], a, r.stop)
        IN  /\ o.qty = r.qty /\ o.stop = r.stop
            /\ r.qty > 0 /\ p.qty > 0 => r.stop >= p.stop
            /\ r.qty < 0 /\ p.qty < 0 => r.stop <= p.stop
=============================================================================
