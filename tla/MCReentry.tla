----------------------------- MODULE MCReentry -----------------------------
(* Small instances of Reentry, with the thresholds of config.Default in    *)
(* hundredths.                                                             *)
EXTENDS Reentry

MCTargets == {-4, 0, 4}

Calm(trend, z, raw, edge) ==
    [market |-> "calm", trend |-> trend, z |-> z, agree |-> TRUE, raw |-> raw,
     confident |-> TRUE, edge |-> edge, funded |-> TRUE]

(* A quiet range, a stretched basis, trends both ways, a market without    *)
(* clear direction, and days on which one input or another is missing.     *)
MCFeatures ==
    {Calm(0, z, raw, TRUE) : z \in {0, 80, 150}, raw \in {-1, 0, 1}}
        \union {Calm(trend, 0, raw, TRUE) : trend \in {-50, 50}, raw \in {-1, 1}}
        \union {Calm(0, -220, 1, edge) : edge \in BOOLEAN}
        \union {Calm(40, 0, 1, TRUE)}
        \union {[Calm(0, 80, 1, TRUE) EXCEPT !.market = m] : m \in {"bad", "rough"}}
        \union {[Calm(0, 80, 1, TRUE) EXCEPT !.confident = FALSE],
                [Calm(0, 80, -1, TRUE) EXCEPT !.funded = FALSE]}
=============================================================================
