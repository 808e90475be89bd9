------------------------------ MODULE MCBasis ------------------------------
(***************************************************************************)
(* Basis for TLC, with the loops that Basis describes by their results:    *)
(* seeding adds samples and closed candles one at a time, in order.        *)
(***************************************************************************)
EXTENDS Basis, SequencesExt

(* Adding the samples of a sequence that fits gives Filled.                *)
ASSUME FilledIsTheLoop ==
    \A n \in 0 .. BasisWindow :
        \A of \in [1 .. n -> (1 .. 3) \X {"live", "rest"}] :
            LET s == [i \in 1 .. n |-> Computed(of[i][1], of[i][2])]
            IN  Filled(s) = FoldLeft(AddSample, NoBasis, s)

(* The order by rank is the sorted one, and closing the candles of a set   *)
(* one after another leaves the last of them.                              *)
ASSUME OrderedIsSorted ==
    \A S \in SUBSET (0 .. FrameWindow + 2) : Ordered(S) = SetToSortSeq(S, <)

ASSUME ClosedIsTheLoop ==
    \A S \in SUBSET (0 .. FrameWindow + 2) :
        FoldLeft(AddClosed, NoFrame, Ordered(S)).closes = LastOf(Ordered(S), FrameWindow)
=============================================================================
