----------------------------- MODULE MCSyncLoop -----------------------------
(* Small instances of SyncLoop.  Targets are signed, so they are given     *)
(* here rather than in a configuration.                                    *)
EXTENDS SyncLoop

CONSTANT TargetSizes   \* sizes of the targets on either side

MCTargets == TargetSizes \union {-q : q \in TargetSizes} \union {0}
=============================================================================
