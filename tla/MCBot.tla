------------------------------- MODULE MCBot -------------------------------
(* Small instances of Bot.                                                 *)
EXTENDS Bot

CONSTANT TargetSizes   \* sizes of the targets on either side

MCTargets == TargetSizes \union {-q : q \in TargetSizes} \union {0}
=============================================================================
