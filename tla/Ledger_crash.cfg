SPECIFICATION Spec
CONSTANTS
    Amounts <- MCAmounts
    Fees = {0, 1}
    SeenCap = 2
    MaximumConsecutiveLosses = 2
    MaxFills = 4
    MaxFailures = 1
    MaxCrashes = 1
INVARIANT TypeOK
INVARIANT Reconciled
INVARIANT CountedOnce
PROPERTY HaltLatched
PROPERTY Settles
