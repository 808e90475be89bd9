SPECIFICATION Spec
CONSTANTS
    Tol = 1
    MinQty = 2
    Step = 1
    PriceStep = 1
    ProtectiveStops = TRUE
    Cap = 5
    TargetSizes = {4}
    Targets <- MCTargets
    Levels = {1, 3}
    Caps = {2, 4}
    OrderIds = {1, 2, 3, 4, 5, 6}
    Lot = 1
    Fees = {0, 1}
    FlattenOnHardHalt = TRUE
    MaxUses = 2
    TornReads = FALSE
    LostAnswers = TRUE
    MaxStops = 1
INVARIANT WithinCap
