SPECIFICATION LiveSpec
CONSTANTS
    Tol = 1
    MinQty = 2
    Step = 1
    PriceStep = 1
    ProtectiveStops = TRUE
    Cap = 5
    TargetSizes = {4}
    Targets <- MCTargets
    Levels = {1, 3}
    Caps = {2, 4}
    OrderIds = {1, 2, 3, 4}
    Lot = 2
    Fees = {0, 1}
    FlattenOnHardHalt = TRUE
    MaxUses = 2
    TornReads = FALSE
    LostAnswers = FALSE
    MaxStops = 1
INVARIANT TypeOK
INVARIANT OneVenue
INVARIANT OneOrderPerGroup
INVARIANT WithinCap
PROPERTY NoEntryOnceHalted
PROPERTY NoReductionOverStop
PROPERTY HaltFlattens
PROPERTY ImplementsDesk
