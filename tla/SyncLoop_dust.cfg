SPECIFICATION Spec
CONSTANTS
    Tol = 1
    MinQty = 2
    Step = 1
    PriceStep = 1
    ProtectiveStops = TRUE
    Cap = 5
    TargetSizes = {4}
    Targets <- MCTargets
    Levels = {1, 3}
    Caps = {1, 2, 4}
    OrderIds = {1, 2, 3}
    Lot = 1
    Fees = {0, 1}
    MaxChanges = 3
    Unit = 10
    MinimumStopFraction = 1
    TrailingActivationR = 15
    TrailingDistanceR = 10
INVARIANT TypeOK
INVARIANT OneVenue
INVARIANT OneOrderPerGroup
INVARIANT PlanPassesGuard
PROPERTY NoUnprotectedGrowth
PROPERTY ImplementsDesk
