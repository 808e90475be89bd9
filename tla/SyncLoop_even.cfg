SPECIFICATION Spec
CONSTANTS
    Tol = 2
    MinQty = 4
    Step = 1
    PriceStep = 1
    ProtectiveStops = TRUE
    Cap = 12
    TargetSizes = {4, 8}
    Targets <- MCTargets
    Levels = {1, 3}
    Caps = {3, 4, 8}
    OrderIds = {1, 2, 3}
    Lot = 4
    Fees = {0}
    MaxChanges = 3
PROPERTY Converges
PROPERTY HeldTooLongExits
PROPERTY StopMaintained
