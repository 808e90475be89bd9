SPECIFICATION ReentrySpec
CONSTANTS
    Tol = 1
    MinQty = 2
    Step = 1
    PriceStep = 1
    ProtectiveStops = TRUE
    Cap = 5
    Targets <- MCTargets
    Levels = {1}
    Caps = {4}
    OrderIds = {1, 2, 3}
    Lot = 2
    Fees = {0}
    MaxChanges = 2
    TrendRegimeThreshold = 45
    DislocationZThreshold = 210
    MeanReversionTrendVeto = 32
    TrendExitThreshold = 15
    MeanReversionExitZ = 55
    ThesisResetBasisZ = 100
    ThesisResetTrend = 20
    Cooldown = 2
    Features <- MCFeatures
INVARIANT ReentryTypeOK
PROPERTY ReentryOnlyAfterReset
