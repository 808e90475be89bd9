SPECIFICATION Spec
CONSTANTS
    CapitalBase = 30
    AbsoluteGrossExposure = 100
    RiskPerTradeFraction = 15
    MaximumOpenRiskFraction = 20
    MinimumOrderNotional = 5
    DailySoftLoss1 = 2
    DailySoftLoss1Throttle = 75
    DailySoftLoss2 = 3
    DailySoftLoss2Throttle = 50
    FlattenOnHardHalt = TRUE
    DailyHardLoss = 4
    WeeklyHardLoss = 6
    MaximumDrawdown = 7
    MaximumConsecutiveLosses = 2
    Prices = {8, 10}
    FairStates = {"valid", "dispersed", "none"}
    Exposures <- MCExposures
    Gaps = {2}
    Depths = {0}
    DaysPerWeek = 2
    MaxDays = 3
    MaxMoves = 3
    MaxFailures = 1
    MaxCrashes = 1
CHECK_DEADLOCK FALSE
INVARIANT HaltEarned
