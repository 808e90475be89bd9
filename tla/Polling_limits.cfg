SPECIFICATION Spec
CONSTANTS
    TradesRefresh = 1
    FundingRefresh = 2
    Second = 1
    Minute = 3
    MaxBackoff = 7
    MaxGap = 2
    MaxLimits = 3
    MaxRestarts = 1
INVARIANT TypeOK
PROPERTY QuietAfterLimit
PROPERTY BacksOff
PROPERTY BothRefreshed
