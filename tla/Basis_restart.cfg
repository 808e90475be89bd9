SPECIFICATION Spec
CONSTANTS
    BasisWindow = 3
    WarmupSamples = 2
    FrameMinutes = 2
    FrameWindow = 2
    MaxMinutes = 8
    MaxJump = 2
    MaxFailures = 1
    MaxRestarts = 2
INVARIANT TypeOK
INVARIANT SamplesMatch
INVARIANT ClosedOnce
PROPERTY LiveSurvives
PROPERTY FileCatchesUp
PROPERTY WarmAfterRestart
CHECK_DEADLOCK FALSE
