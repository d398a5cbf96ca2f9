CONSTANTS
    MaxRetry = 1
    MaxCalls = 3
    MaxSignals = 1
    MaxNesting = 2
    MaxLateEnables = 1
    PowerOffFrames = 3
    ApiMaySwitchLeds = TRUE
SPECIFICATION MCSpec
INVARIANTS
    TypeOK
    ReportConverges
    ReadyMeansWorking
    PauseCanBeUndone
    DisabledStartWaits
PROPERTIES
    RetryEnds
    EnableIsNotForgotten
    WishIsKept
