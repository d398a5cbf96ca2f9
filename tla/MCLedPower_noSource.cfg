CONSTANTS
    MaxRetry = 1
    MaxCalls = 2
    MaxSignals = 1
    MaxNesting = 1
    MaxLateEnables = 1
    PowerOffFrames = 3
    ApiMaySwitchLeds = FALSE
SPECIFICATION Spec
INVARIANT
    NoSourceLedsOff
