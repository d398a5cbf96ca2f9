CONSTANTS
    Effects = {e1}
    NoEffect = NoEffect
    MaxNews = 1
    MaxEvents = 1
SPECIFICATION Spec
INVARIANT
    RunningEffectIsRegistered
