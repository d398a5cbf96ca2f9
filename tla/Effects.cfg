CONSTANTS
    Effects = {e1, e2}
    NoEffect = NoEffect
    MaxNews = 1
    MaxEvents = 2
SPECIFICATION FairSpec
INVARIANTS
    TypeOK
    OneEffectPlays
    NoOrphanInput
    FramesDoNotOutlive
    HiddenIsTrue
PROPERTY
    EffectsEnd
