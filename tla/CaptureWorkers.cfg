CONSTANTS
    WorkersCount = 3
    Buffers = {b1, b2, b3}
SPECIFICATION FairSpec
INVARIANTS
    TypeOK
    BuffersAreNotShared
    ReadsWhatItWasGiven
    NoBufferIsLost
PROPERTIES
    FramesAreHandled
