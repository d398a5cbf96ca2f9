CONSTANTS
    KnownBorders = {NoBars, Letterbox, Pillarbox}
    NoBars = NoBars
    Unknown = Unknown
    Settings <- OneSetting
    FirstInconsistentCnt = 1
    MaxFrames = 5
    Sizes = {sd, hd}
    NoMap = NoMap
    Layouts = {strip}
SPECIFICATION HistorySpec
INVARIANT ConsistentBorderIsCut
