CONSTANTS
    COMP_COLOR = COMP_COLOR
    COMP_EFFECT = COMP_COLOR
    COMP_IMAGE = COMP_COLOR
    COMP_VIDEOGRABBER = COMP_VIDEOGRABBER
    COMP_INVALID = COMP_INVALID
    Components <- MCComponents
    InputPriorities <- MCInputPriorities
    LOWEST_PRIORITY <- MCLowestPriority
    MaxTimeout = 2
SPECIFICATION FairSpec
INVARIANTS
    TypeOK
    AutoShowsMostImportant
PROPERTIES
    ClearAllSparesOthers
    ImplementsVisibleSource
    SelectionsAreMade
    ExpiredInputsGo
