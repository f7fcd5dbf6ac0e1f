SPECIFICATION FairSpec
CONSTANTS
    Configs <- MCConfigs
    Sizes <- MCSizes
    Chunks = 3
    Capacity = 2
    Refused = 486
CHECK_DEADLOCK FALSE
INVARIANTS TypeOK ResultIsTrue
PROPERTIES EveryMessageHasResult MediaSession
