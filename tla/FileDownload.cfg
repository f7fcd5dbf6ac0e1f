SPECIFICATION DownloadSpec
CONSTANTS
    Calls = {c1, c2}
    Size = 2
    OldFiles = {1, 3}
CHECK_DEADLOCK FALSE
INVARIANTS DownloadTypeOK OkIsWhole NothingMisplaced
