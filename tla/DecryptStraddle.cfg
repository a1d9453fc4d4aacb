SPECIFICATION Spec
CONSTANTS
    kSectorSize = 2048
    MaskFrom = 3952
    MaskTo = 4208
    Marks = {"none"}
    MaxSectors = 6
    MaxCount = 3
    Straddle = TRUE
INVARIANT DecryptedRight
CHECK_DEADLOCK FALSE
