SPECIFICATION Spec
CONSTANTS
    BUFFER_SIZE = 3
    PAYLOAD = 2
    HEADER = 1
    CD_SECTOR_SIZE = 4
    MaxParts = 3
    MaxSize = 3
    MaxPart = 3
    MaxOffset = 9
    MaxLength = 5
    Faults = "all"
INVARIANT CriticalServed
