SPECIFICATION Spec
CONSTANTS
    BUFFER_SIZE = 4
    PAYLOAD = 2
    HEADER = 1
    CD_SECTOR_SIZE = 4
    MaxParts = 3
    MaxSize = 9
    MaxPart = 4
    MaxOffset = 12
    MaxLength = 6
    Faults = "plain"
INVARIANT CriticalServed
INVARIANT ReadServed
INVARIANT CdServed
INVARIANT OnlyFailuresDrop
