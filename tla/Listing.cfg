CONSTANTS
    Worlds <- MCWorlds
    Root = "root"
    Virtual = {"***PS3***", "***DVD***"}
    MAX_ENTRIES = 8
    MAX_LINK_LEN = 4
    ENTRIES_STEP = 4
    MAX_FAULTS = 2
SPECIFICATION Spec
INVARIANTS
    ListingTypeOK
    ListingComplete
    EntriesInBounds
    ListedOpens
    DirSizeExact
