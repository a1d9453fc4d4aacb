CONSTANTS
    Commands <- MCCommands
    Environments <- MCEnvironments
    OCTETS = 3
    PS3 = PS3
    ISO = ISO
    Wildcard = Wildcard
    Junk = Junk
SPECIFICATION Spec
INVARIANTS
    WhitelistAdmits
    RootServed
    ServesOrMakes
    MakesAllImages
PROPERTY StartupEnds
CHECK_DEADLOCK FALSE
