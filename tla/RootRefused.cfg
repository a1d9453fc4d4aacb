CONSTANTS
    Commands <- MCCommands
    Environments <- MCEnvironments
    OCTETS = 3
    PS3 = PS3
    ISO = ISO
    Wildcard = Wildcard
    Junk = Junk
SPECIFICATION Spec
INVARIANT RootRefused
CHECK_DEADLOCK FALSE
