SPECIFICATION FairSpec
CONSTANTS
    a1 = a1
    a2 = a2
    b1 = b1
    c1 = c1
    Conns = {a1, a2, b1, c1}
    IpOf <- MCIpOf
    MAX_CLIENTS = 1
    FD = {0, 1}
    whitelist_start = 11
    whitelist_end = 12
    Main = Main
    Nobody = Nobody
INVARIANT TypeOK
INVARIANT OnlyWhitelistedServed
PROPERTY ImplementsSessionPool
PROPERTY AcceptLoopReturns
PROPERTY HungUpConsoleReleased
