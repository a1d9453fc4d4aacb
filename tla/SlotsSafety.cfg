SPECIFICATION Spec
CONSTANTS
    a1 = a1
    a2 = a2
    b1 = b1
    c1 = c1
    Conns = {a1, a2, b1}
    IpOf <- MCIpOfTwo
    MAX_CLIENTS = 2
    FD = {0, 1, 2}
    whitelist_start = 11
    whitelist_end = 12
    Main = Main
    Nobody = Nobody
SYMMETRY Sym
INVARIANT ClosesOnlyItsOwn
INVARIANT NoForeignTraffic
INVARIANT NoDescriptorLeak
INVARIANT BuffersOwned
INVARIANT SlotExclusive
INVARIANT OneThreadPerAddress
INVARIANT EveryThreadJoinedOnce
PROPERTY ShutDownBySelfOrSuccessor
