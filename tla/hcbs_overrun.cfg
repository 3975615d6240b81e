SPECIFICATION FairSpec
CONSTANTS
    Servers = {s1, s2}
    Groups = {g1, g2}
    Cgroups = {g1, root}
    FiftyMs = {g2}
    NoGroup = NoGroup
    NoServer = NoServer
    MaxTracked = 1
    RingSize = 2
INVARIANTS
    TypeOK
    OneEventPerDepletion
    MissedIsExplained
    ProbeInv
PROPERTIES
    ImplementsFeed
    SignalEnds
    RingGetsRoom
