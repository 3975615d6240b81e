SPECIFICATION Spec
CONSTANTS
    h1 = h1
    h2 = h2
    c1 = c1
    c2 = c2
    k1 = k1
    k2 = k2
    Pod = pod
    AnyCore = anycore
    Containers = {c1, c2}
    Cores = {k1}
    Handlers = {h1}
    BwUnit = 12
    Budget = 9
    DefaultPeriod = 4
    RootPeriod = 6
    SysPeriod = 10
    SysRuntime = 9
    Faults = TRUE
    MayCrash = TRUE
    Requests <- AloneRequests
INVARIANTS
    TypeOK
    OkMeansInForce
    RefusalExplained
    OkMeansExclusive
