SPECIFICATION Spec
CONSTANTS
    h1 = h1
    h2 = h2
    c1 = c1
    c2 = c2
    k1 = k1
    k2 = k2
    Pod = pod
    AnyCore = anycore
    Containers = {c1}
    Cores = {k1}
    Handlers = {h1}
    BwUnit = 12
    Budget = 12
    DefaultPeriod = 4
    RootPeriod = 6
    SysPeriod = 10
    SysRuntime = 9
    Faults = FALSE
    MayCrash = FALSE
    Requests <- UnlimitedRequests
INVARIANT NegativeMeansUnlimited
