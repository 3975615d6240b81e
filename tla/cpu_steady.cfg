SPECIFICATION FairSpec
CONSTANTS
    Usages = {90, 91, 99}
    Threshold = 90
    HoldSeconds = 5
    CallTimeout = 3
    SlowestCall = 2
    MaxFailures = 0
    MaxRestarts = 0
    MaxOrphans = 0
    MaxBusy = 9
    MaxQuiet = 14
INVARIANTS
    FreshWhileBusy
    BusyIsClearedInTime
PROPERTIES
    ImplementsBusySignal
    BusyIsCleared
