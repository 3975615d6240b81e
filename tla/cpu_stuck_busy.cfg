SPECIFICATION FairSpec
CONSTANTS
    Usages = {90, 91, 99}
    Threshold = 90
    HoldSeconds = 5
    CallTimeout = 3
    SlowestCall = 2
    MaxFailures = 1
    MaxRestarts = 0
    MaxOrphans = 0
    MaxBusy = 2
    MaxQuiet = 6
PROPERTY BusyIsCleared
