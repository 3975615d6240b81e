SPECIFICATION Spec
CONSTANTS
    Usages = {90, 91, 99}
    Threshold = 90
    HoldSeconds = 5
    CallTimeout = 3
    SlowestCall = 2
    MaxFailures = 0
    MaxRestarts = 0
    MaxOrphans = 0
    MaxBusy = 12
    MaxQuiet = 6
INVARIANT DurationIsSeconds
