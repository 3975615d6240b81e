SPECIFICATION Spec
CONSTANTS
    Usages = {90, 91, 99}
    Threshold = 90
    HoldSeconds = 5
    CallTimeout = 3
    SlowestCall = 3
    MaxFailures = 1
    MaxRestarts = 1
    MaxOrphans = 1
    MaxBusy = 3
    MaxQuiet = 6
INVARIANTS
    TypeOK
    FalseIsSentAfterQuiet
    IInv
PROPERTY ForgottenByMishapOnly
