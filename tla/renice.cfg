SPECIFICATION FairSpec
CONSTANTS
    Handlers = {h1, h2}
    Containers = {c1, c2}
    Pids = {p1, p2}
    Nices = {low, high}
    NoPid = NoPid
    Other = Other
    Nobody = Nobody
INVARIANTS
    OnlyExitedHitsOthers
    IInv
PROPERTY RequestsEnd
