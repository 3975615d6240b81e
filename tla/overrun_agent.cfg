SPECIFICATION FairSpec
CONSTANTS
    Groups = {c1, c2, unit}
    Containers = {c1, c2}
    NoEvent = NoEvent
    RingSize = 2
    MaxEvents = 3
INVARIANTS
    TypeOK
    CountsAreTrue
    SavedTotalIsCovered
    PostedAtMostOnce
PROPERTIES
    EventsAreHandled
    SignalEndsAgent
CHECK_DEADLOCK FALSE
