SPECIFICATION FairSpec
CONSTANTS
    Addresses = {"a", "b"}
    Nowhere = "nowhere"
    MaxFaults = 2
    MaxStops = 2
    Room = 2
INVARIANTS
    SentWhole
    RepliesInStep
PROPERTIES
    PhoneFindsClock
    ClientGoesOn
CHECK_DEADLOCK FALSE
