CONSTANTS
    MaxTaken = 2
    Alarms = {"alarm1"}
SPECIFICATION FairSpec
INVARIANTS
    LifetimesRespected
    EmptyNeedsFresh
PROPERTIES
    KeepsLog
    
