CONSTANTS
    Net = Net
    Button = Button
    Display = Display
    Workers = {w1, w2}
    None = None
SPECIFICATION Spec
SYMMETRY WorkerSymmetry
INVARIANTS
    TypeOK
    LockIsHeldInside
    NoThreadOverwritten
    ScreenMatchesMode
    AbortNeedsRace
    RingingIsHeard
    RingingCanBeDisabled
    SetAlarmIsWatched
