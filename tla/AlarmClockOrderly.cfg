CONSTANTS
    Net = Net
    Button = Button
    Display = Display
    Workers = {w1, w2}
    None = None
SPECIFICATION OrderlySpec
PROPERTIES
    KeepsPromise
    SetAlarmRings
    HoldSilences
    RingingFreezesMode
    StaleWorkersEnd
