CONSTANTS
    Net = Net
    Button = Button
    Display = Display
    Workers = {w1}
    None = None
SPECIFICATION FairSpec
PROPERTIES
    DisplayNeverFreezes
    RequestsAlwaysFinish
