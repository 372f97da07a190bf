SPECIFICATION Spec
CONSTANTS
    DateLengths = {8, 9, 10}
    TempLengths = {8, 9, 16}
    PressureLengths = {8, 9, 15}
INVARIANTS
    NothingSpills
    TextIsReadable
    NoLeftovers
CHECK_DEADLOCK FALSE
