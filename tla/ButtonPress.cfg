CONSTANT HoldTicks = 10
SPECIFICATION Spec
INVARIANT PressInv
PROPERTIES
    AnswersOnce
    OnlyBoundaryIsLost
    LongPressHolds
    ShutdownEnds
