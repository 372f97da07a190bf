CONSTANTS
    MaxLosses = 1
    MaxTasks = 2
    Buttons = {"switchLED", "setClockAlarm"}
SPECIFICATION Spec
INVARIANTS
    TypeOK
    InStep
    LostIsRetried
    ScreenTellsConnection
PROPERTIES
    AnsweredMeansExecuted
    AlwaysReconnects
    PhoneLearnsLed
CHECK_DEADLOCK FALSE
