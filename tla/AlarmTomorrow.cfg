CONSTANTS
    Day = 8
    Dst = 1
    Times = {0, 2, 4, 6}
    Horizon = 20
SPECIFICATION Spec
INVARIANT TomorrowIsADayLater
