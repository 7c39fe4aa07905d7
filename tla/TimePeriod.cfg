SPECIFICATION PeriodSpec
CHECK_DEADLOCK FALSE
CONSTANTS
    Minute = 1
    Hour = 2
    Day = 10
    DayReach = 9
    MonthStarts <- MCMonthStarts
    DstStart = 634
    DstEnd = 744
    MaxDepth = 30
    timeperiod <- MCTimeperiod
    FirstTime = 600
    LastTime = 860
    CheckWindow = 4
INVARIANTS
    ExceptionsNameDays
    NextIsEarliest
    ExclusionsHold
    MovedWithinPeriod
