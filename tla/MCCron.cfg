SPECIFICATION CronSpec
CONSTANTS
    MinutesPerHour = 2
    HoursPerDay = 3
    DaysPerWeek = 3
    MonthsPerYear = 3
    MaxDom = 5
    DaysPerYear = 10
    Calendar <- MCCalendar
    MaxDay = 320
    Exprs <- MCExprs
    Zones <- MCWest
    Afters <- MCAfters
    Instants <- MCInstants
INVARIANT OnlyPathologicalFail
CHECK_DEADLOCK FALSE
