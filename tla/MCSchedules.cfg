SPECIFICATION FairSpec
CONSTANTS
    Ids = {s1}
    Occurrences = {2, 5, 9}
    Grace = 1
    MaxTime = 5
    Slots = {f1, f2}
    Hosts = {h1, h2}
    None = None
    MaxFaults = 1
    RebootAfterApply = FALSE
INVARIANTS SchedulesInv NoCatchUpSpike RunningRowsAreLive
PROPERTY DueIsSettled
CHECK_DEADLOCK FALSE
