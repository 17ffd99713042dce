SPECIFICATION FairSpec
CONSTANTS
    Systems = {s1}
    For = 1
    MaxTime = 2
    None = None
    DefaultMode = "quiet"
    MaxTransitions = 2
    MaxDisturbances = 1
INVARIANT AlertingInv
PROPERTY DeferredRowsHandledOnce
PROPERTY FiresOnlyAfterFor
PROPERTY PendingIsReleased
CHECK_DEADLOCK FALSE
