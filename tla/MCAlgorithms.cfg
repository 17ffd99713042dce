SPECIFICATION Spec
CONSTANTS
    MinutesPerHour = 2
    HoursPerDay = 3
    DaysPerWeek = 3
    MonthsPerYear = 3
    MaxDom = 5
    DaysPerYear = 10
    Calendar <- MCCalendar
    MaxDay = 320
    Exprs <- MCExprs
    Zones <- MCZones
    Afters <- MCAfters
    Instants <- MCInstants
    Idents = {"k", "in", "notin", "x/k", "/k"}
    LegalKeys = {"k", "in", "notin", "x/k"}
    KeyOnly = {"x/k", "/k"}
    Inputs <- MCInputs
    MaxList = 2
    LabelValues = {"absent", "NULL", "empty", "in"}
    Users = {"u1", "u2"}
    Shared = "shared"
    Chans = {"c0", "c1", "p1", "p2"}
    OwnerOf <- MCOwnerOf
    Groups = {"g"}
    NoGroup = "none"
    Gone = "gone"
    Batch = 2
    Policies <- MCPolicies
    Subscriptions <- MCSubscriptions
    Starts <- MCStarts
    MaxEdits = 1
    WeekDays = 3
    DayMinutes = 4
    WindowSets <- MCWindowSets
    Systems = {"s"}
    AuditTargets <- MCAuditTargets
    Clearers = {"a", "b"}
    RoleSets <- MCRoleSets
    DefaultLimit = 1
    MaxLimit = 2
    Queries <- MCQueries
    StartLogs <- MCStartLogs
    MaxRowId = 5
    MaxTime = 3
    MaxScopeChanges = 1
INVARIANTS
    FiresWhenWritten
    SelectsWhatIsWritten
    QuietHoursAreTheWindows
    OwnersAreIndependent
    ToldOfTheirOwn
    ReadersSeeTheirRows
    ClearIsOnRecord
CHECK_DEADLOCK FALSE
