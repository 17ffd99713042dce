SPECIFICATION FairSpec
CONSTANTS
    Callers = {r1, r2, r3}
    HttpRuns = {r1, r2}
    Systems = {h1, h2}
    Kinds = {"apply", "exporter", "reboot"}
    Settings = {1, 2}
    DefaultLimit = 4
    Keep = 1
    NoRun = NoRun
    FirstRun = r1
    FirstHost = h1
    MaxBoots = 1
    MaxFaults = 1
    MaxDeleted = 1
    FirstSetting = 1
INVARIANTS
    OneRunPerHost
    TablesAgree
PROPERTY HostUsableAgain
CHECK_DEADLOCK FALSE
