CONSTANTS
    s1 = s1  s2 = s2  e1 = e1  c1 = c1  g1 = g1  g2 = g2  r1 = r1  r2 = r2
    Systems = {s1, s2}
    Builtin = {e1}
    Custom = {c1}
    Labels = {g1, g2}
    Runs = {r1, r2}
    NoRow = NoRow
    NoRun = NoRun
    Buffer = 2
    MaxStimuli = 2
SPECIFICATION MCSpec
INVARIANT MonitoringInv
PROPERTY FileCatchesUp
CHECK_DEADLOCK FALSE
