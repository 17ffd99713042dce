CONSTANTS
    s1 = s1  s2 = s2  g1 = g1  g2 = g2  ann = ann  bob = bob
    n1 = n1  k1 = k1  f1 = f1  f2 = f2
    Systems = {s1, s2}
    Groups = {g1, g2}
    Clients = {ann, bob}
    Names = {n1}
    LabelKeys = {k1}
    Fingerprints = {f1, f2}
    NoGroup = NoGroup
    NoRow = NoRow
    Watcher = bob
    Assignments <- MCAssignments
    Rules <- MCRules
    Buffer = 1
    FailThresholds = {1, 2}
    SuccThresholds = {2}
    MaxStimuli = 2
SPECIFICATION Spec
INVARIANTS FleetInv TrustedKeysWereReviewed
PROPERTIES NewSystemsAreProbed TabCatchesUp
CHECK_DEADLOCK FALSE
