SPECIFICATION PartSpec
CONSTANTS
    Requests = {q1, q2}
    Devices = {d1}
    RecoveryCodes = {c1}
    MaxSecrets = 2
    MaxStep = 2
    MaxEpoch = 1
    MaxEnrolments = 2
    Packages = {p1}
    NoRun = NoRun
SYMMETRY Symmetry
INVARIANTS SecondFactorInv RecordsInv
PROPERTIES CodeWorksOnce TrustEndsWithReset ExclusionsHonoured ForeignHoldsSurvive
