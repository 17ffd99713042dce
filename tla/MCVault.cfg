CONSTANTS
    Users = {u1, u2}
    Keys = {k1, k2}
    NoKey = NoKey
    MaxCrashes = 1
    MaxWrites = 2
    FirstKey = k1
    Clients = {a1, a2}
    Chans = {"shared"}
    Edits <- MCEdits
    Types = {"slack", "email"}
    SecretTypes = {"slack"}
SPECIFICATION MCSpec
INVARIANTS
    TOTPSecretsAreKept
    StoresInv
PROPERTY
    RotationConverges
