SPECIFICATION MCSpec
CONSTANTS
    Users = {u1, u2}
    Sids = {s1, s2}
    Requests = {q1, q2}
    NoUser = NoUser
    Provisioning = TRUE
SYMMETRY Symmetry
PROPERTIES AdminRemains RevokedStaysRevoked
