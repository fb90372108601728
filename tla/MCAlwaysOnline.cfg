SPECIFICATION AOSpec
CONSTANTS
    Logins = {l1, l2}
    Addrs = {i1, i2}
    NoAddr = NoAddr
    Auths = {ia, ao}
    Admins = {d1}
    RelockOutcomes = {"passes"}
    AO = ao
    Setters = {t1}
    MaxNodes = 2
SYMMETRY SymmetryOfHolding
INVARIANTS IndexSound 
CHECK_DEADLOCK FALSE
