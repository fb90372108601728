SPECIFICATION RegistrySpec
CONSTANTS
    Logins = {l1, l2}
    Addrs = {i1}
    NoAddr = NoAddr
    Auths = {ia}
    Admins = {d1, d2}
    RelockOutcomes = {"passes", "blocks"}
    AO = ia
    Setters = {}
    MaxNodes = 3
SYMMETRY SymmetryOfUsers
INVARIANTS RegistrySound SearchComplete
CHECK_DEADLOCK FALSE
