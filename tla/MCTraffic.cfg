SPECIFICATION MCSpec
CONSTANTS
    Users = {u1, u2}
    NoUser = NoUser
    Addrs <- Local
    Keys <- OneFlow
    RuleLists <- BothLists
    FlushTime = 0
    RemoveTime = 1
    MaxTime = 2
    MaxSeen = 2
    MaxTasks = 2
SYMMETRY Symmetry
INVARIANTS NoDoubleCharge   AllWatched
PROPERTIES NothingLostOnExpiry
CHECK_DEADLOCK FALSE
