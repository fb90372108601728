CONSTANTS
    Logins = {"l1"}
    AdminNames = {"a1"}
    TariffNames = {"t1", "t2"}
    ServiceNames = {"s1"}
    CorpNames = {"c1"}
    Confs <- MCConfs
    AdminConfs <- MCAdminConfs
    TariffDatas <- MCTariffDatas
    ServiceConfs <- MCServiceConfs
    Stats = {2}
    Threads = {th1, th2}
    MsgIds = {1}
    Nodes = {1, 2}
    MaxCalls = 2
    MaxFaults = 1
    MaxMonth = 2
SYMMETRY Alike
SPECIFICATION MCSpec
CHECK_DEADLOCK FALSE
INVARIANTS  ObjectsSound RowsRight 
PROPERTY AllOrNothing
