SPECIFICATION FairSpec
CONSTANTS
    a1 = a1
    a2 = a2
    cheap = cheap
    dear = dear
    Auths = {ia, ao}
    Addrs = {a1, a2}
    NoAddr = NoAddr
    IPSets <- MCIPSets
    Dirs = {d1}
    Tariffs = {cheap, dear}
    Fee <- MCFee
    PassiveCost <- MCPassiveCost
    Amounts <- MCAmounts
    Credits = {0, 1}
    FreeMbAllowInet = FALSE
    ShowFeeInCash = FALSE
    ReconnectOnTariffChange = TRUE
    DisableSessionLog = FALSE
INVARIANT SessionSafe
PROPERTIES AddressStable FollowsAccess
