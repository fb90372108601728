SPECIFICATION MCSpec
CONSTANTS
    MB = 2
    Dirs = {d1}
    Prices <- TwoRates
    TraffType = "up+down"
    Free = 5
    DisabledDetailStat = FALSE
    WriteFreeMbTraffCost = FALSE
    Lens = {1, 2}
    Minutes = {0, 2}
    SetValues = {0}
    MaxBytes = 4
    A = A
    B = B
    D = D
    NoTariff = NoTariff
INVARIANTS BooksAgree  FeeIsWhole SessionIsAuthorized
PROPERTY FeeIsRight
CHECK_DEADLOCK FALSE
