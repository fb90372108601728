SPECIFICATION MCSpec
CONSTANTS
    c1 = c1
    c2 = c2
    Clients = {c1, c2}
    Plans <- MCPlans
    BLOCK = 2
    BUF = 4
    MaxBreaks = 1
INVARIANTS CallersToldTheTruth OrderlyLife  EventsRight
PROPERTIES CallersAnswered ExecutersEnd  EventsTold
CHECK_DEADLOCK FALSE
