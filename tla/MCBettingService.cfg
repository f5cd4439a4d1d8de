SPECIFICATION FairSpec
CONSTANTS
    Colors = {red, green}
    NoColor = none
    MaxRounds = 2
    Users = {u1, u2}
    Amounts = {1}
    Requests = {q1, q2}
    NoBet = nobet
    NoEntry = noentry
    DefaultBalance = 10
    BatchSize = 1
    Faults = {"debit", "order", "credit"}
INVARIANTS TypeOK SettledOnce PayoutsBacked WinnersPaidBeforeNotice ChargesMatchBets
    OrdersMatchResult SettlementComplete
PROPERTY SettlementEnds
CHECK_DEADLOCK FALSE
