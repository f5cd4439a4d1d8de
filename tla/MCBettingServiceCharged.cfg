SPECIFICATION Spec
CONSTANTS
    Colors = {red}
    NoColor = none
    MaxRounds = 1
    Users = {u1}
    Amounts = {1}
    Requests = {q1, q2}
    NoBet = nobet
    NoEntry = noentry
    DefaultBalance = 10
    BatchSize = 1
    Faults = {}
INVARIANTS ChargedForBetsOnly
CHECK_DEADLOCK FALSE
