SPECIFICATION Spec
CONSTANTS
    Colors = {red}
    NoColor = none
    MaxRounds = 1
    u1 = u1
    u2 = u2
    Users = {u1}
    ShardOf <- OneShard
    Requests = {q1, q2, q3}
    Amounts = {1}
    NoBet = nobet
    PopCount = 1
    Faults = {}
INVARIANTS RepeatedBetsAccumulate
CHECK_DEADLOCK FALSE
