SPECIFICATION FairSpec
CONSTANTS
    Colors = {red}
    NoColor = none
    MaxRounds = 1
    u1 = u1
    u2 = u2
    Users = {u1, u2}
    ShardOf <- TwoShards
    Requests = {q1, q2, q3}
    Amounts = {1}
    NoBet = nobet
    PopCount = 1
    Faults = {"stop", "order", "crash"}
INVARIANTS SettledOnce StakesWhole NothingLeftBehind
PROPERTIES  SettlementEnds
CHECK_DEADLOCK FALSE
