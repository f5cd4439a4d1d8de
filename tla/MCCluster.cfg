SPECIFICATION FairSpec
CONSTANTS
    Colors = {red}
    NoColor = none
    MaxRounds = 1
    Users = {u1}
    Requests = {q1, q2}
    Instances = {i1, i2}
    NoBet = nobet
    NoInstance = noinstance
    Faults = {"rpc", "order", "crash"}
INVARIANTS SuccessHasBet PayoutsPersisted
PROPERTIES ReadYourWrites RequestsAnswered
CHECK_DEADLOCK FALSE
