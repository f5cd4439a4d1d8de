SPECIFICATION Spec
CONSTANTS
    Colors = {red}
    NoColor = none
    MaxRounds = 1
    Users = {u1}
    Requests = {q1}
    Instances = {i1}
    NoBet = nobet
    NoInstance = noinstance
    Faults = {}
INVARIANTS BetsAcceptedByGMS
CHECK_DEADLOCK FALSE
