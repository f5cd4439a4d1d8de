SPECIFICATION Spec
CONSTANTS
    Colors = {red}
    NoColor = none
    MaxRounds = 2
    QueueCap = 1
    NumWorkers = 1
    MaxFallback = 1
    Callers = {c1}
    Faults = {"cancel", "db", "gs", "panic"}
INVARIANTS DrainedOnReturn CountedInBetting StopCompletes EventsShown
PROPERTIES EndedIsFinal RefinesRoundClock
CHECK_DEADLOCK FALSE
