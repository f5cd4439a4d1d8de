SPECIFICATION FairSpec
CONSTANTS
    Addrs = {a1, a2}
    Callers = {c1, c2}
    MaxChanges = 1
    QueueCap = 1
    NumWorkers = 1
    Faults = {"registry", "subscribe", "rpc", "panic"}
INVARIANTS DialedOnce SentOnce FreshUnlessOvertaken
PROPERTIES CallsComplete
CHECK_DEADLOCK FALSE
