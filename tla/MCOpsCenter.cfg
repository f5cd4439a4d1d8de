SPECIFICATION FairSpec
CONSTANTS
    Procs = {p1}
    Services = {"gms", "user"}
    MaxAttempts = 2
    Faults = {"init", "nacos", "rpc", "storage", "tool", "crash"}
    Collections = {c1, c2}
    NoCall = nocall
    FileKinds = {"cpu"}
    Files <- FilesOfCollections
    NoFile = nofile
    MaxPprofSessions = 2
    MaxTools = 2
INVARIANTS ProfilingOff CollectorOwnsProfiles UnlistedOnceDeregistered ShutdownGoesOn
    ViewersTracked
PROPERTY ViewersEnd
CHECK_DEADLOCK FALSE
