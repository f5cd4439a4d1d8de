SPECIFICATION Spec
CONSTANTS
    n1 = n1
    e1 = e1
    Names = {n1, n2}
    Emails = {e1, e2}
    SessionIds = {s1, s2}
    Calls = {c1, c2, c3}
    NoName = noname
    NoEmail = noemail
    NoSid = nosid
    TokenDuration = 1
    RefreshDuration = 1
    Burst = 2
    Rate = 1
    MaxTime = 3
    InitialRows <- EmptyOrOneUser
    Faults = {"db", "rpc"}
SYMMETRY Symmetry
INVARIANTS RegisteredOnce SessionsHaveOwners
PROPERTIES NoSessionRevived SessionEndsRightly
CHECK_DEADLOCK FALSE
