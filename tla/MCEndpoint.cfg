\* A patient caller beside one that uses deadlines, two servers, fair scheduling.
SPECIFICATION FairSpec
CONSTANTS
    c1 = c1
    c2 = c2
    s1 = s1
    s2 = s2
    None = None
    Callers = {c1, c2}
    Servers = {s1, s2}
    CanSend = {c1, c2}
    Deadlined = {c2}
    QueueCap = 2
    Messages = {"grant", "foreign", "oversize"}
    MaxCalls = 2
INVARIANTS
    SenderStillCalling
    HandoffIntact
PROPERTIES
    HandoffAnswered
    SleeperGivesUp
    ImplementsRendezvous
CHECK_DEADLOCK FALSE
