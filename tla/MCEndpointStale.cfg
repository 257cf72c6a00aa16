\* Violated: a queued call is received with whatever the caller staged before.
SPECIFICATION Spec
CONSTANTS
    c1 = c1
    c2 = c2
    s1 = s1
    s2 = s2
    None = None
    Callers = {c1, c2}
    Servers = {s1}
    CanSend = {c1, c2}
    Deadlined = {}
    QueueCap = 2
    Messages = {"inline"}
    MaxCalls = 1
INVARIANTS
    QueuedMessageIsCurrent
\* Every caller stops after MaxCalls calls and the servers park.
CHECK_DEADLOCK FALSE
