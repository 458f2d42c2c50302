CONSTANTS
    Callers = {"server", "netlink"}
    Exclusive = TRUE
    Tries = 2
    Slices = 1
    Extra = 1
    Faults = {"slow", "halt", "irq", "sched"}
    Connections = {"tlc1", "tlc2"}
    TrustletIds = {2, 3}
    Handles = {"h1", "h2", "h3"}
    NumSessions = 4
    PerClient = 1
    MaxSent = 1
    Torn = FALSE
    ClientThreads = {"a", "b"}
    ClientIds = {2, 3}
    Buffers = {"buf1"}
    Inbox = 2
    Forever = FALSE
    NqFails = FALSE
    Dies = TRUE
    Refuses = {"close", "map", "unmap"}
SPECIFICATION MCSpec
INVARIANTS OwnAnswer SessionsAgree ClientAgrees
PROPERTY CallsEnd
CONSTRAINT Cut
CHECK_DEADLOCK FALSE
