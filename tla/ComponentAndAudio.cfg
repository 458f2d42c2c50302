CONSTANTS
    NumPorts = 2
    nBufferCountActual <- MCBuffers
    Targets = {"Loaded", "Idle", "Executing"}
    Commands = {"Flush", "PortDisable", "PortEnable"}
    Failures = {}
    MaxPending = 1
    MaxPosts = 2
    QueueCapacity = 2
    Buffers <- OneEach
    NoBuffer = "none"
    Transitions <- FromIdle
    Flushes <- BothPorts
    Prompt = TRUE
    EarlySeeks = FALSE
    Room = 1
    HardwareFails = TRUE
SPECIFICATION MCSpec
INVARIANTS RestIsConsistent HeldMatchesState AudioBuffersKept
PROPERTIES CallsConclude AudioDelivers
CHECK_DEADLOCK FALSE
