CONSTANTS
    Components = {c1, c2, c3}
    MaxResource = 2
    Priorities = {1, 2, 3}
    CodecMayFail = TRUE
    Targets = {"Loaded", "Idle"}
    MaxPending = 1
    MaxWaiting = 0
    QueueCapacity = 2
SPECIFICATION MCSpec
CHECK_DEADLOCK FALSE
SYMMETRY Interchangeable
INVARIANTS AccountedFor WaitersAccountedFor
PROPERTY PreemptsLowest
