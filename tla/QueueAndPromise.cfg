CONSTANTS
    Data = {d1, d2, d3}
    NULL = NULL
    MaxNumElem = 5
    NumPorts = 1
    nBufferCountActual <- OneBuffer
    Targets <- States
    Commands = {"PortDisable", "PortEnable"}
    Failures <- FailurePoints
    MaxPending = 2
    MaxPosts = 1
    QueueCapacity = 1
SPECIFICATION MCSpec
INVARIANT Contiguous
PROPERTIES IsFifo KeepsPromise
CHECK_DEADLOCK FALSE
