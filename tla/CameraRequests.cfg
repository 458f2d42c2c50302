CONSTANTS
    NumRequests = 3
    NumEntries = 2
    SensorDepth = 2
    StreamBuffers = 2
    Kinds <- OrdinaryKinds
    FirstKinds <- OrdinaryKinds
    MayDrop = TRUE
    StillAlone = FALSE
    KeepsUp = TRUE
    QueuesInDequeue = FALSE
SPECIFICATION MCSpec
INVARIANTS RequestsAgree LateRequestsAgree CameraAgrees
PROPERTIES OrdinaryKeepsPromise FocusIsHonest
CHECK_DEADLOCK FALSE
