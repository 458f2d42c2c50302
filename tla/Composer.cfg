CONSTANTS
    NumBufs = 3
    Configs = {"a", "b", "film"}
    DrmConfigs = {"film"}
    Faults <- AllFaults
    NoConfig = "no config"
    Displays <- TwoDisplays
    Rectangles = {"a"}
    NumHdmiBuffers = 3
    MaxEvents = 1
    Kinds <- AnyDisplay
SPECIFICATION MCSpec
INVARIANTS WindowsFit ScalerIsSafe DisplayAgrees
PROPERTIES FencesGuardBuffers Settles
CONSTRAINT FewFences
CHECK_DEADLOCK FALSE
