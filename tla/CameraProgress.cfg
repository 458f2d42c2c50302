SPECIFICATION MCSpec
CONSTANTS
    TERMINATE = TERMINATE
    PAUSE = PAUSE
    Signals = {TERMINATE, PAUSE, RELEASE, DATA_COMING}
INVARIANT ThreadsHearSignals
PROPERTIES KeepsMemory ServiceIsAnswered
CHECK_DEADLOCK FALSE
