SPECIFICATION Spec
CONSTANTS
    MaxStates = 3
    QueueSize = 4
    MaxFaults = 0
INVARIANT NothingMissed
CHECK_DEADLOCK FALSE
