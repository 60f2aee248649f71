\* A recording whose input a failed write has closed, promoted by start-all.
CONSTANTS
    Cameras = {1}
    Senders = {{1}}
    DrainsTail = TRUE
    MaxPackets = 3
    MaxCalls = 3
    MaxIdles = 0
    MaxFaults = 1
    StorageFaults = FALSE
SPECIFICATION Spec
INVARIANT OneSessionPerSegment
CHECK_DEADLOCK FALSE
