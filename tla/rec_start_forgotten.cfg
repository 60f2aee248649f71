\* A start while the segment of a storage failure is detached.
CONSTANTS
    Cameras = {1}
    Senders = {{1}}
    DrainsTail = TRUE
    MaxPackets = 3
    MaxCalls = 3
    MaxIdles = 1
    MaxFaults = 1
    StorageFaults = TRUE
SPECIFICATION FairSpec
PROPERTIES PendingStarts
CHECK_DEADLOCK FALSE
