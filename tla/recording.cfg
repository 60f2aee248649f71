\* Two instances (RecordingMC); the bounds are the wider of the two.
CONSTANTS
    Cameras = {1, 2}
    Senders = {{1, 2}}
    DrainsTail = TRUE
    MaxPackets = 3
    MaxCalls = 4
    MaxIdles = 1
    MaxFaults = 2
    StorageFaults = TRUE
SPECIFICATION RecordingSpec
INVARIANTS TypeOK NothingOrphaned OneSessionWithoutFaults OneCloseTask
PROPERTIES DrainKeepsInput AllShareOneSession RequestsAnswered
CHECK_DEADLOCK FALSE
