\* Three paths (MediaPathMC); these constants are the widest of the three
CONSTANTS
    Stream = "rgb"
    RecordingBuffer = TRUE
    FramesPerSlot = 4
    MaxSlotBytes = 8
    Sizes = {1, 2, 3}
    TimingRegresses = TRUE
    MaxFrames = 4
    DropsBeforeReconnect = 2
SPECIFICATION PathSpec
INVARIANTS TypeOK RetriesResume AcceptedInOrder LossesCounted ReliableDecodable
PROPERTIES ImplementsFifo DirectOverwriteIsGuarded PathLives
CHECK_DEADLOCK FALSE
