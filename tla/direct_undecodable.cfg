\* An IDR older than the loss lifts the guard
CONSTANTS
    Stream = "rgb"
    RecordingBuffer = FALSE
    FramesPerSlot = 1
    MaxSlotBytes = 8
    Sizes = {2}
    TimingRegresses = FALSE
    MaxFrames = 5
    DropsBeforeReconnect = 2
SPECIFICATION Spec
INVARIANT Decodable
