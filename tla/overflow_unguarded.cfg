\* An IDR that evicts older packets does not arm the guard
CONSTANTS
    Stream = "rgb"
    RecordingBuffer = TRUE
    FramesPerSlot = 2
    MaxSlotBytes = 8
    Sizes = {2}
    TimingRegresses = FALSE
    MaxFrames = 4
    DropsBeforeReconnect = 2
SPECIFICATION Spec
PROPERTY OverwriteIsGuarded
