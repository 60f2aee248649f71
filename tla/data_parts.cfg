CONSTANTS
    MappedOffsets = {1, 4}
    MaxMapStamp = 5
    Slew = 2
    MinDuration = 2
    Limit = 2
    MaxMapSegments = 2
    MaxReports = 4
    Base <- BaseOffsets
    Skews <- SkewSettings
    MaxDelay = 2
    LargeStep = 1
    MaxAge = 2
    Window = 3
    MaxProbeTime = 4
    MaxProbes = 3
    MaxTargets = 2
    MaxInFlight = 1
    QueueCameras = {1, 2}
    RgbSizes = {3, 9}
    DepthSizes = {1}
    CameraMax = 8
    TotalMax = 12
    MaxPackets = 4
    MaxSwitches = 2
    Fds = {1, 2, 3}
    Buffer = 1
    MaxSessions = 3
    MaxFrames = 3
    Packets <- UdpPackets
    MaxAssemblies = 2
    MaxBytes = 5
    MaxDatagrams = 4
    PoolSlots = 1
    Compressors = {1, 2}
    FramesPerSlot = 2
    SlotBytes = 3
    Sizes = {1, 2, 4}
    MaxDepthFrames = 3
    MaxSlots = 2
    MaxRaw = 7
    MaxIndex = 3
    HalfByte = 2
    VarBase = 4
    RvlBase = 2
    RunMax = 2
    ChunkSamples = 2
    Shapes <- FrameShapes
    Scales = {0, 1, 2}
    Quants = {3}
    Codecs <- DepthCodecs
    Callers = {1, 2}
    Decoders = {3}
    Chunks = 2
    Helpers = 1
    TasksMax = 1
    Cameras = {1, 2}
    Workers = {1, 2}
    MaxPending = 2
    MaxSegments = 2
    MaxFaults = 1
    Series = {1, 2}
    TaskAudio = TRUE
    MaxCrashes = 1
    MaxEndFaults = 1
    WindowStart = 1
    SegmentSeconds = 2
    HeldMax = 2
    MaxStamp = 4
    MaxCutPackets = 3
    MaxCutFaults = 1
    MediaPayloads <- RgbPayloads
    HeldBytes = 8
    HeldFrames = 2
    MaxMediaPackets = 4
    MaxMediaFaults = 2
    ExposureMin = 1
    ExposureMax = 2
    SoftFloor = 2
    GainMin = 0
    GainMax = 1
    MaxExposureStep = 1
    MaxRecoveryStep = 1
    MaxGainStep = 1
    MeteringWindow = 2
    UnderexposedSamples = 2
    ReversalSamples = 2
    ReleaseSamples = 2
    DiscardFrames = 1
    Hubs = {1, 2}
    Hosts = {1, 2, 3}
    Fallback = 3
    Sticky = 1
    MaxChanges = 2
    Ids = {"a"}
    Burst = {"a"}
    PendingMax = 1
    QueueMax = 1
    PhotoQueueMax = 1
    MaxSubmits = 2
    MaxPhotoFaults = 1
    Targets = {2, 4}
    Offsets <- KeyframeOffsets
    MaxU = 4
    Lateness = 2
    RetryAfter = 1
    MaxTime = 5
    MaxRequests = 2
    MaxLost = 1
    Devices = {1, 2}
    Configured = {1}
    NumSlots = 3
    MaxActive = 2
    RestartAttempts = 2
    FlapEvents = {1, 2}
    MaxCameraFaults = 1
SPECIFICATION Spec
INVARIANTS MappingStands OffsetIsMeasured BytesAccounted IngressInOrder ReassemblyAccounted
           DepthInOrder FramesWhole DepthRestored SegmentsAccounted SegmentsKeptWhole
           SegmentsWellCut IndexMatchesMedia AdjustsOnEvidence PhotosStand KeyframesOnTime
           OneCameraPerDevice
PROPERTY LeavesSilentOnly
CHECK_DEADLOCK FALSE
