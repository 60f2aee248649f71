CONSTANTS
    Cameras = {1, 2}
    Workers = {1, 2}
    MaxPending = 2
    MaxSegments = 2
    MaxFaults = 0

SPECIFICATION Spec

PROPERTY DetachedIsClosed

CHECK_DEADLOCK FALSE
