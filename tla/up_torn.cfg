SPECIFICATION Spec
CONSTANTS
    Media = {"rgb", "depth"}
    MaxRecovered = 2
    Configs = {{"retain", "delete", "torn"}}
    MaxCrashes = 1
    MaxFaults = 0
INVARIANT ReadyIsWhole
