SPECIFICATION Spec
CONSTANTS
    Media = {"rgb", "depth"}
    MaxRecovered = 2
    Configs = {{"retain", "delete", "pressure"}}
    MaxCrashes = 1
    MaxFaults = 0
INVARIANT Findable
