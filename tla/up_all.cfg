SPECIFICATION FairSpec
CONSTANTS
    Media = {"rgb", "depth"}
    MaxRecovered = 4
    Configs = {{}, {"retain"}, {"delete"}, {"retain", "delete"}, {"retain", "delete", "pressure"}, {"retain", "delete", "torn"}, {"delete", "torn"}, {"retain", "delete", "pressure", "torn"}}
    MaxCrashes = 2
    MaxFaults = 2
INVARIANTS TypeOK NoLoss FindableIfKept ReadyIsSound PublishedOnce
PROPERTIES UploadsEnd
