CONSTANTS
    None = None
    Hars <- MCHars
    Configs <- MCConfigs
    FullSize <- MCFullSize
    Audio = {"a1"}
    MaxRuns = 3
    MaxDeletes = 1
    SegmentLists <- MCSegmentLists
    KeyLists <- MCKeyLists
SPECIFICATION Spec
PROPERTY WatchedIsStored
CHECK_DEADLOCK FALSE
