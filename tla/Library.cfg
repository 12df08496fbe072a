CONSTANTS
    MaxTypeId = 1
    MaxTagId = 3
    Spellings = {"place", "Place", "site", "area"}
    Fold <- MCFold
    Affinities <- MCAffinities
    TagBatches <- MCTagBatches
    MarkBatches <- MCMarkBatches
    None = None
    MaxRequests = 3
    Accounts = {"a1", "a2", "a3"}
    Posts = {"p1"}
    Media = {"m1", "m2"}
    PartIds = {"q1"}
    LinkIds = {1, 2}
    LocalMedia = {"m1"}
    Captures <- MCCaptures
    InitialTies <- MCInitialTies
    HandNames = {"Place"}
    MayMerge <- MCMayMerge
    Weight <- MCWeight
SPECIFICATION Spec
INVARIANTS
    HierarchyIsAcyclic
    ViewsAgree
PROPERTIES
    ImportIsExact
    NothingGetsLost
    TiesAreWhole
CHECK_DEADLOCK FALSE
