INIT SumInit
NEXT SumNext
CONSTANTS
    j1 = j1
    j2 = j2
    p1 = p1
    p2 = p2
    Jobs = {j1}
    Profiles = {p1, p2}
    ProfileOf <- MCProfileOf
    MaxConcurrent = 1
    MaxWaiting = 1
    Weights = {1}
    RetryAttempts = 2
    Families = {"storage", "hardware", "resource", "desktop", "network", "peripheral"}
    ItemIds = {"i1", "i2"}
    Allowlist = {"i1", "i2"}
    Samples <- MCSamples
    Events = {"e1"}
    MaxPending = 2
    MaxItems = 1
    MaxTriggers = 3
    MaxChanges = 2
    Dirs = {"photos", "trip", "enhanced"}
    Below <- MCBelow
    Photographs <- MCPhotographs
    Names = {"n1"}
    PhotoJobs = {"j1", "j2"}
    MaxTurns = 2
    Inodes = {1, 2}
    Paths = {"p", "q"}
    Links <- MCLinks
    Selections <- MCSelections
    Contents <- MCContents
    MaxBytes = 2
    References <- MCReferences
    ModelSize = 2
    NonFinite = {2}
    MaxEdits = 3
    Recorders = {"p1", "p2"}
    MaxTime = 4
    SegmentLines = 2
    MaxSegments = 2
    Window = 1
    Ahead = 1
    MinWindows = 2
    Attempts = 2
    MaxUpsets = 1
INVARIANTS
    StaleIsHeld
    CollectionSound
    HistoryIsTrue
    NothingOverwritten
    InputsSound
PROPERTY PoolSpec
