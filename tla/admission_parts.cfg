INIT SumInit
NEXT SumNext
CONSTANTS
    j1 = j1
    j2 = j2
    j3 = j3
    p1 = p1
    p2 = p2
    Jobs = {j1, j2, j3}
    Profiles = {p1, p2}
    ProfileOf <- MCProfileOf
    MaxConcurrent = 2
    MaxWaiting = 3
    Weights = {1, 5}
    Requests = {"r1", "r2"}
    MaxConcurrency = 1
    ServiceVersions = {1, 2}
    WorkerVersions = {1, 2}
    MaxChunks = 2
    MaxProgress = 1
    Services = {"s1", "s2"}
    Clients = {"c1", "c2", "c3"}
    OwnerOf <- MCOwnerOf
    MaxCalls = 2
    MaxCallsAtOnce = 1
    MaxTracked = 1
    MaxRequests = 3
    MaxStops = 1
    Plugin = "p"
    Permissions = {"files", "gpu"}
    Candidates <- MCCandidates
    MaxCandidates = 2
    Desks = {"d1", "d2"}
    Editors = {"control", "cli"}
    SpecVersions = {1, 2}
    Migrations <- MCMigrations
    Configurations = {"night"}
    SecretFields = {"token"}
    AuditLimit = 1
    MaxConsentChanges = 4
    Nodes = {"tpu1"}
    BackendOf <- MCBackendOf
    NodeNumber <- MCNodeNumber
    Selected <- MCSelected
    NoNode = "none"
    Workloads = {"w"}
    Plugins = {"p"}
    Preference <- MCPreference
    WithModel = {"w"}
    Source = "events"
    MaxAlerts = 1
    MaxRunning = 2
    MaxChanges = 2
INVARIANTS
    SlotsSound
    NoLostWaiter
    WorkConserving
    BoundedLag
    PublicationSound
    SocketSound
    ConsentSound
    ChannelSound
SYMMETRY Symmetry
