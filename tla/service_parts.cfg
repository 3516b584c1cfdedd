INIT SumInit
NEXT SumNext
CONSTANTS
    c1 = c1
    c2 = c2
    cat = cat
    plug = plug
    card = card
    Clients = {c1, c2}
    Adopter = Adopter
    Profiles = {cat, plug}
    Catalog = {cat}
    Settings = {"low", "high"}
    DefaultSetting = "low"
    Choices = {card}
    MaxChoices = 1
    Commands <- MCCommands
    MaxRevision = 2
    PipelineJobs = {"j1", "j2", "j3"}
    PipelineKey <- MCPipelineKey
    Devices = {"gpu0", "gpu1"}
    MaxInFlight = 1
    MaxRetries = 1
    Retention = 1
    MaxTracked = 2
    MaxEvents = 2
    Processes = {"p", "q"}
    Ids = {"a", "b"}
    Versions <- MCVersions
    Bytes = {"x", "y"}
    Variants <- MCVariants
    Pinned <- MCPinned
    Declared <- MCDeclared
    MaxItems = 1
    Asked = {"a"}
    MaxIssued = 3
INVARIANTS
    PolicySound
    PipelineSound
    StoreSound
    GroundingSound
SYMMETRY Symmetry
CONSTRAINT Synced
