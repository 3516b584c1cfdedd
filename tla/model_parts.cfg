INIT SumInit
NEXT SumNext
CONSTANTS
    t1 = t1
    t2 = t2
    m1 = m1
    m2 = m2
    Threads = {t1, t2}
    Loop = Loop
    Paths = {m1, m2}
    MaxEntries = 1
    MaxBuilds = 2
    MaxRevision = 1
    Trainers = {"t1", "t2"}
    Promoters = {"p1", "p2"}
    TargetOrder <- MCTargetOrder
    Available = {"gpu"}
    Versions = {1}
    MaxFeatures = 2
    MaxWindow = 1
    MaxInputWidth = 2
    MaxExports = 2
    MaxCommands = 2
    Medias <- MCMedias
    Speeches <- MCSpeeches
    Spots <- MCSpots
    MaxParts = 2
    MaxMediaJobs = 2
    Fetchers = {"c1", "c2"}
    Recipes <- MCRecipes
    Licenses = {"mit", "none"}
    Chunks = {1, 2}
    MaxTotal = 3
    Measurements <- MCMeasurements
    MaxBegun = 4
    Walk <- MCWalk
    Contents = {1, 2, 3, 4, 5}
    FirstContent <- MCFirstContent
    Edited = {0, 2}
    RejectionOf <- MCRejectionOf
    RefusalOf <- MCRefusalOf
    LabelsOf <- MCLabelsOf
    ScoreOf <- MCScoreOf
    Labels = {{"mine"}, {"odd"}}
    Vocabulary = {"x", "mine"}
    Indexers = {"i1"}
    MaxFiles = 2
    MaxIndexed = 2
    PageSize = 1
    MaxHappened = 5
INVARIANTS
    ReleaseSound
    SourcesSound
    BoundIsProven
    TrainingSound
    EventsSound
    ReadsHold
    PassesJoin
    NoFrameRemains
