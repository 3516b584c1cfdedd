SPECIFICATION Spec
CONSTANTS
    c1 = c1
    c2 = c2
    cat = cat
    plug = plug
    card = card
    Clients = {c1, c2}
    Adopter = Adopter
    Profiles = {cat, plug}
    Catalog = {cat}
    Settings = {"low", "high"}
    DefaultSetting = "low"
    Choices = {card}
    MaxChoices = 1
    Commands <- MCCommands
    MaxRevision = 2
INVARIANT AcknowledgedSurvives
CONSTRAINT Synced
