SPECIFICATION LiveSpec
CONSTANTS
    Jobs = {j1}
    MaxPids = 2
    MaxRestarts = 1
PROPERTIES
    JobAnswered
    ReloadStops
    IdleWorkerLeaves
