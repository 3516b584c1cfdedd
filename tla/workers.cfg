SPECIFICATION Spec
CONSTANTS
    Jobs = {j1, j2}
    MaxPids = 2
    MaxRestarts = 2
INVARIANTS
    OneWorker
    NoStray
    RecoverySound
    WorkSpared
SYMMETRY JobSymmetry
