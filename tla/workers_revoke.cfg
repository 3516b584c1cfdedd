SPECIFICATION Spec
CONSTANTS
    Jobs = {j1, j2}
    MaxPids = 2
    MaxRestarts = 2
INVARIANT
    RevokedStaysDown
