SPECIFICATION KickedSpec
CONSTANTS
    j1 = j1
    j2 = j2
    j3 = j3
    p1 = p1
    p2 = p2
    Jobs = {j1, j2, j3}
    Profiles = {p1, p2}
    ProfileOf <- MCProfileOf
    MaxConcurrent = 1
    MaxWaiting = 2
    Weights = {1}
PROPERTY WaiterServed
