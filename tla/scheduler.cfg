SPECIFICATION LiveSpec
CONSTANTS
    j1 = j1
    j2 = j2
    j3 = j3
    gpu = gpu
    npu = npu
    p1 = p1
    p2 = p2
    Jobs = {j1, j2, j3}
    Lanes = {gpu}
    Profiles = {p1, p2}
    ProfileOf <- MCProfileOf
    MaxDepth = 1
    Weights = {1}
INVARIANTS
    NothingStranded
    PublishedIsTrue
PROPERTY FutureSettles
