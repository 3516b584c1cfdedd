SPECIFICATION LiveSpec
CONSTANTS
    j1 = j1
    j2 = j2
    p1 = p1
    p2 = p2
    Jobs = {j1}
    Profiles = {p1, p2}
    ProfileOf <- MCProfileOf
    MaxConcurrent = 1
    MaxWaiting = 1
    Weights = {1}
    RetryAttempts = 2
PROPERTY AdmittedWaiterServed
