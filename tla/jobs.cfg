SPECIFICATION LiveSpec
CONSTANTS
    Ids = {j1, j2}
    Owners = {alice, bob}
    MaxActive = 2
    MaxRetained = 1
INVARIANT JobsSound
PROPERTIES
    AnswerIsFinal
    CapacityReturns
