CONSTANTS
    Attempts = {a1}
    MaxAttempts = 1
    Decay = 1
    MaxDefers = 0
    Batches = {b1}
SPECIFICATION Spec
PROPERTY SuspensionEnds
CHECK_DEADLOCK FALSE
