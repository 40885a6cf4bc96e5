CONSTANTS
    Attempts = {a1, a2}
    MaxAttempts = 2
    Decay = 1
    MaxDefers = 1
    Batches = {b1, b2}
SPECIFICATION Spec
INVARIANTS OneWriter RequestedMeansScheduled OwedMeansArmed
PROPERTIES RequestSettles NeededIsServed
CHECK_DEADLOCK FALSE
