SPECIFICATION Spec
CONSTANTS
    w1 = w1
    w2 = w2
    Workers = {w1, w2}
    NumEvents = 3
    Root <- MCRoot
    MaxAttempts = 2
    LeaseTicks = 2
    MaxClaims = 3
    MaxFaults = 2
CONSTANTS
    ra = ra
    rb = rb
    Roots = {ra, rb}
    MaxOvertaken = 2
    BatchSize = 2
    BackoffTicks = 1
SYMMETRY Symmetry
INVARIANTS CohortUniform SoleHolder CompletedOnce
PROPERTIES ImplementsQueue
CHECK_DEADLOCK FALSE
