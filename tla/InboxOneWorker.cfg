SPECIFICATION FairSpec
CONSTANTS
    Workers = {w1}
    w1 = w1
    w2 = w2
    NumEvents = 4
    Root <- MCRoot
    MaxAttempts = 2
    LeaseTicks = 2
    MaxClaims = 9
    MaxFaults = 2
CONSTANTS
    ra = ra
    rb = rb
    Roots = {ra, rb}
    MaxOvertaken = 0
    BatchSize = 2
    BackoffTicks = 1
INVARIANTS AttemptsPaidByFaults
PROPERTIES EverySettles
CHECK_DEADLOCK FALSE
