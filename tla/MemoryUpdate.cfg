SPECIFICATION Spec
CONSTANTS
    f = f
    g = g
    Facts = {f, g}
    MaxCandidates = 2
    PageSize = 2
    TargetLimit = 1
    MaxAttempts = 2
    MaxOld = 2
SYMMETRY Symmetry
INVARIANTS OwnFactsOnce FactsKept LinksSound
CHECK_DEADLOCK FALSE
