SPECIFICATION FairSpec
CONSTANTS
    ka = ka
    kb = kb
    kc = kc
    sa = sa
    sb = sb
    Keys = {ka, kb}
    Sessions = {sa}
    Session <- MCSession
    MaxAttempts = 2
    Modes = {"system_transform"}
    Overlap = FALSE
    ClaimTicks = 1
    MaxProcesses = 2
    MaxLate = 1
INVARIANTS OneAudit
PROPERTIES EveryQueuedResolved
CHECK_DEADLOCK FALSE
