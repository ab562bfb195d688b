SPECIFICATION Spec
CONSTANTS
    ka = ka
    kb = kb
    kc = kc
    sa = sa
    sb = sb
    Keys = {ka, kb}
    Sessions = {sa, sb}
    Session <- MCSession
    MaxAttempts = 2
    Modes = {"system_transform", "prompt_async"}
    Overlap = TRUE
    ClaimTicks = 1
    MaxProcesses = 1
    MaxLate = 1
SYMMETRY Symmetry
INVARIANTS AtMostOnce OneText NothingConfirmedFalsely ClaimedInOrder
CHECK_DEADLOCK FALSE
