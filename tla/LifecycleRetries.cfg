SPECIFICATION FairSpec
CONSTANTS
    r1 = r1
    Runs = {r1}
    Final = {"SUCCEEDED", "FAILED"}
    Cycles = 2
    MaxAttempts = 3
    MaxFaults = 2
    MaxLate = 1
    MaxLapses = 1
INVARIANTS OneSuccessor SuccessorAfterClose SummaryBeforeClose ClosesOnce LeavesWhatItClosed AckedIsFinished
PROPERTIES SupersededIsSucceeded
CHECK_DEADLOCK FALSE
