SPECIFICATION ConnectionSpec
CONSTANTS
    Tasks <- InboxCalls
    Op <- MCOp
    CohortSize = 2
INVARIANTS AnsweredIsDurable WholeOrNothing
CHECK_DEADLOCK FALSE
