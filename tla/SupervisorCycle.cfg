SPECIFICATION Spec
CONSTANTS
  MaxDepth = 3
  PageSize = 2
  RecursionLimit = 25
  MaxAttempts = 3
  MaxMemories = 2
  MaxReach = 3
CHECK_DEADLOCK FALSE
INVARIANTS
  ContractsHold
  WithinLimit
  ContextIsCurrent
  AsksSomethingNew
  NoPageSkipped
  RecoveryIsDelivered
  AcknowledgedIsRemembered
