SPECIFICATION Spec
CONSTANTS
  MaxChildren = 1
  MaxTurns = 1
  MaxAttempts = 2
  MaxLimited = 1
  MaxVerifyRetries = 1
  MaxRevisions = 1
  CritiqueTypes = {}
  Revision = FALSE
  RecursionLimit = 25
CHECK_DEADLOCK FALSE
INVARIANT SuccessHasNoFailure
