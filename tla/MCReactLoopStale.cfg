SPECIFICATION Spec
CONSTANTS
  MaxTotal = 2
  MaxNudges = 1
  MaxInfraErrors = 2
  MaxAttempts = 1
  ExposeGoal = FALSE
  MaxCalls = 1
  MaxCrashes = 0
INVARIANT ClaimCoversLastEdit
