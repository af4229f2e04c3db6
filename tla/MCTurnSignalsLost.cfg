SPECIFICATION Spec
CONSTANTS
  MaxTotal = 2
  MaxSteers = 2
  MaxGoals = 2
CHECK_DEADLOCK FALSE
PROPERTY TakenSteerIsDelivered
