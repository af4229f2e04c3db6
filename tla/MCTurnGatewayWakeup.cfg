SPECIFICATION GatewaySpec
CONSTANTS
  MaxSends = 1
  MaxRequests = 1
  MaxCancels = 0
  MaxCompacts = 0
  MaxCrashes = 0
  MayLeave = FALSE
CHECK_DEADLOCK FALSE
PROPERTY TimeoutMeansNoAnswer
