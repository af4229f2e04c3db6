SPECIFICATION BothSpec
CONSTANTS
  MaxTotal = 2
  MaxNudges = 1
  MaxInfraErrors = 2
  MaxAttempts = 2
  ExposeGoal = FALSE
  MaxCalls = 1
  MaxCrashes = 1
  Episodes = {}
  Memories = {m1, m2}
  Tasks = {t1}
  Importance = {4, 5}
  Permanent = 5
  MaxVer = 3
  MaxFaults = 1
INVARIANTS
  TurnCeiling PassedIsReal OkIsEarned NudgedBeforeAccepted
  ProcessedIsProjected StaleOnlyByRace
PROPERTIES
  Terminates ClosedForGood ImplementsView
