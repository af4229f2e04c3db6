SPECIFICATION FairSpec
CONSTANTS
  Calls = {c1, c2}
  RESTART = RESTART
  NoCall = NoCall
  MaxFaults = 1
  MaxReloads = 1
  Batch = 2
  Concurrency = 2
CHECK_DEADLOCK FALSE
INVARIANTS AckedHasResult
PROPERTIES ImplementsOnce ReloadReplaces ReloadDrains HandlersEnd FailedSkillReturns
