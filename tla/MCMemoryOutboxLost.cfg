SPECIFICATION OutboxSpec
CONSTANTS
  Episodes = {e1}
  Memories = {m1}
  Tasks = {t1}
  Importance = {4, 5}
  Permanent = 5
  MaxVer = 2
  MaxFaults = 0
INVARIANT ProcessedIsCurrent
