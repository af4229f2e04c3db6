SPECIFICATION EvidenceSpec
CONSTANT MaxTestRuns = 1
CHECK_DEADLOCK FALSE
PROPERTY AssertionRan
