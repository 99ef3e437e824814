SPECIFICATION Spec
CONSTANTS
  Runs = {r1, r2}
  FailingCalls = {"jobs", "report"}
  Grace = 1
  Timeout = 2
  MaxTime = 4
  MaxDisturbances = 0
  None = None
SYMMETRY RunSymmetry
INVARIANTS
  ImportedFromFinished
PROPERTIES
  NoEarlyTimeout
  SweepSparesLiveTriggers
  FinishedIsNotTimedOut
