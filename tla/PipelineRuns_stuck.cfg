SPECIFICATION FairSpec
CONSTANTS
  Runs = {r1}
  FailingCalls = {"pipeline", "jobs", "report"}
  Grace = 1
  Timeout = 2
  MaxTime = 4
  MaxDisturbances = 0
  None = None
PROPERTIES
  EveryRunCloses
