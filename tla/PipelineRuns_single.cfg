SPECIFICATION FairSpec
CONSTANTS
  Runs = {r1}
  FailingCalls = {"pipeline"}
  Grace = 1
  Timeout = 2
  MaxTime = 5
  MaxDisturbances = 3
  None = None
INVARIANTS
  TypeOK
PROPERTIES
  ImplementsContract
  EveryRunCloses
