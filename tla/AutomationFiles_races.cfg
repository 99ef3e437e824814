SPECIFICATION Spec
CONSTANTS
  spec = spec
  page = page
  case = case
  Paths = {spec, page}
  Contents <- MCContents
  Tracked = {spec}
  Saves = {s1, s2}
  People = People
  MaxPushes = 1
  TestsPaths <- MCTestsPaths
  Scans = {r1, r2}
  Workers <- MCWorkers
  MaxEntries = 1
  Cases = {case}
  MaxRequests = 2
SYMMETRY MCSymmetry
INVARIANTS
  TypeOK
  ConflictOnlyWithOthers
  MergeRequestNamesEdits
  CoverageIsOfItsCommit
PROPERTIES
  NothingOverwrittenUnseen
