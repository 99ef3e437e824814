SPECIFICATION Spec
CONSTANTS
  AUTH = AUTH
  AUTH2 = AUTH2
  CART = CART
  auth = auth
  authors = authors
  cart = cart
  Modules <- MCModules
  Names <- MCNames
  Derive <- MCDerive
  Suffixed <- MCSuffixed
  Existing <- MCExisting
  NewModules <- MCNewModules
  MaxNumber = 5
  MaxAttempts = 2
  Creates = {c1}
  Links = {l1, l2}
  Confirms = {i1, i2}
  Previews = {v1, v2}
  Files <- MCFiles
  MaxChanges = 2
  MaxRequests = 3
  None = None
SYMMETRY MCSymmetry
INVARIANTS
  TypeOK
  OnlyOutrunByRivals
  ImportClashesOnlyWithOthers
  CaseOfResultIsLinked
  RowsJoinTheirModule
PROPERTIES
  CodeIsForever
