SPECIFICATION Spec
CONSTANTS
  Users = {u1, u2}
  Tokens = {t1, t2}
  McpCalls = {c1}
  Updates = {a1, a2}
  Limit = 2
  Window = 2
  MaxKeys = 1
  AccessTtl = 1
  RefreshTtl = 2
  TokenLives = {2}
  None = None
  MaxTime = 2
  MaxRequests = 4
SYMMETRY MCSymmetry
INVARIANTS
  TypeOK
  RateIsKept
PROPERTIES
  LastAdminFallsOnlyToStaleRequest
