SPECIFICATION Spec
CONSTANTS
  Users = {u1, u2}
  Identities = {i1, i2}
  Connected = {u1}
  Linking = {u2}
  Instances = {a1}
  Links = {s1}
  Completions = {k1, k2}
  Disconnects = {d1}
  Calls = {c1, c2}
  MaxPairs = 4
  MaxLosses = 1
  None = None
INVARIANTS
  NoOrphanedToken
  LinkUsedOnce
  TokensStayWithTheirUser
PROPERTIES
  NobodyElseRefreshed
