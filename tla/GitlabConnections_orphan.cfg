SPECIFICATION Spec
CONSTANTS
  Users = {u1}
  Identities = {i1}
  Connected = {u1}
  Linking = {u1}
  Instances = {a1}
  Links = {s1}
  Completions = {k1}
  Disconnects = {}
  Calls = {c1}
  MaxPairs = 4
  MaxLosses = 1
  None = None
INVARIANTS
  NoOrphanedToken
