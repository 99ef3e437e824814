SPECIFICATION FairSpec
CONSTANTS
  Users = {u1}
  Identities = {i1}
  Connected = {u1}
  Linking = {u1}
  Instances = {a1}
  Links = {s1}
  Completions = {k1}
  Disconnects = {d1}
  Calls = {c1, c2}
  MaxPairs = 4
  MaxLosses = 0
  None = None
INVARIANTS
  TypeOK
  ActiveConnectionWorks
PROPERTIES
  EveryCallIsAnswered
