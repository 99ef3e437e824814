SPECIFICATION FairSpec
CONSTANTS
  Fields = {name, steps}
  HumanValues = {h}
  AiValues = {x}
  Original = o
  Edits = {e1}
  Removes = {d1}
  Approvals = {v1}
  Proposals = {p1, p2}
  Accepts = {a1}
  Rejects = {r1}
  None = None
INVARIANTS
  TypeOK
  OnePending
PROPERTIES
  ResolvedOnce
  ImplementsContract
  EveryRequestIsAnswered
