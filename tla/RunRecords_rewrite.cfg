SPECIFICATION Spec
CONSTANTS
  case = case
  first = first
  second = second
  third = third
  Cases = {case}
  Tests = {first, second, third}
  RawStatuses = {"success", "failed", "error", "canceled"}
  Results = {case}
  Reports <- MCReports
  Saves = {s1}
  Completions = {c1}
  Imports = {i1}
  Closes = {k1}
  TriggerFailures = {t1}
  Asked = {"NOT_EXECUTED", "PASSED"}
  MaxTime = 2
PROPERTIES
  CompletedOnce
