CONSTANTS
  Request = {r1, r2}
  Submitter = {s1, s2}
  None = None
  ResultCap = 1
SPECIFICATION Spec
INVARIANTS CompletedMeansAllAccepted
CHECK_DEADLOCK FALSE
