\* Two submitters of one request, a result channel of one.
CONSTANTS
  Request = {r1}
  Submitter = {s1, s2}
  None = None
  ResultCap = 1
SPECIFICATION FairSpec
INVARIANTS EngineAwake SubmittedOnce WaiterServed VerdictHolds
PROPERTIES InputsProcessed SubmitterReturns
CHECK_DEADLOCK FALSE
