\* The host and three operators.
SPECIFICATION FairSpec
CONSTANTS
  Operator = {o1, o2, o3}
  None = None
INVARIANTS ControlsAgree CompleteIsOver TerminateJoins
PROPERTIES FinishedCompletes
CHECK_DEADLOCK FALSE
