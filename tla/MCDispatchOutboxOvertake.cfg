SPECIFICATION Spec
CONSTANTS
  Intent = {i1, i2}
  Caller = {c1}
  Controller = ctl
  Outcome = {done}
  None = None
  MaxAttempts = 1
INVARIANT FailedResumeNotOvertaken
