\* One intent being drained, one queued behind it, one accepted meanwhile; the
\* goroutine that publishes and retries, and the controller.
SPECIFICATION FairSpec
CONSTANTS
  Intent = {i1, i2, i3}
  Caller = {c1}
  Controller = ctl
  Outcome = {ok, failed}
  None = None
  MaxAttempts = 1
INVARIANTS OneCallPerIntent NoStrandedIntent StopLeavesNothingRunning
PROPERTIES ImplementsDispatchOnce ControlReturns AcceptedIsOffered
