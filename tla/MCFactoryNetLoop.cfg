\* Two independent Work items, two slots, and reviewers that only accept or reject.
SPECIFICATION Spec
CONSTANTS
  Work = {1, 2}
  DependsOn <- Independent
  Required = "task:complete"
  Category <- Categories
  Start = "task:init"
  FailedPlace = "task:failed"
  Trace <- Separate
  Name <- Same
  Transition <- Stations
  From <- Inputs
  Route <- Routes
  Logical = {"breaker", "escalate"}
  Retries <- Attempts
  Limit = 1
  Tries = 2
  Watch <- Watches
  MaxVisits <- Limits
  UsesUnit = {"process", "review"}
  Units = {1, 2}
  MaxDispatches = 2
  Outcomes = {"accepted", "rejected"}
  MaxUpsets = 0
INVARIANT BreakerStopsLoop
