\* Three Work items, each waiting for the one before it, and one slot.
SPECIFICATION FairSpec
CONSTANTS
  Work = {1, 2, 3}
  DependsOn <- Chain
  Required = "task:complete"
  Category <- Categories
  Start = "task:init"
  FailedPlace = "task:failed"
  Trace <- Traces
  Name <- Same
  Transition <- Stations
  From <- Inputs
  Route <- Routes
  Logical = {"breaker", "escalate"}
  Retries <- Attempts
  Limit = 1
  Tries = 2
  Watch <- Watches
  MaxVisits <- Limits
  UsesUnit = {"process", "review"}
  Units = {1}
  MaxDispatches = 2
  Outcomes = {"accepted", "continue", "rejected", "failed", "terminal", "retryable", "throttled", "canceled", "forced", "misjudged", "salvaged"}
  MaxUpsets = 2
INVARIANTS OneHome CascadeComplete
PROPERTIES RetriesHold WorkSettles
