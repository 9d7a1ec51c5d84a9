\* One dispatch; its attempt, two callers with two answers and a stop compete.
SPECIFICATION FairSpec
CONSTANTS
  w1 = w1
  foreign = foreign
  WorkID <- Works
  Lineage <- Own
  First = w1
  None = None
  Capacity = 1
  Dispatch = {d1}
  Caller = {c1, c2}
  Answer <- TwoAnswers
INVARIANTS RoutedOnce PublishedIsCarried StopJoinsAttempts JoinIsQuiet
PROPERTIES StoppedIsRouted AcceptReturns
