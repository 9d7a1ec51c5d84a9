\* Three topics, so that records are forwarded along chains; the second record evicts
\* the first, and a second pending one exceeds the buffer before the budget.
SPECIFICATION Spec
CONSTANTS
  None = None
  Topic = {a, b, c}
  Event = {x, y}
  Producer = {p1}
  Linker = {k1}
  Subscriber = {s1}
  Start = {0}
  From = {0, 1}
  Retention = 1
  Limit = 1
  Budget = 2
SYMMETRY Symmetry
INVARIANTS SubscriberSeesAll SendsAreSafe BudgetExact AttachmentExact NoLockCycle
CHECK_DEADLOCK FALSE
