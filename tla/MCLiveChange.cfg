\* Two operators, two requests, two resources; crashes and failed writes.
SPECIFICATION Spec
CONSTANTS
  a = a
  b = b
  Resource <- Resources
  Body <- Bodies
  Authored = 1
  None = None
  Operator = {o1, o2}
  Request = {q1, q2}
INVARIANTS LogRecoverable WatermarkTrails HistoryInForce
PROPERTIES ImplementsLiveChangeOnce
