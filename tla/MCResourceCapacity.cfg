\* Two lessees, two dispatches and two operators that change the capacity at once.
SPECIFICATION FairSpec
CONSTANTS
  Lessee = {l1, l2}
  Dispatch = {d1, d2}
  Operator = {o1, o2}
  None = None
  MaxCapacity = 3
  Authored = 1
INVARIANTS OneOwner UnitsMatchCapacity PreviewIsBinding
PROPERTIES NoLostWakeup AskerAnswered
