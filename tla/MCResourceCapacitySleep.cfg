SPECIFICATION FairSpec
CONSTANTS
  Lessee = {l1}
  Dispatch = {d1}
  Operator = {o1}
  None = None
  MaxCapacity = 1
  Authored = 1
PROPERTY WaitsOnlyForUnit
