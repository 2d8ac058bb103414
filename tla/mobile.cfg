CONSTANTS
  None = none
  Orders = {o1}
  Amounts = {1}
  MaxCalls = 3
  MaxFaults = 1
SPECIFICATION Spec
PROPERTY KeepsPromise
