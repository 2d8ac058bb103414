\* Every wait ends: one user, two sessions and the coordinator.
CONSTANTS
  Users = {u1}
  Chargers = {c1}
  Orders = {o1, o2}
  Withdrawals = {}
  Keys = {k1}
  Plates = {}
  None = None
  Amounts = {1, 2}
  Adjustments = {}
  MinimumStart = 1
  MaxBalance = 2
  Full = 1
  DefaultSoc = 0
  DefaultLimit = 1
  Powers = {p1}
  Sessions = {s1, s2}
  Coordinator = coordinator
  Requests = {None}
  Statuses = {"active", "frozen", "available", "faulted"}
  MaxCalls = 3
SPECIFICATION TxSpec
PROPERTIES
  Answered
  LapsedReleased
  TargetSettled
