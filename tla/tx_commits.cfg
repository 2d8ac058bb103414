\* Two sessions and the coordinator over one user's two orders.
CONSTANTS
  Users = {u1}
  Chargers = {c1}
  Orders = {o1, o2}
  Withdrawals = {}
  Keys = {k1, k2}
  Plates = {}
  None = None
  Amounts = {1}
  Adjustments = {}
  MinimumStart = 1
  MaxBalance = 2
  Full = 2
  DefaultSoc = 0
  DefaultLimit = 2
  Powers = {p1}
  Sessions = {s1, s2}
  Coordinator = coordinator
  Requests = {None}
  Statuses = {"active", "frozen", "available", "faulted"}
  MaxCalls = 4
SPECIFICATION TxSpec
INVARIANT InsertsUnique
PROPERTY RefinesCore
SYMMETRY Symmetry
