\* Two users compete for one charger over two orders; one drives up with a
\* vehicle, an administrator edits the charger.
CONSTANTS
  Users = {u1, u2}
  Chargers = {c1}
  Orders = {o1, o2}
  Withdrawals = {}
  Keys = {k1, k2}
  Plates = {plate}
  None = None
  Amounts = {1}
  Adjustments = {}
  MinimumStart = 1
  MaxBalance = 1
  Full = 1
  DefaultSoc = 0
  DefaultLimit = 1
  Powers = {p1, p2}
SPECIFICATION Spec
SYMMETRY Symmetry
INVARIANTS
  ChargerMirrorsOrder
  OneActiveOrder
  VehicleFollowsOrder
PROPERTY OrdersKept
CHECK_DEADLOCK FALSE
