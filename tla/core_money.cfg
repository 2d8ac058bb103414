\* One user's wallet: every way money is added, claimed, paid and given back.
CONSTANTS
  Users = {u1}
  Chargers = {c1}
  Orders = {o1}
  Withdrawals = {w1, w2}
  Keys = {k1, k2, k3}
  Plates = {}
  None = None
  Amounts = {1}
  Adjustments <- MCAdjustments
  MinimumStart = 1
  MaxBalance = 2
  Full = 1
  DefaultSoc = 0
  DefaultLimit = 1
  Powers = {p1}
SPECIFICATION Spec
SYMMETRY Symmetry
INVARIANTS
  HoldsBacked
  WalletExplainsBalance
  DebitsOnce
  RefundsBounded
PROPERTY SessionsFunded
CHECK_DEADLOCK FALSE
