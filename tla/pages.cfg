CONSTANTS
  None = none
  Payees = {u1}
  Values = {1, 2}
  Managers = {"users"}
  MaxForms = 2
  MaxAwaits = 2
  MaxLosses = 1
  Records = 4
  Window = 2
  Groups = {"order", "wallet"}
  Scopes = {"all", "business"}
  MaxRequests = 4
  Sites = {s1, s2}
  MaxRefreshes = 2
  MaxUpsets = 2
  MaxErrands = 2
  MaxPayments = 2
  MaxFailures = 2
  Served <- TwoStations
  Preview <- OnePreview
  Limits = {80, 90}
  MaxDetails = 3
  Amounts = {0, 5, 20}
  MaxFigures = 8
  Cold = 7
  DayHours <- HoursOfDays
  MaxDays = 6
  Ranges = {4, 30}
  Times = {0, 23, 24, 170, 340}
  MaxEvents = 3
  MaxOrders = 3
SPECIFICATION Spec
INVARIANTS
  PostedAsTyped
  DrawerMatchesState
  EventShownIsListed
  ForecastMatchesScope
  SameSnapshot
  HistoryKept
  AsksAsLabelled
  ChartsAddUp
  ChartsInFrame
PROPERTIES
  DashboardCatchesUp
  BalanceCatchesUp
\* A page may come to rest: no request is left, all figures are drawn.
CHECK_DEADLOCK FALSE
