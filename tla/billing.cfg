\* Every tariff of three prices over a day of three hours, sessions across midnight.
CONSTANTS
  None = None
  Hours = 3
  Hour = 12
  Tick = 6
  Cent = 12
  Prices = {1, 2, 3}
  Targets = {5, 32}
  MaxTime = 42
  MaxBudget = 84
SPECIFICATION Spec
INVARIANT MeterExact
PROPERTY ReadingsOnlyGrow
\* The instance ends when its time and funds do.
CHECK_DEADLOCK FALSE
