\* Two connections to the database for each login; three tasks that ask for maps,
\* two connections that maintain a station.
CONSTANTS
  MaxTime = 4
  None = None
  Sessions = {s1, s2}
  Phones = {p1}
  Accounts = {a1}
  Codes = {k1, k2}
  Resend = 2
  ValidFor = 3
  MaxAttempts = 2
  MaxIssues = 2
  Consoles = {d1, d2}
  MaxFailures = 2
  LockFor = 2
  MaxTries = 5
  Tasks = {t1, t2, t3}
  Urls = {w1, w2, w3}
  FreshFor = 3
  Distance = 2
  CacheLimit = 1
  Workers = {m1, m2}
  Stations = {g1}
  Chargers = {c1, c2}
  Users = {u1}
SPECIFICATION Spec
SYMMETRY Symmetry
INVARIANTS
  CodesHonoured
  GuessesSpaced
  ReferencesHold
PROPERTIES
  CodesSpaced
  AskedSparingly
\* The clock stops.
CHECK_DEADLOCK FALSE
