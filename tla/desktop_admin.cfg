\* The administrator's window.
CONSTANTS
  MaxEvents = 2
  PageLimit = 1
  Window = "admin"
  Users = {u1}
  Nobody = nobody
  PublicPaths = {}
  PrivatePaths = {me, chargers}
  MaxSessions = 1
  MaxDialogs = 0
  MaxFailures = 1
SPECIFICATION Spec
PROPERTIES
  CaughtUp
  PagesComplete
  SettledFed
\* Nobody is logged in and no login is left: the window waits for its user.
CHECK_DEADLOCK FALSE
