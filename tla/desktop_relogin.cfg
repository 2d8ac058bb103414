\* A login dialog left open while the console logs itself in through /auth/console.
CONSTANTS
  MaxEvents = 1
  PageLimit = 1
  Window = "admin"
  Users = {u1}
  Nobody = nobody
  PublicPaths = {}
  PrivatePaths = {me}
  MaxSessions = 2
  MaxDialogs = 1
  MaxFailures = 0
SPECIFICATION Spec
PROPERTY RoundsEnd
\* Nobody is logged in and no login is left: the window waits for its user.
CHECK_DEADLOCK FALSE
