\* Two subjects on one desktop, with two login dialogs open.
CONSTANTS
  MaxEvents = 0
  PageLimit = 1
  Window = "user"
  Users = {u1, u2}
  Nobody = nobody
  PublicPaths = {stations}
  PrivatePaths = {me}
  MaxSessions = 2
  MaxDialogs = 2
  MaxFailures = 0
SPECIFICATION Spec
INVARIANTS
  StreamSupervised
  RoundsHeld
PROPERTIES
  OwnReplies
  RoundsEnd
