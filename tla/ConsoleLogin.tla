----------------------------- MODULE ConsoleLogin -----------------------------
(***************************************************************************)
(* admin_login on one account: the password is tried with the account's row *)
(* locked, and five wrong ones lock the account for a while.  A login that  *)
(* waits for the row has begun, as now() counts, before it tries.           *)
(***************************************************************************)
EXTENDS Clock, Null, Sequences, FiniteSetsExt

CONSTANTS
  Consoles,     \* connections that serve logins
  MaxFailures,  \* 5 wrong passwords
  LockFor,      \* 30 seconds
  MaxTries      \* bound on the wrong passwords since a login succeeded

ASSUME ConsoleLoginAssumption ==
  /\ {MaxFailures, LockFor} \subseteq Nat \ {0} /\ MaxTries \in Nat
  /\ None \notin Nat

VARIABLES
  admin,  \* failed_attempts and locked_until of the admin_account row
  began,  \* when the login each connection serves began, or None
  tries   \* the wrong passwords tried since the last login

consoleVars == <<admin, began, tries>>

ConsoleInit ==
  /\ admin = [attempts |-> 0, lockedUntil |-> None]
  /\ began = [c \in Consoles |-> None]
  /\ tries = <<>>

BeginLogin(c) ==
  /\ began[c] = None
  /\ began' = [began EXCEPT ![c] = now]
  /\ UNCHANGED <<admin, tries>>

Locked == admin.lockedUntil # None /\ admin.lockedUntil > now

\* Mutant: the account is locked by the wrong password after the fifth.
FailedOver(c, attempts) ==
  [attempts |-> attempts,
   lockedUntil |-> IF admin.attempts >= MaxFailures THEN began[c] + LockFor ELSE None]

\* The row after a wrong password.
Failed(c, attempts) ==
  [attempts |-> attempts,
   lockedUntil |-> IF attempts >= MaxFailures THEN began[c] + LockFor ELSE None]

\* A lock that has passed starts the count again.
Attempts ==
  IF admin.lockedUntil # None THEN 1 ELSE Min({admin.attempts + 1, MaxFailures})

Done(c) == began[c] # None /\ began' = [began EXCEPT ![c] = None]

RefuseLocked(c) ==
  /\ Done(c) /\ Locked
  /\ UNCHANGED <<admin, tries>>

WrongPassword(c) ==
  /\ Done(c) /\ ~Locked /\ Len(tries) < MaxTries
  /\ admin' = Failed(c, Attempts)
  /\ tries' = Append(tries, [began |-> began[c], at |-> now])

RightPassword(c) ==
  /\ Done(c) /\ ~Locked
  /\ admin' = [attempts |-> 0, lockedUntil |-> None]
  /\ tries' = <<>>

ConsoleStep ==
  \E c \in Consoles :
    BeginLogin(c) \/ RefuseLocked(c) \/ WrongPassword(c) \/ RightPassword(c)
-----------------------------------------------------------------------------
\* At most five wrong passwords sent within the lock time of each other are
\* ever tried: the sixth waits until the lock that one of the five set, which
\* counts from the moment that login was sent, has passed.  And the account is
\* locked only by five wrong passwords of its own: those before an earlier
\* lock, or before a login that succeeded, do not count again.
GuessesSpaced ==
  /\ \A i \in 1 .. Len(tries) - MaxFailures :
       tries[i + MaxFailures].at
         >= LockFor + Min({tries[j].began : j \in i .. i + MaxFailures - 1})
  /\ admin.lockedUntil # None => tries # <<>> /\ Len(tries) % MaxFailures = 0
=============================================================================
