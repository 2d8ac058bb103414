-------------------------------- MODULE SignIn --------------------------------
(***************************************************************************)
(* Sign-in of users by one-time codes, statement by statement, beside the  *)
(* commands of an administrator on the same app_user rows.                 *)
(*                                                                         *)
(* SELECT ... FOR UPDATE locks the row it finds, and nothing when it finds *)
(* none: two first requests for a phone both go on to insert.  A statement *)
(* that waited for a row sees the row as it is then, or none if it was     *)
(* deleted meanwhile, even if another one has been inserted.               *)
(***************************************************************************)
EXTENDS Clock, Null

CONSTANTS
  Sessions,     \* database connections
  Phones,       \* phones that sign in
  Accounts,     \* primary keys of app_user
  Codes,        \* what new_otp_code() may draw; one code in development
  Resend,       \* 60 seconds
  ValidFor,     \* 5 minutes
  MaxAttempts,  \* 5 wrong codes
  MaxIssues     \* bound on the codes issued

ASSUME SignInAssumption ==
  /\ {Resend, ValidFor, MaxAttempts} \subseteq Nat \ {0} /\ MaxIssues \in Nat
  /\ None \notin Sessions \cup Phones \cup Accounts \cup Codes /\ None \notin Nat

VARIABLES
  challenge,  \* otp_challenge by phone
  appUser,    \* app_user by id: its phone, its status and whether it is referenced
  holder,     \* the session that has locked the challenge of a phone, or None
  login,      \* what each session is doing
  issues,     \* codes issued so far; a code is known by its number
  wrong,      \* wrong guesses made against each code
  redeemed    \* sign-ins made with each code

accounts == <<challenge, appUser>>
history == <<issues, wrong, redeemed>>
signInVars == <<accounts, holder, login, history>>

Issues == 1 .. MaxIssues
Absent == [status |-> "absent", phone |-> None, used |-> FALSE]
Idle == [op |-> "none", at |-> "none", phone |-> None, row |-> None, began |-> 0,
         guess |-> None, issue |-> 0]

SignInInit ==
  /\ challenge = [p \in Phones |-> None]
  /\ appUser = [a \in Accounts |-> Absent]
  /\ holder = [p \in Phones |-> None]
  /\ login = [s \in Sessions |-> Idle]
  /\ issues = 0
  /\ wrong = [i \in Issues |-> 0] /\ redeemed = [i \in Issues |-> 0]
-----------------------------------------------------------------------------
(* Rows and transactions. *)

\* Which row a statement that begins now will find: rows keep the number of the
\* code they were inserted with.
RowOf(p) == IF challenge[p] = None THEN None ELSE challenge[p].row

Begin(s, x) ==
  /\ login[s] = Idle
  /\ login' = [login EXCEPT ![s] = x]
  /\ UNCHANGED <<accounts, holder, history>>

End(s) ==
  /\ login' = [login EXCEPT ![s] = Idle]
  /\ holder' = [p \in Phones |-> IF holder[p] = s THEN None ELSE holder[p]]

\* A DomainError, or a violated unique index: nothing is written.
Refuse(s) == End(s) /\ UNCHANGED <<accounts, history>>

\* The row that SELECT ... FOR UPDATE returns to x, which no one else has locked.
Found(x) == IF RowOf(x.phone) = x.row THEN challenge[x.phone] ELSE None

\* Mutant: SELECT without FOR UPDATE.
GrantedAlways(s) == login[s].at = "select"

Granted(s) ==
  /\ login[s].at = "select"
  /\ Found(login[s]) # None => holder[login[s].phone] = None

\* Session s goes on, with the row it found locked.
Locking(s, at) ==
  LET x == login[s]
      c == Found(x)
  IN  IF c = None THEN login' = [login EXCEPT ![s].at = at] /\ UNCHANGED holder
      ELSE /\ login' = [login EXCEPT ![s].at = at, ![s].issue = c.issue]
           /\ holder' = [holder EXCEPT ![x.phone] = s]
-----------------------------------------------------------------------------
(* request_otp *)

BeginRequest(s, p) ==
  Begin(s, [Idle EXCEPT !.op = "request", !.at = "select", !.phone = p,
                        !.row = RowOf(p), !.began = now])

\* Mutant: no limit on how often a code is sent.
TooSoonNever(row) == FALSE

TooSoon(row) == row # None /\ row.created > now - Resend

SelectRequest(s) ==
  /\ Granted(s) /\ login[s].op = "request"
  /\ IF TooSoon(Found(login[s])) THEN Refuse(s)
     ELSE Locking(s, "upsert") /\ UNCHANGED <<accounts, history>>

\* The row that a transaction which began at that time writes: now() is the
\* time it began; since is when others can see it.
Issued(p, began, code) ==
  [row |-> IF challenge[p] = None THEN issues + 1 ELSE challenge[p].row,
   issue |-> issues + 1, code |-> code, created |-> began, since |-> now,
   expires |-> began + ValidFor, attempts |-> 0]

\* INSERT ... ON CONFLICT (phone) DO UPDATE, and the commit.
Upsert(s) ==
  LET p == login[s].phone
  IN  /\ login[s].at = "upsert" /\ holder[p] \in {None, s}
      /\ issues < MaxIssues /\ issues' = issues + 1
      /\ \E code \in Codes :
           challenge' = [challenge EXCEPT ![p] = Issued(p, login[s].began, code)]
      /\ End(s)
      /\ UNCHANGED <<appUser, wrong, redeemed>>
-----------------------------------------------------------------------------
(* verify_otp *)

BeginVerify(s, p, guess) ==
  Begin(s, [Idle EXCEPT !.op = "verify", !.at = "select", !.phone = p,
                        !.row = RowOf(p), !.began = now, !.guess = guess])

Registered(p) == {a \in Accounts : appUser[a].status # "absent" /\ appUser[a].phone = p}

\* The challenge, and for a right code the user it belongs to.
SelectVerify(s) ==
  LET x == login[s]
      c == Found(x)
  IN  /\ Granted(s) /\ x.op = "verify"
      /\ \/ c = None /\ Refuse(s)
         \/ /\ c # None /\ c.expires <= now
            /\ challenge' = [challenge EXCEPT ![x.phone] = None]
            /\ End(s) /\ UNCHANGED <<appUser, history>>
         \/ c # None /\ c.expires > now /\ c.attempts >= MaxAttempts /\ Refuse(s)
         \/ /\ c # None /\ c.expires > now /\ c.attempts < MaxAttempts
            /\ x.guess # c.code
            /\ challenge' = [challenge EXCEPT ![x.phone].attempts = @ + 1]
            /\ wrong' = [wrong EXCEPT ![c.issue] = @ + 1]
            /\ End(s) /\ UNCHANGED <<appUser, issues, redeemed>>
         \/ /\ c # None /\ c.expires > now /\ c.attempts < MaxAttempts
            /\ x.guess = c.code
            /\ \/ /\ \A a \in Registered(x.phone) : appUser[a].status = "active"
                  /\ Locking(s, IF Registered(x.phone) = {} THEN "insert" ELSE "signin")
                  /\ UNCHANGED <<accounts, history>>
               \/ /\ \E a \in Registered(x.phone) : appUser[a].status = "frozen"
                  /\ Refuse(s)

\* The challenge is deleted in the transaction that signs the user in.
Redeem(s) ==
  /\ challenge' = [challenge EXCEPT ![login[s].phone] = None]
  /\ redeemed' = [redeemed EXCEPT ![login[s].issue] = @ + 1]
  /\ End(s) /\ UNCHANGED <<issues, wrong>>

SignIn(s) ==
  /\ login[s].at = "signin"
  /\ Redeem(s) /\ UNCHANGED appUser

\* The first sign-in of a phone; the unique index on phone may refuse the row.
Register(s) ==
  LET p == login[s].phone
  IN  /\ login[s].at = "insert"
      /\ IF Registered(p) # {} THEN Refuse(s)
         ELSE \E a \in Accounts :
                /\ appUser[a] = Absent
                /\ appUser' = [appUser EXCEPT ![a] = [status |-> "active", phone |-> p,
                                                      used |-> FALSE]]
                /\ Redeem(s)
-----------------------------------------------------------------------------
(* Commands of the administrator, each one statement or one row, and the   *)
(* first use of an account, a recharge.                                    *)

Unchanged == UNCHANGED <<challenge, holder, login, history>>

UserSave(a, phone) ==
  /\ phone \in Phones => Registered(phone) \subseteq {a}
  /\ appUser' = [appUser EXCEPT ![a] =
       IF @ = Absent THEN [status |-> "active", phone |-> phone, used |-> FALSE]
       ELSE [@ EXCEPT !.phone = phone]]
  /\ Unchanged

UserDelete(a) ==
  /\ appUser[a].status # "absent" /\ ~appUser[a].used
  /\ appUser' = [appUser EXCEPT ![a] = Absent]
  /\ Unchanged

SetUserStatus(a, status) ==
  /\ appUser[a].status # "absent"
  /\ appUser' = [appUser EXCEPT ![a].status = status]
  /\ Unchanged

Use(a) ==
  /\ appUser[a].status # "absent" /\ ~appUser[a].used
  /\ appUser' = [appUser EXCEPT ![a].used = TRUE]
  /\ Unchanged
-----------------------------------------------------------------------------
SignInStep ==
  \/ \E s \in Sessions :
       \/ \E p \in Phones : BeginRequest(s, p) \/ \E g \in Codes : BeginVerify(s, p, g)
       \/ SelectRequest(s) \/ Upsert(s)
       \/ SelectVerify(s) \/ SignIn(s) \/ Register(s)
  \/ \E a \in Accounts :
       \/ \E phone \in Phones \cup {None} : UserSave(a, phone)  \* None: a phone not looked at
       \/ UserDelete(a) \/ Use(a)
       \/ \E status \in {"active", "frozen"} : SetUserStatus(a, status)
=============================================================================
