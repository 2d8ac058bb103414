----------------------------- MODULE Maintenance -----------------------------
(***************************************************************************)
(* The commands that create and delete stations, chargers and users beside *)
(* those that begin to refer to them.  A transaction locks the rows it     *)
(* names, looks for references in a later statement, and writes in a third. *)
(* Rows of orders, of the ledger and of withdrawals are never deleted.     *)
(***************************************************************************)
EXTENDS Null, Naturals, Sequences

CONSTANTS
  Workers,                   \* database connections
  Stations, Chargers, Users  \* primary keys: UUIDs, never drawn again

ASSUME MaintenanceAssumption ==
  /\ None \notin Workers \cup Stations \cup Chargers \cup Users
  /\ Stations \cap (Chargers \cup Users) = {} /\ Chargers \cap Users = {}

VARIABLES
  stations,  \* the rows of station
  home,      \* the station of each row of charger, None where there is none
  users,     \* the rows of app_user
  spent,     \* primary keys used so far
  orders,    \* the user and the charger of each row of charging_order
  funded,    \* the users whose balance is not zero
  entries,   \* the users that rows of wallet_entry name
  requests,  \* the users that rows of withdrawal_request name
  locked,    \* the worker that has locked each row, or None
  job        \* the command of each worker, the rows it has yet to lock, its next statement

tables == <<stations, home, users, spent, orders, funded, entries, requests>>
maintenanceVars == <<tables, locked, job>>

Rows == Stations \cup Chargers \cup Users
NoJob == [op |-> "none", names |-> <<>>, rows |-> <<>>, at |-> "none"]

MaintenanceInit ==
  /\ stations = {} /\ users = {} /\ spent = {} /\ orders = {}
  /\ home = [c \in Chargers |-> None]
  /\ funded = {} /\ entries = {} /\ requests = {}
  /\ locked = [r \in Rows |-> None]
  /\ job = [w \in Workers |-> NoJob]
-----------------------------------------------------------------------------
(* Commands that nothing can refer to yet: one step.                       *)

\* create_station, with its first chargers in the same transaction.
CreateStation(st, initial) ==
  /\ ({st} \cup initial) \cap spent = {}
  /\ spent' = spent \cup {st} \cup initial
  /\ stations' = stations \cup {st}
  /\ home' = [c \in Chargers |-> IF c \in initial THEN st ELSE home[c]]
  /\ UNCHANGED <<users, orders, funded, entries, requests, locked, job>>

\* user_save, or the first sign-in of a phone.
CreateUser(u) ==
  /\ u \notin spent /\ spent' = spent \cup {u}
  /\ users' = users \cup {u}
  /\ UNCHANGED <<stations, home, orders, funded, entries, requests, locked, job>>
-----------------------------------------------------------------------------
(* The other commands: submit, lock the rows in order, look, write.        *)

Submit(w, op, names) ==
  /\ job[w] = NoJob
  /\ job' = [job EXCEPT ![w] = [op |-> op, names |-> names, rows |-> names, at |-> "lock"]]
  /\ UNCHANGED <<tables, locked>>

SubmitAny(w) ==
  \/ \E st \in Stations, op \in {"delete_station", "create_charger"} : Submit(w, op, <<st>>)
  \/ \E c \in Chargers : Submit(w, "delete_charger", <<c>>)
  \/ \E u \in Users, op \in {"user_delete", "recharge", "spend", "withdraw"} :
       Submit(w, op, <<u>>)
  \/ \E u \in Users, c \in Chargers : Submit(w, "reserve", <<u, c>>)

Exists(r) == r \in stations \cup users \/ (r \in Chargers /\ home[r] # None)

Finish(w) ==
  /\ job' = [job EXCEPT ![w] = NoJob]
  /\ locked' = [r \in Rows |-> IF locked[r] = w THEN None ELSE locked[r]]

\* Not found, or a conflict: nothing is written.
Reject(w) == Finish(w) /\ UNCHANGED tables

\* Mutant: create_charger reads its station without FOR UPDATE.
TakesUnlocked(w, r) ==
  IF job[w].op = "create_charger" THEN locked ELSE [locked EXCEPT ![r] = w]

\* The locks when worker w has read row r.
Takes(w, r) == [locked EXCEPT ![r] = w]

\* SELECT ... FOR UPDATE waits for the row, and finds nothing if it is gone then.
Lock(w) ==
  LET r == Head(job[w].rows)
      left == Tail(job[w].rows)
  IN  /\ job[w].at = "lock" /\ locked[r] = None
      /\ IF ~Exists(r) THEN Reject(w)
         ELSE /\ locked' = Takes(w, r)
              /\ job' = [job EXCEPT ![w].rows = left,
                                    ![w].at = IF left = <<>> THEN "look" ELSE "lock"]
              /\ UNCHANGED tables

\* Mutant: user_delete looks for orders alone.
UnusedByOrders(u) == u \notin {o.user : o \in orders}

\* user_delete does not look for withdrawals: who made one has a ledger entry.
Unused(u) == u \notin {o.user : o \in orders} \cup entries \cup funded

\* What the command asks of the tables once its rows are locked.
Allowed(op, r) ==
  \/ op = "delete_station" /\ \A c \in Chargers : home[c] # r
  \/ op = "delete_charger" /\ \A o \in orders : o.charger # r
  \/ op = "user_delete" /\ Unused(r)
  \/ op \in {"spend", "withdraw", "reserve"} /\ r \in funded
  \/ op \in {"create_charger", "recharge"}

Look(w) ==
  /\ job[w].at = "look"
  /\ IF Allowed(job[w].op, Head(job[w].names))
     THEN job' = [job EXCEPT ![w].at = "write"] /\ UNCHANGED <<tables, locked>>
     ELSE Reject(w)

DeleteStation(w) ==
  /\ job[w].at = "write" /\ job[w].op = "delete_station"
  /\ stations' = stations \ {Head(job[w].names)}
  /\ Finish(w) /\ UNCHANGED <<home, users, spent, orders, funded, entries, requests>>

CreateCharger(w) ==
  /\ job[w].at = "write" /\ job[w].op = "create_charger"
  /\ \E c \in Chargers \ spent :
       /\ home' = [home EXCEPT ![c] = Head(job[w].names)]
       /\ spent' = spent \cup {c}
  /\ Finish(w) /\ UNCHANGED <<stations, users, orders, funded, entries, requests>>

DeleteCharger(w) ==
  /\ job[w].at = "write" /\ job[w].op = "delete_charger"
  /\ home' = [home EXCEPT ![Head(job[w].names)] = None]
  /\ Finish(w) /\ UNCHANGED <<stations, users, spent, orders, funded, entries, requests>>

DeleteUser(w) ==
  /\ job[w].at = "write" /\ job[w].op = "user_delete"
  /\ users' = users \ {Head(job[w].names)}
  /\ Finish(w) /\ UNCHANGED <<stations, home, spent, orders, funded, entries, requests>>

\* recharge, and what takes money out: pay, a payout or an adjustment.
Move(w) ==
  LET u == Head(job[w].names)
  IN  /\ job[w].at = "write"
      /\ \/ job[w].op = "recharge" /\ funded' = funded \cup {u}
         \/ job[w].op = "spend" /\ funded' \in {funded, funded \ {u}}
      /\ entries' = entries \cup {u}
      /\ Finish(w) /\ UNCHANGED <<stations, home, users, spent, orders, requests>>

Withdraw(w) ==
  /\ job[w].at = "write" /\ job[w].op = "withdraw"
  /\ requests' = requests \cup {Head(job[w].names)}
  /\ Finish(w) /\ UNCHANGED <<stations, home, users, spent, orders, funded, entries>>

Reserve(w) ==
  /\ job[w].at = "write" /\ job[w].op = "reserve"
  /\ orders' = orders \cup {[user |-> job[w].names[1], charger |-> job[w].names[2]]}
  /\ Finish(w) /\ UNCHANGED <<stations, home, users, spent, funded, entries, requests>>

MaintenanceStep ==
  \/ \E st \in Stations, initial \in SUBSET Chargers : CreateStation(st, initial)
  \/ \E u \in Users : CreateUser(u)
  \/ \E w \in Workers :
       \/ SubmitAny(w) \/ Lock(w) \/ Look(w)
       \/ DeleteStation(w) \/ CreateCharger(w) \/ DeleteCharger(w) \/ DeleteUser(w)
       \/ Move(w) \/ Withdraw(w) \/ Reserve(w)

MaintenanceSpec == MaintenanceInit /\ [][MaintenanceStep]_maintenanceVars
-----------------------------------------------------------------------------
\* The foreign keys of the schema are never what stops a command: every row
\* that another row names exists when the command commits.
ReferencesHold ==
  /\ \A c \in Chargers : home[c] \in stations \cup {None}
  /\ \A o \in orders : o.user \in users /\ home[o.charger] # None
  /\ entries \cup requests \subseteq users
=============================================================================
