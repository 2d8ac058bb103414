----------------------------- MODULE ChargingTx -----------------------------
(***************************************************************************)
(* The commands of ChargingCore as PostgreSQL transactions: each SELECT    *)
(* ... FOR UPDATE is a step that waits for its row, decisions are taken on *)
(* the rows as they were read, and the writes appear at the commit.  The   *)
(* tables of ChargingCore are the committed state, so a correct locking    *)
(* discipline makes every commit one of its commands (RefinesCore in       *)
(* module ChargingTxProperties).                                           *)
(*                                                                         *)
(* The last lock a transaction takes and its commit are one step: after it *)
(* the transaction waits for nothing.  Commands that lock a single row are *)
(* therefore one step, the action of ChargingCore with the row free.       *)
(* The database is modelled from how the code uses it: an exclusive lock   *)
(* per row, FIFO waiting, and the abort of one transaction of a deadlock.  *)
(* The insertion into domain_event that ends every command takes a share   *)
(* lock on the user row, which waits for another session's FOR UPDATE.     *)
(***************************************************************************)
EXTENDS ChargingCore

CONSTANTS
  Sessions,       \* connections serving users and administrators
  Coordinator,    \* the connection of the background task
  Requests,       \* what reserve may be sent: None or members of SocRequests
  Statuses,       \* what an administrator may set a user or a charger to
  MaxCalls        \* bound: how many of the multi-statement commands arrive

ASSUME SessionsAssumption ==
  /\ Coordinator \notin Sessions /\ None \notin Sessions \cup {Coordinator}
  /\ Users \cap Orders = {} /\ Users \cap Chargers = {} /\ Orders \cap Chargers = {}
  /\ Requests \subseteq SocRequests \cup {None}
  /\ Statuses \subseteq {"active", "frozen", "available", "faulted"}
  /\ MaxCalls \in Nat

VARIABLES
  lock,        \* the session that holds a row FOR UPDATE, or None
  session,     \* the transaction each session runs: its arguments and reads
  delivered,   \* energy each order has been delivered, one unit per cent
  phase,       \* the coordinator: "sleep", "expire" or "settle"
  todo,        \* the orders of the list the coordinator is working through
  calls        \* commands that have arrived

txVars == <<lock, session, delivered, phase, todo, calls>>
allVars == <<vars, txVars>>

Rows == Users \cup Orders \cup Chargers
Workers == Sessions \cup {Coordinator}

Idle == [op |-> "none", at |-> "none", user |-> None, order |-> None,
         charger |-> None, key |-> None, request |-> None, admin |-> FALSE,
         seen |-> 0, reason |-> None, old |-> None, urow |-> None, orow |-> None]

TxInit ==
  /\ Init
  /\ lock = [r \in Rows |-> None]
  /\ session = [s \in Workers |-> Idle]
  /\ delivered = [o \in Orders |-> 0]
  /\ phase = "sleep" /\ todo = {} /\ calls = 0
-----------------------------------------------------------------------------
(* Rows and transactions. *)

Free(s, r) == lock[r] \in {None, s}

\* Session s goes on with x and holds row r.
TakeRow(s, r, x) ==
  /\ lock' = [lock EXCEPT ![r] = s]
  /\ session' = [session EXCEPT ![s] = x]

\* The transaction of s ends, by commit or rollback, and drops its locks.
End(s) ==
  /\ lock' = [r \in Rows |-> IF lock[r] = s THEN None ELSE lock[r]]
  /\ session' = [session EXCEPT ![s] = Idle]

\* Mutant: a refused command returns its connection with the transaction open.
RefuseOpen(s) ==
  /\ session' = [session EXCEPT ![s] = Idle]
  /\ UNCHANGED <<vars, lock, delivered, phase, todo, calls>>

\* A DomainError, or an answer that changes nothing.
Refuse(s) == End(s) /\ UNCHANGED <<vars, delivered, phase, todo, calls>>

Hold(s, r, x) ==
  TakeRow(s, r, x) /\ UNCHANGED <<vars, delivered, phase, todo, calls>>

\* One command at a time per session; what it is given is in the record.
Begin(s, x) ==
  /\ session[s] = Idle /\ calls < MaxCalls
  /\ session' = [session EXCEPT ![s] = x]
  /\ calls' = calls + 1
  /\ UNCHANGED <<vars, lock, delivered, phase, todo>>

\* reserve looks its key up before it locks anything; uuid4() is new.
BeginReserve(s, u, c, k, request) ==
  \E o \in Orders :
    /\ FreshKey(u, k)
    /\ chargingOrder[o].status = "none" /\ \A t \in Workers : session[t].order # o
    /\ Begin(s, [Idle EXCEPT !.op = "reserve", !.at = "user", !.user = u,
                 !.charger = c, !.key = k, !.request = request, !.order = o])

\* start and pay lock the user first; an administrator may issue them too.
BeginStart(s, u, o, admin) ==
  /\ chargingOrder[o].user = u
  /\ Begin(s, [Idle EXCEPT !.op = "start", !.at = "user", !.user = u, !.order = o,
                           !.admin = admin])

BeginPay(s, u, o) ==
  /\ chargingOrder[o].user = u
  /\ Begin(s, [Idle EXCEPT !.op = "pay", !.at = "user", !.user = u, !.order = o])

\* stop reads the owner, and now() is the moment its transaction begins.
BeginStop(s, u, o) ==
  /\ chargingOrder[o].user = u
  /\ Begin(s, [Idle EXCEPT !.op = "settle", !.at = "user", !.user = u, !.order = o,
                           !.seen = delivered[o], !.reason = "user_stopped"])

BeginCancel(s, u, o) ==
  /\ chargingOrder[o].user = u
  /\ Begin(s, [Idle EXCEPT !.op = "cancel", !.at = "order", !.user = u, !.order = o,
                           !.reason = "user_cancelled"])
-----------------------------------------------------------------------------
(* The statements that lock a row. *)

\* Mutant: reserve trusts the lookup it made before it had the user row.
AdmitsUnchecked(x) ==
  CASE x.op = "reserve" -> MayBegin(x.user)
    [] x.op = "start"   -> appUser[x.user].status = "active"
    [] OTHER            -> TRUE

\* The checks made on the user row as soon as it is read.
Admits(x) ==
  CASE x.op = "reserve" -> FreshKey(x.user, x.key) /\ MayBegin(x.user)
    [] x.op = "start"   -> appUser[x.user].status = "active"
    [] OTHER            -> TRUE

\* Mutant: the user row is read without FOR UPDATE.
LockUserPlain(s) ==
  LET x == session[s]
  IN  /\ x.at = "user" /\ Free(s, x.user) /\ Admits(x)
      /\ session' = [session EXCEPT ![s] =
           [x EXCEPT !.at = IF x.op = "reserve" THEN "active" ELSE "order",
                     !.urow = appUser[x.user]]]
      /\ UNCHANGED <<vars, lock, delivered, phase, todo, calls>>

\* SELECT ... FROM app_user WHERE id = ... FOR UPDATE
LockUser(s) ==
  LET x == session[s]
  IN  /\ x.at = "user" /\ Free(s, x.user)
      /\ IF Admits(x)
         THEN Hold(s, x.user,
                [x EXCEPT !.at = IF x.op = "reserve" THEN "active" ELSE "order",
                          !.urow = appUser[x.user]])
         ELSE Refuse(s)

\* SELECT ... WHERE user_id = ... AND status IN (...) FOR UPDATE: no row, or
\* the row of a lapsed reservation, which is cancelled, or a refusal.
LockActive(s) ==
  LET x == session[s]
  IN  /\ x.at = "active"
      /\ \/ /\ ActiveOrders(chargingOrder, x.user) = {}
            /\ session' = [session EXCEPT ![s].at = "charger"]
            /\ UNCHANGED <<vars, lock, delivered, phase, todo, calls>>
         \/ \E old \in ActiveOrders(chargingOrder, x.user) :
              /\ Free(s, old)
              /\ IF chargingOrder[old].status = "reserved" /\ chargingOrder[old].lapsed
                 THEN Hold(s, old, [x EXCEPT !.at = "old", !.old = old,
                                               !.orow = chargingOrder[old]])
                 ELSE Refuse(s)

\* _cancel_reserved inside reserve: UPDATE charger ... takes the old charger.
LockOld(s) ==
  LET x == session[s]
  IN  /\ x.at = "old" /\ Free(s, x.orow.charger)
      /\ Hold(s, x.orow.charger, [x EXCEPT !.at = "charger"])

\* The checks made on the order row as soon as it is read.
Accepts(x, row) ==
  CASE x.op = "start"  -> /\ row.user = x.user /\ row.status = "reserved"
                          /\ x.urow.balance - x.urow.held >= MinimumStart
    [] x.op = "cancel" -> row.user = x.user /\ row.status = "reserved"
    [] x.op = "settle" -> row.status = "charging"
    [] OTHER           -> FALSE

\* SELECT * FROM charging_order WHERE id = ... FOR UPDATE, by start, cancel and
\* _settle; the charger is next.
LockOrder(s) ==
  LET x   == session[s]
      row == chargingOrder[x.order]
  IN  /\ x.at = "order" /\ x.op # "pay" /\ Free(s, x.order)
      /\ IF Accepts(x, row)
         THEN Hold(s, x.order, [x EXCEPT !.at = "charger", !.orow = row])
         ELSE Refuse(s)

\* _cancel_reserved by cancel and by the coordinator: the charger, and then
\* the share lock of the event on the user.
LockCharger(s) ==
  LET x == session[s]
  IN  /\ x.at = "charger" /\ x.op \in {"cancel", "expire"}
      /\ Free(s, x.orow.charger)
      /\ Hold(s, x.orow.charger, [x EXCEPT !.at = "event"])
-----------------------------------------------------------------------------
(* The last statements and the commit. *)

Commit(s) == End(s) /\ UNCHANGED <<delivered, phase, todo, calls>>

\* The two updates of _cancel_reserved, each with its own WHERE.
Cancelling(orders, o, reason) ==
  IF orders[o].status = "reserved" THEN Cancelled(orders, o, reason) ELSE orders

\* The tables as reserve sees them: with its own cancellation, if it made one.
OwnOrders(x) ==
  IF x.old = None THEN chargingOrder
  ELSE Cancelling(chargingOrder, x.old, "reservation_expired")

OwnChargers(x) ==
  IF x.old = None THEN charger ELSE Released(charger, x.orow.charger)

\* reserve: SELECT ... FROM charger ... FOR UPDATE, the insert and the commit.
CommitReserve(s) ==
  LET x       == session[s]
      initial == IF x.urow.plate # None \/ x.request = None
                 THEN x.urow.soc ELSE x.request.soc
      target  == IF x.request = None THEN x.urow.limit ELSE x.request.target
  IN  /\ x.at = "charger" /\ x.op = "reserve" /\ Free(s, x.charger)
      /\ IF OwnChargers(x)[x.charger].status = "available" /\ initial < target
         THEN /\ chargingOrder' = [OwnOrders(x) EXCEPT ![x.order] =
                   [status |-> "reserved", user |-> x.user, charger |-> x.charger,
                    key |-> x.key, lapsed |-> FALSE, plate |-> x.urow.plate,
                    initial |-> initial, target |-> target - initial,
                    energy |-> 0, amount |-> 0, reason |-> None]]
              /\ charger' = [OwnChargers(x) EXCEPT ![x.charger].status = "reserved"]
              /\ UNCHANGED <<appUser, walletEntry, withdrawalRequest>>
              /\ Commit(s)
         ELSE Refuse(s)

\* start: the charger follows the order.  On a lapsed reservation the
\* cancellation is committed, unless an administrator's transaction around it
\* rolls back with the refusal.
CommitStart(s) ==
  LET x == session[s]
  IN  /\ x.at = "charger" /\ x.op = "start" /\ Free(s, x.orow.charger)
      /\ IF x.orow.lapsed /\ x.admin THEN Refuse(s)
         ELSE /\ IF x.orow.lapsed
                 THEN /\ chargingOrder' =
                           Cancelling(chargingOrder, x.order, "reservation_expired")
                      /\ charger' = Released(charger, x.orow.charger)
                 ELSE /\ chargingOrder' =
                           [chargingOrder EXCEPT ![x.order].status = "charging"]
                      /\ charger' =
                           [charger EXCEPT ![x.orow.charger].status = "charging"]
              /\ UNCHANGED <<appUser, walletEntry, withdrawalRequest>>
              /\ Commit(s)

\* cancel and the coordinator's expiry, once the event has its user.
CommitCancel(s) ==
  LET x == session[s]
  IN  /\ x.at = "event" /\ Free(s, x.orow.user)
      /\ chargingOrder' = Cancelling(chargingOrder, x.order, x.reason)
      /\ charger' = Released(charger, x.orow.charger)
      /\ UNCHANGED <<appUser, walletEntry, withdrawalRequest>>
      /\ Commit(s)

\* Mutant: the target is reached only when it is exceeded.
MeterPast(row, energy, budget) ==
  LET full == energy > row.target
      want == IF full THEN row.target ELSE energy
  IN  IF want >= budget
      THEN [energy |-> budget, amount |-> budget, cap |-> "balance_exhausted"]
      ELSE [energy |-> want, amount |-> want,
            cap |-> IF full THEN "target_reached" ELSE None]

\* meter, for a price of one cent a unit and a user with a budget.
Meter(row, energy, budget) ==
  LET full == energy >= row.target
      want == IF full THEN row.target ELSE energy
  IN  IF want >= budget
      THEN [energy |-> budget, amount |-> budget, cap |-> "balance_exhausted"]
      ELSE [energy |-> want, amount |-> want,
            cap |-> IF full THEN "target_reached" ELSE None]

\* _settle: the invoice, from the rows it read and the time it began.
CommitSettle(s) ==
  LET x == session[s]
      u == x.orow.user
      c == x.orow.charger
      b == Meter(x.orow, x.seen, x.urow.balance - x.urow.held)
  IN  /\ x.at = "charger" /\ x.op = "settle" /\ Free(s, c)
      /\ chargingOrder' = [chargingOrder EXCEPT ![x.order] =
           [@ EXCEPT !.status = "pending_payment", !.energy = b.energy,
                     !.amount = b.amount,
                     !.reason = IF b.cap # None THEN b.cap ELSE x.reason]]
      /\ charger' = [charger EXCEPT ![c] =
           [@ EXCEPT !.status = "available", !.sessions = charger[c].sessions + 1]]
      /\ appUser' = [appUser EXCEPT ![u] =
           [@ EXCEPT !.held = appUser[u].held + b.amount,
                     !.soc = IF x.urow.plate = x.orow.plate
                             THEN x.orow.initial + b.energy ELSE appUser[u].soc]]
      /\ UNCHANGED <<walletEntry, withdrawalRequest>>
      /\ Commit(s)

\* pay: the order is its last lock; the balance it writes is the one it read.
CommitPay(s) ==
  LET x       == session[s]
      row     == chargingOrder[x.order]
      balance == x.urow.balance - row.amount
  IN  /\ x.at = "order" /\ x.op = "pay" /\ Free(s, x.order)
      /\ IF /\ row.user = x.user /\ row.status = "pending_payment"
            /\ x.urow.balance >= row.amount /\ x.urow.held >= row.amount
         THEN /\ appUser' = [appUser EXCEPT ![x.user] =
                   [@ EXCEPT !.balance = balance,
                             !.held = appUser[x.user].held - row.amount]]
              /\ IF row.amount > 0
                 THEN Post(x.user, Entry(x.order, "charge", -row.amount, balance, x.order))
                 ELSE UNCHANGED walletEntry
              /\ chargingOrder' = [chargingOrder EXCEPT ![x.order].status = "completed"]
              /\ UNCHANGED <<charger, withdrawalRequest>>
              /\ Commit(s)
         ELSE Refuse(s)

Statement(s) ==
  \/ LockUser(s) \/ LockActive(s) \/ LockOld(s) \/ LockOrder(s) \/ LockCharger(s)
  \/ CommitReserve(s) \/ CommitStart(s) \/ CommitCancel(s) \/ CommitSettle(s)
  \/ CommitPay(s)
-----------------------------------------------------------------------------
(* Commands that lock one row, or none that another session locks first.   *)

Unlocked(r) == lock[r] = None

OneRowStep ==
  /\ UNCHANGED txVars
  /\ \/ \E u \in {v \in Users : Unlocked(v)} :
          \/ \E k \in Keys, a \in Amounts :
               Recharge(u, k, a) \/ \E w \in Withdrawals : Withdraw(u, k, a, w)
          \/ \E profile \in Profiles : SaveVehicle(u, profile)
          \/ \E k \in Keys, a \in Adjustments :
               \/ Adjust(u, k, a)
               \/ \E o \in {p \in Orders : Unlocked(p)} : Refund(u, k, o, a)
          \/ \E status \in Statuses \cap {"active", "frozen"} : SetUserStatus(u, status)
     \/ \E w \in Withdrawals :
          /\ withdrawalRequest[w].user \in Users /\ Unlocked(withdrawalRequest[w].user)
          /\ ApproveWithdrawal(w) \/ RejectWithdrawal(w)
     \/ \E c \in {d \in Chargers : Unlocked(d)} :
          \/ \E status \in Statuses \cap {"available", "faulted"} :
               SetChargerStatus(c, status)
          \/ \E power \in Powers : ChargerEdit(c, power)
          \/ RestartCharger(c)
-----------------------------------------------------------------------------
(* The coordinator: one pass of reconcile_once after another. *)

Resting == session[Coordinator] = Idle

\* The list of expired reservations, read without a lock.
WakeUp ==
  /\ phase = "sleep"
  /\ phase' = "expire"
  /\ todo' = {o \in Orders : chargingOrder[o].status = "reserved"
                               /\ chargingOrder[o].lapsed}
  /\ UNCHANGED <<vars, lock, session, delivered, calls>>

\* FOR UPDATE SKIP LOCKED with the status re-checked: a row another session
\* holds is left for the next pass.
ExpireNext ==
  /\ phase = "expire" /\ Resting
  /\ \E o \in todo :
       /\ todo' = todo \ {o}
       /\ IF Unlocked(o) /\ chargingOrder[o].status = "reserved" /\ chargingOrder[o].lapsed
          THEN TakeRow(Coordinator, o,
                 [Idle EXCEPT !.op = "expire", !.at = "charger", !.order = o,
                              !.reason = "reservation_expired",
                              !.orow = chargingOrder[o]])
          ELSE UNCHANGED <<lock, session>>
  /\ UNCHANGED <<vars, delivered, phase, calls>>

ListCharging ==
  /\ phase = "expire" /\ Resting /\ todo = {}
  /\ phase' = "settle"
  /\ todo' = {o \in Orders : chargingOrder[o].status = "charging"}
  /\ UNCHANGED <<vars, lock, session, delivered, calls>>

\* order_snapshot, without a lock; a capped order is settled in a transaction
\* of its own, under the reason of the snapshot.
SettleNext ==
  /\ phase = "settle" /\ Resting
  /\ \E o \in todo :
       LET row == chargingOrder[o]
           b   == Meter(row, delivered[o], Available(row.user))
       IN  /\ todo' = todo \ {o}
           /\ IF row.status = "charging" /\ b.cap # None
              THEN session' = [session EXCEPT ![Coordinator] =
                     [Idle EXCEPT !.op = "settle", !.at = "user", !.user = row.user,
                                  !.order = o, !.seen = delivered[o], !.reason = b.cap]]
              ELSE UNCHANGED session
  /\ UNCHANGED <<vars, lock, delivered, phase, calls>>

EndPass ==
  /\ phase = "settle" /\ Resting /\ todo = {}
  /\ phase' = "sleep"
  /\ UNCHANGED <<vars, lock, session, delivered, todo, calls>>

CoordinatorStep == WakeUp \/ ExpireNext \/ ListCharging \/ SettleNext \/ EndPass
-----------------------------------------------------------------------------
(* Deadlocks. *)

\* The row a session waits for, if it is at a statement that locks one.
Wanted(s) ==
  LET x == session[s]
  IN  CASE x.at = "user"    -> {x.user}
        [] x.at = "active"  -> ActiveOrders(chargingOrder, x.user)
        [] x.at = "order"   -> {x.order}
        [] x.at = "old"     -> {x.orow.charger}
        [] x.at = "event"   -> {x.orow.user}
        [] x.at = "charger" -> IF x.op = "reserve" THEN {x.charger}
                                                   ELSE {x.orow.charger}
        [] OTHER            -> {}

WaitsFor(s) == {lock[r] : r \in Wanted(s)} \ {None, s}

\* Sessions that wait for each other in a ring.
Deadlocked(ring) ==
  /\ ring # {}
  /\ \A s \in ring : /\ WaitsFor(s) \cap ring # {}
                      /\ \E t \in ring : s \in WaitsFor(t)

\* Mutant: the exception leaves the loop of the background task.
AbortDeadlockFatal ==
  \E ring \in SUBSET Workers :
    /\ Deadlocked(ring)
    /\ \E s \in ring :
         /\ End(s)
         /\ IF s = Coordinator THEN phase' = "dead" /\ todo' = {}
                               ELSE UNCHANGED <<phase, todo>>
    /\ UNCHANGED <<vars, delivered, calls>>

\* PostgreSQL aborts one of them.  The coordinator logs the exception and
\* sleeps until the next pass: the rest of its list is dropped.
AbortDeadlock ==
  \E ring \in SUBSET Workers :
    /\ Deadlocked(ring)
    /\ \E s \in ring :
         /\ End(s)
         /\ IF s = Coordinator THEN phase' = "sleep" /\ todo' = {}
                               ELSE UNCHANGED <<phase, todo>>
    /\ UNCHANGED <<vars, delivered, calls>>
-----------------------------------------------------------------------------
(* Time. *)

\* An order delivers energy.
Deliver(o) ==
  /\ chargingOrder[o].status = "charging"
  /\ delivered[o] < chargingOrder[o].target
  /\ delivered' = [delivered EXCEPT ![o] = @ + 1]
  /\ UNCHANGED <<vars, lock, session, phase, todo, calls>>

\* reserved_until passes.  While a session holds the order the step waits: what
\* that session decided on its clock, it commits at that time.
LapseFree(o) == Unlocked(o) /\ Lapse(o) /\ UNCHANGED txVars

Arrive(s) ==
  \/ \E u \in Users, o \in Orders :
       \/ \E admin \in BOOLEAN : BeginStart(s, u, o, admin)
       \/ BeginPay(s, u, o) \/ BeginStop(s, u, o) \/ BeginCancel(s, u, o)
  \/ \E u \in Users, c \in Chargers, k \in Keys, request \in Requests :
       BeginReserve(s, u, c, k, request)

TxNext ==
  \/ \E s \in Sessions : Arrive(s)
  \/ \E s \in Workers : Statement(s)
  \/ OneRowStep \/ CoordinatorStep \/ AbortDeadlock
  \/ \E o \in Orders : Deliver(o) \/ LapseFree(o)

\* Waiters are served in order, so a statement that is free again and again is
\* executed; the background task and the deadlock detector keep running.
\* Commands need not arrive, users need not pay, time need not pass.
Fairness ==
  /\ \A s \in Workers : SF_allVars(Statement(s))
  /\ WF_allVars(CoordinatorStep)
  /\ WF_allVars(AbortDeadlock)

TxSpec == TxInit /\ [][TxNext]_allVars /\ Fairness
=============================================================================
