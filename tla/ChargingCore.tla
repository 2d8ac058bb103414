---------------------------- MODULE ChargingCore ----------------------------
(***************************************************************************)
(* The tables of the charging core and the commands that change them, each *)
(* command as the one transaction it commits.  A command that is refused   *)
(* (a DomainError, or a replayed idempotency key) leaves the tables as     *)
(* they are, so it is no action here.  Module ChargingTx splits the same   *)
(* commands into their statements and row locks.                           *)
(*                                                                         *)
(* Money is in cents and state of charge in coarse levels 0 .. Full.  What *)
(* the meter charges is any bill within the budget and the target (Bills); *)
(* the arithmetic of module billing.py is in module Billing.               *)
(***************************************************************************)
EXTENDS Sequences, Totals, Invoices

CONSTANTS
  Users, Chargers, Orders, Withdrawals,   \* primary keys, uuid4() in the code
  Keys,                    \* idempotency keys the clients make up
  Plates,                  \* vehicle plates
  Amounts,                 \* amounts a user may recharge or withdraw
  Adjustments,             \* amounts an administrator may post or refund
  MinimumStart,            \* Settings.minimum_start_balance
  MaxBalance,              \* the largest numeric(12,2)
  Full,                    \* a full battery
  DefaultSoc, DefaultLimit,\* column defaults of vehicle_soc, charge_limit
  Powers                   \* rated powers of a charger

ASSUME RowsAssumption ==
  /\ IsFiniteSet(Orders) /\ IsFiniteSet(Withdrawals)
  /\ Orders \cap Withdrawals = {}
  /\ Keys \cap (Orders \cup Withdrawals) = {}
  /\ None \notin Users \cup Chargers \cup Orders \cup Keys \cup Plates

ASSUME AmountsAssumption ==
  /\ Amounts \subseteq Nat \ {0}
  /\ Adjustments \subseteq Int \ {0}
  /\ MinimumStart \in Nat \ {0}
  /\ MaxBalance \in Nat

ASSUME VehicleAssumption ==
  /\ Full \in Nat \ {0}
  /\ DefaultSoc \in 0 .. Full /\ DefaultLimit \in 1 .. Full

VARIABLES
  appUser,            \* app_user, by id
  charger,            \* charger, by id
  chargingOrder,      \* charging_order, by id
  walletEntry,        \* wallet_entry, by user, in insertion order
  withdrawalRequest   \* withdrawal_request, by id

vars == <<appUser, charger, chargingOrder, walletEntry, withdrawalRequest>>
-----------------------------------------------------------------------------
(* The rows. *)

UserRow == [status : {"active", "frozen"}, balance : Nat, held : Nat,
            plate : Plates \cup {None}, soc : 0 .. Full, limit : 1 .. Full]

ChargerRow == [status : {"available", "reserved", "charging", "faulted"},
               sessions : Nat, power : Powers]

StopReasons == {"user_cancelled", "reservation_expired", "user_stopped",
                "target_reached", "balance_exhausted"}

\* An order id not used yet has status "none".  lapsed: reserved_until <= now.
OrderRow == [status : {"none", "reserved", "charging", "pending_payment",
                       "completed", "cancelled"},
             user : Users \cup {None}, charger : Chargers \cup {None},
             key : Keys \cup {None}, lapsed : BOOLEAN,
             plate : Plates \cup {None}, initial : 0 .. Full,
             target : 0 .. Full, energy : 0 .. Full,
             amount : Nat, reason : StopReasons \cup {None}]

EntryRow == [key : Keys \cup Orders \cup Withdrawals,
             type : {"recharge", "charge", "adjustment", "refund", "withdrawal"},
             amount : Int, after : Nat, order : Orders \cup {None}]

RequestRow == [status : {"none", "pending", "paid", "rejected"},
               user : Users \cup {None}, key : Keys \cup {None}, amount : Nat]

TypeOK ==
  /\ appUser \in [Users -> UserRow]
  /\ charger \in [Chargers -> ChargerRow]
  /\ chargingOrder \in [Orders -> OrderRow]
  /\ walletEntry \in [Users -> Seq(EntryRow)]
  /\ withdrawalRequest \in [Withdrawals -> RequestRow]

NoOrder == [status |-> "none", user |-> None, charger |-> None, key |-> None,
            lapsed |-> FALSE, plate |-> None, initial |-> 0, target |-> 0,
            energy |-> 0, amount |-> 0, reason |-> None]

NoRequest == [status |-> "none", user |-> None, key |-> None, amount |-> 0]

Init ==
  /\ appUser = [u \in Users |->
       [status |-> "active", balance |-> 0, held |-> 0, plate |-> None,
        soc |-> DefaultSoc, limit |-> DefaultLimit]]
  /\ charger \in [Chargers ->
       {[status |-> "available", sessions |-> 0, power |-> p] : p \in Powers}]
  /\ chargingOrder = [o \in Orders |-> NoOrder]
  /\ walletEntry = [u \in Users |-> <<>>]
  /\ withdrawalRequest = [w \in Withdrawals |-> NoRequest]
-----------------------------------------------------------------------------
(* Queries. *)

Available(u) == appUser[u].balance - appUser[u].held

Plugged == {"reserved", "charging"}
Unfinished == {"reserved", "charging", "pending_payment"}

\* Mutants: an unpaid order, or a reservation, is not counted as active.
ActiveOrdersPlugged(orders, u) ==
  {o \in Orders : orders[o].user = u /\ orders[o].status \in Plugged}

ActiveOrdersStarted(orders, u) ==
  {o \in Orders : orders[o].user = u
                    /\ orders[o].status \in {"charging", "pending_payment"}}

\* The orders of u that uq_active_order_per_user counts, in the table orders.
ActiveOrders(orders, u) ==
  {o \in Orders : orders[o].user = u /\ orders[o].status \in Unfinished}

UsedKeys(u) == {walletEntry[u][i].key : i \in 1 .. Len(walletEntry[u])}

\* Mutant: balance_after is the balance before the entry.
EntryBefore(key, type, amount, after, order) ==
  [key |-> key, type |-> type, amount |-> amount, after |-> after - amount,
   order |-> order]

\* Post an entry to the wallet of u and set its balance.
Entry(key, type, amount, after, order) ==
  [key |-> key, type |-> type, amount |-> amount, after |-> after,
   order |-> order]

Post(u, entry) ==
  walletEntry' = [walletEntry EXCEPT ![u] = Append(@, entry)]

RefundRows(o) ==
  LET w == walletEntry[chargingOrder[o].user]
  IN  {i \in 1 .. Len(w) : w[i].type = "refund" /\ w[i].order = o}

\* SELECT coalesce(sum(amount), 0) ... WHERE order_id = o AND entry_type = 'refund'
Refunded(o) ==
  LET w == walletEntry[chargingOrder[o].user]
  IN  Total([i \in 1 .. Len(w) |-> w[i].amount], RefundRows(o))
-----------------------------------------------------------------------------
(* Account service: the wallet and the vehicle of a user. *)

Recharge(u, k, a) ==
  LET balance == appUser[u].balance + a
  IN  /\ appUser[u].status = "active"
      /\ k \notin UsedKeys(u)
      /\ balance <= MaxBalance
      /\ appUser' = [appUser EXCEPT ![u].balance = balance]
      /\ Post(u, Entry(k, "recharge", a, balance, None))
      /\ UNCHANGED <<charger, chargingOrder, withdrawalRequest>>

Withdraw(u, k, a, w) ==
  /\ appUser[u].status = "active"
  /\ withdrawalRequest[w].status = "none"
  /\ \A x \in Withdrawals : withdrawalRequest[x].user = u
                              => withdrawalRequest[x].key # k
  /\ ActiveOrders(chargingOrder, u) = {}
  /\ a <= Available(u)
  /\ appUser' = [appUser EXCEPT ![u].held = @ + a]
  /\ withdrawalRequest' = [withdrawalRequest EXCEPT ![w] =
       [status |-> "pending", user |-> u, key |-> k, amount |-> a]]
  /\ UNCHANGED <<charger, chargingOrder, walletEntry>>

\* A profile is what PUT /profile/vehicle carries.
SaveVehicle(u, profile) ==
  /\ appUser[u].status = "active"
  /\ ActiveOrders(chargingOrder, u) = {}
  /\ \A v \in Users \ {u} : appUser[v].plate # profile.plate
  /\ appUser' = [appUser EXCEPT ![u] =
       [@ EXCEPT !.plate = profile.plate, !.soc = profile.soc,
                 !.limit = profile.limit]]
  /\ UNCHANGED <<charger, chargingOrder, walletEntry, withdrawalRequest>>
-----------------------------------------------------------------------------
(* Charging service: the life of an order. *)

\* _cancel_reserved, on the tables it updates.
Cancelled(orders, o, reason) ==
  [orders EXCEPT ![o] = [@ EXCEPT !.status = "cancelled", !.reason = reason]]

Released(chargers, c) ==
  [chargers EXCEPT ![c].status = IF @ = "reserved" THEN "available" ELSE @]

CancelReserved(o, reason) ==
  /\ chargingOrder' = Cancelled(chargingOrder, o, reason)
  /\ charger' = Released(charger, chargingOrder[o].charger)
  /\ UNCHANGED <<appUser, walletEntry, withdrawalRequest>>

\* The second half of reserve: the charger is taken and the order inserted.
\* request is None, or the initial_soc and target_soc the client sends.
Place(orders, chargers, u, c, k, request, o) ==
  LET initial == IF appUser[u].plate # None \/ request = None
                 THEN appUser[u].soc ELSE request.soc
      target  == IF request = None THEN appUser[u].limit ELSE request.target
  IN  /\ orders[o].status = "none"
      /\ chargers[c].status = "available"
      /\ initial < target
      /\ chargingOrder' = [orders EXCEPT ![o] =
           [status |-> "reserved", user |-> u, charger |-> c, key |-> k,
            lapsed |-> FALSE, plate |-> appUser[u].plate, initial |-> initial,
            target |-> target - initial, energy |-> 0, amount |-> 0,
            reason |-> None]]
      /\ charger' = [chargers EXCEPT ![c].status = "reserved"]
      /\ UNCHANGED <<appUser, walletEntry, withdrawalRequest>>

MayBegin(u) == appUser[u].status = "active" /\ Available(u) >= MinimumStart

FreshKey(u, k) == \A x \in Orders : chargingOrder[x].user = u
                                      => chargingOrder[x].key # k

Reserve(u, c, k, request, o) ==
  /\ FreshKey(u, k)
  /\ MayBegin(u)
  /\ ActiveOrders(chargingOrder, u) = {}
  /\ Place(chargingOrder, charger, u, c, k, request, o)

\* reserve finds the lapsed reservation x of the user, cancels it first and
\* goes on in the same transaction, so a later refusal undoes the cancel too.
ReserveAgain(u, c, k, request, o, x) ==
  /\ FreshKey(u, k)
  /\ MayBegin(u)
  /\ x \in ActiveOrders(chargingOrder, u)
  /\ chargingOrder[x].status = "reserved" /\ chargingOrder[x].lapsed
  /\ Place(Cancelled(chargingOrder, x, "reservation_expired"),
           Released(charger, chargingOrder[x].charger), u, c, k, request, o)

Start(u, o) ==
  /\ MayBegin(u)
  /\ chargingOrder[o].user = u
  /\ chargingOrder[o].status = "reserved" /\ ~chargingOrder[o].lapsed
  /\ chargingOrder' = [chargingOrder EXCEPT ![o].status = "charging"]
  /\ charger' = [charger EXCEPT ![chargingOrder[o].charger].status = "charging"]
  /\ UNCHANGED <<appUser, walletEntry, withdrawalRequest>>

\* start on a lapsed reservation commits the cancellation, then refuses.
StartLapsed(u, o) ==
  /\ MayBegin(u)
  /\ chargingOrder[o].user = u
  /\ chargingOrder[o].status = "reserved" /\ chargingOrder[o].lapsed
  /\ CancelReserved(o, "reservation_expired")

Cancel(u, o) ==
  /\ chargingOrder[o].user = u
  /\ chargingOrder[o].status = "reserved"
  /\ CancelReserved(o, "user_cancelled")

\* Mutant: the coordinator trusts its scan and does not re-read the status.
ExpireScanned(o) ==
  /\ chargingOrder[o].status # "none" /\ chargingOrder[o].lapsed
  /\ CancelReserved(o, "reservation_expired")

\* The coordinator cancels a lapsed reservation.
Expire(o) ==
  /\ chargingOrder[o].status = "reserved" /\ chargingOrder[o].lapsed
  /\ CancelReserved(o, "reservation_expired")

\* _settle: the invoice is fixed and its amount held; payment comes later.
Settle(o, reason) ==
  LET u == chargingOrder[o].user
      c == chargingOrder[o].charger
  IN  /\ chargingOrder[o].status = "charging"
      /\ \E b \in Bills(chargingOrder[o].target, Available(u)) :
           /\ chargingOrder' = [chargingOrder EXCEPT ![o] =
                [@ EXCEPT !.status = "pending_payment", !.energy = b.energy,
                          !.amount = b.amount,
                          !.reason = IF b.cap # None THEN b.cap ELSE reason]]
           /\ appUser' = [appUser EXCEPT ![u] =
                [@ EXCEPT !.held = appUser[u].held + b.amount,
                          !.soc = IF appUser[u].plate = chargingOrder[o].plate
                                  THEN chargingOrder[o].initial + b.energy
                                  ELSE appUser[u].soc]]
      /\ charger' = [charger EXCEPT ![c] =
           [@ EXCEPT !.status = "available", !.sessions = charger[c].sessions + 1]]
      /\ UNCHANGED <<walletEntry, withdrawalRequest>>

Stop(u, o) == chargingOrder[o].user = u /\ Settle(o, "user_stopped")

\* The coordinator settles an order its meter reported as capped.
CapStop(o) ==
  \E reason \in {"target_reached", "balance_exhausted"} : Settle(o, reason)

Pay(u, o) ==
  LET amount  == chargingOrder[o].amount
      balance == appUser[u].balance - amount
  IN  /\ chargingOrder[o].user = u
      /\ chargingOrder[o].status = "pending_payment"
      /\ appUser[u].balance >= amount /\ appUser[u].held >= amount
      /\ appUser' = [appUser EXCEPT ![u] =
           [@ EXCEPT !.balance = balance, !.held = appUser[u].held - amount]]
      /\ IF amount > 0 THEN Post(u, Entry(o, "charge", -amount, balance, o))
                       ELSE UNCHANGED walletEntry
      /\ chargingOrder' = [chargingOrder EXCEPT ![o].status = "completed"]
      /\ UNCHANGED <<charger, withdrawalRequest>>
-----------------------------------------------------------------------------
(* Administration: money, withdrawals, users and chargers. *)

\* money without an order_id.
Adjust(u, k, a) ==
  LET balance == appUser[u].balance + a
  IN  /\ k \notin UsedKeys(u)
      /\ a < 0 => ActiveOrders(chargingOrder, u) = {}
      /\ appUser[u].held <= balance /\ balance <= MaxBalance
      /\ appUser' = [appUser EXCEPT ![u].balance = balance]
      /\ Post(u, Entry(k, "adjustment", a, balance, None))
      /\ UNCHANGED <<charger, chargingOrder, withdrawalRequest>>

\* Mutant: each refund is compared with the invoice, earlier ones forgotten.
RefundEach(u, k, o, a) ==
  LET balance == appUser[u].balance + a
  IN  /\ k \notin UsedKeys(u)
      /\ chargingOrder[o].user = u /\ chargingOrder[o].status = "completed"
      /\ 0 < a /\ a <= chargingOrder[o].amount
      /\ appUser[u].held <= balance /\ balance <= MaxBalance
      /\ appUser' = [appUser EXCEPT ![u].balance = balance]
      /\ Post(u, Entry(k, "refund", a, balance, o))
      /\ UNCHANGED <<charger, chargingOrder, withdrawalRequest>>

\* money with an order_id.
Refund(u, k, o, a) ==
  LET balance == appUser[u].balance + a
  IN  /\ k \notin UsedKeys(u)
      /\ chargingOrder[o].user = u /\ chargingOrder[o].status = "completed"
      /\ 0 < a /\ Refunded(o) + a <= chargingOrder[o].amount
      /\ appUser[u].held <= balance /\ balance <= MaxBalance
      /\ appUser' = [appUser EXCEPT ![u].balance = balance]
      /\ Post(u, Entry(k, "refund", a, balance, o))
      /\ UNCHANGED <<charger, chargingOrder, withdrawalRequest>>

\* Mutant: a request already paid is paid again.
ApproveAgain(w) ==
  LET u       == withdrawalRequest[w].user
      amount  == withdrawalRequest[w].amount
      balance == appUser[u].balance - amount
  IN  /\ withdrawalRequest[w].status \in {"pending", "paid"}
      /\ balance >= 0 /\ appUser[u].held >= amount
      /\ appUser' = [appUser EXCEPT ![u] =
           [@ EXCEPT !.balance = balance, !.held = appUser[u].held - amount]]
      /\ Post(u, Entry(w, "withdrawal", -amount, balance, None))
      /\ withdrawalRequest' = [withdrawalRequest EXCEPT ![w].status = "paid"]
      /\ UNCHANGED <<charger, chargingOrder>>

\* review_withdrawal, approved and rejected.
ApproveWithdrawal(w) ==
  LET u       == withdrawalRequest[w].user
      amount  == withdrawalRequest[w].amount
      balance == appUser[u].balance - amount
  IN  /\ withdrawalRequest[w].status = "pending"
      /\ appUser' = [appUser EXCEPT ![u] =
           [@ EXCEPT !.balance = balance, !.held = appUser[u].held - amount]]
      /\ Post(u, Entry(w, "withdrawal", -amount, balance, None))
      /\ withdrawalRequest' = [withdrawalRequest EXCEPT ![w].status = "paid"]
      /\ UNCHANGED <<charger, chargingOrder>>

\* Mutant: a rejected request keeps its hold.
RejectHolding(w) ==
  /\ withdrawalRequest[w].status = "pending"
  /\ withdrawalRequest' = [withdrawalRequest EXCEPT ![w].status = "rejected"]
  /\ UNCHANGED <<appUser, charger, chargingOrder, walletEntry>>

RejectWithdrawal(w) ==
  LET u == withdrawalRequest[w].user
  IN  /\ withdrawalRequest[w].status = "pending"
      /\ appUser' = [appUser EXCEPT ![u].held = @ - withdrawalRequest[w].amount]
      /\ withdrawalRequest' = [withdrawalRequest EXCEPT ![w].status = "rejected"]
      /\ UNCHANGED <<charger, chargingOrder, walletEntry>>

SetUserStatus(u, status) ==
  /\ appUser' = [appUser EXCEPT ![u].status = status]
  /\ UNCHANGED <<charger, chargingOrder, walletEntry, withdrawalRequest>>

SetChargerStatus(c, status) ==
  /\ charger[c].status \notin Plugged
  /\ status = "available" => charger[c].status = "faulted"
  /\ charger' = [charger EXCEPT ![c].status = status]
  /\ UNCHANGED <<appUser, chargingOrder, walletEntry, withdrawalRequest>>

RestartCharger(c) ==
  /\ charger[c].status = "faulted"
  /\ charger' = [charger EXCEPT ![c].status = "available"]
  /\ UNCHANGED <<appUser, chargingOrder, walletEntry, withdrawalRequest>>

\* Mutant: a reserved charger may be edited.
ChargerEditReserved(c, power) ==
  /\ charger[c].status # "charging"
  /\ charger' = [charger EXCEPT ![c].power = power]
  /\ UNCHANGED <<appUser, chargingOrder, walletEntry, withdrawalRequest>>

ChargerEdit(c, power) ==
  /\ charger[c].status \notin Plugged
  /\ charger' = [charger EXCEPT ![c].power = power]
  /\ UNCHANGED <<appUser, chargingOrder, walletEntry, withdrawalRequest>>
-----------------------------------------------------------------------------
\* Time: reserved_until of a reservation passes.
Lapse(o) ==
  /\ chargingOrder[o].status = "reserved" /\ ~chargingOrder[o].lapsed
  /\ chargingOrder' = [chargingOrder EXCEPT ![o].lapsed = TRUE]
  /\ UNCHANGED <<appUser, charger, walletEntry, withdrawalRequest>>

\* What the clients may send.
SocRequests == {r \in [soc : 0 .. Full, target : 1 .. Full] : r.soc < r.target}
Profiles == [plate : Plates, soc : 0 .. Full, limit : 1 .. Full]

AccountStep ==
  \E u \in Users :
    \/ \E k \in Keys, a \in Amounts :
         Recharge(u, k, a) \/ \E w \in Withdrawals : Withdraw(u, k, a, w)
    \/ \E profile \in Profiles : SaveVehicle(u, profile)

OrderStep ==
  \/ \E u \in Users, o \in Orders :
       \/ Start(u, o) \/ StartLapsed(u, o) \/ Cancel(u, o)
       \/ Stop(u, o) \/ Pay(u, o)
       \/ \E c \in Chargers, k \in Keys, r \in SocRequests \cup {None} :
            \/ Reserve(u, c, k, r, o)
            \/ \E x \in Orders : ReserveAgain(u, c, k, r, o, x)
  \/ \E o \in Orders : Expire(o) \/ CapStop(o) \/ Lapse(o)

AdminStep ==
  \/ \E u \in Users :
       \/ \E k \in Keys, a \in Adjustments :
            Adjust(u, k, a) \/ \E o \in Orders : Refund(u, k, o, a)
       \/ \E status \in {"active", "frozen"} : SetUserStatus(u, status)
  \/ \E w \in Withdrawals : ApproveWithdrawal(w) \/ RejectWithdrawal(w)
  \/ \E c \in Chargers :
       \/ \E status \in {"available", "faulted"} : SetChargerStatus(c, status)
       \/ \E power \in Powers : ChargerEdit(c, power)
       \/ RestartCharger(c)

Next == AccountStep \/ OrderStep \/ AdminStep

Spec == Init /\ [][Next]_vars
=============================================================================
