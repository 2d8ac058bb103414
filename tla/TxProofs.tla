------------------------------- MODULE TxProofs -------------------------------
(***************************************************************************)
(* The transactions of ChargingTx, for every number of sessions, users,    *)
(* orders and chargers: every commit is a command of ChargingCore on the   *)
(* committed tables.  The invariant says what a transaction knows from its *)
(* reads, as a relation between its session, the row locks and the tables; *)
(* it survives what the other transactions do because each of them writes  *)
(* only rows that it holds, or an order that no one else has.              *)
(***************************************************************************)
EXTENDS ChargingCoreProofs, ChargingTxProperties

\* Where a transaction of each command can be.
Places ==
  {<<"none", "none">>,
   <<"reserve", "user">>, <<"reserve", "active">>, <<"reserve", "old">>, <<"reserve", "charger">>,
   <<"start", "user">>, <<"start", "order">>, <<"start", "charger">>,
   <<"pay", "user">>, <<"pay", "order">>,
   <<"settle", "user">>, <<"settle", "order">>, <<"settle", "charger">>,
   <<"cancel", "order">>, <<"cancel", "charger">>, <<"cancel", "event">>,
   <<"expire", "charger">>, <<"expire", "event">>}

SessionRow ==
  [op : {"none", "reserve", "start", "pay", "settle", "cancel", "expire"},
   at : {"none", "user", "active", "old", "order", "charger", "event"},
   user : Users \cup {None}, order : Orders \cup {None},
   charger : Chargers \cup {None}, key : Keys \cup {None},
   request : SocRequests \cup {None}, admin : BOOLEAN, seen : Nat,
   reason : StopReasons \cup {None}, old : Orders \cup {None},
   urow : UserRow \cup {None}, orow : OrderRow \cup {None}]

\* What a transaction has been sent, and the reason its command writes.
Sent(x, orders) ==
  /\ <<x.op, x.at>> \in Places
  /\ x.op # "none" => x.order \in Orders
  /\ x.op = "reserve" =>
       /\ x.user \in Users /\ x.charger \in Chargers /\ x.key \in Keys
       /\ orders[x.order].status = "none"
  /\ x.op \in {"start", "pay", "settle", "cancel"} =>
       x.user \in Users /\ orders[x.order].user = x.user
  /\ x.op = "settle" => x.reason \in {"user_stopped", "target_reached", "balance_exhausted"}
  /\ x.op = "cancel" => x.reason = "user_cancelled"
  /\ x.op = "expire" => x.reason = "reservation_expired"

\* The user row, once it has been read for update.
UserHeld(s, x, locks, users) ==
  x.op \in {"reserve", "start", "pay", "settle"} /\ x.at # "user" =>
    /\ locks[x.user] = s /\ x.urow = users[x.user]
    /\ x.op = "start" => /\ x.urow.status = "active"
                         /\ x.at = "charger" => x.urow.balance - x.urow.held >= MinimumStart

\* The order row, once it has been read for update and accepted.
OrderHeld(s, x, locks, orders) ==
  x.op \in {"start", "settle", "cancel", "expire"} /\ x.at \in {"charger", "event"} =>
    /\ locks[x.order] = s /\ x.orow = orders[x.order]
    /\ x.orow.status = IF x.op = "settle" THEN "charging" ELSE "reserved"
    /\ x.op = "expire" => x.orow.lapsed

\* What reserve has found out about its user and the orders of the user.
Found(s, x, locks, orders) ==
  x.op = "reserve" =>
    /\ x.at # "user" =>
         /\ x.urow.status = "active" /\ x.urow.balance - x.urow.held >= MinimumStart
         /\ \A o \in Orders : orders[o].user = x.user => orders[o].key # x.key
    /\ x.at \in {"user", "active"} => x.old = None
    /\ x.at = "old" => x.old # None
    /\ x.at = "charger" /\ x.old = None => ActiveOrders(orders, x.user) = {}
    /\ x.old # None =>
         /\ locks[x.old] = s /\ x.orow = orders[x.old]
         /\ x.orow.user = x.user /\ x.orow.status = "reserved" /\ x.orow.lapsed

Knows(s, x, locks, users, orders) ==
  /\ Sent(x, orders)
  /\ UserHeld(s, x, locks, users)
  /\ OrderHeld(s, x, locks, orders)
  /\ Found(s, x, locks, orders)

KeysDistinct ==
  \A o, p \in Orders : o # p /\ chargingOrder[o].status # "none"
      /\ chargingOrder[o].user = chargingOrder[p].user
    => chargingOrder[o].key # chargingOrder[p].key

Blank == \A o \in Orders : chargingOrder[o].status = "none" => chargingOrder[o].user = None

TablesInv == MoneyInv /\ FleetInv /\ KeysDistinct /\ Blank

SessionsTyped ==
  /\ lock \in [Rows -> Workers \cup {None}]
  /\ session \in [Workers -> SessionRow]
  /\ delivered \in [Orders -> Nat]
  /\ todo \subseteq Orders

OwnRows ==
  \A s, t \in Workers : s # t /\ session[s].op = "reserve" /\ session[t].op = "reserve"
    => session[s].order # session[t].order

TxInv ==
  /\ TablesInv
  /\ SessionsTyped
  /\ \A s \in Workers : Knows(s, session[s], lock, appUser, chargingOrder)
  /\ OwnRows
-----------------------------------------------------------------------------
(* The tables: what a command of ChargingCore leaves of them. *)

\* A command fills at most one order, and its key is new for its user.
Fills ==
  \/ \A p \in Orders : chargingOrder[p].status = "none"
                         => chargingOrder'[p] = chargingOrder[p]
  \/ \E o \in Orders :
       /\ FreshKey(chargingOrder'[o].user, chargingOrder'[o].key)
       /\ \A p \in Orders \ {o} : chargingOrder[p].status = "none"
                                    => chargingOrder'[p] = chargingOrder[p]

\* A reservation fills one row that was not in use.
LEMMA PlaceFills ==
  ASSUME NEW orders, NEW chargers, NEW u, NEW c, NEW k, NEW r, NEW o \in Orders,
         orders \in [Orders -> OrderRow], chargingOrder \in [Orders -> OrderRow],
         \A p \in Orders : chargingOrder[p].status = "none"
                             => orders[p] = chargingOrder[p],
         FreshKey(u, k), Place(orders, chargers, u, c, k, r, o)
  PROVE  Fills
<1> DEFINE initial == IF appUser[u].plate # None \/ r = None
                      THEN appUser[u].soc ELSE r.soc
           target  == IF r = None THEN appUser[u].limit ELSE r.target
           placed  == [status |-> "reserved", user |-> u, charger |-> c, key |-> k,
                       lapsed |-> FALSE, plate |-> appUser[u].plate, initial |-> initial,
                       target |-> target - initial, energy |-> 0, amount |-> 0,
                       reason |-> None]
<1>0. chargingOrder' = [orders EXCEPT ![o] = placed]
  BY DEF Place
<1>1. placed.user = u /\ placed.key = k
  OBVIOUS
<1> HIDE DEF placed
<1>2. chargingOrder'[o] = placed /\ \A p \in Orders \ {o} : chargingOrder'[p] = orders[p]
  BY <1>0
<1> QED
  BY <1>1, <1>2 DEF Fills

\* A change of a row in use fills none.
LEMMA OneRowFills ==
  ASSUME MoneyInv, NEW o \in Orders, chargingOrder[o].status # "none", NEW row,
         chargingOrder' = [chargingOrder EXCEPT ![o] = row]
  PROVE  Fills
BY Typed DEF Fills

\* No command of the core fills a row otherwise than as a reservation.
LEMMA NextFills ==
  ASSUME MoneyInv, [Next]_vars
  PROVE  Fills
<1>1. CASE UNCHANGED chargingOrder
  BY <1>1 DEF Fills
<1>2. ASSUME NEW o \in Orders, NEW reason, chargingOrder[o].status # "none",
             CancelReserved(o, reason)
      PROVE  Fills
  BY <1>2, OneRowFills DEF CancelReserved, Cancelled
<1>3. ASSUME NEW o \in Orders, NEW reason, Settle(o, reason)
      PROVE  Fills
  <2>1. PICK row : chargingOrder' = [chargingOrder EXCEPT ![o] = row]
    BY <1>3 DEF Settle
  <2> QED
    BY <1>3, <2>1, OneRowFills DEF Settle
<1>4. ASSUME NEW u \in Users, NEW o \in Orders, Start(u, o) \/ Pay(u, o) \/ Lapse(o)
      PROVE  Fills
  <2>1. PICK row : chargingOrder' = [chargingOrder EXCEPT ![o] = row]
    BY <1>4 DEF Start, Pay, Lapse
  <2> QED
    BY <1>4, <2>1, OneRowFills DEF Start, Pay, Lapse
<1>5. ASSUME NEW u \in Users, NEW o \in Orders, NEW c \in Chargers, NEW k \in Keys,
             NEW r \in SocRequests \cup {None}, Reserve(u, c, k, r, o)
      PROVE  Fills
  BY <1>5, PlaceFills, Typed DEF Reserve
<1>6. ASSUME NEW u \in Users, NEW o \in Orders, NEW c \in Chargers, NEW k \in Keys,
             NEW r \in SocRequests \cup {None}, NEW x \in Orders,
             ReserveAgain(u, c, k, r, o, x)
      PROVE  Fills
  <2> DEFINE orders == Cancelled(chargingOrder, x, "reservation_expired")
  <2>1. orders \in [Orders -> OrderRow]
    BY <1>6, CancelledOrders, Typed DEF ReserveAgain, StopReasons, MoneyInv, TypeOK, RowsLinked
  <2>2. \A p \in Orders : chargingOrder[p].status = "none" => orders[p] = chargingOrder[p]
    BY <1>6, Typed DEF ReserveAgain, Cancelled
  <2> QED
    BY <1>6, <2>1, <2>2, PlaceFills, Typed DEF ReserveAgain
<1>7. CASE AccountStep
  <2>1. UNCHANGED chargingOrder
    BY <1>7 DEF AccountStep, Recharge, Withdraw, SaveVehicle
  <2> QED
    BY <1>1, <2>1
<1>8. CASE AdminStep
  <2>1. UNCHANGED chargingOrder
    <3>1. CASE \E u \in Users, k \in Keys, a \in Adjustments :
                 Adjust(u, k, a) \/ \E o \in Orders : Refund(u, k, o, a)
      BY <3>1 DEF Adjust, Refund
    <3>2. CASE \E w \in Withdrawals : ApproveWithdrawal(w) \/ RejectWithdrawal(w)
      BY <3>2 DEF ApproveWithdrawal, RejectWithdrawal
    <3> QED
      BY <1>8, <3>1, <3>2 DEF AdminStep, SetUserStatus, SetChargerStatus, ChargerEdit,
                              RestartCharger
  <2> QED
    BY <1>1, <2>1
<1>9. CASE OrderStep
  <2>1. CASE \E u \in Users, o \in Orders : Start(u, o) \/ Pay(u, o)
    BY <1>4, <2>1
  <2>2. CASE \E u \in Users, o \in Orders : StartLapsed(u, o) \/ Cancel(u, o)
    BY <1>2, <2>2 DEF StartLapsed, Cancel
  <2>3. CASE \E u \in Users, o \in Orders : Stop(u, o)
    BY <1>3, <2>3 DEF Stop
  <2>4. CASE \E o \in Orders : Expire(o)
    BY <1>2, <2>4 DEF Expire
  <2>5. CASE \E o \in Orders : CapStop(o)
    BY <1>3, <2>5 DEF CapStop
  <2>6. CASE \E o \in Orders : Lapse(o)
    <3>1. PICK o \in Orders : Lapse(o)
      BY <2>6
    <3>2. PICK row : chargingOrder' = [chargingOrder EXCEPT ![o] = row]
      BY <3>1 DEF Lapse
    <3> QED
      BY <3>1, <3>2, OneRowFills DEF Lapse
  <2> QED
    BY <1>5, <1>6, <1>9, <2>1, <2>2, <2>3, <2>4, <2>5, <2>6 DEF OrderStep
<1>10. CASE UNCHANGED vars
  BY <1>1, <1>10 DEF vars
<1> QED
  BY <1>7, <1>8, <1>9, <1>10 DEF Next

\* A row in use keeps its user and its key.
LEMMA RowStays ==
  ASSUME Effects, NEW o \in Orders, chargingOrder[o].status # "none"
  PROVE  /\ chargingOrder'[o].user = chargingOrder[o].user
         /\ chargingOrder'[o].key = chargingOrder[o].key
         /\ chargingOrder'[o].status # "none"
         /\ chargingOrder'[o].status \in Unfinished => chargingOrder[o].status \in Unfinished
BY DEF Effects, Effect, RowMoves, RowOpens, Frozen, Unfinished

\* The tables keep what ChargingCore makes them keep.
LEMMA TablesKept ==
  ASSUME TablesInv, [Next]_vars
  PROVE  TablesInv' /\ Effects
<1>1. MoneyInv'
  BY AccountMoney, OrderMoney, AdminMoney, StutterMoney,
     RowsAssumption, AmountsAssumption, VehicleAssumption DEF Next, TablesInv
<1>2. FleetInv'
  BY AccountFleet, OrderFleet, AdminFleet, SameFleet DEF Next, vars, TablesInv
<1>3. Effects
  BY StepEffect DEF TablesInv
<1>4. Fills
  BY NextFills DEF TablesInv
<1>5. Blank'
  <2> SUFFICES ASSUME NEW o \in Orders, chargingOrder'[o].status = "none"
               PROVE  chargingOrder'[o].user = None
    BY DEF Blank
  <2>1. chargingOrder[o].status = "none" /\ chargingOrder'[o] = chargingOrder[o]
    BY <1>3, RowStays DEF Effects, Effect, RowMoves, RowOpens, Frozen
  <2> QED
    BY <2>1 DEF Blank, TablesInv
<1>6. KeysDistinct'
  <2> SUFFICES ASSUME NEW o \in Orders, NEW p \in Orders, o # p,
                      chargingOrder'[o].status # "none",
                      chargingOrder'[o].user = chargingOrder'[p].user
               PROVE  chargingOrder'[o].key # chargingOrder'[p].key
    BY DEF KeysDistinct
  <2>1. chargingOrder'[o].user # None
    BY <1>1, RowsAssumption DEF MoneyInv, RowsLinked, OrdersLinked
  <2>2. chargingOrder'[p].status # "none"
    BY <1>5, <2>1 DEF Blank
  <2>3. \A q \in Orders : chargingOrder[q].status = "none"
                            /\ chargingOrder'[q].status # "none"
                          => FreshKey(chargingOrder'[q].user, chargingOrder'[q].key)
    BY <1>4 DEF Fills
  <2>4. CASE chargingOrder[o].status # "none" /\ chargingOrder[p].status # "none"
    BY <1>3, <2>4, RowStays DEF TablesInv, KeysDistinct
  <2>5. CASE chargingOrder[o].status # "none" /\ chargingOrder[p].status = "none"
    <3>1. FreshKey(chargingOrder'[p].user, chargingOrder'[p].key)
      BY <2>2, <2>3, <2>5
    <3> QED
      BY <1>3, <2>5, <3>1, RowStays DEF FreshKey
  <2>6. CASE chargingOrder[o].status = "none" /\ chargingOrder[p].status # "none"
    <3>1. FreshKey(chargingOrder'[o].user, chargingOrder'[o].key)
      BY <2>3, <2>6
    <3> QED
      BY <1>3, <2>6, <3>1, RowStays DEF FreshKey
  <2>7. ~(chargingOrder[o].status = "none" /\ chargingOrder[p].status = "none")
    BY <1>4, <2>2 DEF Fills
  <2> QED
    BY <2>4, <2>5, <2>6, <2>7
<1> QED
  BY <1>1, <1>2, <1>3, <1>5, <1>6 DEF TablesInv
-----------------------------------------------------------------------------
(* What one transaction knows survives what another does. *)

\* A step of another transaction, as s sees it.
Spares(s) ==
  /\ \A r \in Rows : lock[r] = s => lock'[r] = s
  /\ \A u \in Users : lock[u] = s => appUser'[u] = appUser[u]
  /\ \A o \in Orders : chargingOrder[o].status # "none" /\ lock[o] = s
                         => chargingOrder'[o] = chargingOrder[o]
  /\ \A o \in Orders : chargingOrder[o].status = "none" /\ chargingOrder'[o] # chargingOrder[o]
       => /\ lock[chargingOrder'[o].user] # s
          /\ session[s].op = "reserve" => session[s].order # o

\* The names of users, orders and chargers are not mixed up with None.
LEMMA Named ==
  /\ None \notin Users /\ None \notin Orders /\ None \notin Chargers
  /\ None \notin Workers
  /\ Users \subseteq Rows /\ Orders \subseteq Rows /\ Chargers \subseteq Rows
BY RowsAssumption, SessionsAssumption DEF Workers, Rows

\* What a worker knows of the rows it has locked stays true while they are spared.
LEMMA Undisturbed ==
  ASSUME NEW s \in Workers, TxInv, Effects, Spares(s)
  PROVE  Knows(s, session[s], lock', appUser', chargingOrder')
<1> DEFINE x == session[s]
<1>1. x \in SessionRow /\ Knows(s, x, lock, appUser, chargingOrder)
  BY DEF TxInv, SessionsTyped
<1>2. Blank
  BY DEF TxInv, TablesInv
<1> HIDE DEF x
<1>3. Sent(x, chargingOrder')
  <2>1. ASSUME x.op = "reserve"
        PROVE  chargingOrder'[x.order].status = "none"
    BY <1>1, <2>1 DEF Knows, Sent, Spares, x
  <2>2. ASSUME x.op \in {"start", "pay", "settle", "cancel"}
        PROVE  chargingOrder'[x.order].user = x.user
    <3>1. x.order \in Orders /\ x.user \in Users /\ chargingOrder[x.order].user = x.user
      BY <1>1, <2>2 DEF Knows, Sent
    <3>2. chargingOrder[x.order].status # "none"
      BY <1>2, <3>1, Named DEF Blank
    <3> QED
      BY <3>1, <3>2, RowStays
  <2> QED
    BY <1>1, <2>1, <2>2 DEF Knows, Sent
<1>4. UserHeld(s, x, lock', appUser')
  <2> SUFFICES ASSUME x.op \in {"reserve", "start", "pay", "settle"}, x.at # "user"
               PROVE  lock'[x.user] = s /\ appUser'[x.user] = appUser[x.user]
    BY <1>1 DEF Knows, UserHeld
  <2>1. x.user \in Users /\ lock[x.user] = s
    BY <1>1 DEF Knows, Sent, UserHeld
  <2> QED
    BY <2>1, Named DEF Spares
<1>5. OrderHeld(s, x, lock', chargingOrder')
  <2> SUFFICES ASSUME x.op \in {"start", "settle", "cancel", "expire"},
                      x.at \in {"charger", "event"}
               PROVE  lock'[x.order] = s /\ chargingOrder'[x.order] = chargingOrder[x.order]
    BY <1>1 DEF Knows, OrderHeld
  <2>1. x.order \in Orders
    BY <1>1 DEF Knows, Sent
  <2>2. lock[x.order] = s /\ chargingOrder[x.order].status # "none"
    BY <1>1 DEF Knows, OrderHeld
  <2> QED
    BY <2>1, <2>2, Named DEF Spares
<1>6. Found(s, x, lock', chargingOrder')
  <2> SUFFICES ASSUME x.op = "reserve"
               PROVE  Found(s, x, lock', chargingOrder')
    BY DEF Found
  <2>1. x.user \in Users /\ (x.at # "user" => lock[x.user] = s)
    BY <1>1 DEF Knows, Sent, UserHeld
  <2>2. ASSUME x.at # "user", NEW o \in Orders, chargingOrder'[o].user = x.user
        PROVE  /\ chargingOrder'[o].key # x.key
               /\ chargingOrder'[o].status \in Unfinished
                    => chargingOrder[o].user = x.user /\ chargingOrder[o].status \in Unfinished
    <3>1. chargingOrder[o].user = x.user => chargingOrder[o].key # x.key
      BY <1>1, <2>2 DEF Knows, Found
    <3>2. CASE chargingOrder[o].status # "none"
      BY <2>2, <3>1, <3>2, RowStays
    <3>3. CASE chargingOrder[o].status = "none"
      <4>1. chargingOrder'[o] = chargingOrder[o]
        BY <2>1, <2>2, <3>3 DEF Spares
      <4> QED
        BY <2>2, <3>1, <4>1
    <3> QED
      BY <3>2, <3>3
  <2>3. ASSUME x.old # None
        PROVE  lock'[x.old] = s /\ chargingOrder'[x.old] = chargingOrder[x.old]
    <3>1. x.old \in Orders /\ lock[x.old] = s /\ chargingOrder[x.old].status = "reserved"
      BY <1>1, <2>3 DEF Knows, Found, SessionRow
    <3> QED
      BY <3>1, Named DEF Spares
  <2>4. ASSUME x.at = "charger", x.old = None
        PROVE  ActiveOrders(chargingOrder', x.user) = {}
    <3>1. ActiveOrders(chargingOrder, x.user) = {}
      BY <1>1, <2>4 DEF Knows, Found
    <3> QED
      BY <2>2, <2>4, <3>1 DEF ActiveOrders
  <2> QED
    BY <1>1, <2>2, <2>3, <2>4 DEF Knows, Found
<1> QED
  BY <1>3, <1>4, <1>5, <1>6 DEF Knows, x

\* A step of t: it knows what its new record says, and spares the others.
LEMMA Stepped ==
  ASSUME TxInv, [Next]_vars, NEW t \in Workers, NEW y \in SessionRow,
         session' = [session EXCEPT ![t] = y],
         Knows(t, y, lock', appUser', chargingOrder'),
         lock' \in [Rows -> Workers \cup {None}],
         delivered' \in [Orders -> Nat], todo' \subseteq Orders,
         \A s \in Workers \ {t} : Spares(s),
         \A s \in Workers \ {t} : y.op = "reserve" /\ session[s].op = "reserve"
                                    => session[s].order # y.order
  PROVE  TxInv'
<1>1. session \in [Workers -> SessionRow]
  BY DEF TxInv, SessionsTyped
<1>2. /\ session'[t] = y /\ session' \in [Workers -> SessionRow]
      /\ \A s \in Workers \ {t} : session'[s] = session[s]
  BY <1>1
<1>3. TablesInv' /\ Effects
  BY TablesKept DEF TxInv
<1>4. ASSUME NEW s \in Workers
      PROVE  Knows(s, session'[s], lock', appUser', chargingOrder')
  <2>1. CASE s = t
    BY <1>2, <2>1
  <2>2. CASE s # t
    <3>1. Knows(s, session[s], lock', appUser', chargingOrder')
      BY <1>3, <2>2, Undisturbed
    <3> QED
      BY <1>2, <2>2, <3>1
  <2> QED
    BY <2>1, <2>2
<1>5. OwnRows'
  BY <1>2 DEF TxInv, OwnRows
<1> QED
  BY <1>2, <1>3, <1>4, <1>5 DEF TxInv, SessionsTyped

\* A step of no transaction spares them all.
LEMMA Aside ==
  ASSUME TxInv, [Next]_vars, UNCHANGED session,
         lock' \in [Rows -> Workers \cup {None}],
         delivered' \in [Orders -> Nat], todo' \subseteq Orders,
         \A s \in Workers : Spares(s)
  PROVE  TxInv'
<1>1. TablesInv' /\ Effects
  BY TablesKept DEF TxInv
<1>2. \A s \in Workers : Knows(s, session[s], lock', appUser', chargingOrder')
  BY <1>1, Undisturbed
<1> QED
  BY <1>1, <1>2 DEF TxInv, SessionsTyped, OwnRows
-----------------------------------------------------------------------------
(* The statements that read and lock. *)

\* The command a session has been sent stays in its record.
Same(x, y) ==
  /\ y \in SessionRow
  /\ y.op = x.op /\ y.user = x.user /\ y.order = x.order /\ y.charger = x.charger
  /\ y.key = x.key /\ y.request = x.request /\ y.reason = x.reason

\* To go on to the next statement changes nothing a worker knows.
LEMMA WentOn ==
  ASSUME NEW x \in SessionRow, NEW at \in {"charger", "event"}, NEW y,
         y = [x EXCEPT !.at = at]
  PROVE  /\ Same(x, y) /\ y.at = at /\ y.old = x.old
         /\ y.urow = x.urow /\ y.orow = x.orow
BY DEF SessionRow, Same

\* A lock is taken from no one.
LEMMA Taken ==
  ASSUME TxInv, NEW t \in Workers, NEW r \in Rows, Free(t, r),
         lock' = [lock EXCEPT ![r] = t]
  PROVE  /\ lock' \in [Rows -> Workers \cup {None}]
         /\ lock'[r] = t
         /\ \A q \in Rows : lock[q] \in Workers => lock'[q] = lock[q]
BY Named DEF TxInv, SessionsTyped, Free

\* The end of a transaction drops its own locks only.
LEMMA Dropped ==
  ASSUME TxInv, NEW t \in Workers, End(t)
  PROVE  /\ lock' \in [Rows -> Workers \cup {None}]
         /\ \A q \in Rows : lock[q] # t => lock'[q] = lock[q]
         /\ session' = [session EXCEPT ![t] = Idle]
BY DEF TxInv, SessionsTyped, End

\* A worker without a command claims nothing.
LEMMA IdleKnows ==
  ASSUME NEW t, NEW locks, NEW users, NEW orders
  PROVE  Idle \in SessionRow /\ Knows(t, Idle, locks, users, orders)
BY DEF Idle, SessionRow, Knows, Sent, UserHeld, OrderHeld, Found, Places

\* The transaction reads on, holding at most one more row.
LEMMA Reads ==
  ASSUME TxInv, NEW t \in Workers, NEW y \in SessionRow,
         UNCHANGED <<vars, delivered>>, todo' \subseteq Orders,
         session' = [session EXCEPT ![t] = y],
         lock' \in [Rows -> Workers \cup {None}],
         \A q \in Rows : lock[q] \in Workers => lock'[q] = lock[q],
         Knows(t, y, lock', appUser, chargingOrder),
         \A s \in Workers \ {t} : y.op = "reserve" /\ session[s].op = "reserve"
                                    => session[s].order # y.order
  PROVE  TxInv'
<1>1. UNCHANGED <<appUser, chargingOrder>>
  BY DEF vars
<1>2. \A s \in Workers : Spares(s)
  BY <1>1 DEF Spares
<1>3. delivered' \in [Orders -> Nat]
  BY DEF TxInv, SessionsTyped
<1> QED
  BY <1>1, <1>2, <1>3, Stepped

\* The transaction ends without a change: a refusal, or an abort.
LEMMA Ended ==
  ASSUME TxInv, NEW t \in Workers, End(t), UNCHANGED <<vars, delivered>>,
         todo' \subseteq Orders
  PROVE  TxInv'
<1>1. UNCHANGED <<appUser, chargingOrder>>
  BY DEF vars
<1>2. \A s \in Workers \ {t} : Spares(s)
  BY <1>1, Dropped DEF Spares
<1>3. delivered' \in [Orders -> Nat]
  BY DEF TxInv, SessionsTyped
<1>4. Idle.op # "reserve"
  BY DEF Idle
<1> QED
  BY <1>2, <1>3, <1>4, Dropped, IdleKnows, Stepped

\* A refusal rolls back and commits nothing.
LEMMA Refused ==
  ASSUME TxInv, NEW t \in Workers, Refuse(t)
  PROVE  TxInv' /\ UNCHANGED vars
<1>1. todo' \subseteq Orders
  BY DEF Refuse, TxInv, SessionsTyped
<1> QED
  BY <1>1, Ended DEF Refuse

\* The record of the session moves on to another statement of its command.
LEMMA MovesOn ==
  ASSUME TxInv, NEW t \in Workers, NEW y \in SessionRow,
         UNCHANGED <<vars, delivered, todo>>,
         session' = [session EXCEPT ![t] = y],
         lock' \in [Rows -> Workers \cup {None}],
         \A q \in Rows : lock[q] \in Workers => lock'[q] = lock[q],
         y.op = session[t].op, y.order = session[t].order,
         Knows(t, y, lock', appUser, chargingOrder)
  PROVE  TxInv'
<1>1. \A s \in Workers \ {t} : y.op = "reserve" /\ session[s].op = "reserve"
                                 => session[s].order # y.order
  BY DEF TxInv, OwnRows
<1>2. todo' \subseteq Orders
  BY DEF TxInv, SessionsTyped
<1> QED
  BY <1>1, <1>2, Reads

\* The session knows what its record says.
LEMMA Own ==
  ASSUME TxInv, NEW t \in Workers
  PROVE  /\ session[t] \in SessionRow
         /\ Sent(session[t], chargingOrder)
         /\ UserHeld(t, session[t], lock, appUser)
         /\ OrderHeld(t, session[t], lock, chargingOrder)
         /\ Found(t, session[t], lock, chargingOrder)
         /\ \A q \in Rows : lock[q] = t => lock[q] \in Workers
BY DEF TxInv, SessionsTyped, Knows

\* To lock the user reads the committed row.
LEMMA LockUserStep ==
  ASSUME TxInv, NEW t \in Workers, LockUser(t)
  PROVE  TxInv' /\ UNCHANGED vars
<1> DEFINE x == session[t]
           at == IF x.op = "reserve" THEN "active" ELSE "order"
           row == appUser[x.user]
           y == [x EXCEPT !.at = at, !.urow = row]
<1>1. /\ x.at = "user" /\ Free(t, x.user)
      /\ IF Admits(x) THEN Hold(t, x.user, y) ELSE Refuse(t)
  BY DEF LockUser
<1>2. /\ x \in SessionRow /\ Sent(x, chargingOrder)
      /\ Found(t, x, lock, chargingOrder)
  BY Own
<1>3. x.op \in {"reserve", "start", "pay", "settle"} /\ x.user \in Users
  BY <1>1, <1>2 DEF Sent, Places
<1>4. row \in UserRow /\ at \in {"active", "order"} /\ y = [x EXCEPT !.at = at, !.urow = row]
  BY <1>3, Typed DEF TxInv, TablesInv
<1> HIDE DEF x, y, at, row
<1>5. /\ Same(x, y) /\ y.old = x.old /\ y.urow = row /\ y.at = at
  BY <1>2, <1>4 DEF SessionRow, Same
<1> USE DEF at, row
<1>6. CASE ~Admits(x)
  BY <1>1, <1>6, Refused
<1>7. CASE Admits(x)
  <2>1. Hold(t, x.user, y)
    BY <1>1, <1>7 DEF x, y
  <2>2. /\ lock' = [lock EXCEPT ![x.user] = t] /\ session' = [session EXCEPT ![t] = y]
        /\ UNCHANGED <<vars, delivered, todo>>
    BY <2>1 DEF Hold, TakeRow
  <2>3. /\ lock' \in [Rows -> Workers \cup {None}] /\ lock'[x.user] = t
        /\ \A q \in Rows : lock[q] \in Workers => lock'[q] = lock[q]
    BY <1>1, <1>3, <2>2, Taken, Named
  <2>4. Sent(y, chargingOrder)
    BY <1>1, <1>2, <1>3, <1>5 DEF Sent, Places, Same
  <2>5. UserHeld(t, y, lock', appUser)
    BY <1>5, <1>7, <2>3 DEF UserHeld, Admits, Same, x
  <2>6. OrderHeld(t, y, lock', chargingOrder)
    BY <1>3, <1>5 DEF OrderHeld, Same
  <2>7. Found(t, y, lock', chargingOrder)
    BY <1>1, <1>2, <1>5, <1>7 DEF Found, Admits, FreshKey, MayBegin, Available, Same
  <2> QED
    BY <1>5, <2>2, <2>3, <2>4, <2>5, <2>6, <2>7, MovesOn DEF Knows, Same, x
<1> QED
  BY <1>6, <1>7

\* To look for active orders locks the one that is found.
LEMMA LockActiveStep ==
  ASSUME TxInv, NEW t \in Workers, LockActive(t)
  PROVE  TxInv' /\ UNCHANGED vars
<1> DEFINE x == session[t]
<1>1. x.at = "active"
  BY DEF LockActive
<1>2. /\ x \in SessionRow /\ Sent(x, chargingOrder)
      /\ UserHeld(t, x, lock, appUser) /\ Found(t, x, lock, chargingOrder)
      /\ \A q \in Rows : lock[q] = t => lock[q] \in Workers
  BY Own
<1>3. x.op = "reserve" /\ x.user \in Users /\ x.old = None /\ lock[x.user] = t
  BY <1>1, <1>2 DEF Sent, Places, Found, UserHeld
<1>4. CASE /\ ActiveOrders(chargingOrder, x.user) = {}
           /\ session' = [session EXCEPT ![t].at = "charger"]
           /\ UNCHANGED <<vars, lock, delivered, phase, todo, calls>>
  <2> DEFINE y == [x EXCEPT !.at = "charger"]
  <2>1. /\ Same(x, y) /\ y.at = "charger" /\ y.old = x.old
        /\ y.urow = x.urow /\ y.orow = x.orow
    BY <1>2, WentOn
  <2>2. session' = [session EXCEPT ![t] = y]
    BY <1>4
  <2> HIDE DEF y
  <2>3. lock' = lock /\ lock \in [Rows -> Workers \cup {None}]
    BY <1>4 DEF TxInv, SessionsTyped
  <2>4. Knows(t, y, lock', appUser, chargingOrder)
    BY <1>1, <1>2, <1>3, <1>4, <2>1, <2>3
       DEF Knows, Sent, Places, UserHeld, OrderHeld, Found, Same
  <2> QED
    BY <1>4, <2>1, <2>2, <2>3, <2>4, MovesOn DEF Same
<1>5. ASSUME NEW old \in ActiveOrders(chargingOrder, x.user), Free(t, old),
             IF chargingOrder[old].status = "reserved" /\ chargingOrder[old].lapsed
             THEN Hold(t, old, [x EXCEPT !.at = "old", !.old = old,
                                         !.orow = chargingOrder[old]])
             ELSE Refuse(t)
      PROVE  TxInv' /\ UNCHANGED vars
  <2> DEFINE y == [x EXCEPT !.at = "old", !.old = old, !.orow = chargingOrder[old]]
  <2>1. old \in Orders /\ chargingOrder[old].user = x.user /\ chargingOrder[old] \in OrderRow
    BY Typed DEF ActiveOrders, TxInv, TablesInv
  <2>5. y = [x EXCEPT !.at = "old", !.old = old, !.orow = chargingOrder[old]]
    OBVIOUS
  <2> HIDE DEF x, y
  <2>2. /\ Same(x, y) /\ y.at = "old" /\ y.old = old
        /\ y.urow = x.urow /\ y.orow = chargingOrder[old]
    BY <1>2, <2>1, <2>5 DEF SessionRow, Same
  <2>3. CASE chargingOrder[old].status = "reserved" /\ chargingOrder[old].lapsed
    <3>1. Hold(t, old, y)
      BY <1>5, <2>3 DEF x, y
    <3>2. /\ lock' = [lock EXCEPT ![old] = t] /\ session' = [session EXCEPT ![t] = y]
          /\ UNCHANGED <<vars, delivered, todo>>
      BY <3>1 DEF Hold, TakeRow
    <3>3. /\ lock' \in [Rows -> Workers \cup {None}] /\ lock'[old] = t
          /\ \A q \in Rows : lock[q] \in Workers => lock'[q] = lock[q]
      BY <1>5, <2>1, <3>2, Taken, Named
    <3>4. lock'[x.user] = t
      BY <1>2, <1>3, <3>3, Named
    <3>5. Sent(y, chargingOrder)
      BY <1>1, <1>2, <1>3, <2>2 DEF Sent, Places, Same
    <3>6. UserHeld(t, y, lock', appUser) /\ OrderHeld(t, y, lock', chargingOrder)
      BY <1>1, <1>2, <1>3, <2>2, <3>4 DEF UserHeld, OrderHeld, Same
    <3>7. Found(t, y, lock', chargingOrder)
      BY <1>1, <1>2, <1>3, <2>1, <2>2, <2>3, <3>3, Named DEF Found, Same
    <3> QED
      BY <2>2, <3>2, <3>3, <3>5, <3>6, <3>7, MovesOn DEF Knows, Same, x
  <2>4. CASE ~(chargingOrder[old].status = "reserved" /\ chargingOrder[old].lapsed)
    BY <1>5, <2>4, Refused
  <2> QED
    BY <2>3, <2>4
<1> QED
  BY <1>4, <1>5 DEF LockActive

\* To lock the order that a reservation is to replace reads the committed row.
LEMMA LockOldStep ==
  ASSUME TxInv, NEW t \in Workers, LockOld(t)
  PROVE  TxInv' /\ UNCHANGED vars
<1> DEFINE x == session[t]
           r == x.orow.charger
           y == [x EXCEPT !.at = "charger"]
<1>1. x.at = "old" /\ Free(t, r) /\ Hold(t, r, y)
  BY DEF LockOld
<1>2. /\ x \in SessionRow /\ Sent(x, chargingOrder)
      /\ UserHeld(t, x, lock, appUser) /\ Found(t, x, lock, chargingOrder)
      /\ \A q \in Rows : lock[q] = t => lock[q] \in Workers
  BY Own
<1>3. x.op = "reserve" /\ x.user \in Users /\ x.old # None /\ lock[x.user] = t
  BY <1>1, <1>2 DEF Sent, Places, Found, UserHeld
<1>4. x.old \in Orders /\ lock[x.old] = t /\ r \in Rows
  <2>1. x.old \in Orders /\ lock[x.old] = t
        /\ x.orow = chargingOrder[x.old] /\ x.orow.status = "reserved"
    BY <1>2, <1>3 DEF Found, SessionRow
  <2> QED
    BY <2>1, Typed, Named DEF TxInv, TablesInv
<1> HIDE DEF x, r
<1>5. /\ Same(x, y) /\ y.at = "charger" /\ y.old = x.old
      /\ y.urow = x.urow /\ y.orow = x.orow
  BY <1>2, WentOn
<1> HIDE DEF y
<1>6. /\ lock' = [lock EXCEPT ![r] = t] /\ session' = [session EXCEPT ![t] = y]
      /\ UNCHANGED <<vars, delivered, todo>>
  BY <1>1 DEF Hold, TakeRow
<1>7. /\ lock' \in [Rows -> Workers \cup {None}]
      /\ \A q \in Rows : lock[q] \in Workers => lock'[q] = lock[q]
  BY <1>1, <1>4, <1>6, Taken
<1>8. lock'[x.user] = t /\ lock'[x.old] = t
  BY <1>2, <1>3, <1>4, <1>7, Named
<1>9. Knows(t, y, lock', appUser, chargingOrder)
  BY <1>1, <1>2, <1>3, <1>5, <1>8
     DEF Knows, Sent, Places, UserHeld, OrderHeld, Found, Same
<1> QED
  BY <1>5, <1>6, <1>7, <1>9, MovesOn DEF Same, x

\* To lock the order reads the committed row.
LEMMA LockOrderStep ==
  ASSUME TxInv, NEW t \in Workers, LockOrder(t)
  PROVE  TxInv' /\ UNCHANGED vars
<1> DEFINE x == session[t]
           row == chargingOrder[x.order]
           y == [x EXCEPT !.at = "charger", !.orow = row]
<1>1. /\ x.at = "order" /\ x.op # "pay" /\ Free(t, x.order)
      /\ IF Accepts(x, row) THEN Hold(t, x.order, y) ELSE Refuse(t)
  BY DEF LockOrder
<1>2. /\ x \in SessionRow /\ Sent(x, chargingOrder)
      /\ UserHeld(t, x, lock, appUser) /\ Found(t, x, lock, chargingOrder)
      /\ \A q \in Rows : lock[q] = t => lock[q] \in Workers
  BY Own
<1>3. x.op \in {"start", "settle", "cancel"} /\ x.order \in Orders /\ x.user \in Users
  BY <1>1, <1>2 DEF Sent, Places
<1>4. row \in OrderRow
  BY <1>3, Typed DEF TxInv, TablesInv
<1>5. CASE ~Accepts(x, row)
  BY <1>1, <1>5, Refused
<1>6. CASE Accepts(x, row)
  <2>1. Hold(t, x.order, y)
    BY <1>1, <1>6
  <2>2. y = [x EXCEPT !.at = "charger", !.orow = row]
    OBVIOUS
  <2> HIDE DEF x, y, row
  <2>3. /\ Same(x, y) /\ y.at = "charger" /\ y.old = x.old
        /\ y.urow = x.urow /\ y.orow = row
    BY <1>2, <1>4, <2>2 DEF SessionRow, Same
  <2>4. /\ lock' = [lock EXCEPT ![x.order] = t] /\ session' = [session EXCEPT ![t] = y]
        /\ UNCHANGED <<vars, delivered, todo>>
    BY <2>1 DEF Hold, TakeRow
  <2>5. /\ lock' \in [Rows -> Workers \cup {None}] /\ lock'[x.order] = t
        /\ \A q \in Rows : lock[q] \in Workers => lock'[q] = lock[q]
    BY <1>1, <1>3, <2>4, Taken, Named
  <2>6. Sent(y, chargingOrder)
    BY <1>2, <1>3, <2>3 DEF Sent, Places, Same
  <2>7. UserHeld(t, y, lock', appUser)
    <3> SUFFICES ASSUME x.op \in {"start", "settle"}
                 PROVE  UserHeld(t, y, lock', appUser)
      BY <1>3, <2>3 DEF UserHeld, Same
    <3>1. lock'[x.user] = t
      BY <1>1, <1>2, <1>3, <2>5, Named DEF UserHeld
    <3> QED
      BY <1>1, <1>2, <1>6, <2>3, <3>1 DEF UserHeld, Accepts, Same
  <2>8. OrderHeld(t, y, lock', chargingOrder)
    BY <1>3, <1>6, <2>3, <2>5 DEF OrderHeld, Accepts, Same, row
  <2>9. Found(t, y, lock', chargingOrder)
    BY <1>3, <2>3 DEF Found, Same
  <2> QED
    BY <2>3, <2>4, <2>5, <2>6, <2>7, <2>8, <2>9, MovesOn DEF Knows, Same, x
<1> QED
  BY <1>5, <1>6

\* To lock the charger commits nothing.
LEMMA LockChargerStep ==
  ASSUME TxInv, NEW t \in Workers, LockCharger(t)
  PROVE  TxInv' /\ UNCHANGED vars
<1> DEFINE x == session[t]
           r == x.orow.charger
           y == [x EXCEPT !.at = "event"]
<1>1. /\ x.at = "charger" /\ x.op \in {"cancel", "expire"}
      /\ Free(t, r) /\ Hold(t, r, y)
  BY DEF LockCharger
<1>2. /\ x \in SessionRow /\ Sent(x, chargingOrder)
      /\ OrderHeld(t, x, lock, chargingOrder) /\ Found(t, x, lock, chargingOrder)
      /\ \A q \in Rows : lock[q] = t => lock[q] \in Workers
  BY Own
<1>3. x.order \in Orders /\ lock[x.order] = t /\ r \in Rows
  <2>1. x.order \in Orders /\ lock[x.order] = t
        /\ x.orow = chargingOrder[x.order] /\ x.orow.status = "reserved"
    BY <1>1, <1>2 DEF Sent, OrderHeld
  <2> QED
    BY <2>1, Typed, Named DEF TxInv, TablesInv
<1> HIDE DEF x, r
<1>4. /\ Same(x, y) /\ y.at = "event" /\ y.old = x.old
      /\ y.urow = x.urow /\ y.orow = x.orow
  BY <1>2, WentOn
<1> HIDE DEF y
<1>5. /\ lock' = [lock EXCEPT ![r] = t] /\ session' = [session EXCEPT ![t] = y]
      /\ UNCHANGED <<vars, delivered, todo>>
  BY <1>1 DEF Hold, TakeRow
<1>6. /\ lock' \in [Rows -> Workers \cup {None}]
      /\ \A q \in Rows : lock[q] \in Workers => lock'[q] = lock[q]
  BY <1>1, <1>3, <1>5, Taken
<1>7. lock'[x.order] = t
  BY <1>2, <1>3, <1>6, Named
<1>8. Knows(t, y, lock', appUser, chargingOrder)
  BY <1>1, <1>2, <1>4, <1>7
     DEF Knows, Sent, Places, UserHeld, OrderHeld, Found, Same
<1> QED
  BY <1>4, <1>5, <1>6, <1>8, MovesOn DEF Same, x
-----------------------------------------------------------------------------
(* The commits: each is a command of ChargingCore. *)

\* A commit that writes rows of t, and fills the order that t has inserted.
LEMMA Committed ==
  ASSUME TxInv, NEW t \in Workers, [Next]_vars, Commit(t),
         \A u \in Users : lock[u] \notin {t, None} => appUser'[u] = appUser[u],
         \A o \in Orders : chargingOrder[o].status # "none" /\ lock[o] \notin {t, None}
                             => chargingOrder'[o] = chargingOrder[o],
         \A o \in Orders :
           chargingOrder[o].status = "none" /\ chargingOrder'[o] # chargingOrder[o]
             => /\ session[t].op = "reserve" /\ session[t].order = o
                /\ lock[chargingOrder'[o].user] = t
  PROVE  TxInv'
<1>1. End(t) /\ UNCHANGED <<delivered, phase, todo, calls>>
  BY DEF Commit
<1>2. \A s \in Workers \ {t} : Spares(s)
  <2> SUFFICES ASSUME NEW s \in Workers \ {t} PROVE Spares(s)
    OBVIOUS
  <2>1. s # None /\ s # t
    BY Named
  <2> QED
    BY <1>1, <2>1, Dropped DEF Spares, TxInv, OwnRows
<1>3. delivered' \in [Orders -> Nat] /\ todo' \subseteq Orders
  BY <1>1 DEF TxInv, SessionsTyped
<1>4. Idle.op # "reserve"
  BY DEF Idle
<1> QED
  BY <1>1, <1>2, <1>3, <1>4, Dropped, IdleKnows, Stepped

\* One order in use is written, and no user.
LEMMA CommittedOrder ==
  ASSUME TxInv, NEW t \in Workers, [Next]_vars, Commit(t), UNCHANGED appUser,
         NEW o \in Orders, lock[o] \in {t, None}, chargingOrder[o].status # "none",
         NEW row, chargingOrder' = [chargingOrder EXCEPT ![o] = row]
  PROVE  TxInv'
<1>1. \A p \in Orders : p # o => chargingOrder'[p] = chargingOrder[p]
  BY Typed DEF TxInv, TablesInv
<1> QED
  BY <1>1, Committed

\* One order in use is written, and its user.
LEMMA CommittedBoth ==
  ASSUME TxInv, NEW t \in Workers, [Next]_vars, Commit(t),
         NEW u \in Users, lock[u] \in {t, None}, NEW urow,
         appUser' = [appUser EXCEPT ![u] = urow],
         NEW o \in Orders, lock[o] \in {t, None}, chargingOrder[o].status # "none",
         NEW row, chargingOrder' = [chargingOrder EXCEPT ![o] = row]
  PROVE  TxInv'
<1>1. /\ \A p \in Orders : p # o => chargingOrder'[p] = chargingOrder[p]
      /\ \A v \in Users : v # u => appUser'[v] = appUser[v]
  BY Typed DEF TxInv, TablesInv
<1> QED
  BY <1>1, Committed

\* reserve, with its own cancellation if it made one.
LEMMA CommitReserveStep ==
  ASSUME TxInv, NEW t \in Workers, CommitReserve(t)
  PROVE  TxInv' /\ [Next]_vars
<1> DEFINE x       == session[t]
           initial == IF x.urow.plate # None \/ x.request = None
                      THEN x.urow.soc ELSE x.request.soc
           target  == IF x.request = None THEN x.urow.limit ELSE x.request.target
           placed  == [status |-> "reserved", user |-> x.user, charger |-> x.charger,
                       key |-> x.key, lapsed |-> FALSE, plate |-> x.urow.plate,
                       initial |-> initial, target |-> target - initial,
                       energy |-> 0, amount |-> 0, reason |-> None]
<1>1. /\ x.at = "charger" /\ x.op = "reserve"
      /\ \/ Refuse(t)
         \/ /\ OwnChargers(x)[x.charger].status = "available" /\ initial < target
            /\ chargingOrder' = [OwnOrders(x) EXCEPT ![x.order] = placed]
            /\ charger' = [OwnChargers(x) EXCEPT ![x.charger].status = "reserved"]
            /\ UNCHANGED <<appUser, walletEntry, withdrawalRequest>>
            /\ Commit(t)
  BY DEF CommitReserve
<1>2. CASE Refuse(t)
  BY <1>2, Refused
<1>3. CASE /\ OwnChargers(x)[x.charger].status = "available" /\ initial < target
           /\ chargingOrder' = [OwnOrders(x) EXCEPT ![x.order] = placed]
           /\ charger' = [OwnChargers(x) EXCEPT ![x.charger].status = "reserved"]
           /\ UNCHANGED <<appUser, walletEntry, withdrawalRequest>>
           /\ Commit(t)
  <2>1. /\ x \in SessionRow /\ Sent(x, chargingOrder)
        /\ UserHeld(t, x, lock, appUser) /\ Found(t, x, lock, chargingOrder)
    BY Own
  <2>2. /\ x.user \in Users /\ x.charger \in Chargers /\ x.key \in Keys
        /\ x.order \in Orders /\ chargingOrder[x.order].status = "none"
        /\ x.request \in SocRequests \cup {None}
        /\ lock[x.user] = t /\ x.urow = appUser[x.user]
    BY <1>1, <2>1 DEF Sent, UserHeld, SessionRow
  <2>3. FreshKey(x.user, x.key) /\ MayBegin(x.user)
    BY <1>1, <2>1, <2>2 DEF Found, FreshKey, MayBegin, Available
  <2>4. placed.user = x.user
    OBVIOUS
  <2>5. chargingOrder \in [Orders -> OrderRow]
    BY Typed DEF TxInv, TablesInv
  <2>6. CASE x.old = None
    <3>1. OwnOrders(x) = chargingOrder /\ OwnChargers(x) = charger
      BY <2>6 DEF OwnOrders, OwnChargers
    <3>2. Place(chargingOrder, charger, x.user, x.charger, x.key, x.request, x.order)
      BY <1>3, <2>2, <3>1 DEF Place
    <3>3. ActiveOrders(chargingOrder, x.user) = {}
      BY <1>1, <2>1, <2>6 DEF Found
    <3>4. Reserve(x.user, x.charger, x.key, x.request, x.order)
      BY <2>3, <3>2, <3>3 DEF Reserve
    <3>5. Next
      BY <2>2, <3>4 DEF Next, OrderStep
    <3> HIDE DEF placed
    <3>6. /\ chargingOrder'[x.order] = placed
          /\ \A p \in Orders : p # x.order => chargingOrder'[p] = chargingOrder[p]
      BY <1>3, <2>2, <2>5, <3>1
    <3> QED
      BY <1>1, <1>3, <2>2, <2>4, <3>5, <3>6, Committed
  <2>7. CASE x.old # None
    <3>1. /\ x.old \in Orders /\ lock[x.old] = t /\ x.orow = chargingOrder[x.old]
          /\ x.orow.user = x.user /\ x.orow.status = "reserved" /\ x.orow.lapsed
      BY <1>1, <2>1, <2>7 DEF Found, SessionRow
    <3>2. /\ OwnOrders(x) = Cancelled(chargingOrder, x.old, "reservation_expired")
          /\ OwnChargers(x) = Released(charger, chargingOrder[x.old].charger)
      BY <2>7, <3>1 DEF OwnOrders, OwnChargers, Cancelling
    <3>3. x.order # x.old
      BY <2>2, <3>1
    <3>4. \A p \in Orders : p # x.old => OwnOrders(x)[p] = chargingOrder[p]
      BY <2>5, <3>1, <3>2 DEF Cancelled
    <3>5. Place(OwnOrders(x), OwnChargers(x), x.user, x.charger, x.key, x.request, x.order)
      BY <1>3, <2>2, <3>3, <3>4 DEF Place
    <3>6. ReserveAgain(x.user, x.charger, x.key, x.request, x.order, x.old)
      BY <2>3, <3>1, <3>2, <3>5 DEF ReserveAgain, ActiveOrders, Unfinished
    <3>7. Next
      BY <2>2, <3>1, <3>6 DEF Next, OrderStep
    <3>8. DOMAIN OwnOrders(x) = Orders
      BY <2>5, <3>2 DEF Cancelled
    <3> HIDE DEF placed
    <3>9. /\ chargingOrder'[x.order] = placed
          /\ \A p \in Orders : p # x.order /\ p # x.old
                                 => chargingOrder'[p] = chargingOrder[p]
      BY <1>3, <2>2, <3>4, <3>8
    <3> QED
      BY <1>1, <1>3, <2>2, <2>4, <3>1, <3>7, <3>9, Committed
  <2> QED
    BY <2>6, <2>7
<1> QED
  BY <1>1, <1>2, <1>3

\* start, or its cancellation of a lapsed reservation.
LEMMA CommitStartStep ==
  ASSUME TxInv, NEW t \in Workers, CommitStart(t)
  PROVE  TxInv' /\ [Next]_vars
<1> DEFINE x == session[t]
<1>1. /\ x.at = "charger" /\ x.op = "start"
  BY DEF CommitStart
<1>2. /\ x.order \in Orders /\ x.user \in Users /\ chargingOrder[x.order].user = x.user
      /\ lock[x.user] = t /\ x.urow = appUser[x.user]
      /\ x.urow.status = "active" /\ x.urow.balance - x.urow.held >= MinimumStart
      /\ lock[x.order] = t /\ x.orow = chargingOrder[x.order]
      /\ x.orow.status = "reserved"
  BY <1>1, Own DEF Sent, UserHeld, OrderHeld
<1>3. MayBegin(x.user)
  BY <1>2 DEF MayBegin, Available
<1>4. CASE Refuse(t)
  BY <1>4, Refused
<1>5. CASE /\ x.orow.lapsed
           /\ chargingOrder' = Cancelling(chargingOrder, x.order, "reservation_expired")
           /\ charger' = Released(charger, x.orow.charger)
           /\ UNCHANGED <<appUser, walletEntry, withdrawalRequest>>
           /\ Commit(t)
  <2>1. chargingOrder' = Cancelled(chargingOrder, x.order, "reservation_expired")
    BY <1>2, <1>5 DEF Cancelling
  <2>2. StartLapsed(x.user, x.order)
    BY <1>2, <1>3, <1>5, <2>1 DEF StartLapsed, CancelReserved
  <2>3. Next
    BY <1>2, <2>2 DEF Next, OrderStep
  <2>4. PICK row : chargingOrder' = [chargingOrder EXCEPT ![x.order] = row]
    BY <2>1 DEF Cancelled
  <2> QED
    BY <1>2, <1>5, <2>3, <2>4, CommittedOrder
<1>6. CASE /\ ~x.orow.lapsed
           /\ chargingOrder' = [chargingOrder EXCEPT ![x.order].status = "charging"]
           /\ charger' = [charger EXCEPT ![x.orow.charger].status = "charging"]
           /\ UNCHANGED <<appUser, walletEntry, withdrawalRequest>>
           /\ Commit(t)
  <2>1. Start(x.user, x.order)
    BY <1>2, <1>3, <1>6 DEF Start
  <2>2. Next
    BY <1>2, <2>1 DEF Next, OrderStep
  <2>3. PICK row : chargingOrder' = [chargingOrder EXCEPT ![x.order] = row]
    BY <1>6
  <2> QED
    BY <1>2, <1>6, <2>2, <2>3, CommittedOrder
<1> QED
  BY <1>4, <1>5, <1>6 DEF CommitStart

\* cancel, and the expiry of a reservation by the coordinator.
LEMMA CommitCancelStep ==
  ASSUME TxInv, NEW t \in Workers, CommitCancel(t)
  PROVE  TxInv' /\ [Next]_vars
<1> DEFINE x == session[t]
<1>1. /\ x.at = "event"
      /\ chargingOrder' = Cancelling(chargingOrder, x.order, x.reason)
      /\ charger' = Released(charger, x.orow.charger)
      /\ UNCHANGED <<appUser, walletEntry, withdrawalRequest>>
      /\ Commit(t)
  BY DEF CommitCancel
<1>2. /\ x.op \in {"cancel", "expire"} /\ x.order \in Orders
      /\ x.op = "cancel" => /\ x.user \in Users /\ chargingOrder[x.order].user = x.user
                            /\ x.reason = "user_cancelled"
      /\ x.op = "expire" => x.reason = "reservation_expired" /\ x.orow.lapsed
      /\ lock[x.order] = t /\ x.orow = chargingOrder[x.order]
      /\ x.orow.status = "reserved"
  <2>1. x.op \in {"cancel", "expire"} /\ x.order \in Orders
    BY <1>1, Own DEF Sent, Places
  <2> QED
    BY <1>1, <2>1, Own DEF Sent, OrderHeld
<1>3. CancelReserved(x.order, x.reason)
  BY <1>1, <1>2 DEF CancelReserved, Cancelling
<1>4. Next
  <2>1. CASE x.op = "cancel"
    <3>1. Cancel(x.user, x.order)
      BY <1>2, <1>3, <2>1 DEF Cancel
    <3> QED
      BY <1>2, <2>1, <3>1 DEF Next, OrderStep
  <2>2. CASE x.op = "expire"
    <3>1. Expire(x.order)
      BY <1>2, <1>3, <2>2 DEF Expire
    <3> QED
      BY <1>2, <3>1 DEF Next, OrderStep
  <2> QED
    BY <1>2, <2>1, <2>2
<1>5. PICK row : chargingOrder' = [chargingOrder EXCEPT ![x.order] = row]
  BY <1>3 DEF CancelReserved, Cancelled
<1> QED
  BY <1>1, <1>2, <1>4, <1>5, CommittedOrder

\* The meter of ChargingTx answers a bill that the meter of the commands may.
LEMMA MeterBills ==
  ASSUME NEW row \in OrderRow, NEW energy \in Nat, NEW budget \in Nat
  PROVE  Meter(row, energy, budget) \in Bills(row.target, budget)
<1>1. row.target \in Nat
  BY VehicleAssumption DEF OrderRow
<1> DEFINE want == IF energy >= row.target THEN row.target ELSE energy
<1>2. want \in Nat /\ want <= row.target /\ (energy >= row.target => want = row.target)
  BY <1>1
<1>3. CASE want >= budget
  <2>1. Meter(row, energy, budget)
          = [energy |-> budget, amount |-> budget, cap |-> "balance_exhausted"]
    BY <1>3 DEF Meter
  <2> QED
    BY <1>1, <1>2, <1>3, <2>1 DEF Bills
<1>4. CASE ~(want >= budget)
  <2> DEFINE cap == IF energy >= row.target THEN "target_reached" ELSE None
  <2>1. Meter(row, energy, budget) = [energy |-> want, amount |-> want, cap |-> cap]
    BY <1>4 DEF Meter
  <2>2. cap \in {None, "target_reached", "balance_exhausted"}
        /\ (cap = "target_reached" => want = row.target)
        /\ (cap = "balance_exhausted" => want = budget)
    BY <1>2, NoneAssumption
  <2> HIDE DEF want, cap
  <2> QED
    BY <1>1, <1>2, <1>4, <2>1, <2>2 DEF Bills
<1> QED
  BY <1>3, <1>4

\* stop, and the settlement of a capped order by the coordinator.
LEMMA CommitSettleStep ==
  ASSUME TxInv, NEW t \in Workers, CommitSettle(t)
  PROVE  TxInv' /\ [Next]_vars
<1> DEFINE x == session[t]
           o == x.order
           u == x.orow.user
           c == x.orow.charger
           b == Meter(x.orow, x.seen, x.urow.balance - x.urow.held)
           orow == [chargingOrder[o] EXCEPT !.status = "pending_payment", !.energy = b.energy,
                      !.amount = b.amount,
                      !.reason = IF b.cap # None THEN b.cap ELSE x.reason]
           urow == [appUser[u] EXCEPT !.held = appUser[u].held + b.amount,
                      !.soc = IF x.urow.plate = x.orow.plate
                              THEN x.orow.initial + b.energy ELSE appUser[u].soc]
<1>1. /\ x.at = "charger" /\ x.op = "settle"
      /\ chargingOrder' = [chargingOrder EXCEPT ![o] = orow]
      /\ charger' = [charger EXCEPT ![c] =
           [@ EXCEPT !.status = "available", !.sessions = charger[c].sessions + 1]]
      /\ appUser' = [appUser EXCEPT ![u] = urow]
      /\ UNCHANGED <<walletEntry, withdrawalRequest>>
      /\ Commit(t)
  BY DEF CommitSettle
<1>2. /\ o \in Orders /\ x.user \in Users /\ chargingOrder[o].user = x.user
      /\ x.reason \in {"user_stopped", "target_reached", "balance_exhausted"}
      /\ lock[x.user] = t /\ x.urow = appUser[x.user]
      /\ lock[o] = t /\ x.orow = chargingOrder[o] /\ x.orow.status = "charging"
      /\ x.seen \in Nat
  BY <1>1, Own DEF Sent, UserHeld, OrderHeld, SessionRow
<1>3. u = x.user /\ x.orow \in OrderRow
  BY <1>2, Typed DEF TxInv, TablesInv
<1>4. Available(u) = x.urow.balance - x.urow.held /\ Available(u) \in Nat
  BY <1>2, <1>3, Typed DEF Available, TxInv, TablesInv, MoneyInv, HoldsBacked
<1>5. b \in Bills(chargingOrder[o].target, Available(u))
  BY <1>2, <1>3, <1>4, MeterBills
<1> HIDE DEF b
<1>6. Settle(o, x.reason)
  <2>1. u = chargingOrder[o].user /\ c = chargingOrder[o].charger
        /\ x.orow.plate = chargingOrder[o].plate /\ x.orow.initial = chargingOrder[o].initial
        /\ x.urow.plate = appUser[u].plate /\ chargingOrder[o].status = "charging"
    BY <1>2, <1>3
  <2> HIDE DEF x, u, o, c
  <2> QED
    BY <1>1, <1>5, <2>1 DEF Settle
<1>7. Next
  <2>1. CASE x.reason = "user_stopped"
    <3>1. Stop(x.user, o)
      BY <1>2, <1>6, <2>1 DEF Stop
    <3> QED
      BY <1>2, <3>1 DEF Next, OrderStep
  <2>2. CASE x.reason # "user_stopped"
    <3>1. CapStop(o)
      BY <1>2, <1>6, <2>2 DEF CapStop
    <3> QED
      BY <1>2, <3>1 DEF Next, OrderStep
  <2> QED
    BY <2>1, <2>2
<1>8. chargingOrder[o].status # "none"
  BY <1>2
<1> HIDE DEF x, u, o, orow, urow
<1> QED
  BY <1>1, <1>2, <1>3, <1>7, <1>8, CommittedBoth

\* The commit of a payment is the payment of the core.
LEMMA CommitPayStep ==
  ASSUME TxInv, NEW t \in Workers, CommitPay(t)
  PROVE  TxInv' /\ [Next]_vars
<1> DEFINE x == session[t]
           o == x.order
           u == x.user
           row == chargingOrder[o]
           balance == x.urow.balance - row.amount
           urow == [appUser[u] EXCEPT !.balance = balance,
                                      !.held = appUser[u].held - row.amount]
           Paid == /\ row.user = u /\ row.status = "pending_payment"
                   /\ x.urow.balance >= row.amount /\ x.urow.held >= row.amount
                   /\ appUser' = [appUser EXCEPT ![u] = urow]
                   /\ IF row.amount > 0
                      THEN Post(u, Entry(o, "charge", -row.amount, balance, o))
                      ELSE UNCHANGED walletEntry
                   /\ chargingOrder' = [chargingOrder EXCEPT ![o].status = "completed"]
                   /\ UNCHANGED <<charger, withdrawalRequest>>
                   /\ Commit(t)
<1>1. x.at = "order" /\ x.op = "pay" /\ Free(t, o) /\ (Paid \/ Refuse(t))
  BY DEF CommitPay
<1>2. /\ o \in Orders /\ u \in Users
      /\ lock[u] = t /\ x.urow = appUser[u]
  BY <1>1, Own DEF Sent, UserHeld
<1>3. CASE Refuse(t)
  BY <1>3, Refused
<1>4. CASE Paid
  <2>1. Pay(u, o)
    BY <1>2, <1>4 DEF Pay
  <2>2. Next
    BY <1>2, <2>1 DEF Next, OrderStep
  <2>3. lock[o] \in {t, None} /\ chargingOrder[o].status # "none"
    BY <1>1, <1>4 DEF Free
  <2>4. PICK orow : chargingOrder' = [chargingOrder EXCEPT ![o] = orow]
    BY <1>4
  <2>5. appUser' = [appUser EXCEPT ![u] = urow] /\ Commit(t)
    BY <1>4
  <2> HIDE DEF x, o, u, urow
  <2> QED
    BY <1>2, <2>2, <2>3, <2>4, <2>5, CommittedBoth
<1> QED
  BY <1>1, <1>3, <1>4

\* Every statement of a session: it reads, or it commits a command.
LEMMA StatementStep ==
  ASSUME TxInv, NEW t \in Workers, Statement(t)
  PROVE  TxInv' /\ [Next]_vars
BY LockUserStep, LockActiveStep, LockOldStep, LockOrderStep, LockChargerStep,
   CommitReserveStep, CommitStartStep, CommitCancelStep, CommitSettleStep,
   CommitPayStep DEF Statement
-----------------------------------------------------------------------------
(* The commands that lock one row, and time. *)

\* The locks stay and at most one user changes, one that no session holds.
LEMMA UserAside ==
  ASSUME TxInv, [Next]_vars, UNCHANGED <<txVars, chargingOrder>>,
         NEW u \in Users, lock[u] = None, NEW row,
         appUser' = [appUser EXCEPT ![u] = row]
  PROVE  TxInv'
<1>1. \A v \in Users : v # u => appUser'[v] = appUser[v]
  BY Typed DEF TxInv, TablesInv
<1>2. \A s \in Workers : Spares(s)
  BY <1>1, Named DEF Spares, txVars
<1> QED
  BY <1>2, Aside DEF txVars, TxInv, SessionsTyped

\* Commands of the core on other tables disturb no transaction.
LEMMA TablesAside ==
  ASSUME TxInv, [Next]_vars, UNCHANGED <<txVars, chargingOrder, appUser>>
  PROVE  TxInv'
<1>1. \A s \in Workers : Spares(s)
  BY DEF Spares, txVars
<1> QED
  BY <1>1, Aside DEF txVars, TxInv, SessionsTyped

\* A command of one statement is a command of the core, and waits for the locks it
\* needs.
LEMMA OneRowStepKeeps ==
  ASSUME TxInv, OneRowStep
  PROVE  TxInv' /\ [Next]_vars
<1>1. UNCHANGED txVars
  BY DEF OneRowStep
<1>2. ASSUME NEW u \in Users, lock[u] = None, NEW k \in Keys, NEW a \in Amounts,
             Recharge(u, k, a) \/ \E w \in Withdrawals : Withdraw(u, k, a, w)
      PROVE  TxInv' /\ [Next]_vars
  <2>1. Next
    BY <1>2 DEF Next, AccountStep
  <2>2. (\E row : appUser' = [appUser EXCEPT ![u] = row]) /\ UNCHANGED chargingOrder
    BY <1>2 DEF Recharge, Withdraw
  <2> QED
    BY <1>1, <1>2, <2>1, <2>2, UserAside
<1>3. ASSUME NEW u \in Users, lock[u] = None, NEW profile \in Profiles,
             SaveVehicle(u, profile)
      PROVE  TxInv' /\ [Next]_vars
  <2>1. Next
    BY <1>3 DEF Next, AccountStep
  <2>2. (\E row : appUser' = [appUser EXCEPT ![u] = row]) /\ UNCHANGED chargingOrder
    BY <1>3 DEF SaveVehicle
  <2> QED
    BY <1>1, <1>3, <2>1, <2>2, UserAside
<1>4. ASSUME NEW u \in Users, lock[u] = None, NEW k \in Keys, NEW a \in Adjustments,
             Adjust(u, k, a) \/ \E o \in Orders : Refund(u, k, o, a)
      PROVE  TxInv' /\ [Next]_vars
  <2>1. Next
    BY <1>4 DEF Next, AdminStep
  <2>2. (\E row : appUser' = [appUser EXCEPT ![u] = row]) /\ UNCHANGED chargingOrder
    BY <1>4 DEF Adjust, Refund
  <2> QED
    BY <1>1, <1>4, <2>1, <2>2, UserAside
<1>5. ASSUME NEW u \in Users, lock[u] = None, NEW status \in {"active", "frozen"},
             SetUserStatus(u, status)
      PROVE  TxInv' /\ [Next]_vars
  <2>1. Next
    BY <1>5 DEF Next, AdminStep
  <2>2. (\E row : appUser' = [appUser EXCEPT ![u] = row]) /\ UNCHANGED chargingOrder
    BY <1>5 DEF SetUserStatus
  <2> QED
    BY <1>1, <1>5, <2>1, <2>2, UserAside
<1>6. ASSUME NEW w \in Withdrawals, withdrawalRequest[w].user \in Users,
             lock[withdrawalRequest[w].user] = None,
             ApproveWithdrawal(w) \/ RejectWithdrawal(w)
      PROVE  TxInv' /\ [Next]_vars
  <2>1. Next
    BY <1>6 DEF Next, AdminStep
  <2>2. /\ \E row : appUser' = [appUser EXCEPT ![withdrawalRequest[w].user] = row]
        /\ UNCHANGED chargingOrder
    BY <1>6 DEF ApproveWithdrawal, RejectWithdrawal
  <2> QED
    BY <1>1, <1>6, <2>1, <2>2, UserAside
<1>7. ASSUME NEW c \in Chargers,
             \/ \E status \in {"available", "faulted"} : SetChargerStatus(c, status)
             \/ \E power \in Powers : ChargerEdit(c, power)
             \/ RestartCharger(c)
      PROVE  TxInv' /\ [Next]_vars
  <2>1. Next
    BY <1>7 DEF Next, AdminStep
  <2>2. UNCHANGED <<chargingOrder, appUser>>
    BY <1>7 DEF SetChargerStatus, ChargerEdit, RestartCharger
  <2> QED
    BY <1>1, <2>1, <2>2, TablesAside
<1> QED
  BY <1>2, <1>3, <1>4, <1>5, <1>6, <1>7 DEF OneRowStep, Unlocked

\* A reservation lapses while nobody has it locked.
LEMMA LapseFreeKeeps ==
  ASSUME TxInv, NEW o \in Orders, LapseFree(o)
  PROVE  TxInv' /\ [Next]_vars
<1>1. lock[o] = None /\ Lapse(o) /\ UNCHANGED txVars
  BY DEF LapseFree, Unlocked
<1>2. Next
  BY <1>1 DEF Next, OrderStep
<1>3. /\ chargingOrder[o].status = "reserved" /\ UNCHANGED appUser
      /\ \A p \in Orders : p # o => chargingOrder'[p] = chargingOrder[p]
  BY <1>1, Typed DEF Lapse, TxInv, TablesInv
<1>4. \A s \in Workers : Spares(s)
  BY <1>1, <1>3, Named DEF Spares, txVars
<1> QED
  BY <1>1, <1>2, <1>4, Aside DEF txVars, TxInv, SessionsTyped

\* Energy is delivered outside of all transactions.
LEMMA DeliverKeeps ==
  ASSUME TxInv, NEW o \in Orders, Deliver(o)
  PROVE  TxInv' /\ UNCHANGED vars
<1>1. /\ delivered' = [delivered EXCEPT ![o] = @ + 1]
      /\ UNCHANGED <<vars, lock, session, phase, todo, calls>>
  BY DEF Deliver
<1>2. delivered' \in [Orders -> Nat]
  BY <1>1 DEF TxInv, SessionsTyped
<1>3. UNCHANGED <<appUser, chargingOrder>>
  BY <1>1 DEF vars
<1>4. \A s \in Workers : Spares(s)
  BY <1>1, <1>3 DEF Spares
<1> QED
  BY <1>1, <1>2, <1>4, Aside DEF TxInv, SessionsTyped
-----------------------------------------------------------------------------
(* Commands arrive, the coordinator works, a deadlock is broken. *)

\* A session takes up a command.
LEMMA Begun ==
  ASSUME TxInv, NEW t \in Workers, NEW y \in SessionRow,
         session' = [session EXCEPT ![t] = y],
         UNCHANGED <<vars, lock, delivered>>, todo' \subseteq Orders,
         Knows(t, y, lock, appUser, chargingOrder),
         \A s \in Workers : y.op = "reserve" => session[s].order # y.order
  PROVE  TxInv'
<1>1. lock' = lock /\ lock' \in [Rows -> Workers \cup {None}]
  BY DEF TxInv, SessionsTyped
<1>2. UNCHANGED <<vars, delivered>> /\ \A q \in Rows : lock[q] \in Workers => lock'[q] = lock[q]
  BY <1>1
<1>3. Knows(t, y, lock', appUser, chargingOrder)
  BY <1>1
<1> QED
  BY <1>1, <1>2, <1>3, Reads

\* A request that arrives begins a transaction without locks.
LEMMA ArriveKeeps ==
  ASSUME TxInv, NEW t \in Sessions, Arrive(t)
  PROVE  TxInv' /\ UNCHANGED vars
<1>1. t \in Workers
  BY DEF Workers
<1>2. ASSUME NEW y, y \in SessionRow, Begin(t, y),
             Knows(t, y, lock, appUser, chargingOrder),
             \A s \in Workers : y.op = "reserve" => session[s].order # y.order
      PROVE  TxInv' /\ UNCHANGED vars
  <2>1. todo' \subseteq Orders
    BY <1>2 DEF Begin, TxInv, SessionsTyped
  <2> QED
    BY <1>1, <1>2, <2>1, Begun DEF Begin
<1>3. \A o \in Orders : delivered[o] \in Nat
  BY DEF TxInv, SessionsTyped
<1>4. ASSUME NEW u \in Users, NEW o \in Orders, NEW admin \in BOOLEAN, BeginStart(t, u, o, admin)
      PROVE  TxInv' /\ UNCHANGED vars
  <2> DEFINE y == [Idle EXCEPT !.op = "start", !.at = "user", !.user = u, !.order = o,
                               !.admin = admin]
  <2>1. Begin(t, y) /\ chargingOrder[o].user = u
    BY <1>4 DEF BeginStart
  <2>2. y \in SessionRow
    BY DEF Idle, SessionRow
  <2>3. Knows(t, y, lock, appUser, chargingOrder) /\ y.op # "reserve"
    BY <2>1 DEF Idle, Knows, Sent, UserHeld, OrderHeld, Found, Places
  <2> HIDE DEF y
  <2> QED
    BY <1>2, <2>1, <2>2, <2>3
<1>5. ASSUME NEW u \in Users, NEW o \in Orders, BeginPay(t, u, o)
      PROVE  TxInv' /\ UNCHANGED vars
  <2> DEFINE y == [Idle EXCEPT !.op = "pay", !.at = "user", !.user = u, !.order = o]
  <2>1. Begin(t, y) /\ chargingOrder[o].user = u
    BY <1>5 DEF BeginPay
  <2>2. y \in SessionRow
    BY DEF Idle, SessionRow
  <2>3. Knows(t, y, lock, appUser, chargingOrder) /\ y.op # "reserve"
    BY <2>1 DEF Idle, Knows, Sent, UserHeld, OrderHeld, Found, Places
  <2> HIDE DEF y
  <2> QED
    BY <1>2, <2>1, <2>2, <2>3
<1>6. ASSUME NEW u \in Users, NEW o \in Orders, BeginStop(t, u, o)
      PROVE  TxInv' /\ UNCHANGED vars
  <2> DEFINE y == [Idle EXCEPT !.op = "settle", !.at = "user", !.user = u, !.order = o,
                               !.seen = delivered[o], !.reason = "user_stopped"]
  <2>1. Begin(t, y) /\ chargingOrder[o].user = u
    BY <1>6 DEF BeginStop
  <2>2. y \in SessionRow
    BY <1>3 DEF Idle, SessionRow, StopReasons
  <2>3. Knows(t, y, lock, appUser, chargingOrder) /\ y.op # "reserve"
    BY <2>1 DEF Idle, Knows, Sent, UserHeld, OrderHeld, Found, Places
  <2> HIDE DEF y
  <2> QED
    BY <1>2, <2>1, <2>2, <2>3
<1>7. ASSUME NEW u \in Users, NEW o \in Orders, BeginCancel(t, u, o)
      PROVE  TxInv' /\ UNCHANGED vars
  <2> DEFINE y == [Idle EXCEPT !.op = "cancel", !.at = "order", !.user = u, !.order = o,
                               !.reason = "user_cancelled"]
  <2>1. Begin(t, y) /\ chargingOrder[o].user = u
    BY <1>7 DEF BeginCancel
  <2>2. y \in SessionRow
    BY DEF Idle, SessionRow, StopReasons
  <2>3. Knows(t, y, lock, appUser, chargingOrder) /\ y.op # "reserve"
    BY <2>1 DEF Idle, Knows, Sent, UserHeld, OrderHeld, Found, Places
  <2> HIDE DEF y
  <2> QED
    BY <1>2, <2>1, <2>2, <2>3
<1>8. ASSUME NEW u \in Users, NEW c \in Chargers, NEW k \in Keys, NEW request \in Requests,
             BeginReserve(t, u, c, k, request)
      PROVE  TxInv' /\ UNCHANGED vars
  <2>1. PICK o \in Orders :
          /\ chargingOrder[o].status = "none" /\ \A s \in Workers : session[s].order # o
          /\ Begin(t, [Idle EXCEPT !.op = "reserve", !.at = "user", !.user = u,
                         !.charger = c, !.key = k, !.request = request, !.order = o])
    BY <1>8 DEF BeginReserve
  <2> DEFINE y == [Idle EXCEPT !.op = "reserve", !.at = "user", !.user = u,
                     !.charger = c, !.key = k, !.request = request, !.order = o]
  <2>2. request \in SocRequests \cup {None}
    BY SessionsAssumption
  <2>3. y \in SessionRow
    BY <2>2 DEF Idle, SessionRow
  <2>4. Knows(t, y, lock, appUser, chargingOrder) /\ y.order = o
    BY <2>1 DEF Idle, Knows, Sent, UserHeld, OrderHeld, Found, Places
  <2> HIDE DEF y
  <2>5. Begin(t, y)
    BY <2>1 DEF y
  <2> QED
    BY <1>2, <2>1, <2>3, <2>4, <2>5
<1> QED
  BY <1>4, <1>5, <1>6, <1>7, <1>8 DEF Arrive

\* A scan of the coordinator reads, and locks nothing.
LEMMA CoordinatorKeeps ==
  ASSUME TxInv, CoordinatorStep
  PROVE  TxInv' /\ UNCHANGED vars
<1> DEFINE t == Coordinator
<1>1. t \in Workers /\ todo \subseteq Orders /\ lock \in [Rows -> Workers \cup {None}]
  BY DEF Workers, TxInv, SessionsTyped
<1>2. ASSUME UNCHANGED <<vars, lock, session, delivered>>, todo' \subseteq Orders
      PROVE  TxInv' /\ UNCHANGED vars
  <2>1. UNCHANGED <<appUser, chargingOrder>>
    BY <1>2 DEF vars
  <2>2. \A s \in Workers : Spares(s)
    BY <1>2, <2>1 DEF Spares
  <2> QED
    BY <1>2, <2>2, Aside DEF TxInv, SessionsTyped
<1>3. CASE WakeUp \/ ListCharging \/ EndPass
  <2>1. UNCHANGED <<vars, lock, session, delivered>> /\ todo' \subseteq Orders
    BY <1>1, <1>3 DEF WakeUp, ListCharging, EndPass
  <2> QED
    BY <1>2, <2>1
<1>4. CASE ExpireNext
  <2>1. PICK o \in todo :
          /\ todo' = todo \ {o}
          /\ IF Unlocked(o) /\ chargingOrder[o].status = "reserved" /\ chargingOrder[o].lapsed
             THEN TakeRow(t, o,
                    [Idle EXCEPT !.op = "expire", !.at = "charger", !.order = o,
                                 !.reason = "reservation_expired",
                                 !.orow = chargingOrder[o]])
             ELSE UNCHANGED <<lock, session>>
    BY <1>4 DEF ExpireNext
  <2>2. UNCHANGED <<vars, delivered>> /\ todo' \subseteq Orders /\ o \in Orders
    BY <1>1, <1>4, <2>1 DEF ExpireNext
  <2>3. CASE UNCHANGED <<lock, session>>
    BY <1>2, <2>2, <2>3
  <2> DEFINE row == chargingOrder[o]
             y == [Idle EXCEPT !.op = "expire", !.at = "charger", !.order = o,
                               !.reason = "reservation_expired", !.orow = row]
  <2>4. CASE /\ Unlocked(o) /\ row.status = "reserved" /\ row.lapsed
             /\ TakeRow(t, o, y)
    <3>1. row \in OrderRow
      BY <2>2, Typed DEF TxInv, TablesInv
    <3> HIDE DEF row, t
    <3>2. y \in SessionRow
      BY <2>2, <3>1 DEF Idle, SessionRow, StopReasons
    <3>3. /\ y.op = "expire" /\ y.at = "charger" /\ y.order = o /\ y.orow = row
          /\ y.reason = "reservation_expired"
      BY DEF Idle
    <3> HIDE DEF y
    <3>4. lock' = [lock EXCEPT ![o] = t] /\ session' = [session EXCEPT ![t] = y]
      BY <2>4 DEF TakeRow
    <3>5. /\ lock' \in [Rows -> Workers \cup {None}] /\ lock'[o] = t
          /\ \A q \in Rows : lock[q] \in Workers => lock'[q] = lock[q]
      BY <1>1, <2>2, <2>4, <3>4, Taken, Named DEF Free, Unlocked
    <3>6. Knows(t, y, lock', appUser, chargingOrder)
      BY <2>2, <2>4, <3>3, <3>5 DEF Knows, Sent, UserHeld, OrderHeld, Found, Places, row
    <3>7. y.op # "reserve"
      BY <3>3
    <3> QED
      BY <1>1, <2>2, <3>2, <3>4, <3>5, <3>6, <3>7, Reads
  <2> QED
    BY <2>1, <2>3, <2>4
<1>5. CASE SettleNext
  <2>1. PICK o \in todo :
          LET row == chargingOrder[o]
              b   == Meter(row, delivered[o], Available(row.user))
          IN  /\ todo' = todo \ {o}
              /\ IF row.status = "charging" /\ b.cap # None
                 THEN session' = [session EXCEPT ![t] =
                        [Idle EXCEPT !.op = "settle", !.at = "user", !.user = row.user,
                                     !.order = o, !.seen = delivered[o], !.reason = b.cap]]
                 ELSE UNCHANGED session
    BY <1>5 DEF SettleNext
  <2> DEFINE row == chargingOrder[o]
             b == Meter(row, delivered[o], Available(row.user))
             y == [Idle EXCEPT !.op = "settle", !.at = "user", !.user = row.user,
                               !.order = o, !.seen = delivered[o], !.reason = b.cap]
  <2>2. UNCHANGED <<vars, lock, delivered>> /\ todo' \subseteq Orders /\ o \in Orders
    BY <1>1, <1>5, <2>1 DEF SettleNext
  <2>3. CASE UNCHANGED session
    BY <1>2, <2>2, <2>3
  <2>4. CASE /\ row.status = "charging" /\ b.cap # None
             /\ session' = [session EXCEPT ![t] = y]
    <3>1. /\ row.user \in Users /\ delivered[o] \in Nat /\ row \in OrderRow
      BY <2>2, <2>4, Typed DEF TxInv, TablesInv, SessionsTyped
    <3>2. b.cap \in {"target_reached", "balance_exhausted"}
      <4>1. b.cap \in {None, "target_reached", "balance_exhausted"}
        BY DEF Meter
      <4> QED
        BY <2>4, <4>1
    <3> HIDE DEF b, t
    <3>3. y \in SessionRow
      BY <2>2, <3>1, <3>2 DEF Idle, SessionRow, StopReasons
    <3>4. /\ y.op = "settle" /\ y.at = "user" /\ y.order = o /\ y.user = row.user
          /\ y.reason = b.cap
      BY DEF Idle
    <3> HIDE DEF y
    <3>5. Knows(t, y, lock, appUser, chargingOrder)
      BY <2>2, <3>1, <3>2, <3>4 DEF Knows, Sent, UserHeld, OrderHeld, Found, Places
    <3>6. y.op # "reserve"
      BY <3>4
    <3> QED
      BY <1>1, <2>2, <2>4, <3>3, <3>5, <3>6, Begun
  <2> QED
    BY <2>1, <2>3, <2>4
<1> QED
  BY <1>3, <1>4, <1>5 DEF CoordinatorStep

\* The victim of a deadlock is rolled back.
LEMMA AbortKeeps ==
  ASSUME TxInv, AbortDeadlock
  PROVE  TxInv' /\ UNCHANGED vars
<1>1. PICK s \in Workers :
        /\ End(s) /\ UNCHANGED <<vars, delivered, calls>>
        /\ todo' = {} \/ UNCHANGED todo
  BY DEF AbortDeadlock
<1>2. todo' \subseteq Orders
  BY <1>1 DEF TxInv, SessionsTyped
<1> QED
  BY <1>1, <1>2, Ended
-----------------------------------------------------------------------------
(* Every step, and the theorems. *)

\* At first no session has a command.
LEMMA TxInitInv ==
  ASSUME TxInit
  PROVE  TxInv
<1>1. Init
  BY DEF TxInit
<1>2. MoneyInv /\ FleetInv
  BY <1>1, InitMoney, InitFleet, RowsAssumption, VehicleAssumption
<1>3. KeysDistinct /\ Blank
  BY <1>1 DEF Init, KeysDistinct, Blank, NoOrder
<1>4. Idle \in SessionRow
  BY IdleKnows
<1>5. SessionsTyped
  BY <1>4 DEF TxInit, SessionsTyped
<1>6. ASSUME NEW s \in Workers
      PROVE  Knows(s, session[s], lock, appUser, chargingOrder)
  BY IdleKnows DEF TxInit
<1>7. OwnRows
  BY DEF TxInit, OwnRows, Idle
<1> QED
  BY <1>2, <1>3, <1>5, <1>6, <1>7 DEF TxInv, TablesInv

\* Every step of a transaction is a command of ChargingCore, or invisible.
LEMMA TxStep ==
  ASSUME TxInv, [TxNext]_allVars
  PROVE  TxInv' /\ [Next]_vars
<1>1. CASE TxNext
  BY <1>1, ArriveKeeps, StatementStep, OneRowStepKeeps, CoordinatorKeeps, AbortKeeps,
     DeliverKeeps, LapseFreeKeeps DEF TxNext
<1>2. CASE UNCHANGED allVars
  <2>1. UNCHANGED <<txVars, vars>> /\ UNCHANGED <<chargingOrder, appUser>>
    BY <1>2 DEF allVars, vars
  <2> QED
    BY <2>1, TablesAside
<1> QED
  BY <1>1, <1>2

\* What the transactions know from their reads stays true until they commit.
THEOREM TxInvariant == TxSpec => []TxInv
<1>1. TxInit => TxInv
  BY TxInitInv
<1>2. TxInv /\ [TxNext]_allVars => TxInv'
  BY TxStep
<1> QED
  BY <1>1, <1>2, PTL DEF TxSpec

\* Serializability: whatever the interleaving of their statements, each
\* transaction commits a command of ChargingCore on the committed tables.
THEOREM TransactionsRefineCore == TxSpec => RefinesCore
<1>1. TxInv /\ [TxNext]_allVars => [Next]_vars
  BY TxStep
<1> QED
  BY <1>1, TxInvariant, PTL DEF TxSpec, RefinesCore

\* The transactions implement ChargingCore, so each of its invariants holds of
\* the committed tables under any interleaving.
THEOREM TransactionsImplementCore == TxSpec => Spec
<1>1. TxInit => Init
  BY DEF TxInit
<1> QED
  BY <1>1, TransactionsRefineCore, PTL DEF TxSpec, RefinesCore, Spec

\* What the core promises, its transactions keep under any interleaving: claims are
\* backed, the ledger explains every balance, documents are debited once, chargers
\* and orders mirror each other, and orders keep their life cycle, money and vehicle.
THEOREM TransactionsKeepPromises ==
  TxSpec => /\ [](HoldsBacked /\ WalletExplainsBalance /\ DebitsOnce /\ RefundsBounded)
            /\ [](ChargerMirrorsOrder /\ OneActiveOrder /\ VehicleFollowsOrder)
            /\ OrdersKept /\ SessionsFunded
BY TransactionsImplementCore, HoldsAlwaysBacked, WalletsExplainBalances,
   DocumentsDebitedOnce, RefundsStayBounded, ChargersMirrorOrders, OneActiveOrderEach,
   VehiclesFollowOrders, OrdersStayKept, SessionsStayFunded, PTL

\* No insert of reserve meets a unique index: a request sent twice at the same
\* time reserves once.
THEOREM InsertsStayUnique == TxSpec => []InsertsUnique
<1>1. TxInv => InsertsUnique
  BY DEF TxInv, TablesInv, KeysDistinct, FleetInv, OneActiveOrder, InsertsUnique
<1> QED
  BY <1>1, TxInvariant, PTL
=============================================================================
