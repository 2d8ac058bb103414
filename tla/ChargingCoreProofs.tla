------------------------- MODULE ChargingCoreProofs -------------------------
(***************************************************************************)
(* The money and the orders of ChargingCore, for every number of users,    *)
(* chargers, orders and requests and every amount.                         *)
(*                                                                         *)
(* MoneyInv types the tables and says that every held cent belongs to a    *)
(* claim; the typing needs it, since a payment or an approved withdrawal   *)
(* subtracts from balance and held_balance without looking at what else is *)
(* held.                                                                   *)
(*                                                                         *)
(* Then the ledger: its entries explain every balance, debit every         *)
(* document once and refund no more than was charged. Five kinds of step   *)
(* are enough. Most post nothing and touch no document that is settled; a  *)
(* key of a client posts beside documents that stay; an order is paid,     *)
(* with an entry or without one; a withdrawal is paid out.                 *)
(*                                                                         *)
(* Then the fleet: a charger mirrors the order on it, and no user and no   *)
(* charger has two. Each half needs the other: settling an order frees its *)
(* charger without looking for another order on it, and placing one looks  *)
(* at the status of the charger only.                                      *)
(*                                                                         *)
(* Last the life of an order: what a step may do to it and to the user it  *)
(* belongs to, and what follows for the order, its vehicle and its funds.  *)
(* Both halves of FleetInv are needed: a command that ends the order of a  *)
(* user, or one that refuses users with an order, leaves every other order *)
(* alone because there is no other.                                        *)
(***************************************************************************)
EXTENDS ChargingProperties, TotalsProofs

-----------------------------------------------------------------------------
(* The rows, and the balances that are held. *)

\* An order in use points at rows that exist, and its target fits the battery.
OrdersLinked(orders) ==
  \A o \in Orders :
    /\ orders[o].status # "none" =>
         orders[o].user \in Users /\ orders[o].charger \in Chargers
    /\ orders[o].initial + orders[o].target <= Full

RowsLinked ==
  /\ OrdersLinked(chargingOrder)
  /\ \A w \in Withdrawals :
       withdrawalRequest[w].status # "none" => withdrawalRequest[w].user \in Users

MoneyInv == TypeOK /\ RowsLinked /\ HoldsBacked
-----------------------------------------------------------------------------
(* Rows. *)

\* A row of each table.
LEMMA RowTypes ==
  ASSUME TypeOK
  PROVE  /\ \A u \in Users : appUser[u] \in UserRow
         /\ \A c \in Chargers : charger[c] \in ChargerRow
         /\ \A o \in Orders : chargingOrder[o] \in OrderRow
         /\ \A w \in Withdrawals : withdrawalRequest[w] \in RequestRow
BY DEF TypeOK

\* Setting the two amounts, or one of them, of a user row.
LEMMA FundsRow ==
  ASSUME NEW row \in UserRow, NEW b \in Nat, NEW h \in Nat
  PROVE  /\ [row EXCEPT !.balance = b, !.held = h] \in UserRow
         /\ [row EXCEPT !.balance = b] \in UserRow
         /\ [row EXCEPT !.held = h] \in UserRow
BY DEF UserRow

\* What the writes of a user's row make of it, column by column, is a row of the table;
\* here its status ...
LEMMA UserStatusRow ==
  ASSUME NEW row \in UserRow, NEW status \in {"active", "frozen"}
  PROVE  [row EXCEPT !.status = status] \in UserRow
BY DEF UserRow

\* ... its vehicle ...
LEMMA VehicleRow ==
  ASSUME NEW row \in UserRow, NEW profile \in Profiles
  PROVE  [row EXCEPT !.plate = profile.plate, !.soc = profile.soc,
                     !.limit = profile.limit] \in UserRow
BY DEF UserRow, Profiles

\* ... and what a settlement writes.
LEMMA SettledUserRow ==
  ASSUME NEW row \in UserRow, NEW h \in Nat, NEW s \in 0 .. Full
  PROVE  [row EXCEPT !.held = h, !.soc = s] \in UserRow
BY DEF UserRow

\* The same of a charger: its status ...
LEMMA ChargerStatusRow ==
  ASSUME NEW row \in ChargerRow,
         NEW status \in {"available", "reserved", "charging", "faulted"}
  PROVE  [row EXCEPT !.status = status] \in ChargerRow
BY DEF ChargerRow

\* ... and what a settlement writes.
LEMMA SettledChargerRow ==
  ASSUME NEW row \in ChargerRow
  PROVE  [row EXCEPT !.status = "available", !.sessions = row.sessions + 1]
           \in ChargerRow
<1>1. row.sessions + 1 \in Nat
  BY DEF ChargerRow
<1> QED
  BY <1>1 DEF ChargerRow

\* The same of an order: its status ...
LEMMA OrderStatusRow ==
  ASSUME NEW row \in OrderRow,
         NEW status \in {"reserved", "charging", "pending_payment", "completed"}
  PROVE  [row EXCEPT !.status = status] \in OrderRow
BY DEF OrderRow

\* ... its expiry ...
LEMMA LapsedRow ==
  ASSUME NEW row \in OrderRow
  PROVE  [row EXCEPT !.lapsed = TRUE] \in OrderRow
BY DEF OrderRow

\* ... its cancellation ...
LEMMA CancelledRow ==
  ASSUME NEW row \in OrderRow, NEW reason \in StopReasons
  PROVE  [row EXCEPT !.status = "cancelled", !.reason = reason] \in OrderRow
BY DEF OrderRow

\* ... and its invoice.
LEMMA SettledRow ==
  ASSUME NEW row \in OrderRow, NEW e \in 0 .. Full, NEW a \in Nat,
         NEW reason \in StopReasons
  PROVE  [row EXCEPT !.status = "pending_payment", !.energy = e, !.amount = a,
                     !.reason = reason] \in OrderRow
BY DEF OrderRow

\* The same of a withdrawal request.
LEMMA RequestStatusRow ==
  ASSUME NEW row \in RequestRow, NEW status \in {"paid", "rejected"}
  PROVE  [row EXCEPT !.status = status] \in RequestRow
BY DEF RequestRow

\* Posting a well-formed entry keeps the type of the wallets.
LEMMA PostType ==
  ASSUME TypeOK, NEW u \in Users, NEW entry \in EntryRow, Post(u, entry)
  PROVE  walletEntry' \in [Users -> Seq(EntryRow)]
BY DEF TypeOK, Post
-----------------------------------------------------------------------------
(* What the claims of a user add up to, and how a step changes it. *)

\* The claims of a user are finitely many amounts, each within their sum.
LEMMA HeldNat ==
  ASSUME TypeOK, RowsAssumption, NEW u \in Users
  PROVE  /\ IsFiniteSet(Invoices(u)) /\ IsFiniteSet(OpenRequests(u))
         /\ \A o \in Invoices(u) : OrderAmount[o] \in Nat
         /\ \A w \in OpenRequests(u) : RequestAmount[w] \in Nat
         /\ Total(OrderAmount, Invoices(u)) \in Nat
         /\ Total(RequestAmount, OpenRequests(u)) \in Nat
         /\ \A o \in Invoices(u) : OrderAmount[o] <= HeldFor(u)
         /\ \A w \in OpenRequests(u) : RequestAmount[w] <= HeldFor(u)
<1>1. IsFiniteSet(Invoices(u)) /\ IsFiniteSet(OpenRequests(u))
  BY RowsAssumption, FS_Subset DEF Invoices, OpenRequests
<1>2. \A o \in Invoices(u) : OrderAmount[o] \in Nat
  BY DEF TypeOK, OrderRow, Invoices, OrderAmount
<1>3. \A w \in OpenRequests(u) : RequestAmount[w] \in Nat
  BY DEF TypeOK, RequestRow, OpenRequests, RequestAmount
<1>4. Total(OrderAmount, Invoices(u)) \in Nat
  BY <1>1, <1>2, CentsFinite
<1>5. Total(RequestAmount, OpenRequests(u)) \in Nat
  BY <1>1, <1>3, CentsFinite
<1>6. \A o \in Invoices(u) : OrderAmount[o] <= Total(OrderAmount, Invoices(u))
  BY <1>1, <1>2, TotalMember
<1>7. \A w \in OpenRequests(u) :
        RequestAmount[w] <= Total(RequestAmount, OpenRequests(u))
  BY <1>1, <1>3, TotalMember
<1> QED
  BY <1>1, <1>2, <1>3, <1>4, <1>5, <1>6, <1>7 DEF HeldFor

\* A user's claims add up to the same as long as they stay the same ones of the same
\* amounts.
LEMMA HeldSame ==
  ASSUME NEW u \in Users, Invoices(u)' = Invoices(u),
         \A o \in Invoices(u) : OrderAmount'[o] = OrderAmount[o],
         OpenRequests(u)' = OpenRequests(u),
         \A w \in OpenRequests(u) : RequestAmount'[w] = RequestAmount[w]
  PROVE  HeldFor(u)' = HeldFor(u)
<1>1. Total(OrderAmount', Invoices(u)') = Total(OrderAmount, Invoices(u))
  BY TotalCong
<1>2. Total(RequestAmount', OpenRequests(u)')
        = Total(RequestAmount, OpenRequests(u))
  BY TotalCong
<1> QED
  BY <1>1, <1>2 DEF HeldFor

\* An invoice adds its amount to them,
LEMMA InvoiceOpened ==
  ASSUME TypeOK, RowsAssumption, NEW u \in Users, NEW o \in Orders,
         o \notin Invoices(u), Invoices(u)' = Invoices(u) \cup {o},
         \A x \in Invoices(u) : OrderAmount'[x] = OrderAmount[x],
         OrderAmount'[o] \in Nat, UNCHANGED withdrawalRequest
  PROVE  HeldFor(u)' = HeldFor(u) + OrderAmount'[o]
<1>1. /\ IsFiniteSet(Invoices(u))
      /\ \A x \in Invoices(u) : OrderAmount[x] \in Nat
      /\ Total(OrderAmount, Invoices(u)) \in Nat
      /\ Total(RequestAmount, OpenRequests(u)) \in Nat
  BY HeldNat
<1>2. Total(OrderAmount', Invoices(u) \cup {o})
        = Total(OrderAmount, Invoices(u)) + OrderAmount'[o]
  BY <1>1, TotalGains
<1>3. Total(RequestAmount', OpenRequests(u)')
        = Total(RequestAmount, OpenRequests(u))
  BY DEF RequestAmount, OpenRequests
<1> QED
  BY <1>1, <1>2, <1>3 DEF HeldFor

\* and takes it away when it is paid.
LEMMA InvoiceClosed ==
  ASSUME TypeOK, RowsAssumption, NEW u \in Users, NEW o \in Invoices(u),
         Invoices(u)' = Invoices(u) \ {o},
         \A y \in Invoices(u) \ {o} : OrderAmount'[y] = OrderAmount[y],
         UNCHANGED withdrawalRequest
  PROVE  /\ HeldFor(u)' \in Nat /\ OrderAmount[o] \in Nat
         /\ HeldFor(u) = HeldFor(u)' + OrderAmount[o]
<1>1. /\ IsFiniteSet(Invoices(u))
      /\ \A y \in Invoices(u) : OrderAmount[y] \in Nat
      /\ Total(RequestAmount, OpenRequests(u)) \in Nat
  BY HeldNat
<1>2. /\ Total(OrderAmount', Invoices(u) \ {o}) \in Nat /\ OrderAmount[o] \in Nat
      /\ Total(OrderAmount, Invoices(u))
           = Total(OrderAmount', Invoices(u) \ {o}) + OrderAmount[o]
  <2>1. Total(OrderAmount, Invoices(u) \ {o})
          = Total(OrderAmount, Invoices(u)) - OrderAmount[o]
    BY <1>1, TotalRemove
  <2>2. Total(OrderAmount', Invoices(u) \ {o})
          = Total(OrderAmount, Invoices(u) \ {o})
    BY TotalCong
  <2>3. IsFiniteSet(Invoices(u) \ {o})
    BY <1>1, FS_RemoveElement
  <2>4. /\ Total(OrderAmount, Invoices(u) \ {o}) \in Nat
        /\ Total(OrderAmount, Invoices(u)) \in Nat /\ OrderAmount[o] \in Nat
    BY <1>1, <2>3, CentsFinite
  <2> QED
    BY <2>1, <2>2, <2>4
<1>3. Total(RequestAmount', OpenRequests(u)') = Total(RequestAmount, OpenRequests(u))
  BY DEF RequestAmount, OpenRequests
<1> QED
  BY <1>1, <1>2, <1>3 DEF HeldFor

\* So does a request when it is made,
LEMMA RequestOpened ==
  ASSUME TypeOK, RowsAssumption, NEW u \in Users, NEW w \in Withdrawals,
         w \notin OpenRequests(u), OpenRequests(u)' = OpenRequests(u) \cup {w},
         \A x \in OpenRequests(u) : RequestAmount'[x] = RequestAmount[x],
         RequestAmount'[w] \in Nat, UNCHANGED chargingOrder
  PROVE  HeldFor(u)' = HeldFor(u) + RequestAmount'[w]
<1>1. /\ IsFiniteSet(OpenRequests(u))
      /\ \A x \in OpenRequests(u) : RequestAmount[x] \in Nat
      /\ Total(OrderAmount, Invoices(u)) \in Nat
      /\ Total(RequestAmount, OpenRequests(u)) \in Nat
  BY HeldNat
<1>2. Total(RequestAmount', OpenRequests(u) \cup {w})
        = Total(RequestAmount, OpenRequests(u)) + RequestAmount'[w]
  BY <1>1, TotalGains
<1>3. Total(OrderAmount', Invoices(u)') = Total(OrderAmount, Invoices(u))
  BY DEF OrderAmount, Invoices
<1> QED
  BY <1>1, <1>2, <1>3 DEF HeldFor

\* and when it is reviewed.
LEMMA RequestClosed ==
  ASSUME TypeOK, RowsAssumption, NEW u \in Users, NEW w \in OpenRequests(u),
         OpenRequests(u)' = OpenRequests(u) \ {w},
         \A y \in OpenRequests(u) \ {w} : RequestAmount'[y] = RequestAmount[y],
         UNCHANGED chargingOrder
  PROVE  /\ HeldFor(u)' \in Nat /\ RequestAmount[w] \in Nat
         /\ HeldFor(u) = HeldFor(u)' + RequestAmount[w]
<1>1. /\ IsFiniteSet(OpenRequests(u))
      /\ \A y \in OpenRequests(u) : RequestAmount[y] \in Nat
      /\ Total(OrderAmount, Invoices(u)) \in Nat
  BY HeldNat
<1>2. /\ Total(RequestAmount', OpenRequests(u) \ {w}) \in Nat /\ RequestAmount[w] \in Nat
      /\ Total(RequestAmount, OpenRequests(u))
           = Total(RequestAmount', OpenRequests(u) \ {w}) + RequestAmount[w]
  <2>1. Total(RequestAmount, OpenRequests(u) \ {w})
          = Total(RequestAmount, OpenRequests(u)) - RequestAmount[w]
    BY <1>1, TotalRemove
  <2>2. Total(RequestAmount', OpenRequests(u) \ {w})
          = Total(RequestAmount, OpenRequests(u) \ {w})
    BY TotalCong
  <2>3. IsFiniteSet(OpenRequests(u) \ {w})
    BY <1>1, FS_RemoveElement
  <2>4. /\ Total(RequestAmount, OpenRequests(u) \ {w}) \in Nat
        /\ Total(RequestAmount, OpenRequests(u)) \in Nat /\ RequestAmount[w] \in Nat
    BY <1>1, <2>3, CentsFinite
  <2> QED
    BY <2>1, <2>2, <2>4
<1>3. Total(OrderAmount', Invoices(u)') = Total(OrderAmount, Invoices(u))
  BY DEF OrderAmount, Invoices
<1> QED
  BY <1>1, <1>2, <1>3 DEF HeldFor

\* A step that opens and closes no claim keeps the holds backed, if it keeps
\* the held amounts and leaves the balances large enough.
LEMMA HoldsKept ==
  ASSUME HoldsBacked, UNCHANGED withdrawalRequest,
         \A u \in Users : /\ Invoices(u)' = Invoices(u)
                          /\ \A o \in Invoices(u) : OrderAmount'[o] = OrderAmount[o],
         \A u \in Users : /\ appUser'[u].held = appUser[u].held
                          /\ appUser'[u].held <= appUser'[u].balance
  PROVE  HoldsBacked'
<1>1. ASSUME NEW u \in Users PROVE HeldFor(u)' = HeldFor(u)
  <2>1. /\ OpenRequests(u)' = OpenRequests(u)
        /\ \A w \in OpenRequests(u) : RequestAmount'[w] = RequestAmount[w]
    BY DEF OpenRequests, RequestAmount
  <2> QED
    BY <2>1, HeldSame
<1> QED
  BY <1>1 DEF HoldsBacked

\* In particular one that touches neither orders nor withdrawal requests.
LEMMA ClaimsKept ==
  ASSUME HoldsBacked, UNCHANGED <<chargingOrder, withdrawalRequest>>,
         \A u \in Users : /\ appUser'[u].held = appUser[u].held
                          /\ appUser'[u].held <= appUser'[u].balance
  PROVE  HoldsBacked'
<1>1. \A u \in Users : Invoices(u)' = Invoices(u)
  BY DEF Invoices
<1>2. OrderAmount' = OrderAmount
  BY DEF OrderAmount
<1> QED
  BY <1>1, <1>2, HoldsKept
-----------------------------------------------------------------------------
(* MoneyInv, one action at a time. *)

\* The funds and the entry of one user change, the claims do not.
LEMMA BalancePosted ==
  ASSUME MoneyInv, NEW u \in Users, NEW balance \in Nat,
         appUser[u].held <= balance,
         appUser' = [appUser EXCEPT ![u].balance = balance],
         NEW entry \in EntryRow, Post(u, entry),
         UNCHANGED <<charger, chargingOrder, withdrawalRequest>>
  PROVE  MoneyInv'
<1>1. appUser[u] \in UserRow
  BY RowTypes DEF MoneyInv
<1>2. [appUser[u] EXCEPT !.balance = balance] \in UserRow
  BY <1>1 DEF UserRow
<1>3. appUser' \in [Users -> UserRow]
  BY <1>2 DEF MoneyInv, TypeOK
<1>4. TypeOK'
  BY <1>3, PostType DEF MoneyInv, TypeOK
<1>5. RowsLinked'
  BY DEF MoneyInv, RowsLinked
<1>6. ASSUME NEW v \in Users
      PROVE  /\ appUser'[v].held = appUser[v].held
             /\ appUser'[v].held <= appUser'[v].balance
  <2>1. appUser[v].held <= appUser[v].balance
    BY DEF MoneyInv, HoldsBacked
  <2>2. CASE v = u
    BY <1>1, <2>2 DEF MoneyInv, TypeOK, UserRow
  <2>3. CASE v # u
    BY <2>1, <2>3 DEF MoneyInv, TypeOK
  <2> QED
    BY <2>2, <2>3
<1>7. HoldsBacked'
  BY <1>6, ClaimsKept DEF MoneyInv
<1> QED
  BY <1>4, <1>5, <1>7 DEF MoneyInv

\* A well-formed entry.
LEMMA EntryType ==
  ASSUME NEW key \in Keys \cup Orders \cup Withdrawals,
         NEW type \in {"recharge", "charge", "adjustment", "refund", "withdrawal"},
         NEW amount \in Int, NEW after \in Nat, NEW order \in Orders \cup {None}
  PROVE  Entry(key, type, amount, after, order) \in EntryRow
BY DEF Entry, EntryRow

\* The amounts of a user are what HoldsBacked needs them to be.
LEMMA FundsTyped ==
  ASSUME MoneyInv, NEW u \in Users
  PROVE  /\ appUser[u].balance \in Nat /\ appUser[u].held \in Nat
         /\ appUser[u].held <= appUser[u].balance
         /\ appUser[u].held = HeldFor(u)
<1>1. appUser[u] \in UserRow
  BY RowTypes DEF MoneyInv
<1> QED
  BY <1>1 DEF MoneyInv, HoldsBacked, UserRow

\* Each action preserves MoneyInv. A recharge raises a balance.
LEMMA RechargeMoney ==
  ASSUME MoneyInv, AmountsAssumption,
         NEW u \in Users, NEW k \in Keys, NEW a \in Amounts, Recharge(u, k, a)
  PROVE  MoneyInv'
<1> DEFINE balance == appUser[u].balance + a
<1>1. balance \in Nat /\ a \in Int /\ appUser[u].held <= balance
  BY FundsTyped DEF AmountsAssumption
<1>2. /\ appUser' = [appUser EXCEPT ![u].balance = balance]
      /\ Post(u, Entry(k, "recharge", a, balance, None))
      /\ UNCHANGED <<charger, chargingOrder, withdrawalRequest>>
  BY DEF Recharge
<1>3. Entry(k, "recharge", a, balance, None) \in EntryRow
  BY <1>1, EntryType
<1> HIDE DEF balance
<1> QED
  BY <1>1, <1>2, <1>3, BalancePosted

\* An adjustment stays within what is not held.
LEMMA AdjustMoney ==
  ASSUME MoneyInv, AmountsAssumption,
         NEW u \in Users, NEW k \in Keys, NEW a \in Adjustments, Adjust(u, k, a)
  PROVE  MoneyInv'
<1> DEFINE balance == appUser[u].balance + a
<1>1. /\ appUser[u].held <= balance
      /\ appUser' = [appUser EXCEPT ![u].balance = balance]
      /\ Post(u, Entry(k, "adjustment", a, balance, None))
      /\ UNCHANGED <<charger, chargingOrder, withdrawalRequest>>
  BY DEF Adjust
<1>2. balance \in Nat /\ a \in Int
  BY <1>1, FundsTyped DEF AmountsAssumption
<1>3. Entry(k, "adjustment", a, balance, None) \in EntryRow
  BY <1>2, EntryType
<1> HIDE DEF balance
<1> QED
  BY <1>1, <1>2, <1>3, BalancePosted

\* A refund raises a balance.
LEMMA RefundMoney ==
  ASSUME MoneyInv, AmountsAssumption, NEW u \in Users, NEW k \in Keys,
         NEW o \in Orders, NEW a \in Adjustments, Refund(u, k, o, a)
  PROVE  MoneyInv'
<1> DEFINE balance == appUser[u].balance + a
<1>1. /\ appUser[u].held <= balance
      /\ appUser' = [appUser EXCEPT ![u].balance = balance]
      /\ Post(u, Entry(k, "refund", a, balance, o))
      /\ UNCHANGED <<charger, chargingOrder, withdrawalRequest>>
  BY DEF Refund
<1>2. balance \in Nat /\ a \in Int
  BY <1>1, FundsTyped DEF AmountsAssumption
<1>3. Entry(k, "refund", a, balance, o) \in EntryRow
  BY <1>2, EntryType
<1> HIDE DEF balance
<1> QED
  BY <1>1, <1>2, <1>3, BalancePosted

\* A user row changes in what no claim depends on.
LEMMA UserEdited ==
  ASSUME MoneyInv, NEW u \in Users, NEW row \in UserRow,
         appUser' = [appUser EXCEPT ![u] = row],
         row.held = appUser[u].held, row.balance = appUser[u].balance,
         UNCHANGED <<charger, chargingOrder, walletEntry, withdrawalRequest>>
  PROVE  MoneyInv'
<1>1. appUser' \in [Users -> UserRow]
  BY DEF MoneyInv, TypeOK
<1>2. TypeOK' /\ RowsLinked'
  BY <1>1 DEF MoneyInv, TypeOK, RowsLinked
<1>3. ASSUME NEW v \in Users
      PROVE  /\ appUser'[v].held = appUser[v].held
             /\ appUser'[v].held <= appUser'[v].balance
  <2>1. appUser[v].held <= appUser[v].balance
    BY FundsTyped
  <2>2. CASE v = u
    BY <2>1, <2>2 DEF MoneyInv, TypeOK
  <2>3. CASE v # u
    BY <2>1, <2>3 DEF MoneyInv, TypeOK
  <2> QED
    BY <2>2, <2>3
<1>4. HoldsBacked'
  BY <1>3, ClaimsKept DEF MoneyInv
<1> QED
  BY <1>2, <1>4 DEF MoneyInv

\* A vehicle is no money.
LEMMA SaveVehicleMoney ==
  ASSUME MoneyInv, NEW u \in Users, NEW profile \in Profiles, SaveVehicle(u, profile)
  PROVE  MoneyInv'
<1> DEFINE row == [appUser[u] EXCEPT !.plate = profile.plate, !.soc = profile.soc,
                                     !.limit = profile.limit]
<1>1. appUser[u] \in UserRow
  BY RowTypes DEF MoneyInv
<1>2. row \in UserRow
  BY <1>1, VehicleRow
<1>3. row.held = appUser[u].held /\ row.balance = appUser[u].balance
  BY <1>1 DEF UserRow
<1>4. /\ appUser' = [appUser EXCEPT ![u] = row]
      /\ UNCHANGED <<charger, chargingOrder, walletEntry, withdrawalRequest>>
  BY DEF SaveVehicle, MoneyInv, TypeOK
<1> HIDE DEF row
<1> QED
  BY <1>2, <1>3, <1>4, UserEdited

\* Nor is a status.
LEMMA SetUserStatusMoney ==
  ASSUME MoneyInv, NEW u \in Users, NEW status \in {"active", "frozen"},
         SetUserStatus(u, status)
  PROVE  MoneyInv'
<1> DEFINE row == [appUser[u] EXCEPT !.status = status]
<1>1. appUser[u] \in UserRow
  BY RowTypes DEF MoneyInv
<1>2. row \in UserRow
  BY <1>1, UserStatusRow
<1>3. row.held = appUser[u].held /\ row.balance = appUser[u].balance
  BY <1>1 DEF UserRow
<1>4. /\ appUser' = [appUser EXCEPT ![u] = row]
      /\ UNCHANGED <<charger, chargingOrder, walletEntry, withdrawalRequest>>
  BY DEF SetUserStatus, MoneyInv, TypeOK
<1> HIDE DEF row
<1> QED
  BY <1>2, <1>3, <1>4, UserEdited

\* Orders and chargers change, claims and funds do not.
LEMMA ChargersEdited ==
  ASSUME MoneyInv, charger' \in [Chargers -> ChargerRow],
         UNCHANGED <<appUser, chargingOrder, walletEntry, withdrawalRequest>>
  PROVE  MoneyInv'
<1>1. TypeOK' /\ RowsLinked'
  BY DEF MoneyInv, TypeOK, RowsLinked
<1>2. \A u \in Users : /\ appUser'[u].held = appUser[u].held
                       /\ appUser'[u].held <= appUser'[u].balance
  BY FundsTyped
<1>3. HoldsBacked'
  BY <1>2, ClaimsKept DEF MoneyInv
<1> QED
  BY <1>1, <1>3 DEF MoneyInv

\* The administrator's three commands on a charger.
LEMMA ChargerAdminMoney ==
  ASSUME MoneyInv, NEW c \in Chargers,
         \/ \E status \in {"available", "faulted"} : SetChargerStatus(c, status)
         \/ \E power \in Powers : ChargerEdit(c, power)
         \/ RestartCharger(c)
  PROVE  MoneyInv'
<1>1. charger[c] \in ChargerRow
  BY RowTypes DEF MoneyInv
<1>2. CASE \E status \in {"available", "faulted"} : SetChargerStatus(c, status)
  <2>1. PICK status \in {"available", "faulted"} : SetChargerStatus(c, status)
    BY <1>2
  <2>2. [charger[c] EXCEPT !.status = status] \in ChargerRow
    BY <1>1, ChargerStatusRow
  <2>3. charger' \in [Chargers -> ChargerRow]
    BY <2>1, <2>2 DEF SetChargerStatus, MoneyInv, TypeOK
  <2> QED
    BY <2>1, <2>3, ChargersEdited DEF SetChargerStatus
<1>3. CASE \E power \in Powers : ChargerEdit(c, power)
  <2>1. PICK power \in Powers : ChargerEdit(c, power)
    BY <1>3
  <2>2. [charger[c] EXCEPT !.power = power] \in ChargerRow
    BY <1>1 DEF ChargerRow
  <2>3. charger' \in [Chargers -> ChargerRow]
    BY <2>1, <2>2 DEF ChargerEdit, MoneyInv, TypeOK
  <2> QED
    BY <2>1, <2>3, ChargersEdited DEF ChargerEdit
<1>4. CASE RestartCharger(c)
  <2>1. [charger[c] EXCEPT !.status = "available"] \in ChargerRow
    BY <1>1, ChargerStatusRow
  <2>2. charger' \in [Chargers -> ChargerRow]
    BY <1>4, <2>1 DEF RestartCharger, MoneyInv, TypeOK
  <2> QED
    BY <1>4, <2>2, ChargersEdited DEF RestartCharger
<1> QED
  BY <1>2, <1>3, <1>4

\* Two tables of orders with the same invoices.
SameInvoices(orders, orders2) ==
  \A o \in Orders :
    IF orders[o].status = "pending_payment"
    THEN /\ orders2[o].status = "pending_payment"
         /\ orders2[o].user = orders[o].user
         /\ orders2[o].amount = orders[o].amount
    ELSE orders2[o].status # "pending_payment"

\* Orders move and chargers follow, invoices and funds stay.
LEMMA OrdersMoved ==
  ASSUME MoneyInv, chargingOrder' \in [Orders -> OrderRow],
         OrdersLinked(chargingOrder)', SameInvoices(chargingOrder, chargingOrder'),
         charger' \in [Chargers -> ChargerRow],
         UNCHANGED <<appUser, walletEntry, withdrawalRequest>>
  PROVE  MoneyInv'
<1>1. TypeOK' /\ RowsLinked'
  BY DEF MoneyInv, TypeOK, RowsLinked
<1>2. ASSUME NEW u \in Users
      PROVE  /\ Invoices(u)' = Invoices(u)
             /\ \A o \in Invoices(u) : OrderAmount'[o] = OrderAmount[o]
  BY DEF SameInvoices, Invoices, OrderAmount
<1>3. \A u \in Users : /\ appUser'[u].held = appUser[u].held
                       /\ appUser'[u].held <= appUser'[u].balance
  BY FundsTyped
<1>4. HoldsBacked'
  BY <1>2, <1>3, HoldsKept DEF MoneyInv
<1> QED
  BY <1>1, <1>4 DEF MoneyInv

\* Cancelling a reservation in a table of orders.
LEMMA CancelledOrders ==
  ASSUME NEW orders \in [Orders -> OrderRow], OrdersLinked(orders),
         NEW o \in Orders, orders[o].status = "reserved",
         NEW reason \in StopReasons
  PROVE  /\ Cancelled(orders, o, reason) \in [Orders -> OrderRow]
         /\ OrdersLinked(Cancelled(orders, o, reason))
         /\ SameInvoices(orders, Cancelled(orders, o, reason))
<1> DEFINE row == [orders[o] EXCEPT !.status = "cancelled", !.reason = reason]
<1>1. row \in OrderRow
  BY CancelledRow
<1>2. /\ row.status = "cancelled" /\ row.user = orders[o].user
      /\ row.charger = orders[o].charger
      /\ row.initial = orders[o].initial /\ row.target = orders[o].target
  BY DEF OrderRow
<1>3. Cancelled(orders, o, reason) = [orders EXCEPT ![o] = row]
  BY DEF Cancelled
<1> HIDE DEF row
<1> QED
  BY <1>1, <1>2, <1>3 DEF OrdersLinked, SameInvoices

\* Releasing a charger keeps the type of the chargers.
LEMMA ReleasedChargers ==
  ASSUME NEW chargers \in [Chargers -> ChargerRow], NEW c \in Chargers
  PROVE  Released(chargers, c) \in [Chargers -> ChargerRow]
<1> DEFINE s == IF chargers[c].status = "reserved" THEN "available"
                ELSE chargers[c].status
<1>1. s \in {"available", "reserved", "charging", "faulted"}
  BY DEF ChargerRow
<1>2. [chargers[c] EXCEPT !.status = s] \in ChargerRow
  BY <1>1, ChargerStatusRow
<1>3. Released(chargers, c) = [chargers EXCEPT ![c] = [chargers[c] EXCEPT !.status = s]]
  BY DEF Released
<1> QED
  BY <1>2, <1>3

\* An order that was not started owes nothing.
LEMMA CancelReservedMoney ==
  ASSUME MoneyInv, NEW o \in Orders, chargingOrder[o].status = "reserved",
         NEW reason \in StopReasons, CancelReserved(o, reason)
  PROVE  MoneyInv'
<1>1. /\ chargingOrder' = Cancelled(chargingOrder, o, reason)
      /\ charger' = Released(charger, chargingOrder[o].charger)
      /\ UNCHANGED <<appUser, walletEntry, withdrawalRequest>>
  BY DEF CancelReserved
<1>2. /\ chargingOrder \in [Orders -> OrderRow] /\ OrdersLinked(chargingOrder)
      /\ charger \in [Chargers -> ChargerRow]
      /\ chargingOrder[o].charger \in Chargers
  BY DEF MoneyInv, TypeOK, RowsLinked, OrdersLinked
<1>3. /\ chargingOrder' \in [Orders -> OrderRow] /\ OrdersLinked(chargingOrder')
      /\ SameInvoices(chargingOrder, chargingOrder')
  BY <1>1, <1>2, CancelledOrders
<1>4. charger' \in [Chargers -> ChargerRow]
  BY <1>1, <1>2, ReleasedChargers
<1>5. OrdersLinked(chargingOrder)'
  BY <1>3 DEF OrdersLinked
<1> QED
  BY <1>1, <1>3, <1>4, <1>5, OrdersMoved

\* Taking a charger for a new order, after the orders and chargers of the same
\* transaction have become orders and chargers.
LEMMA PlaceMoney ==
  ASSUME MoneyInv, VehicleAssumption,
         NEW orders \in [Orders -> OrderRow], OrdersLinked(orders),
         SameInvoices(chargingOrder, orders),
         NEW chargers \in [Chargers -> ChargerRow],
         NEW u \in Users, NEW c \in Chargers, NEW k \in Keys,
         NEW request \in SocRequests \cup {None}, NEW o \in Orders,
         Place(orders, chargers, u, c, k, request, o)
  PROVE  MoneyInv'
<1> DEFINE initial == IF appUser[u].plate # None \/ request = None
                      THEN appUser[u].soc ELSE request.soc
           target  == IF request = None THEN appUser[u].limit ELSE request.target
           row     == [status |-> "reserved", user |-> u, charger |-> c,
                       key |-> k, lapsed |-> FALSE, plate |-> appUser[u].plate,
                       initial |-> initial, target |-> target - initial,
                       energy |-> 0, amount |-> 0, reason |-> None]
<1>1. /\ orders[o].status = "none" /\ initial < target
      /\ chargingOrder' = [orders EXCEPT ![o] = row]
      /\ charger' = [chargers EXCEPT ![c].status = "reserved"]
      /\ UNCHANGED <<appUser, walletEntry, withdrawalRequest>>
  BY DEF Place
<1>2. appUser[u] \in UserRow
  BY RowTypes DEF MoneyInv
<1>3. initial \in 0 .. Full /\ target \in 1 .. Full
  BY <1>2 DEF UserRow, SocRequests
<1>4. appUser[u].plate \in Plates \cup {None}
  BY <1>2 DEF UserRow
<1> HIDE DEF initial, target
<1>5. target - initial \in 0 .. Full /\ initial + (target - initial) <= Full
  BY <1>1, <1>3 DEF VehicleAssumption
<1>6. 0 \in 0 .. Full
  BY DEF VehicleAssumption
<1>7. row \in OrderRow
  BY <1>3, <1>4, <1>5, <1>6 DEF OrderRow
<1>8. /\ row.status = "reserved" /\ row.user = u /\ row.charger = c
      /\ row.initial + row.target <= Full
  BY <1>5
<1> HIDE DEF row
<1>9. chargingOrder' \in [Orders -> OrderRow]
  BY <1>1, <1>7
<1>10. OrdersLinked(chargingOrder')
  BY <1>1, <1>8 DEF OrdersLinked
<1>11. SameInvoices(chargingOrder, chargingOrder')
  BY <1>1, <1>8 DEF SameInvoices
<1>12. [chargers[c] EXCEPT !.status = "reserved"] \in ChargerRow
  BY ChargerStatusRow
<1>13. charger' \in [Chargers -> ChargerRow]
  BY <1>1, <1>12
<1>14. OrdersLinked(chargingOrder)'
  BY <1>10 DEF OrdersLinked
<1> QED
  BY <1>1, <1>9, <1>11, <1>13, <1>14, OrdersMoved

\* Nor does one that is reserved,
LEMMA ReserveMoney ==
  ASSUME MoneyInv, VehicleAssumption, NEW u \in Users, NEW c \in Chargers,
         NEW k \in Keys, NEW request \in SocRequests \cup {None},
         NEW o \in Orders, Reserve(u, c, k, request, o)
  PROVE  MoneyInv'
<1>1. /\ chargingOrder \in [Orders -> OrderRow] /\ OrdersLinked(chargingOrder)
      /\ charger \in [Chargers -> ChargerRow]
  BY DEF MoneyInv, TypeOK, RowsLinked
<1>2. SameInvoices(chargingOrder, chargingOrder)
  BY DEF SameInvoices
<1>3. Place(chargingOrder, charger, u, c, k, request, o)
  BY DEF Reserve
<1> QED
  BY <1>1, <1>2, <1>3, PlaceMoney

\* in place of an expired one either.
LEMMA ReserveAgainMoney ==
  ASSUME MoneyInv, VehicleAssumption, NEW u \in Users, NEW c \in Chargers,
         NEW k \in Keys, NEW request \in SocRequests \cup {None},
         NEW o \in Orders, NEW x \in Orders, ReserveAgain(u, c, k, request, o, x)
  PROVE  MoneyInv'
<1> DEFINE orders   == Cancelled(chargingOrder, x, "reservation_expired")
           chargers == Released(charger, chargingOrder[x].charger)
<1>1. /\ chargingOrder[x].status = "reserved"
      /\ Place(orders, chargers, u, c, k, request, o)
  BY DEF ReserveAgain
<1>2. /\ chargingOrder \in [Orders -> OrderRow] /\ OrdersLinked(chargingOrder)
      /\ charger \in [Chargers -> ChargerRow]
  BY DEF MoneyInv, TypeOK, RowsLinked
<1>3. chargingOrder[x].charger \in Chargers
  BY <1>1, <1>2 DEF OrdersLinked
<1>4. /\ orders \in [Orders -> OrderRow] /\ OrdersLinked(orders)
      /\ SameInvoices(chargingOrder, orders)
  BY <1>1, <1>2, CancelledOrders DEF StopReasons
<1>5. chargers \in [Chargers -> ChargerRow]
  BY <1>2, <1>3, ReleasedChargers
<1> HIDE DEF orders, chargers
<1> QED
  BY <1>1, <1>4, <1>5, PlaceMoney

\* To start an order moves no money.
LEMMA StartMoney ==
  ASSUME MoneyInv, NEW u \in Users, NEW o \in Orders, Start(u, o)
  PROVE  MoneyInv'
<1> DEFINE c   == chargingOrder[o].charger
           row == [chargingOrder[o] EXCEPT !.status = "charging"]
<1>1. /\ chargingOrder \in [Orders -> OrderRow] /\ OrdersLinked(chargingOrder)
      /\ charger \in [Chargers -> ChargerRow]
  BY DEF MoneyInv, TypeOK, RowsLinked
<1>2. /\ chargingOrder[o].status = "reserved"
      /\ chargingOrder' = [chargingOrder EXCEPT ![o] = row]
      /\ charger' = [charger EXCEPT ![c].status = "charging"]
      /\ UNCHANGED <<appUser, walletEntry, withdrawalRequest>>
  BY <1>1 DEF Start
<1>3. row \in OrderRow /\ [charger[c] EXCEPT !.status = "charging"] \in ChargerRow
  BY <1>1, <1>2, OrderStatusRow, ChargerStatusRow DEF OrdersLinked
<1>4. /\ row.status = "charging" /\ row.user = chargingOrder[o].user
      /\ row.charger = c /\ row.initial = chargingOrder[o].initial
      /\ row.target = chargingOrder[o].target
  BY <1>1 DEF OrderRow
<1> HIDE DEF row
<1>5. chargingOrder' \in [Orders -> OrderRow] /\ charger' \in [Chargers -> ChargerRow]
  BY <1>1, <1>2, <1>3
<1>6. OrdersLinked(chargingOrder)' /\ SameInvoices(chargingOrder, chargingOrder')
  BY <1>1, <1>2, <1>4 DEF OrdersLinked, SameInvoices
<1> QED
  BY <1>2, <1>5, <1>6, OrdersMoved

\* Nor does the expiry of a reservation.
LEMMA LapseMoney ==
  ASSUME MoneyInv, NEW o \in Orders, Lapse(o)
  PROVE  MoneyInv'
<1> DEFINE row == [chargingOrder[o] EXCEPT !.lapsed = TRUE]
<1>1. chargingOrder \in [Orders -> OrderRow] /\ OrdersLinked(chargingOrder)
  BY DEF MoneyInv, TypeOK, RowsLinked
<1>2. /\ chargingOrder[o].status = "reserved"
      /\ chargingOrder' = [chargingOrder EXCEPT ![o] = row]
      /\ UNCHANGED <<appUser, charger, walletEntry, withdrawalRequest>>
  BY <1>1 DEF Lapse
<1>3. row \in OrderRow
  BY <1>1, LapsedRow
<1>4. /\ row.status = "reserved" /\ row.user = chargingOrder[o].user
      /\ row.charger = chargingOrder[o].charger
      /\ row.initial = chargingOrder[o].initial
      /\ row.target = chargingOrder[o].target
  BY <1>1, <1>2 DEF OrderRow
<1> HIDE DEF row
<1>5. chargingOrder' \in [Orders -> OrderRow] /\ charger' \in [Chargers -> ChargerRow]
  BY <1>1, <1>2, <1>3 DEF MoneyInv, TypeOK
<1>6. OrdersLinked(chargingOrder)' /\ SameInvoices(chargingOrder, chargingOrder')
  BY <1>1, <1>2, <1>4 DEF OrdersLinked, SameInvoices
<1> QED
  BY <1>2, <1>5, <1>6, OrdersMoved

\* The four commands that cancel a reservation.
LEMMA CancelMoney ==
  ASSUME MoneyInv, NEW o \in Orders,
         \/ \E u \in Users : StartLapsed(u, o) \/ Cancel(u, o)
         \/ Expire(o)
  PROVE  MoneyInv'
<1>1. /\ chargingOrder[o].status = "reserved"
      /\ \E reason \in StopReasons : CancelReserved(o, reason)
  BY DEF StartLapsed, Cancel, Expire, StopReasons
<1> QED
  BY <1>1, CancelReservedMoney

\* A claim of u is opened or closed and the funds of u follow it.
LEMMA ClaimMoved ==
  ASSUME MoneyInv, TypeOK', RowsLinked', NEW u \in Users, NEW row \in UserRow,
         appUser' = [appUser EXCEPT ![u] = row],
         HeldFor(u)' = row.held, row.held <= row.balance,
         \A v \in Users \ {u} : HeldFor(v)' = HeldFor(v)
  PROVE  MoneyInv'
<1>1. ASSUME NEW v \in Users
      PROVE  appUser'[v].held = HeldFor(v)' /\ appUser'[v].held <= appUser'[v].balance
  <2>1. CASE v = u
    BY <2>1 DEF MoneyInv, TypeOK
  <2>2. CASE v # u
    <3>1. appUser'[v] = appUser[v]
      BY <2>2 DEF MoneyInv, TypeOK
    <3> QED
      BY <2>2, <3>1, FundsTyped
  <2> QED
    BY <2>1, <2>2
<1>2. HoldsBacked'
  BY <1>1 DEF HoldsBacked
<1> QED
  BY <1>2 DEF MoneyInv

\* A settlement holds the amount of its invoice, within what was available.
LEMMA SettleMoney ==
  ASSUME MoneyInv, RowsAssumption, VehicleAssumption,
         NEW o \in Orders, NEW reason \in StopReasons, Settle(o, reason)
  PROVE  MoneyInv'
<1>a. /\ chargingOrder[o].user \in Users
      /\ chargingOrder[o].charger \in Chargers
  BY DEF MoneyInv, RowsLinked, OrdersLinked, Settle
<1>u. PICK u \in Users : u = chargingOrder[o].user
  BY <1>a
<1>c. PICK c \in Chargers : c = chargingOrder[o].charger
  BY <1>a
<1>1. PICK b \in Bills(chargingOrder[o].target, Available(u)) :
        /\ chargingOrder' = [chargingOrder EXCEPT ![o] =
             [@ EXCEPT !.status = "pending_payment", !.energy = b.energy,
                       !.amount = b.amount,
                       !.reason = IF b.cap # None THEN b.cap ELSE reason]]
        /\ appUser' = [appUser EXCEPT ![u] =
             [@ EXCEPT !.held = appUser[u].held + b.amount,
                       !.soc = IF appUser[u].plate = chargingOrder[o].plate
                               THEN chargingOrder[o].initial + b.energy
                               ELSE appUser[u].soc]]
  BY <1>u DEF Settle
<1> DEFINE held   == appUser[u].held + b.amount
           soc    == IF appUser[u].plate = chargingOrder[o].plate
                     THEN chargingOrder[o].initial + b.energy
                     ELSE appUser[u].soc
           why    == IF b.cap # None THEN b.cap ELSE reason
           row    == [appUser[u] EXCEPT !.held = held, !.soc = soc]
           order  == [chargingOrder[o] EXCEPT !.status = "pending_payment",
                       !.energy = b.energy, !.amount = b.amount, !.reason = why]
<1>2. /\ chargingOrder \in [Orders -> OrderRow] /\ OrdersLinked(chargingOrder)
      /\ charger \in [Chargers -> ChargerRow] /\ appUser \in [Users -> UserRow]
  BY DEF MoneyInv, TypeOK, RowsLinked
<1>3. /\ chargingOrder[o].status = "charging"
      /\ charger' = [charger EXCEPT ![c] =
           [charger[c] EXCEPT !.status = "available", !.sessions = charger[c].sessions + 1]]
      /\ UNCHANGED <<walletEntry, withdrawalRequest>>
  BY <1>2, <1>c DEF Settle
<1>4. /\ chargingOrder' = [chargingOrder EXCEPT ![o] = order]
      /\ appUser' = [appUser EXCEPT ![u] = row]
  BY <1>1, <1>2
<1>6. /\ b.energy \in 0 .. chargingOrder[o].target
      /\ b.amount \in 0 .. Available(u) /\ why \in StopReasons
  BY DEF Bills, StopReasons
<1>7. /\ chargingOrder[o] \in OrderRow /\ appUser[u] \in UserRow
      /\ charger[c] \in ChargerRow
  BY <1>2
<1>8. /\ chargingOrder[o].target \in 0 .. Full /\ chargingOrder[o].initial \in 0 .. Full
      /\ chargingOrder[o].initial + chargingOrder[o].target <= Full
      /\ appUser[u].soc \in 0 .. Full
  BY <1>2, <1>7 DEF OrderRow, UserRow, OrdersLinked
<1>9. b.energy \in 0 .. Full /\ soc \in 0 .. Full
  <2>1. b.energy \in Nat /\ b.energy <= chargingOrder[o].target
    BY <1>6, <1>8
  <2>2. chargingOrder[o].initial + b.energy \in 0 .. Full
    BY <1>8, <2>1 DEF VehicleAssumption
  <2> QED
    BY <1>8, <2>1, <2>2 DEF VehicleAssumption
<1>10. /\ appUser[u].balance \in Nat /\ appUser[u].held \in Nat
       /\ appUser[u].held = HeldFor(u)
  BY FundsTyped
<1>11. b.amount \in Nat /\ held \in Nat /\ held <= appUser[u].balance
  BY <1>6, <1>10 DEF Available
<1> HIDE DEF held, soc, why
<1>12. row \in UserRow
  BY <1>7, <1>9, <1>11, SettledUserRow
<1>13. order \in OrderRow
  BY <1>6, <1>7, <1>9, <1>11, SettledRow
<1>14. [charger[c] EXCEPT !.status = "available", !.sessions = charger[c].sessions + 1]
         \in ChargerRow
  BY <1>7, SettledChargerRow
<1>15. /\ order.status = "pending_payment" /\ order.user = u /\ order.charger = c
       /\ order.initial = chargingOrder[o].initial
       /\ order.target = chargingOrder[o].target /\ order.amount = b.amount
  BY <1>7, <1>u, <1>c DEF OrderRow
<1>16. row.held = held /\ row.balance = appUser[u].balance
  BY <1>7 DEF UserRow
<1> HIDE DEF row, order
<1>17. TypeOK'
  BY <1>2, <1>3, <1>4, <1>12, <1>13, <1>14 DEF MoneyInv, TypeOK
<1>18. RowsLinked'
  BY <1>2, <1>3, <1>4, <1>8, <1>15 DEF MoneyInv, RowsLinked, OrdersLinked
<1>19. OrderAmount' = [OrderAmount EXCEPT ![o] = b.amount]
  BY <1>2, <1>4, <1>15 DEF OrderAmount
<1>20. HeldFor(u)' = held
  <2>1. o \notin Invoices(u) /\ Invoices(u)' = Invoices(u) \cup {o}
    BY <1>2, <1>3, <1>4, <1>15, <1>u DEF Invoices
  <2>2. /\ \A x \in Invoices(u) : OrderAmount'[x] = OrderAmount[x]
        /\ OrderAmount'[o] = b.amount
    BY <1>19, <2>1 DEF OrderAmount, Invoices
  <2>3. HeldFor(u)' = HeldFor(u) + OrderAmount'[o]
    BY <1>3, <1>11, <2>1, <2>2, InvoiceOpened DEF MoneyInv
  <2> QED
    BY <1>10, <2>2, <2>3 DEF held
<1>21. ASSUME NEW v \in Users \ {u} PROVE HeldFor(v)' = HeldFor(v)
  <2>1. Invoices(v)' = Invoices(v) /\ o \notin Invoices(v)
    BY <1>2, <1>3, <1>4, <1>15, <1>u DEF Invoices
  <2>2. \A x \in Invoices(v) : OrderAmount'[x] = OrderAmount[x]
    BY <1>19, <2>1 DEF OrderAmount, Invoices
  <2>3. OpenRequests(v)' = OpenRequests(v) /\ RequestAmount' = RequestAmount
    BY <1>3 DEF OpenRequests, RequestAmount
  <2> QED
    BY <2>1, <2>2, <2>3, HeldSame
<1> QED
  BY <1>4, <1>11, <1>12, <1>16, <1>17, <1>18, <1>20, <1>21, ClaimMoved

\* A payment releases and takes that very amount.
LEMMA PayMoney ==
  ASSUME MoneyInv, RowsAssumption, NEW u \in Users, NEW o \in Orders, Pay(u, o)
  PROVE  MoneyInv'
<1> DEFINE amount  == chargingOrder[o].amount
           balance == appUser[u].balance - amount
           held    == appUser[u].held - amount
           row     == [appUser[u] EXCEPT !.balance = balance, !.held = held]
           order   == [chargingOrder[o] EXCEPT !.status = "completed"]
<1>1. /\ chargingOrder \in [Orders -> OrderRow] /\ OrdersLinked(chargingOrder)
      /\ appUser \in [Users -> UserRow]
      /\ chargingOrder[o] \in OrderRow /\ appUser[u] \in UserRow
  BY DEF MoneyInv, TypeOK, RowsLinked
<1>2. /\ chargingOrder[o].user = u /\ chargingOrder[o].status = "pending_payment"
      /\ amount <= appUser[u].balance /\ amount <= appUser[u].held
      /\ \/ Post(u, Entry(o, "charge", -amount, balance, o))
         \/ UNCHANGED walletEntry
      /\ UNCHANGED <<charger, withdrawalRequest>>
  BY <1>1 DEF Pay, OrderRow, UserRow
<1>3. /\ appUser' = [appUser EXCEPT ![u] = row]
      /\ chargingOrder' = [chargingOrder EXCEPT ![o] = order]
  BY <1>1 DEF Pay
<1>4. /\ appUser[u].balance \in Nat /\ appUser[u].held \in Nat
      /\ appUser[u].held <= appUser[u].balance /\ appUser[u].held = HeldFor(u)
  BY FundsTyped
<1>5. amount \in Nat
  BY <1>1 DEF OrderRow
<1>6. balance \in Nat /\ held \in Nat /\ held <= balance /\ -amount \in Int
  BY <1>2, <1>4, <1>5
<1>7. Entry(o, "charge", -amount, balance, o) \in EntryRow
  BY <1>6, EntryType
<1> HIDE DEF amount, balance, held
<1>8. row \in UserRow /\ row.balance = balance /\ row.held = held
  BY <1>1, <1>6, FundsRow DEF UserRow
<1>9. order \in OrderRow
  BY <1>1, OrderStatusRow
<1>10. /\ order.status = "completed" /\ order.user = u
       /\ order.charger = chargingOrder[o].charger
       /\ order.initial = chargingOrder[o].initial
       /\ order.target = chargingOrder[o].target /\ order.amount = amount
  BY <1>1, <1>2 DEF OrderRow, amount
<1> HIDE DEF row, order
<1>11. walletEntry' \in [Users -> Seq(EntryRow)]
  BY <1>2, <1>7, PostType DEF MoneyInv, TypeOK
<1>12. TypeOK'
  BY <1>1, <1>2, <1>3, <1>8, <1>9, <1>11 DEF MoneyInv, TypeOK
<1>13. RowsLinked'
  BY <1>1, <1>2, <1>3, <1>10 DEF MoneyInv, RowsLinked, OrdersLinked
<1>14. OrderAmount' = OrderAmount /\ OrderAmount[o] = amount
  BY <1>1, <1>3, <1>10 DEF OrderAmount, amount
<1>15. HeldFor(u)' = held
  <2>1. o \in Invoices(u) /\ Invoices(u)' = Invoices(u) \ {o}
    BY <1>1, <1>2, <1>3, <1>10 DEF Invoices
  <2>2. \A y \in Invoices(u) \ {o} : OrderAmount'[y] = OrderAmount[y]
    BY <1>14
  <2>3. /\ HeldFor(u)' \in Nat /\ OrderAmount[o] \in Nat
        /\ HeldFor(u) = HeldFor(u)' + OrderAmount[o]
    BY <1>2, <2>1, <2>2, InvoiceClosed DEF MoneyInv
  <2> QED
    BY <1>4, <1>14, <2>3 DEF held
<1>16. ASSUME NEW v \in Users \ {u} PROVE HeldFor(v)' = HeldFor(v)
  <2>1. Invoices(v)' = Invoices(v)
    BY <1>1, <1>2, <1>3, <1>10 DEF Invoices
  <2>2. OpenRequests(v)' = OpenRequests(v) /\ RequestAmount' = RequestAmount
    BY <1>2 DEF OpenRequests, RequestAmount
  <2> QED
    BY <1>14, <2>1, <2>2, HeldSame
<1> QED
  BY <1>3, <1>6, <1>8, <1>12, <1>13, <1>15, <1>16, ClaimMoved

\* A request holds its amount.
LEMMA WithdrawMoney ==
  ASSUME MoneyInv, RowsAssumption, AmountsAssumption, NEW u \in Users,
         NEW k \in Keys, NEW a \in Amounts, NEW w \in Withdrawals,
         Withdraw(u, k, a, w)
  PROVE  MoneyInv'
<1> DEFINE held    == appUser[u].held + a
           row     == [appUser[u] EXCEPT !.held = held]
           request == [status |-> "pending", user |-> u, key |-> k, amount |-> a]
<1>1. /\ withdrawalRequest \in [Withdrawals -> RequestRow]
      /\ appUser \in [Users -> UserRow] /\ appUser[u] \in UserRow
  BY DEF MoneyInv, TypeOK
<1>2. /\ withdrawalRequest[w].status = "none" /\ a <= Available(u)
      /\ UNCHANGED <<charger, chargingOrder, walletEntry>>
  BY DEF Withdraw
<1>3. /\ appUser' = [appUser EXCEPT ![u] = row]
      /\ withdrawalRequest' = [withdrawalRequest EXCEPT ![w] = request]
  BY <1>1 DEF Withdraw
<1>4. /\ appUser[u].balance \in Nat /\ appUser[u].held \in Nat
      /\ appUser[u].held = HeldFor(u)
  BY FundsTyped
<1>5. a \in Nat /\ held \in Nat /\ held <= appUser[u].balance
  BY <1>2, <1>4 DEF AmountsAssumption, Available
<1> HIDE DEF held
<1>6. row \in UserRow /\ row.held = held /\ row.balance = appUser[u].balance
  BY <1>1, <1>5, FundsRow DEF UserRow
<1>7. request \in RequestRow
  BY <1>5 DEF RequestRow
<1>8. /\ request.status = "pending" /\ request.user = u /\ request.amount = a
  OBVIOUS
<1> HIDE DEF row, request
<1>9. TypeOK'
  BY <1>1, <1>2, <1>3, <1>6, <1>7 DEF MoneyInv, TypeOK
<1>10. RowsLinked'
  BY <1>1, <1>2, <1>3, <1>8 DEF MoneyInv, RowsLinked, OrdersLinked
<1>11. RequestAmount' = [RequestAmount EXCEPT ![w] = a]
  BY <1>1, <1>3, <1>8 DEF RequestAmount
<1>12. HeldFor(u)' = held
  <2>1. w \notin OpenRequests(u) /\ OpenRequests(u)' = OpenRequests(u) \cup {w}
    BY <1>1, <1>2, <1>3, <1>8 DEF OpenRequests
  <2>2. /\ \A x \in OpenRequests(u) : RequestAmount'[x] = RequestAmount[x]
        /\ RequestAmount'[w] = a
    BY <1>11, <2>1 DEF RequestAmount, OpenRequests
  <2>3. HeldFor(u)' = HeldFor(u) + RequestAmount'[w]
    BY <1>2, <1>5, <2>1, <2>2, RequestOpened DEF MoneyInv
  <2> QED
    BY <1>4, <2>2, <2>3 DEF held
<1>13. ASSUME NEW v \in Users \ {u} PROVE HeldFor(v)' = HeldFor(v)
  <2>1. OpenRequests(v)' = OpenRequests(v) /\ w \notin OpenRequests(v)
    BY <1>1, <1>2, <1>3, <1>8 DEF OpenRequests
  <2>2. \A x \in OpenRequests(v) : RequestAmount'[x] = RequestAmount[x]
    BY <1>11, <2>1 DEF RequestAmount, OpenRequests
  <2>3. Invoices(v)' = Invoices(v) /\ OrderAmount' = OrderAmount
    BY <1>2 DEF Invoices, OrderAmount
  <2> QED
    BY <2>1, <2>2, <2>3, HeldSame
<1> QED
  BY <1>3, <1>5, <1>6, <1>9, <1>10, <1>12, <1>13, ClaimMoved

\* A reviewed request is no claim any more: what it held is debited or freed.
LEMMA RequestReviewed ==
  ASSUME MoneyInv, RowsAssumption, NEW w \in Withdrawals, NEW u \in Users,
         withdrawalRequest[w].user = u, withdrawalRequest[w].status = "pending",
         NEW status \in {"paid", "rejected"},
         withdrawalRequest' = [withdrawalRequest EXCEPT ![w].status = status],
         NEW row \in UserRow, appUser' = [appUser EXCEPT ![u] = row],
         row.held = appUser[u].held - withdrawalRequest[w].amount,
         row.held <= row.balance,
         walletEntry' \in [Users -> Seq(EntryRow)],
         UNCHANGED <<charger, chargingOrder>>
  PROVE  MoneyInv'
<1> DEFINE request == [withdrawalRequest[w] EXCEPT !.status = status]
<1>1. /\ withdrawalRequest \in [Withdrawals -> RequestRow]
      /\ withdrawalRequest[w] \in RequestRow
  BY DEF MoneyInv, TypeOK
<1>2. withdrawalRequest' = [withdrawalRequest EXCEPT ![w] = request]
  BY <1>1
<1>3. request \in RequestRow
  BY <1>1, RequestStatusRow
<1>4. /\ request.status = status /\ request.user = u
      /\ request.amount = withdrawalRequest[w].amount
  BY <1>1 DEF RequestRow
<1> HIDE DEF request
<1>5. TypeOK'
  BY <1>1, <1>2, <1>3 DEF MoneyInv, TypeOK
<1>6. RowsLinked'
  BY <1>1, <1>2, <1>4 DEF MoneyInv, RowsLinked, OrdersLinked
<1>7. RequestAmount' = RequestAmount
  BY <1>1, <1>2, <1>4 DEF RequestAmount
<1>8. HeldFor(u)' = row.held
  <2>1. w \in OpenRequests(u) /\ OpenRequests(u)' = OpenRequests(u) \ {w}
    BY <1>1, <1>2, <1>4 DEF OpenRequests
  <2>2. \A y \in OpenRequests(u) \ {w} : RequestAmount'[y] = RequestAmount[y]
    BY <1>7
  <2>3. /\ HeldFor(u)' \in Nat /\ RequestAmount[w] \in Nat
        /\ HeldFor(u) = HeldFor(u)' + RequestAmount[w]
    BY <2>1, <2>2, RequestClosed DEF MoneyInv
  <2>4. RequestAmount[w] = withdrawalRequest[w].amount
    BY DEF RequestAmount
  <2>5. appUser[u].held = HeldFor(u)
    BY FundsTyped
  <2> QED
    BY <2>3, <2>4, <2>5
<1>9. ASSUME NEW v \in Users \ {u} PROVE HeldFor(v)' = HeldFor(v)
  <2>1. OpenRequests(v)' = OpenRequests(v)
    BY <1>1, <1>2, <1>4 DEF OpenRequests
  <2>2. Invoices(v)' = Invoices(v) /\ OrderAmount' = OrderAmount
    BY DEF Invoices, OrderAmount
  <2> QED
    BY <1>7, <2>1, <2>2, HeldSame
<1> QED
  BY <1>5, <1>6, <1>8, <1>9, ClaimMoved

\* What a pending request asks for is within what its user has held, and so
\* within the balance: the reviewing code checks neither.
LEMMA RequestCovered ==
  ASSUME MoneyInv, RowsAssumption, NEW w \in Withdrawals, NEW u \in Users,
         withdrawalRequest[w].user = u, withdrawalRequest[w].status = "pending"
  PROVE  /\ withdrawalRequest[w].amount \in Nat
         /\ withdrawalRequest[w].amount <= appUser[u].held
<1>1. w \in OpenRequests(u)
  BY DEF OpenRequests
<1>2. RequestAmount[w] <= HeldFor(u) /\ RequestAmount[w] \in Nat
  BY <1>1, HeldNat DEF MoneyInv
<1>3. appUser[u].held = HeldFor(u)
  BY FundsTyped
<1> QED
  BY <1>2, <1>3 DEF RequestAmount

\* An approval releases and takes it.
LEMMA ApproveMoney ==
  ASSUME MoneyInv, RowsAssumption, NEW w \in Withdrawals, ApproveWithdrawal(w)
  PROVE  MoneyInv'
<1>1. withdrawalRequest[w].status = "pending"
  BY DEF ApproveWithdrawal
<1>2. PICK u \in Users : u = withdrawalRequest[w].user
  BY <1>1 DEF MoneyInv, RowsLinked
<1> DEFINE amount  == withdrawalRequest[w].amount
           balance == appUser[u].balance - amount
           held    == appUser[u].held - amount
           row     == [appUser[u] EXCEPT !.balance = balance, !.held = held]
<1>3. /\ appUser[u] \in UserRow /\ appUser[u].balance \in Nat
      /\ appUser[u].held \in Nat /\ appUser[u].held <= appUser[u].balance
  BY FundsTyped, RowTypes DEF MoneyInv
<1>4. amount \in Nat /\ amount <= appUser[u].held
  BY <1>1, <1>2, RequestCovered
<1>5. balance \in Nat /\ held \in Nat /\ held <= balance /\ -amount \in Int
  BY <1>3, <1>4
<1>6. /\ appUser' = [appUser EXCEPT ![u] = row]
      /\ Post(u, Entry(w, "withdrawal", -amount, balance, None))
      /\ withdrawalRequest' = [withdrawalRequest EXCEPT ![w].status = "paid"]
      /\ UNCHANGED <<charger, chargingOrder>>
  BY <1>2 DEF ApproveWithdrawal, MoneyInv, TypeOK
<1>7. Entry(w, "withdrawal", -amount, balance, None) \in EntryRow
  BY <1>5, EntryType
<1>8. walletEntry' \in [Users -> Seq(EntryRow)]
  BY <1>6, <1>7, PostType DEF MoneyInv
<1> HIDE DEF balance, held
<1>9. row \in UserRow /\ row.balance = balance /\ row.held = held
  BY <1>3, <1>5, FundsRow DEF UserRow
<1> HIDE DEF row
<1>10. row.held = appUser[u].held - withdrawalRequest[w].amount
  BY <1>9 DEF held
<1> QED
  BY <1>1, <1>2, <1>5, <1>6, <1>8, <1>9, <1>10, RequestReviewed

\* A rejection releases it.
LEMMA RejectMoney ==
  ASSUME MoneyInv, RowsAssumption, NEW w \in Withdrawals, RejectWithdrawal(w)
  PROVE  MoneyInv'
<1>1. withdrawalRequest[w].status = "pending"
  BY DEF RejectWithdrawal
<1>2. PICK u \in Users : u = withdrawalRequest[w].user
  BY <1>1 DEF MoneyInv, RowsLinked
<1> DEFINE held == appUser[u].held - withdrawalRequest[w].amount
           row  == [appUser[u] EXCEPT !.held = held]
<1>3. /\ appUser[u] \in UserRow /\ appUser[u].balance \in Nat
      /\ appUser[u].held \in Nat /\ appUser[u].held <= appUser[u].balance
  BY FundsTyped, RowTypes DEF MoneyInv
<1>4. /\ withdrawalRequest[w].amount \in Nat
      /\ withdrawalRequest[w].amount <= appUser[u].held
  BY <1>1, <1>2, RequestCovered
<1>5. held \in Nat /\ held <= appUser[u].balance
  BY <1>3, <1>4
<1>6. /\ appUser' = [appUser EXCEPT ![u] = row]
      /\ withdrawalRequest' = [withdrawalRequest EXCEPT ![w].status = "rejected"]
      /\ UNCHANGED <<charger, chargingOrder, walletEntry>>
  BY <1>2 DEF RejectWithdrawal, MoneyInv, TypeOK
<1>7. walletEntry' \in [Users -> Seq(EntryRow)]
  BY <1>6 DEF MoneyInv, TypeOK
<1> HIDE DEF held
<1>8. row \in UserRow /\ row.balance = appUser[u].balance /\ row.held = held
  BY <1>3, <1>5, FundsRow DEF UserRow
<1> HIDE DEF row
<1>9. row.held = appUser[u].held - withdrawalRequest[w].amount
  BY <1>8 DEF held
<1> QED
  BY <1>1, <1>2, <1>5, <1>6, <1>7, <1>8, <1>9, RequestReviewed
-----------------------------------------------------------------------------
(* MoneyInv is an invariant. *)

\* The tables begin without claims.
LEMMA InitMoney ==
  ASSUME Init, RowsAssumption, VehicleAssumption
  PROVE  MoneyInv
<1>1. /\ \A u \in Users : appUser[u] \in UserRow
      /\ NoOrder \in OrderRow /\ NoRequest \in RequestRow /\ <<>> \in Seq(EntryRow)
  BY DEF Init, UserRow, OrderRow, RequestRow, NoOrder, NoRequest, VehicleAssumption
<1>2. charger \in [Chargers -> ChargerRow]
  BY DEF Init, ChargerRow
<1>3. TypeOK
  BY <1>1, <1>2 DEF Init, TypeOK
<1>4. RowsLinked
  BY DEF Init, RowsLinked, OrdersLinked, NoOrder, NoRequest, VehicleAssumption
<1>5. ASSUME NEW u \in Users PROVE HeldFor(u) = 0
  <2>1. Invoices(u) = {} /\ OpenRequests(u) = {}
    BY DEF Init, Invoices, OpenRequests, NoOrder, NoRequest
  <2>2. Total(OrderAmount, {}) = 0 /\ Total(RequestAmount, {}) = 0
    BY TotalEmpty
  <2> QED
    BY <2>1, <2>2 DEF HeldFor
<1>6. HoldsBacked
  BY <1>5 DEF Init, HoldsBacked
<1> QED
  BY <1>3, <1>4, <1>6 DEF MoneyInv

\* The commands of a user's account,
LEMMA AccountMoney ==
  ASSUME MoneyInv, RowsAssumption, AmountsAssumption, AccountStep
  PROVE  MoneyInv'
BY RechargeMoney, WithdrawMoney, SaveVehicleMoney DEF AccountStep

\* of its orders,
LEMMA OrderMoney ==
  ASSUME MoneyInv, RowsAssumption, VehicleAssumption, OrderStep
  PROVE  MoneyInv'
<1>1. CASE \E u \in Users, o \in Orders : Start(u, o) \/ Pay(u, o)
  BY <1>1, StartMoney, PayMoney
<1>2. CASE \E u \in Users, o \in Orders : StartLapsed(u, o) \/ Cancel(u, o)
  BY <1>2, CancelMoney
<1>3. CASE \E u \in Users, o \in Orders : Stop(u, o)
  BY <1>3, SettleMoney DEF Stop, StopReasons
<1>4. CASE \E u \in Users, o \in Orders, c \in Chargers, k \in Keys,
              r \in SocRequests \cup {None} :
             \/ Reserve(u, c, k, r, o)
             \/ \E x \in Orders : ReserveAgain(u, c, k, r, o, x)
  BY <1>4, ReserveMoney, ReserveAgainMoney
<1>5. CASE \E o \in Orders : Expire(o)
  BY <1>5, CancelMoney
<1>6. CASE \E o \in Orders : CapStop(o)
  BY <1>6, SettleMoney DEF CapStop, StopReasons
<1>7. CASE \E o \in Orders : Lapse(o)
  BY <1>7, LapseMoney
<1> QED
  BY <1>1, <1>2, <1>3, <1>4, <1>5, <1>6, <1>7 DEF OrderStep

\* and of administrators preserve MoneyInv.
LEMMA AdminMoney ==
  ASSUME MoneyInv, RowsAssumption, AmountsAssumption, AdminStep
  PROVE  MoneyInv'
<1>1. CASE \E u \in Users, k \in Keys, a \in Adjustments :
             Adjust(u, k, a) \/ \E o \in Orders : Refund(u, k, o, a)
  BY <1>1, AdjustMoney, RefundMoney
<1>2. CASE \E u \in Users, status \in {"active", "frozen"} : SetUserStatus(u, status)
  BY <1>2, SetUserStatusMoney
<1>3. CASE \E w \in Withdrawals : ApproveWithdrawal(w) \/ RejectWithdrawal(w)
  BY <1>3, ApproveMoney, RejectMoney
<1>4. CASE \E c \in Chargers :
             \/ \E status \in {"available", "faulted"} : SetChargerStatus(c, status)
             \/ \E power \in Powers : ChargerEdit(c, power)
             \/ RestartCharger(c)
  BY <1>4, ChargerAdminMoney
<1> QED
  BY <1>1, <1>2, <1>3, <1>4 DEF AdminStep

\* A stutter keeps it.
LEMMA StutterMoney == ASSUME MoneyInv, UNCHANGED vars PROVE MoneyInv'
<1>1. UNCHANGED <<appUser, charger, chargingOrder, walletEntry, withdrawalRequest>>
  BY DEF vars
<1>2. charger' \in [Chargers -> ChargerRow]
  BY <1>1 DEF MoneyInv, TypeOK
<1> QED
  BY <1>1, <1>2, ChargersEdited

\* The tables stay well typed, the held balances are the sum of the open claims
\* on them and the balances cover them, however many users, orders and
\* withdrawal requests there are.
THEOREM MoneyInvariant == Spec => []MoneyInv
<1>1. Init => MoneyInv
  BY InitMoney, RowsAssumption, VehicleAssumption
<1>2. MoneyInv /\ [Next]_vars => MoneyInv'
  BY AccountMoney, OrderMoney, AdminMoney, StutterMoney,
     RowsAssumption, AmountsAssumption, VehicleAssumption DEF Next
<1> QED
  BY <1>1, <1>2, PTL DEF Spec

\* Every amount a command writes fits its column: no balance or held balance of
\* a user ever goes below zero, no energy above the battery.
THEOREM TypeCorrect == Spec => []TypeOK
<1>1. MoneyInv => TypeOK
  BY DEF MoneyInv
<1> QED
  BY <1>1, MoneyInvariant, PTL

\* The held balance of every user is the sum of exactly the claims on it, and
\* the balance covers it (pay and review_withdrawal rely on both).
THEOREM HoldsAlwaysBacked == Spec => []HoldsBacked
<1>1. MoneyInv => HoldsBacked
  BY DEF MoneyInv
<1> QED
  BY <1>1, MoneyInvariant, PTL
-----------------------------------------------------------------------------
(* The ledger. *)

\* A document that is settled stays, and none becomes settled.
DocumentsKept ==
  /\ \A o \in Orders : chargingOrder[o].status = "completed"
                         \/ chargingOrder'[o].status = "completed"
       => chargingOrder'[o] = chargingOrder[o]
  /\ \A w \in Withdrawals : withdrawalRequest[w].status = "paid"
                              \/ withdrawalRequest'[w].status = "paid"
       => withdrawalRequest'[w] = withdrawalRequest[w]

WalletsKept ==
  /\ walletEntry' = walletEntry
  /\ \A u \in Users : appUser'[u].balance = appUser[u].balance

Quiet == DocumentsKept /\ WalletsKept

\* The one way an entry is written.
Posted(u, e) ==
  /\ e \in EntryRow /\ Post(u, e)
  /\ e.after = appUser[u].balance + e.amount
  /\ appUser'[u].balance = e.after
  /\ \A v \in Users \ {u} : appUser'[v].balance = appUser[v].balance

Keyed(u, e) ==
  /\ Posted(u, e) /\ e.key \in Keys
  /\ UNCHANGED <<chargingOrder, withdrawalRequest>>
  /\ e.type = "refund" =>
       /\ e.order \in Orders /\ e.amount \in Nat
       /\ chargingOrder[e.order].user = u /\ chargingOrder[e.order].status = "completed"
       /\ Refunded(e.order) + e.amount <= chargingOrder[e.order].amount

\* Order o, which awaited payment, is paid.
Completes(o) ==
  /\ chargingOrder[o].status = "pending_payment"
  /\ \A p \in Orders \ {o} : chargingOrder'[p] = chargingOrder[p]
  /\ chargingOrder'[o].status = "completed"
  /\ chargingOrder'[o].user = chargingOrder[o].user
  /\ chargingOrder'[o].amount = chargingOrder[o].amount
  /\ withdrawalRequest' = withdrawalRequest

Charged(u, o, e) ==
  /\ Completes(o) /\ chargingOrder[o].user = u /\ chargingOrder[o].amount > 0
  /\ Posted(u, e) /\ e.key = o /\ e.type = "charge" /\ e.amount = -chargingOrder[o].amount

ChargedNothing(o) == Completes(o) /\ chargingOrder[o].amount = 0 /\ WalletsKept

\* Request w, which was pending, is paid out.
PaidOut(u, w, e) ==
  /\ withdrawalRequest[w].status = "pending" /\ withdrawalRequest[w].user = u
  /\ \A x \in Withdrawals \ {w} : withdrawalRequest'[x] = withdrawalRequest[x]
  /\ withdrawalRequest'[w].status = "paid" /\ withdrawalRequest'[w].user = u
  /\ withdrawalRequest'[w].amount = withdrawalRequest[w].amount
  /\ chargingOrder' = chargingOrder
  /\ Posted(u, e) /\ e.key = w /\ e.type = "withdrawal"
  /\ e.amount = -withdrawalRequest[w].amount

LedgerStep ==
  \/ Quiet
  \/ \E u \in Users, e \in EntryRow : Keyed(u, e)
  \/ \E u \in Users, o \in Orders, e \in EntryRow : Charged(u, o, e)
  \/ \E o \in Orders : ChargedNothing(o)
  \/ \E u \in Users, w \in Withdrawals, e \in EntryRow : PaidOut(u, w, e)
-----------------------------------------------------------------------------
(* Every step is one of them. *)

\* The tables as functions.
LEMMA TablesTyped ==
  ASSUME MoneyInv
  PROVE  /\ chargingOrder \in [Orders -> OrderRow] /\ appUser \in [Users -> UserRow]
         /\ withdrawalRequest \in [Withdrawals -> RequestRow]
         /\ walletEntry \in [Users -> Seq(EntryRow)]
         /\ \A w \in Withdrawals : withdrawalRequest[w].status # "none" =>
              withdrawalRequest[w].user \in Users
         /\ \A u \in Users : appUser[u].balance \in Nat /\ appUser[u].held \in Nat
BY FundsTyped DEF MoneyInv, TypeOK, RowsLinked

\* An entry of a client's key, and the balance with it.
LEMMA KeyPosted ==
  ASSUME MoneyInv, NEW u \in Users, NEW k \in Keys,
         NEW type \in {"recharge", "adjustment", "refund"}, NEW a \in Int,
         NEW order \in Orders \cup {None}, appUser[u].balance + a \in Nat,
         appUser' = [appUser EXCEPT ![u].balance = appUser[u].balance + a],
         Post(u, Entry(k, type, a, appUser[u].balance + a, order)),
         UNCHANGED <<chargingOrder, withdrawalRequest>>,
         type = "refund" =>
           /\ order \in Orders /\ a \in Nat
           /\ chargingOrder[order].user = u /\ chargingOrder[order].status = "completed"
           /\ Refunded(order) + a <= chargingOrder[order].amount
  PROVE  LedgerStep
<1> DEFINE e == Entry(k, type, a, appUser[u].balance + a, order)
<1>1. e \in EntryRow
  BY EntryType
<1>2. /\ e.key = k /\ e.type = type /\ e.amount = a /\ e.order = order
      /\ e.after = appUser[u].balance + a
  BY DEF Entry
<1>3. /\ appUser'[u].balance = appUser[u].balance + a
      /\ \A v \in Users \ {u} : appUser'[v].balance = appUser[v].balance
  BY TablesTyped DEF UserRow
<1>4. Post(u, e)
  OBVIOUS
<1> HIDE DEF e
<1>5. Keyed(u, e)
  BY <1>1, <1>2, <1>3, <1>4 DEF Keyed, Posted
<1> QED
  BY <1>1, <1>5 DEF LedgerStep

\* Orders move without being paid, and no wallet is touched.
LEMMA OrdersQuiet ==
  ASSUME MoneyInv, UNCHANGED <<walletEntry, withdrawalRequest>>,
         \A u \in Users : appUser'[u].balance = appUser[u].balance,
         \A o \in Orders : \/ chargingOrder'[o] = chargingOrder[o]
                           \/ /\ chargingOrder[o].status # "completed"
                              /\ chargingOrder'[o].status # "completed"
  PROVE  LedgerStep
BY DEF LedgerStep, Quiet, DocumentsKept, WalletsKept

\* Each command is a LedgerStep: those of a user's account,
LEMMA AccountLedger ==
  ASSUME MoneyInv, AmountsAssumption, AccountStep
  PROVE  LedgerStep
<1>1. ASSUME NEW u \in Users, NEW k \in Keys, NEW a \in Amounts, Recharge(u, k, a)
      PROVE  LedgerStep
  <2>1. a \in Int /\ appUser[u].balance + a \in Nat
    BY TablesTyped DEF AmountsAssumption
  <2> QED
    BY <1>1, <2>1, KeyPosted DEF Recharge
<1>2. ASSUME NEW u \in Users, NEW k \in Keys, NEW a \in Amounts, NEW w \in Withdrawals,
             Withdraw(u, k, a, w)
      PROVE  LedgerStep
  <2> DEFINE request == [status |-> "pending", user |-> u, key |-> k, amount |-> a]
  <2>1. /\ withdrawalRequest[w].status = "none" /\ UNCHANGED <<walletEntry, chargingOrder>>
        /\ withdrawalRequest' = [withdrawalRequest EXCEPT ![w] = request]
    BY <1>2 DEF Withdraw
  <2>2. request.status = "pending"
    OBVIOUS
  <2> HIDE DEF request
  <2>3. \A v \in Users : appUser'[v].balance = appUser[v].balance
    BY <1>2, TablesTyped DEF Withdraw, UserRow
  <2>4. \A x \in Withdrawals : withdrawalRequest'[x] =
          IF x = w THEN request ELSE withdrawalRequest[x]
    BY <2>1, TablesTyped
  <2> QED
    BY <2>1, <2>2, <2>3, <2>4 DEF LedgerStep, Quiet, DocumentsKept, WalletsKept
<1>3. ASSUME NEW u \in Users, NEW profile, SaveVehicle(u, profile)
      PROVE  LedgerStep
  <2>1. \A v \in Users : appUser'[v].balance = appUser[v].balance
    BY <1>3, TablesTyped DEF SaveVehicle, UserRow
  <2> QED
    BY <1>3, <2>1, OrdersQuiet DEF SaveVehicle
<1> QED
  BY <1>1, <1>2, <1>3 DEF AccountStep

\* a reservation, which completes no order,
LEMMA PlaceLedger ==
  ASSUME MoneyInv, NEW orders \in [Orders -> OrderRow], NEW chargers,
         \A p \in Orders : \/ orders[p] = chargingOrder[p]
                           \/ /\ chargingOrder[p].status # "completed"
                              /\ orders[p].status # "completed",
         NEW u, NEW c, NEW k, NEW request, NEW o \in Orders,
         Place(orders, chargers, u, c, k, request, o)
  PROVE  LedgerStep
<1>1. PICK row : row.status = "reserved" /\ chargingOrder' = [orders EXCEPT ![o] = row]
  <2> DEFINE initial == IF appUser[u].plate # None \/ request = None
                        THEN appUser[u].soc ELSE request.soc
             target  == IF request = None THEN appUser[u].limit ELSE request.target
             r == [status |-> "reserved", user |-> u, charger |-> c,
                   key |-> k, lapsed |-> FALSE, plate |-> appUser[u].plate,
                   initial |-> initial, target |-> target - initial,
                   energy |-> 0, amount |-> 0, reason |-> None]
  <2>1. chargingOrder' = [orders EXCEPT ![o] = r]
    BY DEF Place
  <2>2. r.status = "reserved"
    OBVIOUS
  <2> HIDE DEF r
  <2> QED
    BY <2>1, <2>2
<1>2. /\ orders[o].status = "none"
      /\ UNCHANGED <<appUser, walletEntry, withdrawalRequest>>
  BY DEF Place
<1>3. \A p \in Orders : chargingOrder'[p] = IF p = o THEN row ELSE orders[p]
  BY <1>1
<1> QED
  BY <1>1, <1>2, <1>3, OrdersQuiet

\* a cancellation, which completes none either,
LEMMA CancelLedger ==
  ASSUME MoneyInv, NEW o \in Orders, chargingOrder[o].status = "reserved",
         NEW reason
  PROVE  /\ \A p \in Orders :
              \/ Cancelled(chargingOrder, o, reason)[p] = chargingOrder[p]
              \/ /\ chargingOrder[p].status # "completed"
                 /\ Cancelled(chargingOrder, o, reason)[p].status # "completed"
         /\ CancelReserved(o, reason) => LedgerStep
<1>1. \A p \in Orders :
        \/ Cancelled(chargingOrder, o, reason)[p] = chargingOrder[p]
        \/ /\ chargingOrder[p].status # "completed"
           /\ Cancelled(chargingOrder, o, reason)[p].status # "completed"
  BY TablesTyped DEF Cancelled, OrderRow
<1>2. CancelReserved(o, reason) => LedgerStep
  BY <1>1, OrdersQuiet DEF CancelReserved
<1> QED
  BY <1>1, <1>2

\* both at once,
LEMMA ReserveAgainLedger ==
  ASSUME MoneyInv, NEW u, NEW c, NEW k, NEW r, NEW o \in Orders, NEW x \in Orders,
         ReserveAgain(u, c, k, r, o, x)
  PROVE  LedgerStep
<1> DEFINE orders == Cancelled(chargingOrder, x, "reservation_expired")
<1>1. chargingOrder[x].status = "reserved" /\ "reservation_expired" \in StopReasons
  BY DEF ReserveAgain, StopReasons
<1>2. orders \in [Orders -> OrderRow]
  BY <1>1, TablesTyped, CancelledOrders DEF MoneyInv, RowsLinked
<1>3. Place(orders, Released(charger, chargingOrder[x].charger), u, c, k, r, o)
  BY DEF ReserveAgain
<1>4. \A p \in Orders : \/ orders[p] = chargingOrder[p]
                        \/ /\ chargingOrder[p].status # "completed"
                           /\ orders[p].status # "completed"
  BY <1>1, CancelLedger
<1> HIDE DEF orders
<1> QED
  BY <1>2, <1>3, <1>4, PlaceLedger

\* a settlement, which posts nothing,
LEMMA SettleLedger ==
  ASSUME MoneyInv, NEW o \in Orders, NEW reason, Settle(o, reason)
  PROVE  LedgerStep
<1>1. PICK b \in Bills(chargingOrder[o].target, Available(chargingOrder[o].user)) :
        /\ chargingOrder' = [chargingOrder EXCEPT ![o] =
             [@ EXCEPT !.status = "pending_payment", !.energy = b.energy,
                       !.amount = b.amount,
                       !.reason = IF b.cap # None THEN b.cap ELSE reason]]
        /\ appUser' = [appUser EXCEPT ![chargingOrder[o].user] =
             [@ EXCEPT !.held = appUser[chargingOrder[o].user].held + b.amount,
                       !.soc = IF appUser[chargingOrder[o].user].plate
                                    = chargingOrder[o].plate
                               THEN chargingOrder[o].initial + b.energy
                               ELSE appUser[chargingOrder[o].user].soc]]
  BY DEF Settle
<1>2. /\ chargingOrder[o].status = "charging" /\ UNCHANGED <<walletEntry, withdrawalRequest>>
  BY DEF Settle
<1>3. \A p \in Orders : \/ chargingOrder'[p] = chargingOrder[p]
                        \/ /\ chargingOrder[p].status # "completed"
                           /\ chargingOrder'[p].status # "completed"
  BY <1>1, <1>2, TablesTyped DEF OrderRow
<1>4. \A v \in Users : appUser'[v].balance = appUser[v].balance
  BY <1>1, TablesTyped DEF UserRow
<1> QED
  BY <1>2, <1>3, <1>4, OrdersQuiet

\* a payment, which completes an order and posts its amount,
LEMMA PayLedger ==
  ASSUME MoneyInv, NEW u \in Users, NEW o \in Orders, Pay(u, o)
  PROVE  LedgerStep
<1> DEFINE amount  == chargingOrder[o].amount
           balance == appUser[u].balance - amount
           row     == [appUser[u] EXCEPT !.balance = balance,
                                         !.held = appUser[u].held - amount]
           e       == Entry(o, "charge", -amount, balance, o)
<1>1. /\ appUser[u] \in UserRow /\ appUser[u].balance \in Nat
      /\ chargingOrder[o] \in OrderRow /\ amount \in Nat
  BY TablesTyped DEF OrderRow
<1>2. /\ chargingOrder[o].user = u /\ chargingOrder[o].status = "pending_payment"
      /\ appUser[u].balance >= amount
      /\ appUser' = [appUser EXCEPT ![u] = row]
      /\ IF amount > 0 THEN Post(u, e) ELSE UNCHANGED walletEntry
      /\ chargingOrder' = [chargingOrder EXCEPT ![o].status = "completed"]
      /\ withdrawalRequest' = withdrawalRequest
  BY DEF Pay
<1>3. Completes(o)
  BY <1>1, <1>2, TablesTyped DEF Completes, OrderRow
<1>4. balance \in Nat /\ balance = appUser[u].balance + (-amount) /\ -amount \in Int
  BY <1>1, <1>2
<1>5. row.balance = balance
  BY <1>1 DEF UserRow
<1>6. e \in EntryRow
  BY <1>4, EntryType
<1>7. e.key = o /\ e.type = "charge" /\ e.amount = -amount /\ e.after = balance
  BY DEF Entry
<1> HIDE DEF row, e, balance, amount
<1>8. /\ appUser'[u].balance = balance
      /\ \A v \in Users \ {u} : appUser'[v].balance = appUser[v].balance
  BY <1>2, <1>5, TablesTyped
<1>9. CASE amount > 0
  <2>1. Posted(u, e)
    BY <1>2, <1>4, <1>6, <1>7, <1>8, <1>9 DEF Posted
  <2>2. Charged(u, o, e)
    BY <1>2, <1>3, <1>7, <1>9, <2>1 DEF Charged, amount
  <2> QED
    BY <1>6, <2>2 DEF LedgerStep
<1>10. CASE amount = 0
  <2>1. balance = appUser[u].balance
    BY <1>1, <1>10 DEF balance
  <2>2. WalletsKept
    BY <1>2, <1>8, <1>10, <2>1 DEF WalletsKept
  <2>3. ChargedNothing(o)
    BY <1>3, <1>10, <2>2 DEF ChargedNothing, amount
  <2> QED
    BY <2>3 DEF LedgerStep
<1> QED
  BY <1>1, <1>9, <1>10 DEF amount

\* all commands on orders,
LEMMA OrderLedger ==
  ASSUME MoneyInv, OrderStep
  PROVE  LedgerStep
<1>1. ASSUME NEW u \in Users, NEW o \in Orders, Start(u, o)
      PROVE  LedgerStep
  <2>1. \A p \in Orders : \/ chargingOrder'[p] = chargingOrder[p]
                          \/ /\ chargingOrder[p].status # "completed"
                             /\ chargingOrder'[p].status # "completed"
    BY <1>1, TablesTyped DEF Start, OrderRow
  <2> QED
    BY <1>1, <2>1, OrdersQuiet DEF Start
<1>2. CASE \E u \in Users, o \in Orders : StartLapsed(u, o) \/ Cancel(u, o)
  BY <1>2, CancelLedger DEF StartLapsed, Cancel
<1>3. CASE \E u \in Users, o \in Orders : Stop(u, o)
  BY <1>3, SettleLedger DEF Stop
<1>4. CASE \E u \in Users, o \in Orders, c \in Chargers, k \in Keys,
              r \in SocRequests \cup {None} :
             \/ Reserve(u, c, k, r, o)
             \/ \E x \in Orders : ReserveAgain(u, c, k, r, o, x)
  BY <1>4, TablesTyped, PlaceLedger, ReserveAgainLedger DEF Reserve
<1>5. CASE \E o \in Orders : Expire(o)
  BY <1>5, CancelLedger DEF Expire
<1>6. CASE \E o \in Orders : CapStop(o)
  BY <1>6, SettleLedger DEF CapStop
<1>7. ASSUME NEW o \in Orders, Lapse(o)
      PROVE  LedgerStep
  <2>1. \A p \in Orders : \/ chargingOrder'[p] = chargingOrder[p]
                          \/ /\ chargingOrder[p].status # "completed"
                             /\ chargingOrder'[p].status # "completed"
    BY <1>7, TablesTyped DEF Lapse, OrderRow
  <2> QED
    BY <1>7, <2>1, OrdersQuiet DEF Lapse
<1>8. CASE \E u \in Users, o \in Orders : Pay(u, o)
  BY <1>8, PayLedger
<1> QED
  BY <1>1, <1>2, <1>3, <1>4, <1>5, <1>6, <1>7, <1>8 DEF OrderStep

\* a payout, which posts the amount of a request,
LEMMA ApproveLedger ==
  ASSUME MoneyInv, RowsAssumption, NEW w \in Withdrawals, ApproveWithdrawal(w)
  PROVE  LedgerStep
<1> DEFINE u       == withdrawalRequest[w].user
           amount  == withdrawalRequest[w].amount
           balance == appUser[u].balance - amount
           row     == [appUser[u] EXCEPT !.balance = balance,
                                         !.held = appUser[u].held - amount]
           e       == Entry(w, "withdrawal", -amount, balance, None)
<1>1. /\ withdrawalRequest[w].status = "pending"
      /\ appUser' = [appUser EXCEPT ![u] = row] /\ Post(u, e)
      /\ withdrawalRequest' = [withdrawalRequest EXCEPT ![w].status = "paid"]
      /\ chargingOrder' = chargingOrder
  BY DEF ApproveWithdrawal
<1>2. /\ u \in Users /\ appUser[u] \in UserRow /\ withdrawalRequest[w] \in RequestRow
      /\ appUser[u].balance \in Nat /\ appUser[u].held \in Nat
      /\ appUser[u].held <= appUser[u].balance
  BY <1>1, TablesTyped, FundsTyped
<1>3. amount \in Nat /\ amount <= appUser[u].held
  BY <1>1, <1>2, RequestCovered
<1>4. balance \in Nat /\ balance = appUser[u].balance + (-amount) /\ -amount \in Int
  BY <1>2, <1>3
<1>5. row.balance = balance
  BY <1>2 DEF UserRow
<1>6. e \in EntryRow
  BY <1>4, EntryType
<1>7. e.key = w /\ e.type = "withdrawal" /\ e.amount = -amount /\ e.after = balance
  BY DEF Entry
<1>8. /\ \A x \in Withdrawals \ {w} : withdrawalRequest'[x] = withdrawalRequest[x]
      /\ withdrawalRequest'[w].status = "paid" /\ withdrawalRequest'[w].user = u
      /\ withdrawalRequest'[w].amount = amount
  BY <1>1, <1>2, TablesTyped DEF RequestRow
<1> HIDE DEF row, e, balance
<1>9. /\ appUser'[u].balance = balance
      /\ \A v \in Users \ {u} : appUser'[v].balance = appUser[v].balance
  BY <1>1, <1>2, <1>5, TablesTyped
<1>10. Posted(u, e)
  BY <1>1, <1>4, <1>6, <1>7, <1>9 DEF Posted
<1>11. PaidOut(u, w, e)
  BY <1>1, <1>7, <1>8, <1>10 DEF PaidOut
<1> QED
  BY <1>2, <1>6, <1>11 DEF LedgerStep

\* and all commands of administrators.
LEMMA AdminLedger ==
  ASSUME MoneyInv, RowsAssumption, AmountsAssumption, AdminStep
  PROVE  LedgerStep
<1>1. ASSUME NEW u \in Users, NEW k \in Keys, NEW a \in Adjustments, Adjust(u, k, a)
      PROVE  LedgerStep
  <2>1. a \in Int /\ appUser[u].balance + a \in Nat
    BY <1>1, TablesTyped DEF Adjust, AmountsAssumption
  <2> QED
    BY <1>1, <2>1, KeyPosted DEF Adjust
<1>2. ASSUME NEW u \in Users, NEW k \in Keys, NEW a \in Adjustments, NEW o \in Orders,
             Refund(u, k, o, a)
      PROVE  LedgerStep
  <2>1. a \in Int /\ a \in Nat /\ appUser[u].balance + a \in Nat
    BY <1>2, TablesTyped DEF Refund, AmountsAssumption
  <2> QED
    BY <1>2, <2>1, KeyPosted DEF Refund
<1>3. ASSUME NEW u \in Users, NEW status, SetUserStatus(u, status)
      PROVE  LedgerStep
  <2>1. \A v \in Users : appUser'[v].balance = appUser[v].balance
    BY <1>3, TablesTyped DEF SetUserStatus, UserRow
  <2> QED
    BY <1>3, <2>1, OrdersQuiet DEF SetUserStatus
<1>4. ASSUME NEW w \in Withdrawals, RejectWithdrawal(w)
      PROVE  LedgerStep
  <2>1. \A v \in Users : appUser'[v].balance = appUser[v].balance
    BY <1>4, TablesTyped DEF RejectWithdrawal, UserRow
  <2>2. \A x \in Withdrawals : \/ withdrawalRequest'[x] = withdrawalRequest[x]
                               \/ /\ withdrawalRequest[x].status # "paid"
                                  /\ withdrawalRequest'[x].status # "paid"
    BY <1>4, TablesTyped DEF RejectWithdrawal, RequestRow
  <2> QED
    BY <1>4, <2>1, <2>2 DEF RejectWithdrawal, LedgerStep, Quiet, DocumentsKept, WalletsKept
<1>5. ASSUME NEW c \in Chargers,
             \/ \E status \in {"available", "faulted"} : SetChargerStatus(c, status)
             \/ \E power \in Powers : ChargerEdit(c, power)
             \/ RestartCharger(c)
      PROVE  LedgerStep
  BY <1>5, OrdersQuiet DEF SetChargerStatus, ChargerEdit, RestartCharger
<1> QED
  BY <1>1, <1>2, <1>3, <1>4, <1>5, ApproveLedger DEF AdminStep

\* There are no others.
LEMMA EveryLedgerStep == MoneyInv /\ [Next]_vars => LedgerStep
<1>1. MoneyInv /\ UNCHANGED vars => LedgerStep
  BY OrdersQuiet DEF vars
<1> QED
  BY <1>1, AccountLedger, OrderLedger, AdminLedger, RowsAssumption, AmountsAssumption DEF Next
-----------------------------------------------------------------------------
(* A wallet explains its balance. *)

Explained(w, balance) ==
  /\ balance = IF w = <<>> THEN 0 ELSE w[Len(w)].after
  /\ \A i \in 1 .. Len(w) :
       w[i].after = w[i].amount + IF i = 1 THEN 0 ELSE w[i - 1].after

\* The property, one user at a time.
LEMMA ExplainedIs ==
  /\ WalletExplainsBalance
       <=> \A u \in Users : Explained(walletEntry[u], appUser[u].balance)
  /\ WalletExplainsBalance'
       <=> \A u \in Users : Explained(walletEntry'[u], appUser'[u].balance)
BY DEF WalletExplainsBalance, Explained

\* What appending does to the rows of a wallet.
LEMMA Appended ==
  ASSUME NEW w \in Seq(EntryRow), NEW e \in EntryRow
  PROVE  /\ Append(w, e) \in Seq(EntryRow) /\ Append(w, e) # <<>>
         /\ Len(w) \in Nat /\ Len(Append(w, e)) = Len(w) + 1
         /\ \A i \in 1 .. Len(w) : Append(w, e)[i] = w[i]
         /\ Append(w, e)[Len(w) + 1] = e
  OBVIOUS

\* An entry that starts from the balance explains the next one.
LEMMA ExplainedAppend ==
  ASSUME NEW w \in Seq(EntryRow), NEW e \in EntryRow, NEW balance \in Nat,
         Explained(w, balance), e.after = balance + e.amount
  PROVE  Explained(Append(w, e), e.after)
<1> DEFINE w2 == Append(w, e)
<1>1. /\ w2 # <<>> /\ Len(w) \in Nat /\ Len(w2) = Len(w) + 1
      /\ \A i \in 1 .. Len(w) : w2[i] = w[i]
      /\ w2[Len(w) + 1] = e /\ (w = <<>> <=> Len(w) = 0)
  BY Appended
<1>2. e.amount \in Int
  BY DEF EntryRow
<1> HIDE DEF w2
<1>3. ASSUME NEW i \in 1 .. Len(w2)
      PROVE  w2[i].after = w2[i].amount + IF i = 1 THEN 0 ELSE w2[i - 1].after
  <2>1. CASE i \in 1 .. Len(w)
    <3>1. i # 1 => i - 1 \in 1 .. Len(w)
      BY <1>1, <2>1
    <3> QED
      BY <1>1, <2>1, <3>1 DEF Explained
  <2>2. CASE i = Len(w) + 1
    <3>1. CASE Len(w) = 0
      BY <1>1, <1>2, <2>2, <3>1 DEF Explained
    <3>2. CASE Len(w) # 0
      <4>1. i # 1 /\ i - 1 = Len(w) /\ Len(w) \in 1 .. Len(w) /\ w # <<>>
        BY <1>1, <2>2, <3>2
      <4>2. balance = w[Len(w)].after /\ w2[i - 1].after = balance
        BY <1>1, <4>1 DEF Explained
      <4> QED
        BY <1>1, <1>2, <2>2, <4>1, <4>2
    <3> QED
      BY <3>1, <3>2
  <2>3. i \in 1 .. Len(w) \/ i = Len(w) + 1
    BY <1>1
  <2> QED
    BY <2>1, <2>2, <2>3
<1>4. e.after = w2[Len(w2)].after
  BY <1>1
<1> QED
  BY <1>1, <1>3, <1>4 DEF Explained, w2

\* The wallets after a posting.
LEMMA PostedWallets ==
  ASSUME MoneyInv, NEW u \in Users, NEW e, Posted(u, e)
  PROVE  /\ walletEntry'[u] = Append(walletEntry[u], e)
         /\ \A v \in Users \ {u} : walletEntry'[v] = walletEntry[v]
         /\ \A v \in Users : walletEntry[v] \in Seq(EntryRow)
BY TablesTyped DEF Posted, Post

\* And that is how entries are posted.
LEMMA PostedExplains ==
  ASSUME MoneyInv, WalletExplainsBalance, NEW u \in Users, NEW e \in EntryRow,
         Posted(u, e)
  PROVE  WalletExplainsBalance'
<1> SUFFICES ASSUME NEW v \in Users
             PROVE  Explained(walletEntry'[v], appUser'[v].balance)
  BY ExplainedIs
<1>1. Explained(walletEntry[v], appUser[v].balance) /\ appUser[v].balance \in Nat
  BY ExplainedIs, TablesTyped
<1>2. CASE v = u
  BY <1>1, <1>2, PostedWallets, ExplainedAppend DEF Posted
<1>3. CASE v # u
  BY <1>1, <1>3, PostedWallets DEF Posted
<1> QED
  BY <1>2, <1>3

\* So every step preserves the property.
LEMMA StepExplains ==
  ASSUME MoneyInv, WalletExplainsBalance, [Next]_vars
  PROVE  WalletExplainsBalance'
<1>1. LedgerStep
  BY EveryLedgerStep
<1>2. CASE WalletsKept
  BY <1>2, ExplainedIs DEF WalletsKept
<1> QED
  BY <1>1, <1>2, PostedExplains
    DEF LedgerStep, Quiet, Keyed, Charged, ChargedNothing, PaidOut

\* Every balance is explained by the entries of its wallet, each of which shows the
\* balance it led to, whatever is posted in whatever order (account_service.py,
\* console_service.py, service.py).
THEOREM WalletsExplainBalances == Spec => []WalletExplainsBalance
<1>1. Init => WalletExplainsBalance
  BY DEF Init, WalletExplainsBalance
<1>2. MoneyInv /\ WalletExplainsBalance /\ [Next]_vars => WalletExplainsBalance'
  BY StepExplains
<1> QED
  BY <1>1, <1>2, MoneyInvariant, PTL DEF Spec
-----------------------------------------------------------------------------
(* Documents are debited once. *)

\* The rows of a wallet for document x: one of the amount when it is due.
KeyRows(w, x) == {i \in 1 .. Len(w) : w[i].key = x}

Debited(w, x, due, amount) ==
  IF due THEN \E i \in KeyRows(w, x) : KeyRows(w, x) = {i} /\ w[i].amount = -amount
         ELSE KeyRows(w, x) = {}

OrderDue(row, u) == row.user = u /\ row.status = "completed" /\ row.amount > 0
RequestDue(row, u) == row.user = u /\ row.status = "paid"

\* The property, one document at a time.
LEMMA DebitsIs ==
  /\ DebitsOnce <=>
       \A u \in Users :
         /\ \A o \in Orders : Debited(walletEntry[u], o, OrderDue(chargingOrder[o], u),
                                      chargingOrder[o].amount)
         /\ \A w \in Withdrawals :
              Debited(walletEntry[u], w, RequestDue(withdrawalRequest[w], u),
                      withdrawalRequest[w].amount)
  /\ DebitsOnce' <=>
       \A u \in Users :
         /\ \A o \in Orders : Debited(walletEntry'[u], o, OrderDue(chargingOrder'[o], u),
                                      chargingOrder'[o].amount)
         /\ \A w \in Withdrawals :
              Debited(walletEntry'[u], w, RequestDue(withdrawalRequest'[w], u),
                      withdrawalRequest'[w].amount)
BY DEF DebitsOnce, DebitedOnce, DebitRows, KeyRows, Debited, OrderDue, RequestDue

\* An entry for another document changes nothing for this one.
LEMMA DebitedElsewhere ==
  ASSUME NEW w \in Seq(EntryRow), NEW e \in EntryRow, NEW x, e.key # x,
         NEW due, NEW amount, Debited(w, x, due, amount)
  PROVE  Debited(Append(w, e), x, due, amount)
<1> DEFINE w2 == Append(w, e)
<1>1. /\ Len(w) \in Nat /\ Len(w2) = Len(w) + 1
      /\ \A i \in 1 .. Len(w) : w2[i] = w[i]
      /\ w2[Len(w) + 1] = e
  BY Appended
<1> HIDE DEF w2
<1>2. KeyRows(w2, x) = KeyRows(w, x)
  BY <1>1 DEF KeyRows
<1>3. \A i \in KeyRows(w, x) : w2[i] = w[i]
  BY <1>1 DEF KeyRows
<1> QED
  BY <1>2, <1>3 DEF Debited, w2

\* The entry of a document that has none yet.
LEMMA DebitedNow ==
  ASSUME NEW w \in Seq(EntryRow), NEW e \in EntryRow, NEW x, e.key = x,
         KeyRows(w, x) = {}, NEW amount, e.amount = -amount
  PROVE  Debited(Append(w, e), x, TRUE, amount)
<1> DEFINE w2 == Append(w, e)
<1>1. /\ Len(w) \in Nat /\ Len(w2) = Len(w) + 1
      /\ \A i \in 1 .. Len(w) : w2[i] = w[i]
      /\ w2[Len(w) + 1] = e
  BY Appended
<1> HIDE DEF w2
<1>2. KeyRows(w2, x) = {Len(w) + 1}
  BY <1>1 DEF KeyRows
<1> QED
  BY <1>1, <1>2 DEF Debited, w2

\* What is owed for the documents of u is the same after the step, those
\* in X apart.
DueKept(u, X) ==
  /\ \A o \in Orders \ X :
       \/ /\ OrderDue(chargingOrder'[o], u) = OrderDue(chargingOrder[o], u)
          /\ chargingOrder'[o].amount = chargingOrder[o].amount
       \/ ~OrderDue(chargingOrder'[o], u) /\ ~OrderDue(chargingOrder[o], u)
  /\ \A w \in Withdrawals \ X :
       \/ /\ RequestDue(withdrawalRequest'[w], u) = RequestDue(withdrawalRequest[w], u)
          /\ withdrawalRequest'[w].amount = withdrawalRequest[w].amount
       \/ ~RequestDue(withdrawalRequest'[w], u) /\ ~RequestDue(withdrawalRequest[w], u)

DebitsOf(u, X) ==
  /\ \A o \in Orders \ X :
       Debited(walletEntry[u], o, OrderDue(chargingOrder[o], u), chargingOrder[o].amount)
  /\ \A w \in Withdrawals \ X :
       Debited(walletEntry[u], w, RequestDue(withdrawalRequest[w], u),
               withdrawalRequest[w].amount)

\* Documents that stay as they are owe the same, and entries under other keys do not
\* count for them.
LEMMA DebitsOfKept ==
  ASSUME MoneyInv, RowsAssumption, DebitsOnce, NEW u \in Users, NEW X, DueKept(u, X),
         \/ walletEntry'[u] = walletEntry[u]
         \/ \E e \in EntryRow : /\ walletEntry'[u] = Append(walletEntry[u], e)
                                /\ e.key \in Keys \cup X
  PROVE  DebitsOf(u, X)'
<1>1. walletEntry[u] \in Seq(EntryRow)
  BY TablesTyped
<1>2. ASSUME NEW y \in (Orders \cup Withdrawals) \ X, NEW due, NEW amount,
             Debited(walletEntry[u], y, due, amount)
      PROVE  Debited(walletEntry'[u], y, due, amount)
  <2>1. CASE walletEntry'[u] = walletEntry[u]
    BY <1>2, <2>1
  <2>2. ASSUME NEW e \in EntryRow, walletEntry'[u] = Append(walletEntry[u], e),
               e.key \in Keys \cup X
        PROVE  Debited(walletEntry'[u], y, due, amount)
    <3>1. e.key # y
      BY <2>2, RowsAssumption
    <3> QED
      BY <1>1, <1>2, <2>2, <3>1, DebitedElsewhere
  <2> QED
    BY <2>1, <2>2
<1>3. ASSUME NEW o \in Orders \ X
      PROVE  Debited(walletEntry'[u], o, OrderDue(chargingOrder'[o], u),
                     chargingOrder'[o].amount)
  <2>1. Debited(walletEntry[u], o, OrderDue(chargingOrder[o], u), chargingOrder[o].amount)
    BY DebitsIs
  <2>2. Debited(walletEntry[u], o, OrderDue(chargingOrder'[o], u), chargingOrder'[o].amount)
    BY <2>1 DEF DueKept, Debited
  <2> QED
    BY <1>2, <2>2
<1>4. ASSUME NEW w \in Withdrawals \ X
      PROVE  Debited(walletEntry'[u], w, RequestDue(withdrawalRequest'[w], u),
                     withdrawalRequest'[w].amount)
  <2>1. Debited(walletEntry[u], w, RequestDue(withdrawalRequest[w], u),
                withdrawalRequest[w].amount)
    BY DebitsIs
  <2>2. Debited(walletEntry[u], w, RequestDue(withdrawalRequest'[w], u),
                withdrawalRequest'[w].amount)
    BY <2>1 DEF DueKept, Debited
  <2> QED
    BY <1>2, <2>2
<1> QED
  BY <1>3, <1>4 DEF DebitsOf

\* A payment debits its own order,
LEMMA ChargedDebits ==
  ASSUME MoneyInv, RowsAssumption, DebitsOnce,
         NEW u \in Users, NEW o \in Orders, NEW e \in EntryRow, Charged(u, o, e)
  PROVE  DebitsOnce'
<1>1. /\ walletEntry'[u] = Append(walletEntry[u], e) /\ e.key = o
      /\ \A v \in Users \ {u} : walletEntry'[v] = walletEntry[v]
      /\ walletEntry[u] \in Seq(EntryRow)
  BY PostedWallets DEF Charged
<1>2. ASSUME NEW v \in Users PROVE DebitsOf(v, {o})'
  <2>1. DueKept(v, {o})
    BY DEF DueKept, Charged, Completes
  <2> QED
    BY <1>1, <2>1, DebitsOfKept
<1>3. o \notin Withdrawals
  BY RowsAssumption
<1>4. ASSUME NEW v \in Users
      PROVE  Debited(walletEntry'[v], o, OrderDue(chargingOrder'[o], v),
                     chargingOrder'[o].amount)
  <2>1. KeyRows(walletEntry[v], o) = {}
    BY DebitsIs DEF Charged, Completes, OrderDue, Debited
  <2>2. CASE v = u
    <3>1. /\ OrderDue(chargingOrder'[o], u) = TRUE
          /\ e.amount = -chargingOrder'[o].amount
      BY DEF Charged, Completes, OrderDue
    <3>2. Debited(Append(walletEntry[u], e), o, TRUE, chargingOrder'[o].amount)
      BY <1>1, <2>1, <2>2, <3>1, DebitedNow
    <3> QED
      BY <1>1, <2>2, <3>1, <3>2
  <2>3. CASE v # u
    <3>1. ~OrderDue(chargingOrder'[o], v)
      BY <2>3 DEF Charged, Completes, OrderDue
    <3> QED
      BY <1>1, <2>1, <2>3, <3>1 DEF Debited
  <2> QED
    BY <2>2, <2>3
<1> QED
  BY <1>2, <1>3, <1>4, DebitsIs DEF DebitsOf

\* a payout its own request.
LEMMA PaidOutDebits ==
  ASSUME MoneyInv, RowsAssumption, DebitsOnce,
         NEW u \in Users, NEW w \in Withdrawals, NEW e \in EntryRow, PaidOut(u, w, e)
  PROVE  DebitsOnce'
<1>1. /\ walletEntry'[u] = Append(walletEntry[u], e) /\ e.key = w
      /\ \A v \in Users \ {u} : walletEntry'[v] = walletEntry[v]
      /\ walletEntry[u] \in Seq(EntryRow)
  BY PostedWallets DEF PaidOut
<1>2. ASSUME NEW v \in Users PROVE DebitsOf(v, {w})'
  <2>1. DueKept(v, {w})
    BY DEF DueKept, PaidOut
  <2> QED
    BY <1>1, <2>1, DebitsOfKept
<1>3. w \notin Orders
  BY RowsAssumption
<1>4. ASSUME NEW v \in Users
      PROVE  Debited(walletEntry'[v], w, RequestDue(withdrawalRequest'[w], v),
                     withdrawalRequest'[w].amount)
  <2>1. KeyRows(walletEntry[v], w) = {}
    BY DebitsIs DEF PaidOut, RequestDue, Debited
  <2>2. CASE v = u
    <3>1. /\ RequestDue(withdrawalRequest'[w], u) = TRUE
          /\ e.amount = -withdrawalRequest'[w].amount
      BY DEF PaidOut, RequestDue
    <3>2. Debited(Append(walletEntry[u], e), w, TRUE, withdrawalRequest'[w].amount)
      BY <1>1, <2>1, <2>2, <3>1, DebitedNow
    <3> QED
      BY <1>1, <2>2, <3>1, <3>2
  <2>3. CASE v # u
    <3>1. ~RequestDue(withdrawalRequest'[w], v)
      BY <2>3 DEF PaidOut, RequestDue
    <3> QED
      BY <1>1, <2>1, <2>3, <3>1 DEF Debited
  <2> QED
    BY <2>2, <2>3
<1> QED
  BY <1>2, <1>3, <1>4, DebitsIs DEF DebitsOf

\* So every step preserves the property.
LEMMA StepDebits ==
  ASSUME MoneyInv, RowsAssumption, DebitsOnce, [Next]_vars
  PROVE  DebitsOnce'
<1>1. LedgerStep
  BY EveryLedgerStep
<1>2. ASSUME \A u \in Users : DebitsOf(u, {})'
      PROVE  DebitsOnce'
  BY <1>2, DebitsIs DEF DebitsOf
<1>3. CASE Quiet \/ \E o \in Orders : ChargedNothing(o)
  <2>1. ASSUME NEW u \in Users PROVE DueKept(u, {}) /\ walletEntry'[u] = walletEntry[u]
    BY <1>3 DEF DueKept, Quiet, DocumentsKept, WalletsKept, ChargedNothing, Completes,
                OrderDue, RequestDue
  <2> QED
    BY <1>2, <2>1, DebitsOfKept
<1>4. ASSUME NEW u \in Users, NEW e \in EntryRow, Keyed(u, e)
      PROVE  DebitsOnce'
  <2>1. ASSUME NEW v \in Users
        PROVE  /\ DueKept(v, {})
               /\ \/ walletEntry'[v] = walletEntry[v]
                  \/ walletEntry'[v] = Append(walletEntry[v], e)
    BY <1>4, PostedWallets DEF DueKept, Keyed
  <2>2. e.key \in Keys \cup {}
    BY <1>4 DEF Keyed
  <2> QED
    BY <1>2, <2>1, <2>2, DebitsOfKept
<1> QED
  BY <1>1, <1>3, <1>4, ChargedDebits, PaidOutDebits DEF LedgerStep

\* An order is charged once, by its owner, for the amount of its invoice, and a
\* withdrawal is debited once, when it is paid, for any number of users, orders and
\* requests (pay of service.py, review_withdrawal of console_service.py).
THEOREM DocumentsDebitedOnce == Spec => []DebitsOnce
<1>1. Init => DebitsOnce
  BY DEF Init, DebitsOnce, DebitRows, NoOrder, NoRequest
<1>2. MoneyInv /\ DebitsOnce /\ [Next]_vars => DebitsOnce'
  BY StepDebits, RowsAssumption
<1> QED
  BY <1>1, <1>2, MoneyInvariant, PTL DEF Spec
-----------------------------------------------------------------------------
(* Refunds stay within the invoice. *)

\* The refunds of order o in a wallet.
Refunds(w, o) == {i \in 1 .. Len(w) : w[i].type = "refund" /\ w[i].order = o}

Returned(w, o) == Total([i \in 1 .. Len(w) |-> w[i].amount], Refunds(w, o))

\* Every refund belongs to an order of that user that was paid, and those of an
\* order stay within what was charged.
RefundInv ==
  /\ \A u \in Users : \A i \in 1 .. Len(walletEntry[u]) :
       walletEntry[u][i].type = "refund" =>
         /\ walletEntry[u][i].amount \in Nat
         /\ \E o \in Orders : /\ walletEntry[u][i].order = o
                             /\ chargingOrder[o].user = u
                             /\ chargingOrder[o].status = "completed"
  /\ \A o \in Orders : chargingOrder[o].status = "completed" =>
       /\ chargingOrder[o].user \in Users
       /\ Returned(walletEntry[chargingOrder[o].user], o) <= chargingOrder[o].amount

\* An entry that refunds something else.
LEMMA ReturnedElsewhere ==
  ASSUME NEW w \in Seq(EntryRow), NEW e \in EntryRow, NEW o,
         ~(e.type = "refund" /\ e.order = o)
  PROVE  Returned(Append(w, e), o) = Returned(w, o)
<1> DEFINE w2 == Append(w, e)
           f  == [i \in 1 .. Len(w) |-> w[i].amount]
           f2 == [i \in 1 .. Len(w2) |-> w2[i].amount]
<1>1. /\ Len(w) \in Nat /\ Len(w2) = Len(w) + 1
      /\ \A i \in 1 .. Len(w) : w2[i] = w[i]
      /\ w2[Len(w) + 1] = e
  BY Appended
<1> HIDE DEF w2
<1>2. Refunds(w2, o) = Refunds(w, o)
  BY <1>1 DEF Refunds
<1>3. \A i \in Refunds(w, o) : f2[i] = f[i]
  BY <1>1 DEF Refunds
<1> HIDE DEF f, f2
<1>4. Total(f2, Refunds(w, o)) = Total(f, Refunds(w, o))
  BY <1>3, TotalCong
<1> QED
  BY <1>2, <1>4 DEF Returned, w2, f, f2

\* An entry that refunds it.
LEMMA ReturnedMore ==
  ASSUME NEW w \in Seq(EntryRow), NEW e \in EntryRow, NEW o,
         e.type = "refund", e.order = o, e.amount \in Nat,
         \A i \in Refunds(w, o) : w[i].amount \in Nat
  PROVE  Returned(Append(w, e), o) = Returned(w, o) + e.amount
<1> DEFINE w2 == Append(w, e)
           f  == [i \in 1 .. Len(w) |-> w[i].amount]
           f2 == [i \in 1 .. Len(w2) |-> w2[i].amount]
           n  == Len(w) + 1
<1>1. /\ Len(w) \in Nat /\ Len(w2) = Len(w) + 1
      /\ \A i \in 1 .. Len(w) : w2[i] = w[i]
      /\ w2[Len(w) + 1] = e
  BY Appended
<1> HIDE DEF w2
<1>2. Refunds(w2, o) = Refunds(w, o) \cup {n} /\ n \notin Refunds(w, o)
  BY <1>1 DEF Refunds
<1>3. /\ \A i \in Refunds(w, o) : f2[i] = f[i]
      /\ \A i \in Refunds(w, o) : f[i] \in Nat
      /\ f2[n] = e.amount /\ f2[n] \in Nat
  BY <1>1 DEF Refunds
<1>4. IsFiniteSet(Refunds(w, o))
  <2>1. IsFiniteSet(1 .. Len(w)) /\ Refunds(w, o) \subseteq 1 .. Len(w)
    BY <1>1, FS_Interval DEF Refunds
  <2> QED
    BY <2>1, FS_Subset
<1> HIDE DEF f, f2, n
<1>5. Total(f2, Refunds(w, o) \cup {n}) = Total(f, Refunds(w, o)) + f2[n]
  <2> DEFINE S == Refunds(w, o)
  <2>1. /\ IsFiniteSet(S) /\ n \notin S /\ f2[n] \in Nat
        /\ \A i \in S : f2[i] = f[i]
        /\ \A i \in S : f[i] \in Nat
        /\ \A i \in S : f2[i] \in Nat
    BY <1>2, <1>3, <1>4
  <2> HIDE DEF S
  <2>2. Total(f2, S \cup {n}) = Total(f2, S) + f2[n]
    BY <2>1, TotalAdd
  <2>3. Total(f2, S) = Total(f, S)
    BY <2>1, TotalCong
  <2> QED
    BY <2>2, <2>3 DEF S
<1> QED
  BY <1>2, <1>3, <1>5 DEF Returned, w2, f, f2

\* What was refunded for an order is found in the wallet of its user.
LEMMA RefundedIs ==
  ASSUME NEW o
  PROVE  Refunded(o) = Returned(walletEntry[chargingOrder[o].user], o)
BY DEF Refunded, RefundRows, Returned, Refunds

\* What was paid stays paid, with its user and its amount.
LEMMA CompletedKept ==
  ASSUME LedgerStep, NEW o \in Orders, chargingOrder[o].status = "completed"
  PROVE  /\ chargingOrder'[o].status = "completed"
         /\ chargingOrder'[o].user = chargingOrder[o].user
         /\ chargingOrder'[o].amount = chargingOrder[o].amount
BY DEF LedgerStep, Quiet, DocumentsKept, Keyed, Charged, ChargedNothing, Completes, PaidOut

\* A wallet grows by one entry at most, and a refund is one that was allowed.
LEMMA WalletGrows ==
  ASSUME MoneyInv, LedgerStep, NEW v \in Users
  PROVE  \/ walletEntry'[v] = walletEntry[v]
         \/ \E e \in EntryRow :
              /\ walletEntry'[v] = Append(walletEntry[v], e)
              /\ e.type = "refund" => Keyed(v, e)
<1>1. ASSUME NEW u \in Users, NEW e \in EntryRow, Posted(u, e),
             e.type = "refund" => Keyed(u, e)
      PROVE  \/ walletEntry'[v] = walletEntry[v]
             \/ /\ walletEntry'[v] = Append(walletEntry[v], e)
                /\ e.type = "refund" => Keyed(v, e)
  BY <1>1, PostedWallets
<1>2. CASE Quiet \/ \E o \in Orders : ChargedNothing(o)
  BY <1>2 DEF Quiet, ChargedNothing, WalletsKept
<1>3. CASE \E u \in Users, e \in EntryRow : Keyed(u, e)
  BY <1>1, <1>3 DEF Keyed
<1>4. CASE \E u \in Users, o \in Orders, e \in EntryRow : Charged(u, o, e)
  BY <1>1, <1>4 DEF Charged
<1>5. CASE \E u \in Users, w \in Withdrawals, e \in EntryRow : PaidOut(u, w, e)
  BY <1>1, <1>5 DEF PaidOut
<1> QED
  BY <1>2, <1>3, <1>4, <1>5 DEF LedgerStep

\* Before it is paid an order has no refunds in any wallet.
LEMMA NothingReturned ==
  ASSUME MoneyInv, RefundInv, NEW o \in Orders, chargingOrder[o].status # "completed",
         NEW u \in Users
  PROVE  Returned(walletEntry[u], o) = 0
<1>1. Refunds(walletEntry[u], o) = {}
  BY DEF RefundInv, Refunds
<1> QED
  BY <1>1, TotalEmpty DEF Returned

\* Every step preserves that.
LEMMA StepRefunds ==
  ASSUME MoneyInv, RefundInv, [Next]_vars
  PROVE  RefundInv'
<1>0. LedgerStep /\ \A u \in Users : walletEntry[u] \in Seq(EntryRow)
  BY EveryLedgerStep, TablesTyped
<1>1. ASSUME NEW u \in Users, NEW i \in 1 .. Len(walletEntry'[u]),
             walletEntry'[u][i].type = "refund"
      PROVE  /\ walletEntry'[u][i].amount \in Nat
             /\ \E o \in Orders : /\ walletEntry'[u][i].order = o
                                 /\ chargingOrder'[o].user = u
                                 /\ chargingOrder'[o].status = "completed"
  <2>1. ASSUME i \in 1 .. Len(walletEntry[u]), walletEntry'[u][i] = walletEntry[u][i]
        PROVE  /\ walletEntry'[u][i].amount \in Nat
               /\ \E o \in Orders : /\ walletEntry'[u][i].order = o
                                   /\ chargingOrder'[o].user = u
                                   /\ chargingOrder'[o].status = "completed"
    <3>1. /\ walletEntry[u][i].amount \in Nat
          /\ \E o \in Orders : /\ walletEntry[u][i].order = o
                              /\ chargingOrder[o].user = u
                              /\ chargingOrder[o].status = "completed"
      BY <1>1, <2>1 DEF RefundInv
    <3> QED
      BY <1>0, <2>1, <3>1, CompletedKept
  <2>2. CASE walletEntry'[u] = walletEntry[u]
    BY <1>1, <2>1, <2>2
  <2>3. ASSUME NEW e \in EntryRow, walletEntry'[u] = Append(walletEntry[u], e),
               e.type = "refund" => Keyed(u, e)
        PROVE  /\ walletEntry'[u][i].amount \in Nat
               /\ \E o \in Orders : /\ walletEntry'[u][i].order = o
                                   /\ chargingOrder'[o].user = u
                                   /\ chargingOrder'[o].status = "completed"
    <3>1. /\ Len(walletEntry[u]) \in Nat
          /\ i \in 1 .. Len(walletEntry[u]) => walletEntry'[u][i] = walletEntry[u][i]
          /\ i \notin 1 .. Len(walletEntry[u]) => walletEntry'[u][i] = e
      BY <1>0, <1>1, <2>3, Appended
    <3>2. CASE i \in 1 .. Len(walletEntry[u])
      BY <2>1, <3>1, <3>2
    <3>3. CASE i \notin 1 .. Len(walletEntry[u])
      BY <1>1, <2>3, <3>1, <3>3 DEF Keyed
    <3> QED
      BY <3>2, <3>3
  <2> QED
    BY <1>0, <2>2, <2>3, WalletGrows
<1>2. ASSUME NEW o \in Orders, chargingOrder'[o].status = "completed"
      PROVE  /\ chargingOrder'[o].user \in Users
             /\ Returned(walletEntry'[chargingOrder'[o].user], o) <= chargingOrder'[o].amount
  <2> DEFINE u == chargingOrder'[o].user
             w == walletEntry[u]
  <2>1. u \in Users /\ Returned(w, o) <= chargingOrder'[o].amount
    <3>1. CASE chargingOrder[o].status = "completed"
      BY <1>0, <3>1, CompletedKept DEF RefundInv
    <3>2. CASE chargingOrder[o].status # "completed"
      <4>1. Completes(o)
        BY <1>0, <1>2, <3>2 DEF LedgerStep, Quiet, DocumentsKept, Keyed, Charged,
                                ChargedNothing, Completes, PaidOut
      <4>2. u \in Users /\ chargingOrder'[o].amount \in Nat
        BY <4>1 DEF Completes, MoneyInv, TypeOK, OrderRow, RowsLinked, OrdersLinked
      <4> QED
        BY <3>2, <4>2, NothingReturned
    <3> QED
      BY <3>1, <3>2
  <2>2. CASE walletEntry'[u] = w
    BY <2>1, <2>2
  <2>3. ASSUME NEW e \in EntryRow, walletEntry'[u] = Append(w, e),
               e.type = "refund" => Keyed(u, e)
        PROVE  Returned(walletEntry'[u], o) <= chargingOrder'[o].amount
    <3>1. CASE ~(e.type = "refund" /\ e.order = o)
      BY <1>0, <2>1, <2>3, <3>1, ReturnedElsewhere
    <3>2. CASE e.type = "refund" /\ e.order = o
      <4>1. /\ Keyed(u, e) /\ e.amount \in Nat /\ chargingOrder[o].user = u
            /\ chargingOrder'[o] = chargingOrder[o]
            /\ Refunded(o) + e.amount <= chargingOrder[o].amount
        BY <2>3, <3>2 DEF Keyed
      <4>2. \A i \in Refunds(w, o) : w[i].amount \in Nat
        BY <2>1 DEF RefundInv, Refunds
      <4>3. Returned(Append(w, e), o) = Returned(w, o) + e.amount
        BY <1>0, <2>1, <3>2, <4>1, <4>2, ReturnedMore
      <4>4. Refunded(o) = Returned(w, o)
        BY <4>1, RefundedIs
      <4> QED
        BY <2>3, <4>1, <4>3, <4>4
    <3> QED
      BY <3>1, <3>2
  <2> QED
    BY <1>0, <2>1, <2>2, <2>3, WalletGrows
<1> QED
  BY <1>1, <1>2 DEF RefundInv

\* And it bounds the refunds by what was paid.
LEMMA RefundsWithin == MoneyInv /\ RefundInv => RefundsBounded
<1> SUFFICES ASSUME MoneyInv, RefundInv, NEW o \in Orders, chargingOrder[o].user # None
             PROVE  Refunded(o) <= IF chargingOrder[o].status = "completed"
                                   THEN chargingOrder[o].amount ELSE 0
  BY DEF RefundsBounded
<1>1. chargingOrder[o].user \in Users
  BY TablesTyped DEF OrderRow
<1>2. CASE chargingOrder[o].status = "completed"
  BY <1>2, RefundedIs DEF RefundInv
<1>3. CASE chargingOrder[o].status # "completed"
  BY <1>1, <1>3, NothingReturned, RefundedIs
<1> QED
  BY <1>2, <1>3

\* However many refunds administrators post, an order never gives back more than it
\* was charged (money of console_service.py).
THEOREM RefundsStayBounded == Spec => []RefundsBounded
<1>1. Init => RefundInv
  BY DEF Init, RefundInv, NoOrder
<1>2. MoneyInv /\ RefundInv /\ [Next]_vars => RefundInv'
  BY StepRefunds
<1> QED
  BY <1>1, <1>2, RefundsWithin, MoneyInvariant, PTL DEF Spec
-----------------------------------------------------------------------------
(* The fleet. *)

\* The two properties, of any table of orders and any table of chargers.
Mirrored(orders, chargers) ==
  /\ \A o \in Orders : orders[o].status \in Plugged =>
       chargers[orders[o].charger].status = orders[o].status
  /\ \A c \in Chargers : chargers[c].status \in Plugged =>
       \E o \in Orders : orders[o].charger = c
                           /\ orders[o].status = chargers[c].status

Single(orders) ==
  \A o, p \in Orders : o # p =>
    /\ orders[o].status \in Unfinished /\ orders[p].status \in Unfinished
         => orders[o].user # orders[p].user
    /\ orders[o].status \in Plugged /\ orders[p].status \in Plugged
         => orders[o].charger # orders[p].charger

Fleet(orders, chargers) == Mirrored(orders, chargers) /\ Single(orders)

FleetInv == ChargerMirrorsOrder /\ OneActiveOrder

\* The invariant, of the tables as they are,
LEMMA FleetIs == FleetInv <=> Fleet(chargingOrder, charger)
BY DEF FleetInv, Fleet, Mirrored, Single, ChargerMirrorsOrder, OneActiveOrder

\* and as they are after a step.
LEMMA FleetIsNext == FleetInv' <=> Fleet(chargingOrder', charger')
BY DEF FleetInv, Fleet, Mirrored, Single, ChargerMirrorsOrder, OneActiveOrder
-----------------------------------------------------------------------------
(* The ways an order and its charger move together. *)

\* Tables whose rows in use are linked.
Tables(orders, chargers) ==
  /\ orders \in [Orders -> OrderRow]
  /\ chargers \in [Chargers -> ChargerRow]
  /\ OrdersLinked(orders)

\* An order leaves its charger, which becomes free.
LEMMA Leaves ==
  ASSUME NEW orders, NEW chargers, Tables(orders, chargers), Fleet(orders, chargers),
         NEW o \in Orders, orders[o].status \in Plugged,
         NEW row, row.status \notin Plugged, row.user = orders[o].user,
         NEW crow, crow.status \notin Plugged
  PROVE  Fleet([orders EXCEPT ![o] = row], [chargers EXCEPT ![orders[o].charger] = crow])
<1> DEFINE c == orders[o].charger
           orders2 == [orders EXCEPT ![o] = row]
           chargers2 == [chargers EXCEPT ![c] = crow]
<1>1. c \in Chargers
  BY DEF Tables, OrdersLinked, Plugged
<1>2. /\ \A p \in Orders : orders2[p] = IF p = o THEN row ELSE orders[p]
      /\ \A d \in Chargers : chargers2[d] = IF d = c THEN crow ELSE chargers[d]
  BY <1>1 DEF Tables
<1>3. ASSUME NEW p \in Orders, p # o, orders[p].status \in Plugged
      PROVE  orders[p].charger # c /\ orders[p].charger \in Chargers
  BY <1>3 DEF Tables, OrdersLinked, Plugged, Fleet, Single
<1> HIDE DEF c, orders2, chargers2
<1>4. ASSUME NEW p \in Orders, orders2[p].status \in Plugged
      PROVE  chargers2[orders2[p].charger].status = orders2[p].status
  BY <1>2, <1>3, <1>4 DEF Fleet, Mirrored
<1>5. ASSUME NEW d \in Chargers, chargers2[d].status \in Plugged
      PROVE  \E p \in Orders : orders2[p].charger = d
                                 /\ orders2[p].status = chargers2[d].status
  <2>1. d # c /\ chargers[d].status \in Plugged /\ chargers2[d] = chargers[d]
    BY <1>2, <1>5
  <2>2. PICK p \in Orders : orders[p].charger = d /\ orders[p].status = chargers[d].status
    BY <2>1 DEF Fleet, Mirrored
  <2>3. p # o
    BY <2>1, <2>2 DEF c
  <2> QED
    BY <1>2, <2>1, <2>2, <2>3
<1>6. Single(orders2)
  BY <1>2 DEF Fleet, Single, Plugged, Unfinished
<1> QED
  BY <1>4, <1>5, <1>6 DEF Fleet, Mirrored, c, orders2, chargers2

\* A new order takes a free charger.
LEMMA Takes ==
  ASSUME NEW orders, NEW chargers, Tables(orders, chargers), Fleet(orders, chargers),
         NEW o \in Orders, orders[o].status = "none",
         NEW c \in Chargers, chargers[c].status \notin Plugged,
         NEW row, row.status = "reserved", row.charger = c,
         \A p \in Orders : orders[p].status \in Unfinished => orders[p].user # row.user,
         NEW crow, crow.status = "reserved"
  PROVE  Fleet([orders EXCEPT ![o] = row], [chargers EXCEPT ![c] = crow])
<1> DEFINE orders2 == [orders EXCEPT ![o] = row]
           chargers2 == [chargers EXCEPT ![c] = crow]
<1>1. /\ \A p \in Orders : orders2[p] = IF p = o THEN row ELSE orders[p]
      /\ \A d \in Chargers : chargers2[d] = IF d = c THEN crow ELSE chargers[d]
  BY DEF Tables
<1>2. ASSUME NEW p \in Orders, orders[p].status \in Plugged
      PROVE  orders[p].charger \in Chargers /\ orders[p].charger # c /\ p # o
  BY <1>2 DEF Tables, OrdersLinked, Plugged, Fleet, Mirrored
<1> HIDE DEF orders2, chargers2
<1>3. ASSUME NEW p \in Orders, orders2[p].status \in Plugged
      PROVE  chargers2[orders2[p].charger].status = orders2[p].status
  BY <1>1, <1>2, <1>3 DEF Fleet, Mirrored
<1>4. ASSUME NEW d \in Chargers, chargers2[d].status \in Plugged
      PROVE  \E p \in Orders : orders2[p].charger = d
                                 /\ orders2[p].status = chargers2[d].status
  <2>1. CASE d = c
    BY <1>1, <2>1
  <2>2. CASE d # c
    <3>1. chargers2[d] = chargers[d]
      BY <1>1, <2>2
    <3>2. PICK p \in Orders : orders[p].charger = d /\ orders[p].status = chargers[d].status
      BY <1>4, <3>1 DEF Fleet, Mirrored
    <3>3. p # o
      BY <1>2, <1>4, <3>1, <3>2
    <3> QED
      BY <1>1, <3>1, <3>2, <3>3
  <2> QED
    BY <2>1, <2>2
<1>5. Single(orders2)
  <2>1. \A p \in Orders : p # o /\ orders[p].status \in Plugged => orders[p].charger # c
    BY <1>2
  <2>2. Single(orders)
    BY DEF Fleet
  <2> QED
    BY <1>1, <2>1, <2>2 DEF Single
<1> QED
  BY <1>3, <1>4, <1>5 DEF Fleet, Mirrored, orders2, chargers2

\* An order advances and its charger with it.
LEMMA Advances ==
  ASSUME NEW orders, NEW chargers, Tables(orders, chargers), Fleet(orders, chargers),
         NEW o \in Orders, orders[o].status \in Plugged,
         NEW row, row.status \in Plugged, row.user = orders[o].user,
         row.charger = orders[o].charger,
         NEW crow, crow.status = row.status
  PROVE  Fleet([orders EXCEPT ![o] = row], [chargers EXCEPT ![orders[o].charger] = crow])
<1> DEFINE c == orders[o].charger
           orders2 == [orders EXCEPT ![o] = row]
           chargers2 == [chargers EXCEPT ![c] = crow]
<1>1. c \in Chargers
  BY DEF Tables, OrdersLinked, Plugged
<1>2. /\ \A p \in Orders : orders2[p] = IF p = o THEN row ELSE orders[p]
      /\ \A d \in Chargers : chargers2[d] = IF d = c THEN crow ELSE chargers[d]
  BY <1>1 DEF Tables
<1>3. ASSUME NEW p \in Orders, p # o, orders[p].status \in Plugged
      PROVE  orders[p].charger # c /\ orders[p].charger \in Chargers
  BY <1>3 DEF Tables, OrdersLinked, Plugged, Fleet, Single
<1>4. row.charger = c
  OBVIOUS
<1> HIDE DEF c, orders2, chargers2
<1>5. ASSUME NEW p \in Orders, orders2[p].status \in Plugged
      PROVE  chargers2[orders2[p].charger].status = orders2[p].status
  <2>1. CASE p = o
    BY <1>1, <1>2, <1>4, <2>1
  <2>2. CASE p # o
    BY <1>2, <1>3, <1>5, <2>2 DEF Fleet, Mirrored
  <2> QED
    BY <2>1, <2>2
<1>6. ASSUME NEW d \in Chargers, chargers2[d].status \in Plugged
      PROVE  \E p \in Orders : orders2[p].charger = d
                                 /\ orders2[p].status = chargers2[d].status
  <2>1. CASE d = c
    BY <1>2, <1>4, <2>1
  <2>2. CASE d # c
    <3>1. chargers2[d] = chargers[d]
      BY <1>2, <2>2
    <3>2. PICK p \in Orders : orders[p].charger = d /\ orders[p].status = chargers[d].status
      BY <1>6, <3>1 DEF Fleet, Mirrored
    <3>3. p # o
      BY <2>2, <3>2 DEF c
    <3> QED
      BY <1>2, <3>1, <3>2, <3>3
  <2> QED
    BY <2>1, <2>2
<1>7. Single(orders2)
  BY <1>2, <1>4 DEF Fleet, Single, Plugged, Unfinished, c
<1> QED
  BY <1>5, <1>6, <1>7 DEF Fleet, Mirrored, c, orders2, chargers2

\* An order that is on no charger stays on none, and no user gets a second one.
LEMMA Retires ==
  ASSUME NEW orders, NEW chargers, Tables(orders, chargers), Fleet(orders, chargers),
         NEW o \in Orders, orders[o].status \notin Plugged,
         NEW row, row.status \notin Unfinished
  PROVE  Fleet([orders EXCEPT ![o] = row], chargers)
<1> DEFINE orders2 == [orders EXCEPT ![o] = row]
<1>1. \A p \in Orders : orders2[p] = IF p = o THEN row ELSE orders[p]
  BY DEF Tables
<1>2. row.status \notin Plugged
  BY DEF Plugged, Unfinished
<1> HIDE DEF orders2
<1>3. Mirrored(orders2, chargers)
  BY <1>1, <1>2 DEF Fleet, Mirrored
<1>4. Single(orders2)
  BY <1>1, <1>2 DEF Fleet, Single
<1> QED
  BY <1>3, <1>4 DEF Fleet, orders2

\* A charger with no order on it changes and stays without one.
LEMMA Idles ==
  ASSUME NEW orders, NEW chargers, Tables(orders, chargers), Fleet(orders, chargers),
         NEW c \in Chargers, chargers[c].status \notin Plugged,
         NEW crow, crow.status \notin Plugged
  PROVE  Fleet(orders, [chargers EXCEPT ![c] = crow])
<1> DEFINE chargers2 == [chargers EXCEPT ![c] = crow]
<1>1. \A d \in Chargers : chargers2[d] = IF d = c THEN crow ELSE chargers[d]
  BY DEF Tables
<1>2. ASSUME NEW p \in Orders, orders[p].status \in Plugged
      PROVE  orders[p].charger \in Chargers /\ orders[p].charger # c
  BY <1>2 DEF Tables, OrdersLinked, Plugged, Fleet, Mirrored
<1> HIDE DEF chargers2
<1>3. Mirrored(orders, chargers2)
  BY <1>1, <1>2 DEF Fleet, Mirrored
<1> QED
  BY <1>3 DEF Fleet, chargers2
-----------------------------------------------------------------------------
(* The actions. *)

\* What a step finds.
LEMMA Play ==
  ASSUME MoneyInv, FleetInv
  PROVE  Tables(chargingOrder, charger) /\ Fleet(chargingOrder, charger)
BY FleetIs DEF MoneyInv, RowsLinked, TypeOK, Tables

\* A reservation cancelled: its row leaves, its charger is released.
LEMMA CancelledFleet ==
  ASSUME NEW orders, NEW chargers, Tables(orders, chargers), Fleet(orders, chargers),
         NEW o \in Orders, orders[o].status = "reserved",
         NEW reason \in StopReasons
  PROVE  Fleet(Cancelled(orders, o, reason), Released(chargers, orders[o].charger))
<1> DEFINE c == orders[o].charger
           row == [orders[o] EXCEPT !.status = "cancelled", !.reason = reason]
           crow == [chargers[c] EXCEPT !.status = "available"]
<1>1. c \in Chargers /\ chargers[c].status = "reserved"
  BY DEF Tables, OrdersLinked, Plugged, Fleet, Mirrored
<1>2. orders[o] \in OrderRow /\ chargers[c] \in ChargerRow
  BY <1>1 DEF Tables
<1>3. Cancelled(orders, o, reason) = [orders EXCEPT ![o] = row]
  BY DEF Cancelled
<1>4. Released(chargers, c) = [chargers EXCEPT ![c] = crow]
  BY <1>1, <1>2 DEF Released, Tables
<1>5. row.status = "cancelled" /\ row.user = orders[o].user
  BY <1>2 DEF OrderRow
<1>6. crow.status = "available"
  BY <1>2 DEF ChargerRow
<1>7. row.status \notin Plugged /\ crow.status \notin Plugged /\ orders[o].status \in Plugged
  BY <1>5, <1>6 DEF Plugged
<1> HIDE DEF row, crow
<1>8. Fleet([orders EXCEPT ![o] = row], [chargers EXCEPT ![c] = crow])
  BY <1>5, <1>7, Leaves
<1> QED
  BY <1>3, <1>4, <1>8

\* Each action preserves FleetInv. A cancellation frees the charger of the order,
LEMMA CancelFleet ==
  ASSUME MoneyInv, FleetInv, NEW o \in Orders, chargingOrder[o].status = "reserved",
         NEW reason \in StopReasons, CancelReserved(o, reason)
  PROVE  FleetInv'
<1>1. /\ chargingOrder' = Cancelled(chargingOrder, o, reason)
      /\ charger' = Released(charger, chargingOrder[o].charger)
  BY DEF CancelReserved
<1>2. Fleet(chargingOrder', charger')
  BY <1>1, Play, CancelledFleet
<1> QED
  BY <1>2, FleetIsNext

\* Placing an order for a user with no unfinished one.
LEMMA PlaceFleet ==
  ASSUME NEW orders, NEW chargers, Tables(orders, chargers), Fleet(orders, chargers),
         NEW u \in Users, NEW c \in Chargers, NEW k, NEW request, NEW o \in Orders,
         ActiveOrders(orders, u) = {}, Place(orders, chargers, u, c, k, request, o)
  PROVE  FleetInv'
<1>1. PICK initial, target :
        chargingOrder' = [orders EXCEPT ![o] =
           [status |-> "reserved", user |-> u, charger |-> c, key |-> k,
            lapsed |-> FALSE, plate |-> appUser[u].plate, initial |-> initial,
            target |-> target, energy |-> 0, amount |-> 0, reason |-> None]]
  BY DEF Place
<1> DEFINE row == [status |-> "reserved", user |-> u, charger |-> c, key |-> k,
            lapsed |-> FALSE, plate |-> appUser[u].plate, initial |-> initial,
            target |-> target, energy |-> 0, amount |-> 0, reason |-> None]
           crow == [chargers[c] EXCEPT !.status = "reserved"]
<1>2. orders[o].status = "none" /\ chargers[c].status = "available"
  BY DEF Place
<1>3. charger' = [chargers EXCEPT ![c] = crow]
  BY DEF Place, Tables
<1>4. row.status = "reserved" /\ row.user = u /\ row.charger = c
  OBVIOUS
<1>5. crow.status = "reserved"
  BY DEF Tables, ChargerRow
<1>6. \A p \in Orders : orders[p].status \in Unfinished => orders[p].user # row.user
  BY <1>4 DEF ActiveOrders
<1>7. chargers[c].status \notin Plugged
  BY <1>2 DEF Plugged
<1>8. chargingOrder' = [orders EXCEPT ![o] = row]
  BY <1>1
<1> HIDE DEF row, crow
<1>9. Fleet([orders EXCEPT ![o] = row], [chargers EXCEPT ![c] = crow])
  BY <1>2, <1>4, <1>5, <1>6, <1>7, Takes
<1> QED
  BY <1>3, <1>8, <1>9, FleetIsNext

\* a reservation takes a charger that is available,
LEMMA ReserveFleet ==
  ASSUME MoneyInv, FleetInv, NEW u \in Users, NEW c \in Chargers, NEW k, NEW request,
         NEW o \in Orders, Reserve(u, c, k, request, o)
  PROVE  FleetInv'
BY Play, PlaceFleet DEF Reserve

\* also when it first frees the one of an expired order.
LEMMA ReserveAgainFleet ==
  ASSUME MoneyInv, FleetInv, NEW u \in Users, NEW c \in Chargers, NEW k, NEW request,
         NEW o \in Orders, NEW x \in Orders, ReserveAgain(u, c, k, request, o, x)
  PROVE  FleetInv'
<1> DEFINE orders == Cancelled(chargingOrder, x, "reservation_expired")
           chargers == Released(charger, chargingOrder[x].charger)
<1>1. /\ x \in ActiveOrders(chargingOrder, u)
      /\ chargingOrder[x].status = "reserved"
      /\ Place(orders, chargers, u, c, k, request, o)
  BY DEF ReserveAgain
<1>2. Tables(chargingOrder, charger) /\ Fleet(chargingOrder, charger)
  BY Play
<1>3. "reservation_expired" \in StopReasons
  BY DEF StopReasons
<1>4. Fleet(orders, chargers)
  BY <1>1, <1>2, <1>3, CancelledFleet
<1>5. /\ orders \in [Orders -> OrderRow] /\ OrdersLinked(orders)
      /\ chargers \in [Chargers -> ChargerRow]
  <2>1. chargingOrder[x].charger \in Chargers
    BY <1>1, <1>2 DEF Tables, OrdersLinked
  <2> QED
    BY <1>1, <1>2, <1>3, <2>1, CancelledOrders, ReleasedChargers DEF Tables
<1>6. ActiveOrders(orders, u) = {}
  <2>1. \A p \in Orders : orders[p] =
          IF p = x THEN [chargingOrder[x] EXCEPT !.status = "cancelled",
                                                 !.reason = "reservation_expired"]
                   ELSE chargingOrder[p]
    BY <1>2 DEF Cancelled, Tables
  <2>2. orders[x].status = "cancelled"
    BY <1>2, <2>1 DEF Tables, OrderRow
  <2>3. ASSUME NEW p \in Orders, p # x
        PROVE  ~(chargingOrder[p].user = u /\ chargingOrder[p].status \in Unfinished)
    BY <1>1, <1>2, <2>3 DEF Fleet, Single, ActiveOrders
  <2> HIDE DEF orders
  <2> QED
    BY <2>1, <2>2, <2>3 DEF ActiveOrders, Unfinished
<1>7. Tables(orders, chargers)
  BY <1>5 DEF Tables
<1> HIDE DEF orders, chargers
<1> QED
  BY <1>1, <1>4, <1>6, <1>7, PlaceFleet

\* A start moves the order and its charger together.
LEMMA StartFleet ==
  ASSUME MoneyInv, FleetInv, NEW u \in Users, NEW o \in Orders, Start(u, o)
  PROVE  FleetInv'
<1> DEFINE c == chargingOrder[o].charger
           row == [chargingOrder[o] EXCEPT !.status = "charging"]
           crow == [charger[c] EXCEPT !.status = "charging"]
<1>1. Tables(chargingOrder, charger) /\ Fleet(chargingOrder, charger)
  BY Play
<1>2. /\ chargingOrder[o].status = "reserved"
      /\ chargingOrder' = [chargingOrder EXCEPT ![o] = row]
      /\ charger' = [charger EXCEPT ![c] = crow]
  BY <1>1 DEF Start, Tables
<1>3. /\ row.status = "charging" /\ row.user = chargingOrder[o].user
      /\ row.charger = chargingOrder[o].charger
  BY <1>1 DEF Tables, OrderRow
<1>4. crow.status = "charging"
  BY <1>1, <1>2 DEF Tables, OrdersLinked, ChargerRow
<1>5. chargingOrder[o].status \in Plugged /\ row.status \in Plugged
  BY <1>2, <1>3 DEF Plugged
<1> HIDE DEF row, crow
<1>6. Fleet([chargingOrder EXCEPT ![o] = row], [charger EXCEPT ![c] = crow])
  BY <1>1, <1>3, <1>4, <1>5, Advances
<1> QED
  BY <1>2, <1>6, FleetIsNext

\* An expiry moves neither.
LEMMA LapseFleet ==
  ASSUME MoneyInv, FleetInv, NEW o \in Orders, Lapse(o)
  PROVE  FleetInv'
<1> DEFINE c == chargingOrder[o].charger
           row == [chargingOrder[o] EXCEPT !.lapsed = TRUE]
           crow == charger[c]
<1>1. Tables(chargingOrder, charger) /\ Fleet(chargingOrder, charger)
  BY Play
<1>2. /\ chargingOrder[o].status = "reserved"
      /\ chargingOrder' = [chargingOrder EXCEPT ![o] = row]
      /\ charger' = charger
  BY <1>1 DEF Lapse, Tables
<1>3. /\ row.status = "reserved" /\ row.user = chargingOrder[o].user
      /\ row.charger = chargingOrder[o].charger
  BY <1>1, <1>2 DEF Tables, OrderRow
<1>4. chargingOrder[o].status \in Plugged /\ row.status \in Plugged
  BY <1>2, <1>3 DEF Plugged
<1>5. crow.status = row.status
  BY <1>1, <1>2, <1>3, <1>4 DEF Fleet, Mirrored
<1>6. [charger EXCEPT ![c] = crow] = charger
  BY <1>1 DEF Tables
<1> HIDE DEF row, crow
<1>7. Fleet([chargingOrder EXCEPT ![o] = row], [charger EXCEPT ![c] = crow])
  BY <1>1, <1>3, <1>4, <1>5, Advances
<1> QED
  BY <1>2, <1>6, <1>7, FleetIsNext

\* A settlement frees the charger, and no other order is on it.
LEMMA SettleFleet ==
  ASSUME MoneyInv, FleetInv, NEW o \in Orders, NEW reason, Settle(o, reason)
  PROVE  FleetInv'
<1> DEFINE c == chargingOrder[o].charger
<1>1. Tables(chargingOrder, charger) /\ Fleet(chargingOrder, charger)
  BY Play
<1>2. PICK b \in Bills(chargingOrder[o].target, Available(chargingOrder[o].user)) :
        chargingOrder' = [chargingOrder EXCEPT ![o] =
          [@ EXCEPT !.status = "pending_payment", !.energy = b.energy,
                    !.amount = b.amount,
                    !.reason = IF b.cap # None THEN b.cap ELSE reason]]
  BY DEF Settle
<1> DEFINE row == [chargingOrder[o] EXCEPT !.status = "pending_payment",
                     !.energy = b.energy, !.amount = b.amount,
                     !.reason = IF b.cap # None THEN b.cap ELSE reason]
           crow == [charger[c] EXCEPT !.status = "available",
                                      !.sessions = charger[c].sessions + 1]
<1>3. /\ chargingOrder[o].status = "charging"
      /\ charger' = [charger EXCEPT ![c] = crow]
  BY DEF Settle
<1>4. chargingOrder' = [chargingOrder EXCEPT ![o] = row]
  BY <1>2
<1>5. row.status = "pending_payment" /\ row.user = chargingOrder[o].user
  BY <1>1 DEF Tables, OrderRow
<1>6. crow.status = "available"
  BY <1>1, <1>3 DEF Tables, OrdersLinked, ChargerRow
<1>7. /\ chargingOrder[o].status \in Plugged
      /\ row.status \notin Plugged /\ crow.status \notin Plugged
  BY <1>3, <1>5, <1>6 DEF Plugged
<1> HIDE DEF row, crow
<1>8. Fleet([chargingOrder EXCEPT ![o] = row], [charger EXCEPT ![c] = crow])
  BY <1>1, <1>5, <1>7, Leaves
<1> QED
  BY <1>3, <1>4, <1>8, FleetIsNext

\* A payment is for an order that has left its charger.
LEMMA PayFleet ==
  ASSUME MoneyInv, FleetInv, NEW u \in Users, NEW o \in Orders, Pay(u, o)
  PROVE  FleetInv'
<1> DEFINE row == [chargingOrder[o] EXCEPT !.status = "completed"]
<1>1. Tables(chargingOrder, charger) /\ Fleet(chargingOrder, charger)
  BY Play
<1>2. /\ chargingOrder[o].status = "pending_payment"
      /\ chargingOrder' = [chargingOrder EXCEPT ![o] = row]
      /\ charger' = charger
  BY <1>1 DEF Pay, Tables
<1>3. row.status = "completed"
  BY <1>1 DEF Tables, OrderRow
<1>4. chargingOrder[o].status \notin Plugged /\ row.status \notin Unfinished
  BY <1>2, <1>3 DEF Plugged, Unfinished
<1> HIDE DEF row
<1>5. Fleet([chargingOrder EXCEPT ![o] = row], charger)
  BY <1>1, <1>4, Retires
<1> QED
  BY <1>2, <1>5, FleetIsNext

\* Maintenance leaves a charger alone that an order is on.
LEMMA ChargerAdminFleet ==
  ASSUME MoneyInv, FleetInv, NEW c \in Chargers,
         \/ \E status \in {"available", "faulted"} : SetChargerStatus(c, status)
         \/ \E power \in Powers : ChargerEdit(c, power)
         \/ RestartCharger(c)
  PROVE  FleetInv'
<1>1. Tables(chargingOrder, charger) /\ Fleet(chargingOrder, charger)
  BY Play
<1>2. charger[c] \in ChargerRow
  BY <1>1 DEF Tables
<1>3. PICK crow : /\ charger[c].status \notin Plugged /\ crow.status \notin Plugged
                  /\ charger' = [charger EXCEPT ![c] = crow]
                  /\ chargingOrder' = chargingOrder
  <2>1. CASE \E status \in {"available", "faulted"} : SetChargerStatus(c, status)
    <3>1. PICK status \in {"available", "faulted"} : SetChargerStatus(c, status)
      BY <2>1
    <3>2. [charger[c] EXCEPT !.status = status].status = status
      BY <1>2 DEF ChargerRow
    <3>3. WITNESS [charger[c] EXCEPT !.status = status]
    <3> QED
      BY <1>1, <3>1, <3>2 DEF SetChargerStatus, Tables, Plugged
  <2>2. CASE \E power \in Powers : ChargerEdit(c, power)
    <3>1. PICK power \in Powers : ChargerEdit(c, power)
      BY <2>2
    <3>2. [charger[c] EXCEPT !.power = power].status = charger[c].status
      BY <1>2 DEF ChargerRow
    <3>3. WITNESS [charger[c] EXCEPT !.power = power]
    <3> QED
      BY <1>1, <3>1, <3>2 DEF ChargerEdit, Tables
  <2>3. CASE RestartCharger(c)
    <3>2. [charger[c] EXCEPT !.status = "available"].status = "available"
      BY <1>2 DEF ChargerRow
    <3>3. WITNESS [charger[c] EXCEPT !.status = "available"]
    <3> QED
      BY <1>1, <2>3, <3>2 DEF RestartCharger, Tables, Plugged
  <2> QED
    BY <2>1, <2>2, <2>3
<1>4. Fleet(chargingOrder, [charger EXCEPT ![c] = crow])
  BY <1>1, <1>3, Idles
<1> QED
  BY <1>3, <1>4, FleetIsNext

\* Other commands touch neither table.
LEMMA SameFleet ==
  ASSUME FleetInv, UNCHANGED <<charger, chargingOrder>>
  PROVE  FleetInv'
BY FleetIs, FleetIsNext

\* At first there are no orders.
LEMMA InitFleet == Init => FleetInv
BY DEF Init, FleetInv, ChargerMirrorsOrder, OneActiveOrder, NoOrder, Plugged, Unfinished
-----------------------------------------------------------------------------
(* FleetInv is an invariant. *)

\* The commands of a user's account,
LEMMA AccountFleet ==
  ASSUME MoneyInv, FleetInv, AccountStep
  PROVE  FleetInv'
<1>1. UNCHANGED <<charger, chargingOrder>>
  BY DEF AccountStep, Recharge, Withdraw, SaveVehicle
<1> QED
  BY <1>1, SameFleet

\* of its orders,
LEMMA OrderFleet ==
  ASSUME MoneyInv, FleetInv, OrderStep
  PROVE  FleetInv'
<1>1. CASE \E u \in Users, o \in Orders : Start(u, o) \/ Pay(u, o)
  BY <1>1, StartFleet, PayFleet
<1>2. CASE \E u \in Users, o \in Orders : StartLapsed(u, o) \/ Cancel(u, o)
  BY <1>2, CancelFleet DEF StartLapsed, Cancel, StopReasons
<1>3. CASE \E u \in Users, o \in Orders : Stop(u, o)
  BY <1>3, SettleFleet DEF Stop
<1>4. CASE \E u \in Users, o \in Orders, c \in Chargers, k \in Keys,
              r \in SocRequests \cup {None} :
             \/ Reserve(u, c, k, r, o)
             \/ \E x \in Orders : ReserveAgain(u, c, k, r, o, x)
  BY <1>4, ReserveFleet, ReserveAgainFleet
<1>5. CASE \E o \in Orders : Expire(o)
  BY <1>5, CancelFleet DEF Expire, StopReasons
<1>6. CASE \E o \in Orders : CapStop(o)
  BY <1>6, SettleFleet DEF CapStop
<1>7. CASE \E o \in Orders : Lapse(o)
  BY <1>7, LapseFleet
<1> QED
  BY <1>1, <1>2, <1>3, <1>4, <1>5, <1>6, <1>7 DEF OrderStep

\* and of administrators preserve FleetInv.
LEMMA AdminFleet ==
  ASSUME MoneyInv, FleetInv, AdminStep
  PROVE  FleetInv'
<1>1. CASE \E u \in Users, k \in Keys, a \in Adjustments :
             Adjust(u, k, a) \/ \E o \in Orders : Refund(u, k, o, a)
  <2>1. UNCHANGED <<charger, chargingOrder>>
    BY <1>1 DEF Adjust, Refund
  <2> QED
    BY <2>1, SameFleet
<1>2. CASE \E u \in Users, status \in {"active", "frozen"} : SetUserStatus(u, status)
  BY <1>2, SameFleet DEF SetUserStatus
<1>3. CASE \E w \in Withdrawals : ApproveWithdrawal(w) \/ RejectWithdrawal(w)
  BY <1>3, SameFleet DEF ApproveWithdrawal, RejectWithdrawal
<1>4. CASE \E c \in Chargers :
             \/ \E status \in {"available", "faulted"} : SetChargerStatus(c, status)
             \/ \E power \in Powers : ChargerEdit(c, power)
             \/ RestartCharger(c)
  BY <1>4, ChargerAdminFleet
<1> QED
  BY <1>1, <1>2, <1>3, <1>4 DEF AdminStep

\* Orders and chargers mirror each other and nobody holds two, however many
\* users, chargers and orders there are.
THEOREM FleetInvariant == Spec => []FleetInv
<1>1. Init => FleetInv
  BY InitFleet
<1>2. MoneyInv /\ FleetInv /\ [Next]_vars => FleetInv'
  BY AccountFleet, OrderFleet, AdminFleet, SameFleet DEF Next, vars
<1> QED
  BY <1>1, <1>2, MoneyInvariant, PTL DEF Spec

\* A charger is reserved or charging exactly when one order is, in the same
\* state, on it: no charger is left occupied by an order that ended.
THEOREM ChargersMirrorOrders == Spec => []ChargerMirrorsOrder
<1>1. FleetInv => ChargerMirrorsOrder
  BY DEF FleetInv
<1> QED
  BY <1>1, FleetInvariant, PTL

\* No user has two unfinished orders and no charger two plugged ones, so
\* reserve never runs into the unique indexes it does not handle.
THEOREM OneActiveOrderEach == Spec => []OneActiveOrder
<1>1. FleetInv => OneActiveOrder
  BY DEF FleetInv
<1> QED
  BY <1>1, FleetInvariant, PTL
-----------------------------------------------------------------------------
(* The life of an order. *)

\* What reservation fixes, and what settlement fixes.
Frozen(x, y) ==
  /\ x.user = y.user /\ x.charger = y.charger /\ x.key = y.key
  /\ x.plate = y.plate /\ x.initial = y.initial /\ x.target = y.target

Billed(x, y) == x.energy = y.energy /\ x.amount = y.amount /\ x.reason = y.reason

\* A row in use moves on, as it was reserved.
RowMoves(x, y) ==
  \/ y = x
  \/ /\ Frozen(x, y)
     /\ \/ x.status = "reserved" /\ y.status \in {"reserved", "charging", "cancelled"}
        \/ x.status = "charging" /\ y.status = "pending_payment"
        \/ x.status = "pending_payment" /\ y.status = "completed" /\ Billed(x, y)

\* A row is filled by reserve, which has looked at the user in this step.
RowOpens(x, y) ==
  /\ x.status = "none" /\ y.status = "reserved"
  /\ y.user \in Users /\ MayBegin(y.user) /\ appUser' = appUser
  /\ y.plate = appUser[y.user].plate
  /\ y.plate # None => y.initial = appUser[y.user].soc
  /\ y.initial + y.target <= Full

\* What happens meanwhile to the user of an order that stays unfinished.
UserFollows(x, y) ==
  LET u    == x.user
      ends == x.status = "charging" /\ y.status = "pending_payment"
  IN  /\ appUser'[u].plate = appUser[u].plate
      /\ appUser'[u].soc = IF ends /\ x.plate = appUser[u].plate
                           THEN x.initial + y.energy ELSE appUser[u].soc
      /\ x.status \in Plugged /\ y.status \in Plugged =>
           appUser'[u].balance - appUser'[u].held >= appUser[u].balance - appUser[u].held

Effect(x, y) ==
  /\ RowMoves(x, y) \/ RowOpens(x, y)
  /\ x.status \in Unfinished /\ y.status \in Unfinished => UserFollows(x, y)

Effects == \A o \in Orders : Effect(chargingOrder[o], chargingOrder'[o])
-----------------------------------------------------------------------------
(* Steps that change one order, or one user, or both. *)

\* The tables as the lemmas below use them.
LEMMA Typed ==
  ASSUME MoneyInv
  PROVE  /\ chargingOrder \in [Orders -> OrderRow] /\ appUser \in [Users -> UserRow]
         /\ charger \in [Chargers -> ChargerRow]
         /\ \A o \in Orders : chargingOrder[o].status # "none" =>
              chargingOrder[o].user \in Users /\ chargingOrder[o].charger \in Chargers
         /\ \A u \in Users : appUser[u].balance \in Nat /\ appUser[u].held \in Nat
BY FundsTyped DEF MoneyInv, TypeOK, RowsLinked, OrdersLinked

\* No user changes: the orders follow what is said of each.
LEMMA UsersStill ==
  ASSUME MoneyInv, UNCHANGED appUser,
         \A o \in Orders :
           \/ RowOpens(chargingOrder[o], chargingOrder'[o])
           \/ /\ RowMoves(chargingOrder[o], chargingOrder'[o])
              /\ chargingOrder[o].status = "charging"
                   => chargingOrder'[o].status # "pending_payment"
  PROVE  Effects
<1> SUFFICES ASSUME NEW o \in Orders
             PROVE  Effect(chargingOrder[o], chargingOrder'[o])
  BY DEF Effects
<1>1. chargingOrder[o].status \in Unfinished => chargingOrder[o].user \in Users
  BY Typed DEF Unfinished
<1>2. CASE RowOpens(chargingOrder[o], chargingOrder'[o])
  BY <1>2 DEF Effect, RowOpens, Unfinished
<1>3. CASE /\ RowMoves(chargingOrder[o], chargingOrder'[o])
           /\ chargingOrder[o].status = "charging"
                => chargingOrder'[o].status # "pending_payment"
  <2>1. chargingOrder[o].status \in Unfinished => UserFollows(chargingOrder[o], chargingOrder'[o])
    BY <1>1, <1>3, Typed DEF UserFollows
  <2> QED
    BY <1>3, <2>1 DEF Effect
<1> QED
  BY <1>2, <1>3

\* No order changes, and one user does: one without an unfinished order, or in
\* a way that takes nothing from it.
LEMMA OneUser ==
  ASSUME MoneyInv, UNCHANGED chargingOrder, NEW u \in Users, NEW row,
         appUser' = [appUser EXCEPT ![u] = row],
         \/ ActiveOrders(chargingOrder, u) = {}
         \/ /\ row.plate = appUser[u].plate /\ row.soc = appUser[u].soc
            /\ row.balance - row.held >= appUser[u].balance - appUser[u].held
  PROVE  Effects
<1> SUFFICES ASSUME NEW o \in Orders
             PROVE  Effect(chargingOrder[o], chargingOrder[o])
  BY DEF Effects
<1> SUFFICES ASSUME chargingOrder[o].status \in Unfinished
             PROVE  UserFollows(chargingOrder[o], chargingOrder[o])
  BY DEF Effect, RowMoves
<1> DEFINE v == chargingOrder[o].user
<1>1. v \in Users
  BY Typed DEF Unfinished
<1>2. CASE v # u
  <2>1. appUser'[v] = appUser[v]
    BY <1>1, <1>2, Typed
  <2> QED
    BY <1>1, <2>1, Typed DEF UserFollows
<1>3. CASE v = u
  <2>1. appUser'[u] = row
    BY Typed
  <2>2. o \in ActiveOrders(chargingOrder, u)
    BY <1>3 DEF ActiveOrders
  <2> QED
    BY <1>3, <2>1, <2>2 DEF UserFollows
<1> QED
  BY <1>2, <1>3
-----------------------------------------------------------------------------
(* The commands. *)

\* Each action has one of the effects. A cancellation ends an order before it started,
LEMMA CancelEffect ==
  ASSUME MoneyInv, NEW o \in Orders, chargingOrder[o].status = "reserved",
         NEW reason, CancelReserved(o, reason)
  PROVE  Effects
<1> DEFINE row == [chargingOrder[o] EXCEPT !.status = "cancelled", !.reason = reason]
<1>1. chargingOrder' = [chargingOrder EXCEPT ![o] = row] /\ UNCHANGED appUser
  BY DEF CancelReserved, Cancelled
<1>2. row.status = "cancelled" /\ Frozen(chargingOrder[o], row)
  BY Typed DEF OrderRow, Frozen
<1> HIDE DEF row
<1>3. \A p \in Orders : chargingOrder'[p] = IF p = o THEN row ELSE chargingOrder[p]
  BY <1>1, Typed
<1> QED
  BY <1>1, <1>2, <1>3, UsersStill DEF RowMoves

\* The new order and, in the same transaction, what became of another one.
LEMMA PlaceEffect ==
  ASSUME MoneyInv, VehicleAssumption, NEW orders \in [Orders -> OrderRow], NEW chargers,
         \A p \in Orders : /\ RowMoves(chargingOrder[p], orders[p])
                           /\ orders[p].status # "pending_payment"
                                \/ orders[p] = chargingOrder[p],
         NEW u \in Users, MayBegin(u), NEW c, NEW k,
         NEW request \in SocRequests \cup {None},
         NEW o \in Orders, Place(orders, chargers, u, c, k, request, o)
  PROVE  Effects
<1> DEFINE initial == IF appUser[u].plate # None \/ request = None
                      THEN appUser[u].soc ELSE request.soc
           target  == IF request = None THEN appUser[u].limit ELSE request.target
           row     == [status |-> "reserved", user |-> u, charger |-> c,
                       key |-> k, lapsed |-> FALSE, plate |-> appUser[u].plate,
                       initial |-> initial, target |-> target - initial,
                       energy |-> 0, amount |-> 0, reason |-> None]
<1>1. /\ orders[o].status = "none"
      /\ chargingOrder' = [orders EXCEPT ![o] = row]
      /\ UNCHANGED appUser
  BY DEF Place
<1>2. initial \in 0 .. Full /\ target \in 1 .. Full
  BY Typed DEF UserRow, SocRequests
<1>3. row.plate # None => row.initial = appUser[u].soc
  OBVIOUS
<1> HIDE DEF initial, target
<1>4. initial + (target - initial) <= Full
  BY <1>2 DEF VehicleAssumption
<1>5. /\ row.status = "reserved" /\ row.user = u /\ row.plate = appUser[u].plate
      /\ row.initial + row.target <= Full
  BY <1>4
<1> HIDE DEF row
<1>6. chargingOrder[o].status = "none"
  BY <1>1 DEF RowMoves
<1>7. RowOpens(chargingOrder[o], row)
  BY <1>1, <1>3, <1>5, <1>6 DEF RowOpens
<1>8. \A p \in Orders : chargingOrder'[p] = IF p = o THEN row ELSE orders[p]
  BY <1>1
<1>9. \A p \in Orders : chargingOrder[p].status = "charging" /\ p # o
                          => orders[p].status # "pending_payment"
  OBVIOUS
<1> QED
  BY <1>1, <1>7, <1>8, <1>9, UsersStill

\* a reservation opens one,
LEMMA ReserveEffect ==
  ASSUME MoneyInv, VehicleAssumption, NEW u \in Users, NEW c, NEW k,
         NEW request \in SocRequests \cup {None}, NEW o \in Orders,
         Reserve(u, c, k, request, o)
  PROVE  Effects
<1>1. \A p \in Orders : RowMoves(chargingOrder[p], chargingOrder[p])
  BY DEF RowMoves
<1> QED
  BY <1>1, Typed, PlaceEffect DEF Reserve

\* after it has ended an expired one.
LEMMA ReserveAgainEffect ==
  ASSUME MoneyInv, VehicleAssumption, NEW u \in Users, NEW c, NEW k,
         NEW request \in SocRequests \cup {None}, NEW o \in Orders, NEW x \in Orders,
         ReserveAgain(u, c, k, request, o, x)
  PROVE  Effects
<1> DEFINE orders   == Cancelled(chargingOrder, x, "reservation_expired")
           chargers == Released(charger, chargingOrder[x].charger)
           row      == [chargingOrder[x] EXCEPT !.status = "cancelled",
                                                !.reason = "reservation_expired"]
<1>1. /\ chargingOrder[x].status = "reserved" /\ MayBegin(u)
      /\ Place(orders, chargers, u, c, k, request, o)
  BY DEF ReserveAgain
<1>2. row \in OrderRow /\ row.status = "cancelled" /\ Frozen(chargingOrder[x], row)
  <2>1. chargingOrder[x] \in OrderRow
    BY Typed
  <2>2. row \in OrderRow
    BY <2>1, CancelledRow DEF StopReasons
  <2> QED
    BY <2>1, <2>2 DEF OrderRow, Frozen
<1>3. orders = [chargingOrder EXCEPT ![x] = row]
  BY DEF Cancelled
<1> HIDE DEF row, orders, chargers
<1>4. orders \in [Orders -> OrderRow]
  BY <1>2, <1>3, Typed
<1>5. \A p \in Orders : orders[p] = IF p = x THEN row ELSE chargingOrder[p]
  BY <1>3, Typed
<1>6. \A p \in Orders : /\ RowMoves(chargingOrder[p], orders[p])
                        /\ orders[p].status # "pending_payment"
                             \/ orders[p] = chargingOrder[p]
  BY <1>1, <1>2, <1>5 DEF RowMoves
<1> QED
  BY <1>1, <1>4, <1>6, PlaceEffect

\* A start moves an order on,
LEMMA StartEffect ==
  ASSUME MoneyInv, NEW u \in Users, NEW o \in Orders, Start(u, o)
  PROVE  Effects
<1> DEFINE row == [chargingOrder[o] EXCEPT !.status = "charging"]
<1>1. /\ chargingOrder[o].status = "reserved"
      /\ chargingOrder' = [chargingOrder EXCEPT ![o] = row] /\ UNCHANGED appUser
  BY Typed DEF Start
<1>2. row.status = "charging" /\ Frozen(chargingOrder[o], row)
  BY Typed DEF OrderRow, Frozen
<1> HIDE DEF row
<1>3. \A p \in Orders : chargingOrder'[p] = IF p = o THEN row ELSE chargingOrder[p]
  BY <1>1, Typed
<1> QED
  BY <1>1, <1>2, <1>3, UsersStill DEF RowMoves

\* an expiry marks one,
LEMMA LapseEffect ==
  ASSUME MoneyInv, NEW o \in Orders, Lapse(o)
  PROVE  Effects
<1> DEFINE row == [chargingOrder[o] EXCEPT !.lapsed = TRUE]
<1>1. /\ chargingOrder[o].status = "reserved"
      /\ chargingOrder' = [chargingOrder EXCEPT ![o] = row] /\ UNCHANGED appUser
  BY Typed DEF Lapse
<1>2. row.status = "reserved" /\ Frozen(chargingOrder[o], row)
  BY <1>1, Typed DEF OrderRow, Frozen
<1> HIDE DEF row
<1>3. \A p \in Orders : chargingOrder'[p] = IF p = o THEN row ELSE chargingOrder[p]
  BY <1>1, Typed
<1> QED
  BY <1>1, <1>2, <1>3, UsersStill DEF RowMoves

\* An order and its user change together: the user has no other order.
LEMMA OrderAndUser ==
  ASSUME MoneyInv, FleetInv, NEW o \in Orders, chargingOrder[o].status \in Unfinished,
         NEW orow, chargingOrder' = [chargingOrder EXCEPT ![o] = orow],
         RowMoves(chargingOrder[o], orow),
         NEW urow, appUser' = [appUser EXCEPT ![chargingOrder[o].user] = urow],
         orow.status \in Unfinished => UserFollows(chargingOrder[o], orow)
  PROVE  Effects
<1> SUFFICES ASSUME NEW p \in Orders
             PROVE  Effect(chargingOrder[p], chargingOrder'[p])
  BY DEF Effects
<1>1. chargingOrder'[p] = IF p = o THEN orow ELSE chargingOrder[p]
  BY Typed
<1>2. CASE p = o
  BY <1>1, <1>2 DEF Effect
<1>3. CASE p # o
  <2>1. RowMoves(chargingOrder[p], chargingOrder'[p])
    BY <1>1, <1>3 DEF RowMoves
  <2>2. ASSUME chargingOrder[p].status \in Unfinished
        PROVE  UserFollows(chargingOrder[p], chargingOrder[p])
    <3>1. chargingOrder[p].user # chargingOrder[o].user /\ chargingOrder[p].user \in Users
      BY <1>3, <2>2, Typed DEF FleetInv, OneActiveOrder, Unfinished
    <3>2. appUser'[chargingOrder[p].user] = appUser[chargingOrder[p].user]
      BY <3>1, Typed
    <3> QED
      BY <3>1, <3>2, Typed DEF UserFollows
  <2> QED
    BY <1>1, <1>3, <2>1, <2>2 DEF Effect
<1> QED
  BY <1>2, <1>3

\* a settlement writes its invoice and frees the vehicle,
LEMMA SettleEffect ==
  ASSUME MoneyInv, FleetInv, NEW o \in Orders, NEW reason, Settle(o, reason)
  PROVE  Effects
<1> DEFINE x == chargingOrder[o]
           u == chargingOrder[o].user
<1>1. PICK b \in Bills(x.target, Available(u)) :
        /\ chargingOrder' = [chargingOrder EXCEPT ![o] =
             [@ EXCEPT !.status = "pending_payment", !.energy = b.energy,
                       !.amount = b.amount,
                       !.reason = IF b.cap # None THEN b.cap ELSE reason]]
        /\ appUser' = [appUser EXCEPT ![u] =
             [@ EXCEPT !.held = appUser[u].held + b.amount,
                       !.soc = IF appUser[u].plate = x.plate
                               THEN x.initial + b.energy ELSE appUser[u].soc]]
  BY DEF Settle
<1> DEFINE orow == [x EXCEPT !.status = "pending_payment", !.energy = b.energy,
                             !.amount = b.amount,
                             !.reason = IF b.cap # None THEN b.cap ELSE reason]
           urow == [appUser[u] EXCEPT !.held = appUser[u].held + b.amount,
                             !.soc = IF appUser[u].plate = x.plate
                                     THEN x.initial + b.energy ELSE appUser[u].soc]
<1>2. x.status = "charging" /\ x \in OrderRow /\ u \in Users
  BY Typed DEF Settle
<1>3. /\ chargingOrder' = [chargingOrder EXCEPT ![o] = orow]
      /\ appUser' = [appUser EXCEPT ![u] = urow]
  BY <1>1
<1>4. orow.status = "pending_payment" /\ Frozen(x, orow) /\ orow.energy = b.energy
  BY <1>2 DEF OrderRow, Frozen
<1>5. /\ urow.plate = appUser[u].plate
      /\ urow.soc = IF appUser[u].plate = x.plate THEN x.initial + b.energy
                    ELSE appUser[u].soc
  BY <1>2, Typed DEF UserRow
<1> HIDE DEF orow, urow
<1>6. appUser'[u] = urow
  BY <1>2, <1>3, Typed
<1>7. UserFollows(x, orow)
  BY <1>2, <1>4, <1>5, <1>6 DEF UserFollows, Plugged
<1>8. RowMoves(x, orow) /\ x.status \in Unfinished
  BY <1>2, <1>4 DEF RowMoves, Unfinished
<1> QED
  BY <1>3, <1>7, <1>8, OrderAndUser

\* a payment completes it.
LEMMA PayEffect ==
  ASSUME MoneyInv, FleetInv, NEW u \in Users, NEW o \in Orders, Pay(u, o)
  PROVE  Effects
<1> DEFINE x    == chargingOrder[o]
           orow == [x EXCEPT !.status = "completed"]
           urow == [appUser[u] EXCEPT !.balance = appUser[u].balance - x.amount,
                                      !.held = appUser[u].held - x.amount]
<1>1. /\ x.status = "pending_payment" /\ x \in OrderRow /\ x.user = u
      /\ chargingOrder' = [chargingOrder EXCEPT ![o] = orow]
      /\ appUser' = [appUser EXCEPT ![u] = urow]
  BY Typed DEF Pay
<1>2. orow.status = "completed" /\ Frozen(x, orow) /\ Billed(x, orow)
  BY <1>1 DEF OrderRow, Frozen, Billed
<1> HIDE DEF orow, urow
<1>3. RowMoves(x, orow) /\ x.status \in Unfinished /\ orow.status \notin Unfinished
  BY <1>1, <1>2 DEF RowMoves, Unfinished
<1> QED
  BY <1>1, <1>3, OrderAndUser

\* A posting leaves the vehicle, and takes money from nobody with an order.
LEMMA BalanceEffect ==
  ASSUME MoneyInv, NEW u \in Users, NEW a \in Int,
         a < 0 => ActiveOrders(chargingOrder, u) = {}, UNCHANGED chargingOrder,
         appUser' = [appUser EXCEPT ![u].balance = appUser[u].balance + a]
  PROVE  Effects
<1> DEFINE row == [appUser[u] EXCEPT !.balance = appUser[u].balance + a]
<1>1. appUser' = [appUser EXCEPT ![u] = row]
  BY Typed
<1>2. /\ row.plate = appUser[u].plate /\ row.soc = appUser[u].soc
      /\ row.balance = appUser[u].balance + a /\ row.held = appUser[u].held
  BY Typed DEF UserRow
<1> HIDE DEF row
<1>3. a >= 0 => row.balance - row.held >= appUser[u].balance - appUser[u].held
  BY <1>2, Typed
<1>4. a < 0 \/ a >= 0
  OBVIOUS
<1> QED
  BY <1>1, <1>2, <1>3, <1>4, OneUser

\* A withdrawal leaves the minimum of a user who has an order.
LEMMA WithdrawEffect ==
  ASSUME MoneyInv, NEW u \in Users, NEW k, NEW a, NEW w, Withdraw(u, k, a, w)
  PROVE  Effects
<1> DEFINE row == [appUser[u] EXCEPT !.held = appUser[u].held + a]
<1>1. /\ appUser' = [appUser EXCEPT ![u] = row] /\ UNCHANGED chargingOrder
      /\ ActiveOrders(chargingOrder, u) = {}
  BY Typed DEF Withdraw
<1> HIDE DEF row
<1> QED
  BY <1>1, OneUser

\* A vehicle keeps its state of charge while its order is unfinished.
LEMMA SaveVehicleEffect ==
  ASSUME MoneyInv, NEW u \in Users, NEW profile, SaveVehicle(u, profile)
  PROVE  Effects
<1> DEFINE row == [appUser[u] EXCEPT !.plate = profile.plate, !.soc = profile.soc,
                                     !.limit = profile.limit]
<1>1. /\ appUser' = [appUser EXCEPT ![u] = row] /\ UNCHANGED chargingOrder
      /\ ActiveOrders(chargingOrder, u) = {}
  BY DEF SaveVehicle
<1> HIDE DEF row
<1> QED
  BY <1>1, OneUser

\* A status changes nothing that orders depend on.
LEMMA StatusEffect ==
  ASSUME MoneyInv, NEW u \in Users, NEW status, SetUserStatus(u, status)
  PROVE  Effects
<1> DEFINE row == [appUser[u] EXCEPT !.status = status]
<1>1. appUser' = [appUser EXCEPT ![u] = row] /\ UNCHANGED chargingOrder
  BY Typed DEF SetUserStatus
<1>2. /\ row.plate = appUser[u].plate /\ row.soc = appUser[u].soc
      /\ row.balance = appUser[u].balance /\ row.held = appUser[u].held
  BY Typed DEF UserRow
<1> HIDE DEF row
<1>3. row.balance - row.held >= appUser[u].balance - appUser[u].held
  BY <1>2, Typed
<1> QED
  BY <1>1, <1>2, <1>3, OneUser

\* A reviewed withdrawal takes what it held, or gives it back.
LEMMA ReviewEffect ==
  ASSUME MoneyInv, NEW w \in Withdrawals, ApproveWithdrawal(w) \/ RejectWithdrawal(w)
  PROVE  Effects
<1> DEFINE u      == withdrawalRequest[w].user
           amount == withdrawalRequest[w].amount
<1>1. u \in Users /\ amount \in Nat
  BY DEF MoneyInv, RowsLinked, TypeOK, RequestRow, ApproveWithdrawal, RejectWithdrawal
<1>2. CASE ApproveWithdrawal(w)
  <2> DEFINE row == [appUser[u] EXCEPT !.balance = appUser[u].balance - amount,
                                       !.held = appUser[u].held - amount]
  <2>1. appUser' = [appUser EXCEPT ![u] = row] /\ UNCHANGED chargingOrder
    BY <1>2 DEF ApproveWithdrawal
  <2>2. /\ row.plate = appUser[u].plate /\ row.soc = appUser[u].soc
        /\ row.balance = appUser[u].balance - amount
        /\ row.held = appUser[u].held - amount
    BY <1>1, Typed DEF UserRow
  <2> HIDE DEF row, u, amount
  <2>3. row.balance - row.held >= appUser[u].balance - appUser[u].held
    BY <1>1, <2>2, Typed
  <2> QED
    BY <1>1, <2>1, <2>2, <2>3, OneUser
<1>3. CASE RejectWithdrawal(w)
  <2> DEFINE row == [appUser[u] EXCEPT !.held = appUser[u].held - amount]
  <2>1. appUser' = [appUser EXCEPT ![u] = row] /\ UNCHANGED chargingOrder
    BY <1>1, <1>3, Typed DEF RejectWithdrawal
  <2>2. /\ row.plate = appUser[u].plate /\ row.soc = appUser[u].soc
        /\ row.balance = appUser[u].balance
        /\ row.held = appUser[u].held - amount
    BY <1>1, Typed DEF UserRow
  <2> HIDE DEF row, u, amount
  <2>3. row.balance - row.held >= appUser[u].balance - appUser[u].held
    BY <1>1, <2>2, Typed
  <2> QED
    BY <1>1, <2>1, <2>2, <2>3, OneUser
<1> QED
  BY <1>2, <1>3

\* Neither orders nor users change.
LEMMA NoEffect ==
  ASSUME MoneyInv, UNCHANGED <<appUser, chargingOrder>>
  PROVE  Effects
BY UsersStill DEF RowMoves
-----------------------------------------------------------------------------
(* Every step. *)

\* The commands of a user's account,
LEMMA AccountEffect ==
  ASSUME MoneyInv, AmountsAssumption, AccountStep
  PROVE  Effects
<1>1. ASSUME NEW u \in Users, NEW k \in Keys, NEW a \in Amounts, Recharge(u, k, a)
      PROVE  Effects
  <2>1. a \in Int /\ ~(a < 0)
    BY DEF AmountsAssumption
  <2> QED
    BY <1>1, <2>1, BalanceEffect DEF Recharge
<1> QED
  BY <1>1, WithdrawEffect, SaveVehicleEffect DEF AccountStep

\* of its orders,
LEMMA OrderEffect ==
  ASSUME MoneyInv, FleetInv, VehicleAssumption, OrderStep
  PROVE  Effects
<1>1. CASE \E u \in Users, o \in Orders : Start(u, o) \/ Pay(u, o)
  BY <1>1, StartEffect, PayEffect
<1>2. CASE \E u \in Users, o \in Orders : StartLapsed(u, o) \/ Cancel(u, o)
  BY <1>2, CancelEffect DEF StartLapsed, Cancel
<1>3. CASE \E u \in Users, o \in Orders : Stop(u, o)
  BY <1>3, SettleEffect DEF Stop
<1>4. CASE \E u \in Users, o \in Orders, c \in Chargers, k \in Keys,
              r \in SocRequests \cup {None} :
             \/ Reserve(u, c, k, r, o)
             \/ \E x \in Orders : ReserveAgain(u, c, k, r, o, x)
  BY <1>4, ReserveEffect, ReserveAgainEffect
<1>5. CASE \E o \in Orders : Expire(o)
  BY <1>5, CancelEffect DEF Expire
<1>6. CASE \E o \in Orders : CapStop(o)
  BY <1>6, SettleEffect DEF CapStop
<1>7. CASE \E o \in Orders : Lapse(o)
  BY <1>7, LapseEffect
<1> QED
  BY <1>1, <1>2, <1>3, <1>4, <1>5, <1>6, <1>7 DEF OrderStep

\* and of administrators have these effects.
LEMMA AdminEffect ==
  ASSUME MoneyInv, AmountsAssumption, AdminStep
  PROVE  Effects
<1>1. ASSUME NEW u \in Users, NEW k \in Keys, NEW a \in Adjustments, Adjust(u, k, a)
      PROVE  Effects
  BY <1>1, BalanceEffect DEF Adjust, AmountsAssumption
<1>2. ASSUME NEW u \in Users, NEW k \in Keys, NEW a \in Adjustments, NEW o \in Orders,
             Refund(u, k, o, a)
      PROVE  Effects
  <2>1. a \in Int /\ ~(a < 0)
    BY <1>2 DEF Refund, AmountsAssumption
  <2> QED
    BY <1>2, <2>1, BalanceEffect DEF Refund
<1>3. ASSUME NEW c \in Chargers,
             \/ \E status \in {"available", "faulted"} : SetChargerStatus(c, status)
             \/ \E power \in Powers : ChargerEdit(c, power)
             \/ RestartCharger(c)
      PROVE  Effects
  BY <1>3, NoEffect DEF SetChargerStatus, ChargerEdit, RestartCharger
<1> QED
  BY <1>1, <1>2, <1>3, StatusEffect, ReviewEffect DEF AdminStep

\* There are no others.
LEMMA StepEffect == MoneyInv /\ FleetInv /\ [Next]_vars => Effects
<1>1. UNCHANGED vars => UNCHANGED <<appUser, chargingOrder>>
  BY DEF vars
<1> QED
  BY <1>1, AccountEffect, OrderEffect, AdminEffect, NoEffect,
     AmountsAssumption, VehicleAssumption DEF Next
-----------------------------------------------------------------------------
(* The life cycle, and the charger's power. *)

\* An effect follows the life cycle and keeps what is frozen.
LEMMA EffectMoves ==
  ASSUME NEW x, NEW y, Effect(x, y)
  PROVE  /\ x.status # y.status => <<x.status, y.status>> \in Moves
         /\ x.status # "none" =>
              \A f \in {"user", "charger", "key", "plate", "initial", "target"} : x[f] = y[f]
         /\ x.status \in {"pending_payment", "completed", "cancelled"} =>
              \A f \in {"energy", "amount", "reason"} : x[f] = y[f]
<1>1. CASE y = x
  BY <1>1
<1>2. CASE RowOpens(x, y)
  BY <1>2 DEF RowOpens, Moves
<1>3. CASE Frozen(x, y) /\ y # x
  <2>1. \A f \in {"user", "charger", "key", "plate", "initial", "target"} : x[f] = y[f]
    BY <1>3 DEF Frozen
  <2>2. CASE /\ x.status = "reserved"
             /\ y.status \in {"reserved", "charging", "cancelled"}
    BY <2>1, <2>2 DEF Moves
  <2>3. CASE x.status = "charging" /\ y.status = "pending_payment"
    BY <2>1, <2>3 DEF Moves
  <2>4. CASE x.status = "pending_payment" /\ y.status = "completed" /\ Billed(x, y)
    BY <2>1, <2>4 DEF Moves, Billed
  <2>5. RowMoves(x, y) \/ RowOpens(x, y)
    BY DEF Effect
  <2> QED
    BY <1>2, <1>3, <2>2, <2>3, <2>4, <2>5 DEF RowMoves
<1> QED
  BY <1>1, <1>2, <1>3 DEF Effect, RowMoves

\* No command but ChargerEdit changes a power, and that one looks first.
PowersKept == \A c \in Chargers : charger[c].status \in Plugged =>
                                    charger'[c].power = charger[c].power

\* The power of a charger stays during a session.
LEMMA StepPower == MoneyInv /\ FleetInv /\ [Next]_vars => PowersKept
<1> SUFFICES ASSUME MoneyInv, FleetInv, [Next]_vars, NEW d \in Chargers,
                    charger[d].status \in Plugged
             PROVE  charger'[d].power = charger[d].power
  BY DEF PowersKept
<1> DEFINE Same == charger'[d].power = charger[d].power
<1>0. charger \in [Chargers -> ChargerRow] /\ charger[d] \in ChargerRow
  BY Typed
<1>1. CASE UNCHANGED charger
  BY <1>1
<1>2. ASSUME NEW chargers \in [Chargers -> ChargerRow], NEW c, NEW status, NEW n,
             chargers[d].power = charger[d].power,
             \/ charger' = [chargers EXCEPT ![c].status = status]
             \/ charger' = [chargers EXCEPT ![c] =
                              [@ EXCEPT !.status = status, !.sessions = n]]
      PROVE  Same
  <2>1. /\ chargers[d] \in ChargerRow
        /\ [chargers[d] EXCEPT !.status = status].power = chargers[d].power
        /\ [chargers[d] EXCEPT !.status = status, !.sessions = n].power = chargers[d].power
    BY <1>2 DEF ChargerRow
  <2>2. \/ charger'[d] = chargers[d]
        \/ charger'[d] = [chargers[d] EXCEPT !.status = status]
        \/ charger'[d] = [chargers[d] EXCEPT !.status = status, !.sessions = n]
    <3>1. CASE charger' = [chargers EXCEPT ![c].status = status]
      BY <1>2, <3>1
    <3>2. CASE charger' = [chargers EXCEPT ![c] = [@ EXCEPT !.status = status, !.sessions = n]]
      BY <1>2, <3>2
    <3> QED
      BY <1>2, <3>1, <3>2
  <2> QED
    BY <1>2, <2>1, <2>2
<1>3. ASSUME NEW o \in Orders, NEW reason, CancelReserved(o, reason)
      PROVE  Same
  <2> DEFINE c == chargingOrder[o].charger
  <2>1. charger' = [charger EXCEPT ![c].status =
                      IF charger[c].status = "reserved" THEN "available"
                      ELSE charger[c].status]
    BY <1>3 DEF CancelReserved, Released
  <2> QED
    BY <1>0, <1>2, <2>1
<1>4. ASSUME NEW u \in Users, NEW o \in Orders, NEW c, NEW k, NEW r, NEW orders,
             NEW chargers \in [Chargers -> ChargerRow],
             chargers[d].power = charger[d].power,
             Place(orders, chargers, u, c, k, r, o)
      PROVE  Same
  BY <1>2, <1>4 DEF Place
<1>5. ASSUME NEW u \in Users, NEW o \in Orders, NEW c, NEW k, NEW r, NEW x \in Orders,
             ReserveAgain(u, c, k, r, o, x)
      PROVE  Same
  <2> DEFINE e        == chargingOrder[x].charger
             chargers == Released(charger, e)
  <2>1. e \in Chargers /\ chargers \in [Chargers -> ChargerRow]
    BY <1>5, Typed, ReleasedChargers DEF ReserveAgain
  <2>2. chargers[d].power = charger[d].power
    BY <1>0, <2>1 DEF Released, ChargerRow
  <2>3. PICK orders : Place(orders, chargers, u, c, k, r, o)
    BY <1>5 DEF ReserveAgain
  <2> HIDE DEF chargers
  <2> QED
    BY <1>4, <2>1, <2>2, <2>3
<1>6. ASSUME NEW o \in Orders, NEW reason, Settle(o, reason)
      PROVE  Same
  BY <1>0, <1>2, <1>6 DEF Settle
<1>7. ASSUME NEW c \in Chargers, NEW power, ChargerEdit(c, power)
      PROVE  Same
  BY <1>0, <1>7 DEF ChargerEdit
<1>8. CASE AccountStep
  BY <1>1, <1>8 DEF AccountStep, Recharge, Withdraw, SaveVehicle
<1>9. CASE OrderStep
  <2>1. CASE \E u \in Users, o \in Orders : Start(u, o) \/ Pay(u, o)
    BY <1>0, <1>1, <1>2, <2>1 DEF Start, Pay
  <2>2. CASE \E u \in Users, o \in Orders : StartLapsed(u, o) \/ Cancel(u, o)
    BY <1>3, <2>2 DEF StartLapsed, Cancel
  <2>3. CASE \E u \in Users, o \in Orders : Stop(u, o)
    BY <1>6, <2>3 DEF Stop
  <2>4. CASE \E u \in Users, o \in Orders, c \in Chargers, k \in Keys,
                r \in SocRequests \cup {None} :
               \/ Reserve(u, c, k, r, o)
               \/ \E x \in Orders : ReserveAgain(u, c, k, r, o, x)
    BY <1>0, <1>4, <1>5, <2>4 DEF Reserve
  <2>5. CASE \E o \in Orders : Expire(o)
    BY <1>3, <2>5 DEF Expire
  <2>6. CASE \E o \in Orders : CapStop(o)
    BY <1>6, <2>6 DEF CapStop
  <2>7. CASE \E o \in Orders : Lapse(o)
    BY <1>1, <2>7 DEF Lapse
  <2> QED
    BY <1>9, <2>1, <2>2, <2>3, <2>4, <2>5, <2>6, <2>7 DEF OrderStep
<1>10. CASE AdminStep
  <2>1. CASE \E u \in Users, k \in Keys, a \in Adjustments :
               Adjust(u, k, a) \/ \E o \in Orders : Refund(u, k, o, a)
    BY <1>1, <2>1 DEF Adjust, Refund
  <2>2. CASE \E u \in Users, status \in {"active", "frozen"} : SetUserStatus(u, status)
    BY <1>1, <2>2 DEF SetUserStatus
  <2>3. CASE \E w \in Withdrawals : ApproveWithdrawal(w) \/ RejectWithdrawal(w)
    BY <1>1, <2>3 DEF ApproveWithdrawal, RejectWithdrawal
  <2>4. ASSUME NEW c \in Chargers, NEW status, SetChargerStatus(c, status)
        PROVE  Same
    BY <1>0, <1>2, <2>4 DEF SetChargerStatus
  <2>5. ASSUME NEW c \in Chargers, RestartCharger(c)
        PROVE  Same
    BY <1>0, <1>2, <2>5 DEF RestartCharger
  <2> QED
    BY <1>7, <1>10, <2>1, <2>2, <2>3, <2>4, <2>5 DEF AdminStep
<1>11. CASE UNCHANGED vars
  BY <1>1, <1>11 DEF vars
<1> QED
  BY <1>8, <1>9, <1>10, <1>11 DEF Next

\* Every step keeps every order.
LEMMA StepKeepsOrders ==
  ASSUME MoneyInv, FleetInv, [Next]_vars
  PROVE  /\ \A o \in Orders :
              LET x == chargingOrder[o]
                  y == chargingOrder'[o]
              IN  /\ x.status # y.status => <<x.status, y.status>> \in Moves
                  /\ x.status # "none" =>
                       \A f \in {"user", "charger", "key", "plate", "initial", "target"} :
                         x[f] = y[f]
                  /\ x.status \in {"pending_payment", "completed", "cancelled"} =>
                       \A f \in {"energy", "amount", "reason"} : x[f] = y[f]
         /\ \A o \in Orders :
              LET c == chargingOrder[o].charger
              IN  chargingOrder[o].status \in Plugged => charger'[c].power = charger[c].power
<1>1. Effects /\ PowersKept
  BY StepEffect, StepPower
<1>2. \A o \in Orders : Effect(chargingOrder[o], chargingOrder'[o])
  BY <1>1 DEF Effects
<1>3. ASSUME NEW o \in Orders, chargingOrder[o].status \in Plugged
      PROVE  /\ chargingOrder[o].charger \in Chargers
             /\ charger[chargingOrder[o].charger].status \in Plugged
  BY <1>3, Typed DEF FleetInv, ChargerMirrorsOrder, Plugged
<1> QED
  BY <1>1, <1>2, <1>3, EffectMoves DEF PowersKept

\* An order follows its life cycle, what reservation froze and what settlement
\* billed never change, and its charger keeps its power while it is plugged, for
\* any number of orders, users and administrators (service.py, admin_service.py).
THEOREM OrdersStayKept == Spec => OrdersKept
<1>1. MoneyInv /\ FleetInv /\ [Next]_vars =>
        [\A o \in Orders :
       LET x == chargingOrder[o]
           y == chargingOrder'[o]
       IN  /\ x.status # y.status => <<x.status, y.status>> \in Moves
           /\ x.status # "none" =>
                \A f \in {"user", "charger", "key", "plate", "initial", "target"} :
                  x[f] = y[f]
           /\ x.status \in {"pending_payment", "completed", "cancelled"} =>
                \A f \in {"energy", "amount", "reason"} : x[f] = y[f]]_vars
  BY StepKeepsOrders
<1>2. MoneyInv /\ FleetInv /\ [Next]_vars =>
        [\A o \in Orders :
       LET c == chargingOrder[o].charger
       IN  chargingOrder[o].status \in Plugged
             => charger'[c].power = charger[c].power]_vars
  BY StepKeepsOrders
<1> QED
  BY <1>1, <1>2, MoneyInvariant, FleetInvariant, PTL
    DEF Spec, OrdersKept, OrderLifecycle, PowerSteady
-----------------------------------------------------------------------------
(* The funds and the vehicle of the user. *)

Funded ==
  \A o \in Orders : chargingOrder[o].status \in Plugged
                      => Available(chargingOrder[o].user) >= MinimumStart

\* What a plugged order has available does not shrink.
BudgetKept ==
  \A o \in Orders :
    LET u == chargingOrder[o].user
    IN  chargingOrder[o].status \in Plugged /\ chargingOrder'[o].status \in Plugged
          => Available(u)' >= Available(u)

\* An order in use after the step was in use before it, or is new.
LEMMA StatusComesFrom ==
  ASSUME NEW x, NEW y, Effect(x, y), y.status \in Unfinished
  PROVE  \/ RowOpens(x, y)
         \/ /\ x.status \in Unfinished /\ Frozen(x, y) /\ UserFollows(x, y)
            /\ y.status \in Plugged => x.status \in Plugged
            /\ x.status \in Plugged /\ y.status = "pending_payment"
                 => x.status = "charging"
            /\ x.status = "pending_payment" => x = y
  BY DEF Effect, RowMoves, Unfinished, Plugged, Frozen

\* Every step keeps every session funded.
LEMMA StepFunds ==
  ASSUME MoneyInv, FleetInv, Funded, [Next]_vars
  PROVE  Funded' /\ BudgetKept
<1>1. \A o \in Orders : Effect(chargingOrder[o], chargingOrder'[o])
  BY StepEffect DEF Effects
<1>2. BudgetKept
  <2> SUFFICES ASSUME NEW o \in Orders, chargingOrder[o].status \in Plugged,
                      chargingOrder'[o].status \in Plugged
               PROVE  Available(chargingOrder[o].user)' >= Available(chargingOrder[o].user)
    BY DEF BudgetKept
  <2>1. UserFollows(chargingOrder[o], chargingOrder'[o])
    BY <1>1 DEF Effect, Plugged, Unfinished
  <2>2. chargingOrder[o].user = chargingOrder'[o].user
    BY <1>1 DEF Effect, RowMoves, RowOpens, Frozen, Plugged
  <2> QED
    BY <2>1, <2>2 DEF UserFollows, Available
<1>3. Funded'
  <2> SUFFICES ASSUME NEW o \in Orders, chargingOrder'[o].status \in Plugged
               PROVE  Available(chargingOrder[o].user)' >= MinimumStart
    BY DEF Funded
  <2> DEFINE x == chargingOrder[o]
             y == chargingOrder'[o]
  <2>1. CASE RowOpens(x, y)
    BY <2>1 DEF RowOpens, MayBegin, Available
  <2>2. CASE ~RowOpens(x, y)
    <3>1. x.status \in Plugged /\ x.user = y.user /\ UserFollows(x, y)
      BY <1>1, <2>2, StatusComesFrom DEF Frozen, Plugged, Unfinished
    <3>2. Available(x.user) >= MinimumStart /\ x.user \in Users
      BY <3>1, Typed DEF Funded, Plugged
    <3>3. appUser'[x.user].balance - appUser'[x.user].held >= Available(x.user)
      BY <3>1 DEF UserFollows, Available
    <3>4. MoneyInv'
      BY AccountMoney, OrderMoney, AdminMoney, StutterMoney,
         RowsAssumption, AmountsAssumption, VehicleAssumption DEF Next
    <3>5. /\ appUser[x.user].balance \in Nat /\ appUser[x.user].held \in Nat
          /\ appUser'[x.user].balance \in Nat /\ appUser'[x.user].held \in Nat
      BY <3>2, <3>4, Typed DEF MoneyInv, TypeOK, UserRow
    <3> QED
      BY <3>1, <3>2, <3>3, <3>5, AmountsAssumption DEF Available
  <2> QED
    BY <2>1, <2>2
<1> QED
  BY <1>2, <1>3

\* At first there are no sessions.
LEMMA InitFunded == Init => Funded
  BY DEF Init, Funded, NoOrder, Plugged

\* From reservation to settlement a user keeps the minimum that reserve and start
\* demanded, and loses none of the budget the meter caps at (service.py).
THEOREM SessionsStayFunded == Spec => SessionsFunded
<1>1. MoneyInv /\ FleetInv /\ Funded /\ [Next]_vars => Funded'
  BY StepFunds
<1>2. MoneyInv /\ FleetInv /\ Funded /\ [Next]_vars =>
        [\A o \in Orders :
          LET u == chargingOrder[o].user
          IN  chargingOrder[o].status \in Plugged
                /\ chargingOrder'[o].status \in Plugged
                => Available(u)' >= Available(u)]_vars
  BY StepFunds DEF BudgetKept
<1>3. Funded => \A o \in Orders :
          chargingOrder[o].status \in Plugged
            => Available(chargingOrder[o].user) >= MinimumStart
  BY DEF Funded
<1> QED
  BY <1>1, <1>2, <1>3, InitFunded, MoneyInvariant, FleetInvariant, PTL
    DEF Spec, SessionsFunded

\* Every step keeps the vehicles of unfinished orders.
LEMMA StepVehicle ==
  ASSUME MoneyInv, FleetInv, VehicleFollowsOrder, [Next]_vars
  PROVE  VehicleFollowsOrder'
<1> SUFFICES ASSUME NEW o \in Orders, chargingOrder'[o].status \in Unfinished
             PROVE  LET row == chargingOrder'[o]
                    IN  /\ row.plate = appUser'[row.user].plate
                        /\ row.status \in Plugged /\ row.plate # None
                             => appUser'[row.user].soc = row.initial
                        /\ row.status = "pending_payment"
                             => appUser'[row.user].soc = row.initial + row.energy
                        /\ row.initial + row.target <= Full
  BY DEF VehicleFollowsOrder
<1> DEFINE x == chargingOrder[o]
           y == chargingOrder'[o]
<1>1. Effect(x, y)
  BY StepEffect DEF Effects
<1>2. CASE RowOpens(x, y)
  BY <1>2 DEF RowOpens, Plugged
<1>3. CASE ~RowOpens(x, y)
  <2>1. /\ x.status \in Unfinished /\ Frozen(x, y) /\ UserFollows(x, y)
        /\ y.status \in Plugged => x.status \in Plugged
        /\ x.status \in Plugged /\ y.status = "pending_payment" => x.status = "charging"
        /\ x.status = "pending_payment" => x = y
    BY <1>1, <1>3, StatusComesFrom
  <2>2. /\ x.plate = appUser[x.user].plate
        /\ x.status \in Plugged /\ x.plate # None => appUser[x.user].soc = x.initial
        /\ x.status = "pending_payment" => appUser[x.user].soc = x.initial + x.energy
        /\ x.initial + x.target <= Full
    BY <2>1 DEF VehicleFollowsOrder
  <2>3. CASE x.status \in Plugged /\ y.status \in Plugged
    <3>1. appUser'[x.user].soc = appUser[x.user].soc
      BY <2>1, <2>3 DEF UserFollows, Plugged
    <3>2. appUser'[x.user].plate = appUser[x.user].plate
      BY <2>1 DEF UserFollows
    <3> QED
      BY <2>1, <2>2, <2>3, <3>1, <3>2 DEF Frozen, Plugged
  <2>4. CASE x.status = "charging" /\ y.status = "pending_payment"
    <3>1. /\ appUser'[x.user].soc = x.initial + y.energy
          /\ appUser'[x.user].plate = appUser[x.user].plate
      BY <2>1, <2>2, <2>4 DEF UserFollows
    <3> QED
      BY <2>1, <2>2, <2>4, <3>1 DEF Frozen, Plugged
  <2>5. CASE x.status = "pending_payment"
    <3>1. /\ appUser'[x.user].soc = appUser[x.user].soc /\ x = y
          /\ appUser'[x.user].plate = appUser[x.user].plate
      BY <2>1, <2>5 DEF UserFollows
    <3> QED
      BY <2>2, <2>5, <3>1 DEF Plugged
  <2> QED
    BY <2>1, <2>3, <2>4, <2>5 DEF Unfinished, Plugged
<1> QED
  BY <1>2, <1>3

\* The plate test of _settle always finds the vehicle of the order, and a vehicle
\* shows the energy of the invoice until that is paid (service.py, account_service.py).
THEOREM VehiclesFollowOrders == Spec => []VehicleFollowsOrder
<1>1. Init => VehicleFollowsOrder
  BY DEF Init, VehicleFollowsOrder, NoOrder, Unfinished
<1>2. MoneyInv /\ FleetInv /\ VehicleFollowsOrder /\ [Next]_vars => VehicleFollowsOrder'
  BY StepVehicle
<1> QED
  BY <1>1, <1>2, MoneyInvariant, FleetInvariant, PTL DEF Spec
=============================================================================
