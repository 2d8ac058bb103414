-------------------------- MODULE ChargingProperties --------------------------
(***************************************************************************)
(* What the tables of ChargingCore promise.  Every property here relates   *)
(* several tables, or a row to what it was before: none is a constraint    *)
(* the schema could check on one row.                                      *)
(***************************************************************************)
EXTENDS ChargingCore

\* The claims on the funds of u: its unpaid invoice and its open withdrawals.
Invoices(u) ==
  {o \in Orders : chargingOrder[o].user = u
                    /\ chargingOrder[o].status = "pending_payment"}

OpenRequests(u) ==
  {w \in Withdrawals : withdrawalRequest[w].user = u
                         /\ withdrawalRequest[w].status = "pending"}

OrderAmount == [o \in Orders |-> chargingOrder[o].amount]
RequestAmount == [w \in Withdrawals |-> withdrawalRequest[w].amount]

HeldFor(u) == Total(OrderAmount, Invoices(u)) + Total(RequestAmount, OpenRequests(u))

\* The held balance of a user is the sum of exactly the claims on it (the
\* invoice that stop fixed and the withdrawals under review) and the balance
\* covers it, so pay never meets its branch for a wrong held amount and
\* neither pay nor a review can drive held_balance below zero.
HoldsBacked ==
  \A u \in Users :
    /\ appUser[u].held = HeldFor(u)
    /\ appUser[u].held <= appUser[u].balance

\* The wallet entries of a user explain its balance: each entry's
\* balance_after is the previous one's plus its amount, starting from 0, and
\* the balance is the last of them.  order_snapshot shows balance_after -
\* amount to the user as the balance before.
WalletExplainsBalance ==
  \A u \in Users :
    LET w == walletEntry[u]
    IN  /\ appUser[u].balance = IF w = <<>> THEN 0 ELSE w[Len(w)].after
        /\ \A i \in 1 .. Len(w) :
             w[i].after = w[i].amount + IF i = 1 THEN 0 ELSE w[i - 1].after

\* The wallet rows of user u that debit the document x, an order or a request.
DebitRows(u, x) ==
  {i \in 1 .. Len(walletEntry[u]) : walletEntry[u][i].key = x}

DebitedOnce(u, x, amount) ==
  \E i \in DebitRows(u, x) :
    DebitRows(u, x) = {i} /\ walletEntry[u][i].amount = -amount

\* An order is charged once, by its owner, for the amount of its invoice, when
\* it completes and not before; a withdrawal is debited once, when it is
\* paid, and never when it is rejected.  An invoice of 0 leaves no entry.
DebitsOnce ==
  \A u \in Users :
    /\ \A o \in Orders :
         LET row == chargingOrder[o]
         IN  IF row.user = u /\ row.status = "completed" /\ row.amount > 0
             THEN DebitedOnce(u, o, row.amount) ELSE DebitRows(u, o) = {}
    /\ \A w \in Withdrawals :
         LET row == withdrawalRequest[w]
         IN  IF row.user = u /\ row.status = "paid"
             THEN DebitedOnce(u, w, row.amount) ELSE DebitRows(u, w) = {}

\* However many refunds an administrator posts, an order never gives back more
\* than it was charged, and an order that was not paid gives back nothing.
RefundsBounded ==
  \A o \in Orders : chargingOrder[o].user # None =>
    Refunded(o) <= IF chargingOrder[o].status = "completed"
                   THEN chargingOrder[o].amount ELSE 0

\* A session keeps the funds it began with.  From reservation to settlement the
\* minimum that reserve and start demanded stays available: nothing withdraws it,
\* adjusts it away or holds it for another claim, which is what lets start check
\* the same bound again.  Nor does what is available shrink, which is the budget
\* the meter caps at: an energy reading already shown is never taken back.
SessionsFunded ==
  /\ [](\A o \in Orders :
          chargingOrder[o].status \in Plugged
            => Available(chargingOrder[o].user) >= MinimumStart)
  /\ [][\A o \in Orders :
          LET u == chargingOrder[o].user
          IN  chargingOrder[o].status \in Plugged
                /\ chargingOrder'[o].status \in Plugged
                => Available(u)' >= Available(u)]_vars

\* A charger is reserved or charging exactly when one order is, in that same
\* state, on it; a free or faulted charger has no order reserved or charging.
ChargerMirrorsOrder ==
  /\ \A o \in Orders : chargingOrder[o].status \in Plugged =>
       charger[chargingOrder[o].charger].status = chargingOrder[o].status
  /\ \A c \in Chargers : charger[c].status \in Plugged =>
       \E o \in Orders : chargingOrder[o].charger = c
                           /\ chargingOrder[o].status = charger[c].status

\* A user has at most one unfinished order (an unpaid one counts), a charger at
\* most one reserved or charging: reserve decides both by reading status
\* columns, and the unique indexes are never what stops it.
OneActiveOrder ==
  \A o, p \in Orders : o # p =>
    LET x == chargingOrder[o]
        y == chargingOrder[p]
    IN  /\ x.status \in Unfinished /\ y.status \in Unfinished
             => x.user # y.user
        /\ x.status \in Plugged /\ y.status \in Plugged
             => x.charger # y.charger

\* The status of an order only moves along the life cycle.
Moves == {<<"none", "reserved">>, <<"reserved", "charging">>,
          <<"reserved", "cancelled">>, <<"charging", "pending_payment">>,
          <<"pending_payment", "completed">>}

\* An order follows its life cycle and never moves back; what reservation froze
\* (user, charger, key, vehicle, target) never changes after it, and the invoice
\* (energy, amount, stop reason) never changes once the order is settled.
OrderLifecycle ==
  [][\A o \in Orders :
       LET x == chargingOrder[o]
           y == chargingOrder'[o]
       IN  /\ x.status # y.status => <<x.status, y.status>> \in Moves
           /\ x.status # "none" =>
                \A f \in {"user", "charger", "key", "plate", "initial", "target"} :
                  x[f] = y[f]
           /\ x.status \in {"pending_payment", "completed", "cancelled"} =>
                \A f \in {"energy", "amount", "reason"} : x[f] = y[f]]_vars

\* The rated power of a charger is not copied into the order: the meter applies
\* the charger's current power to the whole session.  That is right because
\* the power cannot change while an order is reserved or charging on it.
PowerSteady ==
  [][\A o \in Orders :
       LET c == chargingOrder[o].charger
       IN  chargingOrder[o].status \in Plugged
             => charger'[c].power = charger[c].power]_vars

\* An order stays what it was reserved as, on a charger that stays what it was.
OrdersKept == OrderLifecycle /\ PowerSteady

\* The vehicle of an unfinished order is still the vehicle of its user, so the
\* plate test of _settle always finds it; a registered vehicle keeps the state
\* of charge the order began with until it is settled, and then shows the
\* energy of the invoice until that is paid.
VehicleFollowsOrder ==
  \A o \in Orders :
    LET row == chargingOrder[o]
    IN  row.status \in Unfinished =>
          /\ row.plate = appUser[row.user].plate
          /\ row.status \in Plugged /\ row.plate # None
               => appUser[row.user].soc = row.initial
          /\ row.status = "pending_payment"
               => appUser[row.user].soc = row.initial + row.energy
          /\ row.initial + row.target <= Full
=============================================================================
