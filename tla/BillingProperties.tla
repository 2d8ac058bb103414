-------------------------- MODULE BillingProperties --------------------------
(***************************************************************************)
(* The loop of the meter against what it is to compute, and what its       *)
(* readings mean to the user and to the commands that use them.            *)
(***************************************************************************)
EXTENDS Billing

\* What the first e units of energy cost, unit by unit.
Cost(e) == SumTo([i \in 1 .. e |-> Price(started + i - 1)], e)

\* The meter answers the most energy that time, target and budget allow, at the
\* price of the hour that delivered it, to half a cent; it names the cap that
\* ended the session, the budget before the target when both are met at once.
TotalsExact ==
  bill # None =>
    LET elapsed == Max({0, bill.finish - started})
        most    == Min({elapsed, target})
        exact   == Cost(bill.energy)
    IN  /\ bill.energy \in 0 .. most /\ exact <= bill.budget
        /\ bill.energy < most => Cost(bill.energy + 1) > bill.budget
        /\ 2 * (bill.amount - exact) <= Cent /\ 2 * (exact - bill.amount) < Cent
        /\ bill.cap =
             CASE elapsed > 0 /\ exact = bill.budget -> "balance_exhausted"
               [] elapsed > 0 /\ exact < bill.budget /\ bill.energy = target -> "target_reached"
               [] OTHER -> None

\* The answer is one that ChargingCore allows for: settling an order never
\* exceeds its target or what its user has available.
BillsAllowed ==
  bill # None =>
    [energy |-> bill.energy, amount |-> bill.amount, cap |-> bill.cap]
      \in Bills(target, bill.budget)

\* billing_detail explains the invoice: its lines follow each other from the
\* start to the end of the session, each within one period and at its price,
\* and their energies and amounts add up to the totals exactly.
DetailExplains ==
  bill # None =>
    LET d == bill.detail
    IN  /\ d = <<>> <=> bill.energy = 0
        /\ d # <<>> => d[1].from = started /\ d[Len(d)].to = started + bill.energy
        /\ \A i \in 1 .. Len(d) :
             /\ i > 1 => d[i].from = d[i - 1].to
             /\ d[i].energy = d[i].to - d[i].from
             /\ \A t \in d[i].from .. d[i].to - 1 : Price(t) = d[i].price
        /\ Sum(d) = bill.amount

\* The meter is right: the totals are exact, the rest of the system allows for
\* them, and the lines explain them.
MeterExact == TotalsExact /\ BillsAllowed /\ DetailExplains

\* Energy and amount shown to the user are never taken back: a later reading,
\* with more time or more funds, is at least the one before it, and once the
\* target is reached every reading is the same.
ReadingsOnlyGrow ==
  [][bill # None =>
       /\ bill'.energy >= bill.energy /\ bill'.amount >= bill.amount
       /\ bill.cap = "target_reached" =>
            [bill' EXCEPT !.finish = bill.finish, !.budget = bill.budget] = bill]_vars
=============================================================================
