------------------------------- MODULE Billing -------------------------------
(***************************************************************************)
(* The meter of billing.py: energy and amount of a charging session from   *)
(* its tariff, under the caps of target and budget.  Live readings, stop   *)
(* and the coordinator all call it, each time from the start of the        *)
(* session with the time and the available balance of the moment; an       *)
(* iteration of its loop is a step here.                                   *)
(*                                                                         *)
(* Units: time is measured by the energy it delivers, so rate is 1, and a  *)
(* price is an amount per unit of energy.  Times are multiples of Tick and *)
(* balances of Cent, which every price divides: the divisions of the code  *)
(* (28 digits) are exact here.                                             *)
(***************************************************************************)
EXTENDS Invoices, Totals, Sequences, FiniteSetsExt

CONSTANTS
  Hours,      \* hours in a day, 24 in the code
  Hour,       \* length of an hour
  Tick,       \* the times the instance looks at
  Cent,       \* the smallest amount of money
  Prices,     \* electricity_price + service_price
  Targets,    \* target_energy_kwh
  MaxTime,    \* bound: the longest session looked at
  MaxBudget   \* bound: the largest available balance

ASSUME BillingAssumption ==
  /\ {Hours, Hour, Tick, Cent, MaxTime} \subseteq Nat \ {0} /\ MaxBudget \in Nat
  /\ Prices \subseteq Nat \ {0} /\ Targets \subseteq Nat \ {0}
  /\ Hour % Tick = 0 /\ MaxTime % Tick = 0 /\ MaxBudget % Cent = 0
  /\ \A p \in Prices : Tick % p = 0 /\ Cent % p = 0

VARIABLES
  tariff, target, started,  \* of the order: frozen when it was reserved, started
  now, budget,              \* the time, and the user's available balance
  run,                      \* the local variables of the call under way, or None
  bill                      \* the last answer, or None

order == <<tariff, target, started>>
vars == <<order, now, budget, run, bill>>

\* What valid_schedule admits: periods that cover the day, each from its start
\* hour to the start of the next one.
Tariffs == UNION {[{0} \cup cuts -> Prices] : cuts \in SUBSET (1 .. Hours - 1)}

Day == Hours * Hour

\* A stop may have begun, and read the clock, before the start it waits for.
Init ==
  /\ tariff \in Tariffs /\ target \in Targets
  /\ started \in {t \in Day .. 2 * Day - 1 : t % Tick = 0}
  /\ now = started - Tick
  /\ budget \in {b \in 0 .. MaxBudget : b % Cent = 0}
  /\ run = None /\ bill = None
-----------------------------------------------------------------------------
(* The tariff. *)

HourOf(t) == (t % Day) \div Hour

\* The start hour of the period in force at time t.
Band(t) == Max({h \in DOMAIN tariff : h <= HourOf(t)})

\* Mutant: the price of the moment for the whole session.
PriceNow(t) == tariff[Band(now)]

Price(t) == tariff[Band(t)]

\* Mutant: every period is taken to begin at the cursor.
BoundaryLate(t) ==
  t + Hour * (Min({h \in DOMAIN tariff : h > Band(t)} \cup {Hours}) - Band(t))

\* midnight + timedelta(hours=band["end_hour"])
Boundary(t) ==
  (t - (t % Day)) + Hour * Min({h \in DOMAIN tariff : h > Band(t)} \cup {Hours})

\* ROUND_HALF_UP to a cent.
Money(x) == Cent * ((2 * x + Cent) \div (2 * Cent))
-----------------------------------------------------------------------------
(* The call. *)

\* A call, with the time and the available balance of the moment.
Begin(time, available) ==
  /\ now' = time /\ budget' = available
  /\ run' = [cursor |-> started, finish |-> Max({started, time}), budget |-> available,
             energy |-> 0, amount |-> 0, detail |-> <<>>, reason |-> None]
  /\ UNCHANGED <<order, bill>>

\* The first call, and one each time a tick has passed or the user has more to
\* spend, which is all that SessionsFunded of ChargingProperties leaves possible.
Call ==
  /\ run = None
  /\ \/ bill = None /\ Begin(now, budget)
     \/ bill # None /\ now < started + MaxTime /\ Begin(now + Tick, budget)
     \/ bill # None /\ budget < MaxBudget /\ Begin(now, budget + Cent)

Looping == run.cursor < run.finish /\ run.reason = None

\* target - energy
Remaining == target - run.energy

\* What one iteration delivers until the period ends or a cap is met.
Portion ==
  LET price    == Price(run.cursor)
      delivery == Min({run.finish, Boundary(run.cursor)}) - run.cursor
      left     == run.budget - run.amount
      full     == delivery >= Remaining
      wanted   == IF full THEN Max({0, Remaining}) ELSE delivery
      broke    == wanted * price >= left
      allowed  == IF broke THEN Max({0, left \div price}) ELSE wanted
  IN  [from |-> run.cursor, to |-> run.cursor + allowed, price |-> price,
       energy |-> allowed, cost |-> allowed * price,
       reason |-> CASE broke -> "balance_exhausted"
                    [] full /\ ~broke -> "target_reached"
                    [] OTHER -> None]

Line(p) == [from |-> p.from, to |-> p.to, price |-> p.price, energy |-> p.energy,
            amount |-> Money(p.cost)]

Advanced(p, cursor) ==
  [run EXCEPT !.cursor = cursor, !.energy = @ + p.energy, !.amount = @ + p.cost,
              !.reason = p.reason,
              !.detail = IF p.energy > 0 THEN Append(@, Line(p)) ELSE @]

\* One iteration of the loop.
Deliver ==
  /\ run # None /\ Looping
  /\ LET p == Portion IN run' = Advanced(p, p.to)
  /\ UNCHANGED <<order, now, budget, bill>>

Sum(detail) == SumTo([i \in 1 .. Len(detail) |-> detail[i].amount], Len(detail))

\* The last line takes what the rounding of all of them has made of the total.
Corrected(detail, rounded) ==
  LET last == detail[Len(detail)]
  IN  [detail EXCEPT ![Len(detail)] =
         [last EXCEPT !.amount = last.amount + (rounded - Sum(detail))]]

\* The answer: the total is rounded once, the last line takes the difference.
Answer(r) ==
  LET rounded == Min({r.budget, Money(r.amount)})
      detail  == IF r.detail = <<>> THEN <<>> ELSE Corrected(r.detail, rounded)
  IN  [energy |-> r.energy, amount |-> rounded, cap |-> r.reason, detail |-> detail,
       finish |-> r.finish, budget |-> r.budget]

Return ==
  /\ run # None /\ ~Looping
  /\ bill' = Answer(run) /\ run' = None
  /\ UNCHANGED <<order, now, budget>>
-----------------------------------------------------------------------------
Next == Call \/ Deliver \/ Return

Spec == Init /\ [][Next]_vars
=============================================================================
