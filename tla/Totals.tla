------------------------------- MODULE Totals -------------------------------
(***************************************************************************)
(* Sums.  The SQL aggregates of the charging core, sum(amount) over rows,  *)
(* are cardinalities: a row x with amount f[x] contributes the f[x] pairs  *)
(* <<x, 1>> ... <<x, f[x]>>, one for each cent.  The loops that add up a   *)
(* list, those of the meter and of the charts, are a recursive function.   *)
(* Module TotalsProofs shows that the two agree.                           *)
(***************************************************************************)
EXTENDS Integers, FiniteSets

\* The cents of one row.
Share(f, x) == {x} \X (1 .. f[x])

\* The cents of the rows in S.
Cents(f, S) == UNION {Share(f, x) : x \in S}

\* SELECT coalesce(sum(f), 0) ... over the rows in S, for amounts in Nat.
Total(f, S) == Cardinality(Cents(f, S))

\* f[1] + ... + f[n]
SumTo(f, n) ==
  LET upTo[k \in 0 .. n] == IF k = 0 THEN 0 ELSE upTo[k - 1] + f[k]
  IN  upTo[n]
=============================================================================
