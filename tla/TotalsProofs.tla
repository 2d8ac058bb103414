----------------------------- MODULE TotalsProofs -----------------------------
(***************************************************************************)
(* Sums, for every number of rows and every amount.                        *)
(*                                                                         *)
(* Total is 0 on no rows, depends on the amounts of the rows it sums only, *)
(* grows by the amount of a new row, and no row exceeds the total it is    *)
(* part of.  SumTo starts at 0 and grows by a term; of natural numbers it  *)
(* is the Total of the first n.                                            *)
(*                                                                         *)
(* Before them what they rest on: least and greatest elements, quotients,  *)
(* remainders and multiples.                                               *)
(***************************************************************************)
EXTENDS Totals, FiniteSetsExt, FiniteSetTheorems, WellFoundedInduction, TLAPS

-----------------------------------------------------------------------------
(* The least and the greatest of some numbers. *)

\* Of some natural numbers one is the least.
LEMMA Least ==
  ASSUME NEW S \in SUBSET Nat, S # {}
  PROVE  \E n \in S : \A m \in S : n <= m
<1> DEFINE R == OpToRel(<, Nat)
<1>1. PICK n \in S : \A m \in S : ~(<<m, n>> \in R)
  <2> HIDE DEF R
  <2>1. IsWellFoundedOn(R, Nat)
    BY NatLessThanWellFounded DEF R
  <2> QED
    BY <2>1, WFMin
<1>2. \A m \in S : m < n => <<m, n>> \in R
  BY DEF OpToRel
<1> HIDE DEF R
<1>3. \A m \in S : ~(m < n)
  BY <1>1, <1>2
<1>4. n \in Nat /\ \A m \in S : m \in Nat
  OBVIOUS
<1>5. \A m \in S : n <= m
  BY <1>3, <1>4
<1> QED
  BY <1>5

\* Min is the least element.
LEMMA MinIs ==
  ASSUME NEW S \in SUBSET Nat, S # {}
  PROVE  Min(S) \in S /\ \A n \in S : Min(S) <= n
BY Least DEF Min

\* What is bounded has a greatest element.
LEMMA MaxIs ==
  ASSUME NEW bound \in Nat, NEW S \in SUBSET (0 .. bound), S # {}
  PROVE  Max(S) \in S /\ \A n \in S : n <= Max(S)
<1> DEFINE gaps == {g \in 0 .. bound : bound - g \in S}
<1>1. gaps \in SUBSET Nat /\ gaps # {}
  <2>1. PICK n \in S : TRUE
    OBVIOUS
  <2>2. n \in 0 .. bound
    OBVIOUS
  <2>3. bound - n \in 0 .. bound /\ bound - (bound - n) = n
    BY <2>2
  <2>4. bound - n \in gaps
    BY <2>3
  <2> QED
    BY <2>4
<1>2. PICK g \in gaps : \A h \in gaps : g <= h
  <2> HIDE DEF gaps
  <2> QED
    BY <1>1, Least
<1>3. bound - g \in S /\ g \in 0 .. bound
  OBVIOUS
<1>4. \A n \in S : n <= bound - g
  <2> TAKE n \in S
  <2>1. n \in 0 .. bound
    OBVIOUS
  <2>2. bound - n \in 0 .. bound /\ bound - (bound - n) = n
    BY <2>1
  <2>3. g <= bound - n
    BY <1>2, <2>2
  <2> QED
    BY <1>3, <2>1, <2>3
<1>5. \E m \in S : \A n \in S : m >= n
  <2>1. \A n \in S : n \in 0 .. bound
    OBVIOUS
  <2>2. \A n \in S : bound - g >= n
    BY <1>3, <1>4, <2>1
  <2> HIDE DEF gaps
  <2> QED
    BY <1>3, <2>2
<1>6. Max(S) \in S /\ \A n \in S : Max(S) >= n
  BY <1>5 DEF Max
<1> QED
  BY <1>6

\* Of two numbers.
LEMMA MinOfTwo ==
  ASSUME NEW a \in Int, NEW b \in Int
  PROVE  Min({a, b}) = IF a <= b THEN a ELSE b
BY DEF Min

\* Of two numbers, again.
LEMMA MaxOfTwo ==
  ASSUME NEW a \in Int, NEW b \in Int
  PROVE  Max({a, b}) = IF a >= b THEN a ELSE b
BY DEF Max
-----------------------------------------------------------------------------
(* Multiples. *)

Multiple(a, d) == \E k \in Int : a = k * d

\* Quotient and remainder.
LEMMA Divided ==
  ASSUME NEW a \in Int, NEW n \in Nat, n > 0
  PROVE  /\ a \div n \in Int /\ a % n \in Nat /\ a % n < n
         /\ a = (n * (a \div n)) + (a % n)
OBVIOUS

\* No other numbers are quotient and remainder.
LEMMA DividedOnce ==
  ASSUME NEW q \in Int, NEW n \in Nat, n > 0, NEW r \in Nat, r < n
  PROVE  /\ ((n * q) + r) % n = r /\ ((n * q) + r) \div n = q
OBVIOUS

\* The remainder of the division tells multiples.
LEMMA MultipleIs ==
  ASSUME NEW a \in Int, NEW n \in Nat, n > 0
  PROVE  (a % n = 0) <=> Multiple(a, n)
<1>1. ASSUME a % n = 0 PROVE Multiple(a, n)
  <2>1. a \div n \in Int /\ a = (a \div n) * n
    BY <1>1, Divided
  <2> QED
    BY <2>1 DEF Multiple
<1>2. ASSUME Multiple(a, n) PROVE a % n = 0
  <2>1. PICK k \in Int : a = k * n
    BY <1>2 DEF Multiple
  <2>2. ((n * k) + 0) % n = 0
    BY DividedOnce
  <2>3. a = (n * k) + 0
    BY <2>1
  <2> QED
    BY <2>2, <2>3
<1> QED
  BY <1>1, <1>2

\* Sums, differences, and multiples of multiples.
LEMMA Multiples ==
  ASSUME NEW a \in Int, NEW b \in Int, NEW d \in Int
  PROVE  /\ Multiple(a, d) /\ Multiple(b, d) => Multiple(a + b, d) /\ Multiple(a - b, d)
         /\ Multiple(a, b) /\ Multiple(b, d) => Multiple(a, d)
         /\ Multiple(0, d) /\ Multiple(d, d)
<1>1. ASSUME Multiple(a, d), Multiple(b, d) PROVE Multiple(a + b, d) /\ Multiple(a - b, d)
  <2>1. PICK k \in Int : a = k * d
    BY <1>1 DEF Multiple
  <2>2. PICK l \in Int : b = l * d
    BY <1>1 DEF Multiple
  <2>3. a + b = (k + l) * d /\ a - b = (k - l) * d /\ k + l \in Int /\ k - l \in Int
    BY <2>1, <2>2
  <2> QED
    BY <2>3 DEF Multiple
<1>3. ASSUME Multiple(a, b), Multiple(b, d) PROVE Multiple(a, d)
  <2>1. PICK k \in Int : a = k * b
    BY <1>3 DEF Multiple
  <2>2. PICK l \in Int : b = l * d
    BY <1>3 DEF Multiple
  <2>3. a = (k * l) * d /\ k * l \in Int
    BY <2>1, <2>2
  <2> QED
    BY <2>3 DEF Multiple
<1>4. Multiple(0, d) /\ Multiple(d, d)
  <2>1. 0 = 0 * d /\ d = 1 * d /\ 0 \in Int /\ 1 \in Int
    OBVIOUS
  <2> QED
    BY <2>1 DEF Multiple
<1> QED
  BY <1>1, <1>3, <1>4

\* A multiple times anything is one.
LEMMA MultipleOf ==
  ASSUME NEW a \in Int, NEW d \in Int, Multiple(a, d)
  PROVE  \A b \in Int : Multiple(a * b, d) /\ Multiple(b * a, d)
<1> TAKE b \in Int
<1>1. PICK k \in Int : a = k * d
  BY DEF Multiple
<1>2. a * b = (k * b) * d /\ b * a = (k * b) * d /\ k * b \in Int
  BY <1>1
<1> QED
  BY <1>2 DEF Multiple
-----------------------------------------------------------------------------
(* Totals. *)

\* The cents of one row are as many as its amount.
LEMMA ShareCount ==
  ASSUME NEW f, NEW x, f[x] \in Nat
  PROVE  /\ IsFiniteSet(Share(f, x))
         /\ Cardinality(Share(f, x)) = f[x]
<1>1. IsFiniteSet({x}) /\ Cardinality({x}) = 1
  BY FS_Singleton
<1>2. IsFiniteSet(1 .. f[x]) /\ Cardinality(1 .. f[x]) = f[x]
  BY FS_Interval
<1>3. /\ IsFiniteSet({x} \X (1 .. f[x]))
      /\ Cardinality({x} \X (1 .. f[x])) = 1 * f[x]
  BY <1>1, <1>2, FS_Product
<1> QED
  BY <1>3 DEF Share

\* Finitely many rows have finitely many cents.
LEMMA CentsFinite ==
  ASSUME NEW f, NEW S, IsFiniteSet(S), \A x \in S : f[x] \in Nat
  PROVE  IsFiniteSet(Cents(f, S)) /\ Total(f, S) \in Nat
<1> DEFINE T == {Share(f, x) : x \in S}
           g == [x \in S |-> Share(f, x)]
<1>1. g \in Surjection(S, T)
  BY DEF Surjection
<1>2. IsFiniteSet(T)
  BY <1>1, FS_Surjection
<1>3. \A s \in T : IsFiniteSet(s)
  BY ShareCount
<1>4. IsFiniteSet(UNION T)
  BY <1>2, <1>3, FS_UNION
<1> QED
  BY <1>4, FS_CardinalityType DEF Cents, Total

\* No rows, no cents.
LEMMA TotalEmpty == ASSUME NEW f PROVE Total(f, {}) = 0
<1>1. Cents(f, {}) = {}
  BY DEF Cents
<1> QED
  BY <1>1, FS_EmptySet DEF Total

\* The total depends on the amounts of the rows it sums and on nothing else.
LEMMA TotalCong ==
  ASSUME NEW f, NEW g, NEW S, \A x \in S : f[x] = g[x]
  PROVE  Total(f, S) = Total(g, S)
<1>1. \A x \in S : Share(f, x) = Share(g, x)
  BY DEF Share
<1>2. Cents(f, S) = Cents(g, S)
  BY <1>1 DEF Cents
<1> QED
  BY <1>2 DEF Total

\* A row that was not summed adds its amount.
LEMMA TotalAdd ==
  ASSUME NEW f, NEW S, NEW x, IsFiniteSet(S), x \notin S,
         \A y \in S \cup {x} : f[y] \in Nat
  PROVE  Total(f, S \cup {x}) = Total(f, S) + f[x]
<1>1. Cents(f, S \cup {x}) = Cents(f, S) \cup Share(f, x)
  BY DEF Cents
<1>2. Cents(f, S) \cap Share(f, x) = {}
  BY DEF Cents, Share
<1>3. IsFiniteSet(Cents(f, S)) /\ Cardinality(Cents(f, S)) \in Nat
  BY CentsFinite DEF Total
<1>4. IsFiniteSet(Share(f, x)) /\ Cardinality(Share(f, x)) = f[x]
  BY ShareCount
<1>5. Cardinality(Cents(f, S) \cup Share(f, x))
        = Cardinality(Cents(f, S)) + Cardinality(Share(f, x))
            - Cardinality(Cents(f, S) \cap Share(f, x))
  BY <1>3, <1>4, FS_Union
<1>6. Cardinality(Cents(f, S) \cap Share(f, x)) = 0
  BY <1>2, FS_EmptySet
<1>7. Cardinality(Cents(f, S) \cup Share(f, x))
        = Cardinality(Cents(f, S)) + f[x]
  BY <1>3, <1>4, <1>5, <1>6
<1> QED
  BY <1>1, <1>7 DEF Total

\* Taking a row out of the sum takes its amount out.
LEMMA TotalRemove ==
  ASSUME NEW f, NEW S, NEW x, IsFiniteSet(S), x \in S,
         \A y \in S : f[y] \in Nat
  PROVE  Total(f, S \ {x}) = Total(f, S) - f[x]
<1> DEFINE R == S \ {x}
<1>1. IsFiniteSet(R)
  BY FS_RemoveElement
<1>2. S = R \cup {x} /\ x \notin R
  OBVIOUS
<1> HIDE DEF R
<1>3. Total(f, R \cup {x}) = Total(f, R) + f[x]
  BY <1>1, <1>2, TotalAdd
<1>4. Total(f, R) \in Nat /\ f[x] \in Nat
  BY <1>1, <1>2, CentsFinite
<1> QED
  BY <1>2, <1>3, <1>4 DEF R

\* The two together with a change of the amounts outside the old rows.
LEMMA TotalGains ==
  ASSUME NEW f, NEW g, NEW S, NEW x, IsFiniteSet(S), x \notin S,
         \A y \in S : g[y] = f[y], \A y \in S : f[y] \in Nat, g[x] \in Nat
  PROVE  Total(g, S \cup {x}) = Total(f, S) + g[x]
<1>1. Total(g, S \cup {x}) = Total(g, S) + g[x]
  BY TotalAdd
<1>2. Total(g, S) = Total(f, S)
  BY TotalCong
<1> QED
  BY <1>1, <1>2

\* No row exceeds the total it is part of.
LEMMA TotalMember ==
  ASSUME NEW f, NEW S, NEW x, IsFiniteSet(S), x \in S,
         \A y \in S : f[y] \in Nat
  PROVE  f[x] <= Total(f, S)
<1>1. Total(f, S \ {x}) = Total(f, S) - f[x]
  BY TotalRemove
<1>2. IsFiniteSet(S \ {x})
  BY FS_RemoveElement
<1>3. Total(f, S \ {x}) \in Nat /\ Total(f, S) \in Nat /\ f[x] \in Nat
  BY <1>2, CentsFinite
<1> QED
  BY <1>1, <1>3

\* Of finitely many natural numbers one is the greatest.
LEMMA FiniteMax ==
  ASSUME NEW S \in SUBSET Nat, S # {}, IsFiniteSet(S)
  PROVE  Max(S) \in S /\ \A n \in S : n <= Max(S)
<1> DEFINE id == [n \in S |-> n]
           bound == Total(id, S)
<1>1. \A n \in S : id[n] = n /\ id[n] \in Nat
  OBVIOUS
<1> HIDE DEF id
<1>2. bound \in Nat /\ \A n \in S : n <= bound
  BY <1>1, CentsFinite, TotalMember
<1>3. S \in SUBSET (0 .. bound)
  BY <1>2
<1> HIDE DEF bound
<1> QED
  BY <1>2, <1>3, MaxIs
-----------------------------------------------------------------------------
(* Sums of a list. *)

\* The sums of the first terms, up to the n-th.
SumTerm(u, f, k) == IF k = 0 THEN 0 ELSE u[k - 1] + f[k]

IsSums(u, f, n) == u = [k \in 0 .. n |-> SumTerm(u, f, k)]

\* Each sum is the one before it and a term.
LEMMA SumsTerm ==
  ASSUME NEW f, NEW n \in Nat, NEW u, IsSums(u, f, n)
  PROVE  \A k \in 0 .. n : u[k] = SumTerm(u, f, k)
BY DEF IsSums

\* The sums can be continued by one term.
LEMMA SumsStep ==
  ASSUME NEW f, NEW n \in Nat, NEW u, IsSums(u, f, n)
  PROVE  \E v : IsSums(v, f, n + 1)
<1> DEFINE v == [k \in 0 .. n + 1 |-> IF k = n + 1 THEN u[n] + f[n + 1] ELSE u[k]]
<1>1. \A k \in 0 .. n : u[k] = SumTerm(u, f, k)
  BY SumsTerm
<1>2. \A k \in 0 .. n + 1 : v[k] = SumTerm(v, f, k)
  <2> TAKE k \in 0 .. n + 1
  <2>1. CASE k = n + 1
    <3>1. k # 0 /\ k - 1 = n /\ n \in 0 .. n + 1 /\ n # n + 1
      BY <2>1
    <3> QED
      BY <2>1, <3>1 DEF SumTerm
  <2>2. CASE k # n + 1
    <3>1. k \in 0 .. n
      BY <2>2
    <3>2. k # 0 => k - 1 \in 0 .. n + 1 /\ k - 1 # n + 1
      BY <3>1
    <3> QED
      BY <1>1, <2>2, <3>1, <3>2 DEF SumTerm
  <2> QED
    BY <2>1, <2>2
<1>3. v = [k \in 0 .. n + 1 |-> v[k]]
  OBVIOUS
<1> HIDE DEF v
<1>4. v = [k \in 0 .. n + 1 |-> SumTerm(v, f, k)]
  BY <1>2, <1>3
<1> QED
  BY <1>4 DEF IsSums

\* There are sums of any number of terms.
LEMMA SumsExist == \A f : \A n \in Nat : \E u : IsSums(u, f, n)
<1> SUFFICES ASSUME NEW f PROVE \A n \in Nat : \E u : IsSums(u, f, n)
  OBVIOUS
<1> DEFINE bad == {n \in Nat : ~\E u : IsSums(u, f, n)}
<1>1. SUFFICES ASSUME bad # {} PROVE FALSE
  OBVIOUS
<1>2. PICK n \in bad : \A m \in bad : n <= m
  BY <1>1, Least
<1>3. CASE n = 0
  <2>1. IsSums([k \in 0 .. 0 |-> 0], f, 0)
    BY DEF IsSums, SumTerm
  <2> QED
    BY <1>3, <2>1
<1>4. CASE n # 0
  <2>1. n - 1 \in Nat /\ (n - 1) + 1 = n /\ n - 1 \notin bad
    BY <1>2, <1>4
  <2>2. PICK u : IsSums(u, f, n - 1)
    BY <2>1
  <2>3. \E v : IsSums(v, f, (n - 1) + 1)
    BY <2>1, <2>2, SumsStep
  <2> QED
    BY <2>1, <2>3
<1> QED
  BY <1>3, <1>4

\* The sums are one function.
LEMMA SumsIs ==
  ASSUME NEW f, NEW n \in Nat
  PROVE  \E u : IsSums(u, f, n) /\ SumTo(f, n) = u[n]
<1> DEFINE u == CHOOSE u : IsSums(u, f, n)
<1>1. IsSums(u, f, n)
  BY SumsExist
<1>2. SumTo(f, n) = u[n]
  BY DEF SumTo, IsSums, SumTerm
<1> QED
  BY <1>1, <1>2

\* They depend on the terms alone.
LEMMA SumsAgree ==
  ASSUME NEW f, NEW g, NEW n \in Nat, NEW m \in Nat, n <= m, NEW u, NEW v,
         IsSums(u, f, n), IsSums(v, g, m), \A i \in 1 .. n : f[i] = g[i]
  PROVE  u[n] = v[n]
<1> DEFINE bad == {k \in 0 .. n : u[k] # v[k]}
<1>1. SUFFICES ASSUME bad # {} PROVE FALSE
  BY n \in 0 .. n
<1>2. bad \in SUBSET Nat
  OBVIOUS
<1>3. PICK k \in bad : \A i \in bad : k <= i
  <2> HIDE DEF bad
  <2> QED
    BY <1>1, <1>2, Least
<1>4. k \in 0 .. n /\ k \in 0 .. m /\ u[k] # v[k]
  OBVIOUS
<1>5. u[k] = SumTerm(u, f, k) /\ v[k] = SumTerm(v, g, k)
  BY <1>4, SumsTerm
<1>6. CASE k = 0
  BY <1>4, <1>5, <1>6 DEF SumTerm
<1>7. CASE k # 0
  <2>1. k - 1 \in 0 .. n /\ k - 1 \notin bad /\ k \in 1 .. n
    BY <1>3, <1>4, <1>7
  <2>2. u[k - 1] = v[k - 1]
    BY <2>1
  <2> QED
    BY <1>4, <1>5, <1>7, <2>1, <2>2 DEF SumTerm
<1> QED
  BY <1>6, <1>7

\* Sums of integers are integers.
LEMMA SumsAreInts ==
  ASSUME NEW f, NEW n \in Nat, NEW u, IsSums(u, f, n), \A i \in 1 .. n : f[i] \in Int
  PROVE  u[n] \in Int
<1> DEFINE bad == {k \in 0 .. n : u[k] \notin Int}
<1>1. SUFFICES ASSUME bad # {} PROVE FALSE
  BY n \in 0 .. n
<1>2. bad \in SUBSET Nat
  OBVIOUS
<1>3. PICK k \in bad : \A i \in bad : k <= i
  <2> HIDE DEF bad
  <2> QED
    BY <1>1, <1>2, Least
<1>4. k \in 0 .. n /\ u[k] \notin Int
  OBVIOUS
<1>5. u[k] = SumTerm(u, f, k)
  BY <1>4, SumsTerm
<1>6. CASE k = 0
  BY <1>4, <1>5, <1>6 DEF SumTerm
<1>7. CASE k # 0
  <2>1. k - 1 \in 0 .. n /\ k - 1 \notin bad /\ k \in 1 .. n
    BY <1>3, <1>4, <1>7
  <2>2. u[k - 1] \in Int /\ f[k] \in Int
    BY <2>1
  <2> QED
    BY <1>4, <1>5, <1>7, <2>2 DEF SumTerm
<1> QED
  BY <1>6, <1>7

\* What a proof uses of a sum: it starts at zero, and one term more adds it.
LEMMA SumToIs ==
  /\ \A f : SumTo(f, 0) = 0
  /\ \A n \in Nat : \A f, g :
       (\A i \in 1 .. n : f[i] = g[i]) =>
         SumTo(g, n + 1) = SumTo(f, n) + g[n + 1]
  /\ \A n \in Nat : \A f : (\A i \in 1 .. n : f[i] \in Int) => SumTo(f, n) \in Int
<1>1. ASSUME NEW f PROVE SumTo(f, 0) = 0
  <2>1. PICK u : IsSums(u, f, 0) /\ SumTo(f, 0) = u[0]
    BY SumsIs
  <2>2. 0 \in 0 .. 0
    OBVIOUS
  <2> QED
    BY <2>1, <2>2, SumsTerm DEF SumTerm
<1>2. ASSUME NEW n \in Nat, NEW f, NEW g, \A i \in 1 .. n : f[i] = g[i]
      PROVE  SumTo(g, n + 1) = SumTo(f, n) + g[n + 1]
  <2>1. PICK u : IsSums(u, f, n) /\ SumTo(f, n) = u[n]
    BY SumsIs
  <2>3. PICK w : IsSums(w, g, n + 1) /\ SumTo(g, n + 1) = w[n + 1]
    BY SumsIs
  <2>4. u[n] = w[n]
    <3>1. n <= n /\ n <= n + 1 /\ n + 1 \in Nat
      OBVIOUS
    <3> DEFINE m == n + 1
    <3>3. IsSums(w, g, m) /\ n <= m /\ m \in Nat
      BY <2>3, <3>1
    <3> HIDE DEF m
    <3> QED
      BY <1>2, <2>1, <3>3, SumsAgree
  <2>5. w[n + 1] = w[n] + g[n + 1]
    <3>1. n + 1 \in 0 .. n + 1 /\ n + 1 # 0 /\ (n + 1) - 1 = n /\ n + 1 \in Nat
      OBVIOUS
    <3>2. w[n + 1] = SumTerm(w, g, n + 1)
      BY <2>3, <3>1, SumsTerm
    <3> QED
      BY <3>1, <3>2 DEF SumTerm
  <2> QED
    BY <2>1, <2>3, <2>4, <2>5
<1>3. ASSUME NEW n \in Nat, NEW f, \A i \in 1 .. n : f[i] \in Int
      PROVE  SumTo(f, n) \in Int
  BY <1>3, SumsIs, SumsAreInts
<1> QED
  BY <1>1, <1>2, <1>3

\* One term more.
LEMMA SumToStep ==
  ASSUME NEW f, NEW k \in Nat
  PROVE  SumTo(f, k + 1) = SumTo(f, k) + f[k + 1]
BY SumToIs

\* The sum depends on its terms alone.
LEMMA SumToSame ==
  ASSUME NEW f, NEW g, NEW n \in Nat, \A i \in 1 .. n : f[i] = g[i]
  PROVE  SumTo(f, n) = SumTo(g, n)
<1>1. PICK u : IsSums(u, f, n) /\ SumTo(f, n) = u[n]
  BY SumsIs
<1>2. PICK w : IsSums(w, g, n) /\ SumTo(g, n) = w[n]
  BY SumsIs
<1>3. n <= n
  OBVIOUS
<1> QED
  BY <1>1, <1>2, <1>3, SumsAgree

\* Of natural numbers, it is the Total of the first n.
LEMMA SumToTotal ==
  ASSUME NEW f, NEW n \in Nat, \A i \in 1 .. n : f[i] \in Nat
  PROVE  SumTo(f, n) = Total(f, 1 .. n)
<1> DEFINE bad == {k \in 0 .. n : SumTo(f, k) # Total(f, 1 .. k)}
<1>1. SUFFICES ASSUME bad # {} PROVE FALSE
  BY n \in 0 .. n
<1>2. bad \in SUBSET Nat
  OBVIOUS
<1>3. PICK k \in bad : \A i \in bad : k <= i
  <2> HIDE DEF bad
  <2> QED
    BY <1>1, <1>2, Least
<1>4. k \in 0 .. n /\ SumTo(f, k) # Total(f, 1 .. k)
  OBVIOUS
<1>5. CASE k = 0
  <2>1. 1 .. 0 = {}
    OBVIOUS
  <2> QED
    BY <1>4, <1>5, <2>1, SumToIs, TotalEmpty
<1>6. CASE k # 0
  <2> DEFINE p == k - 1
             S == 1 .. p
  <2>1. p \in Nat /\ p + 1 = k /\ p \in 0 .. n /\ p \notin bad
    BY <1>3, <1>4, <1>6
  <2>2. SumTo(f, p) = Total(f, S)
    BY <2>1
  <2>3. 1 .. k = S \cup {k} /\ k \notin S /\ \A y \in S \cup {k} : f[y] \in Nat
    BY <1>4, <2>1
  <2>4. IsFiniteSet(S)
    BY <2>1, FS_Interval
  <2> HIDE DEF S, p, bad
  <2>5. Total(f, S \cup {k}) = Total(f, S) + f[k]
    BY <2>3, <2>4, TotalAdd
  <2>6. SumTo(f, k) = SumTo(f, p) + f[k]
    BY <2>1, SumToStep
  <2> QED
    BY <1>4, <2>2, <2>3, <2>5, <2>6
<1> QED
  BY <1>5, <1>6

\* It is one, too, and no term exceeds it.
LEMMA SumToNat ==
  ASSUME NEW f, NEW n \in Nat, \A i \in 1 .. n : f[i] \in Nat
  PROVE  SumTo(f, n) \in Nat /\ \A i \in 1 .. n : f[i] <= SumTo(f, n)
<1>1. IsFiniteSet(1 .. n)
  BY FS_Interval
<1> QED
  BY <1>1, SumToTotal, CentsFinite, TotalMember

\* n terms between two bounds.
LEMMA SumToBounds ==
  ASSUME NEW f, NEW n \in Nat, NEW low \in Nat, NEW high \in Nat,
         \A i \in 1 .. n : f[i] \in Nat /\ low <= f[i] /\ f[i] <= high
  PROVE  low * n <= SumTo(f, n) /\ SumTo(f, n) <= high * n
<1> DEFINE ok(k) == low * k <= SumTo(f, k) /\ SumTo(f, k) <= high * k
           bad == {k \in 0 .. n : ~ok(k)}
<1>1. SUFFICES ASSUME bad # {} PROVE FALSE
  BY n \in 0 .. n
<1>2. bad \in SUBSET Nat
  OBVIOUS
<1>3. PICK k \in bad : \A i \in bad : k <= i
  <2> HIDE DEF bad
  <2> QED
    BY <1>1, <1>2, Least
<1>4. k \in 0 .. n /\ ~ok(k)
  OBVIOUS
<1>5. CASE k = 0
  <2>1. low * 0 = 0 /\ high * 0 = 0 /\ SumTo(f, 0) = 0
    BY SumToIs
  <2> QED
    BY <1>4, <1>5, <2>1
<1>6. CASE k # 0
  <2> DEFINE p == k - 1
  <2>1. p \in Nat /\ p + 1 = k /\ p \in 0 .. n /\ p \notin bad
    BY <1>3, <1>4, <1>6
  <2>2. ok(p)
    BY <2>1
  <2>3. k \in 1 .. n /\ f[k] \in Nat /\ low <= f[k] /\ f[k] <= high
    BY <1>4, <1>6
  <2> HIDE DEF p, bad
  <2>4. SumTo(f, k) = SumTo(f, p) + f[k]
    BY <2>1, SumToStep
  <2>5. SumTo(f, p) \in Nat
    BY <1>4, <2>1, SumToNat
  <2>6. low * k = low * p + low /\ high * k = high * p + high
    BY <2>1
  <2>7. low * p \in Int /\ high * p \in Int
    BY <2>1
  <2> QED
    BY <1>4, <2>2, <2>3, <2>4, <2>5, <2>6, <2>7
<1> QED
  BY <1>5, <1>6

\* A list is summed in two parts.
LEMMA SumToSplit ==
  ASSUME NEW f, NEW g, NEW m \in Nat, NEW n \in Nat,
         \A i \in 1 .. m + n : f[i] \in Nat, \A i \in 1 .. n : g[i] = f[m + i]
  PROVE  SumTo(f, m + n) = SumTo(f, m) + SumTo(g, n)
<1> DEFINE bad == {k \in 0 .. n : SumTo(f, m + k) # SumTo(f, m) + SumTo(g, k)}
<1>1. SUFFICES ASSUME bad # {} PROVE FALSE
  BY n \in 0 .. n
<1>2. bad \in SUBSET Nat
  OBVIOUS
<1>3. PICK k \in bad : \A i \in bad : k <= i
  <2> HIDE DEF bad
  <2> QED
    BY <1>1, <1>2, Least
<1>4. k \in 0 .. n /\ SumTo(f, m + k) # SumTo(f, m) + SumTo(g, k)
  OBVIOUS
<1>5. SumTo(f, m) \in Nat
  <2>1. \A i \in 1 .. m : f[i] \in Nat
    OBVIOUS
  <2> QED
    BY <2>1, SumToNat
<1>6. CASE k = 0
  BY <1>4, <1>5, <1>6, SumToIs
<1>7. CASE k # 0
  <2> DEFINE p == k - 1
  <2>1. p \in Nat /\ p + 1 = k /\ p \in 0 .. n /\ p \notin bad
    BY <1>3, <1>4, <1>7
  <2>2. SumTo(f, m + p) = SumTo(f, m) + SumTo(g, p)
    BY <2>1
  <2>3. k \in 1 .. n /\ m + k \in 1 .. m + n /\ g[k] = f[m + k] /\ f[m + k] \in Nat
    BY <1>4, <1>7
  <2>4. \A i \in 1 .. p : g[i] \in Nat
    <3> TAKE i \in 1 .. p
    <3>1. i \in 1 .. n /\ m + i \in 1 .. m + n
      BY <2>1
    <3> QED
      BY <3>1
  <2> HIDE DEF p, bad
  <2>5. SumTo(g, p) \in Nat
    BY <2>1, <2>4, SumToNat
  <2>6. SumTo(g, k) = SumTo(g, p) + g[k]
    BY <2>1, SumToStep
  <2>7. SumTo(f, m + k) = SumTo(f, m + p) + f[m + k]
    <3>1. m + p \in Nat /\ (m + p) + 1 = m + k
      BY <2>1
    <3> QED
      BY <3>1, SumToStep
  <2> QED
    BY <1>4, <1>5, <2>2, <2>3, <2>5, <2>6, <2>7
<1> QED
  BY <1>6, <1>7

\* The first terms sum up to less.
LEMMA SumToMonotone ==
  ASSUME NEW f, NEW m \in Nat, NEW n \in Nat, m <= n, \A i \in 1 .. n : f[i] \in Nat
  PROVE  SumTo(f, m) \in Nat /\ SumTo(f, n) \in Nat /\ SumTo(f, m) <= SumTo(f, n)
<1> DEFINE d == n - m
           g == [i \in 1 .. d |-> f[m + i]]
<1>1. d \in Nat /\ m + d = n
  OBVIOUS
<1>2. \A i \in 1 .. d : g[i] = f[m + i] /\ g[i] \in Nat
  OBVIOUS
<1>3. \A i \in 1 .. m : f[i] \in Nat
  OBVIOUS
<1> HIDE DEF g, d
<1>4. SumTo(f, m) \in Nat /\ SumTo(f, n) \in Nat /\ SumTo(g, d) \in Nat
  BY <1>1, <1>2, <1>3, SumToNat
<1>5. SumTo(f, m + d) = SumTo(f, m) + SumTo(g, d)
  BY <1>1, <1>2, SumToSplit
<1> QED
  BY <1>1, <1>4, <1>5

\* One more at each of some places.
LEMMA SumToCounts ==
  ASSUME NEW f, NEW g, NEW n \in Nat, NEW S \in SUBSET (1 .. n),
         \A i \in 1 .. n : f[i] \in Nat,
         \A i \in 1 .. n : g[i] = f[i] + (IF i \in S THEN 1 ELSE 0)
  PROVE  SumTo(g, n) = SumTo(f, n) + Cardinality(S)
<1> DEFINE count(k) == Cardinality(S \cap (1 .. k))
           bad == {k \in 0 .. n : SumTo(g, k) # SumTo(f, k) + count(k)}
<1>1. SUFFICES ASSUME bad # {} PROVE FALSE
  <2>1. n \in 0 .. n
    OBVIOUS
  <2>2. \A i \in S : i \in 1 .. n
    OBVIOUS
  <2>3. S \cap (1 .. n) = S
    BY <2>2
  <2> QED
    BY <2>1, <2>3
<1>2. bad \in SUBSET Nat
  OBVIOUS
<1>3. PICK k \in bad : \A i \in bad : k <= i
  <2> HIDE DEF bad
  <2> QED
    BY <1>1, <1>2, Least
<1>4. k \in 0 .. n /\ SumTo(g, k) # SumTo(f, k) + count(k)
  OBVIOUS
<1>5. CASE k = 0
  <2>1. S \cap (1 .. 0) = {}
    OBVIOUS
  <2> QED
    BY <1>4, <1>5, <2>1, SumToIs, FS_EmptySet
<1>6. CASE k # 0
  <2> DEFINE p == k - 1
             T == S \cap (1 .. p)
  <2>1. p \in Nat /\ p + 1 = k /\ p \in 0 .. n /\ p \notin bad
    BY <1>3, <1>4, <1>6
  <2>2. SumTo(g, p) = SumTo(f, p) + Cardinality(T)
    BY <2>1
  <2>3. k \in 1 .. n /\ k \notin T
    BY <1>4, <1>6, <2>1
  <2>4. IsFiniteSet(T)
    <3>1. IsFiniteSet(1 .. p) /\ T \in SUBSET (1 .. p)
      BY <2>1, FS_Interval
    <3> QED
      BY <3>1, FS_Subset
  <2>5. Cardinality(S \cap (1 .. k)) = Cardinality(T) + (IF k \in S THEN 1 ELSE 0)
    <3>1. CASE k \in S
      <4>1. S \cap (1 .. k) = T \cup {k}
        BY <2>1, <3>1
      <4> HIDE DEF T
      <4> QED
        BY <2>3, <2>4, <3>1, <4>1, FS_AddElement
    <3>2. CASE k \notin S
      <4>1. S \cap (1 .. k) = T
        BY <2>1, <3>2
      <4>2. Cardinality(T) \in Nat
        BY <2>4, FS_CardinalityType
      <4> QED
        BY <3>2, <4>1, <4>2
    <3> QED
      BY <3>1, <3>2
  <2>6. Cardinality(T) \in Nat
    BY <2>4, FS_CardinalityType
  <2>7. \A i \in 1 .. p : f[i] \in Nat
    BY <1>4, <2>1
  <2> HIDE DEF p, bad, T
  <2>8. SumTo(f, p) \in Nat
    BY <2>1, <2>7, SumToNat
  <2>9. SumTo(g, k) = SumTo(g, p) + g[k] /\ SumTo(f, k) = SumTo(f, p) + f[k]
    BY <2>1, SumToStep
  <2>10. count(k) = Cardinality(T) + (IF k \in S THEN 1 ELSE 0)
    BY <2>5
  <2>11. g[k] = f[k] + (IF k \in S THEN 1 ELSE 0) /\ f[k] \in Nat
    BY <2>3
  <2> HIDE DEF count
  <2> QED
    BY <1>4, <2>2, <2>6, <2>8, <2>9, <2>10, <2>11
<1> QED
  BY <1>5, <1>6
=============================================================================
