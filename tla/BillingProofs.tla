----------------------------- MODULE BillingProofs -----------------------------
(***************************************************************************)
(* That the meter is right, for every length of the day and of its hours,  *)
(* every tariff, target, budget and duration.  The invariant of the loop   *)
(* says that what has been delivered is paid unit by unit at the price of  *)
(* its hour, and that a loop that goes on stands at a multiple of Tick     *)
(* with an amount that is one, too: this is why the budget, divided by the *)
(* price, buys a whole number of units.                                    *)
(***************************************************************************)
EXTENDS BillingProperties, TotalsProofs

\* The assumptions, as numbers.
LEMMA BillingNumbers ==
  /\ Hours \in Nat /\ Hours > 0 /\ Hour \in Nat /\ Hour > 0 /\ Tick \in Nat /\ Tick > 0
  /\ Cent \in Nat /\ Cent > 0 /\ MaxTime \in Nat /\ MaxBudget \in Nat
  /\ \A p \in Prices : p \in Nat /\ p > 0
  /\ \A p \in Targets : p \in Nat /\ p > 0
BY BillingAssumption
-----------------------------------------------------------------------------
(* The tariff. *)

\* What stays of the order while its session runs.
OrderOk ==
  /\ DOMAIN tariff \subseteq 0 .. Hours - 1 /\ 0 \in DOMAIN tariff
  /\ \A h \in DOMAIN tariff : tariff[h] \in Prices
  /\ target \in Nat /\ target > 0
  /\ started \in Nat /\ Multiple(started, Tick)

\* The hour of the day is one of its hours.
LEMMA HourIs ==
  ASSUME NEW t \in Nat
  PROVE  /\ Day \in Nat /\ Day > 0 /\ t % Day \in Nat /\ t % Day < Day
         /\ HourOf(t) \in 0 .. Hours - 1
         /\ Hour * HourOf(t) <= t % Day /\ t % Day < Hour * (HourOf(t) + 1)
<1>1. Day \in Nat /\ Day > 0
  BY BillingNumbers DEF Day
<1> DEFINE d == t % Day
<1>2. d \in Nat /\ d < Day
  BY <1>1, Divided
<1> HIDE DEF d
<1>3. /\ d \div Hour \in Int /\ d = (Hour * (d \div Hour)) + (d % Hour)
      /\ d % Hour \in Nat /\ d % Hour < Hour
  BY <1>2, BillingNumbers, Divided
<1> DEFINE q == d \div Hour
<1> HIDE DEF q
<1>4. q \in Int /\ Hour * q <= d /\ d < Hour * (q + 1)
  BY <1>3, BillingNumbers DEF q
<1>5. q >= 0
  <2>1. ASSUME q <= -1 PROVE FALSE
    <3>1. Hour * (q + 1) <= 0
      BY <1>4, <2>1, BillingNumbers
    <3> QED
      BY <1>2, <1>4, <3>1, BillingNumbers
  <2> QED
    BY <1>4, <2>1
<1>6. q <= Hours - 1
  <2>1. ASSUME q >= Hours PROVE FALSE
    <3>1. Hour * q >= Hour * Hours
      BY <1>4, <2>1, BillingNumbers
    <3> QED
      BY <1>2, <1>4, <3>1, BillingNumbers DEF Day
  <2> QED
    BY <1>4, <2>1, BillingNumbers
<1>7. HourOf(t) = q
  BY DEF HourOf, q, d
<1> QED
  BY <1>1, <1>2, <1>4, <1>5, <1>6, <1>7, BillingNumbers DEF d

\* The period of a time is the last one that begins before it.
LEMMA BandIs ==
  ASSUME OrderOk, NEW t \in Nat
  PROVE  /\ Band(t) \in DOMAIN tariff /\ Band(t) \in Nat /\ Band(t) <= HourOf(t)
         /\ \A h \in DOMAIN tariff : h <= HourOf(t) => h <= Band(t)
<1> DEFINE S == {h \in DOMAIN tariff : h <= HourOf(t)}
<1>1. HourOf(t) \in 0 .. Hours - 1
  BY HourIs
<1>2. S \in SUBSET (0 .. Hours - 1) /\ 0 \in S /\ Hours - 1 \in Nat
  BY <1>1, BillingNumbers DEF OrderOk
<1>3. Band(t) = Max(S)
  BY DEF Band
<1> HIDE DEF S
<1>4. Max(S) \in S /\ \A h \in S : h <= Max(S)
  BY <1>2, MaxIs
<1> QED
  BY <1>2, <1>3, <1>4 DEF S

\* The price in force at any time is one of the tariff's.
LEMMA PriceIs ==
  ASSUME OrderOk, NEW t \in Nat
  PROVE  Price(t) \in Prices /\ Price(t) \in Nat /\ Price(t) > 0
BY BandIs, BillingNumbers DEF Price, OrderOk

\* A period ends after each of its times, at a multiple of Tick, and has one price.
LEMMA BoundaryIs ==
  ASSUME OrderOk, NEW t \in Nat
  PROVE  /\ Boundary(t) \in Nat /\ Boundary(t) > t /\ Multiple(Boundary(t), Tick)
         /\ \A u \in t .. Boundary(t) - 1 : Price(u) = Price(t)
<1> DEFINE later == {h \in DOMAIN tariff : h > Band(t)} \cup {Hours}
           d == t % Day
           next == Min(later)
<1>1. /\ Day \in Nat /\ Day > 0 /\ d \in Nat /\ d < Day /\ HourOf(t) \in 0 .. Hours - 1
      /\ Hour * HourOf(t) <= d /\ d < Hour * (HourOf(t) + 1)
  BY HourIs
<1>2. next \in later /\ \A h \in later : next <= h
  <2>1. later \in SUBSET Nat /\ later # {}
    BY BillingNumbers DEF OrderOk
  <2> HIDE DEF later
  <2> QED
    BY <2>1, MinIs
<1>3. next \in Nat /\ next > HourOf(t) /\ next <= Hours
  <2>1. next \in Nat /\ next <= Hours
    BY <1>2, BillingNumbers DEF OrderOk
  <2>2. CASE next = Hours
    BY <1>1, <2>2, BillingNumbers
  <2>3. CASE next \in DOMAIN tariff /\ next > Band(t)
    BY <1>1, <2>1, <2>3, BandIs
  <2> HIDE DEF next
  <2> QED
    BY <1>2, <2>1, <2>2, <2>3
<1>4. Boundary(t) = (t - d) + (Hour * next)
  BY DEF Boundary
<1> HIDE DEF next, later, d
<1>5. Hour * next > d /\ Hour * next <= Day /\ Hour * next \in Nat
  <2>1. Hour * next >= Hour * (HourOf(t) + 1)
    BY <1>1, <1>3, BillingNumbers
  <2>2. Hour * next <= Hour * Hours
    BY <1>3, BillingNumbers
  <2>3. Hour * next \in Nat
    BY <1>3, BillingNumbers
  <2> QED
    BY <1>1, <2>1, <2>2, <2>3, BillingNumbers DEF Day
<1>6. d <= t
  <2>1. t \div Day \in Int /\ t = (Day * (t \div Day)) + d
    BY <1>1, Divided DEF d
  <2>2. t \div Day >= 0
    <3>1. ASSUME t \div Day <= -1 PROVE FALSE
      <4>1. Day * (t \div Day) <= Day * (-1)
        BY <1>1, <2>1, <3>1
      <4> QED
        BY <1>1, <2>1, <4>1
    <3> QED
      BY <2>1, <3>1
  <2>3. Day * (t \div Day) >= 0
    BY <1>1, <2>1, <2>2
  <2> QED
    BY <1>1, <2>1, <2>3
<1>7. Boundary(t) \in Nat /\ Boundary(t) > t
  BY <1>1, <1>4, <1>5, <1>6
<1>8. Multiple(Boundary(t), Tick)
  <2>1. Multiple(Hour, Tick)
    BY MultipleIs, BillingNumbers, BillingAssumption
  <2>2. \A k \in Int : Multiple(Hour * k, Tick)
    <3>1. Hour \in Int /\ Tick \in Int
      BY BillingNumbers
    <3> QED
      BY <2>1, <3>1, MultipleOf
  <2>3. Multiple(Day, Tick)
    <3>1. Hours \in Int
      BY BillingNumbers
    <3>2. Day = Hour * Hours
      BY BillingNumbers DEF Day
    <3> QED
      BY <2>2, <3>1, <3>2
  <2>4. t \div Day \in Int /\ t - d = Day * (t \div Day)
    BY <1>1, Divided DEF d
  <2>5. Multiple(t - d, Tick)
    <3>1. Day \in Int /\ Tick \in Int
      BY <1>1, BillingNumbers
    <3>2. \A k \in Int : Multiple(Day * k, Tick)
      BY <2>3, <3>1, MultipleOf
    <3> QED
      BY <2>4, <3>2
  <2> QED
    <3>1. t - d \in Int /\ Hour * next \in Int /\ Tick \in Int
      BY <1>1, <1>5, BillingNumbers
    <3>2. Multiple(Hour * next, Tick)
      BY <1>3, <2>2
    <3> DEFINE a == t - d
               b == Hour * next
    <3>3. a \in Int /\ b \in Int /\ Multiple(a, Tick) /\ Multiple(b, Tick)
      BY <2>5, <3>1, <3>2
    <3> HIDE DEF a, b
    <3>4. Multiple(a + b, Tick)
      BY <3>1, <3>3, Multiples
    <3> QED
      BY <1>4, <3>4 DEF a, b
<1>9. ASSUME NEW u \in t .. Boundary(t) - 1 PROVE Price(u) = Price(t)
  <2>1. u \in Nat /\ u - t \in Nat /\ d + (u - t) < Hour * next
    BY <1>1, <1>4, <1>5, <1>7
  <2>2. u % Day = d + (u - t)
    <3>1. t \div Day \in Int /\ t = (Day * (t \div Day)) + d
      BY <1>1, Divided DEF d
    <3>2. u = (Day * (t \div Day)) + (d + (u - t))
      BY <1>1, <2>1, <3>1
    <3>3. d + (u - t) \in Nat /\ d + (u - t) < Day
      BY <1>1, <1>5, <2>1
    <3> QED
      BY <1>1, <3>1, <3>2, <3>3, DividedOnce
  <2>3. /\ HourOf(u) \in 0 .. Hours - 1
        /\ Hour * HourOf(u) <= u % Day /\ u % Day < Hour * (HourOf(u) + 1)
    BY <2>1, HourIs
  <2>4. HourOf(u) < next
    <3>1. ASSUME HourOf(u) >= next PROVE FALSE
      <4>1. Hour * HourOf(u) >= Hour * next
        BY <1>3, <2>3, <3>1, BillingNumbers
      <4> QED
        BY <1>1, <1>5, <2>1, <2>2, <2>3, <4>1, BillingNumbers
    <3> QED
      BY <1>3, <2>3, <3>1
  <2>5. HourOf(t) <= HourOf(u)
    <3>1. ASSUME HourOf(u) + 1 <= HourOf(t) PROVE FALSE
      <4>1. Hour * (HourOf(u) + 1) <= Hour * HourOf(t)
        BY <1>1, <2>3, <3>1, BillingNumbers
      <4> QED
        BY <1>1, <2>1, <2>2, <2>3, <4>1, BillingNumbers
    <3> QED
      BY <1>1, <2>3, <3>1
  <2>6. /\ Band(t) \in DOMAIN tariff /\ Band(t) \in Nat /\ Band(t) <= HourOf(t)
        /\ Band(u) \in DOMAIN tariff /\ Band(u) \in Nat /\ Band(u) <= HourOf(u)
        /\ \A h \in DOMAIN tariff : h <= HourOf(u) => h <= Band(u)
    BY <2>1, BandIs
  <2>7. Band(t) <= Band(u)
    BY <1>1, <2>3, <2>5, <2>6
  <2>8. Band(u) <= Band(t)
    <3>1. ASSUME Band(u) > Band(t) PROVE FALSE
      <4>1. next <= Band(u)
        BY <1>2, <2>6, <3>1 DEF later
      <4> QED
        BY <1>3, <2>3, <2>4, <2>6, <4>1
    <3> QED
      BY <2>6, <3>1
  <2> QED
    BY <2>6, <2>7, <2>8 DEF Price
<1> QED
  BY <1>7, <1>8, <1>9
-----------------------------------------------------------------------------
(* The cost of some energy. *)

\* No energy costs nothing, and a unit more costs the price of its time.
LEMMA CostIs ==
  ASSUME OrderOk
  PROVE  /\ Cost(0) = 0
         /\ \A e \in Nat : Cost(e) \in Int /\ Cost(e + 1) = Cost(e) + Price(started + e)
<1>1. started \in Nat
  BY DEF OrderOk
<1>2. Cost(0) = 0
  BY SumToIs DEF Cost
<1>3. ASSUME NEW e \in Nat
      PROVE  Cost(e) \in Int /\ Cost(e + 1) = Cost(e) + Price(started + e)
  <2> DEFINE n == e + 1
             f == [i \in 1 .. e |-> Price(started + i - 1)]
             g == [i \in 1 .. n |-> Price(started + i - 1)]
  <2>1. \A i \in 1 .. e : f[i] \in Int
    <3> TAKE i \in 1 .. e
    <3>1. started + i - 1 \in Nat
      BY <1>1
    <3>2. Price(started + i - 1) \in Nat
      BY <3>1, PriceIs
    <3> QED
      BY <3>2
  <2>2. \A i \in 1 .. e : f[i] = g[i]
    OBVIOUS
  <2>3. n \in 1 .. n /\ started + n - 1 = started + e
    BY <1>1
  <2>4. g[n] = Price(started + e)
    BY <2>3
  <2>5. Cost(e) = SumTo(f, e) /\ Cost(n) = SumTo(g, n)
    BY DEF Cost
  <2> HIDE DEF f, g
  <2>6. SumTo(g, e + 1) = SumTo(f, e) + g[e + 1] /\ SumTo(f, e) \in Int
    BY <2>1, <2>2, SumToIs
  <2> QED
    BY <2>4, <2>5, <2>6 DEF n
<1> QED
  BY <1>2, <1>3

\* Some energy at one price.
LEMMA CostRun ==
  ASSUME OrderOk, NEW e \in Nat, NEW n \in Nat, NEW p \in Nat,
         \A u \in started + e .. started + e + n - 1 : Price(u) = p
  PROVE  Cost(e + n) = Cost(e) + (n * p)
<1> DEFINE bad == {k \in 0 .. n : Cost(e + k) # Cost(e) + (k * p)}
<1>1. SUFFICES ASSUME bad # {} PROVE FALSE
  <2>1. n \in 0 .. n
    OBVIOUS
  <2> QED
    BY <2>1
<1>2. bad \in SUBSET Nat
  OBVIOUS
<1>3. PICK k \in bad : \A i \in bad : k <= i
  <2> HIDE DEF bad
  <2> QED
    BY <1>1, <1>2, Least
<1>4. k \in 0 .. n /\ Cost(e + k) # Cost(e) + (k * p)
  OBVIOUS
<1>5. Cost(e) \in Int
  BY CostIs
<1>6. CASE k = 0
  BY <1>4, <1>5, <1>6
<1>7. CASE k # 0
  <2> DEFINE j == k - 1
             t == started + e + j
  <2>1. j \in 0 .. n /\ j \notin bad /\ j \in Nat /\ k = j + 1
    BY <1>3, <1>4, <1>7
  <2>2. Cost(e + j) = Cost(e) + (j * p)
    BY <2>1
  <2>3. e + j \in Nat /\ (e + j) + 1 = e + k /\ started \in Nat
    BY <2>1 DEF OrderOk
  <2>4. t \in started + e .. started + e + n - 1 /\ t = started + (e + j)
    BY <1>4, <2>1, <2>3
  <2>5. Price(t) = p
    BY <2>4
  <2> HIDE DEF bad, j, t
  <2>6. Cost((e + j) + 1) = Cost(e + j) + Price(started + (e + j))
    BY <2>3, CostIs
  <2>7. Cost(e + k) = (Cost(e) + (j * p)) + p
    BY <2>2, <2>3, <2>4, <2>5, <2>6
  <2>8. k * p = (j * p) + p
    BY <2>1
  <2>9. j * p \in Int
    BY <2>1
  <2> QED
    BY <1>4, <1>5, <2>7, <2>8, <2>9
<1> QED
  BY <1>6, <1>7

\* More energy costs more.
LEMMA CostGrows ==
  ASSUME OrderOk, NEW e \in Nat, NEW f \in Nat, e <= f
  PROVE  Cost(e) \in Nat /\ Cost(f) \in Nat /\ Cost(e) <= Cost(f)
<1>1. ASSUME NEW a \in Nat PROVE \A n \in Nat : Cost(a) <= Cost(a + n)
  <2> DEFINE bad == {n \in Nat : ~(Cost(a) <= Cost(a + n))}
  <2>1. SUFFICES ASSUME bad # {} PROVE FALSE
    OBVIOUS
  <2>2. PICK k \in bad : \A i \in bad : k <= i
    BY <2>1, Least
  <2>3. k \in Nat /\ ~(Cost(a) <= Cost(a + k))
    OBVIOUS
  <2>4. Cost(a) \in Int
    BY CostIs
  <2>5. CASE k = 0
    BY <2>3, <2>4, <2>5
  <2>6. CASE k # 0
    <3> DEFINE j == k - 1
    <3>1. j \in Nat /\ j \notin bad /\ a + j \in Nat /\ (a + j) + 1 = a + k
      BY <2>2, <2>3, <2>6
    <3>2. Cost(a) <= Cost(a + j)
      BY <3>1
    <3>3. started + (a + j) \in Nat
      BY <3>1 DEF OrderOk
    <3> HIDE DEF bad, j
    <3>4. Cost((a + j) + 1) = Cost(a + j) + Price(started + (a + j)) /\ Cost(a + j) \in Int
      BY <3>1, CostIs
    <3>5. Price(started + (a + j)) \in Nat
      BY <3>3, PriceIs
    <3> QED
      BY <2>3, <2>4, <3>1, <3>2, <3>4, <3>5
  <2> QED
    BY <2>5, <2>6
<1>2. f - e \in Nat /\ e + (f - e) = f /\ 0 + e = e /\ 0 + f = f
  OBVIOUS
<1>3. Cost(e) <= Cost(e + (f - e))
  BY <1>1, <1>2
<1>4. Cost(0) <= Cost(0 + e) /\ Cost(0) <= Cost(0 + f)
  BY <1>1
<1>5. Cost(0) = 0 /\ Cost(e) \in Int /\ Cost(f) \in Int
  BY CostIs
<1> QED
  BY <1>2, <1>3, <1>4, <1>5
-----------------------------------------------------------------------------
(* Money. *)

\* It is within half a cent, and never above a multiple of a cent that its
\* argument is not above.
LEMMA MoneyIs ==
  ASSUME NEW x \in Nat
  PROVE  /\ Money(x) \in Nat /\ Multiple(Money(x), Cent)
         /\ 2 * (Money(x) - x) <= Cent /\ 2 * (x - Money(x)) < Cent
<1> DEFINE a == (2 * x) + Cent
           n == 2 * Cent
           q == a \div n
<1>1. Cent \in Nat /\ Cent > 0 /\ a \in Nat /\ n \in Nat /\ n > 0
  BY BillingNumbers
<1>2. Money(x) = Cent * q
  BY <1>1 DEF Money
<1>3. q \in Int /\ a % n \in Nat /\ a % n < n /\ a = (n * q) + (a % n)
  <2> HIDE DEF a, n
  <2> QED
    BY <1>1, Divided
<1> DEFINE r == a % n
           m == Cent * q
<1>4. m \in Int /\ n * q = 2 * m
  <2> HIDE DEF a, q
  <2> QED
    BY <1>1, <1>3
<1>5. /\ r \in Nat /\ r < 2 * Cent /\ (2 * x) + Cent = (2 * m) + r
  BY <1>3, <1>4
<1> HIDE DEF r, m
<1>6. 2 * (m - x) <= Cent /\ 2 * (x - m) < Cent
  BY <1>1, <1>4, <1>5
<1>7. q >= 0
  <2> HIDE DEF q
  <2>1. ASSUME q <= -1 PROVE FALSE
    <3>1. m <= - Cent
      BY <1>1, <1>3, <2>1 DEF m
    <3> QED
      BY <1>1, <1>4, <1>6, <3>1
  <2> QED
    BY <1>3, <2>1
<1>8. m \in Nat
  <2> HIDE DEF q
  <2> QED
    BY <1>1, <1>3, <1>7 DEF m
<1>9. Multiple(m, Cent)
  <2> HIDE DEF q
  <2>1. m = q * Cent
    BY <1>1, <1>3 DEF m
  <2> QED
    BY <1>3, <2>1 DEF Multiple
<1> QED
  BY <1>2, <1>6, <1>8, <1>9 DEF m

\* Multiples of a cent that are less than a cent apart.
LEMMA MultiplesApart ==
  ASSUME NEW a \in Int, NEW b \in Int, Multiple(a, Cent), Multiple(b, Cent), a < b
  PROVE  a + Cent <= b
<1>1. PICK k \in Int : a = k * Cent
  BY DEF Multiple
<1>2. PICK l \in Int : b = l * Cent
  BY DEF Multiple
<1>3. Cent \in Nat /\ Cent > 0
  BY BillingNumbers
<1>4. k < l
  <2>1. ASSUME k >= l PROVE FALSE
    <3>1. k * Cent >= l * Cent
      BY <1>3, <2>1
    <3> QED
      BY <1>1, <1>2, <3>1
  <2> QED
    BY <2>1
<1>5. (k + 1) * Cent <= l * Cent
  <2>1. k + 1 <= l
    BY <1>4
  <2> DEFINE j == k + 1
  <2>2. j \in Int /\ j <= l
    BY <2>1
  <2> HIDE DEF j
  <2>3. j * Cent <= l * Cent
    BY <1>3, <2>2
  <2> QED
    BY <2>3 DEF j
<1>6. (k + 1) * Cent = (k * Cent) + Cent
  BY <1>3
<1> QED
  BY <1>1, <1>2, <1>5, <1>6

\* More is not rounded to less, and nothing to more than a budget it is within.
LEMMA MoneyGrows ==
  ASSUME NEW x \in Nat, NEW y \in Nat, x <= y
  PROVE  Money(x) <= Money(y) /\ (Multiple(y, Cent) => Money(x) <= y /\ Money(y) = y)
<1>1. Cent \in Nat /\ Cent > 0
  BY BillingNumbers
<1> DEFINE a == Money(x)
           b == Money(y)
<1>2. /\ a \in Nat /\ Multiple(a, Cent) /\ 2 * (a - x) <= Cent /\ 2 * (x - a) < Cent
      /\ b \in Nat /\ Multiple(b, Cent) /\ 2 * (b - y) <= Cent /\ 2 * (y - b) < Cent
  BY MoneyIs
<1> HIDE DEF a, b
<1>3. a <= b
  <2>1. ASSUME b < a PROVE FALSE
    <3>1. b + Cent <= a
      BY <1>2, <2>1, MultiplesApart
    <3> QED
      BY <1>1, <1>2, <3>1
  <2> QED
    BY <1>2, <2>1
<1>4. ASSUME Multiple(y, Cent) PROVE b = y
  <2>1. ASSUME b < y PROVE FALSE
    <3>1. b + Cent <= y
      BY <1>2, <1>4, <2>1, MultiplesApart
    <3> QED
      BY <1>1, <1>2, <3>1
  <2>2. ASSUME y < b PROVE FALSE
    <3>1. y + Cent <= b
      BY <1>2, <1>4, <2>2, MultiplesApart
    <3> QED
      BY <1>1, <1>2, <3>1
  <2> QED
    BY <1>2, <2>1, <2>2
<1> QED
  BY <1>2, <1>3, <1>4 DEF a, b
-----------------------------------------------------------------------------
(* The loop. *)

\* A line of the detail: a stretch of one period, as long as it has energy.
Lines == [from : Nat, to : Nat, price : Prices, energy : Nat, amount : Int]

LineOk(line) ==
  /\ line.price = Price(line.from) /\ line.energy = line.to - line.from
  /\ line.energy > 0 /\ line.to <= Boundary(line.from)
  /\ line.amount = Money(line.energy * line.price)

\* The lines of e units of energy, before the last one is corrected: there is one
\* way to write them, because a line that another one follows ends with its period.
DetailOk(d, e) ==
  /\ d \in Seq(Lines) /\ (d = <<>> <=> e = 0)
  /\ d # <<>> => d[1].from = started /\ d[Len(d)].to = started + e
  /\ \A i \in 1 .. Len(d) : LineOk(d[i])
  /\ \A i \in 1 .. Len(d) : i > 1 => d[i].from = d[i - 1].to
  /\ \A i \in 1 .. Len(d) : i < Len(d) =>
       d[i].to = Boundary(d[i].from) /\ d[i].to < started + e

Runs == [cursor : Nat, finish : Nat, budget : Nat, energy : Nat, amount : Nat,
         detail : Seq(Lines), reason : {None, "target_reached", "balance_exhausted"}]

\* What every iteration keeps: energy is paid unit by unit.
Paid(r) ==
  /\ r \in Runs
  /\ r.finish >= started /\ Multiple(r.finish, Tick) /\ Multiple(r.budget, Cent)
  /\ r.cursor = started + r.energy /\ r.cursor <= r.finish
  /\ r.energy <= target /\ r.amount = Cost(r.energy) /\ r.amount <= r.budget
  /\ DetailOk(r.detail, r.energy)

\* While no cap is met, the loop stands between two periods or at its end.
GoesOn(r) ==
  /\ Multiple(r.cursor, Tick) /\ Multiple(r.amount, Tick)
  /\ r.energy < target /\ (r.energy > 0 => r.amount < r.budget)
  /\ r.energy > 0 /\ r.cursor < r.finish =>
       LET last == r.detail[Len(r.detail)] IN last.to = Boundary(last.from)

RunOk(r) ==
  /\ Paid(r)
  /\ r.reason = None => GoesOn(r)
  /\ r.reason = "balance_exhausted" => r.amount = r.budget
  /\ r.reason = "target_reached" => r.energy = target /\ r.amount < r.budget
  /\ r.reason # None => r.finish > started

\* The loop has ended.
Ended(r) == r.cursor >= r.finish \/ r.reason # None

MeterInv ==
  /\ OrderOk /\ now \in Int /\ Multiple(now, Tick) /\ budget \in Nat /\ Multiple(budget, Cent)
  /\ run # None => \E r \in Runs :
       run = r /\ RunOk(r) /\ r.finish = Max({started, now}) /\ r.budget = budget
  /\ bill # None => \E r \in Runs :
       /\ RunOk(r) /\ Ended(r) /\ bill = Answer(r)
       /\ r.finish <= Max({started, now}) /\ r.budget <= budget
-----------------------------------------------------------------------------
(* An iteration of the loop. *)

\* What the loop may deliver in one iteration: no more than the period, the time
\* and both caps allow, and it says why it stops before the first two.
PortionOk(r, p) ==
  /\ p.from = r.cursor /\ p.to = r.cursor + p.energy /\ p.price = Price(r.cursor)
  /\ p.energy \in Nat /\ p.cost \in Nat /\ p.cost = p.energy * p.price
  /\ p.to <= r.finish /\ p.to <= Boundary(r.cursor)
  /\ r.energy + p.energy <= target /\ r.amount + p.cost <= r.budget
  /\ p.reason \in {None, "target_reached", "balance_exhausted"}
  /\ p.reason = "balance_exhausted" => r.amount + p.cost = r.budget
  /\ p.reason = "target_reached" =>
       r.energy + p.energy = target /\ r.amount + p.cost < r.budget
  /\ p.reason = None =>
       /\ p.to = r.finish \/ p.to = Boundary(r.cursor)
       /\ r.energy + p.energy < target /\ r.amount + p.cost < r.budget

\* A price divides a number that a multiple of a multiple of it is.
LEMMA PricesDivide ==
  ASSUME NEW p \in Prices
  PROVE  Multiple(Tick, p) /\ Multiple(Cent, p)
<1>1. p \in Nat /\ p > 0 /\ Tick \in Int /\ Cent \in Int
  BY BillingNumbers
<1>2. Tick % p = 0 /\ Cent % p = 0
  BY BillingAssumption
<1> QED
  BY <1>1, <1>2, MultipleIs

\* A difference of multiples of what a price divides is divided by it.
LEMMA BothMultiples ==
  ASSUME NEW a \in Int, NEW b \in Int, NEW c \in Int, NEW d \in Int, NEW p \in Int,
         Multiple(a, b), Multiple(b, p), Multiple(c, d), Multiple(d, p)
  PROVE  Multiple(a - c, p)
<1>1. Multiple(a, p) /\ Multiple(c, p)
  BY Multiples
<1> QED
  BY <1>1, Multiples

\* A multiple of the price buys a whole number of units.
LEMMA BoughtIs ==
  ASSUME NEW left \in Nat, NEW p \in Nat, p > 0, Multiple(left, p)
  PROVE  left \div p \in Nat /\ (left \div p) * p = left
<1>1. left \div p \in Int /\ left = (p * (left \div p)) + (left % p) /\ left % p = 0
  BY Divided, MultipleIs
<1> DEFINE q == left \div p
<1>2. q \in Int /\ p * q = left
  BY <1>1
<1> HIDE DEF q
<1>3. q * p = left
  BY <1>2
<1>4. q >= 0
  <2>1. ASSUME q <= -1 PROVE FALSE
    <3>1. q * p <= -p
      BY <1>2, <2>1
    <3> QED
      BY <1>3, <3>1
  <2> QED
    BY <1>2, <2>1
<1> QED
  BY <1>2, <1>3, <1>4 DEF q

\* The portion that the code computes is within all limits, and names the one it met.
LEMMA PortionIs ==
  ASSUME OrderOk, RunOk(run), run.cursor < run.finish, run.reason = None
  PROVE  PortionOk(run, Portion)
<1> DEFINE c == run.cursor
           p == Price(c)
           b == Boundary(c)
           f == run.finish
           D == Min({f, b}) - c
           R == target - run.energy
           left == run.budget - run.amount
           full == D >= R
           wanted == IF full THEN Max({0, R}) ELSE D
           broke == wanted * p >= left
           allowed == IF broke THEN Max({0, left \div p}) ELSE wanted
<1>1. Portion = [from |-> c, to |-> c + allowed, price |-> p,
                 energy |-> allowed, cost |-> allowed * p,
                 reason |-> CASE broke -> "balance_exhausted"
                              [] full /\ ~broke -> "target_reached"
                              [] OTHER -> None]
  BY DEF Portion, Remaining
<1>2. /\ run \in Runs /\ Multiple(run.budget, Cent) /\ Multiple(run.amount, Tick)
      /\ run.energy < target /\ run.amount <= run.budget /\ c < f
  BY DEF RunOk, Paid, GoesOn
<1>3. /\ c \in Nat /\ f \in Nat /\ run.budget \in Nat /\ run.energy \in Nat
      /\ run.amount \in Nat /\ target \in Nat
  BY <1>2 DEF Runs, OrderOk
<1>4. b \in Nat /\ b > c
  BY <1>3, BoundaryIs
<1>5. p \in Prices /\ p \in Nat /\ p > 0
  BY <1>3, PriceIs
<1> HIDE DEF c, p, b, f
<1>6. D \in Nat /\ D > 0 /\ c + D <= f /\ c + D <= b /\ (c + D = f \/ c + D = b)
  BY <1>2, <1>3, <1>4, MinOfTwo
<1>7. R \in Nat /\ R > 0 /\ left \in Nat
  BY <1>2, <1>3
<1>8. Multiple(left, p)
  <2>1. Multiple(Tick, p) /\ Multiple(Cent, p)
    BY <1>5, PricesDivide
  <2>2. Tick \in Int /\ Cent \in Int /\ p \in Int /\ run.budget \in Int /\ run.amount \in Int
    BY <1>3, <1>5, BillingNumbers
  <2> QED
    BY <1>2, <2>1, <2>2, BothMultiples
<1> HIDE DEF D, R, left
<1>9. wanted \in Nat /\ wanted <= D /\ wanted <= R /\ (full => wanted = R)
      /\ (~full => wanted = D /\ D < R)
  BY <1>6, <1>7, MaxOfTwo
<1> DEFINE q == left \div p
<1>10. q \in Nat /\ q * p = left
  BY <1>5, <1>7, <1>8, BoughtIs
<1>11. wanted * p \in Nat
  BY <1>5, <1>9
<1> HIDE DEF wanted, full, q
<1>12. broke => q <= wanted
  <2>1. ASSUME broke, wanted < q PROVE FALSE
    <3>1. wanted * p < q * p
      BY <1>5, <1>9, <1>10, <2>1
    <3> QED
      BY <1>7, <1>10, <1>11, <2>1, <3>1
  <2> QED
    BY <1>9, <1>10, <2>1
<1>13. allowed = IF broke THEN q ELSE wanted
  BY <1>10, MaxOfTwo DEF q
<1> DEFINE cost == allowed * p
<1>14. /\ allowed \in Nat /\ cost \in Nat /\ allowed <= wanted
       /\ (broke => cost = left) /\ (~broke => cost < left /\ allowed = wanted)
  <2> HIDE DEF allowed
  <2>1. CASE broke
    BY <1>7, <1>9, <1>10, <1>12, <1>13, <2>1
  <2>2. CASE ~broke
    BY <1>7, <1>9, <1>11, <1>13, <2>2
  <2> HIDE DEF broke
  <2> QED
    BY <2>1, <2>2
<1> HIDE DEF allowed, broke
<1>15. /\ Portion.from = c /\ Portion.to = c + allowed /\ Portion.price = p
       /\ Portion.energy = allowed /\ Portion.cost = cost
       /\ Portion.reason = CASE broke -> "balance_exhausted"
                             [] full /\ ~broke -> "target_reached"
                             [] OTHER -> None
  BY <1>1
<1> HIDE DEF cost
<1>16. /\ c + allowed <= f /\ c + allowed <= b
       /\ run.energy + allowed <= target /\ run.amount + cost <= run.budget
       /\ (broke => run.amount + cost = run.budget)
       /\ (~broke => run.amount + cost < run.budget)
       /\ (~broke /\ full => run.energy + allowed = target)
       /\ (~broke /\ ~full => /\ c + allowed = f \/ c + allowed = b
                              /\ run.energy + allowed < target)
  <2>1. R = target - run.energy /\ left = run.budget - run.amount
    BY DEF R, left
  <2> QED
    BY <1>3, <1>4, <1>6, <1>7, <1>9, <1>14, <2>1
<1>17. \/ broke /\ Portion.reason = "balance_exhausted"
       \/ ~broke /\ full /\ Portion.reason = "target_reached"
       \/ ~broke /\ ~full /\ Portion.reason = None
  BY <1>15
<1>18. Portion.cost = Portion.energy * Portion.price
  BY <1>15 DEF cost
<1> QED
  BY <1>14, <1>15, <1>16, <1>17, <1>18, NoneAssumption DEF PortionOk, c, p, b, f

\* The detail with one line more.
LEMMA DetailGrows ==
  ASSUME OrderOk, NEW d, NEW e \in Nat, NEW line \in Lines,
         DetailOk(d, e), LineOk(line), line.from = started + e,
         e > 0 => d[Len(d)].to = Boundary(d[Len(d)].from)
  PROVE  DetailOk(Append(d, line), e + line.energy)
<1> DEFINE n == Len(d)
           a == Append(d, line)
           m == e + line.energy
<1>1. d \in Seq(Lines) /\ n \in Nat /\ a \in Seq(Lines) /\ Len(a) = n + 1
  BY DEF DetailOk
<1>2. a[n + 1] = line /\ \A i \in 1 .. n : a[i] = d[i]
  BY <1>1
<1>3. /\ started \in Nat /\ line.energy \in Nat /\ line.energy > 0 /\ m \in Nat
      /\ line.to \in Nat /\ line.from \in Nat /\ line.energy = line.to - line.from
  BY DEF OrderOk, LineOk, Lines
<1>4. line.to = started + m /\ m > e
  BY <1>3
<1>5. n = 0 <=> e = 0
  BY <1>1 DEF DetailOk
<1>6. \A i \in 1 .. Len(a) : i = n + 1 \/ i \in 1 .. n
  BY <1>1
<1>7. a # <<>> /\ a[1].from = started /\ a[Len(a)].to = started + m
  <2>1. CASE n = 0
    <3>1. n + 1 = 1 /\ e = 0
      BY <1>5, <2>1
    <3>2. a # <<>> /\ a[1] = line /\ a[Len(a)] = line
      BY <1>1, <1>2, <3>1
    <3>3. line.from = started
      BY <1>3, <3>1
    <3>4. line.to = started + m
      BY <1>4
    <3> HIDE DEF a, m
    <3> QED
      BY <3>2, <3>3, <3>4
  <2>2. CASE n # 0
    <3>1. 1 \in 1 .. n /\ d # <<>>
      BY <1>1, <2>2
    <3>2. d[1].from = started
      BY <3>1 DEF DetailOk
    <3>3. a # <<>> /\ a[1] = d[1] /\ a[Len(a)] = line
      BY <1>1, <1>2, <3>1
    <3> QED
      BY <1>4, <3>2, <3>3
  <2> QED
    BY <2>1, <2>2
<1>8. \A i \in 1 .. Len(a) : LineOk(a[i])
  BY <1>2, <1>6 DEF DetailOk
<1>9. ASSUME NEW i \in 1 .. Len(a), i > 1 PROVE a[i].from = a[i - 1].to
  <2>1. CASE i = n + 1
    <3>1. n \in 1 .. n /\ d # <<>> /\ i - 1 = n
      BY <1>1, <1>9, <2>1
    <3>2. d[n].to = started + e
      BY <3>1 DEF DetailOk
    <3> QED
      BY <1>2, <2>1, <3>1, <3>2
  <2>2. CASE i \in 1 .. n
    <3>1. i - 1 \in 1 .. n
      BY <1>1, <1>9, <2>2
    <3>2. d[i].from = d[i - 1].to
      BY <1>9, <2>2 DEF DetailOk
    <3> QED
      BY <1>2, <2>2, <3>1, <3>2
  <2> QED
    BY <1>6, <2>1, <2>2
<1>10. ASSUME NEW i \in 1 .. Len(a), i < Len(a)
       PROVE  a[i].to = Boundary(a[i].from) /\ a[i].to < started + m
  <2>1. i \in 1 .. n /\ a[i] = d[i]
    BY <1>1, <1>2, <1>10
  <2>2. CASE i = n
    <3>1. e > 0 /\ d # <<>>
      BY <1>1, <1>5, <2>1, <2>2
    <3>2. d[n].to = started + e /\ d[n].to = Boundary(d[n].from)
      BY <3>1 DEF DetailOk
    <3> QED
      BY <1>3, <1>4, <2>1, <2>2, <3>2
  <2>3. CASE i # n
    <3>1. i < n
      BY <1>1, <2>1, <2>3
    <3>2. i \in 1 .. Len(d) /\ i < Len(d) /\ d[i] \in Lines
      BY <1>1, <2>1, <3>1
    <3>3. d[i].to = Boundary(d[i].from) /\ d[i].to < started + e
      BY <3>2 DEF DetailOk
    <3>4. d[i].to \in Nat
      BY <3>2 DEF Lines
    <3> QED
      BY <1>3, <1>4, <2>1, <3>3, <3>4
  <2> QED
    BY <2>2, <2>3
<1>11. m # 0
  BY <1>4
<1> HIDE DEF a, n, m
<1>12. DetailOk(a, m)
  BY <1>1, <1>7, <1>8, <1>9, <1>10, <1>11 DEF DetailOk
<1> QED
  BY <1>12 DEF a, m

\* An iteration keeps what the loop relies on.
LEMMA DeliverKeepsRun ==
  ASSUME OrderOk, RunOk(run), run.cursor < run.finish, run.reason = None,
         NEW r, r = Advanced(Portion, Portion.to)
  PROVE  /\ RunOk(r) /\ r.finish = run.finish /\ r.budget = run.budget
<1> DEFINE p == Portion
           c == run.cursor
           detail == IF p.energy > 0 THEN Append(run.detail, Line(p)) ELSE run.detail
<1>1. PortionOk(run, p)
  BY PortionIs
<1>2. /\ run \in Runs /\ Paid(run) /\ GoesOn(run)
  BY DEF RunOk, Paid
<1> HIDE DEF p
<1>3. r = [run EXCEPT !.cursor = p.to, !.energy = @ + p.energy, !.amount = @ + p.cost,
                      !.reason = p.reason, !.detail = detail]
  BY DEF Advanced, p
<1>4. /\ c \in Nat /\ run.finish \in Nat /\ run.budget \in Nat /\ run.energy \in Nat
      /\ run.amount \in Nat /\ target \in Nat /\ started \in Nat
      /\ c = started + run.energy /\ run.amount = Cost(run.energy)
  BY <1>2 DEF Runs, OrderOk, Paid
<1> DEFINE e == run.energy + p.energy
           x == run.amount + p.cost
<1>5. /\ p.energy \in Nat /\ p.cost \in Nat /\ p.to = c + p.energy /\ p.to <= run.finish
      /\ p.price \in Prices /\ p.price \in Nat /\ p.price > 0
  BY <1>1, <1>4, PriceIs DEF PortionOk
<1>6. e \in Nat /\ x \in Nat /\ p.to = started + e /\ p.to \in Nat
  BY <1>4, <1>5
<1>7. x = Cost(e)
  <2>1. Boundary(c) \in Nat /\ \A u \in c .. Boundary(c) - 1 : Price(u) = Price(c)
    BY <1>4, BoundaryIs
  <2>2. \A u \in c .. c + p.energy - 1 : Price(u) = p.price
    <3>1. c + p.energy <= Boundary(c) /\ p.price = Price(c)
      BY <1>1, <1>5 DEF PortionOk
    <3> QED
      BY <1>4, <1>5, <2>1, <3>1
  <2>3. Cost(run.energy + p.energy) = Cost(run.energy) + (p.energy * p.price)
    <3> DEFINE a == run.energy
               n == p.energy
               v == p.price
    <3>1. a \in Nat /\ n \in Nat /\ v \in Nat /\ c = started + a
      BY <1>4, <1>5
    <3>2. \A u \in started + a .. started + a + n - 1 : Price(u) = v
      BY <2>2, <3>1
    <3> HIDE DEF a, n, v
    <3>3. Cost(a + n) = Cost(a) + (n * v)
      BY <3>1, <3>2, CostRun
    <3> QED
      BY <3>3 DEF a, n, v
  <2> QED
    BY <1>1, <1>4, <2>3 DEF PortionOk
<1>8. ASSUME p.energy > 0
      PROVE  Line(p) \in Lines /\ LineOk(Line(p)) /\ Line(p).from = started + run.energy
  <2>1. Line(p) = [from |-> c, to |-> p.to, price |-> p.price, energy |-> p.energy,
                   amount |-> Money(p.cost)]
    BY <1>1 DEF Line, PortionOk
  <2>2. Money(p.cost) \in Nat
    BY <1>5, MoneyIs
  <2>3. Line(p) \in Lines
    BY <1>4, <1>5, <1>6, <2>1, <2>2 DEF Lines
  <2>4. p.cost = p.energy * p.price /\ p.price = Price(c) /\ p.to <= Boundary(c)
    BY <1>1 DEF PortionOk
  <2>5. p.energy = p.to - c
    BY <1>4, <1>5
  <2> QED
    BY <1>4, <1>8, <2>1, <2>3, <2>4, <2>5 DEF LineOk
<1>9. DetailOk(detail, e)
  <2>1. DetailOk(run.detail, run.energy)
    BY <1>2 DEF Paid
  <2>2. CASE p.energy > 0
    <3>1. run.energy > 0 => run.detail[Len(run.detail)].to = Boundary(run.detail[Len(run.detail)].from)
      BY <1>2 DEF GoesOn
    <3>2. Line(p).energy = p.energy
      BY DEF Line
    <3> QED
      BY <1>4, <1>8, <2>1, <2>2, <3>1, <3>2, DetailGrows
  <2>3. CASE ~(p.energy > 0)
    <3>1. e = run.energy
      BY <1>4, <1>5, <2>3
    <3> QED
      BY <2>1, <2>3, <3>1
  <2> QED
    BY <2>2, <2>3
<1>10. detail \in Seq(Lines)
  BY <1>9 DEF DetailOk
<1> HIDE DEF detail
<1>11. /\ r.cursor = p.to /\ r.energy = e /\ r.amount = x /\ r.reason = p.reason
       /\ r.detail = detail /\ r.finish = run.finish /\ r.budget = run.budget
  BY <1>2, <1>3 DEF Runs
<1>12. r \in Runs
  <2>1. p.reason \in {None, "target_reached", "balance_exhausted"}
    BY <1>1 DEF PortionOk
  <2> HIDE DEF e, x
  <2> QED
    BY <1>2, <1>3, <1>6, <1>10, <2>1, <1>11 DEF Runs
<1>13. e <= target /\ x <= run.budget
  BY <1>1 DEF PortionOk
<1>14. Paid(r)
  BY <1>2, <1>5, <1>6, <1>7, <1>9, <1>11, <1>12, <1>13 DEF Paid
<1>15. ASSUME p.reason = None PROVE GoesOn(r)
  <2>1. /\ p.to = run.finish \/ p.to = Boundary(c)
        /\ e < target /\ x < run.budget
    BY <1>1, <1>15 DEF PortionOk
  <2>2. Multiple(p.to, Tick)
    BY <1>2, <1>4, <2>1, BoundaryIs DEF Paid
  <2>3. Multiple(x, Tick)
    <3> DEFINE n == p.energy
               v == p.price
               k == p.cost
    <3>1. n \in Int /\ v \in Int /\ k \in Int /\ k = n * v /\ Tick \in Int /\ p.to \in Int /\ c \in Int
      BY <1>1, <1>4, <1>5, <1>6, BillingNumbers DEF PortionOk
    <3>2. Multiple(c, Tick)
      BY <1>2 DEF GoesOn
    <3>3. n = p.to - c
      BY <1>4, <1>5
    <3>4. Multiple(n, Tick)
      <4> DEFINE a == p.to
      <4>1. a \in Int /\ Multiple(a, Tick) /\ n = a - c
        BY <2>2, <3>1, <3>3
      <4> HIDE DEF a, n, c
      <4> QED
        BY <3>1, <3>2, <4>1, Multiples
    <3> HIDE DEF n, v, k
    <3>5. Multiple(k, Tick)
      BY <3>1, <3>4, MultipleOf
    <3>6. Multiple(run.amount, Tick) /\ run.amount \in Int
      BY <1>2, <1>4 DEF GoesOn
    <3> DEFINE y == run.amount
    <3>7. y \in Int /\ Multiple(y, Tick)
      BY <3>6
    <3> HIDE DEF y
    <3>8. Multiple(y + k, Tick)
      BY <3>1, <3>5, <3>7, Multiples
    <3> QED
      BY <3>8 DEF y, k
  <2>4. ASSUME e > 0, p.to < run.finish
        PROVE  detail[Len(detail)].to = Boundary(detail[Len(detail)].from)
    <3>1. p.to = Boundary(c)
      BY <1>4, <1>6, <2>1, <2>4
    <3>2. p.energy > 0
      <4>1. Boundary(c) > c /\ Boundary(c) \in Nat
        BY <1>4, BoundaryIs
      <4> QED
        BY <1>4, <1>5, <3>1, <4>1
    <3>3. detail = Append(run.detail, Line(p)) /\ run.detail \in Seq(Lines)
      BY <1>2, <3>2 DEF detail, Runs
    <3>4. Line(p) \in Lines
      BY <1>8, <3>2
    <3>5. detail[Len(detail)] = Line(p)
      BY <3>3, <3>4
    <3>6. Line(p).to = p.to /\ Line(p).from = c
      BY <1>1 DEF Line, PortionOk
    <3> QED
      BY <3>1, <3>5, <3>6
  <2> HIDE DEF e, x
  <2> QED
    BY <1>11, <2>1, <2>2, <2>3, <2>4 DEF GoesOn
<1>16. run.finish > started
  BY <1>4
<1>17. /\ (p.reason = "balance_exhausted" => x = run.budget)
       /\ (p.reason = "target_reached" => e = target /\ x < run.budget)
  BY <1>1 DEF PortionOk
<1> HIDE DEF e, x
<1> QED
  BY <1>11, <1>14, <1>15, <1>16, <1>17 DEF RunOk
-----------------------------------------------------------------------------
(* The answer. *)

\* The corrected lines differ in the amount of the last one alone.
LEMMA CorrectedIs ==
  ASSUME NEW d \in Seq(Lines), d # <<>>, NEW rounded \in Int, Sum(d) \in Int
  PROVE  LET c == Corrected(d, rounded)
             n == Len(d)
         IN  /\ c \in Seq(Lines) /\ Len(c) = n /\ n \in Nat /\ n > 0
             /\ \A i \in 1 .. n :
                  /\ c[i].from = d[i].from /\ c[i].to = d[i].to
                  /\ c[i].price = d[i].price /\ c[i].energy = d[i].energy
             /\ \A i \in 1 .. n - 1 : c[i] = d[i]
             /\ c[n].amount = d[n].amount + (rounded - Sum(d))
<1> DEFINE c == Corrected(d, rounded)
           n == Len(d)
           x == rounded - Sum(d)
           old == d[n]
           line == [old EXCEPT !.amount = old.amount + x]
<1>1. n \in Nat /\ n > 0 /\ n \in 1 .. n /\ x \in Int
  OBVIOUS
<1>2. c = [d EXCEPT ![n] = line]
  BY Zenon DEF Corrected
<1>3. old \in Lines /\ x \in Int
  BY <1>1
<1> HIDE DEF x, old, c
<1>4. /\ line \in Lines /\ line.amount = old.amount + x
      /\ line.from = old.from /\ line.to = old.to
      /\ line.price = old.price /\ line.energy = old.energy
  <2>1. /\ old.from \in Nat /\ old.to \in Nat /\ old.price \in Prices /\ old.energy \in Nat
        /\ old.amount \in Int
        /\ old = [from |-> old.from, to |-> old.to, price |-> old.price,
                  energy |-> old.energy, amount |-> old.amount]
    BY <1>3 DEF Lines
  <2>2. old.amount + x \in Int
    BY <1>3, <2>1
  <2>3. line = [from |-> old.from, to |-> old.to, price |-> old.price,
                energy |-> old.energy, amount |-> old.amount + x]
    BY <2>1
  <2> QED
    BY <2>1, <2>2, <2>3 DEF Lines
<1> HIDE DEF line
<1>5. c \in Seq(Lines) /\ Len(c) = n
  BY <1>1, <1>2, <1>4
<1>6. c[n] = line /\ \A i \in 1 .. n : i # n => c[i] = d[i]
  BY <1>1, <1>2
<1>7. \A i \in 1 .. n - 1 : i \in 1 .. n /\ i # n
  BY <1>1
<1>8. ASSUME NEW i \in 1 .. n
      PROVE  /\ c[i].from = d[i].from /\ c[i].to = d[i].to
             /\ c[i].price = d[i].price /\ c[i].energy = d[i].energy
  <2>1. CASE i = n
    BY <1>4, <1>6, <2>1 DEF old
  <2>2. CASE i # n
    BY <1>6, <2>2
  <2> QED
    BY <2>1, <2>2
<1>9. /\ c \in Seq(Lines) /\ Len(c) = n /\ n \in Nat /\ n > 0
      /\ \A i \in 1 .. n - 1 : c[i] = d[i]
      /\ c[n].amount = d[n].amount + (rounded - Sum(d))
  BY <1>1, <1>4, <1>5, <1>6, <1>7 DEF x, old
<1> QED
  BY <1>8, <1>9 DEF c

\* They add up to what was to be explained.
LEMMA SumsCorrected ==
  ASSUME NEW d \in Seq(Lines), d # <<>>, NEW rounded \in Int
  PROVE  Sum(d) \in Int /\ Sum(Corrected(d, rounded)) = rounded
<1> DEFINE c == Corrected(d, rounded)
           n == Len(d)
           k == n - 1
           f == [i \in 1 .. n |-> d[i].amount]
           g == [i \in 1 .. n |-> c[i].amount]
<1>1. n \in Nat /\ n > 0 /\ k \in Nat /\ k + 1 = n /\ n \in 1 .. n
  OBVIOUS
<1>2. \A i \in 1 .. n : f[i] \in Int
  <2>1. \A i \in 1 .. n : d[i] \in Lines
    OBVIOUS
  <2> QED
    BY <2>1 DEF Lines
<1>3. Sum(d) = SumTo(f, n)
  BY DEF Sum
<1>4. Sum(d) \in Int
  <2> HIDE DEF f
  <2> QED
    BY <1>1, <1>2, <1>3, SumToIs
<1>5. /\ Len(c) = n /\ \A i \in 1 .. k : c[i] = d[i]
      /\ c[n].amount = d[n].amount + (rounded - Sum(d))
  BY <1>4, CorrectedIs
<1>6. Sum(c) = SumTo(g, n)
  BY <1>5 DEF Sum
<1>7. /\ \A i \in 1 .. k : f[i] = g[i]
      /\ f[n] \in Int /\ g[n] = f[n] + (rounded - Sum(d))
  <2> HIDE DEF c
  <2>1. \A i \in 1 .. k : i \in 1 .. n
    BY <1>1
  <2> QED
    BY <1>1, <1>2, <1>5, <2>1
<1> HIDE DEF c, f, g, k
<1>8. \A i \in 1 .. k : f[i] \in Int
  BY <1>1, <1>2
<1>9. SumTo(f, k + 1) = SumTo(f, k) + f[k + 1] /\ SumTo(g, k + 1) = SumTo(f, k) + g[k + 1]
  BY <1>1, <1>7, SumToIs
<1>10. SumTo(f, k) \in Int
  BY <1>1, <1>8, SumToIs
<1>11. Sum(d) = SumTo(f, k) + f[n] /\ Sum(c) = SumTo(f, k) + g[n]
  BY <1>1, <1>3, <1>6, <1>9
<1>12. Sum(c) = rounded
  BY <1>4, <1>7, <1>10, <1>11
<1> QED
  BY <1>4, <1>12 DEF c

\* The answer of a loop that has ended.
LEMMA AnswerIs ==
  ASSUME OrderOk, NEW r \in Runs, RunOk(r)
  PROVE  /\ Answer(r).energy = r.energy /\ Answer(r).cap = r.reason
         /\ Answer(r).finish = r.finish /\ Answer(r).budget = r.budget
         /\ Answer(r).amount = Money(r.amount) /\ Money(r.amount) \in Nat
         /\ Money(r.amount) <= r.budget
         /\ (r.amount = r.budget => Money(r.amount) = r.budget)
         /\ Answer(r).detail = IF r.detail = <<>> THEN <<>>
                               ELSE Corrected(r.detail, Money(r.amount))
<1>1. r.amount \in Nat /\ r.budget \in Nat /\ r.amount <= r.budget /\ Multiple(r.budget, Cent)
  BY DEF Runs, RunOk, Paid
<1> DEFINE rounded == Min({r.budget, Money(r.amount)})
<1>2. Money(r.amount) \in Nat /\ Money(r.amount) <= r.budget /\ Money(r.budget) = r.budget
  BY <1>1, MoneyIs, MoneyGrows
<1>3. rounded = Money(r.amount)
  BY <1>1, <1>2, MinOfTwo
<1> HIDE DEF rounded
<1>4. Answer(r) = [energy |-> r.energy, amount |-> rounded, cap |-> r.reason,
                   detail |-> IF r.detail = <<>> THEN <<>> ELSE Corrected(r.detail, rounded),
                   finish |-> r.finish, budget |-> r.budget]
  BY DEF Answer, rounded
<1> QED
  BY <1>2, <1>3, <1>4

\* The loop ends when nothing more can be delivered.
LEMMA EndedMeans ==
  ASSUME OrderOk, NEW r \in Runs, RunOk(r), Ended(r)
  PROVE  LET elapsed == Max({0, r.finish - started})
             most    == Min({elapsed, target})
         IN  /\ elapsed = r.finish - started /\ elapsed \in Nat /\ most \in Nat
             /\ most = IF elapsed <= target THEN elapsed ELSE target
             /\ r.energy \in 0 .. most /\ Cost(r.energy) = r.amount
             /\ r.energy < most => r.reason = "balance_exhausted" /\ r.amount = r.budget
             /\ elapsed = 0 => r.reason = None
             /\ elapsed # 0 /\ r.amount = r.budget => r.reason = "balance_exhausted"
             /\ elapsed # 0 /\ r.amount # r.budget /\ r.energy = target =>
                  r.reason = "target_reached"
             /\ elapsed # 0 /\ r.amount # r.budget /\ r.energy # target => r.reason = None
<1>1. /\ r.cursor \in Nat /\ r.finish \in Nat /\ r.energy \in Nat /\ r.amount \in Nat
      /\ r.budget \in Nat /\ r.reason \in {None, "target_reached", "balance_exhausted"}
      /\ started \in Nat /\ target \in Nat
  BY DEF Runs, OrderOk
<1>2. /\ r.finish >= started /\ r.cursor = started + r.energy /\ r.cursor <= r.finish
      /\ r.energy <= target /\ r.amount = Cost(r.energy) /\ r.amount <= r.budget
  BY DEF RunOk, Paid
<1>3. /\ r.reason = None => r.energy < target /\ (r.energy > 0 => r.amount < r.budget)
      /\ r.reason = "balance_exhausted" => r.amount = r.budget
      /\ r.reason = "target_reached" => r.energy = target /\ r.amount < r.budget
      /\ r.reason # None => r.finish > started
  BY DEF RunOk, GoesOn
<1>4. r.cursor >= r.finish \/ r.reason # None
  BY DEF Ended
<1> DEFINE elapsed == Max({0, r.finish - started})
           most    == Min({elapsed, target})
<1>5. elapsed = r.finish - started /\ elapsed \in Nat
  BY <1>1, <1>2, MaxOfTwo
<1> HIDE DEF elapsed
<1>6. most = (IF elapsed <= target THEN elapsed ELSE target) /\ most \in Nat
  BY <1>1, <1>5, MinOfTwo
<1> HIDE DEF most
<1>7. r.energy \in 0 .. most
  BY <1>1, <1>2, <1>5, <1>6
<1>8. r.energy < most => r.reason = "balance_exhausted" /\ r.amount = r.budget
  <2>1. ASSUME r.energy < most PROVE r.reason # None /\ r.reason # "target_reached"
    BY <1>1, <1>2, <1>3, <1>4, <1>5, <1>6, <2>1
  <2> QED
    BY <1>1, <1>3, <2>1
<1>9. /\ elapsed = 0 => r.reason = None
      /\ elapsed # 0 /\ r.amount = r.budget => r.reason = "balance_exhausted"
      /\ elapsed # 0 /\ r.amount # r.budget /\ r.energy = target => r.reason = "target_reached"
      /\ elapsed # 0 /\ r.amount # r.budget /\ r.energy # target => r.reason = None
  <2>1. elapsed = 0 => r.reason = None
    BY <1>1, <1>3, <1>5
  <2>2. ASSUME elapsed # 0, r.amount = r.budget PROVE r.reason = "balance_exhausted"
    <3>1. r.reason # None
      BY <1>1, <1>2, <1>3, <1>4, <1>5, <2>2
    <3>2. r.reason # "target_reached"
      BY <1>1, <1>3, <2>2
    <3> QED
      BY <1>1, <3>1, <3>2
  <2>3. ASSUME elapsed # 0, r.amount # r.budget, r.energy = target
        PROVE  r.reason = "target_reached"
    BY <1>1, <1>3, <2>3
  <2>4. ASSUME elapsed # 0, r.amount # r.budget, r.energy # target PROVE r.reason = None
    BY <1>1, <1>3, <2>4
  <2> QED
    BY <2>1, <2>2, <2>3, <2>4
<1> QED
  BY <1>2, <1>5, <1>6, <1>7, <1>8, <1>9 DEF elapsed, most

\* Every answer is exact.
LEMMA AnswerExact ==
  ASSUME OrderOk, NEW r \in Runs, RunOk(r), Ended(r), bill = Answer(r)
  PROVE  TotalsExact
<1> DEFINE elapsed == Max({0, bill.finish - started})
           most    == Min({elapsed, target})
           exact   == Cost(bill.energy)
<1>1. /\ bill.energy = r.energy /\ bill.cap = r.reason /\ bill.finish = r.finish
      /\ bill.budget = r.budget /\ bill.amount = Money(r.amount)
  BY AnswerIs
<1>2. /\ elapsed \in Nat /\ most \in Nat /\ most = IF elapsed <= target THEN elapsed ELSE target
      /\ bill.energy \in 0 .. most /\ exact = r.amount
      /\ bill.energy < most => r.amount = r.budget
      /\ elapsed = 0 => bill.cap = None
      /\ elapsed # 0 /\ exact = bill.budget => bill.cap = "balance_exhausted"
      /\ elapsed # 0 /\ exact # bill.budget /\ bill.energy = target => bill.cap = "target_reached"
      /\ elapsed # 0 /\ exact # bill.budget /\ bill.energy # target => bill.cap = None
  BY <1>1, EndedMeans
<1>3. r.amount \in Nat /\ r.budget \in Nat /\ r.energy \in Nat /\ r.amount <= r.budget
  BY DEF Runs, RunOk, Paid
<1>4. exact <= bill.budget
  BY <1>1, <1>2, <1>3
<1>5. ASSUME bill.energy < most PROVE Cost(bill.energy + 1) > bill.budget
  <2>1. started + r.energy \in Nat
    BY <1>3 DEF OrderOk
  <2>2. Price(started + r.energy) \in Nat /\ Price(started + r.energy) > 0
    BY <2>1, PriceIs
  <2>3. Cost(r.energy + 1) = Cost(r.energy) + Price(started + r.energy)
    BY <1>3, CostIs
  <2> QED
    BY <1>1, <1>2, <1>3, <1>5, <2>2, <2>3
<1>6. 2 * (bill.amount - exact) <= Cent /\ 2 * (exact - bill.amount) < Cent
  BY <1>1, <1>2, <1>3, MoneyIs
<1> HIDE DEF elapsed, most, exact
<1> DEFINE broke == elapsed > 0 /\ exact = bill.budget
           full  == elapsed > 0 /\ exact < bill.budget /\ bill.energy = target
<1>7. /\ broke => bill.cap = "balance_exhausted" /\ ~full
      /\ full => bill.cap = "target_reached"
      /\ ~broke /\ ~full => bill.cap = None
  BY <1>1, <1>2, <1>3
<1>8. bill.cap = CASE broke -> "balance_exhausted"
                   [] full  -> "target_reached"
                   [] OTHER -> None
  <2> HIDE DEF broke, full
  <2> QED
    BY Zenon, <1>7
<1> QED
  BY Zenon, <1>2, <1>4, <1>5, <1>6, <1>8 DEF TotalsExact, elapsed, most, exact, broke, full

\* ... one that the commands which settle an order allow for ...
LEMMA AnswerAllowed ==
  ASSUME OrderOk, NEW r \in Runs, RunOk(r), Ended(r), bill = Answer(r)
  PROVE  BillsAllowed
<1>1. /\ bill.energy = r.energy /\ bill.cap = r.reason
      /\ bill.budget = r.budget /\ bill.amount = Money(r.amount)
      /\ Money(r.amount) \in Nat /\ Money(r.amount) <= r.budget
      /\ r.amount = r.budget => Money(r.amount) = r.budget
  BY AnswerIs
<1>2. /\ r.energy \in Nat /\ r.energy <= target /\ target \in Nat /\ r.budget \in Nat
      /\ r.reason \in {None, "target_reached", "balance_exhausted"}
  BY DEF Runs, RunOk, Paid, OrderOk
<1>3. /\ r.reason = "target_reached" => r.energy = target
      /\ r.reason = "balance_exhausted" => r.amount = r.budget
  BY DEF RunOk
<1> DEFINE b == [energy |-> bill.energy, amount |-> bill.amount, cap |-> bill.cap]
<1>4. /\ b.energy = r.energy /\ b.amount = Money(r.amount) /\ b.cap = r.reason
      /\ r.energy \in 0 .. target /\ Money(r.amount) \in 0 .. r.budget
  BY <1>1, <1>2
<1>5. b \in [energy : 0 .. target, amount : 0 .. bill.budget,
             cap : {None, "target_reached", "balance_exhausted"}]
  BY <1>1, <1>2, <1>4
<1>6. /\ b.cap = "target_reached" => b.energy = target
      /\ b.cap = "balance_exhausted" => b.amount = bill.budget
  BY <1>1, <1>3, <1>4
<1> HIDE DEF b
<1>7. b \in Bills(target, bill.budget)
  BY <1>5, <1>6 DEF Bills
<1> QED
  BY <1>7 DEF BillsAllowed, b

\* ... and one that its lines explain.
LEMMA AnswerExplained ==
  ASSUME OrderOk, NEW r \in Runs, RunOk(r), Ended(r), bill = Answer(r)
  PROVE  DetailExplains
<1> DEFINE d == bill.detail
           o == r.detail
           n == Len(o)
<1>1. /\ bill.energy = r.energy /\ bill.amount = Money(r.amount) /\ Money(r.amount) \in Nat
      /\ d = IF o = <<>> THEN <<>> ELSE Corrected(o, Money(r.amount))
  BY AnswerIs
<1>2. DetailOk(o, r.energy) /\ r.energy \in Nat /\ r.amount = Cost(r.energy)
  BY DEF RunOk, Paid, Runs
<1>3. o \in Seq(Lines) /\ (o = <<>> <=> r.energy = 0)
  BY <1>2 DEF DetailOk
<1>4. CASE o = <<>>
  <2>1. d = <<>> /\ Len(d) = 0 /\ r.energy = 0
    BY <1>1, <1>3, <1>4
  <2>2. Sum(d) = 0
    BY <2>1, SumToIs DEF Sum
  <2>3. r.amount = 0
    BY <1>2, <2>1, CostIs
  <2>4. Money(r.amount) = 0
    <3>1. 0 \in Nat /\ Multiple(0, Cent) /\ 0 <= 0
      BY BillingNumbers, Multiples
    <3> QED
      BY <2>3, <3>1, MoneyGrows
  <2> HIDE DEF d
  <2> QED
    BY <1>1, <2>1, <2>2, <2>4 DEF DetailExplains, d
<1>5. CASE o # <<>>
  <2>1. d = Corrected(o, Money(r.amount)) /\ Sum(o) \in Int /\ Sum(d) = Money(r.amount)
    BY <1>1, <1>3, <1>5, SumsCorrected
  <2>2. /\ d \in Seq(Lines) /\ Len(d) = n /\ n \in Nat /\ n > 0
        /\ \A i \in 1 .. n :
             /\ d[i].from = o[i].from /\ d[i].to = o[i].to
             /\ d[i].price = o[i].price /\ d[i].energy = o[i].energy
    BY <1>1, <1>3, <1>5, <2>1, CorrectedIs
  <2> HIDE DEF d, o, n
  <2>3. d # <<>> /\ r.energy # 0 /\ 1 \in 1 .. n /\ n \in 1 .. n
    BY <1>3, <1>5, <2>2
  <2>4. d[1].from = started /\ d[Len(d)].to = started + r.energy
    BY <1>2, <1>5, <2>2, <2>3 DEF DetailOk, n
  <2>5. ASSUME NEW i \in 1 .. n
        PROVE  /\ i > 1 => d[i].from = d[i - 1].to
               /\ d[i].energy = d[i].to - d[i].from
               /\ \A t \in d[i].from .. d[i].to - 1 : Price(t) = d[i].price
    <3>1. o[i] \in Lines /\ LineOk(o[i])
      BY <1>2, <1>3 DEF DetailOk, n
    <3>2. i > 1 => i - 1 \in 1 .. n /\ o[i].from = o[i - 1].to
      BY <1>2, <2>2 DEF DetailOk, n
    <3>3. /\ o[i].from \in Nat /\ o[i].to \in Nat /\ o[i].price = Price(o[i].from)
          /\ o[i].energy = o[i].to - o[i].from /\ o[i].to <= Boundary(o[i].from)
      BY <3>1 DEF LineOk, Lines
    <3> DEFINE a == o[i].from
               b == o[i].to
    <3>4. a \in Nat /\ b \in Nat /\ b <= Boundary(a)
      BY <3>3
    <3> HIDE DEF a, b
    <3>5. Boundary(a) \in Nat /\ \A u \in a .. Boundary(a) - 1 : Price(u) = Price(a)
      BY <3>4, BoundaryIs
    <3>6. \A u \in a .. b - 1 : Price(u) = Price(a)
      BY <3>4, <3>5
    <3> QED
      BY <2>2, <3>2, <3>3, <3>6 DEF a, b
  <2> QED
    BY <1>1, <2>1, <2>2, <2>3, <2>4, <2>5 DEF DetailExplains, d
<1> QED
  BY <1>4, <1>5

\* There is one way to write the lines of some energy.
LEMMA DetailIsOne ==
  ASSUME OrderOk, NEW e \in Nat, NEW c, NEW d, DetailOk(c, e), DetailOk(d, e)
  PROVE  c = d
<1>1. /\ c \in Seq(Lines) /\ d \in Seq(Lines) /\ Len(c) \in Nat /\ Len(d) \in Nat
      /\ started \in Nat /\ started + e \in Nat
  BY DEF DetailOk, OrderOk
\* Line by line: if they agree up to a line that both have, neither can end there alone.
<1>2. ASSUME NEW n \in Nat, n >= 1, n <= Len(c), n <= Len(d),
             n > 1 => c[n - 1] = d[n - 1]
      PROVE  c[n] = d[n] /\ (n = Len(c) <=> n = Len(d))
  <2>1. n \in 1 .. Len(c) /\ n \in 1 .. Len(d) /\ c # <<>> /\ d # <<>>
    BY <1>1, <1>2
  <2>2. /\ c[n] \in Lines /\ LineOk(c[n]) /\ d[n] \in Lines /\ LineOk(d[n])
    BY <1>1, <2>1 DEF DetailOk
  <2> DEFINE x == c[n]
             y == d[n]
  <2>3. x.from = y.from
    <3>1. CASE n = 1
      BY <2>1, <3>1 DEF DetailOk
    <3>2. CASE n > 1
      BY <1>2, <2>1, <3>2 DEF DetailOk
    <3> QED
      BY <1>2, <3>1, <3>2
  <2>4. /\ n = Len(c) => x.to = started + e
        /\ n < Len(c) => x.to = Boundary(x.from) /\ x.to < started + e
        /\ n = Len(d) => y.to = started + e
        /\ n < Len(d) => y.to = Boundary(y.from) /\ y.to < started + e
    BY <2>1 DEF DetailOk
  <2> HIDE DEF x, y
  <2>5. /\ x.from \in Nat /\ x.to \in Nat /\ y.from \in Nat /\ y.to \in Nat
        /\ x.price = Price(x.from) /\ y.price = Price(y.from)
        /\ x.energy = x.to - x.from /\ y.energy = y.to - y.from
        /\ x.to <= Boundary(x.from) /\ y.to <= Boundary(y.from)
        /\ x.amount = Money(x.energy * x.price) /\ y.amount = Money(y.energy * y.price)
    BY <2>2 DEF LineOk, Lines, x, y
  <2>6. Boundary(x.from) \in Nat /\ Boundary(x.from) = Boundary(y.from)
    BY <2>3, <2>5, BoundaryIs
  <2>7. x.to = y.to /\ (n = Len(c) <=> n = Len(d))
    <3> DEFINE b == Boundary(x.from)
               s == started + e
               k == Len(c)
               l == Len(d)
    <3>1. /\ b \in Nat /\ s \in Nat /\ x.to <= b /\ y.to <= b
          /\ n = k => x.to = s
          /\ n < k => x.to = b /\ x.to < s
          /\ n = l => y.to = s
          /\ n < l => y.to = b /\ y.to < s
          /\ k \in Nat /\ l \in Nat /\ n <= k /\ n <= l
      BY <1>1, <1>2, <2>4, <2>5, <2>6
    <3> HIDE DEF b, s, k, l
    <3>2. x.to = y.to /\ (n = k <=> n = l)
      BY <2>5, <3>1
    <3> QED
      BY <3>2 DEF k, l
  <2>8. x.energy = y.energy /\ x.price = y.price
    BY <2>3, <2>5, <2>7
  <2>9. x.amount = y.amount
    BY <2>5, <2>8
  <2>10. /\ x = [from |-> x.from, to |-> x.to, price |-> x.price,
                 energy |-> x.energy, amount |-> x.amount]
         /\ y = [from |-> y.from, to |-> y.to, price |-> y.price,
                 energy |-> y.energy, amount |-> y.amount]
    BY <2>2 DEF Lines, x, y
  <2>11. x = y
    BY <2>3, <2>7, <2>8, <2>9, <2>10
  <2> QED
    BY <2>7, <2>11 DEF x, y
<1> DEFINE bad == {n \in Nat : n >= 1 /\ n <= Len(c) /\ ~(n <= Len(d) /\ c[n] = d[n])}
<1>3. bad = {}
  <2>1. SUFFICES ASSUME bad # {} PROVE FALSE
    OBVIOUS
  <2>2. PICK n \in bad : \A m \in bad : n <= m
    BY <2>1, Least
  <2>3. n \in Nat /\ n >= 1 /\ n <= Len(c) /\ ~(n <= Len(d) /\ c[n] = d[n])
    OBVIOUS
  <2>4. CASE n = 1
    <3>1. c # <<>> /\ d # <<>>
      BY <1>1, <2>3 DEF DetailOk
    <3>2. 1 <= Len(d)
      BY <1>1, <3>1
    <3> QED
      BY <1>2, <2>3, <2>4, <3>2
  <2>5. CASE n > 1
    <3> DEFINE m == n - 1
    <3>1. m \in Nat /\ m >= 1 /\ m <= Len(c) /\ m \notin bad /\ m < Len(c) /\ n = m + 1
      BY <1>1, <2>2, <2>3, <2>5
    <3>2. m <= Len(d) /\ c[m] = d[m]
      BY <3>1
    <3>3. m > 1 => m - 1 \in Nat /\ m - 1 >= 1 /\ m - 1 <= Len(c) /\ m - 1 \notin bad
      BY <1>1, <2>2, <2>3, <3>1
    <3>4. m > 1 => c[m - 1] = d[m - 1]
      BY <3>3
    <3> HIDE DEF bad, m
    <3>5. m = Len(c) <=> m = Len(d)
      BY <1>2, <3>1, <3>2, <3>4
    <3>6. n <= Len(d)
      BY <1>1, <3>1, <3>2, <3>5
    <3>7. n - 1 = m
      BY <3>1
    <3> QED
      BY <1>2, <2>3, <3>2, <3>6, <3>7
  <2> QED
    BY <2>3, <2>4, <2>5
<1>4. Len(c) <= Len(d) /\ \A n \in 1 .. Len(c) : c[n] = d[n]
  <2>1. \A n \in 1 .. Len(c) : n <= Len(d) /\ c[n] = d[n]
    BY <1>1, <1>3
  <2>2. Len(c) >= 1 => Len(c) \in 1 .. Len(c)
    BY <1>1
  <2> QED
    BY <1>1, <2>1, <2>2
<1>5. Len(c) = Len(d)
  <2>1. CASE Len(c) = 0
    <3>1. c = <<>> /\ d = <<>>
      BY <1>1, <2>1 DEF DetailOk
    <3> QED
      BY <3>1
  <2>2. CASE Len(c) >= 1
    <3> DEFINE n == Len(c)
    <3>1. n \in Nat /\ n >= 1 /\ n <= Len(c) /\ n <= Len(d)
      BY <1>1, <1>4, <2>2
    <3>2. n > 1 => c[n - 1] = d[n - 1]
      BY <1>4, <3>1
    <3>3. n = Len(c)
      OBVIOUS
    <3> HIDE DEF n
    <3>4. n = Len(c) <=> n = Len(d)
      BY <1>2, <3>1, <3>2
    <3> QED
      BY <3>3, <3>4
  <2> QED
    BY <1>1, <2>1, <2>2
<1> QED
  BY <1>1, <1>4, <1>5
-----------------------------------------------------------------------------
(* The invariant. *)

\* An order that has just been placed satisfies the invariant.
LEMMA MeterInvInit == Init => MeterInv
<1> SUFFICES ASSUME Init PROVE MeterInv
  OBVIOUS
<1>1. Day \in Nat /\ Day > 0 /\ Tick \in Nat /\ Tick > 0 /\ Cent \in Nat /\ Cent > 0
  BY BillingNumbers DEF Day
<1>2. started \in Nat /\ started % Tick = 0 /\ target \in Nat /\ target > 0
  BY <1>1, BillingNumbers DEF Init
<1>3. Multiple(started, Tick) /\ Multiple(Tick, Tick)
  BY <1>1, <1>2, MultipleIs, Multiples
<1>4. /\ DOMAIN tariff \subseteq 0 .. Hours - 1 /\ 0 \in DOMAIN tariff
      /\ \A h \in DOMAIN tariff : tariff[h] \in Prices
  <2>1. PICK cuts \in SUBSET (1 .. Hours - 1) : tariff \in [{0} \cup cuts -> Prices]
    BY DEF Init, Tariffs
  <2>2. {0} \cup cuts \subseteq 0 .. Hours - 1
    BY BillingNumbers
  <2> QED
    BY <2>1, <2>2
<1>5. now = started - Tick
  BY DEF Init
<1>6. now \in Int /\ Multiple(now, Tick)
  BY <1>1, <1>2, <1>3, <1>5, Multiples
<1>7. budget \in Nat /\ Multiple(budget, Cent)
  BY <1>1, BillingNumbers, MultipleIs DEF Init
<1>8. run = None /\ bill = None
  BY DEF Init
<1> QED
  BY <1>2, <1>3, <1>4, <1>6, <1>7, <1>8 DEF MeterInv, OrderOk

\* Prices, lines and costs are those of the order, which does not change.
LEMMA OrderKept ==
  ASSUME UNCHANGED order
  PROVE  /\ OrderOk' <=> OrderOk
         /\ \A r : RunOk(r)' <=> RunOk(r)
<1>1. started' = started /\ target' = target /\ tariff' = tariff
  BY DEF order
<1>2. \A t : Price(t)' = Price(t) /\ Boundary(t)' = Boundary(t)
  BY <1>1 DEF Price, Boundary, Band, HourOf
<1>3. \A e : Cost(e)' = Cost(e)
  BY <1>1 DEF Cost, Price, Band, HourOf
<1>4. \A line : LineOk(line)' <=> LineOk(line)
  BY <1>2 DEF LineOk
<1>5. \A d, e : DetailOk(d, e)' <=> DetailOk(d, e)
  BY <1>1, <1>2, <1>4 DEF DetailOk
<1>6. \A r : Paid(r)' <=> Paid(r)
  BY <1>1, <1>3, <1>5 DEF Paid
<1>7. \A r : GoesOn(r)' <=> GoesOn(r)
  BY <1>1, <1>2 DEF GoesOn
<1>8. \A r : RunOk(r)' <=> RunOk(r)
  BY <1>1, <1>6, <1>7 DEF RunOk
<1>9. OrderOk' <=> OrderOk
  BY <1>1 DEF OrderOk
<1> QED
  BY <1>8, <1>9

\* A later time and a larger balance leave the answer given before behind them.
LEMMA BeginKeeps ==
  ASSUME MeterInv, NEW time \in Int, NEW available \in Nat, run = None,
         time >= now, available >= budget, Multiple(time, Tick), Multiple(available, Cent),
         Begin(time, available)
  PROVE  MeterInv'
<1> DEFINE r == [cursor |-> started, finish |-> Max({started, time}), budget |-> available,
                 energy |-> 0, amount |-> 0, detail |-> <<>>, reason |-> None]
<1>1. /\ OrderOk /\ now \in Int /\ budget \in Nat /\ started \in Nat /\ target \in Nat
      /\ target > 0 /\ Multiple(started, Tick)
  BY DEF MeterInv, OrderOk
<1>2. UNCHANGED order /\ bill' = bill /\ now' = time /\ budget' = available /\ run' = r
  BY DEF Begin
<1>3. started' = started
  BY <1>2 DEF order
<1> DEFINE f == Max({started, time})
<1>4. f \in Nat /\ f >= started /\ Multiple(f, Tick) /\ Max({started, now}) <= f
  BY <1>1, MaxOfTwo
<1> HIDE DEF f
<1>5. r \in Runs
  BY <1>1, <1>4 DEF Runs, f
<1>6. /\ r.cursor = started /\ r.finish = f /\ r.budget = available /\ r.energy = 0
      /\ r.amount = 0 /\ r.detail = <<>> /\ r.reason = None
  BY DEF f
<1> HIDE DEF r
<1>16. PICK new : new = r
  OBVIOUS
<1>7. DetailOk(<<>>, 0)
  BY DEF DetailOk
<1>8. Cost(0) = 0
  BY <1>1, CostIs
<1>9. Paid(r)
  BY <1>1, <1>4, <1>5, <1>6, <1>7, <1>8 DEF Paid
<1>10. Multiple(0, Tick)
  BY BillingNumbers, Multiples
<1>11. GoesOn(r)
  BY <1>1, <1>6, <1>10 DEF GoesOn
<1>12. RunOk(r)
  BY <1>6, <1>9, <1>11, NoneAssumption DEF RunOk
<1>13. OrderOk' /\ RunOk(new)'
  BY <1>1, <1>2, <1>12, <1>16, OrderKept
<1>14. Max({started, now})' = f
  BY <1>2, <1>3 DEF f
<1>15. ASSUME bill' # None
       PROVE  \E b \in Runs : /\ RunOk(b)' /\ Ended(b) /\ bill' = Answer(b)
                              /\ b.finish <= f /\ b.budget <= available
  <2>1. PICK b \in Runs : /\ RunOk(b) /\ Ended(b) /\ bill = Answer(b)
                          /\ b.finish <= Max({started, now}) /\ b.budget <= budget
    BY <1>2, <1>15 DEF MeterInv
  <2>2. RunOk(b)'
    BY <1>2, <2>1, OrderKept
  <2>3. b.finish \in Nat /\ b.budget \in Nat
    BY DEF Runs
  <2>4. Max({started, now}) \in Int
    BY <1>1, MaxOfTwo
  <2>5. b.finish <= f /\ b.budget <= available
    BY <1>1, <1>4, <2>1, <2>3, <2>4
  <2> QED
    BY <1>2, <2>1, <2>2, <2>5
<1>17. /\ new \in Runs /\ run' = new /\ new.finish = Max({started, now})'
       /\ new.budget = budget'
  BY <1>2, <1>5, <1>6, <1>14, <1>16
<1>18. now' \in Int /\ Multiple(now', Tick) /\ budget' \in Nat /\ Multiple(budget', Cent)
  BY <1>2
<1> QED
  BY <1>2, <1>13, <1>14, <1>15, <1>17, <1>18 DEF MeterInv, Ended, Answer

\* Calls, iterations and answers preserve it.
LEMMA MeterInvNext == MeterInv /\ [Next]_vars => MeterInv'
<1> SUFFICES ASSUME MeterInv, [Next]_vars PROVE MeterInv'
  OBVIOUS
<1>1. /\ OrderOk /\ now \in Int /\ Multiple(now, Tick) /\ budget \in Nat
      /\ Multiple(budget, Cent)
  BY DEF MeterInv
<1>2. CASE Call
  <2>1. Tick \in Nat /\ Cent \in Nat /\ Multiple(Tick, Tick) /\ Multiple(Cent, Cent)
    BY BillingNumbers, Multiples
  <2>2. /\ now + Tick \in Int /\ now + Tick >= now /\ now >= now
        /\ budget + Cent \in Nat /\ budget + Cent >= budget /\ budget >= budget
    BY <1>1, <2>1
  <2>3. Multiple(now + Tick, Tick) /\ Multiple(budget + Cent, Cent)
    BY <1>1, <2>1, Multiples
  <2>4. run = None
    BY <1>2 DEF Call
  <2>5. CASE Begin(now, budget)
    BY <1>1, <2>2, <2>4, <2>5, BeginKeeps
  <2>6. CASE Begin(now + Tick, budget)
    <3> DEFINE t == now + Tick
    <3>1. t \in Int /\ t >= now /\ Multiple(t, Tick) /\ Begin(t, budget)
      BY <2>2, <2>3, <2>6
    <3> HIDE DEF t
    <3> QED
      BY <1>1, <2>2, <2>4, <3>1, BeginKeeps
  <2>7. CASE Begin(now, budget + Cent)
    <3> DEFINE b == budget + Cent
    <3>1. b \in Nat /\ b >= budget /\ Multiple(b, Cent) /\ Begin(now, b)
      BY <2>2, <2>3, <2>7
    <3> HIDE DEF b
    <3> QED
      BY <1>1, <2>2, <2>4, <3>1, BeginKeeps
  <2> QED
    BY <1>2, <2>5, <2>6, <2>7 DEF Call
<1>3. CASE Deliver
  <2>1. /\ run # None /\ Looping /\ run' = Advanced(Portion, Portion.to)
        /\ UNCHANGED order /\ now' = now /\ budget' = budget /\ bill' = bill
    BY <1>3 DEF Deliver
  <2>2. RunOk(run) /\ run.finish = Max({started, now}) /\ run.budget = budget
    BY <2>1 DEF MeterInv
  <2>3. PICK r : r = run'
    OBVIOUS
  <2>4. RunOk(r) /\ r.finish = run.finish /\ r.budget = run.budget
    BY <1>1, <2>1, <2>2, <2>3, DeliverKeepsRun DEF Looping
  <2>5. RunOk(r)' /\ OrderOk'
    BY <1>1, <2>1, <2>4, OrderKept
  <2>6. r \in Runs
    BY <2>4 DEF RunOk, Paid
  <2>7. Max({started, now})' = Max({started, now}) /\ started' = started
    BY <2>1 DEF order
  <2>8. ASSUME bill' # None
        PROVE  \E b \in Runs : /\ RunOk(b)' /\ Ended(b) /\ bill' = Answer(b)
                               /\ b.finish <= Max({started, now}) /\ b.budget <= budget
    BY <2>1, <2>8, OrderKept DEF MeterInv
  <2> QED
    BY <1>1, <2>1, <2>2, <2>3, <2>4, <2>5, <2>6, <2>7, <2>8 DEF MeterInv, Ended, Answer
<1>4. CASE Return
  <2>1. /\ run # None /\ ~Looping /\ bill' = Answer(run) /\ run' = None
        /\ UNCHANGED order /\ now' = now /\ budget' = budget
    BY <1>4 DEF Return
  <2>2. PICK r \in Runs :
          run = r /\ RunOk(r) /\ r.finish = Max({started, now}) /\ r.budget = budget
    BY <2>1 DEF MeterInv
  <2>3. Ended(r)
    <3>1. r.cursor \in Nat /\ r.finish \in Nat
      BY DEF Runs
    <3> QED
      BY <2>1, <2>2, <3>1 DEF Looping, Ended
  <2>4. RunOk(r)' /\ OrderOk'
    BY <1>1, <2>1, <2>2, OrderKept
  <2>5. Max({started, now})' = Max({started, now})
    BY <2>1 DEF order
  <2>6. /\ bill' = Answer(r) /\ r.finish \in Nat
        /\ r.finish <= Max({started, now})' /\ r.budget <= budget'
    BY <1>1, <2>1, <2>2, <2>5 DEF Runs
  <2>7. \E b \in Runs : /\ RunOk(b)' /\ Ended(b) /\ bill' = Answer(b)
                        /\ b.finish <= Max({started, now})' /\ b.budget <= budget'
    BY <2>3, <2>4, <2>6
  <2> QED
    BY <1>1, <2>1, <2>4, <2>7 DEF MeterInv, Ended, Answer
<1>5. CASE UNCHANGED vars
  <2>1. UNCHANGED order /\ now' = now /\ budget' = budget /\ run' = run /\ bill' = bill
    BY <1>5 DEF vars
  <2>2. OrderOk' /\ started' = started
    BY <1>1, <2>1, OrderKept DEF order
  <2>3. \A r : RunOk(r)' <=> RunOk(r)
    BY <2>1, OrderKept
  <2> QED
    BY <1>1, <2>1, <2>2, <2>3 DEF MeterInv, Ended, Answer
<1> QED
  BY <1>2, <1>3, <1>4, <1>5 DEF Next

\* What the loop relies on is true of every state: a loop under way, and the one
\* that gave the last answer, have paid for their energy unit by unit.
THEOREM MeterInvariant == Spec => []MeterInv
BY MeterInvInit, MeterInvNext, PTL DEF Spec

\* meter answers the most energy that time, target and budget allow, at the prices of
\* its hours to half a cent; settling it exceeds neither cap, and its lines explain it.
THEOREM MeterIsExact == Spec => []MeterExact
<1>1. MeterInv => MeterExact
  <2> SUFFICES ASSUME MeterInv, bill # None PROVE MeterExact
    BY DEF MeterExact, TotalsExact, BillsAllowed, DetailExplains
  <2>1. OrderOk
    BY DEF MeterInv
  <2>2. PICK r \in Runs : RunOk(r) /\ Ended(r) /\ bill = Answer(r)
    BY DEF MeterInv
  <2> QED
    BY <2>1, <2>2, AnswerExact, AnswerAllowed, AnswerExplained DEF MeterExact
<1> QED
  BY <1>1, MeterInvariant, PTL

\* Two answers, the second with no less time and no smaller a balance.
LEMMA LaterAnswer ==
  ASSUME OrderOk, NEW a \in Runs, RunOk(a), Ended(a), NEW b \in Runs, RunOk(b), Ended(b),
         a.finish <= b.finish, a.budget <= b.budget
  PROVE  /\ Answer(b).energy >= Answer(a).energy /\ Answer(b).amount >= Answer(a).amount
         /\ Answer(a).cap = "target_reached" =>
              [Answer(b) EXCEPT !.finish = Answer(a).finish, !.budget = Answer(a).budget]
                = Answer(a)
<1>1. /\ a.energy \in Nat /\ a.amount \in Nat /\ a.finish \in Nat /\ a.budget \in Nat
      /\ b.energy \in Nat /\ b.amount \in Nat /\ b.finish \in Nat /\ b.budget \in Nat
      /\ a.reason \in {None, "target_reached", "balance_exhausted"}
      /\ b.reason \in {None, "target_reached", "balance_exhausted"}
      /\ started \in Nat /\ target \in Nat
  BY DEF Runs, OrderOk
<1>2. /\ a.amount = Cost(a.energy) /\ a.amount <= a.budget /\ DetailOk(a.detail, a.energy)
      /\ b.amount = Cost(b.energy) /\ b.amount <= b.budget /\ DetailOk(b.detail, b.energy)
      /\ a.energy <= target /\ b.energy <= target
      /\ a.reason = "target_reached" => a.energy = target /\ a.amount < a.budget
      /\ b.reason = "balance_exhausted" => b.amount = b.budget
  BY DEF RunOk, Paid
\* The second loop stops before the first one did only if it is broke.
<1>3. b.energy < a.energy => b.reason = "balance_exhausted" /\ b.amount = b.budget
  <2>1. /\ a.energy <= a.finish - started
    BY <1>1 DEF RunOk, Paid
  <2>2. /\ Max({0, b.finish - started}) = b.finish - started
        /\ b.finish - started \in Nat
        /\ b.energy < (IF b.finish - started <= target THEN b.finish - started ELSE target)
             => b.reason = "balance_exhausted" /\ b.amount = b.budget
    <3> DEFINE elapsed == Max({0, b.finish - started})
               most    == Min({elapsed, target})
    <3>1. /\ elapsed = b.finish - started /\ elapsed \in Nat
          /\ most = IF elapsed <= target THEN elapsed ELSE target
          /\ b.energy < most => b.reason = "balance_exhausted" /\ b.amount = b.budget
      BY EndedMeans
    <3> HIDE DEF elapsed, most
    <3> QED
      BY <3>1 DEF elapsed
  <2> QED
    BY <1>1, <1>2, <2>1, <2>2
<1>4. a.energy <= b.energy
  <2>1. ASSUME b.energy < a.energy PROVE FALSE
    <3>1. b.energy + 1 <= a.energy /\ b.energy + 1 \in Nat
      BY <1>1, <2>1
    <3>2. Cost(b.energy + 1) <= Cost(a.energy)
      <4> DEFINE e == b.energy + 1
      <4>1. e \in Nat /\ e <= a.energy
        BY <3>1
      <4> HIDE DEF e
      <4>2. Cost(e) <= Cost(a.energy)
        BY <1>1, <4>1, CostGrows
      <4> QED
        BY <4>2 DEF e
    <3>3. Cost(b.energy + 1) = Cost(b.energy) + Price(started + b.energy)
      BY <1>1, CostIs
    <3>4. Price(started + b.energy) \in Nat /\ Price(started + b.energy) > 0
      BY <1>1, PriceIs
    <3> QED
      BY <1>1, <1>2, <1>3, <2>1, <3>2, <3>3, <3>4
  <2> QED
    BY <1>1, <2>1
<1>5. a.amount <= b.amount
  BY <1>1, <1>2, <1>4, CostGrows
<1>6. Money(a.amount) <= Money(b.amount)
  BY <1>1, <1>5, MoneyGrows
<1>7. /\ Answer(a).energy = a.energy /\ Answer(a).amount = Money(a.amount)
      /\ Answer(b).energy = b.energy /\ Answer(b).amount = Money(b.amount)
      /\ Answer(a).cap = a.reason
  BY AnswerIs
<1>8. ASSUME a.reason = "target_reached"
      PROVE  [Answer(b) EXCEPT !.finish = Answer(a).finish, !.budget = Answer(a).budget]
               = Answer(a)
  <2>1. a.energy = target /\ b.energy = target /\ b.amount = a.amount /\ b.amount < b.budget
    BY <1>1, <1>2, <1>4, <1>8
  <2>2. b.reason = "target_reached"
    <3>1. b.reason # None
      BY <1>1, <2>1 DEF RunOk, GoesOn
    <3> QED
      BY <1>1, <1>2, <2>1, <3>1
  <2>3. a.detail = b.detail
    BY <1>1, <1>2, <2>1, DetailIsOne
  <2>4. /\ Answer(a).detail = Answer(b).detail /\ Answer(a).finish = a.finish
        /\ Answer(a).budget = a.budget /\ Answer(b).cap = b.reason
    BY <2>1, <2>3, AnswerIs
  <2> DEFINE x == Answer(a)
             y == Answer(b)
  <2>5. /\ x = [energy |-> x.energy, amount |-> x.amount, cap |-> x.cap, detail |-> x.detail,
                finish |-> x.finish, budget |-> x.budget]
        /\ y = [energy |-> y.energy, amount |-> y.amount, cap |-> y.cap, detail |-> y.detail,
                finish |-> y.finish, budget |-> y.budget]
    BY DEF Answer
  <2>6. /\ x.energy = y.energy /\ x.amount = y.amount /\ x.cap = y.cap /\ x.detail = y.detail
    BY <1>7, <1>8, <2>1, <2>2, <2>4
  <2> HIDE DEF x, y
  <2>7. [y EXCEPT !.finish = x.finish, !.budget = x.budget] = x
    BY <2>5, <2>6
  <2> QED
    BY <2>7 DEF x, y
<1>9. Money(a.amount) \in Nat /\ Money(b.amount) \in Nat
  BY <1>1, MoneyIs
<1> QED
  BY <1>1, <1>4, <1>6, <1>7, <1>8, <1>9

\* The energy and the amount that live readings show are never taken back by a later
\* reading, by stop or by the coordinator, and a reached target settles them.
THEOREM ReadingsGrow == Spec => ReadingsOnlyGrow
<1> DEFINE Grow == bill # None =>
             /\ bill'.energy >= bill.energy /\ bill'.amount >= bill.amount
             /\ bill.cap = "target_reached" =>
                  [bill' EXCEPT !.finish = bill.finish, !.budget = bill.budget] = bill
<1>1. MeterInv /\ [Next]_vars => [Grow]_vars
  <2> SUFFICES ASSUME MeterInv, Next, bill # None PROVE Grow
    BY DEF vars
  <2>1. PICK a \in Runs : /\ RunOk(a) /\ Ended(a) /\ bill = Answer(a)
                          /\ a.finish <= Max({started, now}) /\ a.budget <= budget
    BY DEF MeterInv
  <2>2. OrderOk
    BY DEF MeterInv
  <2>3. CASE bill' = bill
    <3>1. Answer(a).energy >= Answer(a).energy /\ Answer(a).amount >= Answer(a).amount
          /\ (Answer(a).cap = "target_reached" =>
              [Answer(a) EXCEPT !.finish = Answer(a).finish, !.budget = Answer(a).budget]
                = Answer(a))
      <4>1. a.finish <= a.finish /\ a.budget <= a.budget
        BY DEF Runs
      <4> QED
        BY <2>1, <2>2, <4>1, LaterAnswer
    <3> QED
      BY <2>1, <2>3, <3>1
  <2>4. CASE Return
    <3>1. run # None /\ ~Looping /\ bill' = Answer(run)
      BY <2>4 DEF Return
    <3>2. PICK b \in Runs :
            run = b /\ RunOk(b) /\ b.finish = Max({started, now}) /\ b.budget = budget
      BY <3>1 DEF MeterInv
    <3>3. Ended(b)
      <4>1. b.cursor \in Nat /\ b.finish \in Nat
        BY DEF Runs
      <4> QED
        BY <3>1, <3>2, <4>1 DEF Looping, Ended
    <3>4. bill' = Answer(b) /\ a.finish <= b.finish /\ a.budget <= b.budget
      BY <2>1, <3>1, <3>2
    <3> QED
      BY <2>1, <2>2, <3>2, <3>3, <3>4, LaterAnswer
  <2>5. Call \/ Deliver => bill' = bill
    BY DEF Call, Deliver, Begin
  <2> QED
    BY <2>3, <2>4, <2>5 DEF Next
<1> QED
  BY <1>1, MeterInvariant, PTL DEF Spec, ReadingsOnlyGrow
=============================================================================
