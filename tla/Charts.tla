--------------------------------- MODULE Charts ---------------------------------
(***************************************************************************)
(* What the pages draw: shares, scales, buckets and windows of the rows    *)
(* they have read.  Colours, wording and pixels are left out; a length is  *)
(* a part of a whole, and a slice lies between two sums.                   *)
(*                                                                         *)
(* The rows are made up one after the other: figures (a charger count of a *)
(* station, the energy of a day, an hour or an area, a price), the days of *)
(* the history with the energy of each hour, the events of the audit log,  *)
(* or the states of orders.                                                *)
(***************************************************************************)
EXTENDS Totals, Sequences, FiniteSetsExt

CONSTANTS
  Amounts,      \* what a figure can be
  MaxFigures,   \* bound on the figures
  Cold,         \* how far below zero the temperatures reach
  DayHours,     \* the energies of the hours of a day
  MaxDays,      \* bound on the days
  Ranges,       \* how many days the market chart shows: 30, 90 or 181 in the code
  Times,        \* when an event can happen, in hours
  MaxEvents,    \* bound on the events
  MaxOrders     \* bound on the orders

ASSUME ChartsAssumption ==
  /\ Amounts \subseteq Nat /\ Times \subseteq Nat /\ Cold \in Nat
  /\ DayHours \subseteq Seq(Nat) \ {<<>>} /\ Ranges \subseteq Nat \ {0}
  /\ {MaxFigures, MaxDays, MaxEvents, MaxOrders} \subseteq Nat

VARIABLES figures, days, events, orders

chartVars == <<figures, days, events, orders>>

Areas == {"order", "wallet", "charger", "user"}
Statuses == {"reserved", "charging", "pending_payment", "completed", "cancelled"}

ChartsInit == figures = <<>> /\ days = <<>> /\ events = <<>> /\ orders = <<>>

NextFigure ==
  /\ days = <<>> /\ events = <<>> /\ orders = <<>> /\ Len(figures) < MaxFigures
  /\ \E a \in Amounts : figures' = Append(figures, a)
  /\ UNCHANGED <<days, events, orders>>

NextDay ==
  /\ figures = <<>> /\ events = <<>> /\ orders = <<>> /\ Len(days) < MaxDays
  /\ \E hours \in DayHours : days' = Append(days, hours)
  /\ UNCHANGED <<figures, events, orders>>

NextEvent ==
  /\ figures = <<>> /\ days = <<>> /\ orders = <<>> /\ Len(events) < MaxEvents
  /\ \E a \in Areas, t \in Times : events' = Append(events, [area |-> a, time |-> t])
  /\ UNCHANGED <<figures, days, orders>>

NextOrder ==
  /\ figures = <<>> /\ days = <<>> /\ events = <<>> /\ Len(orders) < MaxOrders
  /\ \E s \in Statuses : orders' = Append(orders, s)
  /\ UNCHANGED <<figures, days, events>>

ChartsStep == NextFigure \/ NextDay \/ NextEvent \/ NextOrder
-----------------------------------------------------------------------------
(* Shares and scales. *)

Sum(v) == SumTo(v, Len(v))
Among(v) == {v[i] : i \in DOMAIN v}
Top(v, n) == SubSeq(v, 1, Min({n, Len(v)}))
Final(v, n) == SubSeq(v, Max({1, Len(v) - n + 1}), Len(v))
CountOf(v, Test(_)) == Cardinality({i \in DOMAIN v : Test(v[i])})
AtLeast(v, x) == CountOf(v, LAMBDA n : n >= x)

\* sort((a, b) => b - a): at place i is what i figures reach, and fewer exceed.
Ranked(v) ==
  [i \in DOMAIN v |-> CHOOSE x \in Among(v) : AtLeast(v, x + 1) < i /\ i <= AtLeast(v, x)]

Peak(v) == Max(Among(v) \cup {1})

Bars(v) == [i \in DOMAIN v |-> [part |-> v[i], whole |-> Peak(v)]]

\* A conic gradient: each slice begins where the one before it ends.
Slices(v) == [i \in DOMAIN v |-> [from |-> SumTo(v, i - 1), to |-> SumTo(v, i)]]

\* line(), activityArea, renderTrend, renderRevenue: the axis holds zero.
Curve(v) ==
  LET low == Min(Among(v) \cup {0})
  IN  [i \in DOMAIN v |-> [across |-> i - 1, width |-> Max({Len(v) - 1, 1}),
                           part |-> v[i] - low, whole |-> Peak(v) - low]]
-----------------------------------------------------------------------------
(* Stations (dashboard.js, dashboard-details.js). *)

\* renderDeviceDistribution: the four largest, and all the others together.
DeviceGroups(v) ==
  LET rank == Ranked(v) IN Append(Top(rank, 4), Sum(SubSeq(rank, 5, Len(rank))))

\* Mutant: twenty chargers count as nineteen do.
ScaleTooWide(v) ==
  <<CountOf(v, LAMBDA n : n >= 20), CountOf(v, LAMBDA n : n \in 10 .. 20),
    CountOf(v, LAMBDA n : n \in 5 .. 9), CountOf(v, LAMBDA n : n < 5)>>

\* renderScale
Scale(v) ==
  <<CountOf(v, LAMBDA n : n >= 20), CountOf(v, LAMBDA n : n \in 10 .. 19),
    CountOf(v, LAMBDA n : n \in 5 .. 9), CountOf(v, LAMBDA n : n < 5)>>

\* renderRankings: one list ranked by chargers, drawn as three.
Rankings(v, profile) ==
  LET top == Top(Ranked(v), 5)
  IN  [ranking |-> Bars(top), hours |-> Bars(Top(Ranked(profile), 5)), shares |-> top]

\* The pointer over renderTrend: the nearest hour (Math.round, and clamped).
Clamp(i, n) == Max({0, Min({n - 1, i})})
TrendReadout(p, n) == Clamp((2 * (p - 39) * (n - 1) + 853) \div (2 * 853), n)
-----------------------------------------------------------------------------
(* The history (dashboard-analytics.js). *)

\* A day as import_urbanev.py sums it up: open and close are its first and last hour.
Candle(hours) ==
  [energy |-> Sum(hours), open |-> hours[1], close |-> hours[Len(hours)],
   high |-> Max(Among(hours)), low |-> Min(Among(hours))]

Candles == [i \in DOMAIN days |-> Candle(days[i])]

\* The energy of each month in turn; a month has three days here.
Monthly(v) == [m \in 1 .. (Len(v) + 2) \div 3 |->
                 Sum(SubSeq(v, 3 * m - 2, Min({3 * m, Len(v)})))]

Offset(view) == CASE view = "stations" -> 6 [] view = "orders" -> 12 [] OTHER -> 0
Views == {"overview", "stations", "orders"}

\* cards(): areas come ranked; hour, day and area are the figures here, and the
\* temperatures what is left of them when it is cold.
Cards(view, v) ==
  LET rank == SubSeq(Ranked(v), Offset(view) + 1, Len(v))
  IN  [curves |-> {Curve(v), Curve([i \in DOMAIN v |-> v[i] - Cold])},
       bars   |-> {Bars(Top(rank, 6)), Bars(Final(v, 42)), Bars(Final(v, 168)),
                   Bars(Monthly(v)), Bars([k \in 1 .. (Len(v) + 3) \div 4 |-> v[4 * k - 3]]),
                   Bars(Top(rank, 32))}]

\* The scale of chart(), in hundredths: from 0.85 of the lowest of the days d to 1.08
\* of the highest.
Lowest(d) == Min(Among([i \in DOMAIN d |-> d[i].low]))
Highest(d) == Max(Among([i \in DOMAIN d |-> d[i].high]))
Height(d, sum, of) == [part  |-> 100 * sum - 85 * (of * Lowest(d)),
                       whole |-> 108 * (of * Highest(d)) - 85 * (of * Lowest(d))]

\* Mutant: the average of n days though there are fewer.
AverageOfAll(d, n, i) ==
  LET recent == SubSeq(d, Max({1, i - n + 1}), i)
  IN  [sum |-> Sum([k \in DOMAIN recent |-> recent[k].close]), of |-> n]

\* ma(n)
MovingAverage(d, n, i) ==
  LET recent == SubSeq(d, Max({1, i - n + 1}), i)
  IN  [sum |-> Sum([k \in DOMAIN recent |-> recent[k].close]), of |-> Min({i, n})]

\* The pointer over the market chart: the day in whose column it is.
MarketReadout(p, n) == Clamp(((p - 58) * n) \div 860, n)

\* The days drawn of all, at equal steps and at most n of them.
Step(v, n) == (Len(v) + n - 1) \div n
Sampled(v, n) == {i \in DOMAIN v : (i - 1) % Step(v, n) = 0}

\* flowChart: three columns, of the last three months, in hundredths of the best
\* one, each stacked of four parts.  (Of fewer months it draws none: it throws.)
Percent(n, of) == (200 * n + of) \div (2 * of)
Flow(v) ==
  LET months == Monthly(v)
  IN  [j \in 1 .. 3 |-> Percent(months[Len(months) - 3 + j], Max(Among(months)))]
Stacked(t) == Slices(<<27 * t, 31 * t, 27 * t, 15 * t>>)
-----------------------------------------------------------------------------
(* The mobile page (mobile-reference.js). *)

\* tariffs(): thirds of the way from the lowest price to the highest.
Tier(v, p) ==
  LET low == Min(Among(v))
      high == Max(Among(v))
  IN  IF 3 * p < 3 * low + (high - low) THEN "low"
      ELSE IF 3 * p > 3 * low + 2 * (high - low) THEN "high" ELSE "mid"

Tariffs(v, mode) == {i \in DOMAIN v : mode = "all" \/ Tier(v, v[i]) = mode}

\* statistics(): bars for the days d that are sampled, in hundredths of 1.12 of the
\* highest of them, ...
Statistics(d) ==
  LET drawn == Sampled(d, 7)
      best  == Max({d[i].high : i \in drawn})
  IN  [best  |-> best,
       bars  |-> {[part |-> 100 * h, whole |-> 112 * best] :
                    h \in UNION {{d[i].open, d[i].high, d[i].close} : i \in drawn}},
       count |-> Cardinality(drawn)]

\* ... and the three areas of the most energy.
Leaders(v) == LET rank == Top(Ranked(v), 3)
              IN  [i \in DOMAIN rank |-> [part |-> rank[i], whole |-> rank[1]]]
-----------------------------------------------------------------------------
(* Orders and events (admin-activity.js, dashboard-details.js). *)

Named == <<"completed", "charging", "reserved", "cancelled">>
Mix(v) == [i \in 1 .. 4 |-> CountOf(v, LAMBDA s : s = Named[i])]

\* activityDonut, for the session mix: parts of the sum of the four.
SessionMix(v) == Slices(Mix(v))

\* renderOrderState: parts of all the orders; a gradient goes on to the end of the
\* ring in its last colour, that of the cancelled.
OrderRing(v) == [Slices(Mix(v)) EXCEPT ![4].to = Len(v)]

\* activityHistoryCharts: three areas, and the rest.
Operations(v, rows) ==
  [i \in 1 .. 4 |-> Cardinality({e \in rows :
     IF i = 4 THEN v[e].area \notin {"order", "wallet", "charger"}
     ELSE v[e].area = <<"order", "wallet", "charger">>[i]})]

DayOf(t) == t \div 24

\* activityDays: count days up to the newest row's, each with its rows.
Days(v, count) ==
  LET last == Max({DayOf(e.time) : e \in Among(v)})
  IN  [d \in last - count + 1 .. last |-> {i \in DOMAIN v : DayOf(v[i].time) = d}]

\* The columns of the last days, each stacked of the four groups.
DayStacks(v, recent) ==
  LET busiest == Max({Cardinality(recent[d]) : d \in DOMAIN recent} \cup {1})
  IN  [d \in DOMAIN recent |-> [groups |-> Slices(Operations(v, recent[d])),
                                whole  |-> busiest]]

\* The weekday and the two hours an event falls into.
Heat(v) == [c \in (0 .. 6) \X (0 .. 11) |->
              CountOf(v, LAMBDA e : c = <<DayOf(e.time) % 7, (e.time % 24) \div 2>>)]
-----------------------------------------------------------------------------
Closes(pie, total) ==
  /\ \A i \in DOMAIN pie : pie[i].from = (IF i = 1 THEN 0 ELSE pie[i - 1].to)
                           /\ pie[i].from <= pie[i].to
  /\ pie # <<>> => pie[Len(pie)].to = total

Fits(b) == b.whole > 0 /\ b.part \in 0 .. b.whole

FlowDrawn == Sum(figures) > 0 /\ Len(Monthly(figures)) >= 3

FiguresAddUp ==
  /\ Closes(Slices(DeviceGroups(figures)), Sum(figures))
  /\ Sum(Scale(figures)) = Len(figures)
  /\ Sum(Monthly(figures)) = Sum(figures)
  /\ LET low == Tariffs(figures, "low")
         high == Tariffs(figures, "high")
     IN  /\ \A i \in low, j \in DOMAIN figures \ low : figures[i] < figures[j]
         /\ \A i \in high, j \in DOMAIN figures \ high : figures[i] > figures[j]
         /\ (low = {} \/ high = {}) => Cardinality(Among(figures)) = 1
  /\ Sum(Rankings(figures, figures).shares) <= Sum(figures)
  /\ FlowDrawn => \A t \in Among(Flow(figures)) : Closes(Stacked(t), 100 * t)

EventsAddUp ==
  /\ Sum(Operations(events, DOMAIN events)) = Len(events)
  /\ Total(Heat(events), DOMAIN Heat(events)) = Len(events)
  /\ \A count \in {7, 14} :
       LET recent == Days(events, count)
       IN  \A i \in DOMAIN events :
             Cardinality({d \in DOMAIN recent : i \in recent[d]})
               = IF DayOf(events[i].time) \in DOMAIN recent THEN 1 ELSE 0

Part(slice) == slice.to - slice.from

OrdersAddUp ==
  LET unnamed == CountOf(orders, LAMBDA s : s = "pending_payment")
  IN  /\ Closes(SessionMix(orders), Len(orders) - unnamed)
      /\ Closes(OrderRing(orders), Len(orders))
      /\ \A i \in 1 .. 4 :
           Part(OrderRing(orders)[i]) = Mix(orders)[i] + IF i = 4 THEN unnamed ELSE 0

\* Every pie is closed and every row counted once: the slices of a pie meet and
\* end at the sum of what was read, each station is in one class of size, each
\* day in one month, each event in one group, one field of the week and, when it is
\* recent enough, one of the last days; the hours called cheap or dear are cheaper
\* or dearer than all the others, and there are such hours unless all cost the
\* same.  Orders whose payment is pending have no slice: the donut of the console
\* closes without them, and the ring of the dashboard, which counts them in the
\* whole, shows them as cancelled, beside a legend that does not.
ChartsAddUp ==
  /\ figures # <<>> => FiguresAddUp
  /\ events # <<>> => EventsAddUp
  /\ OrdersAddUp

CurveFits(c) ==
  \A i \in DOMAIN c : Fits(c[i]) /\ Fits([part |-> c[i].across, whole |-> c[i].width])
CardsFit(cards) ==
  /\ \A c \in cards.curves : CurveFits(c)
  /\ \A v \in cards.bars : \A b \in Among(v) : Fits(b)

Pointers == {0, 39, 58, 273, 488, 500, 917, 960}
DaysFit(d) ==
  \A i \in DOMAIN d :
    /\ \A h \in {d[i].open, d[i].close, d[i].low, d[i].high} : Fits(Height(d, h, 1))
    /\ Fits([part |-> d[i].energy, whole |-> Max(Among([k \in DOMAIN d |-> d[k].energy]))])
AveragesFit(d) ==
  \A i \in DOMAIN d, span \in {5, 20} :
    LET a == MovingAverage(d, span, i) IN Fits(Height(d, a.sum, a.of))
MarketUnder(p, n) ==
  /\ MarketReadout(p, n) \in 0 .. n - 1
  /\ p \in 58 .. 917 => (p - 58) * n - 860 * MarketReadout(p, n) \in 0 .. 859
TrendUnder(p, n) ==
  /\ TrendReadout(p, n) \in 0 .. n - 1
  /\ p \in 39 .. 892 =>
       2 * ((p - 39) * (n - 1) - 853 * TrendReadout(p, n)) \in -853 .. 853
PointersFit(n) == \A p \in Pointers : MarketUnder(p, n) /\ TrendUnder(p, n)
MarketFits(d) ==
  /\ Highest(d) > 0 => DaysFit(d) /\ AveragesFit(d)
  /\ PointersFit(Len(d)) /\ Cardinality(Sampled(d, 6)) <= 6
StatisticsFit(d) ==
  /\ d.count <= 7
  /\ d.best > 0 => \A b \in d.bars : Fits(b)

FiguresInFrame ==
  /\ \A view \in Views : CardsFit(Cards(view, figures))
  /\ Sum(figures) > 0 => \A b \in Among(Leaders(figures)) : Fits(b)
  /\ FlowDrawn => \A t \in Among(Flow(figures)) : t \in 0 .. 100

DaysInFrame ==
  /\ \A range \in Ranges : MarketFits(Final(Candles, range))
  /\ StatisticsFit(Statistics(Candles)) /\ StatisticsFit(Statistics(Final(Candles, 31)))

EventsInFrame ==
  LET recent == Days(events, 14)
      stacks == DayStacks(events, recent)
  IN  \A d \in DOMAIN stacks : Closes(stacks[d].groups, Cardinality(recent[d]))
                               /\ stacks[d].groups[4].to <= stacks[d].whole

\* Whatever the rows are, zero and equal ones, days that fall as well as rise, and
\* temperatures below zero, nothing is drawn outside its frame: bars, curves,
\* candles, their averages (of the first days too, which have fewer before them)
\* and stacked days keep to the scale, no more labels and bars are drawn than there
\* is room for, and the day or hour read out is the one under the pointer.  (When
\* there is no energy at all the charts of the history have no scale, nor has the
\* one of the statistics when the days it samples have none.)
ChartsInFrame ==
  /\ figures # <<>> => FiguresInFrame
  /\ days # <<>> => DaysInFrame
  /\ events # <<>> => EventsInFrame
=============================================================================
