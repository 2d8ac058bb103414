------------------------------ MODULE PagesProofs ------------------------------
(***************************************************************************)
(* Panels that agree with what they name: the forecast is of the area in   *)
(* the selector, the dashboard draws one snapshot and keeps its history,   *)
(* the record explained is the one marked, the station and charger asked   *)
(* for are the ones named on the screen, and the drawer of the console     *)
(* shows what the page knows.  A form of the console makes one entry.      *)
(*                                                                         *)
(* Then the charts, for any number of rows and any figures.  What a pie    *)
(* ends at is a sum; the ranked list has the sum of the other, since cut   *)
(* off at any height the two have the same; whatever is sorted into        *)
(* classes that share nothing is counted once.                             *)
(***************************************************************************)
EXTENDS ConsolePage, Forecast, DashboardPage, ActivityView, MobileBrowse, Charts,
        TotalsProofs, NaturalsInduction, SequenceTheorems

\* Requests are numbered as they are sent; the newest one asks for what the
\* selector holds, and while the panel is loading it is still in flight.
ForecastInv ==
  /\ forecastRequest \in Nat /\ scope \in Scopes /\ filled \in BOOLEAN
  /\ asked \subseteq (Nat \X Scopes)
  /\ \A r \in asked : r[1] <= forecastRequest /\ (r[1] = forecastRequest => r[2] = scope)
  /\ panel = "loading" => forecastRequest = 0 \/ <<forecastRequest, scope>> \in asked
  /\ panel \in Notices \cup {scope}

\* The page as it is opened.
LEMMA ForecastStarts == ForecastInit => ForecastInv
<1>1. First \in Scopes
  BY ForecastAssumption DEF First
<1> SUFFICES ASSUME ForecastInit
             PROVE  ForecastInv
  OBVIOUS
<1>2. forecastRequest = 0 /\ scope \in Scopes /\ filled \in BOOLEAN /\ panel \in Notices
  BY <1>1 DEF ForecastInit, Notices
<1>3. asked \subseteq (Nat \X Scopes) /\ \A r \in asked : FALSE
  BY DEF ForecastInit
<1> QED
  BY <1>2, <1>3 DEF ForecastInv

\* A new request takes over the panel.
LEMMA ForecastAsks ==
  ASSUME ForecastInv, NEW s \in Scopes, RenderForecast(s), scope' = s, filled' \in BOOLEAN
  PROVE  ForecastInv'
<1>1. /\ forecastRequest' = forecastRequest + 1 /\ forecastRequest \in Nat
      /\ asked' = asked \cup {<<forecastRequest', s>>}
      /\ asked \subseteq (Nat \X Scopes)
  BY DEF RenderForecast, ForecastInv
<1>2. \A r \in asked' : r[1] <= forecastRequest' /\ (r[1] = forecastRequest' => r[2] = s)
  <2> TAKE r \in asked'
  <2>1. CASE r \in asked
    <3>1. r[1] \in Nat /\ r[1] <= forecastRequest
      BY <1>1, <2>1 DEF ForecastInv
    <3> QED
      BY <1>1, <3>1
  <2>2. CASE r = <<forecastRequest', s>>
    BY <1>1, <2>2
  <2> QED
    BY <1>1, <2>1, <2>2
<1>3. asked' \subseteq (Nat \X Scopes)
  BY <1>1
<1>4. panel' = "loading" /\ <<forecastRequest', scope'>> \in asked'
  BY <1>1 DEF RenderForecast
<1> QED
  BY <1>1, <1>2, <1>3, <1>4 DEF ForecastInv, Notices

\* An answer, or a failure, leaves the panel alone unless it is the newest.
LEMMA ForecastAnswers ==
  ASSUME ForecastInv, NEW r \in asked,
         ForecastAnswered(r[1], r[2]) \/ ForecastFailed(r[1], r[2])
  PROVE  ForecastInv'
<1>0. PICK q \in Nat, s \in Scopes : r = <<q, s>>
  BY DEF ForecastInv
<1>1. /\ r[1] = q /\ r[2] = s /\ r = <<r[1], r[2]>>
      /\ asked' = asked \ {r} /\ forecastRequest' = forecastRequest
  BY <1>0 DEF ForecastAnswered, ForecastFailed
<1>2. CASE Newest(r[1])
  <2>1. r[2] = scope /\ r[1] = forecastRequest
    BY <1>2 DEF Newest, ForecastInv
  <2>2. scope' = scope /\ filled' \in BOOLEAN /\ panel' \in {scope, "not ready", "failed"}
    BY <1>2, <2>1 DEF ForecastAnswered, ForecastFailed, Show, ForecastInv
  <2>3. panel' # "loading"
    BY <2>2, ForecastAssumption DEF Notices, ForecastInv
  <2> QED
    BY <1>1, <2>2, <2>3 DEF ForecastInv, Notices
<1>3. CASE ~Newest(r[1])
  <2>1. UNCHANGED <<panel, scope, filled>>
    BY <1>3 DEF ForecastAnswered, ForecastFailed
  <2>2. <<forecastRequest, scope>> # r
    BY <1>1, <1>3 DEF Newest
  <2> QED
    BY <1>1, <2>1, <2>2 DEF ForecastInv, Notices
<1> QED
  BY <1>2, <1>3

\* Every step of the page.
LEMMA ForecastKeeps == ForecastInv /\ [ForecastStep]_forecastVars => ForecastInv'
<1> SUFFICES ASSUME ForecastInv, [ForecastStep]_forecastVars
             PROVE  ForecastInv'
  OBVIOUS
<1>1. CASE OpenForecast
  BY <1>1, ForecastAsks DEF OpenForecast, ForecastInv
<1>2. ASSUME NEW s \in Scopes, ChooseScope(s)
      PROVE  ForecastInv'
  BY <1>2, ForecastAsks DEF ChooseScope, ForecastInv
<1>3. ASSUME NEW r \in asked, ForecastAnswered(r[1], r[2]) \/ ForecastFailed(r[1], r[2])
      PROVE  ForecastInv'
  BY <1>3, ForecastAnswers
<1>4. CASE UNCHANGED forecastVars
  BY <1>4 DEF forecastVars, ForecastInv, Notices
<1> QED
  BY <1>1, <1>2, <1>3, <1>4 DEF ForecastStep

\* For any areas and any number of requests in flight the panel shows a notice or
\* the forecast of the area the selector names, and does not load for ever
\* (renderForecast drops the answers of older requests).
THEOREM ForecastIsOfScope ==
  ForecastInit /\ [][ForecastStep]_forecastVars => []ForecastMatchesScope
<1>1. ForecastInv => ForecastMatchesScope
  BY DEF ForecastInv, ForecastMatchesScope
<1> QED
  BY <1>1, ForecastStarts, ForecastKeeps, PTL

-----------------------------------------------------------------------------

\* What select() is given of a known station is what the list says of it.
LEMMA SelectedIsOfRows ==
  ASSUME NEW rows, NEW id \in Existing(rows)
  PROVE  Selected(rows, id).id = id /\ Selected(rows, id).free = rows[id]
  BY DEF Selected

\* However the selection was kept, the card that renderMap leaves is of the rows it
\* was given.
LEMMA RedrawnIsOfRows ==
  ASSUME NEW rows, NEW kept, Existing(rows) # {}
  PROVE  /\ Redrawn(rows, kept).id \in Existing(rows)
         /\ Redrawn(rows, kept).free = rows[Redrawn(rows, kept).id]
<1>1. CASE kept \in Existing(rows)
  <2>1. Redrawn(rows, kept) = Selected(rows, kept)
    BY <1>1 DEF Redrawn
  <2> QED
    BY <1>1, <2>1, SelectedIsOfRows
<1>2. CASE kept \notin Existing(rows)
  <2> DEFINE other == CHOOSE s \in Existing(rows) : TRUE
  <2>1. other \in Existing(rows)
    OBVIOUS
  <2>2. Redrawn(rows, kept) = Selected(rows, other)
    BY <1>2 DEF Redrawn, Replacement
  <2> HIDE DEF other
  <2> QED
    BY <2>1, <2>2, SelectedIsOfRows
<1> QED
  BY <1>1, <1>2

\* The steps that touch the list, the selection or the card.
LEMMA SnapshotKept == SameSnapshot /\ [DashboardStep]_dashboardVars => SameSnapshot'
<1> SUFFICES ASSUME SameSnapshot, [DashboardStep]_dashboardVars
             PROVE  SameSnapshot'
  OBVIOUS
<1>1. ASSUME NEW s \in Sites, SelectSite(s)
      PROVE  SameSnapshot'
  <2>1. /\ s \in Existing(table) /\ table' = table
        /\ chosen' = s /\ card' = Selected(table, s)
    BY <1>1 DEF SelectSite
  <2>2. card'.id = s /\ card'.free = table[s]
    BY <2>1, SelectedIsOfRows
  <2>3. Existing(table)' = Existing(table)
    BY <2>1 DEF Existing
  <2> QED
    BY <2>1, <2>2, <2>3 DEF SameSnapshot
<1>2. ASSUME NEW f \in Flights, DrawRefresh(f)
      PROVE  SameSnapshot'
  <2>1. PICK kept \in Kept(table') : card' = Redrawn(table', kept)
    BY <1>2 DEF DrawRefresh
  <2>2. chosen' = card'.id
    BY <1>2 DEF DrawRefresh
  <2>3. Existing(table)' = Existing(table')
    BY DEF Existing
  <2>4. CASE Existing(table') # {}
    <3>1. card'.id \in Existing(table') /\ card'.free = table'[card'.id]
      BY <2>1, <2>4, RedrawnIsOfRows
    <3> QED
      BY <2>2, <2>3, <3>1 DEF SameSnapshot
  <2> QED
    BY <2>3, <2>4 DEF SameSnapshot
<1>3. CASE UNCHANGED <<table, chosen, card>>
  BY <1>3 DEF SameSnapshot, Existing
<1>4. ASSUME NEW f \in Flights, ReadPublic(f) \/ ReadOrders(f) \/ BreakRefresh(f)
      PROVE  SameSnapshot'
  BY <1>3, <1>4 DEF ReadPublic, ReadOrders, BreakRefresh, drawnVars
<1>5. CASE StartRefresh \/ Login \/ Disconnect \/ ExpireToken \/ ServerChanges
  BY <1>3, <1>5 DEF StartRefresh, Login, Disconnect, ExpireToken, ServerChanges, drawnVars
<1>6. CASE SessionAnswered \/ DatasetRefused \/ DatasetAnswered
  BY <1>3, <1>6 DEF SessionAnswered, DatasetRefused, DatasetAnswered, drawnVars
<1>7. CASE UNCHANGED dashboardVars
  BY <1>3, <1>7 DEF dashboardVars
<1> QED
  BY <1>1, <1>2, <1>4, <1>5, <1>6, <1>7 DEF DashboardStep

\* Nothing a refresh of the dashboard writes to, and no caption of the history, is
\* left out when the history is laid over the page.
LEMMA SyncCovers == RefreshDraws \subseteq SyncDraws /\ SyncLabels \subseteq SyncDraws
  BY DEF RefreshDraws, SyncDraws, SyncLabels

\* After sync() with the history there each tile both scripts write to shows it, and
\* each caption speaks of it, whatever had been drawn before.
LEMMA SyncKeeps ==
  ASSUME NEW f, Sync("ready", f)
  PROVE  /\ \A t \in SyncLabels : t \in relabelled' <=> figure'[t] = "history"
         /\ \A t \in Tiles : figure'[t] = "history"
<1>1. figure' = Redrawing(f, SyncDraws, "history") /\ relabelled' = SyncLabels
  BY DEF Sync
<1>2. ASSUME NEW t \in Tiles
      PROVE  figure'[t] = "history"
  BY <1>1, <1>2, SyncCovers DEF Redrawing, Tiles
<1> QED
  BY <1>1, <1>2, SyncCovers DEF Tiles

\* The dataset comes with the last answer that is waited for.
HistoryInv == HistoryKept /\ (asking # "nothing" => dataset = None)

\* Each drawing of a refresh is followed by sync(), which leaves none of what it wrote
\* once the history is there, and does nothing before.
LEMMA HistoryStays == HistoryInv /\ [DashboardStep]_dashboardVars => HistoryInv'
<1> SUFFICES ASSUME HistoryInv, [DashboardStep]_dashboardVars
             PROVE  HistoryInv'
  OBVIOUS
<1>1. ASSUME NEW f \in Flights, DrawRefresh(f)
      PROVE  HistoryInv'
  <2>1. dataset' = dataset /\ asking' = asking
    BY <1>1 DEF DrawRefresh, history
  <2>2. Sync(dataset, Redrawing(figure, RefreshDraws, "live"))
    BY <1>1 DEF DrawRefresh
  <2>3. CASE dataset = "ready"
    BY <2>1, <2>2, <2>3, SyncKeeps DEF HistoryInv, HistoryKept
  <2>4. CASE dataset # "ready"
    <3>1. /\ figure' = Redrawing(figure, RefreshDraws, "live")
          /\ relabelled' = relabelled
      BY <2>2, <2>4 DEF Sync
    <3>2. \A t \in Tiles : figure[t] # "history" /\ figure'[t] # "history"
      BY <2>4, <3>1 DEF HistoryInv, HistoryKept, Redrawing
    <3>3. SyncLabels \subseteq Tiles
      BY SyncCovers DEF Tiles
    <3> QED
      BY <2>1, <2>4, <3>1, <3>2, <3>3 DEF HistoryInv, HistoryKept
  <2> QED
    BY <2>3, <2>4
<1>2. CASE DatasetAnswered
  <2>1. CASE dataset' = "ready" /\ Sync("ready", figure)
    BY <1>2, <2>1, SyncKeeps DEF DatasetAnswered, HistoryInv, HistoryKept
  <2>2. CASE dataset' = "empty" /\ UNCHANGED tiles
    <3>1. dataset # "ready" /\ asking' = "nothing"
      BY <1>2, DashboardAssumption DEF DatasetAnswered, HistoryInv
    <3> QED
      BY <2>2, <3>1 DEF HistoryInv, HistoryKept, tiles
  <2>3. CASE UNCHANGED <<dataset, tiles>>
    BY <1>2, <2>3 DEF DatasetAnswered, HistoryInv, HistoryKept, tiles
  <2> QED
    BY <1>2, <2>1, <2>2, <2>3 DEF DatasetAnswered, tiles
<1>3. CASE UNCHANGED <<dataset, asking, tiles>>
  BY <1>3 DEF HistoryInv, HistoryKept, tiles
<1>4. CASE SessionAnswered \/ DatasetRefused
  BY <1>4 DEF SessionAnswered, DatasetRefused, drawnVars, tiles, HistoryInv, HistoryKept
<1>5. CASE StartRefresh \/ Login \/ Disconnect \/ ExpireToken \/ ServerChanges
  BY <1>3, <1>5 DEF StartRefresh, Login, Disconnect, ExpireToken, ServerChanges,
                    drawnVars, history
<1>6. ASSUME NEW f \in Flights, ReadPublic(f) \/ ReadOrders(f) \/ BreakRefresh(f)
      PROVE  HistoryInv'
  BY <1>3, <1>6 DEF ReadPublic, ReadOrders, BreakRefresh, drawnVars, history
<1>7. ASSUME NEW s \in Sites, SelectSite(s)
      PROVE  HistoryInv'
  BY <1>3, <1>7 DEF SelectSite, history
<1>8. CASE UNCHANGED dashboardVars
  BY <1>3, <1>8 DEF dashboardVars, tiles
<1> QED
  BY <1>1, <1>2, <1>4, <1>5, <1>6, <1>7, <1>8 DEF DashboardStep

\* For any stations, any number of refreshes in flight and in whatever order they
\* end, the region panel shows a station of the list the page has, with the figures
\* of that list (the end of renderMap, dashboard-details.js).
THEOREM PanelsShareSnapshot ==
  DashboardInit /\ [][DashboardStep]_dashboardVars => []SameSnapshot
<1>1. DashboardInit => SameSnapshot
  BY DEF DashboardInit, SameSnapshot, Existing, Nowhere
<1> QED
  BY <1>1, SnapshotKept, PTL

\* However many refreshes are drawn, and when the history comes between them, each
\* tile that both scripts write to shows the history when it is there and not
\* before, and no caption of the one is over a figure of the other: what the
\* functions of refresh() write is among what sync() writes again (dashboard.js,
\* dashboard-details.js; sync of dashboard-analytics.js).
THEOREM HistoryRemains ==
  DashboardInit /\ [][DashboardStep]_dashboardVars => []HistoryKept
<1>1. DashboardInit => HistoryInv
  <2>1. SyncLabels \subseteq Tiles
    BY SyncCovers DEF Tiles
  <2> QED
    BY <2>1, DashboardAssumption DEF DashboardInit, HistoryInv, HistoryKept
<1>2. HistoryInv => HistoryKept
  BY DEF HistoryInv
<1> QED
  BY <1>1, <1>2, HistoryStays, PTL
-----------------------------------------------------------------------------
(* The newest of a set of records. *)

\* A list that is not empty has a newest record.
LEMMA NewestExists ==
  ASSUME NEW n \in Nat, NEW rows \in SUBSET (1 .. n), rows # {}
  PROVE  FirstOf(rows) \in rows
<1> DEFINE ages == {a \in 0 .. n : \E l \in rows : a + l = n}
           R == OpToRel(<, Nat)
<1>1. ages \subseteq Nat
  OBVIOUS
<1>2. \A l \in rows : \E a \in ages : a + l = n
  <2> TAKE l \in rows
  <2>1. \E a \in 0 .. n : a + l = n
    <3>1. l \in 1 .. n
      OBVIOUS
    <3>2. n - l \in 0 .. n /\ (n - l) + l = n
      BY <3>1
    <3> QED
      BY <3>2
  <2> QED
    BY <2>1
<1>3. PICK age \in ages : \A other \in ages : ~(<<other, age>> \in R)
  <2>1. ages # {}
    BY <1>2
  <2> HIDE DEF ages
  <2> QED
    BY <1>1, <2>1, NatLessThanWellFounded, WFMin
<1>4. PICK l \in rows : age + l = n
  OBVIOUS
<1>5. \A k \in rows : k <= l
  <2> TAKE k \in rows
  <2>1. PICK a \in ages : a + k = n
    BY <1>2
  <2>2. ~(a < age)
    BY <1>1, <1>3, <2>1, Zenon DEF OpToRel
  <2> QED
    BY <1>1, <1>4, <2>1, <2>2
<1> QED
  BY <1>5 DEF FirstOf

\* What the console knows of the log are records that were written.
ActivityInv ==
  /\ written \in 0 .. Records
  /\ logs \subseteq 1 .. Records
  /\ timeline \subseteq logs
  /\ EventShownIsListed

\* However the list is drawn, the record selected is one of it.
LEMMA TimelineAgrees ==
  ASSUME NEW records \in SUBSET (1 .. Records), NEW filter, NEW selection,
         ActivityTimeline(records, filter, selection)
  PROVE  EventShownIsListed' /\ timeline' \subseteq records
<1> DEFINE rows == Listed(records, filter)
           event == Reselected(rows, selection)
<1>0. Records \in Nat /\ None \notin 1 .. Records
  BY ActivityAssumption
<1>1. rows \subseteq records
  BY DEF Listed
<1>2. /\ eventDetail' = (IF event \in records THEN event ELSE None)
      /\ timeline' = rows /\ marked' = rows \cap {event}
  BY DEF ActivityTimeline
<1>3. CASE rows = {}
  <2>1. event = None
    BY <1>3 DEF Reselected, FirstOf
  <2>2. eventDetail' = None
    BY <1>2, <2>1
  <2> QED
    BY <1>1, <1>2, <1>3, <2>2 DEF EventShownIsListed
<1>4. CASE rows # {}
  <2>1. rows \in SUBSET (1 .. Records)
    BY <1>1
  <2> HIDE DEF rows
  <2>2. event \in rows
    BY <1>0, <1>4, <2>1, NewestExists DEF Reselected
  <2> HIDE DEF event
  <2>3. event # None /\ eventDetail' = event
    BY <1>0, <1>1, <1>2, <2>1, <2>2
  <2> QED
    BY <1>1, <1>2, <2>2, <2>3 DEF EventShownIsListed
<1> QED
  BY <1>3, <1>4

\* Whatever the page does, the timeline and the detail agree.
LEMMA ActivityKeeps == ActivityInv /\ [ActivityStep]_activityVars => ActivityInv'
<1> SUFFICES ASSUME ActivityInv, [ActivityStep]_activityVars
             PROVE  ActivityInv'
  OBVIOUS
<1>0. Records \in Nat
  BY ActivityAssumption
<1>1. CASE Record
  BY <1>0, <1>1 DEF Record, ActivityInv, EventShownIsListed
<1>2. CASE RenderActivity
  <2>1. logs' \in SUBSET (1 .. Records)
    BY <1>0, <1>2 DEF RenderActivity, ActivityInv
  <2>2. ActivityTimeline(logs', eventFilter, selectedEvent) /\ written' = written
    BY <1>2 DEF RenderActivity
  <2> QED
    BY <2>1, <2>2, TimelineAgrees DEF ActivityInv
<1>3. ASSUME NEW f, FilterEvents(f)
      PROVE  ActivityInv'
  <2>1. ActivityTimeline(logs, f, selectedEvent) /\ written' = written /\ logs' = logs
    BY <1>3 DEF FilterEvents
  <2>2. logs \in SUBSET (1 .. Records)
    BY DEF ActivityInv
  <2> QED
    BY <2>1, <2>2, TimelineAgrees DEF ActivityInv
<1>4. ASSUME NEW l \in timeline, ClickEvent(l)
      PROVE  ActivityInv'
  <2>1. ActivityTimeline(logs, eventFilter, l) /\ written' = written /\ logs' = logs
    BY <1>4 DEF ClickEvent
  <2>2. logs \in SUBSET (1 .. Records)
    BY DEF ActivityInv
  <2> QED
    BY <2>1, <2>2, TimelineAgrees DEF ActivityInv
<1>5. CASE UNCHANGED activityVars
  BY <1>5 DEF activityVars, ActivityInv, EventShownIsListed
<1> QED
  BY <1>1, <1>2, <1>3, <1>4, <1>5 DEF ActivityStep

\* For any log, window and filters, the record explained is the one marked in the
\* list, and a list that is not empty has one (activityTimeline, admin-activity.js).
THEOREM EventStaysListed ==
  ActivityInit /\ [][ActivityStep]_activityVars => []EventShownIsListed
<1>1. ActivityInit => ActivityInv
  BY ActivityAssumption DEF ActivityInit, ActivityInv, EventShownIsListed
<1>2. ActivityInv => EventShownIsListed
  BY DEF ActivityInv
<1> QED
  BY <1>1, <1>2, ActivityKeeps, PTL
-----------------------------------------------------------------------------
(* The station and the charger a customer is about to book. *)

\* What is on the map and in the sheet is of the active station.
SheetAgrees ==
  stations # <<>> =>
    /\ titles = stations[activeStation] /\ estimate = <<limit, titles>>
    /\ pinned = activeStation
    /\ \A i \in DOMAIN stations \ markers : onlyAvailable /\ stations[i] \in taken

\* The connectors listed are chargers of the list last read.
LabelAgrees ==
  /\ connectorLabel = selectedCharger
  /\ selectedCharger = None \/ selectedCharger \in Free(chargers)
  /\ connectors \subseteq chargers

\* What was asked for when reserve was pressed was named then.
BookedAsNamed == booked # None => booked.label = booked.charger /\ booked.charger.free

\* selectStation draws all that depends on the station.
LEMMA SelectionAgrees ==
  ASSUME NEW list, NEW i, SelectStation(list, i), stations' = list,
         UNCHANGED <<onlyAvailable, limit>>
  PROVE  SheetAgrees'
  BY DEF SelectStation, RenderMarkers, SheetAgrees

\* However the connectors are drawn, the label names the one selected.
LEMMA ChargersAgree ==
  ASSUME NEW list, NEW c, NEW kinds, RenderChargers(list, c, kinds),
         c = None \/ c \in Free(list)
  PROVE  LabelAgrees'
  BY DEF RenderChargers, Labelled, LabelAgrees, Free

\* Opening the detail of a station draws no connectors, or leaves those there are.
LEMMA DetailAgrees ==
  ASSUME LabelAgrees, NEW s, OpenDetail(s)
  PROVE  LabelAgrees'
<1>1. CASE UNCHANGED chargerVars
  BY <1>1 DEF chargerVars, LabelAgrees, Free
<1>2. CASE RenderChargers({}, None, Kinds)
  BY <1>2, ChargersAgree
<1> QED
  BY <1>1, <1>2 DEF OpenDetail

\* Whatever the page does, sheet, estimate and pin are of the active station.
LEMMA SheetKeeps == SheetAgrees /\ [BrowseStep]_browseVars => SheetAgrees'
<1> SUFFICES ASSUME SheetAgrees, [BrowseStep]_browseVars
             PROVE  SheetAgrees'
  OBVIOUS
<1>1. CASE LoadStations
  BY <1>1, SelectionAgrees DEF LoadStations
<1>2. ASSUME NEW i \in DOMAIN stations, Pick(i) \/ OpenNearby(i)
      PROVE  SheetAgrees'
  BY <1>2, SelectionAgrees DEF Pick, OpenNearby
<1>3. CASE FilterStations
  BY <1>3 DEF FilterStations, RenderMarkers, SheetAgrees
<1>4. ASSUME NEW l \in Limits, Limit(l)
      PROVE  SheetAgrees'
  BY <1>4 DEF Limit, SheetAgrees
<1>5. CASE UNCHANGED stationVars
  BY <1>5 DEF stationVars, SheetAgrees
<1>6. CASE OpenActive
  BY <1>5, <1>6 DEF OpenActive
<1>7. ASSUME NEW r \in details.asked, DetailAnswered(r) \/ DetailFailed(r)
      PROVE  SheetAgrees'
  BY <1>5, <1>7 DEF DetailAnswered, DetailFailed
<1>8. ASSUME NEW kinds, FilterConnectors(kinds)
      PROVE  SheetAgrees'
  BY <1>5, <1>8 DEF FilterConnectors
<1>9. ASSUME NEW c \in chargers, ClickConnector(c)
      PROVE  SheetAgrees'
  BY <1>5, <1>9 DEF ClickConnector
<1>10. CASE Reserve
  BY <1>5, <1>10 DEF Reserve
<1>11. CASE UNCHANGED browseVars
  BY <1>5, <1>11 DEF browseVars, stationVars
<1> QED
  BY <1>1, <1>2, <1>3, <1>4, <1>6, <1>7, <1>8, <1>9, <1>10, <1>11 DEF BrowseStep

\* Whatever the page does, the label names the charger that is selected.
LEMMA LabelKeeps == LabelAgrees /\ [BrowseStep]_browseVars => LabelAgrees'
<1> SUFFICES ASSUME LabelAgrees, [BrowseStep]_browseVars
             PROVE  LabelAgrees'
  OBVIOUS
<1>1. CASE UNCHANGED chargerVars
  BY <1>1 DEF chargerVars, LabelAgrees, Free
<1>2. CASE LoadStations \/ FilterStations
  BY <1>1, <1>2 DEF LoadStations, FilterStations
<1>3. CASE OpenActive
  BY <1>3, DetailAgrees DEF OpenActive
<1>4. ASSUME NEW i \in DOMAIN stations, Pick(i) \/ OpenNearby(i)
      PROVE  LabelAgrees'
  BY <1>1, <1>4, DetailAgrees DEF Pick, OpenNearby
<1>5. ASSUME NEW l \in Limits, Limit(l)
      PROVE  LabelAgrees'
  BY <1>1, <1>5 DEF Limit
<1>6. ASSUME NEW r \in details.asked, DetailAnswered(r)
      PROVE  LabelAgrees'
  <2>1. PICK list : RenderChargers(list, IF Free(list) = {} THEN None
                                         ELSE CHOOSE c \in Free(list) : TRUE, Kinds)
    BY <1>6 DEF DetailAnswered
  <2> QED
    BY <2>1, ChargersAgree
<1>7. ASSUME NEW r \in details.asked, DetailFailed(r)
      PROVE  LabelAgrees'
  BY <1>7, ChargersAgree DEF DetailFailed
<1>8. ASSUME NEW kinds, FilterConnectors(kinds)
      PROVE  LabelAgrees'
  BY <1>8, ChargersAgree DEF FilterConnectors, LabelAgrees
<1>9. ASSUME NEW c \in chargers, ClickConnector(c)
      PROVE  LabelAgrees'
  <2>1. c \in Free(chargers)
    BY <1>9 DEF ClickConnector, Free, LabelAgrees
  <2> QED
    BY <1>9, <2>1, ChargersAgree DEF ClickConnector
<1>10. CASE Reserve
  BY <1>1, <1>10 DEF Reserve
<1>11. CASE UNCHANGED browseVars
  BY <1>1, <1>11 DEF browseVars, chargerVars
<1> QED
  BY <1>2, <1>3, <1>4, <1>5, <1>6, <1>7, <1>8, <1>9, <1>10, <1>11 DEF BrowseStep

\* Only a press changes what was asked for, and then the label is of the charger.
LEMMA BookingKeeps ==
  LabelAgrees /\ BookedAsNamed /\ [BrowseStep]_browseVars => BookedAsNamed'
<1> SUFFICES ASSUME LabelAgrees, BookedAsNamed, [BrowseStep]_browseVars
             PROVE  BookedAsNamed'
  OBVIOUS
<1>1. CASE Reserve
  BY <1>1 DEF Reserve, LabelAgrees, BookedAsNamed, Free
<1>2. CASE UNCHANGED booked
  BY <1>2 DEF BookedAsNamed
<1>3. CASE LoadStations \/ FilterStations \/ OpenActive
  BY <1>2, <1>3 DEF LoadStations, FilterStations, OpenActive
<1>4. ASSUME NEW i \in DOMAIN stations, Pick(i) \/ OpenNearby(i)
      PROVE  BookedAsNamed'
  BY <1>2, <1>4 DEF Pick, OpenNearby
<1>5. ASSUME NEW l \in Limits, Limit(l)
      PROVE  BookedAsNamed'
  BY <1>2, <1>5 DEF Limit
<1>6. ASSUME NEW r \in details.asked, DetailAnswered(r) \/ DetailFailed(r)
      PROVE  BookedAsNamed'
  BY <1>2, <1>6 DEF DetailAnswered, DetailFailed
<1>7. ASSUME NEW kinds, FilterConnectors(kinds)
      PROVE  BookedAsNamed'
  BY <1>2, <1>7 DEF FilterConnectors
<1>8. ASSUME NEW c \in chargers, ClickConnector(c)
      PROVE  BookedAsNamed'
  BY <1>2, <1>8 DEF ClickConnector
<1>9. CASE UNCHANGED browseVars
  BY <1>2, <1>9 DEF browseVars
<1> QED
  BY <1>1, <1>3, <1>4, <1>5, <1>6, <1>7, <1>8, <1>9 DEF BrowseStep

\* For any stations, limits and answers on their way: the station that is named and
\* priced, with an estimate for the limit chosen, is the one that is opened, and the
\* charger that a reservation asks for is the free one named beside the button when
\* it was pressed (selectStation, renderChargers, onConnector and reserve, mobile.js).
THEOREM AskedAsLabelled ==
  BrowseInit /\ [][BrowseStep]_browseVars => []AsksAsLabelled
<1>1. BrowseInit => SheetAgrees /\ LabelAgrees /\ BookedAsNamed
  BY DEF BrowseInit, SheetAgrees, LabelAgrees, BookedAsNamed
<1>2. SheetAgrees /\ LabelAgrees /\ BookedAsNamed => AsksAsLabelled
  BY DEF SheetAgrees, LabelAgrees, BookedAsNamed, AsksAsLabelled
<1> QED
  BY <1>1, <1>2, SheetKeeps, LabelKeeps, BookingKeeps, PTL
-----------------------------------------------------------------------------
(* The console page for any number of users, forms, calls and losses.  The  *)
(* proof needs to know of every submission in flight that its key is the    *)
(* number of the opening of its form, that forms of the same opening are of *)
(* the same kind, and that what was answered is in the ledger.              *)

Form == [opening : Nat, kind : {"none", "login", "money", "book", "edit"},
         user : Payees \cup {None}]

Awaiting == [op : {"none", "post", "get", "enter", "wallet", "toggle"}, form : Form,
             user : Payees \cup {None}, key : Nat, what : Values \cup {None},
             stage : {"idle", "sent", "answered", "failed", "orphan"}]

Entry == [opening : Nat, kind : {"money", "book"}, user : Payees \cup {None},
          key : Nat, what : Values \cup {None}]

ConsoleTyped ==
  /\ entries \subseteq Entry
  /\ row \in Values \cup {None} /\ known \in Values \cup {None}
  /\ form \in Form /\ forms \in Nat
  /\ await \in [Awaits -> Awaiting]

\* A form has a number, its submissions have it as their key.
Numbered ==
  /\ form.opening <= forms /\ (form # NoForm => form.opening > 0)
  /\ \A e \in entries : e.opening \in 1 .. forms /\ e.key = e.opening
  /\ \A a \in Awaits : await[a].op = "post" =>
       await[a].form.opening \in 1 .. forms /\ await[a].key = await[a].form.opening

\* What has the same number comes from the same form.
SameKind ==
  /\ \A e \in entries : e.opening = form.opening => e.kind = form.kind
  /\ \A a \in Awaits : await[a].op = "post" =>
       /\ await[a].form.opening = form.opening => await[a].form.kind = form.kind
       /\ \A e \in entries : e.opening = await[a].form.opening =>
                               e.kind = await[a].form.kind
       /\ \A b \in Awaits : await[b].op = "post" =>
            (await[a].form.opening = await[b].form.opening =>
               await[a].form.kind = await[b].form.kind)

OneEntryEach == \A e, f \in entries : e.opening = f.opening /\ e.user = f.user => e = f

\* In the ledger: the entry of what was submitted.
Booked(s, opening, kind) ==
  kind \in {"money", "book"} =>
    \E e \in entries : /\ e.opening = opening /\ e.user = s.user
                       /\ kind = "money" => e.what = s.what

Backed ==
  /\ \A a \in Awaits : await[a].op = "post" /\ await[a].stage = "answered" =>
       Booked(await[a], await[a].form.opening, await[a].form.kind)
  /\ \A a \in Awaits : await[a].op = "enter" => await[a].form.kind = "login"
  /\ \A s \in saved : Booked(s, s.opening, s.kind)

ConsoleInv == ConsoleTyped /\ Numbered /\ SameKind /\ OneEntryEach /\ Backed
-----------------------------------------------------------------------------
(* What a step may do to the calls. *)

\* No call becomes a submission, and none that makes an entry is answered.
Quiet ==
  /\ entries' = entries /\ forms' = forms /\ form' \in {form, NoForm}
  /\ saved' = saved
  /\ \A a \in Awaits :
       /\ await'[a].op = "post" =>
            /\ await[a].op = "post"
            /\ await'[a].form = await[a].form /\ await'[a].key = await[a].key
            /\ await'[a].user = await[a].user /\ await'[a].what = await[a].what
            /\ await'[a].stage = "answered" =>
                 await[a].stage = "answered" \/ await[a].form.kind \notin {"money", "book"}
       /\ await'[a].op = "enter" => await'[a].form.kind = "login"

\* No form is a form with number 0.
LEMMA NoFormTyped == NoForm \in Form /\ NoForm.opening = 0 /\ NoForm.kind = "none"
  BY DEF NoForm, Form

\* No call is a call for no form.
LEMMA NoAwaitTyped ==
  /\ NoAwait \in Awaiting /\ NoAwait.op = "none" /\ NoAwait.form = NoForm
  BY NoFormTyped DEF NoAwait, Awaiting

\* A step that begins no form and no entry keeps what is known of them.
LEMMA QuietKeeps ==
  ASSUME ConsoleInv, Quiet, ConsoleTyped'
  PROVE  ConsoleInv'
  <1> USE NoFormTyped
  <1>1. Numbered'
    BY DEF ConsoleInv, Numbered, Quiet, ConsoleTyped, Form
  <1>2. SameKind'
    BY DEF ConsoleInv, Numbered, SameKind, Quiet, ConsoleTyped, Form
  <1>3. OneEntryEach'
    BY DEF ConsoleInv, OneEntryEach, Quiet
  <1>4. Backed'
    BY DEF ConsoleInv, Backed, Booked, Quiet
  <1> QED  BY <1>1, <1>2, <1>3, <1>4 DEF ConsoleInv

\* A call is one more.
LEMMA CallEffect ==
  ASSUME ConsoleTyped, NEW op \in {"none", "post", "get", "enter", "wallet", "toggle"},
         NEW f \in Form, NEW user \in Payees \cup {None}, NEW key \in Nat,
         NEW what \in Values \cup {None}, Call(op, f, user, key, what)
  PROVE  /\ await' \in [Awaits -> Awaiting]
         /\ \A b \in Awaits :
              \/ await'[b] = await[b]
              \/ await'[b] = [op |-> op, form |-> f, user |-> user, key |-> key,
                             what |-> what, stage |-> "sent"]
  <1> DEFINE r == [op |-> op, form |-> f, user |-> user, key |-> key, what |-> what,
                   stage |-> "sent"]
  <1>1. r \in Awaiting
    BY DEF Awaiting
  <1>2. PICK a : await' = [await EXCEPT ![a] = r]
    BY DEF Call
  <1> QED  BY <1>1, <1>2 DEF ConsoleTyped

\* A function that returns has no call.
LEMMA ReturnEffect ==
  ASSUME ConsoleTyped, NEW a \in Awaits, Return(a)
  PROVE  /\ await' \in [Awaits -> Awaiting]
         /\ \A b \in Awaits : await'[b] = await[b] \/ await'[b] = NoAwait
  BY NoAwaitTyped DEF ConsoleTyped, Return

\* A function that refreshes goes on to read.
LEMMA ThenRefreshEffect ==
  ASSUME ConsoleTyped, NEW a \in Awaits, ThenRefresh(a)
  PROVE  /\ await' \in [Awaits -> Awaiting]
         /\ \A b \in Awaits : await'[b] = await[b] \/ await'[b].op = "get"
  <1> DEFINE r == [NoAwait EXCEPT !.op = "get", !.stage = "sent", !.form = await[a].form]
  <1>1. await[a].form \in Form
    BY DEF ConsoleTyped, Awaiting
  <1>2. r \in Awaiting /\ r.op = "get"
    BY <1>1, NoAwaitTyped DEF Awaiting
  <1>3. await' = [await EXCEPT ![a] = r]
    BY DEF ThenRefresh
  <1> QED  BY <1>2, <1>3 DEF ConsoleTyped

\* The call keeps what it asked.
SameCall(a) ==
  /\ await'[a].op = await[a].op /\ await'[a].form = await[a].form
  /\ await'[a].key = await[a].key /\ await'[a].user = await[a].user

\* An answer is for one call.
LEMMA FinishEffect ==
  ASSUME ConsoleTyped, NEW a \in Awaits, NEW stage \in {"answered", "failed"}, Finish(a, stage)
  PROVE  /\ await' \in [Awaits -> Awaiting]
         /\ \A b \in Awaits \ {a} : await'[b] = await[b]
         /\ \/ await'[a].op = "none" /\ await'[a].form = NoForm
            \/ /\ SameCall(a) /\ await'[a].what = await[a].what
               /\ await'[a].stage = stage
  <1> DEFINE r == [await[a] EXCEPT !.stage = stage]
  <1>1. await[a] \in Awaiting
    BY DEF ConsoleTyped
  <1>2. /\ r \in Awaiting /\ r.op = await[a].op /\ r.form = await[a].form
        /\ r.key = await[a].key /\ r.user = await[a].user /\ r.what = await[a].what
        /\ r.stage = stage
    BY <1>1 DEF Awaiting
  <1>3. await' = [await EXCEPT ![a] = NoAwait] \/ await' = [await EXCEPT ![a] = r]
    BY DEF Finish, ConsoleTyped
  <1> HIDE DEF r
  <1> QED  BY <1>2, <1>3, NoAwaitTyped DEF ConsoleTyped, SameCall
-----------------------------------------------------------------------------
\* Before the first login nothing has been tried.
LEMMA ConsoleStarts == ConsoleInit => ConsoleInv
  <1> SUFFICES ASSUME ConsoleInit PROVE ConsoleInv
    OBVIOUS
  <1>1. ConsoleTyped
    <2>1. row \in Values
      BY ConsoleAssumption DEF ConsoleInit
    <2> QED  BY <2>1, NoFormTyped, NoAwaitTyped DEF ConsoleInit, ConsoleTyped
  <1>2. \A a \in Awaits : await[a].op = "none"
    BY NoAwaitTyped DEF ConsoleInit
  <1>3. entries = {} /\ saved = {} /\ form.opening = 0 /\ forms = 0 /\ form = NoForm
    BY NoFormTyped DEF ConsoleInit
  <1> QED  BY <1>1, <1>2, <1>3 DEF ConsoleInv, Numbered, SameKind, OneEntryEach, Backed

\* Pages that ask, and answers that make no entry.
LEMMA QuietCalls ==
  ASSUME ConsoleInv, NEW op \in {"get", "wallet", "toggle"}, NEW what \in Values \cup {None},
         Call(op, NoForm, None, 0, what), UNCHANGED <<entries, row, form, forms, saved>>,
         known' = known
  PROVE  ConsoleInv'
  <1>1. /\ await' \in [Awaits -> Awaiting]
        /\ \A b \in Awaits : await'[b] = await[b] \/ await'[b].op = op
    <2> DEFINE r == [op |-> op, form |-> NoForm, user |-> None, key |-> 0, what |-> what,
                     stage |-> "sent"]
    <2>1. ConsoleTyped /\ op \in {"none", "post", "get", "enter", "wallet", "toggle"}
      BY DEF ConsoleInv
    <2>2. /\ await' \in [Awaits -> Awaiting]
          /\ \A b \in Awaits : await'[b] = await[b] \/ await'[b] = r
      BY <2>1, NoFormTyped, CallEffect
    <2> QED  BY <2>2
  <1>2. ConsoleTyped'
    BY <1>1 DEF ConsoleInv, ConsoleTyped
  <1>3. Quiet
    BY <1>1 DEF Quiet, ConsoleInv, Backed
  <1> QED  BY <1>2, <1>3, QuietKeeps

\* A function may return, read on or close the editor at any time.
LEMMA QuietReturns ==
  ASSUME ConsoleInv, NEW a \in Awaits, Return(a) \/ ThenRefresh(a) \/ UNCHANGED await,
         UNCHANGED <<entries, row, forms, saved>>, form' \in {form, NoForm},
         known' \in Values \cup {None}
  PROVE  ConsoleInv'
  <1>1. /\ await' \in [Awaits -> Awaiting]
        /\ \A b \in Awaits : await'[b] = await[b] \/ await'[b].op \in {"none", "get"}
    BY ReturnEffect, ThenRefreshEffect, NoAwaitTyped DEF ConsoleInv, ConsoleTyped
  <1>2. ConsoleTyped'
    BY <1>1, NoFormTyped DEF ConsoleInv, ConsoleTyped
  <1>3. Quiet
    BY <1>1 DEF Quiet, ConsoleInv, Backed
  <1> QED  BY <1>2, <1>3, QuietKeeps
-----------------------------------------------------------------------------
(* The editor. *)

\* The new form has a number that nothing has yet.
LEMMA OpenFormKeeps ==
  ASSUME ConsoleInv, NEW kind \in {"login", "money", "book", "edit"},
         NEW user \in Payees \cup {None}, OpenForm(kind, user)
  PROVE  ConsoleInv'
  <1>1. /\ forms' = forms + 1 /\ form' = [opening |-> forms + 1, kind |-> kind, user |-> user]
        /\ UNCHANGED <<entries, row, known, saved, await>>
    BY DEF OpenForm
  <1>2. forms \in Nat
    BY DEF ConsoleInv, ConsoleTyped
  <1>3. ConsoleTyped'
    BY <1>1, <1>2 DEF ConsoleInv, ConsoleTyped, Form
  <1>4. /\ form'.opening = forms + 1
        /\ \A e \in entries : e.opening # forms + 1
        /\ \A a \in Awaits : await[a].op = "post" => await[a].form.opening # forms + 1
    BY <1>1, <1>2 DEF ConsoleInv, Numbered
  <1>5. Numbered'
    <2>1. form'.opening <= forms' /\ form'.opening > 0
      BY <1>1, <1>2
    <2>2. 1 .. forms \subseteq 1 .. forms'
      BY <1>1, <1>2
    <2> QED  BY <1>1, <2>1, <2>2 DEF ConsoleInv, Numbered
  <1>6. SameKind'
    BY <1>1, <1>4 DEF ConsoleInv, SameKind
  <1>7. OneEntryEach' /\ Backed'
    BY <1>1 DEF ConsoleInv, OneEntryEach, Backed, Booked
  <1> QED  BY <1>3, <1>5, <1>6, <1>7 DEF ConsoleInv

\* A form is submitted under its own number.
LEMMA SubmitKeeps ==
  ASSUME ConsoleInv, NEW user \in Payees, NEW what \in Values, Submit(user, what)
  PROVE  ConsoleInv'
  <1> DEFINE r == [op |-> "post", form |-> form, user |-> user, key |-> form.opening,
                   what |-> what, stage |-> "sent"]
  <1>1. /\ UNCHANGED <<entries, row, known, form, forms, saved>> /\ form # NoForm
        /\ Call("post", form, user, form.opening, what)
    BY DEF Submit, KeyOf
  <1>2. form \in Form /\ forms \in Nat /\ form.opening \in Nat
    BY DEF ConsoleInv, ConsoleTyped, Form
  <1>3. /\ await' \in [Awaits -> Awaiting]
        /\ \A b \in Awaits : await'[b] = await[b] \/ await'[b] = r
    BY <1>1, <1>2, CallEffect DEF ConsoleInv
  <1>4. r.op = "post" /\ r.form = form /\ r.key = form.opening /\ r.stage = "sent"
    OBVIOUS
  <1> HIDE DEF r
  <1>5. ConsoleTyped'
    BY <1>1, <1>3 DEF ConsoleInv, ConsoleTyped
  <1>6. form.opening \in 1 .. forms
    BY <1>1, <1>2 DEF ConsoleInv, Numbered
  <1>7. Numbered'
    BY <1>1, <1>3, <1>4, <1>6 DEF ConsoleInv, Numbered
  <1>8. SameKind'
    BY <1>1, <1>3, <1>4 DEF ConsoleInv, SameKind
  <1>9. OneEntryEach'
    BY <1>1 DEF ConsoleInv, OneEntryEach
  <1>10. Backed'
    BY <1>1, <1>3, <1>4 DEF ConsoleInv, Backed, Booked
  <1> QED  BY <1>5, <1>7, <1>8, <1>9, <1>10 DEF ConsoleInv

\* What is called saved has been answered, so that it is in the ledger.
LEMMA SavedKeeps ==
  ASSUME ConsoleInv, NEW a \in Awaits, Saved(a), UNCHANGED <<entries, row, forms>>,
         known' \in Values \cup {None},
         \/ await[a].op = "post" /\ await[a].stage = "answered"
         \/ await[a].op = "enter"
  PROVE  ConsoleInv'
  <1> DEFINE s == [opening |-> await[a].form.opening, kind |-> await[a].form.kind,
                   user |-> await[a].user, what |-> await[a].what]
  <1>1. form' = NoForm /\ saved' = saved \cup {s} /\ ThenRefresh(a)
    BY DEF Saved
  <1>2. /\ await' \in [Awaits -> Awaiting]
        /\ \A b \in Awaits : await'[b] = await[b] \/ await'[b].op = "get"
    BY <1>1, ThenRefreshEffect DEF ConsoleInv
  <1>3. ConsoleTyped'
    BY <1>1, <1>2, NoFormTyped DEF ConsoleInv, ConsoleTyped
  <1>4. Numbered'
    BY <1>1, <1>2, NoFormTyped DEF ConsoleInv, ConsoleTyped, Numbered
  <1>5. SameKind'
    BY <1>1, <1>2, NoFormTyped DEF ConsoleInv, ConsoleTyped, Numbered, SameKind
  <1>6. OneEntryEach'
    BY DEF ConsoleInv, OneEntryEach
  <1>7. Booked(s, s.opening, s.kind)
    BY DEF ConsoleInv, Backed, Booked
  <1> HIDE DEF s
  <1>8. Backed'
    BY <1>1, <1>2, <1>7 DEF ConsoleInv, Backed, Booked
  <1> QED  BY <1>3, <1>4, <1>5, <1>6, <1>8 DEF ConsoleInv

\* A login goes on to enter.
LEMMA LoginAnsweredKeeps ==
  ASSUME ConsoleInv, NEW a \in Awaits, LoginAnswered(a)
  PROVE  ConsoleInv'
  <1> DEFINE r == [await[a] EXCEPT !.op = "enter", !.stage = "sent"]
  <1>1. /\ await' = [await EXCEPT ![a] = r] /\ await[a].form.kind = "login"
        /\ UNCHANGED <<entries, row, known, form, forms, saved>>
    BY DEF LoginAnswered, ConsoleInv, ConsoleTyped
  <1>2. r \in Awaiting /\ r.op = "enter" /\ r.form.kind = "login"
    BY <1>1 DEF ConsoleInv, ConsoleTyped, Awaiting
  <1> HIDE DEF r
  <1>3. \A b \in Awaits : await'[b] = await[b] \/ await'[b] = r
    BY <1>1 DEF ConsoleInv, ConsoleTyped
  <1>4. ConsoleTyped'
    BY <1>1, <1>2 DEF ConsoleInv, ConsoleTyped
  <1>5. Quiet
    BY <1>1, <1>2, <1>3 DEF Quiet, ConsoleInv, Backed
  <1> QED  BY <1>4, <1>5, QuietKeeps
-----------------------------------------------------------------------------
(* The server, and what is lost. *)

\* What the server writes and reads is the row.
LEMMA WriteKeeps ==
  ASSUME ConsoleInv, NEW a \in Awaits, Write(a) \/ Read(a) \/ Admit(a), UNCHANGED pageState
  PROVE  ConsoleInv'
  <1>1. UNCHANGED <<entries, known, form, forms, saved>>
    BY DEF Write, Read, Admit, pageState
  <1>2. await[a] \in Awaiting /\ row \in Values \cup {None} /\ ConsoleTyped
    BY DEF ConsoleInv, ConsoleTyped
  <1>3. /\ row' \in Values \cup {None} /\ await' \in [Awaits -> Awaiting]
        /\ \A b \in Awaits \ {a} : await'[b] = await[b]
        /\ \/ await'[a].op = "none"
           \/ /\ SameCall(a)
              /\ await[a].op = "post" => /\ await'[a].what = await[a].what
                                         /\ await[a].form.kind \in {"edit", "login"}
    <2>1. CASE Write(a)
      <3>1. PICK stage \in {"answered", "failed"} : Finish(a, stage)
        BY <2>1 DEF Write
      <3>2. await[a].op = "post" => await[a].form.kind = "edit"
        BY <2>1 DEF Write
      <3>3. row' \in Values \cup {None}
        BY <1>2, <2>1 DEF Write, Awaiting
      <3> QED  BY <1>2, <3>1, <3>2, <3>3, FinishEffect
    <2>2. CASE Read(a)
      <3> DEFINE r == [await[a] EXCEPT !.stage = "answered", !.what = row]
      <3>1. /\ await[a].op # "post" /\ row' = row
            /\ await' = [await EXCEPT ![a] = NoAwait] \/ await' = [await EXCEPT ![a] = r]
        BY <1>2, <2>2 DEF Read, ConsoleTyped
      <3>2. await[a] = [op |-> await[a].op, form |-> await[a].form, user |-> await[a].user,
                         key |-> await[a].key, what |-> await[a].what, stage |-> await[a].stage]
        BY <1>2 DEF Awaiting
      <3>3. /\ r \in Awaiting /\ r.op = await[a].op /\ r.form = await[a].form
            /\ r.key = await[a].key /\ r.user = await[a].user
        BY <1>2, <3>2 DEF Awaiting
      <3> HIDE DEF r
      <3> QED  BY <1>2, <3>1, <3>3, NoAwaitTyped DEF ConsoleTyped, SameCall
    <2>3. CASE Admit(a)
      <3>1. PICK stage \in {"answered", "failed"} : Finish(a, stage)
        BY <2>3 DEF Admit
      <3>2. await[a].op = "post" /\ await[a].form.kind = "login" /\ row' = row
        BY <2>3 DEF Admit
      <3> QED  BY <1>2, <3>1, <3>2, FinishEffect
    <2> QED  BY <2>1, <2>2, <2>3
  <1>4. ConsoleTyped'
    BY <1>1, <1>3 DEF ConsoleInv, ConsoleTyped
  <1>5. Quiet
    BY <1>1, <1>3 DEF Quiet, SameCall, ConsoleInv, Backed
  <1> QED  BY <1>4, <1>5, QuietKeeps

\* Under the key of its opening a form finds its own entry only.
LEMMA PostKeeps ==
  ASSUME ConsoleInv, NEW a \in Awaits, Post(a), UNCHANGED pageState
  PROVE  ConsoleInv'
  <1> DEFINE c == await[a]
             old == {e \in entries : e.user = c.user /\ e.key = c.key}
             new == [opening |-> c.form.opening, kind |-> c.form.kind, user |-> c.user,
                     key |-> c.key, what |-> c.what]
  <1>1. /\ UNCHANGED <<row, known, form, forms, saved>>
        /\ c.op = "post" /\ c.form.kind \in {"money", "book"}
    BY DEF Post, pageState
  <1>2. ConsoleTyped /\ c \in Awaiting /\ c.form \in Form
    BY DEF ConsoleInv, ConsoleTyped, Awaiting
  <1>3. /\ entries' = entries \/ (old = {} /\ entries' = entries \cup {new})
        /\ \E stage \in {"answered", "failed"} : Finish(a, stage)
           /\ (stage = "answered" => \/ \E e \in old : Replies(e, c.what)
                                     \/ entries' = entries \cup {new})
    BY DEF Post
  <1>4. PICK stage \in {"answered", "failed"} :
          /\ Finish(a, stage)
          /\ stage = "answered" => \/ \E e \in old : Replies(e, c.what)
                                   \/ entries' = entries \cup {new}
    BY <1>3
  <1>5. /\ await' \in [Awaits -> Awaiting]
        /\ \A b \in Awaits \ {a} : await'[b] = await[b]
        /\ \/ await'[a].op = "none"
           \/ /\ SameCall(a) /\ await'[a].what = c.what /\ await'[a].stage = stage
    BY <1>2, <1>4, FinishEffect
  <1>6. /\ new \in Entry /\ new.opening = c.form.opening /\ new.kind = c.form.kind
        /\ new.user = c.user /\ new.key = c.key /\ new.what = c.what
    BY <1>1, <1>2 DEF Awaiting, Form, Entry
  <1>7. c.form.opening \in 1 .. forms /\ c.key = c.form.opening
    BY <1>1 DEF ConsoleInv, Numbered
  <1>8. \A b \in Awaits : await'[b].op = "post" =>
          /\ await[b].op = "post" /\ await'[b].form = await[b].form
          /\ await'[b].key = await[b].key /\ await'[b].user = await[b].user
          /\ await'[b].what = await[b].what
          /\ await'[b].stage = "answered" =>
               await[b].stage = "answered" \/ (b = a /\ stage = "answered")
    BY <1>1, <1>5 DEF SameCall
  <1>9. \A b \in Awaits : await'[b].op = "enter" => await'[b].form.kind = "login"
    BY <1>1, <1>5 DEF SameCall, ConsoleInv, Backed
  <1>10. ConsoleTyped'
    BY <1>1, <1>2, <1>3, <1>5, <1>6 DEF ConsoleTyped
  <1>11. \A e \in entries : e.opening = c.form.opening /\ e.user = c.user => e \in old
    BY <1>7 DEF ConsoleInv, Numbered
  <1>12. \A e \in entries : e.opening = c.form.opening => e.kind = c.form.kind
    BY <1>1 DEF ConsoleInv, SameKind
  <1>13. stage = "answered" =>
           \E e \in entries' : /\ e.opening = c.form.opening /\ e.user = c.user
                               /\ c.form.kind = "money" => e.what = c.what
    <2>1. CASE \E e \in old : Replies(e, c.what)
      <3>1. PICK e \in old : Replies(e, c.what)
        BY <2>1
      <3>2. e \in entries /\ e.user = c.user /\ e.opening = c.form.opening
        BY <1>7 DEF ConsoleInv, Numbered
      <3>3. c.form.kind = "money" => e.what = c.what
        BY <1>12, <3>1, <3>2 DEF Replies
      <3> QED  BY <1>3, <3>2, <3>3
    <2>2. CASE entries' = entries \cup {new}
      BY <1>6, <2>2
    <2> QED  BY <1>4, <2>1, <2>2
  <1> HIDE DEF c, old, new
  <1>14. \A e \in entries' : e \in entries \/ (e = new /\ old = {})
    BY <1>3
  <1>15. Numbered'
    BY <1>1, <1>6, <1>7, <1>8, <1>14 DEF ConsoleInv, Numbered
  <1>16. SameKind'
    <2>1. \A e \in entries' : e.opening = form.opening => e.kind = form.kind
      BY <1>1, <1>6, <1>14 DEF ConsoleInv, SameKind, c
    <2>2. \A b \in Awaits, e \in entries' : await[b].op = "post" =>
            (e.opening = await[b].form.opening => e.kind = await[b].form.kind)
      BY <1>1, <1>6, <1>14 DEF ConsoleInv, SameKind, c
    <2> QED  BY <1>1, <1>8, <2>1, <2>2 DEF ConsoleInv, SameKind
  <1>17. OneEntryEach'
    BY <1>6, <1>11, <1>14 DEF ConsoleInv, OneEntryEach
  <1>18. Backed'
    <2>1. entries \subseteq entries'
      BY <1>3
    <2>2. ASSUME NEW b \in Awaits, await'[b].op = "post", await'[b].stage = "answered"
          PROVE  Booked(await[b], await[b].form.opening, await[b].form.kind)'
      <3>1. CASE await[b].stage = "answered"
        BY <1>8, <2>1, <2>2, <3>1 DEF ConsoleInv, Backed, Booked
      <3>2. CASE b = a /\ stage = "answered"
        BY <1>8, <1>13, <2>2, <3>2 DEF Booked, c
      <3> QED  BY <1>8, <2>2, <3>1, <3>2
    <2>3. \A s \in saved : Booked(s, s.opening, s.kind)'
      BY <2>1 DEF ConsoleInv, Backed, Booked
    <2> QED  BY <1>1, <1>9, <2>2, <2>3 DEF Backed
  <1> QED  BY <1>10, <1>15, <1>16, <1>17, <1>18 DEF ConsoleInv

\* A lost call leaves an orphan or nothing.
LEMMA LoseCallKeeps ==
  ASSUME ConsoleInv, NEW a \in Awaits, LoseCall(a)
  PROVE  ConsoleInv'
  <1>1. UNCHANGED <<entries, row, known, form, forms, saved>>
    BY DEF LoseCall
  <1>2. CASE Return(a)
    BY <1>1, <1>2, QuietReturns DEF ConsoleInv, ConsoleTyped
  <1>3. CASE await' = [await EXCEPT ![a].stage = "orphan"]
    <2> DEFINE r == [await[a] EXCEPT !.stage = "orphan"]
    <2>1. await[a] \in Awaiting
      BY DEF ConsoleInv, ConsoleTyped
    <2>2. /\ r \in Awaiting /\ r.op = await[a].op /\ r.form = await[a].form
          /\ r.key = await[a].key /\ r.user = await[a].user /\ r.what = await[a].what
          /\ r.stage = "orphan"
      BY <2>1 DEF Awaiting
    <2>3. await' = [await EXCEPT ![a] = r]
      BY <1>3 DEF ConsoleInv, ConsoleTyped
    <2> HIDE DEF r
    <2>4. ConsoleTyped'
      BY <1>1, <2>2, <2>3 DEF ConsoleInv, ConsoleTyped
    <2>5. Quiet
      BY <1>1, <2>2, <2>3 DEF Quiet, ConsoleInv, ConsoleTyped, Backed
    <2> QED  BY <2>4, <2>5, QuietKeeps
  <1> QED  BY <1>2, <1>3 DEF LoseCall
-----------------------------------------------------------------------------
\* A login ends with the rows it has read.
LEMMA EnterAnsweredKeeps ==
  ASSUME ConsoleInv, NEW a \in Awaits, EnterAnswered(a)
  PROVE  ConsoleInv'
  <1>1. await[a].op = "enter" /\ Saved(a) /\ UNCHANGED <<entries, row, forms>>
    BY DEF EnterAnswered
  <1>2. known' = await[a].what
    BY DEF EnterAnswered, Refreshed
  <1>3. known' \in Values \cup {None}
    BY <1>2 DEF ConsoleInv, ConsoleTyped, Awaiting
  <1> QED  BY <1>1, <1>3, SavedKeeps

\* Every step of the console preserves the invariant.
LEMMA ConsoleKeeps == ConsoleInv /\ [ConsoleStep]_consoleVars => ConsoleInv'
  <1> SUFFICES ASSUME ConsoleInv, [ConsoleStep]_consoleVars PROVE ConsoleInv'
    OBVIOUS
  <1>1. known \in Values \cup {None}
    BY DEF ConsoleInv, ConsoleTyped
  <1>2. CASE EditorStep
    <2>1. CASE CloseEditor
      <3>1. UNCHANGED <<entries, row, known, forms, saved, await>> /\ form' = NoForm
        BY <2>1 DEF CloseEditor
      <3>2. ConsoleTyped' /\ Quiet
        BY <3>1, NoFormTyped DEF ConsoleInv, ConsoleTyped, Quiet, Backed
      <3> QED  BY <3>2, QuietKeeps
    <2>2. ASSUME NEW kind \in {"login", "money", "book", "edit"},
                 NEW user \in Payees \cup {None}, OpenForm(kind, user)
          PROVE  ConsoleInv'
      BY <2>2, OpenFormKeeps
    <2>3. ASSUME NEW user \in Payees, NEW what \in Values, Submit(user, what)
          PROVE  ConsoleInv'
      BY <2>3, SubmitKeeps
    <2>4. ASSUME NEW a \in Awaits, SubmitAnswered(a)
          PROVE  ConsoleInv'
      BY <1>1, <2>4, SavedKeeps DEF SubmitAnswered
    <2>5. ASSUME NEW a \in Awaits, LoginAnswered(a) \/ EnterAnswered(a)
          PROVE  ConsoleInv'
      BY <2>5, LoginAnsweredKeeps, EnterAnsweredKeeps
    <2> QED  BY <1>2, <2>1, <2>2, <2>3, <2>4, <2>5 DEF EditorStep
  <1>3. CASE DrawerStep
    <2>1. CASE Toggle
      <3>1. PICK v \in Values : Call("toggle", NoForm, None, 0, v)
        BY <2>1 DEF Toggle
      <3> QED  BY <2>1, <3>1, QuietCalls DEF Toggle, pageState
    <2>2. CASE AskDetails
      BY <2>2, QuietCalls DEF AskDetails, pageState
    <2>3. CASE ShowKnown \/ CloseDrawer \/ \E kind \in Managers : Manage(kind)
      <3>1. UNCHANGED <<entries, row, known, form, forms, saved, await>>
        BY <2>3 DEF ShowKnown, ShowDetails, CloseDrawer, Manage
      <3>2. ConsoleTyped' /\ Quiet
        BY <3>1 DEF ConsoleInv, ConsoleTyped, Quiet, Backed
      <3> QED  BY <3>2, QuietKeeps
    <2>4. ASSUME NEW a \in Awaits, DetailsAnswered(a) \/ ToggleAnswered(a)
          PROVE  ConsoleInv'
      <3>1. /\ Return(a) \/ ThenRefresh(a)
            /\ UNCHANGED <<entries, row, known, form, forms, saved>>
        BY <2>4 DEF DetailsAnswered, ShowDetails, ToggleAnswered, pageState
      <3> QED  BY <1>1, <3>1, QuietReturns
    <2> QED  BY <1>3, <2>1, <2>2, <2>3, <2>4 DEF DrawerStep
  <1>4. CASE RefreshStep
    <2>1. CASE Connect \/ Refresh
      BY <2>1, QuietCalls DEF Connect, Refresh, pageState
    <2>2. ASSUME NEW a \in Awaits, ServeConsole(a)
          PROVE  ConsoleInv'
      BY <2>2, PostKeeps, WriteKeeps DEF ServeConsole
    <2>3. ASSUME NEW a \in Awaits, RefreshAnswered(a)
          PROVE  ConsoleInv'
      <3>1. /\ Return(a) /\ known' = await[a].what
            /\ UNCHANGED <<entries, row, form, forms, saved>>
        BY <2>3 DEF RefreshAnswered, Refreshed
      <3>2. await[a].what \in Values \cup {None}
        BY DEF ConsoleInv, ConsoleTyped, Awaiting
      <3> QED  BY <3>1, <3>2, QuietReturns
    <2>4. ASSUME NEW a \in Awaits, CallFailed(a)
          PROVE  ConsoleInv'
      BY <1>1, <2>4, QuietReturns DEF CallFailed
    <2>5. ASSUME NEW a \in Awaits, LoseCall(a)
          PROVE  ConsoleInv'
      BY <2>5, LoseCallKeeps
    <2> QED  BY <1>4, <2>1, <2>2, <2>3, <2>4, <2>5 DEF RefreshStep
  <1>5. CASE UNCHANGED consoleVars
    <2>1. ConsoleTyped' /\ Quiet
      BY <1>5 DEF consoleVars, ConsoleInv, ConsoleTyped, Quiet, Backed
    <2> QED  BY <2>1, QuietKeeps
  <1> QED  BY <1>2, <1>3, <1>4, <1>5 DEF ConsoleStep

\* The invariant implies the property.
LEMMA ConsolePosts == ConsoleInv => PostedAsTyped
  <1> SUFFICES ASSUME ConsoleInv PROVE PostedAsTyped
    OBVIOUS
  <1>1. \A s \in saved : s.kind \in {"money", "book"} =>
          \E e \in entries : /\ e.opening = s.opening /\ e.user = s.user
                             /\ s.kind = "money" => e.what = s.what
    BY DEF ConsoleInv, Backed, Booked
  <1> QED  BY <1>1 DEF ConsoleInv, OneEntryEach, PostedAsTyped
-----------------------------------------------------------------------------
\* At first there is no drawer.
LEMMA DrawerInitially == ConsoleInit => DrawerMatchesState
  BY DEF ConsoleInit, DrawerMatchesState

\* Only what is drawn at a refresh or with a list counts as one.
LEMMA DrawerKeeps ==
  DrawerMatchesState /\ [ConsoleStep]_consoleVars => DrawerMatchesState'
  <1> SUFFICES ASSUME DrawerMatchesState, [ConsoleStep]_consoleVars
               PROVE  DrawerMatchesState'
    OBVIOUS
  <1>1. CASE UNCHANGED <<drawer, known, content>>
    BY <1>1 DEF DrawerMatchesState
  <1>2. ASSUME NEW r, Refreshed(r), drawer' = drawer
        PROVE  DrawerMatchesState'
    BY <1>2 DEF Refreshed, DrawerMatchesState
  <1>3. CASE ShowDetails
    BY <1>3 DEF ShowDetails, Details, DrawerMatchesState
  <1>4. CASE CloseDrawer
    BY <1>4 DEF CloseDrawer, DrawerMatchesState
  <1>5. ASSUME NEW kind \in Managers, Manage(kind)
        PROVE  DrawerMatchesState'
    BY <1>5, ConsoleAssumption DEF Manage, DrawerMatchesState
  <1>6. CASE EditorStep
    BY <1>1, <1>2, <1>6 DEF EditorStep, CloseEditor, OpenForm, Submit, SubmitAnswered,
       LoginAnswered, EnterAnswered
  <1>7. CASE DrawerStep
    BY <1>1, <1>3, <1>4, <1>5, <1>7 DEF DrawerStep, Toggle, AskDetails, ShowKnown,
       DetailsAnswered, ToggleAnswered, pageState
  <1>8. CASE RefreshStep
    BY <1>1, <1>2, <1>8 DEF RefreshStep, Connect, Refresh, ServeConsole, RefreshAnswered,
       CallFailed, LoseCall, pageState
  <1> QED  BY <1>1, <1>6, <1>7, <1>8 DEF ConsoleStep, consoleVars
-----------------------------------------------------------------------------
\* However many forms are opened, filled anew and submitted again, and whatever
\* answers are lost, one opening of a form makes one entry of a user at most, and
\* what the page calls saved is in the ledger (edit of admin.js, money of the
\* console service).
THEOREM FormsPostOnce == ConsoleInit /\ [][ConsoleStep]_consoleVars => []PostedAsTyped
  BY ConsoleStarts, ConsoleKeeps, ConsolePosts, PTL

\* Whatever answers in whatever order, a list in the drawer shows the rows that
\* the page knows, and nothing else in it is overwritten with a list (refresh,
\* renderManager and command of admin.js).
THEOREM DrawerShowsState ==
  ConsoleInit /\ [][ConsoleStep]_consoleVars => []DrawerMatchesState
  BY DrawerInitially, DrawerKeeps, PTL
-----------------------------------------------------------------------------
(* The charts: lists, and what they have among them. *)

\* The first n places.
LEMMA UpTo ==
  ASSUME NEW n \in Nat
  PROVE  IsFiniteSet(1 .. n) /\ Cardinality(1 .. n) = n
<1>1. 1 \in Int /\ n \in Int
  OBVIOUS
<1>2. IsFiniteSet(1 .. n) /\ Cardinality(1 .. n) = IF 1 > n THEN 0 ELSE n - 1 + 1
  BY <1>1, FS_Interval
<1> QED
  BY <1>2

\* A function on 1 .. n is a list of n.
LEMMA ListIs ==
  ASSUME NEW S, NEW n \in Nat, NEW f \in [1 .. n -> S]
  PROVE  f \in Seq(S) /\ Len(f) = n /\ DOMAIN f = 1 .. n
<1>1. f \in Seq(S)
  BY SeqDef
<1>2. Len(f) \in Nat /\ DOMAIN f = 1 .. Len(f)
  BY <1>1, LenProperties
<1>3. 1 .. n = 1 .. Len(f)
  BY <1>2
<1>4. Cardinality(1 .. n) = n /\ Cardinality(1 .. Len(f)) = Len(f)
  BY <1>2, UpTo
<1> QED
  BY <1>1, <1>3, <1>4

\* What is read of a list of figures.
LEMMA FiguresAre ==
  ASSUME NEW v \in Seq(Nat)
  PROVE  /\ Len(v) \in Nat /\ DOMAIN v = 1 .. Len(v)
         /\ \A i \in 1 .. Len(v) : v[i] \in Nat
         /\ Sum(v) \in Nat /\ \A i \in 1 .. Len(v) : v[i] <= Sum(v)
         /\ v # <<>> => Len(v) > 0
<1>1. /\ Len(v) \in Nat /\ DOMAIN v = 1 .. Len(v)
      /\ \A i \in 1 .. Len(v) : v[i] \in Nat
  BY LenProperties, ElementOfSeq
<1>2. v # <<>> => Len(v) \in Nat \ {0}
  BY EmptySeq
<1> QED
  BY <1>1, <1>2, SumToNat DEF Sum

\* A list of some length is not empty.
LEMMA NotEmpty ==
  ASSUME NEW v \in Seq(Nat), Len(v) > 0
  PROVE  v # <<>>
BY EmptySeq

\* The figures of a list are finitely many.
LEMMA AmongIs ==
  ASSUME NEW v \in Seq(Nat)
  PROVE  /\ Among(v) \in SUBSET Nat /\ IsFiniteSet(Among(v))
         /\ v # <<>> => Among(v) # {}
         /\ \A x : x \in Among(v) <=> \E i \in 1 .. Len(v) : x = v[i]
<1>1. \A x : x \in Among(v) <=> \E i \in 1 .. Len(v) : x = v[i]
  BY FiguresAre DEF Among
<1>2. Among(v) \in SUBSET (0 .. Sum(v))
  <2> SUFFICES ASSUME NEW x \in Among(v) PROVE x \in 0 .. Sum(v)
    OBVIOUS
  <2>1. PICK i \in 1 .. Len(v) : x = v[i]
    BY <1>1
  <2> QED
    BY <2>1, FiguresAre
<1>3. IsFiniteSet(0 .. Sum(v))
  BY FiguresAre, FS_Interval
<1>4. IsFiniteSet(Among(v))
  BY <1>2, <1>3, FS_Subset
<1>5. v # <<>> => v[1] \in Among(v)
  <2> SUFFICES ASSUME v # <<>> PROVE 1 \in 1 .. Len(v)
    BY <1>1
  <2> QED
    BY FiguresAre
<1>6. Among(v) \in SUBSET Nat
  BY <1>2, FiguresAre
<1> QED
  BY <1>1, <1>4, <1>5, <1>6

\* The greatest and the least figure.
LEMMA AmongBounds ==
  ASSUME NEW v \in Seq(Nat), v # <<>>
  PROVE  /\ Max(Among(v)) \in Among(v) /\ Min(Among(v)) \in Among(v)
         /\ Max(Among(v)) \in Nat /\ Min(Among(v)) \in Nat
         /\ \A i \in 1 .. Len(v) : Min(Among(v)) <= v[i] /\ v[i] <= Max(Among(v))
<1> DEFINE A == Among(v)
<1>1. A \in SUBSET Nat /\ A # {} /\ IsFiniteSet(A) /\ \A i \in 1 .. Len(v) : v[i] \in A
  BY AmongIs
<1> HIDE DEF A
<1>2. Max(A) \in A /\ Min(A) \in A /\ \A x \in A : Min(A) <= x /\ x <= Max(A)
  BY <1>1, FiniteMax, MinIs
<1> QED
  BY <1>1, <1>2 DEF A

\* A part of a list.
LEMMA PartOf ==
  ASSUME NEW v \in Seq(Nat), NEW a \in Nat, NEW b \in Nat, a > 0, b <= Len(v)
  PROVE  /\ SubSeq(v, a, b) \in Seq(Nat)
         /\ Len(SubSeq(v, a, b)) = IF a <= b THEN b - a + 1 ELSE 0
         /\ \A i \in 1 .. b - a + 1 : SubSeq(v, a, b)[i] = v[a + i - 1]
<1>1. \A i \in a .. b : v[i] \in Nat
  <2> TAKE i \in a .. b
  <2>1. i \in 1 .. Len(v)
    BY FiguresAre
  <2> QED
    BY <2>1, FiguresAre
<1> QED
  BY <1>1, SubSeqProperties

\* What a part of a list adds up to.
LEMMA PartSum ==
  ASSUME NEW v \in Seq(Nat), NEW a \in Nat, NEW b \in Nat, a > 0, a <= b + 1, b <= Len(v)
  PROVE  SumTo(v, b) = SumTo(v, a - 1) + Sum(SubSeq(v, a, b))
<1> DEFINE m == a - 1
           n == b - a + 1
           w == SubSeq(v, a, b)
<1>1. m \in Nat /\ n \in Nat /\ m + n = b /\ Len(w) = n
  BY PartOf
<1>2. \A i \in 1 .. n : w[i] = v[m + i]
  <2> TAKE i \in 1 .. n
  <2>1. w[i] = v[a + i - 1] /\ a + i - 1 = m + i
    BY PartOf
  <2> QED
    BY <2>1
<1>3. \A i \in 1 .. m + n : v[i] \in Nat
  BY <1>1, FiguresAre
<1> HIDE DEF m, n, w
<1>4. SumTo(v, m + n) = SumTo(v, m) + SumTo(w, n)
  <2> DEFINE f == v
  <2>1. \A i \in 1 .. m + n : f[i] \in Nat
    BY <1>3
  <2>2. \A i \in 1 .. n : w[i] = f[m + i]
    BY <1>2
  <2> HIDE DEF f
  <2>3. SumTo(f, m + n) = SumTo(f, m) + SumTo(w, n)
    BY <1>1, <2>1, <2>2, SumToSplit
  <2> QED
    BY <2>3 DEF f
<1> QED
  BY <1>1, <1>4 DEF Sum, m, w

\* The first n figures.
LEMMA TopIs ==
  ASSUME NEW v \in Seq(Nat), NEW n \in Nat
  PROVE  LET m == IF n <= Len(v) THEN n ELSE Len(v)
         IN  /\ Top(v, n) \in Seq(Nat) /\ Len(Top(v, n)) = m
             /\ Top(v, n) = SubSeq(v, 1, m)
             /\ \A i \in 1 .. m : Top(v, n)[i] = v[i]
             /\ Sum(Top(v, n)) = SumTo(v, m)
<1> DEFINE m == IF n <= Len(v) THEN n ELSE Len(v)
<1>1. Len(v) \in Nat /\ m \in Nat /\ m <= Len(v)
  BY FiguresAre
<1>2. Min({n, Len(v)}) = m
  BY <1>1, MinOfTwo
<1> HIDE DEF m
<1>3. Top(v, n) = SubSeq(v, 1, m)
  BY <1>2 DEF Top
<1>4. /\ SubSeq(v, 1, m) \in Seq(Nat)
      /\ Len(SubSeq(v, 1, m)) = m
      /\ \A i \in 1 .. m : SubSeq(v, 1, m)[i] = v[i]
  <2>1. /\ SubSeq(v, 1, m) \in Seq(Nat)
        /\ Len(SubSeq(v, 1, m)) = IF 1 <= m THEN m - 1 + 1 ELSE 0
        /\ \A i \in 1 .. m - 1 + 1 : SubSeq(v, 1, m)[i] = v[1 + i - 1]
    BY <1>1, PartOf
  <2>2. m - 1 + 1 = m /\ \A i \in 1 .. m : 1 + i - 1 = i
    BY <1>1
  <2> QED
    BY <1>1, <2>1, <2>2
<1>5. SumTo(v, m) = SumTo(v, 1 - 1) + Sum(SubSeq(v, 1, m))
  BY <1>1, PartSum
<1>6. SumTo(v, 0) = 0 /\ Sum(SubSeq(v, 1, m)) \in Nat
  BY <1>4, SumToIs, FiguresAre
<1>7. Sum(SubSeq(v, 1, m)) = SumTo(v, m)
  BY <1>5, <1>6
<1> QED
  BY <1>3, <1>4, <1>7 DEF m

\* The last n figures.
LEMMA FinalIs ==
  ASSUME NEW v \in Seq(Nat), NEW n \in Nat, n > 0,
         NEW m, m = IF n <= Len(v) THEN n ELSE Len(v)
  PROVE  /\ Final(v, n) \in Seq(Nat) /\ Len(Final(v, n)) = m
         /\ \A i \in 1 .. m : Final(v, n)[i] = v[Len(v) - m + i]
<1> DEFINE l == Len(v)
           k == IF n <= l THEN n ELSE l
           a == l - k + 1
<1>1. m = k
  OBVIOUS
<1>2. l \in Nat
  BY FiguresAre
<1> HIDE DEF l
<1>3. l \in Nat /\ k \in Nat /\ k <= l /\ a \in Nat /\ a > 0 /\ l - a + 1 = k /\ (a <= l <=> k > 0)
  BY <1>2
<1>4. Final(v, n) = SubSeq(v, a, l)
  <2>1. l - n + 1 \in Int
    BY <1>3
  <2>2. Max({1, l - n + 1}) = IF 1 >= l - n + 1 THEN 1 ELSE l - n + 1
    BY <2>1, MaxOfTwo
  <2>3. CASE l >= 1
    <3>1. Max({1, l - n + 1}) = a
      BY <1>3, <2>2, <2>3
    <3> QED
      BY <3>1 DEF Final, l
  <2>4. CASE l = 0
    <3>1. Max({1, l - n + 1}) = 1 /\ a = 1
      BY <1>3, <2>2, <2>4
    <3> QED
      BY <3>1 DEF Final, l
  <2> QED
    BY <1>3, <2>3, <2>4
<1>5. /\ SubSeq(v, a, l) \in Seq(Nat)
      /\ Len(SubSeq(v, a, l)) = IF a <= l THEN l - a + 1 ELSE 0
      /\ \A i \in 1 .. l - a + 1 : SubSeq(v, a, l)[i] = v[a + i - 1]
  <2> HIDE DEF a
  <2> QED
    BY <1>3, PartOf DEF l
<1>6. Len(SubSeq(v, a, l)) = k
  BY <1>3, <1>5
<1>7. \A i \in 1 .. k : SubSeq(v, a, l)[i] = v[l - k + i]
  <2> TAKE i \in 1 .. k
  <2>1. i \in 1 .. l - a + 1 /\ a + i - 1 = l - k + i
    BY <1>3
  <2> QED
    BY <1>5, <2>1
<1> QED
  BY <1>1, <1>4, <1>5, <1>6, <1>7 DEF l

\* The greatest figure, or one if there is none: what bars are drawn against.
LEMMA PeakIs ==
  ASSUME NEW v \in Seq(Nat)
  PROVE  Peak(v) \in Nat /\ Peak(v) > 0 /\ \A i \in 1 .. Len(v) : v[i] <= Peak(v)
<1> DEFINE A == Among(v) \cup {1}
<1>1. A \in SUBSET Nat /\ A # {} /\ 1 \in A /\ \A i \in 1 .. Len(v) : v[i] \in A
  BY AmongIs
<1>2. IsFiniteSet(A)
  BY AmongIs, FS_AddElement
<1>3. Peak(v) = Max(A)
  BY DEF Peak
<1> HIDE DEF A
<1> DEFINE top == Max(A)
<1>4. top \in A /\ \A n \in A : n <= top
  BY <1>1, <1>2, FiniteMax
<1> HIDE DEF top
<1>5. top \in Nat /\ 1 <= top /\ \A i \in 1 .. Len(v) : v[i] <= top
  BY <1>1, <1>4
<1> QED
  BY <1>3, <1>5 DEF top

\* Bars keep to their scale.
LEMMA BarsFit ==
  ASSUME NEW v \in Seq(Nat)
  PROVE  \A b \in Among(Bars(v)) : Fits(b)
<1>1. \A i \in DOMAIN v : v[i] \in Nat /\ v[i] <= Peak(v) /\ Peak(v) \in Nat /\ Peak(v) > 0
  BY FiguresAre, PeakIs
<1>2. ASSUME NEW b \in Among(Bars(v)) PROVE Fits(b)
  <2>1. PICK i \in DOMAIN v : b = [part |-> v[i], whole |-> Peak(v)]
    BY DEF Among, Bars
  <2>2. b.part = v[i] /\ b.whole = Peak(v)
    BY <2>1
  <2> QED
    BY <1>1, <2>2 DEF Fits
<1> QED
  BY <1>2

\* Numbers that are bounded on both sides have a least and a greatest one.
LEMMA SpreadIs ==
  ASSUME NEW S \in SUBSET Int, S # {}, NEW a \in Nat, NEW b \in Nat,
         \A x \in S : -a <= x /\ x <= b
  PROVE  /\ Max(S) \in S /\ Min(S) \in S
         /\ \A x \in S : Min(S) <= x /\ x <= Max(S)
<1> DEFINE bound == a + b
           R == {r \in 0 .. bound : r - a \in S}
<1>1. bound \in Nat /\ R \in SUBSET (0 .. bound) /\ R \in SUBSET Nat
  OBVIOUS
<1>2. ASSUME NEW x \in S PROVE x + a \in R
  <2>1. x \in Int /\ x + a \in 0 .. bound /\ (x + a) - a = x
    BY <1>2
  <2> QED
    BY <2>1
<1>3. \A r \in R : r - a \in S /\ r \in Nat
  OBVIOUS
<1> HIDE DEF R, bound
<1>4. R # {}
  BY <1>2
<1> DEFINE top == Max(R)
           low == Min(R)
<1>5. top \in R /\ \A r \in R : r <= top
  BY <1>1, <1>4, MaxIs
<1>6. low \in R /\ \A r \in R : low <= r
  BY <1>1, <1>4, MinIs
<1> HIDE DEF top, low
<1>7. top - a \in S /\ \A x \in S : top - a >= x
  <2>1. \A x \in S : x + a <= top /\ x \in Int /\ top \in Nat
    BY <1>2, <1>3, <1>5
  <2> QED
    BY <1>3, <1>5, <2>1
<1>8. low - a \in S /\ \A x \in S : low - a <= x
  <2>1. \A x \in S : low <= x + a /\ x \in Int /\ low \in Nat
    BY <1>2, <1>3, <1>6
  <2> QED
    BY <1>3, <1>6, <2>1
<1>9. Max(S) \in S /\ \A x \in S : Max(S) >= x
  BY <1>7 DEF Max
<1>10. Min(S) \in S /\ \A x \in S : Min(S) <= x
  BY <1>8 DEF Min
<1> QED
  BY <1>9, <1>10

\* Curves keep to their scale, below zero too.
LEMMA CurveInside ==
  ASSUME NEW l \in Nat, NEW v \in [1 .. l -> Int], NEW a \in Nat, NEW b \in Nat,
         \A i \in 1 .. l : -a <= v[i] /\ v[i] <= b
  PROVE  CurveFits(Curve(v))
<1> DEFINE V == {v[i] : i \in 1 .. l}
           A == V \cup {0}
           P == V \cup {1}
           low == Min(A)
           top == Max(P)
           wide == Max({l - 1, 1})
<1>1. Len(v) = l /\ DOMAIN v = 1 .. l
  BY ListIs
<1>2. Among(v) = V
  BY <1>1 DEF Among
<1>3. A \in SUBSET Int /\ P \in SUBSET Int /\ \A i \in 1 .. l : v[i] \in A /\ v[i] \in P
  OBVIOUS
<1> DEFINE bound == b + 1
<1>4. /\ bound \in Nat /\ A # {} /\ P # {}
      /\ \A x \in A : -a <= x /\ x <= bound
      /\ \A x \in P : -a <= x /\ x <= bound
  OBVIOUS
<1>5. Peak(v) = top /\ Min(Among(v) \cup {0}) = low
  BY <1>2 DEF Peak
<1>6. Curve(v) = [i \in 1 .. l |-> [across |-> i - 1, width |-> wide,
                                    part |-> v[i] - low, whole |-> top - low]]
  BY <1>1, <1>5 DEF Curve
<1>7. 0 \in A /\ 1 \in P
  OBVIOUS
<1> HIDE DEF A, P, V, bound
<1>8. low \in A /\ \A x \in A : low <= x
  BY <1>3, <1>4, <1>7, SpreadIs
<1>9. top \in P /\ \A x \in P : x <= top
  BY <1>3, <1>4, <1>7, SpreadIs
<1> HIDE DEF low, top
<1>10. /\ low \in Int /\ top \in Int /\ low <= 0 /\ 1 <= top
       /\ \A i \in 1 .. l : v[i] \in Int /\ low <= v[i] /\ v[i] <= top
  BY <1>3, <1>7, <1>8, <1>9
<1>11. wide = IF l - 1 >= 1 THEN l - 1 ELSE 1
  <2>1. l - 1 \in Int /\ 1 \in Int
    OBVIOUS
  <2> QED
    BY <2>1, MaxOfTwo
<1> HIDE DEF wide
<1>12. \A i \in 1 .. l : wide > 0 /\ i - 1 \in 0 .. wide
  BY <1>11
<1>13. ASSUME NEW i \in 1 .. l
       PROVE  Fits(Curve(v)[i]) /\ Fits([part |-> Curve(v)[i].across,
                                         whole |-> Curve(v)[i].width])
  <2>1. /\ Curve(v)[i].part = v[i] - low /\ Curve(v)[i].whole = top - low
        /\ Curve(v)[i].across = i - 1 /\ Curve(v)[i].width = wide
    BY <1>6
  <2>2. top - low > 0 /\ v[i] - low \in 0 .. top - low
    BY <1>10
  <2> QED
    BY <1>12, <2>1, <2>2 DEF Fits
<1> QED
  BY <1>6, <1>13 DEF CurveFits
-----------------------------------------------------------------------------
(* The charts: pies. *)

\* The slices of a pie meet, and end at the sum.
LEMMA SlicesClose ==
  ASSUME NEW v \in Seq(Nat)
  PROVE  Closes(Slices(v), Sum(v))
<1> DEFINE l == Len(v)
           pie == Slices(v)
<1>1. /\ l \in Nat /\ DOMAIN pie = 1 .. l
      /\ \A i \in 1 .. l : pie[i].from = SumTo(v, i - 1) /\ pie[i].to = SumTo(v, i)
  BY FiguresAre DEF Slices
<1>2. pie \in Seq([from : {SumTo(v, i - 1) : i \in 1 .. l}, to : {SumTo(v, i) : i \in 1 .. l}])
      /\ Len(pie) = l
  <2>1. pie \in [1 .. l -> [from : {SumTo(v, i - 1) : i \in 1 .. l},
                            to : {SumTo(v, i) : i \in 1 .. l}]]
    BY FiguresAre DEF Slices
  <2> HIDE DEF pie
  <2> QED
    BY <1>1, <2>1, ListIs
<1>3. Sum(v) = SumTo(v, l)
  BY DEF Sum
<1>4. \A i \in 1 .. l : SumTo(v, i - 1) <= SumTo(v, i)
  <2> TAKE i \in 1 .. l
  <2>1. SumTo(v, (i - 1) + 1) = SumTo(v, i - 1) + v[(i - 1) + 1]
    BY <1>1, SumToStep
  <2>2. i - 1 \in Nat /\ (i - 1) + 1 = i /\ v[i] \in Nat
    BY <1>1, FiguresAre
  <2>3. SumTo(v, i - 1) \in Nat
    <3> DEFINE m == i - 1
               f == v
    <3>1. m \in Nat /\ \A k \in 1 .. m : f[k] \in Nat
      BY <1>1, FiguresAre
    <3> HIDE DEF m, f
    <3>2. SumTo(f, m) \in Nat
      BY <3>1, SumToNat
    <3> QED
      BY <3>2 DEF m, f
  <2> QED
    BY <2>1, <2>2, <2>3
<1>5. SumTo(v, 0) = 0
  BY SumToIs
<1>6. pie # <<>> => l > 0
  BY <1>1, <1>2, EmptySeq
<1> HIDE DEF pie, l
<1>7. ASSUME NEW i \in 1 .. l
      PROVE  /\ pie[i].from = (IF i = 1 THEN 0 ELSE pie[i - 1].to)
             /\ pie[i].from <= pie[i].to
  <2>1. i = 1 => i - 1 = 0
    OBVIOUS
  <2>2. i # 1 => i - 1 \in 1 .. l
    BY <1>1
  <2> QED
    BY <1>1, <1>4, <1>5, <2>1, <2>2
<1>8. pie # <<>> => pie[Len(pie)].to = Sum(v)
  BY <1>1, <1>2, <1>3, <1>6
<1>9. Closes(pie, Sum(v))
  BY <1>1, <1>7, <1>8 DEF Closes
<1> QED
  BY <1>9 DEF pie

\* A list of four.
LEMMA SumOfFour ==
  ASSUME NEW f \in Seq(Nat), Len(f) = 4
  PROVE  Sum(f) = f[1] + f[2] + f[3] + f[4]
<1>1. f[1] \in Nat /\ f[2] \in Nat /\ f[3] \in Nat /\ f[4] \in Nat
  BY FiguresAre
<1> DEFINE g == f
<1>2. g[1] \in Nat /\ g[2] \in Nat /\ g[3] \in Nat /\ g[4] \in Nat
  BY <1>1
<1>3. Sum(f) = SumTo(g, 4)
  BY DEF Sum
<1> HIDE DEF g
<1>4. /\ SumTo(g, 0 + 1) = SumTo(g, 0) + g[0 + 1] /\ SumTo(g, 1 + 1) = SumTo(g, 1) + g[1 + 1]
      /\ SumTo(g, 2 + 1) = SumTo(g, 2) + g[2 + 1] /\ SumTo(g, 3 + 1) = SumTo(g, 3) + g[3 + 1]
  BY SumToStep
<1>5. SumTo(g, 0) = 0
  BY SumToIs
<1>6. SumTo(g, 4) = g[1] + g[2] + g[3] + g[4]
  BY <1>2, <1>4, <1>5
<1> QED
  BY <1>3, <1>6 DEF g
-----------------------------------------------------------------------------
(* The charts: ranking. *)

\* The places of the figures of x and more.
Reach(v, x) == {i \in 1 .. Len(v) : v[i] >= x}

\* They are counted.
LEMMA AtLeastIs ==
  ASSUME NEW v \in Seq(Nat), NEW x \in Nat
  PROVE  /\ AtLeast(v, x) = Cardinality(Reach(v, x)) /\ IsFiniteSet(Reach(v, x))
         /\ AtLeast(v, x) \in Nat /\ AtLeast(v, x) <= Len(v)
<1>1. DOMAIN v = 1 .. Len(v) /\ Len(v) \in Nat
  BY FiguresAre
<1>2. AtLeast(v, x) = Cardinality(Reach(v, x))
  BY <1>1 DEF AtLeast, CountOf, Reach
<1>3. IsFiniteSet(1 .. Len(v)) /\ Cardinality(1 .. Len(v)) = Len(v)
  BY <1>1, UpTo
<1>4. Reach(v, x) \in SUBSET (1 .. Len(v))
  BY DEF Reach
<1>5. IsFiniteSet(Reach(v, x)) /\ Cardinality(Reach(v, x)) <= Len(v)
  BY <1>3, <1>4, FS_Subset
<1> QED
  BY <1>2, <1>5, FS_CardinalityType

\* More figures reach less.
LEMMA AtLeastFalls ==
  ASSUME NEW v \in Seq(Nat), NEW x \in Nat, NEW y \in Nat, x <= y
  PROVE  AtLeast(v, y) <= AtLeast(v, x)
<1>1. Reach(v, y) \in SUBSET Reach(v, x)
  BY FiguresAre DEF Reach
<1> QED
  BY <1>1, AtLeastIs, FS_Subset

\* At each place there is a figure that so many reach, and not that many exceed.
LEMMA RankExists ==
  ASSUME NEW v \in Seq(Nat), NEW i \in 1 .. Len(v)
  PROVE  \E x \in Among(v) : AtLeast(v, x + 1) < i /\ i <= AtLeast(v, x)
<1> DEFINE good == {x \in Among(v) : i <= AtLeast(v, x)}
           low == Min(Among(v))
<1>1. v # <<>> /\ i \in Nat /\ Len(v) \in Nat /\ i <= Len(v)
  <2>1. Len(v) \in Nat
    BY FiguresAre
  <2>2. v # <<>>
    BY EmptySeq, <2>1
  <2> QED
    BY <2>1, <2>2
<1>2. Among(v) \in SUBSET Nat /\ IsFiniteSet(Among(v))
  BY AmongIs
<1>3. low \in good
  <2>1. low \in Among(v) /\ low \in Nat /\ \A k \in 1 .. Len(v) : low <= v[k]
    BY <1>1, AmongBounds
  <2> HIDE DEF low
  <2>2. Reach(v, low) = 1 .. Len(v)
    BY <2>1, FiguresAre DEF Reach
  <2>3. AtLeast(v, low) = Len(v)
    <3>1. Cardinality(1 .. Len(v)) = Len(v)
      BY <1>1, UpTo
    <3> QED
      BY <2>1, <2>2, <3>1, AtLeastIs
  <2> QED
    BY <1>1, <2>1, <2>3
<1>4. good \in SUBSET Nat /\ IsFiniteSet(good) /\ good # {}
  BY <1>2, <1>3, FS_Subset
<1> DEFINE x == Max(good)
<1>5. x \in good /\ \A y \in good : y <= x
  <2> HIDE DEF good
  <2> QED
    BY <1>4, FiniteMax
<1> HIDE DEF x
<1>6. x \in Nat /\ x + 1 \in Nat
  BY <1>2, <1>5
<1>7. ASSUME AtLeast(v, x + 1) >= i PROVE FALSE
  <2> DEFINE above == {y \in Among(v) : y >= x + 1}
  <2>1. above # {}
    <3>1. Reach(v, x + 1) # {}
      <4>1. AtLeast(v, x + 1) \in Nat /\ AtLeast(v, x + 1) = Cardinality(Reach(v, x + 1))
        BY <1>6, AtLeastIs
      <4>2. AtLeast(v, x + 1) # 0
        BY <1>1, <1>7, <4>1
      <4> QED
        BY <4>1, <4>2, FS_EmptySet
    <3>2. PICK k \in Reach(v, x + 1) : TRUE
      BY <3>1
    <3>3. k \in 1 .. Len(v) /\ v[k] >= x + 1
      BY <3>2 DEF Reach
    <3> QED
      BY <3>3, AmongIs
  <2>2. PICK y \in above : \A z \in above : y <= z
    <3>1. above \in SUBSET Nat
      BY <1>2
    <3> HIDE DEF above
    <3> QED
      BY <2>1, <3>1, Least
  <2>3. y \in Among(v) /\ y \in Nat /\ y >= x + 1
    BY <1>2, <2>2
  <2>4. Reach(v, y) = Reach(v, x + 1)
    <3>1. ASSUME NEW k \in 1 .. Len(v) PROVE v[k] >= y <=> v[k] >= x + 1
      <4>1. v[k] \in Among(v) /\ v[k] \in Nat
        BY AmongIs, FiguresAre
      <4>2. v[k] >= x + 1 => y <= v[k]
        BY <2>2, <4>1
      <4> QED
        BY <1>6, <2>3, <4>1, <4>2
    <3> QED
      BY <3>1 DEF Reach
  <2>5. AtLeast(v, y) = AtLeast(v, x + 1)
    BY <1>6, <2>3, <2>4, AtLeastIs
  <2>6. y \in good
    BY <1>7, <2>3, <2>5, <1>1, <1>6, AtLeastIs
  <2>7. y <= x
    BY <1>5, <2>6
  <2> QED
    BY <1>6, <2>3, <2>7
<1>8. AtLeast(v, x + 1) \in Nat /\ i \in Nat
  BY <1>1, <1>6, AtLeastIs
<1>9. x \in Among(v) /\ i <= AtLeast(v, x) /\ AtLeast(v, x + 1) < i
  BY <1>5, <1>7, <1>8
<1> QED
  BY <1>9

\* The ranked list has the length of the other, and reaches what it reaches.
LEMMA RankedIs ==
  ASSUME NEW v \in Seq(Nat)
  PROVE  /\ Ranked(v) \in Seq(Nat) /\ Len(Ranked(v)) = Len(v)
         /\ \A i \in 1 .. Len(v) : /\ Ranked(v)[i] \in Among(v)
                                   /\ AtLeast(v, Ranked(v)[i] + 1) < i
                                   /\ i <= AtLeast(v, Ranked(v)[i])
<1> DEFINE r == Ranked(v)
           At(i) == CHOOSE x \in Among(v) : AtLeast(v, x + 1) < i /\ i <= AtLeast(v, x)
           l == Len(v)
<1>1. l \in Nat /\ r = [i \in 1 .. l |-> At(i)]
  BY FiguresAre DEF Ranked
<1>2. ASSUME NEW i \in 1 .. l
      PROVE  At(i) \in Among(v) /\ AtLeast(v, At(i) + 1) < i /\ i <= AtLeast(v, At(i))
  BY RankExists
<1>3. \A i \in 1 .. l : At(i) \in Nat
  BY <1>2, AmongIs
<1> HIDE DEF At, r, l
<1>4. r \in [1 .. l -> Nat]
  BY <1>1, <1>3
<1>5. r \in Seq(Nat) /\ Len(r) = l
  BY <1>1, <1>4, ListIs
<1>6. \A i \in 1 .. l : r[i] = At(i)
  BY <1>1
<1>7. \A i \in 1 .. l : r[i] \in Among(v) /\ AtLeast(v, r[i] + 1) < i /\ i <= AtLeast(v, r[i])
  BY <1>2, <1>6
<1> QED
  BY <1>5, <1>7 DEF r, l

\* At the first places, and nowhere else, it has k or more.
LEMMA RankedReach ==
  ASSUME NEW v \in Seq(Nat), NEW k \in Nat
  PROVE  /\ \A i \in 1 .. Len(v) : Ranked(v)[i] >= k <=> i <= AtLeast(v, k)
         /\ AtLeast(Ranked(v), k) = AtLeast(v, k)
<1> DEFINE r == Ranked(v)
           l == Len(v)
           n == AtLeast(v, k)
<1>1. r \in Seq(Nat) /\ Len(r) = l /\ l \in Nat /\ n \in Nat /\ n <= l
  BY RankedIs, FiguresAre, AtLeastIs
<1>2. ASSUME NEW i \in 1 .. l PROVE r[i] >= k <=> i <= n
  <2> DEFINE x == r[i]
  <2>1. x \in Nat /\ AtLeast(v, x + 1) < i /\ i <= AtLeast(v, x)
    BY RankedIs, AmongIs
  <2> HIDE DEF r, l, x
  <2>2. AtLeast(v, x) \in Nat /\ AtLeast(v, x + 1) \in Nat /\ i \in Nat
    BY <1>1, <2>1, AtLeastIs
  <2>3. CASE x >= k
    <3>1. AtLeast(v, x) <= n
      BY <2>1, <2>3, AtLeastFalls
    <3> HIDE DEF n
    <3> QED
      BY <1>1, <2>1, <2>2, <2>3, <3>1 DEF x
  <2>4. CASE x < k
    <3>1. n <= AtLeast(v, x + 1)
      BY <2>1, <2>4, AtLeastFalls
    <3> HIDE DEF n
    <3>2. n < i
      BY <1>1, <2>1, <2>2, <3>1
    <3> QED
      BY <1>1, <2>1, <2>2, <2>4, <3>2 DEF x
  <2> QED
    BY <2>1, <2>3, <2>4
<1>3. Reach(r, k) = 1 .. n
  <2> HIDE DEF r, l, n
  <2> QED
    BY <1>1, <1>2 DEF Reach
<1>4. Cardinality(1 .. n) = n
  BY <1>1, FS_Interval
<1>5. AtLeast(r, k) = n
  BY <1>1, <1>3, <1>4, AtLeastIs
<1> QED
  BY <1>2, <1>5

\* It falls.
LEMMA RankedFalls ==
  ASSUME NEW v \in Seq(Nat), NEW i \in 1 .. Len(v), NEW j \in 1 .. Len(v), i <= j
  PROVE  Ranked(v)[j] <= Ranked(v)[i]
<1> DEFINE r == Ranked(v)
           k == r[j]
<1>1. k \in Nat /\ r[i] \in Nat
  BY RankedIs, AmongIs
<1>2. j <= AtLeast(v, k)
  BY RankedIs
<1>3. AtLeast(v, k) \in Nat /\ i \in Nat /\ j \in Nat
  <2>1. Len(v) \in Nat
    BY FiguresAre
  <2>2. i \in Nat /\ j \in Nat
    BY <2>1
  <2> HIDE DEF k
  <2>3. AtLeast(v, k) \in Nat
    BY <1>1, AtLeastIs
  <2> QED
    BY <2>2, <2>3
<1>4. i <= AtLeast(v, k)
  BY <1>2, <1>3
<1>5. r[i] >= k
  BY <1>1, <1>4, RankedReach
<1> QED
  BY <1>1, <1>5

\* Two lists of one length that reach the same have the same sum: cut off at any
\* height they have, and at some height nothing is cut.
Cut(v, k) == [i \in 1 .. Len(v) |-> IF v[i] >= k THEN k ELSE v[i]]

\* Cutting one higher adds one at the places that reach it.
LEMMA CutStep ==
  ASSUME NEW v \in Seq(Nat), NEW k \in Nat
  PROVE  /\ SumTo(Cut(v, k + 1), Len(v)) = SumTo(Cut(v, k), Len(v)) + AtLeast(v, k + 1)
         /\ SumTo(Cut(v, k), Len(v)) \in Nat
<1> DEFINE n == Len(v)
           f == Cut(v, k)
           g == Cut(v, k + 1)
           S == Reach(v, k + 1)
<1>1. n \in Nat /\ \A i \in 1 .. n : v[i] \in Nat
  BY FiguresAre
<1>2. S \in SUBSET (1 .. n) /\ \A i \in 1 .. n : i \in S <=> v[i] >= k + 1
  BY DEF Reach
<1>3. \A i \in 1 .. n : /\ f[i] = (IF v[i] >= k THEN k ELSE v[i])
                        /\ g[i] = (IF v[i] >= k + 1 THEN k + 1 ELSE v[i])
  BY DEF Cut
<1>4. AtLeast(v, k + 1) = Cardinality(S)
  BY AtLeastIs
<1> HIDE DEF n, f, g, S
<1>5. \A i \in 1 .. n : f[i] \in Nat /\ g[i] = f[i] + (IF i \in S THEN 1 ELSE 0)
  BY <1>1, <1>2, <1>3
<1>6. SumTo(g, n) = SumTo(f, n) + Cardinality(S)
  BY <1>1, <1>2, <1>5, SumToCounts
<1>7. SumTo(f, n) \in Nat
  BY <1>1, <1>5, SumToNat
<1> QED
  BY <1>4, <1>6, <1>7 DEF n, f, g

\* Cutting at zero leaves nothing, cutting at a bound everything.
LEMMA CutEnds ==
  ASSUME NEW v \in Seq(Nat)
  PROVE  /\ SumTo(Cut(v, 0), Len(v)) = 0
         /\ \A k \in Nat : k >= Sum(v) => SumTo(Cut(v, k), Len(v)) = Sum(v)
<1> DEFINE n == Len(v)
<1>1. n \in Nat /\ \A i \in 1 .. n : v[i] \in Nat /\ v[i] <= Sum(v)
  BY FiguresAre
<1>2. SumTo(Cut(v, 0), n) = 0
  <2> DEFINE f == Cut(v, 0)
  <2>1. \A i \in 1 .. n : f[i] = 0
    BY <1>1 DEF Cut
  <2> HIDE DEF f, n
  <2> DEFINE zero == 0
  <2>2. zero \in Nat /\ \A i \in 1 .. n : f[i] \in Nat /\ zero <= f[i] /\ f[i] <= zero
    BY <2>1
  <2>4. zero * n = 0
    BY <1>1
  <2> HIDE DEF zero
  <2>5. zero * n <= SumTo(f, n) /\ SumTo(f, n) <= zero * n
    BY <1>1, <2>2, SumToBounds
  <2>3. SumTo(f, n) \in Nat
    BY <1>1, <2>1, SumToNat
  <2> QED
    BY <2>3, <2>4, <2>5 DEF f, n
<1>3. ASSUME NEW k \in Nat, k >= Sum(v) PROVE SumTo(Cut(v, k), n) = Sum(v)
  <2> DEFINE f == Cut(v, k)
             g == v
  <2>1. Sum(v) \in Nat
    BY FiguresAre
  <2>2. \A i \in 1 .. n : f[i] = v[i]
    <3> TAKE i \in 1 .. n
    <3>1. v[i] \in Nat /\ v[i] <= k
      BY <1>1, <1>3, <2>1
    <3>2. f[i] = IF v[i] >= k THEN k ELSE v[i]
      BY DEF Cut
    <3> QED
      BY <3>1, <3>2
  <2>3. \A i \in 1 .. n : f[i] = g[i]
    BY <2>2
  <2>4. Sum(v) = SumTo(g, n)
    BY DEF Sum
  <2> HIDE DEF f, g, n
  <2> QED
    BY <1>1, <2>3, <2>4, SumToSame DEF f
<1> QED
  BY <1>2, <1>3

\* Hence the ranked list has the sum of the other.
LEMMA RankedSum ==
  ASSUME NEW v \in Seq(Nat)
  PROVE  Sum(Ranked(v)) = Sum(v)
<1> DEFINE r == Ranked(v)
           n == Len(v)
           a(k) == SumTo(Cut(v, k), n)
           b(k) == SumTo(Cut(r, k), n)
<1>1. r \in Seq(Nat) /\ Len(r) = n /\ Sum(v) \in Nat /\ Sum(r) \in Nat
  <2>1. r \in Seq(Nat) /\ Len(r) = n
    BY RankedIs
  <2> HIDE DEF r
  <2> QED
    BY <2>1, FiguresAre
<1>2. \A k \in Nat : AtLeast(r, k) = AtLeast(v, k)
  BY RankedReach
<1> HIDE DEF r
<1>3. /\ a(0) = 0 /\ \A k \in Nat : k >= Sum(v) => a(k) = Sum(v)
      /\ b(0) = 0 /\ \A k \in Nat : k >= Sum(r) => b(k) = Sum(r)
  BY <1>1, CutEnds
<1>4. \A k \in Nat : /\ a(k + 1) = a(k) + AtLeast(v, k + 1)
                     /\ b(k + 1) = b(k) + AtLeast(r, k + 1)
  BY <1>1, CutStep
<1> DEFINE bad == {k \in Nat : a(k) # b(k)}
<1>5. bad = {}
  <2>1. SUFFICES ASSUME bad # {} PROVE FALSE
    OBVIOUS
  <2>2. PICK k \in bad : \A i \in bad : k <= i
    <3>1. bad \in SUBSET Nat
      OBVIOUS
    <3> HIDE DEF bad
    <3> QED
      BY <2>1, <3>1, Least
  <2>3. k \in Nat /\ a(k) # b(k)
    BY <2>2
  <2>4. k # 0
    BY <1>3, <2>3
  <2>5. k - 1 \in Nat /\ (k - 1) + 1 = k
    BY <2>3, <2>4
  <2>6. k - 1 \notin bad
    BY <2>2, <2>5
  <2>7. a(k - 1) = b(k - 1)
    BY <2>5, <2>6
  <2>8. a((k - 1) + 1) = b((k - 1) + 1)
    BY <1>2, <1>4, <2>5, <2>7
  <2> QED
    BY <2>3, <2>5, <2>8
<1>6. \A k \in Nat : a(k) = b(k)
  BY <1>5
<1> HIDE DEF a, b, bad
<1> DEFINE k == Sum(v) + Sum(r)
<1>7. k \in Nat /\ k >= Sum(v) /\ k >= Sum(r)
  BY <1>1
<1> HIDE DEF k
<1>8. Sum(v) = Sum(r)
  BY <1>3, <1>6, <1>7
<1> QED
  BY <1>8 DEF r
-----------------------------------------------------------------------------
(* The charts: every row is counted once. *)

\* One figure more.
LEMMA AppendSum ==
  ASSUME NEW v \in Seq(Nat), NEW x \in Nat
  PROVE  /\ Append(v, x) \in Seq(Nat) /\ Len(Append(v, x)) = Len(v) + 1
         /\ Sum(Append(v, x)) = Sum(v) + x
<1> DEFINE f == v
           g == Append(v, x)
           n == Len(v)
<1>1. g \in Seq(Nat) /\ Len(g) = n + 1 /\ n \in Nat
  BY FiguresAre
<1>2. (\A i \in 1 .. n : g[i] = f[i]) /\ g[n + 1] = x
  BY FiguresAre
<1>3. Sum(v) = SumTo(f, n)
  BY DEF Sum
<1>4. Sum(g) = SumTo(g, n + 1)
  BY <1>1 DEF Sum
<1> HIDE DEF f, g, n
<1>5. SumTo(g, n + 1) = SumTo(g, n) + g[n + 1]
  BY <1>1, SumToStep
<1>6. SumTo(g, n) = SumTo(f, n)
  BY <1>1, <1>2, SumToSame
<1>7. Sum(g) = Sum(v) + x
  BY <1>2, <1>3, <1>4, <1>5, <1>6
<1> QED
  BY <1>1, <1>7 DEF g, n

\* The four largest stations and the others.
LEMMA DeviceGroupsClose ==
  ASSUME NEW v \in Seq(Nat)
  PROVE  Closes(Slices(DeviceGroups(v)), Sum(v))
<1> DEFINE r == Ranked(v)
           n == Len(r)
           rest == SubSeq(r, 5, n)
           four == Top(r, 4)
<1>1. r \in Seq(Nat) /\ Sum(r) = Sum(v)
  BY RankedIs, RankedSum
<1>2. DeviceGroups(v) = Append(four, Sum(rest))
  BY DEF DeviceGroups
<1> HIDE DEF r
<1>3. n \in Nat /\ Sum(r) = SumTo(r, n)
  BY <1>1, FiguresAre DEF Sum
<1>4. rest \in Seq(Nat) /\ Len(rest) = IF 5 <= n THEN n - 5 + 1 ELSE 0
  BY <1>1, <1>3, PartOf
<1>5. /\ four \in Seq(Nat)
      /\ Sum(four) = SumTo(r, IF 4 <= n THEN 4 ELSE n)
  BY <1>1, TopIs
<1>6. Sum(four) + Sum(rest) = Sum(r)
  <2>1. CASE 4 <= n
    <3>1. SumTo(r, n) = SumTo(r, 5 - 1) + Sum(rest)
      BY <1>1, <1>3, <2>1, PartSum
    <3> QED
      BY <1>3, <1>5, <2>1, <3>1
  <2>2. CASE ~(4 <= n)
    <3>1. Len(rest) = 0
      BY <1>3, <1>4, <2>2
    <3>2. Sum(rest) = 0
      BY <3>1, SumToIs DEF Sum
    <3>3. Sum(four) = Sum(r) /\ Sum(r) \in Nat
      BY <1>1, <1>3, <1>5, <2>2, FiguresAre
    <3> HIDE DEF rest, four
    <3> QED
      BY <3>2, <3>3
  <2> QED
    BY <2>1, <2>2
<1>7. Sum(rest) \in Nat
  BY <1>4, FiguresAre
<1> HIDE DEF rest, four
<1>8. /\ Append(four, Sum(rest)) \in Seq(Nat)
      /\ Sum(Append(four, Sum(rest))) = Sum(v)
  BY <1>1, <1>5, <1>6, <1>7, AppendSum
<1> HIDE DEF n
<1> QED
  BY <1>2, <1>8, SlicesClose

\* Two classes that share nothing.
LEMMA TwoClasses ==
  ASSUME NEW A, NEW B, IsFiniteSet(A), IsFiniteSet(B), A \cap B = {}
  PROVE  IsFiniteSet(A \cup B) /\ Cardinality(A \cup B) = Cardinality(A) + Cardinality(B)
<1> DEFINE both == A \cap B
<1>1. /\ IsFiniteSet(A \cup B)
      /\ Cardinality(A \cup B) = Cardinality(A) + Cardinality(B) - Cardinality(both)
  BY FS_Union
<1>2. both = {}
  OBVIOUS
<1>3. Cardinality(both) = 0
  BY <1>2, FS_EmptySet
<1>4. Cardinality(A) \in Nat /\ Cardinality(B) \in Nat
  BY FS_CardinalityType
<1> HIDE DEF both
<1> QED
  BY <1>1, <1>3, <1>4

\* Four classes that share nothing and leave nothing out.
LEMMA FourClasses ==
  ASSUME NEW S, IsFiniteSet(S), NEW A, NEW B, NEW C, NEW D, NEW f,
         f = <<Cardinality(A), Cardinality(B), Cardinality(C), Cardinality(D)>>,
         S = A \cup B \cup C \cup D,
         A \cap B = {}, A \cap C = {}, A \cap D = {}, B \cap C = {}, B \cap D = {},
         C \cap D = {}
  PROVE  f \in Seq(Nat) /\ Sum(f) = Cardinality(S)
<1>1. IsFiniteSet(A) /\ IsFiniteSet(B) /\ IsFiniteSet(C) /\ IsFiniteSet(D)
  BY FS_Subset
<1>2. /\ Cardinality(A) \in Nat /\ Cardinality(B) \in Nat
      /\ Cardinality(C) \in Nat /\ Cardinality(D) \in Nat
  BY <1>1, FS_CardinalityType
<1> DEFINE AB == A \cup B
           ABC == AB \cup C
<1>3. AB \cap C = {} /\ ABC \cap D = {} /\ S = ABC \cup D
  OBVIOUS
<1>4. IsFiniteSet(AB) /\ Cardinality(AB) = Cardinality(A) + Cardinality(B)
  BY <1>1, <1>2, TwoClasses
<1> HIDE DEF AB
<1>5. IsFiniteSet(ABC) /\ Cardinality(ABC) = Cardinality(AB) + Cardinality(C)
  BY <1>1, <1>3, <1>4, TwoClasses
<1> HIDE DEF ABC
<1>6. Cardinality(S) = Cardinality(ABC) + Cardinality(D)
  BY <1>1, <1>3, <1>5, TwoClasses
<1>7. /\ f \in Seq(Nat) /\ Len(f) = 4 /\ f[1] = Cardinality(A) /\ f[2] = Cardinality(B)
      /\ f[3] = Cardinality(C) /\ f[4] = Cardinality(D)
  BY <1>2
<1>8. Sum(f) = f[1] + f[2] + f[3] + f[4]
  BY <1>7, SumOfFour
<1> QED
  BY <1>4, <1>5, <1>6, <1>7, <1>8

\* Each station is in one class of size.
LEMMA ScaleCounts ==
  ASSUME NEW v \in Seq(Nat)
  PROVE  Sum(Scale(v)) = Len(v)
<1> DEFINE n == Len(v)
           A == {i \in DOMAIN v : v[i] >= 20}
           B == {i \in DOMAIN v : v[i] \in 10 .. 19}
           C == {i \in DOMAIN v : v[i] \in 5 .. 9}
           D == {i \in DOMAIN v : v[i] < 5}
<1>1. n \in Nat /\ DOMAIN v = 1 .. n /\ \A i \in 1 .. n : v[i] \in Nat
  BY FiguresAre
<1>2. Scale(v) = <<Cardinality(A), Cardinality(B), Cardinality(C), Cardinality(D)>>
  BY DEF Scale, CountOf
<1>3. ASSUME NEW i \in 1 .. n
      PROVE  /\ i \in A <=> v[i] >= 20
             /\ i \in B <=> v[i] >= 10 /\ v[i] <= 19
             /\ i \in C <=> v[i] >= 5 /\ v[i] <= 9
             /\ i \in D <=> v[i] < 5
             /\ v[i] \in Nat
  <2>1. v[i] \in Nat /\ i \in DOMAIN v
    BY <1>1
  <2>2. v[i] \in 10 .. 19 <=> v[i] >= 10 /\ v[i] <= 19
    BY <2>1
  <2>3. v[i] \in 5 .. 9 <=> v[i] >= 5 /\ v[i] <= 9
    BY <2>1
  <2> QED
    BY <2>1, <2>2, <2>3
<1>4. A \subseteq 1 .. n /\ B \subseteq 1 .. n /\ C \subseteq 1 .. n /\ D \subseteq 1 .. n
  BY <1>1
<1> DEFINE S == 1 .. n
<1>5. IsFiniteSet(S) /\ Cardinality(S) = n
  BY <1>1, UpTo
<1> HIDE DEF A, B, C, D
<1>6. S = A \cup B \cup C \cup D
  <2>1. \A i \in S : i \in A \/ i \in B \/ i \in C \/ i \in D
    <3> TAKE i \in S
    <3>1. v[i] \in Nat
      BY <1>3
    <3>2. v[i] >= 20 \/ (v[i] >= 10 /\ v[i] <= 19) \/ (v[i] >= 5 /\ v[i] <= 9) \/ v[i] < 5
      BY <3>1
    <3> QED
      BY <1>3, <3>2
  <2> QED
    BY <1>4, <2>1
<1>7. A \cap B = {} /\ A \cap C = {} /\ A \cap D = {}
  <2>1. \A i \in S : ~(i \in A /\ i \in B) /\ ~(i \in A /\ i \in C) /\ ~(i \in A /\ i \in D)
    BY <1>3
  <2> HIDE DEF S
  <2>2. A \subseteq S /\ B \subseteq S /\ C \subseteq S /\ D \subseteq S
    BY <1>4 DEF S
  <2> QED
    BY <2>1, <2>2
<1>8. B \cap C = {} /\ B \cap D = {} /\ C \cap D = {}
  <2>1. \A i \in S : ~(i \in B /\ i \in C) /\ ~(i \in B /\ i \in D) /\ ~(i \in C /\ i \in D)
    BY <1>3
  <2> QED
    BY <1>4, <2>1
<1> DEFINE f == Scale(v)
<1>9. f = <<Cardinality(A), Cardinality(B), Cardinality(C), Cardinality(D)>>
  BY <1>2
<1> HIDE DEF f, S, n
<1>10. Sum(f) = Cardinality(S)
  BY <1>5, <1>6, <1>7, <1>8, <1>9, FourClasses
<1> QED
  BY <1>5, <1>10 DEF f, n

\* Each day is in one month.
LEMMA MonthlyIs ==
  ASSUME NEW v \in Seq(Nat)
  PROVE  /\ Monthly(v) \in Seq(Nat) /\ Sum(Monthly(v)) = Sum(v)
         /\ v # <<>> => Monthly(v) # <<>>
<1> DEFINE n == Len(v)
           M == (n + 2) \div 3
           w == Monthly(v)
           Last(m) == IF 3 * m <= n THEN 3 * m ELSE n
<1>0. n \in Nat
  BY FiguresAre
<1> HIDE DEF n
<1>1. n \in Nat /\ M \in Nat /\ 3 * M >= n /\ 3 * M <= n + 2
  BY <1>0
<1>2. Len(v) = n
  BY DEF n
<1>3. w = [m \in 1 .. M |-> Sum(SubSeq(v, 3 * m - 2, Min({3 * m, n})))]
  BY <1>2 DEF Monthly
<1> HIDE DEF M, w
<1>4. ASSUME NEW m \in 1 .. M
      PROVE  /\ w[m] = Sum(SubSeq(v, 3 * m - 2, Last(m)))
             /\ 3 * m - 2 \in Nat /\ 3 * m - 2 > 0 /\ 3 * m - 2 <= n
             /\ Last(m) \in Nat /\ Last(m) <= n /\ 3 * m - 2 <= Last(m)
  <2>1. 3 * m \in Int /\ n \in Int /\ m \in Nat
    BY <1>1
  <2>2. Min({3 * m, n}) = Last(m)
    BY <2>1, MinOfTwo
  <2>3. w[m] = Sum(SubSeq(v, 3 * m - 2, Last(m)))
    BY <1>3, <2>2
  <2> QED
    BY <1>1, <2>1, <2>3
<1>5. \A m \in 1 .. M : w[m] \in Nat
  <2> TAKE m \in 1 .. M
  <2> DEFINE a == 3 * m - 2
             b == Last(m)
  <2>1. a \in Nat /\ a > 0 /\ b \in Nat /\ b <= Len(v) /\ w[m] = Sum(SubSeq(v, a, b))
    BY <1>2, <1>4
  <2> HIDE DEF a, b
  <2>2. SubSeq(v, a, b) \in Seq(Nat)
    BY <2>1, PartOf
  <2> QED
    BY <2>1, <2>2, FiguresAre
<1>6. w \in Seq(Nat) /\ Len(w) = M
  <2>1. w \in [1 .. M -> Nat]
    BY <1>3, <1>5
  <2> QED
    BY <1>1, <2>1, ListIs
<1>7. \A k \in 0 .. M : SumTo(w, k) = SumTo(v, Last(k))
  <2> DEFINE bad == {k \in 0 .. M : SumTo(w, k) # SumTo(v, Last(k))}
  <2>1. SUFFICES ASSUME bad # {} PROVE FALSE
    OBVIOUS
  <2>2. PICK k \in bad : \A i \in bad : k <= i
    <3>1. bad \in SUBSET Nat
      BY <1>1
    <3> HIDE DEF bad
    <3> QED
      BY <2>1, <3>1, Least
  <2>3. k \in 0 .. M /\ SumTo(w, k) # SumTo(v, Last(k))
    BY <2>2
  <2>4. CASE k = 0
    <3>1. Last(k) = 0
      BY <1>1, <2>4
    <3> QED
      BY <2>3, <2>4, <3>1, SumToIs
  <2>5. CASE k # 0
    <3> DEFINE p == k - 1
               a == 3 * k - 2
               b == Last(k)
    <3>1. k \in 1 .. M /\ p \in Nat /\ p \in 0 .. M /\ p + 1 = k
      BY <1>1, <2>3, <2>5
    <3>2. p \notin bad
      BY <1>1, <2>2, <3>1
    <3>3. SumTo(w, p) = SumTo(v, Last(p))
      BY <3>1, <3>2
    <3>4. SumTo(w, p + 1) = SumTo(w, p) + w[p + 1]
      BY <3>1, SumToStep
    <3>5. /\ w[k] = Sum(SubSeq(v, a, b)) /\ a \in Nat /\ a > 0 /\ a <= n
          /\ b \in Nat /\ b <= Len(v) /\ a <= b
      BY <1>2, <1>4, <3>1
    <3>6. Last(p) = a - 1
      BY <1>1, <3>1, <3>5
    <3> HIDE DEF a, b
    <3>7. a <= b + 1
      BY <3>5
    <3>8. SumTo(v, b) = SumTo(v, a - 1) + Sum(SubSeq(v, a, b))
      BY <3>5, <3>7, PartSum
    <3>9. SumTo(w, k) = SumTo(v, b)
      BY <3>1, <3>3, <3>4, <3>5, <3>6, <3>8
    <3> QED
      BY <2>3, <3>9 DEF b
  <2> QED
    BY <2>4, <2>5
<1>8. Sum(w) = Sum(v)
  <2>1. M \in 0 .. M /\ Last(M) = n
    BY <1>1
  <2> QED
    BY <1>2, <1>6, <1>7, <2>1 DEF Sum
<1>9. v # <<>> => w # <<>>
  <2> SUFFICES ASSUME v # <<>> PROVE w # <<>>
    OBVIOUS
  <2>1. n > 0
    BY FiguresAre DEF n
  <2>2. M > 0
    BY <1>1, <2>1
  <2> QED
    BY <1>6, <2>2, EmptySeq
<1> QED
  BY <1>6, <1>8, <1>9 DEF w

\* The three tiers: cheap hours are cheaper than the others, dear ones dearer.
LEMMA TiersApart ==
  ASSUME NEW v \in Seq(Nat), v # <<>>
  PROVE  LET low == Tariffs(v, "low")
             high == Tariffs(v, "high")
         IN  /\ \A i \in low, j \in DOMAIN v \ low : v[i] < v[j]
             /\ \A i \in high, j \in DOMAIN v \ high : v[i] > v[j]
             /\ (low = {} \/ high = {}) => Cardinality(Among(v)) = 1
<1> DEFINE low == Tariffs(v, "low")
           high == Tariffs(v, "high")
           a == Min(Among(v))
           b == Max(Among(v))
           n == Len(v)
<1>1. /\ n \in Nat /\ DOMAIN v = 1 .. n /\ a \in Nat /\ b \in Nat
      /\ a \in Among(v) /\ b \in Among(v)
  BY FiguresAre, AmongBounds
<1>2. \A i \in 1 .. n : v[i] \in Nat /\ a <= v[i] /\ v[i] <= b
  BY FiguresAre, AmongBounds
<1>3. \A p : Tier(v, p) = IF 3 * p < 3 * a + (b - a) THEN "low"
                          ELSE IF 3 * p > 3 * a + 2 * (b - a) THEN "high" ELSE "mid"
  BY DEF Tier
<1>4. /\ \A i : i \in low <=> i \in 1 .. n /\ Tier(v, v[i]) = "low"
      /\ \A i : i \in high <=> i \in 1 .. n /\ Tier(v, v[i]) = "high"
  BY <1>1 DEF Tariffs
<1> HIDE DEF low, high, a, b, n
<1>5. ASSUME NEW i \in 1 .. n
      PROVE  /\ i \in low <=> 3 * v[i] < 3 * a + (b - a)
             /\ i \in high <=> /\ ~(3 * v[i] < 3 * a + (b - a))
                               /\ 3 * v[i] > 3 * a + 2 * (b - a)
  BY <1>3, <1>4
<1>6. \A i \in low, j \in DOMAIN v \ low : v[i] < v[j]
  <2> TAKE i \in low, j \in DOMAIN v \ low
  <2>1. i \in 1 .. n /\ j \in 1 .. n /\ j \notin low /\ i \in low
    BY <1>1, <1>4
  <2> QED
    BY <1>1, <1>2, <1>5, <2>1
<1>7. \A i \in high, j \in DOMAIN v \ high : v[i] > v[j]
  <2> TAKE i \in high, j \in DOMAIN v \ high
  <2>1. i \in 1 .. n /\ j \in 1 .. n /\ j \notin high /\ i \in high
    BY <1>1, <1>4
  <2>2. v[i] \in Nat /\ v[j] \in Nat
    BY <1>2, <2>1
  <2>3. ~(3 * v[i] < 3 * a + (b - a)) /\ 3 * v[i] > 3 * a + 2 * (b - a)
    BY <1>5, <2>1
  <2>4. 3 * v[j] < 3 * a + (b - a) \/ ~(3 * v[j] > 3 * a + 2 * (b - a))
    BY <1>5, <2>1
  <2> QED
    BY <1>1, <2>2, <2>3, <2>4
<1>8. ASSUME low = {} \/ high = {} PROVE Cardinality(Among(v)) = 1
  <2>1. PICK i \in 1 .. n : v[i] = a
    BY <1>1, AmongIs DEF n
  <2>2. PICK j \in 1 .. n : v[j] = b
    BY <1>1, AmongIs DEF n
  <2>3. i \notin low \/ j \notin high
    BY <1>8
  <2>4. a = b
    BY <1>1, <1>2, <1>5, <2>1, <2>2, <2>3
  <2>5. ASSUME NEW x \in Among(v) PROVE x = a
    <3>1. PICK k \in 1 .. n : x = v[k]
      BY AmongIs DEF n
    <3> QED
      BY <1>1, <1>2, <2>4, <3>1
  <2>6. Among(v) = {a}
    BY <1>1, <2>5
  <2> QED
    BY <2>6, FS_Singleton
<1> QED
  BY <1>6, <1>7, <1>8 DEF low, high

\* The five largest stations have at most what all have.
LEMMA SharesWithin ==
  ASSUME NEW v \in Seq(Nat), NEW profile
  PROVE  Sum(Rankings(v, profile).shares) <= Sum(v)
<1> DEFINE r == Ranked(v)
           n == Len(r)
           m == IF 5 <= n THEN 5 ELSE n
<1>1. Rankings(v, profile).shares = Top(r, 5)
  BY DEF Rankings
<1>2. r \in Seq(Nat) /\ Sum(r) = Sum(v)
  BY RankedIs, RankedSum
<1> HIDE DEF r
<1>3. Sum(Top(r, 5)) = SumTo(r, m) /\ Sum(r) = SumTo(r, n)
  BY <1>2, TopIs DEF Sum
<1>4. n \in Nat /\ m \in Nat /\ m <= n /\ \A i \in 1 .. n : r[i] \in Nat
  BY <1>2, FiguresAre
<1> DEFINE f == r
<1>5. \A i \in 1 .. n : f[i] \in Nat
  BY <1>4
<1> HIDE DEF m, n, f
<1>6. SumTo(f, m) <= SumTo(f, n)
  BY <1>4, <1>5, SumToMonotone
<1> QED
  BY <1>1, <1>2, <1>3, <1>6 DEF f

\* A sum between so many times the least and the greatest of its figures.
LEMMA SumBetween ==
  ASSUME NEW v \in Seq(Nat), v # <<>>
  PROVE  Min(Among(v)) * Len(v) <= Sum(v) /\ Sum(v) <= Max(Among(v)) * Len(v)
<1> DEFINE low == Min(Among(v))
           high == Max(Among(v))
           n == Len(v)
           f == v
<1>1. /\ low \in Nat /\ high \in Nat /\ n \in Nat
      /\ \A i \in 1 .. n : f[i] \in Nat /\ low <= f[i] /\ f[i] <= high
  BY FiguresAre, AmongBounds
<1>2. Sum(v) = SumTo(f, n)
  BY DEF Sum
<1> HIDE DEF low, high, n, f
<1>3. low * n <= SumTo(f, n) /\ SumTo(f, n) <= high * n
  BY <1>1, SumToBounds
<1> QED
  BY <1>2, <1>3 DEF low, high, n

\* Where there is anything at all, the greatest figure is something.
LEMMA MaxPositive ==
  ASSUME NEW v \in Seq(Nat), v # <<>>, Sum(v) > 0
  PROVE  Max(Among(v)) > 0
<1> DEFINE high == Max(Among(v))
           n == Len(v)
<1>1. high \in Nat /\ n \in Nat /\ Sum(v) <= high * n /\ Sum(v) \in Nat
  BY FiguresAre, AmongBounds, SumBetween
<1> HIDE DEF high, n
<1>2. high = 0 => high * n = 0
  BY <1>1
<1>3. high > 0
  BY <1>1, <1>2
<1> QED
  BY <1>3 DEF high

\* A quotient is in its range.
LEMMA QuotientWithin ==
  ASSUME NEW a \in Nat, NEW d \in Nat, d > 0, NEW k \in Nat, a < d * k
  PROVE  a \div d \in Nat /\ a \div d < k
<1> DEFINE q == a \div d
           r == a % d
<1>1. q \in Int /\ r \in Nat /\ r < d /\ a = (d * q) + r
  BY Divided
<1> HIDE DEF q, r
<1>2. ASSUME q <= -1 PROVE FALSE
  <2>1. d * q <= d * (-1)
    BY <1>1, <1>2
  <2>2. d * (-1) = -d /\ d * q \in Int
    BY <1>1
  <2> QED
    BY <1>1, <2>1, <2>2
<1>3. ASSUME q >= k PROVE FALSE
  <2>1. d * q >= d * k
    BY <1>1, <1>3
  <2>2. d * q \in Int /\ d * k \in Int
    BY <1>1
  <2> QED
    BY <1>1, <1>3, <2>1, <2>2
<1>4. q \in Nat /\ q < k
  BY <1>1, <1>2, <1>3
<1> QED
  BY <1>4 DEF q

\* A part of a whole is between nothing and a hundred per cent of it.
LEMMA PercentIs ==
  ASSUME NEW n \in Nat, NEW of \in Nat, n <= of, of > 0
  PROVE  Percent(n, of) \in 0 .. 100
<1> DEFINE a == 200 * n + of
           d == 2 * of
<1>1. a \in Nat /\ d \in Nat /\ d > 0 /\ a < d * 101
  OBVIOUS
<1>2. Percent(n, of) = a \div d
  BY DEF Percent
<1> HIDE DEF a, d
<1>3. a \div d \in Nat /\ a \div d < 101
  BY <1>1, QuotientWithin
<1> QED
  BY <1>2, <1>3

\* The columns of the flow are percentages of the best month.
LEMMA FlowWithin ==
  ASSUME figures \in Seq(Nat), figures # <<>>, FlowDrawn
  PROVE  \A t \in Among(Flow(figures)) : t \in 0 .. 100
<1> DEFINE w == Monthly(figures)
           n == Len(w)
           best == Max(Among(w))
<1>1. w \in Seq(Nat) /\ w # <<>> /\ Sum(w) > 0 /\ n >= 3
  BY MonthlyIs DEF FlowDrawn
<1>2. Flow(figures) = [j \in 1 .. 3 |-> Percent(w[n - 3 + j], best)]
  BY DEF Flow
<1> HIDE DEF w
<1>3. best \in Nat /\ best > 0
  BY <1>1, AmongBounds, MaxPositive
<1>4. n \in Nat /\ \A i \in 1 .. n : w[i] \in Nat /\ w[i] <= best
  BY <1>1, FiguresAre, AmongBounds
<1> HIDE DEF n, best
<1>5. ASSUME NEW j \in 1 .. 3 PROVE Percent(w[n - 3 + j], best) \in 0 .. 100
  <2>1. n - 3 + j \in 1 .. n
    BY <1>1, <1>4
  <2>2. w[n - 3 + j] \in Nat /\ w[n - 3 + j] <= best
    BY <1>4, <2>1
  <2> QED
    BY <1>3, <2>2, PercentIs
<1>6. ASSUME NEW t \in Among(Flow(figures)) PROVE t \in 0 .. 100
  <2>1. PICK j \in 1 .. 3 : t = Percent(w[n - 3 + j], best)
    BY <1>2 DEF Among
  <2> QED
    BY <1>5, <2>1
<1> QED
  BY <1>6
\* A column of the flow is stacked of four parts up to its height.
LEMMA StackedCloses ==
  ASSUME NEW t \in Nat
  PROVE  Closes(Stacked(t), 100 * t)
<1> DEFINE f == <<27 * t, 31 * t, 27 * t, 15 * t>>
<1>1. /\ f \in Seq(Nat) /\ Len(f) = 4
      /\ f[1] = 27 * t /\ f[2] = 31 * t /\ f[3] = 27 * t /\ f[4] = 15 * t
  OBVIOUS
<1>2. Stacked(t) = Slices(f)
  BY DEF Stacked
<1> HIDE DEF f
<1>3. Sum(f) = f[1] + f[2] + f[3] + f[4]
  BY <1>1, SumOfFour
<1>4. Sum(f) = 100 * t
  BY <1>1, <1>3
<1>5. Closes(Slices(f), Sum(f))
  BY <1>1, SlicesClose
<1> QED
  BY <1>2, <1>4, <1>5

\* All that is drawn of the figures adds up.
LEMMA FiguresClose ==
  ASSUME figures \in Seq(Nat), figures # <<>>
  PROVE  FiguresAddUp
<1>1. FlowDrawn => \A t \in Among(Flow(figures)) : Closes(Stacked(t), 100 * t)
  <2> SUFFICES ASSUME FlowDrawn, NEW t \in Among(Flow(figures))
               PROVE  Closes(Stacked(t), 100 * t)
    OBVIOUS
  <2>1. t \in 0 .. 100
    BY FlowWithin
  <2> QED
    BY <2>1, StackedCloses
<1>2. /\ Closes(Slices(DeviceGroups(figures)), Sum(figures))
      /\ Sum(Scale(figures)) = Len(figures)
      /\ Sum(Monthly(figures)) = Sum(figures)
  BY DeviceGroupsClose, ScaleCounts, MonthlyIs
<1>3. Sum(Rankings(figures, figures).shares) <= Sum(figures)
  BY SharesWithin
<1> QED
  BY <1>1, <1>2, <1>3, TiersApart DEF FiguresAddUp
-----------------------------------------------------------------------------
(* The charts: events and orders. *)

\* What is known of the audit log: an area and a time each.
Logs == Seq([area : Areas, time : Nat])

\* A log, by its places.
LEMMA LogIs ==
  ASSUME NEW v \in Logs
  PROVE  /\ Len(v) \in Nat /\ DOMAIN v = 1 .. Len(v)
         /\ \A i \in 1 .. Len(v) : v[i].time \in Nat
         /\ v # <<>> => 1 \in 1 .. Len(v)
<1> DEFINE Row == [area : Areas, time : Nat]
<1>1. v \in Seq(Row)
  BY DEF Logs
<1>2. \A r \in Row : r.time \in Nat
  OBVIOUS
<1> HIDE DEF Row
<1>3. /\ Len(v) \in Nat /\ DOMAIN v = 1 .. Len(v)
      /\ \A i \in 1 .. Len(v) : v[i] \in Row
  BY <1>1, LenProperties, ElementOfSeq
<1>4. v # <<>> => Len(v) \in Nat \ {0}
  BY <1>1, EmptySeq
<1> QED
  BY <1>2, <1>3, <1>4

\* Four numbers as a function are four numbers as a list.
LEMMA FourAre ==
  ASSUME NEW f, f = [i \in 1 .. 4 |-> f[i]]
  PROVE  f = <<f[1], f[2], f[3], f[4]>>
<1>1. \A i \in 1 .. 4 : i = 1 \/ i = 2 \/ i = 3 \/ i = 4
  OBVIOUS
<1> QED
  BY <1>1

\* Each event is in one group.
LEMMA OperationsClose ==
  ASSUME NEW v \in Logs, NEW rows \in SUBSET (DOMAIN v)
  PROVE  /\ Operations(v, rows) \in Seq(Nat) /\ Len(Operations(v, rows)) = 4
         /\ Sum(Operations(v, rows)) = Cardinality(rows)
         /\ IsFiniteSet(rows) /\ Cardinality(rows) \in Nat
<1> DEFINE f == Operations(v, rows)
           A == {e \in rows : v[e].area = "order"}
           B == {e \in rows : v[e].area = "wallet"}
           C == {e \in rows : v[e].area = "charger"}
           D == {e \in rows : v[e].area \notin {"order", "wallet", "charger"}}
<1>1. IsFiniteSet(rows)
  <2>1. IsFiniteSet(DOMAIN v)
    BY LogIs, UpTo
  <2> QED
    BY <2>1, FS_Subset
<1>2. f = <<f[1], f[2], f[3], f[4]>>
  <2>1. f = [i \in 1 .. 4 |-> f[i]]
    BY DEF Operations
  <2> HIDE DEF f
  <2> QED
    BY <2>1, FourAre
<1>3. f[1] = Cardinality(A) /\ f[2] = Cardinality(B)
      /\ f[3] = Cardinality(C) /\ f[4] = Cardinality(D)
  <2> DEFINE Group(i) == {e \in rows :
                            IF i = 4 THEN v[e].area \notin {"order", "wallet", "charger"}
                            ELSE v[e].area = <<"order", "wallet", "charger">>[i]}
  <2>1. f = [i \in 1 .. 4 |-> Cardinality(Group(i))]
    BY DEF Operations
  <2>2. Group(1) = A
    OBVIOUS
  <2>3. Group(2) = B
    OBVIOUS
  <2>4. Group(3) = C
    OBVIOUS
  <2>5. Group(4) = D
    OBVIOUS
  <2> HIDE DEF Group, f, A, B, C, D
  <2> QED
    BY <2>1, <2>2, <2>3, <2>4, <2>5
<1>7. rows = A \cup B \cup C \cup D
  OBVIOUS
<1>8. A \cap B = {} /\ A \cap C = {} /\ A \cap D = {}
  OBVIOUS
<1>9. B \cap C = {} /\ B \cap D = {} /\ C \cap D = {}
  OBVIOUS
<1> HIDE DEF f, A, B, C, D
<1>10. f = <<Cardinality(A), Cardinality(B), Cardinality(C), Cardinality(D)>>
  BY <1>2, <1>3
<1>11. f \in Seq(Nat) /\ Sum(f) = Cardinality(rows)
  <2>1. f \in Seq(Nat)
    BY <1>1, <1>7, <1>8, <1>9, <1>10, FourClasses
  <2>2. Sum(f) = Cardinality(rows)
    BY <1>1, <1>7, <1>8, <1>9, <1>10, FourClasses
  <2> QED
    BY <2>1, <2>2
<1>12. Len(f) = 4
  BY <1>10
<1> QED
  BY <1>1, <1>11, <1>12, FS_CardinalityType DEF f

\* Rows sorted into finitely many fields are as many as the fields count.
LEMMA FieldsCount ==
  ASSUME NEW C, IsFiniteSet(C), NEW n \in Nat, NEW g, \A i \in 1 .. n : g[i] \in C
  PROVE  Total([c \in C |-> Cardinality({i \in 1 .. n : g[i] = c})], C) = n
<1> DEFINE In(k, c) == {i \in 1 .. k : g[i] = c}
           h(k) == [c \in C |-> Cardinality(In(k, c))]
           bad == {k \in 0 .. n : Total(h(k), C) # k}
<1>1. SUFFICES ASSUME bad # {} PROVE FALSE
  <2>1. n \in 0 .. n
    OBVIOUS
  <2> QED
    BY <2>1
<1>2. PICK k \in bad : \A i \in bad : k <= i
  <2>1. bad \in SUBSET Nat
    OBVIOUS
  <2> HIDE DEF bad
  <2> QED
    BY <1>1, <2>1, Least
<1>3. k \in 0 .. n /\ Total(h(k), C) # k
  BY <1>2
<1>4. CASE k = 0
  <2> DEFINE f == h(0)
  <2>1. \A c \in C : f[c] = 0
    <3> TAKE c \in C
    <3>1. In(0, c) = {}
      OBVIOUS
    <3> HIDE DEF In
    <3> QED
      BY <3>1, FS_EmptySet
  <2> HIDE DEF f
  <2>2. \A c \in C : Share(f, c) = {}
    BY <2>1 DEF Share
  <2>3. Cents(f, C) = {}
    BY <2>2 DEF Cents
  <2>4. Total(f, C) = 0
    BY <2>3, FS_EmptySet DEF Total
  <2> QED
    BY <1>3, <1>4, <2>4 DEF f
<1>5. CASE k # 0
  <2> DEFINE p == k - 1
             c == g[k]
             D == C \ {c}
             new == h(k)
             old == h(p)
  <2>1. k \in 1 .. n /\ p \in Nat /\ p \in 0 .. n /\ p + 1 = k /\ p \notin bad
    BY <1>2, <1>3, <1>5
  <2>2. Total(old, C) = p /\ c \in C
    BY <2>1
  <2>3. \A d : IsFiniteSet(In(p, d)) /\ IsFiniteSet(In(k, d))
    <3> TAKE d
    <3>1. IsFiniteSet(1 .. p) /\ IsFiniteSet(1 .. k)
      BY <2>1, UpTo
    <3>2. In(p, d) \in SUBSET (1 .. p) /\ In(k, d) \in SUBSET (1 .. k)
      OBVIOUS
    <3> QED
      BY <3>1, <3>2, FS_Subset
  <2>4. \A d \in D : In(k, d) = In(p, d)
    BY <2>1
  <2>5. In(k, c) = In(p, c) \cup {k} /\ k \notin In(p, c)
    BY <2>1
  <2> HIDE DEF In, bad
  <2>6. \A d \in C : new[d] = Cardinality(In(k, d)) /\ old[d] = Cardinality(In(p, d))
    OBVIOUS
  <2> HIDE DEF p, c, new, old
  <2>7. \A d \in C : new[d] \in Nat /\ old[d] \in Nat
    BY <2>3, <2>6, FS_CardinalityType
  <2>8. \A d \in D : new[d] = old[d]
    BY <2>4, <2>6
  <2>9. new[c] = old[c] + 1
    BY <2>2, <2>3, <2>5, <2>6, FS_AddElement
  <2>10. Total(new, D) = Total(new, C) - new[c] /\ Total(old, D) = Total(old, C) - old[c]
    BY <2>2, <2>7, TotalRemove
  <2>11. Total(new, D) = Total(old, D)
    BY <2>8, TotalCong
  <2>12. Total(new, C) \in Nat
    BY <2>7, CentsFinite
  <2>13. old[c] \in Nat
    BY <2>2, <2>7
  <2> HIDE DEF D
  <2>14. Total(new, C) = k
    BY <2>1, <2>2, <2>9, <2>10, <2>11, <2>12, <2>13
  <2> QED
    BY <1>3, <2>14 DEF new
<1> QED
  BY <1>4, <1>5

\* Each event is in one field of the week.
LEMMA HeatCounts ==
  ASSUME NEW v \in Logs
  PROVE  Total(Heat(v), DOMAIN Heat(v)) = Len(v)
<1> DEFINE C == (0 .. 6) \X (0 .. 11)
           n == Len(v)
           Field(t) == <<DayOf(t) % 7, (t % 24) \div 2>>
           g == [i \in 1 .. n |-> Field(v[i].time)]
<1>1. n \in Nat /\ DOMAIN v = 1 .. n /\ \A i \in 1 .. n : v[i].time \in Nat
  BY LogIs
<1>2. Heat(v) = [c \in C |-> Cardinality({i \in 1 .. n : g[i] = c})]
  <2>1. \A c \in C : {i \in DOMAIN v : c = Field(v[i].time)} = {i \in 1 .. n : g[i] = c}
    BY <1>1
  <2>2. Heat(v) = [c \in C |-> Cardinality({i \in DOMAIN v : c = Field(v[i].time)})]
    BY DEF Heat, CountOf
  <2> QED
    BY <2>1, <2>2
<1>3. IsFiniteSet(C)
  <2>1. 0 \in Int /\ 6 \in Int /\ 11 \in Int
    OBVIOUS
  <2>2. IsFiniteSet(0 .. 6)
    BY <2>1, FS_Interval, Zenon
  <2>3. IsFiniteSet(0 .. 11)
    BY <2>1, FS_Interval, Zenon
  <2> QED
    BY <2>2, <2>3, FS_Product
<1>4. ASSUME NEW t \in Nat PROVE Field(t) \in C
  <2>1. t \div 24 \in Nat /\ t % 24 \in 0 .. 23
    OBVIOUS
  <2>2. DayOf(t) % 7 \in 0 .. 6
    BY <2>1 DEF DayOf
  <2>3. (t % 24) \div 2 \in 0 .. 11
    BY <2>1
  <2> QED
    BY <2>2, <2>3
<1> HIDE DEF Field, n
<1>5. \A i \in 1 .. n : g[i] \in C
  BY <1>1, <1>4
<1> HIDE DEF C, g
<1>6. Total([c \in C |-> Cardinality({i \in 1 .. n : g[i] = c})], C) = n
  BY <1>1, <1>3, <1>5, FieldsCount
<1>7. DOMAIN Heat(v) = C
  BY <1>2
<1> QED
  BY <1>2, <1>6, <1>7 DEF n

\* An event is in the rows of its day, when that is drawn, and of no other.
LEMMA DaysApart ==
  ASSUME NEW v, NEW count, NEW i \in DOMAIN v
  PROVE  LET recent == Days(v, count)
         IN  Cardinality({d \in DOMAIN recent : i \in recent[d]})
               = IF DayOf(v[i].time) \in DOMAIN recent THEN 1 ELSE 0
<1> DEFINE recent == Days(v, count)
           Drawn == Max({DayOf(e.time) : e \in Among(v)}) - count + 1
                      .. Max({DayOf(e.time) : e \in Among(v)})
           day == DayOf(v[i].time)
           S == {d \in DOMAIN recent : i \in recent[d]}
<1>1. recent = [d \in Drawn |-> {j \in DOMAIN v : DayOf(v[j].time) = d}]
  BY DEF Days
<1> HIDE DEF recent, Drawn
<1>2. \A d : d \in S <=> d \in DOMAIN recent /\ d = day
  BY <1>1
<1> HIDE DEF S, day
<1>3. CASE day \in DOMAIN recent
  <2>1. S = {day}
    BY <1>2, <1>3
  <2> QED
    BY <1>3, <2>1, FS_Singleton DEF S, day, recent
<1>4. CASE day \notin DOMAIN recent
  <2>1. S = {}
    BY <1>2, <1>4
  <2> QED
    BY <1>4, <2>1, FS_EmptySet DEF S, day, recent
<1> QED
  BY <1>3, <1>4

\* All that is drawn of the events adds up.
LEMMA EventsClose ==
  ASSUME events \in Logs
  PROVE  EventsAddUp
<1>1. DOMAIN events \in SUBSET (DOMAIN events) /\ Len(events) \in Nat
      /\ DOMAIN events = 1 .. Len(events)
  BY LogIs
<1>2. Sum(Operations(events, DOMAIN events)) = Cardinality(DOMAIN events)
  BY <1>1, OperationsClose
<1>3. Cardinality(DOMAIN events) = Len(events)
  BY <1>1, UpTo
<1> QED
  BY <1>2, <1>3, HeatCounts, DaysApart DEF EventsAddUp

\* The sums of the first of four parts, one after the other.
LEMMA SumsOfFour ==
  ASSUME NEW f \in Seq(Nat), Len(f) = 4
  PROVE  /\ SumTo(f, 0) = 0 /\ SumTo(f, 4) = Sum(f)
         /\ \A k \in 1 .. 4 : /\ SumTo(f, k) = SumTo(f, k - 1) + f[k] /\ f[k] \in Nat
                              /\ SumTo(f, k - 1) \in Nat
<1>1. f[1] \in Nat /\ f[2] \in Nat /\ f[3] \in Nat /\ f[4] \in Nat
  BY FiguresAre
<1> DEFINE g == f
<1>2. Sum(f) = SumTo(g, 4)
  BY DEF Sum
<1>3. g[1] \in Nat /\ g[2] \in Nat /\ g[3] \in Nat /\ g[4] \in Nat
  BY <1>1
<1> HIDE DEF g
<1>4. /\ SumTo(g, 0 + 1) = SumTo(g, 0) + g[0 + 1] /\ SumTo(g, 1 + 1) = SumTo(g, 1) + g[1 + 1]
      /\ SumTo(g, 2 + 1) = SumTo(g, 2) + g[2 + 1] /\ SumTo(g, 3 + 1) = SumTo(g, 3) + g[3 + 1]
  BY SumToStep
<1>5. SumTo(g, 0) = 0
  BY SumToIs
<1>6. /\ SumTo(g, 1) = SumTo(g, 0) + g[1] /\ SumTo(g, 2) = SumTo(g, 1) + g[2]
      /\ SumTo(g, 3) = SumTo(g, 2) + g[3] /\ SumTo(g, 4) = SumTo(g, 3) + g[4]
      /\ SumTo(g, 0) \in Nat /\ SumTo(g, 1) \in Nat /\ SumTo(g, 2) \in Nat
      /\ SumTo(g, 3) \in Nat
  BY <1>3, <1>4, <1>5
<1>7. ASSUME NEW k \in 1 .. 4
      PROVE  SumTo(g, k) = SumTo(g, k - 1) + g[k] /\ g[k] \in Nat /\ SumTo(g, k - 1) \in Nat
  <2>1. k = 1 \/ k = 2 \/ k = 3 \/ k = 4
    OBVIOUS
  <2>2. 1 - 1 = 0 /\ 2 - 1 = 1 /\ 3 - 1 = 2 /\ 4 - 1 = 3
    OBVIOUS
  <2> QED
    BY <1>3, <1>6, <2>1, <2>2
<1> QED
  BY <1>2, <1>5, <1>7 DEF g

\* The donut closes without the orders whose payment is pending, and the ring gives
\* them the rest of the whole.
LEMMA OrdersClose ==
  ASSUME orders \in Seq(Statuses)
  PROVE  OrdersAddUp
<1> DEFINE n == Len(orders)
           S == 1 .. n
           A == {i \in S : orders[i] = "completed"}
           B == {i \in S : orders[i] = "charging"}
           C == {i \in S : orders[i] = "reserved"}
           D == {i \in S : orders[i] = "cancelled"}
           unnamed == {i \in S : orders[i] = "pending_payment"}
           named == A \cup B \cup C \cup D
           f == Mix(orders)
<1>1. n \in Nat /\ DOMAIN orders = S /\ \A i \in S : orders[i] \in Statuses
  BY LenProperties, ElementOfSeq
<1>2. IsFiniteSet(S) /\ Cardinality(S) = n
  BY <1>1, UpTo
<1>3. f = <<f[1], f[2], f[3], f[4]>>
  <2>1. f = [i \in 1 .. 4 |-> f[i]]
    BY DEF Mix
  <2> HIDE DEF f
  <2> QED
    BY <2>1, FourAre
<1>4. f[1] = Cardinality(A) /\ f[2] = Cardinality(B)
      /\ f[3] = Cardinality(C) /\ f[4] = Cardinality(D)
  <2> DEFINE Group(k) == {i \in DOMAIN orders :
                 orders[i] = Named[k]}
  <2>1. f = [k \in 1 .. 4 |-> Cardinality(Group(k))]
    BY DEF Mix, CountOf
  <2> USE DEF Named
  <2>2. Group(1) = A
    BY <1>1
  <2>3. Group(2) = B
    BY <1>1
  <2>4. Group(3) = C
    BY <1>1
  <2>5. Group(4) = D
    BY <1>1
  <2> HIDE DEF Group, f, A, B, C, D
  <2> QED
    BY <2>1, <2>2, <2>3, <2>4, <2>5
<1>8. S = named \cup unnamed /\ named \cap unnamed = {}
  BY <1>1 DEF Statuses
<1>9. A \cap B = {} /\ A \cap C = {} /\ A \cap D = {}
  OBVIOUS
<1>10. B \cap C = {} /\ B \cap D = {} /\ C \cap D = {}
  OBVIOUS
<1>11. CountOf(orders, LAMBDA s : s = "pending_payment") = Cardinality(unnamed)
  BY <1>1 DEF CountOf
<1> HIDE DEF S, A, B, C, D, unnamed, f
<1>12. f = <<Cardinality(A), Cardinality(B), Cardinality(C), Cardinality(D)>>
  BY <1>3, <1>4
<1>13. IsFiniteSet(named) /\ IsFiniteSet(unnamed)
  BY <1>2, <1>8, FS_Subset
<1>14. f \in Seq(Nat) /\ Sum(f) = Cardinality(named)
  <2>1. f \in Seq(Nat)
    BY <1>9, <1>10, <1>12, <1>13, FourClasses
  <2>2. Sum(f) = Cardinality(named)
    BY <1>9, <1>10, <1>12, <1>13, FourClasses
  <2> QED
    BY <2>1, <2>2
<1> HIDE DEF named
<1>15. Cardinality(S) = Cardinality(named) + Cardinality(unnamed)
  BY <1>8, <1>13, TwoClasses
<1>16. Cardinality(named) \in Nat /\ Cardinality(unnamed) \in Nat
  BY <1>13, FS_CardinalityType
<1>17. Sum(f) = n - Cardinality(unnamed)
  BY <1>1, <1>2, <1>14, <1>15, <1>16
<1>18. Closes(Slices(f), Sum(f))
  BY <1>14, SlicesClose
<1> DEFINE owed == Cardinality(unnamed)
           r == OrderRing(orders)
           at(k) == SumTo(f, k)
<1>19. f \in Seq(Nat) /\ Len(f) = 4 /\ DOMAIN f = 1 .. 4 /\ Sum(f) = n - owed
       /\ owed \in Nat /\ n \in Nat
  BY <1>1, <1>12, <1>14, <1>16, <1>17, FiguresAre
<1>20. /\ at(0) = 0 /\ at(4) = n - owed
       /\ \A k \in 1 .. 4 : at(k) = at(k - 1) + f[k] /\ f[k] \in Nat /\ at(k - 1) \in Nat
  <2> HIDE DEF f, n, owed
  <2> QED
    BY <1>19, SumsOfFour
<1>21. r = [k \in 1 .. 4 |-> [from |-> at(k - 1), to |-> IF k = 4 THEN n ELSE at(k)]]
  <2> HIDE DEF f, n
  <2>1. Slices(f) = [k \in 1 .. 4 |-> [from |-> at(k - 1), to |-> at(k)]]
    BY <1>19 DEF Slices
  <2>2. r = [Slices(f) EXCEPT ![4].to = n]
    BY DEF OrderRing, f, n
  <2> DEFINE g == Slices(f)
  <2>3. g = [k \in 1 .. 4 |-> [from |-> at(k - 1), to |-> at(k)]]
    BY <2>1
  <2>4. r = [g EXCEPT ![4].to = n]
    BY <2>2
  <2> HIDE DEF g, r, at
  <2>5. /\ DOMAIN g = 1 .. 4
        /\ r = [k \in DOMAIN g |-> IF k = 4 THEN [g[4] EXCEPT !.to = n] ELSE g[k]]
    BY <2>3, <2>4
  <2>6. [g[4] EXCEPT !.to = n] = [from |-> at(4 - 1), to |-> n]
    BY <2>3
  <2> QED
    BY <2>3, <2>5, <2>6
<1> HIDE DEF at, r, f, n, owed
<1>22. \A k \in 1 .. 4 : r[k].from = at(k - 1) /\ r[k].to = IF k = 4 THEN n ELSE at(k)
  BY <1>21
<1>23. at(4) <= n /\ at(1) \in Nat /\ at(2) \in Nat /\ at(3) \in Nat /\ at(4) \in Nat
  <2>1. 1 \in 1 .. 4 /\ 2 \in 1 .. 4 /\ 3 \in 1 .. 4 /\ 4 \in 1 .. 4
    OBVIOUS
  <2>2. 2 - 1 = 1 /\ 3 - 1 = 2 /\ 4 - 1 = 3
    OBVIOUS
  <2>3. at(1) \in Nat /\ at(2) \in Nat /\ at(3) \in Nat
    BY <1>20, <2>1, <2>2
  <2>4. at(4) = at(3) + f[4] /\ f[4] \in Nat
    BY <1>20, <2>1, <2>2
  <2>5. at(4) = n - owed /\ n \in Nat /\ owed \in Nat
    BY <1>19, <1>20
  <2>6. at(4) \in Nat /\ at(4) <= n
    BY <2>3, <2>4, <2>5
  <2> QED
    BY <2>3, <2>6
<1>24. Closes(r, n)
  <2>1. DOMAIN r = 1 .. 4 /\ Len(r) = 4
    <3>1. r \in [1 .. 4 -> {r[k] : k \in 1 .. 4}]
      BY <1>21
    <3>2. 4 \in Nat
      OBVIOUS
    <3> QED
      BY <3>1, <3>2, ListIs
  <2>2. ASSUME NEW k \in 1 .. 4
        PROVE  r[k].from = (IF k = 1 THEN 0 ELSE r[k - 1].to) /\ r[k].from <= r[k].to
    <3>1. at(k) = at(k - 1) + f[k] /\ f[k] \in Nat /\ at(k - 1) \in Nat
      BY <1>20
    <3>2. r[k].from = at(k - 1) /\ r[k].to = IF k = 4 THEN n ELSE at(k)
      BY <1>22
    <3>3. k # 1 => k - 1 \in 1 .. 4 /\ k - 1 # 4
      OBVIOUS
    <3>4. k # 1 => r[k - 1].to = at(k - 1)
      BY <1>22, <3>3
    <3>5. k = 1 => at(k - 1) = 0
      BY <1>20
    <3>6. at(k - 1) <= at(k)
      BY <3>1
    <3>7. at(k - 1) <= IF k = 4 THEN n ELSE at(k)
      BY <1>19, <1>23, <3>1, <3>6
    <3> QED
      BY <3>2, <3>4, <3>5, <3>7
  <2>3. r[4].to = n
    BY <1>22
  <2> QED
    BY <2>1, <2>2, <2>3 DEF Closes
<1>25. \A k \in 1 .. 4 : Part(r[k]) = f[k] + IF k = 4 THEN owed ELSE 0
  <2> TAKE k \in 1 .. 4
  <2>1. at(k) = at(k - 1) + f[k] /\ f[k] \in Nat /\ at(k - 1) \in Nat
    BY <1>20
  <2>2. Part(r[k]) = (IF k = 4 THEN n ELSE at(k)) - at(k - 1)
    BY <1>22 DEF Part
  <2>3. k = 4 => at(k) = n - owed
    BY <1>20
  <2> QED
    BY <1>19, <2>1, <2>2, <2>3
<1> QED
  BY <1>11, <1>17, <1>18, <1>24, <1>25 DEF OrdersAddUp, SessionMix, f, r, n, owed
-----------------------------------------------------------------------------
(* The charts: nothing outside its frame. *)

\* The cards of a view: its areas may be fewer than the view skips.
LEMMA CardsInside ==
  ASSUME NEW v \in Seq(Nat), NEW view \in Views
  PROVE  CardsFit(Cards(view, v))
<1> DEFINE n == Len(v)
           sorted == Ranked(v)
           first == Offset(view) + 1
           rank == SubSeq(sorted, first, n)
           six == Top(rank, 6)
           below == [i \in DOMAIN v |-> v[i] - Cold]
           hours == [k \in 1 .. (n + 3) \div 4 |-> v[4 * k - 3]]
<1>1. n \in Nat /\ \A i \in 1 .. n : v[i] \in Nat
  BY FiguresAre
<1>2. sorted \in Seq(Nat) /\ Len(sorted) = n
  BY RankedIs
<1>3. first \in Nat /\ first > 0
  BY DEF Offset, Views
<1>4. Cards(view, v)
        = [curves |-> {Curve(v), Curve(below)},
           bars   |-> {Bars(six), Bars(Final(v, 42)), Bars(Final(v, 168)), Bars(Monthly(v)),
                       Bars(hours), Bars(Top(rank, 32))}]
  BY DEF Cards
<1> HIDE DEF first
<1>5. rank \in Seq(Nat)
  <2> HIDE DEF sorted, n
  <2>1. n <= Len(sorted)
    BY <1>1, <1>2
  <2> QED
    BY <1>1, <1>2, <1>3, <2>1, PartOf
<1>6. hours \in Seq(Nat)
  <2>1. (n + 3) \div 4 \in Nat
    BY <1>1
  <2>2. \A k \in 1 .. (n + 3) \div 4 : 4 * k - 3 \in 1 .. n
    BY <1>1
  <2>3. hours \in [1 .. (n + 3) \div 4 -> Nat]
    BY <1>1, <2>2
  <2> HIDE DEF hours, n
  <2> QED
    BY <2>1, <2>3, ListIs
<1> HIDE DEF sorted, rank, hours
<1>7. six \in Seq(Nat) /\ Top(rank, 32) \in Seq(Nat)
  BY <1>5, TopIs
<1> HIDE DEF six
<1>9. Final(v, 42) \in Seq(Nat) /\ Final(v, 168) \in Seq(Nat) /\ Monthly(v) \in Seq(Nat)
  <2>1. ASSUME NEW k \in Nat, k > 0 PROVE Final(v, k) \in Seq(Nat)
    BY <2>1, FinalIs
  <2> QED
    BY <2>1, MonthlyIs
<1> HIDE DEF n
<1>10. ASSUME NEW b \in Cards(view, v).bars PROVE \A x \in Among(b) : Fits(x)
  <2>1. \/ b = Bars(six) \/ b = Bars(Final(v, 42)) \/ b = Bars(Final(v, 168))
        \/ b = Bars(Monthly(v)) \/ b = Bars(hours) \/ b = Bars(Top(rank, 32))
    BY <1>4
  <2> QED
    BY <1>6, <1>7, <1>9, <2>1, BarsFit
<1>11. CurveFits(Curve(v))
  <2> DEFINE l == Len(v)
             b == Sum(v)
             z == 0
  <2>1. /\ l \in Nat /\ b \in Nat /\ DOMAIN v = 1 .. l
        /\ \A i \in 1 .. l : v[i] \in Nat /\ v[i] <= b
    BY FiguresAre
  <2>2. v \in [1 .. l -> Nat]
    BY <2>1, ElementOfSeq, LenProperties
  <2> HIDE DEF l, b
  <2>3. v \in [1 .. l -> Int] /\ \A i \in 1 .. l : -z <= v[i] /\ v[i] <= b
    BY <2>1, <2>2
  <2>4. z \in Nat
    OBVIOUS
  <2> HIDE DEF z
  <2> QED
    BY <2>1, <2>3, <2>4, CurveInside
<1>12. CurveFits(Curve(below))
  <2> DEFINE l == Len(v)
             b == Sum(v)
  <2>1. /\ l \in Nat /\ b \in Nat /\ DOMAIN v = 1 .. l
        /\ \A i \in 1 .. l : v[i] \in Nat /\ v[i] <= b
    BY FiguresAre
  <2>2. Cold \in Nat
    BY ChartsAssumption
  <2>3. below = [i \in 1 .. l |-> v[i] - Cold]
    BY <2>1
  <2> HIDE DEF l, b, below
  <2>4. below \in [1 .. l -> Int]
    BY <2>1, <2>2, <2>3
  <2>5. \A i \in 1 .. l : -Cold <= below[i] /\ below[i] <= b
    BY <2>1, <2>2, <2>3
  <2> QED
    BY <2>1, <2>2, <2>4, <2>5, CurveInside
<1> HIDE DEF below
<1>13. ASSUME NEW c \in Cards(view, v).curves PROVE CurveFits(c)
  <2>1. c = Curve(v) \/ c = Curve(below)
    BY <1>4
  <2> QED
    BY <1>11, <1>12, <2>1
<1> QED
  BY <1>10, <1>13 DEF CardsFit

\* No more days are sampled than asked for, and the first one is.
LEMMA SampledCount ==
  ASSUME NEW Rows, NEW v \in Seq(Rows), v # <<>>, NEW n \in Nat, n > 0
  PROVE  /\ Sampled(v, n) \in SUBSET (1 .. Len(v)) /\ 1 \in Sampled(v, n)
         /\ Cardinality(Sampled(v, n)) <= n
<1> DEFINE l == Len(v)
           s == Step(v, n)
           S == Sampled(v, n)
           Q == 0 .. n - 1
           at == [q \in Q |-> IF 1 + s * q \in S THEN 1 + s * q ELSE 1]
<1>1. l \in Nat /\ l > 0 /\ DOMAIN v = 1 .. l
  BY LenProperties, EmptySeq
<1>2. s \in Nat /\ s > 0 /\ s * n >= l
  <2> DEFINE a == l + n - 1
  <2>1. a \in Nat /\ a >= n
    BY <1>1
  <2>2. s = a \div n
    BY DEF Step
  <2> HIDE DEF a, s
  <2>3. s \in Int /\ a % n \in Nat /\ a % n < n /\ a = (n * s) + (a % n)
    BY <2>1, <2>2, Divided
  <2> DEFINE r == a % n
  <2> HIDE DEF r
  <2>4. s \in Int /\ r \in Nat /\ r < n /\ a = (n * s) + r
    BY <2>3 DEF r
  <2>5. s > 0
    <3>1. ASSUME s <= 0 PROVE FALSE
      <4>1. n * s <= n * 0
        BY <2>4, <3>1
      <4>2. n * s \in Int /\ n * 0 = 0
        BY <2>4
      <4> QED
        BY <2>1, <2>4, <4>1, <4>2
    <3> QED
      BY <2>4, <3>1
  <2>6. n * s >= l
    <3>1. n * s \in Int
      BY <2>4
    <3> QED
      BY <1>1, <2>4, <3>1 DEF a
  <2>7. s * n = n * s
    BY <2>4
  <2> QED
    BY <2>4, <2>5, <2>6, <2>7
<1>3. \A i : i \in S <=> i \in 1 .. l /\ (i - 1) % s = 0
  BY <1>1 DEF Sampled
<1> HIDE DEF l, s, S
<1>4. 1 \in S
  <2>1. 0 % s = 0
    <3>1. ((s * 0) + 0) % s = 0
      BY <1>2, DividedOnce
    <3>2. (s * 0) + 0 = 0
      BY <1>2
    <3> QED
      BY <3>1, <3>2
  <2> QED
    BY <1>1, <1>3, <2>1
<1>5. ASSUME NEW i \in S PROVE \E q \in Q : at[q] = i
  <2> DEFINE a == i - 1
             q == a \div s
  <2>1. i \in 1 .. l /\ a \in Nat /\ a % s = 0 /\ a < l
    BY <1>1, <1>3
  <2> HIDE DEF a
  <2>2. q \in Int /\ a = (s * q) + (a % s)
    BY <1>2, <2>1, Divided
  <2>3. s * q = a
    <3> HIDE DEF q
    <3>1. s * q \in Int
      BY <1>2, <2>2
    <3> QED
      BY <2>1, <2>2, <3>1
  <2>4. a < s * n
    BY <1>1, <1>2, <2>1
  <2>5. q \in Nat /\ q < n
    BY <1>2, <2>1, <2>4, QuotientWithin
  <2> HIDE DEF q
  <2>6. q \in Q /\ 1 + s * q = i
    BY <2>1, <2>3, <2>5 DEF a
  <2> QED
    BY <2>6
<1>6. \A q \in Q : at[q] \in S
  BY <1>4
<1>7. at \in Surjection(Q, S)
  BY <1>5, <1>6 DEF Surjection
<1>8. IsFiniteSet(Q) /\ Cardinality(Q) = n
  <2>1. 0 \in Int /\ n - 1 \in Int /\ ~(0 > n - 1) /\ n - 1 - 0 + 1 = n
    OBVIOUS
  <2>2. IsFiniteSet(Q) /\ Cardinality(Q) = IF 0 > n - 1 THEN 0 ELSE n - 1 - 0 + 1
    BY <2>1, FS_Interval
  <2> QED
    BY <2>1, <2>2
<1> HIDE DEF at, Q
<1>9. Cardinality(S) <= n
  BY <1>7, <1>8, FS_Surjection
<1>10. S \in SUBSET (1 .. l)
  BY <1>3
<1> QED
  BY <1>4, <1>9, <1>10 DEF l, S

\* The greatest of some figures that are at most so large.
LEMMA TopOfSome ==
  ASSUME NEW S \in SUBSET Nat, S # {}, NEW bound \in Nat, \A x \in S : x <= bound
  PROVE  Max(S) \in S /\ \A x \in S : x <= Max(S)
<1>1. S \in SUBSET (0 .. bound)
  OBVIOUS
<1> QED
  BY <1>1, MaxIs

\* The bars of the three largest, in parts of the first of them.
LEMMA LeadersFit ==
  ASSUME NEW v \in Seq(Nat), v # <<>>, Sum(v) > 0
  PROVE  \A b \in Among(Leaders(v)) : Fits(b)
<1> DEFINE sorted == Ranked(v)
           rank == Top(sorted, 3)
<1>1. Leaders(v) = [i \in DOMAIN rank |-> [part |-> rank[i], whole |-> rank[1]]]
  BY DEF Leaders
<1>2. ASSUME NEW i \in DOMAIN rank
      PROVE  Fits([part |-> rank[i], whole |-> rank[1]])
  <2> DEFINE l == Len(v)
             k == IF 3 <= l THEN 3 ELSE l
  <2>1. sorted \in Seq(Nat) /\ Len(sorted) = l /\ Sum(sorted) > 0 /\ l \in Nat /\ l > 0
    BY RankedIs, RankedSum, FiguresAre
  <2>2. \A x \in 1 .. l, y \in 1 .. l : x <= y => sorted[y] <= sorted[x]
    BY RankedFalls
  <2> HIDE DEF sorted, l
  <2>3. sorted # <<>> /\ \A x \in 1 .. l : sorted[x] \in Nat
    BY <2>1, FiguresAre, NotEmpty
  <2>4. Max(Among(sorted)) > 0 /\ Max(Among(sorted)) \in Among(sorted)
    BY <2>1, <2>3, MaxPositive, AmongBounds
  <2>5. PICK j \in 1 .. l : Max(Among(sorted)) = sorted[j]
    BY <2>1, <2>4, AmongIs
  <2>6. sorted[1] > 0 /\ sorted[1] \in Nat
    <3>1. 1 \in 1 .. l /\ 1 <= j
      BY <2>1
    <3>2. sorted[j] <= sorted[1] /\ sorted[j] > 0 /\ sorted[j] \in Nat /\ sorted[1] \in Nat
      BY <2>2, <2>3, <2>4, <2>5, <3>1
    <3> QED
      BY <3>2
  <2>7. /\ rank \in Seq(Nat) /\ Len(rank) = k
        /\ \A x \in 1 .. k : rank[x] = sorted[x]
    BY <2>1, TopIs
  <2>8. DOMAIN rank = 1 .. k
    BY <2>7, FiguresAre
  <2>9. i \in 1 .. l /\ i \in 1 .. k /\ 1 \in 1 .. k /\ 1 \in 1 .. l /\ 1 <= i
    BY <2>1, <2>8
  <2>10. rank[i] = sorted[i] /\ rank[1] = sorted[1] /\ sorted[i] <= sorted[1]
         /\ sorted[i] \in Nat
    BY <2>2, <2>3, <2>7, <2>9
  <2> HIDE DEF rank
  <2> QED
    BY <2>6, <2>10 DEF Fits
<1> HIDE DEF rank, sorted
<1>3. ASSUME NEW b \in Among(Leaders(v)) PROVE Fits(b)
  <2>1. PICK i \in DOMAIN rank : b = [part |-> rank[i], whole |-> rank[1]]
    BY <1>1 DEF Among
  <2> QED
    BY <1>2, <2>1
<1> QED
  BY <1>3

\* A day of the history: open and close lie between low and high, and the energy is
\* at least that of the best hour.
Candlestick ==
  {c \in [energy : Nat, open : Nat, close : Nat, high : Nat, low : Nat] :
     /\ c.low <= c.open /\ c.open <= c.high
     /\ c.low <= c.close /\ c.close <= c.high
     /\ c.high <= c.energy}

\* Whatever its hours were, that is what is made of them.
LEMMA CandleIs ==
  ASSUME NEW hours \in Seq(Nat), hours # <<>>
  PROVE  Candle(hours) \in Candlestick
<1> DEFINE n == Len(hours)
           low == Min(Among(hours))
           high == Max(Among(hours))
           all == Sum(hours)
<1>1. n \in Nat /\ n > 0 /\ all \in Nat /\ \A i \in 1 .. n : hours[i] \in Nat /\ hours[i] <= all
  BY FiguresAre
<1>2. /\ low \in Nat /\ high \in Nat /\ high \in Among(hours)
      /\ \A i \in 1 .. n : low <= hours[i] /\ hours[i] <= high
  BY AmongBounds
<1>3. high <= all
  <2>1. PICK i \in 1 .. n : high = hours[i]
    BY <1>2, AmongIs
  <2> QED
    BY <1>1, <2>1
<1>4. Candle(hours) = [energy |-> all, open |-> hours[1], close |-> hours[n],
                       high |-> high, low |-> low]
  BY DEF Candle
<1> HIDE DEF n, low, high, all
<1>5. 1 \in 1 .. n /\ n \in 1 .. n
  BY <1>1
<1> DEFINE a == hours[1]
           b == hours[n]
<1>6. /\ a \in Nat /\ low <= a /\ a <= high
      /\ b \in Nat /\ low <= b /\ b <= high
  BY <1>1, <1>2, <1>5
<1>7. Candle(hours) = [energy |-> all, open |-> a, close |-> b, high |-> high, low |-> low]
  BY <1>4
<1> HIDE DEF a, b
<1> QED
  BY <1>1, <1>2, <1>3, <1>6, <1>7 DEF Candlestick

\* The days that were read.
LEMMA CandlesAre ==
  ASSUME days \in Seq(Seq(Nat) \ {<<>>}), days # <<>>
  PROVE  Candles \in Seq(Candlestick) /\ Candles # <<>>
<1> DEFINE Row == Seq(Nat) \ {<<>>}
           n == Len(days)
<1>1. days \in Seq(Row)
  OBVIOUS
<1> HIDE DEF Row
<1>2. n \in Nat /\ n > 0 /\ DOMAIN days = 1 .. n /\ \A i \in 1 .. n : days[i] \in Row
  BY <1>1, LenProperties, ElementOfSeq, EmptySeq
<1> HIDE DEF n
<1>3. \A h \in Row : Candle(h) \in Candlestick
  BY CandleIs DEF Row
<1>4. Candles \in [1 .. n -> Candlestick]
  BY <1>2, <1>3 DEF Candles
<1>5. Candles \in Seq(Candlestick) /\ Len(Candles) = n
  BY <1>2, <1>4, ListIs
<1> QED
  BY <1>2, <1>5, EmptySeq

\* Of days that are there some are the last.
LEMMA LastDays ==
  ASSUME NEW d \in Seq(Candlestick), d # <<>>, NEW n \in Nat, n > 0
  PROVE  Final(d, n) \in Seq(Candlestick) /\ Final(d, n) # <<>>
<1> DEFINE l == Len(d)
           first == IF 1 >= l - n + 1 THEN 1 ELSE l - n + 1
<1>1. l \in Nat /\ l > 0 /\ \A k \in 1 .. l : d[k] \in Candlestick
  BY LenProperties, ElementOfSeq, EmptySeq
<1>2. Final(d, n) = SubSeq(d, first, l)
  <2>1. 1 \in Int /\ l - n + 1 \in Int
    BY <1>1
  <2>2. Max({1, l - n + 1}) = first
    BY <2>1, MaxOfTwo
  <2> QED
    BY <2>2 DEF Final
<1> HIDE DEF l
<1>3. first \in Nat /\ first > 0 /\ first <= l
  BY <1>1
<1> HIDE DEF first
<1>4. \A k \in first .. l : d[k] \in Candlestick
  BY <1>1, <1>3
<1>5. /\ SubSeq(d, first, l) \in Seq(Candlestick)
      /\ Len(SubSeq(d, first, l)) = IF first <= l THEN l - first + 1 ELSE 0
  BY <1>1, <1>3, <1>4, SubSeqProperties
<1> DEFINE w == SubSeq(d, first, l)
<1>6. w \in Seq(Candlestick) /\ Len(w) > 0 /\ Final(d, n) = w
  BY <1>1, <1>2, <1>3, <1>5
<1> HIDE DEF w
<1>7. w # <<>>
  <2>1. Len(<<>>) = 0
    OBVIOUS
  <2> QED
    BY <1>6, <2>1
<1> QED
  BY <1>6, <1>7

\* What is known of each of some days.
LEMMA DayIs ==
  ASSUME NEW d \in Seq(Candlestick), NEW i \in 1 .. Len(d)
  PROVE  /\ d[i].energy \in Nat /\ d[i].open \in Nat /\ d[i].close \in Nat
         /\ d[i].high \in Nat /\ d[i].low \in Nat
         /\ d[i].low <= d[i].open /\ d[i].open <= d[i].high
         /\ d[i].low <= d[i].close /\ d[i].close <= d[i].high
         /\ d[i].high <= d[i].energy
<1>1. d[i] \in Candlestick
  BY ElementOfSeq
<1> DEFINE c == d[i]
<1>2. c \in Candlestick
  BY <1>1
<1> HIDE DEF c
<1>3. /\ c.energy \in Nat /\ c.open \in Nat /\ c.close \in Nat
      /\ c.high \in Nat /\ c.low \in Nat
      /\ c.low <= c.open /\ c.open <= c.high
      /\ c.low <= c.close /\ c.close <= c.high
      /\ c.high <= c.energy
  BY <1>2 DEF Candlestick
<1> QED
  BY <1>3 DEF c

\* The greatest and the least of a column of figures of some rows.
LEMMA ColumnBounds ==
  ASSUME NEW n \in Nat, n > 0, NEW f \in [1 .. n -> Nat]
  PROVE  /\ Max(Among(f)) \in Nat /\ Min(Among(f)) \in Nat
         /\ \A i \in 1 .. n : Min(Among(f)) <= f[i] /\ f[i] <= Max(Among(f))
         /\ \E i \in 1 .. n : Max(Among(f)) = f[i]
<1>1. f \in Seq(Nat) /\ Len(f) = n
  BY ListIs
<1>2. f # <<>>
  BY <1>1, EmptySeq
<1> QED
  BY <1>1, <1>2, AmongBounds, AmongIs

\* The ends of the scale of the market chart.
LEMMA ScaleHolds ==
  ASSUME NEW d \in Seq(Candlestick), d # <<>>
  PROVE  /\ Lowest(d) \in Nat /\ Highest(d) \in Nat
         /\ \A i \in 1 .. Len(d) : Lowest(d) <= d[i].low /\ d[i].high <= Highest(d)
         /\ \E i \in 1 .. Len(d) : Highest(d) = d[i].high
<1> DEFINE n == Len(d)
           f == [i \in 1 .. n |-> d[i].low]
           g == [i \in 1 .. n |-> d[i].high]
<1>1. n \in Nat /\ n > 0 /\ DOMAIN d = 1 .. n
  BY LenProperties, EmptySeq
<1>2. \A i \in 1 .. n : d[i].low \in Nat /\ d[i].high \in Nat
  BY DayIs
<1>3. Lowest(d) = Min(Among(f)) /\ Highest(d) = Max(Among(g))
  BY <1>1 DEF Lowest, Highest
<1>4. \A i \in 1 .. n : f[i] = d[i].low /\ g[i] = d[i].high
  OBVIOUS
<1> HIDE DEF n
<1>5. f \in [1 .. n -> Nat] /\ g \in [1 .. n -> Nat]
  BY <1>2
<1> HIDE DEF f, g
<1>6. Min(Among(f)) \in Nat /\ \A i \in 1 .. n : Min(Among(f)) <= f[i]
  BY <1>1, <1>5, ColumnBounds
<1>7. /\ Max(Among(g)) \in Nat /\ \A i \in 1 .. n : g[i] <= Max(Among(g))
      /\ \E i \in 1 .. n : Max(Among(g)) = g[i]
  BY <1>1, <1>5, ColumnBounds
<1> QED
  BY <1>3, <1>4, <1>6, <1>7 DEF n

\* The bars of the statistics, of the days sampled.
LEMMA StatisticsInside ==
  ASSUME NEW d \in Seq(Candlestick), d # <<>>
  PROVE  StatisticsFit(Statistics(d))
<1> DEFINE n == Len(d)
           most == 7
           drawn == Sampled(d, most)
           H == {d[i].high : i \in drawn}
           best == Max(H)
           Hs == UNION {{d[i].open, d[i].high, d[i].close} : i \in drawn}
           top == Highest(d)
<1>1. Statistics(d) = [best |-> best,
                       bars |-> {[part |-> 100 * h, whole |-> 112 * best] : h \in Hs},
                       count |-> Cardinality(drawn)]
  BY DEF Statistics
<1>2. drawn \in SUBSET (1 .. n) /\ 1 \in drawn /\ Cardinality(drawn) <= 7
  <2>1. most \in Nat /\ most > 0
    OBVIOUS
  <2> HIDE DEF most
  <2>2. drawn \in SUBSET (1 .. n) /\ 1 \in drawn /\ Cardinality(drawn) <= most
    BY <2>1, SampledCount
  <2> HIDE DEF drawn
  <2> QED
    BY <2>2 DEF most
<1> HIDE DEF drawn
<1>3. top \in Nat /\ \A i \in drawn : d[i].high \in Nat /\ d[i].high <= top
  BY <1>2, ScaleHolds, DayIs
<1> HIDE DEF top
<1>4. best \in Nat /\ \A i \in drawn : d[i].high <= best
  <2>1. H \in SUBSET Nat /\ H # {} /\ \A x \in H : x <= top
    BY <1>2, <1>3
  <2>2. \A i \in drawn : d[i].high \in H
    OBVIOUS
  <2> HIDE DEF H
  <2>3. best \in H /\ \A x \in H : x <= best
    BY <1>3, <2>1, TopOfSome
  <2> QED
    BY <2>1, <2>2, <2>3
<1> HIDE DEF best
<1>5. ASSUME best > 0, NEW h \in Hs PROVE Fits([part |-> 100 * h, whole |-> 112 * best])
  <2>1. PICK i \in drawn : h = d[i].open \/ h = d[i].high \/ h = d[i].close
    OBVIOUS
  <2>2. /\ d[i].open \in Nat /\ d[i].high \in Nat /\ d[i].close \in Nat
        /\ d[i].open <= d[i].high /\ d[i].close <= d[i].high
    BY <1>2, DayIs
  <2>3. h \in Nat /\ h <= d[i].high
    BY <2>1, <2>2
  <2>4. h <= best
    BY <1>4, <2>2, <2>3
  <2>5. 112 * best > 0 /\ 100 * h \in 0 .. 112 * best
    BY <1>4, <1>5, <2>3, <2>4
  <2> QED
    BY <2>5 DEF Fits
<1> HIDE DEF Hs
<1> DEFINE st == Statistics(d)
<1>6. st.best = best /\ st.count <= 7
  BY <1>1, <1>2
<1>7. \A b \in st.bars : \E h \in Hs : b = [part |-> 100 * h, whole |-> 112 * best]
  BY <1>1
<1> HIDE DEF st
<1>8. ASSUME st.best > 0, NEW b \in st.bars PROVE Fits(b)
  BY <1>5, <1>6, <1>7, <1>8
<1> QED
  BY <1>6, <1>8 DEF StatisticsFit, st

\* A place beside the list is moved to its end, any other stays.
LEMMA ClampIs ==
  ASSUME NEW i \in Int, NEW n \in Nat, n > 0
  PROVE  Clamp(i, n) \in 0 .. n - 1 /\ (i \in 0 .. n - 1 => Clamp(i, n) = i)
<1> DEFINE low == Min({n - 1, i})
<1>1. low = IF n - 1 <= i THEN n - 1 ELSE i
  <2>1. n - 1 \in Int
    OBVIOUS
  <2> QED
    BY <2>1, MinOfTwo
<1>2. Clamp(i, n) = Max({0, low})
  BY DEF Clamp
<1> HIDE DEF low
<1>3. low \in Int /\ 0 \in Int
  BY <1>1
<1>4. Max({0, low}) = IF 0 >= low THEN 0 ELSE low
  BY <1>3, MaxOfTwo
<1> QED
  BY <1>1, <1>2, <1>4

\* The day read out is the one in whose column the pointer is.
LEMMA MarketPointer ==
  ASSUME NEW p \in Int, NEW n \in Nat, n > 0
  PROVE  MarketUnder(p, n)
<1> DEFINE a == (p - 58) * n
           q == a \div 860
<1>1. a \in Int
  OBVIOUS
<1>2. MarketReadout(p, n) = Clamp(q, n)
  BY DEF MarketReadout
<1> HIDE DEF a
<1>3. q \in Int /\ a % 860 \in 0 .. 859 /\ a = 860 * q + (a % 860)
  BY <1>1
<1> HIDE DEF q
<1>4. Clamp(q, n) \in 0 .. n - 1
  <2>1. q \in Int
    BY <1>3
  <2> QED
    BY <2>1, ClampIs
<1>5. ASSUME p \in 58 .. 917 PROVE a - 860 * Clamp(q, n) \in 0 .. 859
  <2> DEFINE x == p - 58
  <2>1. x \in Nat /\ x <= 859 /\ a = x * n
    BY <1>5 DEF a
  <2> HIDE DEF x
  <2>2. a \in Nat /\ a <= 859 * n
    BY <2>1
  <2>3. q >= 0 /\ q < n
    BY <1>3, <2>2
  <2>4. Clamp(q, n) = q
    BY <1>3, <2>3, ClampIs
  <2> QED
    BY <1>1, <1>3, <2>4
<1> DEFINE r == MarketReadout(p, n)
<1>6. r \in 0 .. n - 1 /\ (p \in 58 .. 917 => a - 860 * r \in 0 .. 859)
  BY <1>2, <1>4, <1>5
<1> QED
  BY <1>6, Zenon DEF a, MarketUnder

\* The hour read out is the nearest one.
LEMMA TrendPointer ==
  ASSUME NEW p \in Int, NEW n \in Nat, n > 0
  PROVE  TrendUnder(p, n)
<1> DEFINE b == (p - 39) * (n - 1)
           a == 2 * b + 853
           q == a \div (2 * 853)
<1>1. b \in Int
  OBVIOUS
<1>2. TrendReadout(p, n) = Clamp(q, n)
  <2>1. 2 * (p - 39) * (n - 1) = 2 * b
    OBVIOUS
  <2> QED
    BY <2>1 DEF TrendReadout
<1> HIDE DEF b
<1>3. q \in Int /\ a % 1706 \in 0 .. 1705 /\ a = 1706 * q + (a % 1706)
  BY <1>1
<1> HIDE DEF q
<1>4. Clamp(q, n) \in 0 .. n - 1
  <2>1. q \in Int
    BY <1>3
  <2> QED
    BY <2>1, ClampIs
<1>5. ASSUME p \in 39 .. 892 PROVE 2 * (b - 853 * Clamp(q, n)) \in -853 .. 853
  <2> DEFINE x == p - 39
             m == n - 1
  <2>1. x \in Nat /\ x <= 853 /\ m \in Nat /\ b = x * m
    BY <1>5 DEF b
  <2> HIDE DEF x
  <2>2. b \in Nat /\ b <= 853 * m
    <3> HIDE DEF m
    <3> QED
      BY <2>1
  <2>3. q >= 0 /\ q < n
    BY <1>3, <2>2
  <2>4. Clamp(q, n) = q
    BY <1>3, <2>3, ClampIs
  <2> QED
    BY <1>1, <1>3, <2>4
<1> DEFINE r == TrendReadout(p, n)
<1>6. r \in 0 .. n - 1 /\ (p \in 39 .. 892 => 2 * (b - 853 * r) \in -853 .. 853)
  BY <1>2, <1>4, <1>5
<1> QED
  BY <1>6, Zenon DEF b, TrendUnder

\* Wherever the pointer of either chart is, what is read out is under it.
LEMMA ReadoutsFit ==
  ASSUME NEW n \in Nat, n > 0
  PROVE  PointersFit(n)
<1>1. Pointers \subseteq Int
  BY DEF Pointers
<1>2. ASSUME NEW p \in Pointers PROVE MarketUnder(p, n) /\ TrendUnder(p, n)
  <2>1. p \in Int
    BY <1>1
  <2> QED
    BY <2>1, MarketPointer, TrendPointer
<1> QED
  BY <1>2 DEF PointersFit

\* The scale of the market chart holds each day of it, and what lies between days.
LEMMA HeightFits ==
  ASSUME NEW d, Lowest(d) \in Nat, Highest(d) \in Nat, Highest(d) > 0,
         NEW of \in Nat, of > 0, NEW sum \in Nat,
         of * Lowest(d) <= sum, sum <= of * Highest(d)
  PROVE  Fits(Height(d, sum, of))
<1> DEFINE x == of * Lowest(d)
           y == of * Highest(d)
<1>1. x \in Nat /\ y \in Nat /\ y > 0 /\ x <= sum /\ sum <= y
  OBVIOUS
<1>2. Height(d, sum, of) = [part |-> 100 * sum - 85 * x, whole |-> 108 * y - 85 * x]
  BY DEF Height
<1> HIDE DEF x, y
<1>3. 108 * y - 85 * x > 0 /\ 100 * sum - 85 * x \in 0 .. 108 * y - 85 * x
  BY <1>1
<1> QED
  BY <1>2, <1>3 DEF Fits

\* An average of the last days lies between the lowest and the highest day, even
\* where there are fewer days than it is of.
LEMMA AverageBetween ==
  ASSUME NEW S, NEW shown \in Seq(S), NEW n \in Nat, n > 0, NEW i \in 1 .. Len(shown),
         NEW low \in Nat, NEW high \in Nat,
         \A d \in S : d.close \in Nat /\ low <= d.close /\ d.close <= high
  PROVE  LET a == MovingAverage(shown, n, i)
         IN  /\ a.sum \in Nat /\ a.of \in Nat /\ a.of > 0
             /\ a.of * low <= a.sum /\ a.sum <= a.of * high
<1> DEFINE m == IF i <= n THEN i ELSE n
           first == i - m + 1
           recent == SubSeq(shown, Max({1, i - n + 1}), i)
           f == [k \in DOMAIN recent |-> recent[k].close]
           l == Len(shown)
<1>1. l \in Nat /\ i \in 1 .. l /\ \A k \in 1 .. l : shown[k] \in S
  BY LenProperties, ElementOfSeq
<1> HIDE DEF l
<1>2. /\ m \in Nat /\ m > 0 /\ m <= i /\ first \in Nat /\ first > 0 /\ first <= i
      /\ i \in Nat /\ i <= l /\ i - first + 1 = m
  BY <1>1
<1>3. Min({i, n}) = m
  BY <1>2, MinOfTwo
<1>4. Max({1, i - n + 1}) = first
  <2>1. i - n + 1 \in Int /\ 1 \in Int
    BY <1>2
  <2>2. Max({1, i - n + 1}) = IF 1 >= i - n + 1 THEN 1 ELSE i - n + 1
    BY <2>1, MaxOfTwo
  <2> QED
    BY <1>2, <2>2
<1>5. MovingAverage(shown, n, i) = [sum |-> Sum(f), of |-> m]
  BY <1>3 DEF MovingAverage
<1>6. recent \in Seq(S) /\ Len(recent) = m
  <2>1. recent = SubSeq(shown, first, i)
    BY <1>4
  <2> HIDE DEF first, recent, m
  <2>2. \A k \in first .. i : shown[k] \in S
    BY <1>1, <1>2
  <2>3. /\ SubSeq(shown, first, i) \in Seq(S)
        /\ Len(SubSeq(shown, first, i)) = IF first <= i THEN i - first + 1 ELSE 0
    BY <1>2, <2>2, SubSeqProperties
  <2> QED
    BY <1>2, <2>1, <2>3
<1> HIDE DEF recent, m
<1>7. DOMAIN recent = 1 .. m /\ \A k \in 1 .. m : recent[k] \in S
  BY <1>6, LenProperties, ElementOfSeq
<1>8. f \in [1 .. m -> Nat] /\ \A k \in 1 .. m : low <= f[k] /\ f[k] <= high
  BY <1>7
<1>9. Len(f) = m
  <2> HIDE DEF f
  <2> QED
    BY <1>2, <1>8, ListIs
<1> HIDE DEF f
<1>10. low * m <= SumTo(f, m) /\ SumTo(f, m) <= high * m
  <2>1. \A k \in 1 .. m : f[k] \in Nat /\ low <= f[k] /\ f[k] <= high
    BY <1>8
  <2> QED
    BY <1>2, <2>1, SumToBounds
<1>11. Sum(f) = SumTo(f, m) /\ SumTo(f, m) \in Nat
  BY <1>2, <1>8, <1>9, SumToNat DEF Sum
<1>12. low * m = m * low /\ high * m = m * high /\ m * low \in Int /\ m * high \in Int
  BY <1>2
<1>13. m * low <= Sum(f) /\ Sum(f) <= m * high /\ Sum(f) \in Nat /\ m \in Nat /\ m > 0
  BY <1>2, <1>10, <1>11, <1>12
<1> QED
  BY <1>5, <1>13

\* The market chart, of any days that have some energy.
LEMMA MarketInside ==
  ASSUME NEW d \in Seq(Candlestick), d # <<>>
  PROVE  MarketFits(d)
<1> DEFINE n == Len(d)
           low == Lowest(d)
           high == Highest(d)
           f == [k \in 1 .. n |-> d[k].energy]
           best == Max(Among(f))
<1>1. n \in Nat /\ n > 0 /\ DOMAIN d = 1 .. n
  BY LenProperties, EmptySeq
<1>2. /\ low \in Nat /\ high \in Nat
      /\ \A i \in 1 .. n : low <= d[i].low /\ d[i].high <= high
      /\ \E i \in 1 .. n : high = d[i].high
  BY ScaleHolds
<1>3. /\ best \in Nat /\ \A i \in 1 .. n : d[i].energy <= best
  <2>1. \A i \in 1 .. n : d[i].energy \in Nat /\ f[i] = d[i].energy
    BY DayIs
  <2>2. f \in [1 .. n -> Nat]
    BY <2>1
  <2> HIDE DEF f, n
  <2>3. Max(Among(f)) \in Nat /\ \A i \in 1 .. n : f[i] <= Max(Among(f))
    BY <1>1, <2>2, ColumnBounds
  <2> QED
    BY <2>1, <2>3
<1>4. [k \in DOMAIN d |-> d[k].energy] = f
  BY <1>1
<1> HIDE DEF f, best
<1>5. PointersFit(n) /\ Cardinality(Sampled(d, 6)) <= 6
  <2> DEFINE six == 6
  <2>1. six \in Nat /\ six > 0
    OBVIOUS
  <2> HIDE DEF six
  <2>2. Cardinality(Sampled(d, six)) <= six
    BY <2>1, SampledCount
  <2> HIDE DEF n
  <2> QED
    BY <1>1, <2>2, ReadoutsFit DEF six
<1>6. ASSUME high > 0, NEW i \in 1 .. n
      PROVE  /\ \A h \in {d[i].open, d[i].close, d[i].low, d[i].high} : Fits(Height(d, h, 1))
             /\ Fits([part |-> d[i].energy, whole |-> best])
  <2> DEFINE one == 1
  <2>1. one \in Nat /\ one > 0 /\ \A x \in Nat : one * x = x
    OBVIOUS
  <2> HIDE DEF one
  <2>2. ASSUME NEW h \in {d[i].open, d[i].close, d[i].low, d[i].high}
        PROVE  Fits(Height(d, h, one))
    <3>1. h \in Nat /\ d[i].low <= h /\ h <= d[i].high /\ d[i].low \in Nat
          /\ d[i].high \in Nat
      BY <2>2, DayIs
    <3>2. low <= h /\ h <= high
      BY <1>2, <3>1
    <3>3. one * low <= h /\ h <= one * high
      BY <1>2, <2>1, <3>2
    <3> QED
      BY <1>2, <1>6, <2>1, <3>1, <3>3, HeightFits
  <2>3. best > 0
    <3>1. PICK j \in 1 .. n : high = d[j].high
      BY <1>2
    <3>2. d[j].high <= d[j].energy /\ d[j].energy \in Nat /\ d[j].energy <= best
      BY <1>3, DayIs
    <3> QED
      BY <1>2, <1>3, <1>6, <3>1, <3>2
  <2>4. d[i].energy \in Nat /\ d[i].energy <= best
    BY <1>3, DayIs
  <2>5. Fits([part |-> d[i].energy, whole |-> best])
    BY <1>3, <2>3, <2>4 DEF Fits
  <2> QED
    BY <2>2, <2>5 DEF one
<1>7. ASSUME high > 0, NEW i \in 1 .. n, NEW span \in {5, 20}
      PROVE  Fits(Height(d, MovingAverage(d, span, i).sum, MovingAverage(d, span, i).of))
  <2> DEFINE S == {c \in Candlestick : low <= c.low /\ c.high <= high}
             a == MovingAverage(d, span, i)
  <2>1. d \in Seq(S)
    <3>1. \A k \in 1 .. n : d[k] \in S
      BY <1>2, ElementOfSeq
    <3>2. d \in [1 .. n -> S]
      BY <1>1, <3>1, LenProperties, ElementOfSeq
    <3> HIDE DEF S, n
    <3> QED
      BY <1>1, <3>2, ListIs
  <2>2. ASSUME NEW c \in S PROVE c.close \in Nat /\ low <= c.close /\ c.close <= high
    <3>1. c \in Candlestick /\ low <= c.low /\ c.high <= high
      OBVIOUS
    <3>2. c.low \in Nat /\ c.close \in Nat /\ c.high \in Nat /\ c.low <= c.close
          /\ c.close <= c.high
      BY <3>1 DEF Candlestick
    <3> HIDE DEF low, high
    <3> QED
      BY <1>2, <3>1, <3>2
  <2>3. span \in Nat /\ span > 0
    OBVIOUS
  <2> HIDE DEF S
  <2>4. /\ a.sum \in Nat /\ a.of \in Nat /\ a.of > 0
        /\ a.of * low <= a.sum /\ a.sum <= a.of * high
    BY <1>2, <2>1, <2>2, <2>3, AverageBetween
  <2> HIDE DEF a
  <2>5. Fits(Height(d, a.sum, a.of))
    BY <1>2, <1>7, <2>4, HeightFits
  <2> QED
    BY <2>5 DEF a
<1>8. high > 0 => DaysFit(d)
  BY <1>1, <1>4, <1>6 DEF DaysFit, best
<1>9. high > 0 => AveragesFit(d)
  BY <1>1, <1>7 DEF AveragesFit
<1> QED
  BY <1>5, <1>8, <1>9 DEF MarketFits

\* The columns of the days: stacked of their groups, and none above the busiest.
LEMMA EventsInside ==
  ASSUME events \in Logs
  PROVE  EventsInFrame
<1> DEFINE recent == Days(events, 14)
           stacks == DayStacks(events, recent)
           bound == Len(events) + 1
           Counts == {Cardinality(recent[d]) : d \in DOMAIN recent} \cup {1}
           Group(d) == Operations(events, recent[d])
<1>1. bound \in Nat /\ Len(events) \in Nat /\ DOMAIN events = 1 .. Len(events)
  BY LogIs
<1>2. \A d \in DOMAIN recent : recent[d] \in SUBSET (DOMAIN events)
  BY DEF Days
<1>3. stacks = [d \in DOMAIN recent |-> [groups |-> Slices(Group(d)), whole |-> Max(Counts)]]
  BY DEF DayStacks
<1> HIDE DEF recent, stacks
<1>4. ASSUME NEW d \in DOMAIN recent
      PROVE  /\ Group(d) \in Seq(Nat) /\ Len(Group(d)) = 4
             /\ Sum(Group(d)) = Cardinality(recent[d])
             /\ Cardinality(recent[d]) \in Nat /\ Cardinality(recent[d]) <= bound
  <2>1. IsFiniteSet(DOMAIN events) /\ Cardinality(DOMAIN events) = Len(events)
    BY <1>1, UpTo
  <2>2. Cardinality(recent[d]) <= Len(events)
    BY <1>2, <2>1, FS_Subset
  <2>3. /\ Group(d) \in Seq(Nat) /\ Len(Group(d)) = 4
        /\ Sum(Group(d)) = Cardinality(recent[d]) /\ Cardinality(recent[d]) \in Nat
    BY <1>2, OperationsClose
  <2> QED
    BY <1>1, <2>2, <2>3
<1> HIDE DEF Group
<1>5. \A d \in DOMAIN recent : Cardinality(recent[d]) <= Max(Counts)
  <2>1. Counts \in SUBSET Nat /\ Counts # {} /\ \A x \in Counts : x <= bound
    BY <1>1, <1>4
  <2>2. \A d \in DOMAIN recent : Cardinality(recent[d]) \in Counts
    OBVIOUS
  <2> HIDE DEF Counts, bound
  <2>3. \A x \in Counts : x <= Max(Counts)
    BY <1>1, <2>1, TopOfSome
  <2> QED
    BY <2>2, <2>3
<1> HIDE DEF Counts
<1>6. ASSUME NEW d \in DOMAIN stacks
      PROVE  Closes(stacks[d].groups, Cardinality(recent[d]))
             /\ stacks[d].groups[4].to <= stacks[d].whole
  <2> DEFINE f == Group(d)
  <2>1. /\ d \in DOMAIN recent /\ stacks[d].groups = Slices(f)
        /\ stacks[d].whole = Max(Counts)
    BY <1>3
  <2>2. /\ f \in Seq(Nat) /\ Len(f) = 4 /\ Sum(f) = Cardinality(recent[d])
        /\ Cardinality(recent[d]) <= Max(Counts)
    BY <1>4, <1>5, <2>1
  <2> HIDE DEF f
  <2>3. Closes(Slices(f), Sum(f))
    BY <2>2, SlicesClose
  <2>4. DOMAIN f = 1 .. 4
    BY <2>2, FiguresAre
  <2>5. Slices(f)[4].to = SumTo(f, 4)
    BY <2>4 DEF Slices
  <2>6. Sum(f) = SumTo(f, 4)
    BY <2>2 DEF Sum
  <2> QED
    BY <2>1, <2>2, <2>3, <2>5, <2>6
<1> QED
  BY <1>6 DEF recent, stacks, EventsInFrame

\* All that is drawn of the figures is in its frame.
LEMMA FiguresInside ==
  ASSUME figures \in Seq(Nat), figures # <<>>
  PROVE  FiguresInFrame
BY CardsInside, LeadersFit, FlowWithin DEF FiguresInFrame

\* And so is what is drawn of the days.
LEMMA DaysInside ==
  ASSUME days \in Seq(Seq(Nat) \ {<<>>}), days # <<>>
  PROVE  DaysInFrame
<1> DEFINE month == 31
<1>1. Candles \in Seq(Candlestick) /\ Candles # <<>>
  BY CandlesAre
<1>2. ASSUME NEW range \in Ranges PROVE MarketFits(Final(Candles, range))
  <2>1. range \in Nat /\ range > 0
    BY ChartsAssumption
  <2> QED
    BY <1>1, <2>1, LastDays, MarketInside
<1>3. month \in Nat /\ month > 0
  OBVIOUS
<1> HIDE DEF month
<1>4. StatisticsFit(Statistics(Final(Candles, month)))
  BY <1>1, <1>3, LastDays, StatisticsInside
<1>5. StatisticsFit(Statistics(Candles))
  BY <1>1, StatisticsInside
<1> QED
  BY <1>2, <1>4, <1>5 DEF DaysInFrame, month
-----------------------------------------------------------------------------
\* The rows a page has read: figures, or days, or events, or the states of orders.
ChartsInv ==
  /\ figures \in Seq(Amounts)
  /\ days \in Seq(DayHours)
  /\ events \in Seq([area : Areas, time : Times])
  /\ orders \in Seq(Statuses)

\* There are none before the first.
LEMMA ChartsStart == ChartsInit => ChartsInv
BY EmptySeq DEF ChartsInit, ChartsInv

\* Each step adds one row of its kind.
LEMMA ChartsKeep == ChartsInv /\ [ChartsStep]_chartVars => ChartsInv'
<1> SUFFICES ASSUME ChartsInv, [ChartsStep]_chartVars PROVE ChartsInv'
  OBVIOUS
<1> DEFINE Row == [area : Areas, time : Times]
<1>1. ASSUME NEW S, NEW v \in Seq(S), NEW x \in S PROVE Append(v, x) \in Seq(S)
  OBVIOUS
<1>2. /\ figures \in Seq(Amounts) /\ days \in Seq(DayHours)
      /\ events \in Seq(Row) /\ orders \in Seq(Statuses)
  BY DEF ChartsInv
<1>3. CASE NextFigure
  BY <1>2, <1>3 DEF NextFigure, ChartsInv
<1>4. CASE NextDay
  BY <1>2, <1>4 DEF NextDay, ChartsInv
<1>5. CASE NextEvent
  <2>1. PICK a \in Areas, t \in Times : events' = Append(events, [area |-> a, time |-> t])
    BY <1>5 DEF NextEvent
  <2>2. [area |-> a, time |-> t] \in Row
    OBVIOUS
  <2> HIDE DEF Row
  <2>3. events' \in Seq(Row)
    BY <1>1, <1>2, <2>1, <2>2
  <2>4. figures' = figures /\ days' = days /\ orders' = orders
    BY <1>5 DEF NextEvent
  <2> QED
    BY <1>2, <2>3, <2>4 DEF ChartsInv, Row
<1>6. CASE NextOrder
  BY <1>2, <1>6 DEF NextOrder, ChartsInv
<1>7. CASE UNCHANGED chartVars
  BY <1>2, <1>7 DEF chartVars, ChartsInv
<1> QED
  BY <1>3, <1>4, <1>5, <1>6, <1>7 DEF ChartsStep

\* Whatever the rows are, they are numbers, days of some hours and logs.
LEMMA ChartsAreRead ==
  ASSUME ChartsInv
  PROVE  /\ figures \in Seq(Nat) /\ days \in Seq(Seq(Nat) \ {<<>>})
         /\ events \in Logs /\ orders \in Seq(Statuses)
<1> DEFINE Row == [area : Areas, time : Times]
           Wide == [area : Areas, time : Nat]
           Hours == Seq(Nat) \ {<<>>}
<1>1. Amounts \subseteq Nat /\ Row \subseteq Wide /\ DayHours \subseteq Hours
  BY ChartsAssumption
<1>2. /\ figures \in Seq(Amounts) /\ days \in Seq(DayHours)
      /\ events \in Seq(Row) /\ orders \in Seq(Statuses)
  BY DEF ChartsInv
<1> HIDE DEF Row, Wide, Hours
<1>3. figures \in Seq(Nat) /\ days \in Seq(Hours) /\ events \in Seq(Wide)
  BY <1>1, <1>2, SeqMonotonic
<1> QED
  BY <1>2, <1>3 DEF Logs, Wide, Hours

\* However many rows there are, and whatever they are, every pie is closed and every
\* row counted once: the donut of the console ends at the orders with a name of
\* their own, the ring of the dashboard at all of them, those that have none in the
\* part of the last (the charts of dashboard.js, dashboard-analytics.js,
\* dashboard-details.js, admin-activity.js and mobile-reference.js).
THEOREM ChartsStayAddedUp == ChartsInit /\ [][ChartsStep]_chartVars => []ChartsAddUp
<1>1. ChartsInv => ChartsAddUp
  BY ChartsAreRead, FiguresClose, EventsClose, OrdersClose DEF ChartsAddUp
<1> QED
  BY <1>1, ChartsStart, ChartsKeep, PTL

\* And nothing is drawn outside its frame: bars, curves that reach below zero, the
\* candles of days of whatever hours, their averages, stacked days, the three months
\* of the flow when there are three, and what the pointer reads out.
THEOREM ChartsStayInFrame == ChartsInit /\ [][ChartsStep]_chartVars => []ChartsInFrame
<1>1. ChartsInv => ChartsInFrame
  BY ChartsAreRead, FiguresInside, DaysInside, EventsInside DEF ChartsInFrame
<1> QED
  BY <1>1, ChartsStart, ChartsKeep, PTL
=============================================================================
