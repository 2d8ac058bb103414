----------------------------- MODULE DashboardPage -----------------------------
(***************************************************************************)
(* The dashboard (dashboard.js), the panels that are drawn with it         *)
(* (dashboard-details.js) and the history laid over it                     *)
(* (dashboard-analytics.js), all of which write to the same page.          *)
(*                                                                         *)
(* What the server says is one function: of each station, how many         *)
(* chargers are free.  The orders only an administrator sees stand for it  *)
(* too.  The public requests of a refresh are one read here, the one with  *)
(* the administrator's token another.                                      *)
(***************************************************************************)
EXTENDS Null, Naturals, FiniteSets

CONSTANTS
  Sites,         \* station ids
  MaxRefreshes,  \* bound on the refreshes in flight
  MaxUpsets      \* bound on changes, logins, disconnections and failures

ASSUME DashboardAssumption ==
  /\ IsFiniteSet(Sites) /\ MaxRefreshes \in Nat \ {0} /\ MaxUpsets \in Nat
  /\ None \notin {"empty", "ready"}

VARIABLES
  live,       \* external: what the server says, None of a station it does not have
  token,      \* localStorage: None, or whether the administrator's token is good
  table,      \* stationRows, and rows of detailViews: what the page knows
  chosen,     \* selectedId
  card,       \* the station in the region panel
  trades,     \* the orders shown, or Hidden
  dataset,    \* the history: None, "empty" or "ready"
  demo,       \* sessionStorage: the demo token, None, "old" or "new"
  asking,     \* what historicalScreen.refresh waits for
  figure,     \* of each tile that both scripts write to, whose figures it shows
  relabelled, \* the tiles whose captions speak of the history by now
  mode,       \* #mode-label
  flight,     \* the refreshes in flight
  upsets      \* how many things went another way

dashboardVars == <<live, token, table, chosen, card, trades, dataset, demo, asking,
                   figure, relabelled, mode, flight, upsets>>
history == <<dataset, demo, asking>>
tiles == <<figure, relabelled>>
drawnVars == <<table, chosen, card, trades, tiles, mode>>

Flights == 1 .. MaxRefreshes
Landed == [busy |-> FALSE, token |-> None, public |-> None, orders |-> None]
NoCard == [id |-> None, free |-> 0]
Nowhere == [s \in Sites |-> None]
Hidden == <<>>

\* What the functions that refresh() of dashboard.js calls write to, of what sync()
\* writes to as well: renderSummary, renderRankings, renderLoad, renderTrend and
\* render of detailViews.
RefreshDraws ==
  {"stations", "chargers", "utilization", "globe", "platform", "city", "energy",
   "trend", "devices", "available", "share"}

\* Mutant: sync() leaves one of the figures that each refresh writes.
SyncForgets ==
  {"stations", "chargers", "energy", "utilization", "globe", "platform", "city",
   "trend", "devices", "available"}

\* What sync() of dashboard-analytics.js writes to, and ...
SyncDraws ==
  {"stations", "chargers", "energy", "utilization", "globe", "platform", "city",
   "trend", "devices", "available", "share"}

\* ... where it writes a caption of the history too, which refresh() never does.
SyncLabels == {"stations", "energy", "utilization", "globe", "city", "available", "share"}

Tiles == RefreshDraws \cup SyncDraws

DashboardInit ==
  /\ live = [s \in Sites |-> 0] /\ token \in {None, "good"}
  /\ table = Nowhere /\ chosen = None /\ card = NoCard /\ trades = Hidden
  /\ dataset = None /\ demo \in {None, "old"} /\ asking = "session"
  /\ figure = [t \in Tiles |-> "none"] /\ relabelled = {} /\ mode = "initial"
  /\ flight = [f \in Flights |-> Landed]
  /\ upsets = 0

Upset == upsets < MaxUpsets /\ upsets' = upsets + 1
-----------------------------------------------------------------------------
(* The region panel (dashboard-details.js). *)

Existing(rows) == {s \in Sites : rows[s] # None}

\* select(): the card of a station, or nothing when it is not known.
Selected(rows, id) == IF id \in Existing(rows) THEN [id |-> id, free |-> rows[id]] ELSE card

\* A search that leaves one station selects it, by the rows of before.
Kept(rows) == {chosen} \cup (Existing(table) \cap Existing(rows))

Replacement(rows) ==
  IF Existing(rows) = {} THEN card
  ELSE Selected(rows, CHOOSE s \in Existing(rows) : TRUE)

\* Mutant: nothing is drawn again while the selection is still there.
RedrawnOnce(rows, kept) ==
  IF kept \in Existing(rows) THEN Selected(table, kept) ELSE Replacement(rows)

\* The end of renderMap: the selection stays while it exists.
Redrawn(rows, kept) ==
  IF kept \in Existing(rows) THEN Selected(rows, kept) ELSE Replacement(rows)

\* A click on a station, or a search with one result.
SelectSite(s) ==
  /\ s \in Existing(table)
  /\ chosen' = s /\ card' = Selected(table, s)
  /\ UNCHANGED <<live, token, table, trades, tiles, mode, history, flight, upsets>>
-----------------------------------------------------------------------------
(* refresh() of dashboard.js. *)

\* Two reads are started; without a token there is nothing to ask for.
Started(t) ==
  LET f == CHOOSE f \in Flights : ~flight[f].busy
  IN  /\ \E g \in Flights : ~flight[g].busy
      /\ flight' = [flight EXCEPT ![f] = [Landed EXCEPT !.busy = TRUE, !.token = t,
                       !.orders = IF t = None THEN Hidden ELSE None]]

\* Mutant: the interval ends with the first refresh that fails.
DueWhileGood == mode # "offline"

Due == TRUE

\* The button, and every 30 s the interval.
StartRefresh ==
  /\ Due /\ Started(token)
  /\ UNCHANGED <<live, token, drawnVars, history, upsets>>

ReadPublic(f) ==
  /\ flight[f].busy /\ flight[f].public = None
  /\ flight' = [flight EXCEPT ![f].public = live]
  /\ UNCHANGED <<live, token, drawnVars, history, upsets>>

\* adminApi: a token that is refused is removed, and so is one that came since.
ReadOrders(f) ==
  /\ flight[f].busy /\ flight[f].orders = None
  /\ \/ flight[f].token = "good"
        /\ flight' = [flight EXCEPT ![f].orders = live, ![f].token = None]
        /\ UNCHANGED token
     \/ flight[f].token = "old" /\ token' = None
        /\ flight' = [flight EXCEPT ![f].orders = Hidden, ![f].token = None]
  /\ UNCHANGED <<live, drawnVars, history, upsets>>

\* The figures f after the tiles in drawn are written anew.
Redrawing(f, drawn, whose) == [t \in Tiles |-> IF t \in drawn THEN whose ELSE f[t]]

\* sync(), with the dataset d, of the figures f: nothing until it is there.
Sync(d, f) ==
  /\ figure' = IF d = "ready" THEN Redrawing(f, SyncDraws, "history") ELSE f
  /\ relabelled' = IF d = "ready" THEN SyncLabels ELSE relabelled

\* renderLoad has the hours of a day that seed.py wrote.  A dataset that is not ready
\* makes sync() throw, when all has been drawn.
DrawRefresh(f) ==
  /\ flight[f].busy /\ flight[f].public # None /\ flight[f].orders # None
  /\ table' = flight[f].public
  /\ \E kept \in Kept(table') : card' = Redrawn(table', kept)
  /\ chosen' = card'.id
  /\ trades' = flight[f].orders
  /\ Sync(dataset, Redrawing(figure, RefreshDraws, "live"))
  /\ mode' = CASE dataset = "empty" -> "offline"
               [] dataset = "ready" -> "history"
               [] OTHER -> "live"
  /\ flight' = [flight EXCEPT ![f] = Landed]
  /\ UNCHANGED <<live, token, history, upsets>>

BreakRefresh(f) ==
  /\ Upset
  /\ flight[f].busy
  /\ flight' = [flight EXCEPT ![f] = Landed]
  /\ mode' = "offline"
  /\ UNCHANGED <<live, token, table, chosen, card, trades, tiles, history>>
-----------------------------------------------------------------------------
(* The administrator. *)

Login ==
  /\ Upset
  /\ token' = "good" /\ Started("good")
  /\ UNCHANGED <<live, drawnVars, history>>

Disconnect ==
  /\ Upset
  /\ token' = None /\ Started(None)
  /\ UNCHANGED <<live, drawnVars, history>>

\* External: the token's time is over.
ExpireToken ==
  /\ Upset
  /\ token = "good" /\ token' = "old"
  /\ flight' = [f \in Flights |-> [flight[f] EXCEPT
       !.token = IF @ = "good" THEN "old" ELSE @]]
  /\ UNCHANGED <<live, drawnVars, history>>

\* External: a charger is taken or released, a station added or deleted.
ServerChanges ==
  /\ Upset
  /\ \E s \in Sites, v \in {None, 1} : live' = [live EXCEPT ![s] = v]
  /\ UNCHANGED <<token, drawnVars, history, flight>>
-----------------------------------------------------------------------------
(* refresh() of dashboard-analytics.js, called once. *)

SessionAnswered ==
  /\ asking = "session"
  /\ \/ demo # None /\ UNCHANGED demo /\ asking' = "dataset"
     \/ demo = None /\ demo' = "new" /\ asking' = "dataset"
     \/ demo = None /\ UNCHANGED demo /\ asking' = "nothing"
  /\ UNCHANGED <<live, token, drawnVars, dataset, flight, upsets>>

\* A token of an earlier visit may be refused: a new one is asked for.
DatasetRefused ==
  /\ asking = "dataset" /\ demo = "old"
  /\ demo' = None /\ asking' = "session"
  /\ UNCHANGED <<live, token, drawnVars, dataset, flight, upsets>>

DatasetAnswered ==
  /\ asking = "dataset" /\ asking' = "nothing"
  /\ \/ dataset' = "ready" /\ mode' = "history" /\ Sync("ready", figure)
     \/ dataset' = "empty" /\ UNCHANGED <<tiles, mode>>
     \/ UNCHANGED <<dataset, tiles, mode>>
  /\ UNCHANGED <<live, token, table, chosen, card, trades, demo, flight, upsets>>

DashboardStep ==
  \/ StartRefresh \/ Login \/ Disconnect \/ ExpireToken \/ ServerChanges
  \/ SessionAnswered \/ DatasetRefused \/ DatasetAnswered
  \/ \E s \in Sites : SelectSite(s)
  \/ \E f \in Flights : ReadPublic(f) \/ ReadOrders(f) \/ DrawRefresh(f) \/ BreakRefresh(f)

\* A refresh in flight goes on.
RefreshSettles(f) == ReadPublic(f) \/ ReadOrders(f) \/ DrawRefresh(f)
-----------------------------------------------------------------------------
\* However refreshes overlap, fail or overtake each other, and whatever is
\* selected in between, the region panel shows a station of the list the page
\* has, with the figures of that list ("Additional screens consume the same
\* snapshot as the overview", dashboard-details.js:1).
SameSnapshot ==
  Existing(table) # {} =>
    /\ card.id = chosen /\ chosen \in Existing(table)
    /\ card.free = table[chosen]

\* Every refresh writes the platform's figures into tiles of the history, under
\* captions that it does not write: however refreshes overlap, fail and are drawn
\* late, no tile is left with a caption of the one over a figure of the other, and
\* with the history on the page all of them show it ("refresh retains imported
\* data", scripts/check_dashboard_browser.cjs, which looks at one).
HistoryKept ==
  /\ \A t \in SyncLabels : t \in relabelled <=> figure[t] = "history"
  /\ \A t \in Tiles : dataset = "ready" <=> figure[t] = "history"

DashboardShown == table = live /\ trades = IF token = "good" THEN live ELSE Hidden
=============================================================================
