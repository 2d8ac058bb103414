------------------------------ MODULE MobileBrowse ------------------------------
(***************************************************************************)
(* Finding a charger in the mobile page (mobile.js, mobile-reference.js):  *)
(* the stations on the map, the one selected, its chargers and the one     *)
(* that would be reserved.  A station or charger stands for its name,      *)
(* prices and code too.                                                    *)
(***************************************************************************)
EXTENDS Null, Naturals, Sequences

CONSTANTS
  Served,     \* the stations the server lists, in its order
  Preview,    \* the fallback stations
  Limits,     \* what the charge can be limited to
  MaxDetails  \* bound on the times a station's chargers are asked for

ASSUME BrowseAssumption ==
  MaxDetails \in Nat /\ Preview # <<>> /\ None \notin Limits

VARIABLES
  stations, activeStation, onlyAvailable,
  taken,            \* external: the stations listed without a free charger
  markers,          \* the indexes of the stations on the map
  pinned,           \* the index whose marker is drawn as selected
  titles,           \* the station the sheet and the detail screen name
  limit,            \* #charge-limit
  estimate,         \* the limit and station the estimate was made for
  chargers,         \* the chargers last read
  selectedCharger,
  connectors,       \* the chargers in #connector-list
  connectorLabel,   \* #selected-connector-label
  booked,           \* the charger last asked for, and the one named beside the button
  details           \* the requests for chargers in flight, and all so far

browseVars == <<stations, activeStation, onlyAvailable, taken, markers, pinned,
                titles, limit, estimate, chargers, selectedCharger, connectors,
                connectorLabel, booked, details>>
stationVars == <<stations, activeStation, onlyAvailable, taken, markers, pinned,
                 titles, limit, estimate>>
chargerVars == <<chargers, selectedCharger, connectors, connectorLabel>>

Kinds == {"fast", "slow"}
Ids(s) == {s[i] : i \in DOMAIN s}

BrowseInit ==
  /\ stations = <<>> /\ activeStation = 1 /\ onlyAvailable = FALSE /\ taken = {}
  /\ markers = {} /\ pinned = None /\ titles = None
  /\ limit = (CHOOSE l \in Limits : TRUE) /\ estimate = <<None, None>>
  /\ chargers = {} /\ selectedCharger = None /\ connectors = {}
  /\ connectorLabel = None /\ booked = None
  /\ details = [count |-> 0, asked |-> {}]
-----------------------------------------------------------------------------
(* Stations. *)

RenderMarkers(list, active, only) ==
  /\ markers' = {i \in DOMAIN list : only => list[i] \notin taken'}
  /\ pinned' = active

SelectStation(list, i) ==
  /\ activeStation' = i
  /\ RenderMarkers(list, i, onlyAvailable)
  /\ titles' = list[i] /\ estimate' = <<limit, list[i]>>

\* loadStations: the stations imported, all when there are none, the fallback
\* when the list is empty or cannot be read.
LoadStations ==
  /\ stations = <<>>
  /\ \/ stations' = Served /\ taken' \in SUBSET Ids(Served) /\ Served # <<>>
     \/ stations' = Preview /\ taken' = {}
  /\ SelectStation(stations', 1)
  /\ UNCHANGED <<onlyAvailable, limit, booked, details>> /\ UNCHANGED chargerVars

\* A marker, a marker on the small map, or a name that is searched for.
Pick(i) ==
  /\ taken' = taken /\ SelectStation(stations, i)
  /\ UNCHANGED <<stations, onlyAvailable, limit, booked, details>> /\ UNCHANGED chargerVars

\* #filter-button, also before there is a list.
FilterStations ==
  /\ onlyAvailable' = ~onlyAvailable /\ taken' = taken
  /\ RenderMarkers(stations, activeStation, onlyAvailable')
  /\ UNCHANGED <<stations, activeStation, titles, limit, estimate, booked, details>>
  /\ UNCHANGED chargerVars

Limit(l) ==
  /\ limit' = l
  /\ estimate' = IF stations = <<>> THEN estimate ELSE <<l, stations[activeStation]>>
  /\ UNCHANGED <<stations, activeStation, onlyAvailable, taken, markers, pinned, titles,
                 booked, details>> /\ UNCHANGED chargerVars
-----------------------------------------------------------------------------
(* Chargers. *)

Free(list) == {c \in list : c.free}

\* Mutant: the label is left as it is.
LabelKept(charger) == connectorLabel

\* onConnector
Labelled(charger) == charger

RenderChargers(list, charger, kinds) ==
  /\ chargers' = list /\ selectedCharger' = charger
  /\ connectors' = {c \in list : c.kind \in kinds}
  /\ connectorLabel' = Labelled(charger)

\* openDetail; a station of the fallback has no chargers to ask for.
OpenDetail(s) ==
  IF s \in Ids(Preview) THEN RenderChargers({}, None, Kinds) /\ UNCHANGED details
  ELSE /\ details.count < MaxDetails
       /\ details' = [count |-> details.count + 1,
                      asked |-> details.asked \cup {<<details.count, s>>}]
       /\ UNCHANGED chargerVars

OpenActive ==
  /\ stations # <<>> /\ OpenDetail(stations[activeStation])
  /\ UNCHANGED <<booked, stationVars>>

\* renderHomeStations shows the first two; a press selects one and opens it.
OpenNearby(i) ==
  /\ i \in DOMAIN stations \cap {1, 2}
  /\ taken' = taken /\ SelectStation(stations, i)
  /\ OpenDetail(stations[i])
  /\ UNCHANGED <<stations, onlyAvailable, limit, booked>>

\* The chargers are shown whatever station is selected by now.
DetailAnswered(r) ==
  /\ \E list \in {{[station |-> r[2], kind |-> k, free |-> k \in free] : k \in Kinds} :
                    free \in SUBSET Kinds} :
       RenderChargers(list, IF Free(list) = {} THEN None ELSE CHOOSE c \in Free(list) : TRUE,
                      Kinds)
  /\ details' = [details EXCEPT !.asked = @ \ {r}]
  /\ UNCHANGED <<booked, stationVars>>

DetailFailed(r) ==
  /\ RenderChargers({}, None, Kinds)
  /\ details' = [details EXCEPT !.asked = @ \ {r}]
  /\ UNCHANGED <<booked, stationVars>>

\* A kind of connector, or a mode of charging.
FilterConnectors(kinds) ==
  /\ RenderChargers(chargers, selectedCharger, kinds)
  /\ UNCHANGED <<booked, details, stationVars>>

ClickConnector(c) ==
  /\ c \in Free(connectors)
  /\ RenderChargers(chargers, c, {d.kind : d \in connectors})
  /\ UNCHANGED <<booked, details, stationVars>>

\* reserve(): of what is on the screens only the charger is sent.
Reserve ==
  /\ selectedCharger # None /\ selectedCharger.free
  /\ booked' = [charger |-> selectedCharger, label |-> connectorLabel]
  /\ UNCHANGED <<details, stationVars>> /\ UNCHANGED chargerVars

BrowseStep ==
  \/ LoadStations \/ FilterStations \/ OpenActive \/ Reserve
  \/ \E i \in DOMAIN stations : Pick(i) \/ OpenNearby(i)
  \/ \E l \in Limits : Limit(l)
  \/ \E r \in details.asked : DetailAnswered(r) \/ DetailFailed(r)
  \/ \E kinds \in {Kinds, {"fast"}, {"slow"}} : FilterConnectors(kinds)
  \/ \E c \in chargers : ClickConnector(c)
-----------------------------------------------------------------------------
\* However lists and answers arrive between the presses, the station whose name and
\* price are on every screen, whose estimate is for the limit chosen and whose
\* marker stands out is the one openDetail and route ask for, and the charger that
\* reserve asks for was the one named beside the button, and free in the list last
\* read.  (Limit and price are shown only: reserve sends the charger's id alone.)
AsksAsLabelled ==
  /\ stations # <<>> =>
       /\ titles = stations[activeStation] /\ estimate = <<limit, titles>>
       /\ pinned = activeStation
       /\ \A i \in DOMAIN stations \ markers : onlyAvailable /\ stations[i] \in taken
  /\ connectorLabel = selectedCharger
  /\ selectedCharger = None \/ selectedCharger \in Free(chargers)
  /\ booked # None => booked.label = booked.charger /\ booked.charger.free
=============================================================================
