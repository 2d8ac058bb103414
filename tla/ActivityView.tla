----------------------------- MODULE ActivityView -----------------------------
(***************************************************************************)
(* The two pages of the console that list orders and audit records         *)
(* (admin-activity.js).  An audit record is its place in the server's log; *)
(* a page knows the newest Window of them, and lists those of one group,   *)
(* or all.                                                                 *)
(***************************************************************************)
EXTENDS Null, Naturals

CONSTANTS
  Records,    \* bound on the audit records, one more for each operation
  Window,     \* how many of them the page asks for
  Groups      \* the groups of operations the filter tells apart

ASSUME ActivityAssumption ==
  /\ Records \in Nat /\ Window \in Nat /\ None \notin 1 .. Records

VARIABLES
  group,          \* external: the group of each record
  written,        \* external: how many records the server has
  logs,           \* state.logs
  eventFilter,    \* #event-filter: a group, or "all"
  selectedEvent,  \* activityView.selectedEvent
  timeline,       \* the records listed in #history-table
  marked,         \* the ones among them drawn as selected
  eventDetail     \* the record in #selected-event

activityVars == <<group, written, logs, eventFilter, selectedEvent, timeline,
                  marked, eventDetail>>

ActivityInit ==
  /\ group = [l \in 1 .. Records |-> None]
  /\ written = 0 /\ logs = {} /\ eventFilter = "all"
  /\ selectedEvent = None /\ timeline = {} /\ marked = {} /\ eventDetail = None

Listed(known, filter) == {l \in known : filter = "all" \/ group[l] = filter}

\* The records come newest first.
FirstOf(rows) ==
  IF rows = {} THEN None ELSE CHOOSE l \in rows : \A k \in rows : k <= l

\* Mutant: a selection stays as long as the record is known at all.
ReselectedKnown(rows, selection) ==
  IF selection \in logs' THEN selection ELSE FirstOf(rows)

Reselected(rows, selection) ==
  IF selection \in rows THEN selection ELSE FirstOf(rows)

\* activityTimeline, with the activitySelectedEvent it calls.
ActivityTimeline(known, filter, selection) ==
  LET rows == Listed(known, filter)
      event == Reselected(rows, selection)
  IN  /\ selectedEvent' = event
      /\ eventDetail' = IF event \in known THEN event ELSE None
      /\ timeline' = rows
      /\ marked' = rows \cap {event}

\* renderActivity, at the end of every refresh of the console.
RenderActivity ==
  /\ logs' = {l \in 1 .. written : l + Window > written}
  /\ ActivityTimeline(logs', eventFilter, selectedEvent)
  /\ UNCHANGED <<group, written, eventFilter>>

FilterEvents(f) ==
  /\ eventFilter' = f /\ logs' = logs
  /\ ActivityTimeline(logs, f, selectedEvent)
  /\ UNCHANGED <<group, written>>

ClickEvent(l) ==
  /\ l \in timeline /\ logs' = logs
  /\ ActivityTimeline(logs, eventFilter, l)
  /\ UNCHANGED <<group, written, eventFilter>>

\* External: another operation is recorded.
Record ==
  /\ written < Records /\ written' = written + 1
  /\ \E g \in Groups : group' = [group EXCEPT ![written'] = g]
  /\ UNCHANGED <<logs, eventFilter, selectedEvent, timeline, marked, eventDetail>>

ActivityStep ==
  \/ Record \/ RenderActivity
  \/ \E f \in Groups \cup {"all"} : FilterEvents(f)
  \/ \E l \in timeline : ClickEvent(l)
-----------------------------------------------------------------------------
\* Whatever is filtered, clicked and read again while the window of the newest
\* records moves on, the record explained beside the list is the one marked in
\* it, and there is one as long as the list has any (activityTimeline selects
\* the first row when the selected one is gone).
EventShownIsListed ==
  /\ marked = {eventDetail} \ {None}
  /\ marked = {} => timeline = {}
=============================================================================
