-------------------------- MODULE DesktopProperties --------------------------
(***************************************************************************)
(* What the Qt client promises its user about snapshots, sessions and the  *)
(* event feed.                                                             *)
(***************************************************************************)
EXTENDS DesktopClient

\* While somebody is logged in, the event socket is open, being opened or
\* waiting for the reconnect timer: no order of closes, rejections and logins
\* leaves a session without its events.
StreamSupervised ==
  bearer # Nobody => socket.state # "closed" \/ retry

\* What a private snapshot shows changes only to data of whoever is logged in:
\* no reply to a request of an earlier session reaches the window.
OwnReplies ==
  [][\A p \in PrivatePaths :
       view'[p] # view[p] => view'[p].owner \in {Nobody, bearer'}]_allVars

\* The feed loses only what was undecided when it looked: a page that holds a row
\* holds every row before it that is visible by then, and those after the cursor.
PagesComplete ==
  [][socket.page = <<>> =>
       \A e, f \in Ids :
         event[e] = "visible" /\ socket.sent < e /\ e < f
             /\ f \in ToSet(socket'.page)
           => e \in ToSet(socket'.page)]_allVars

\* A row that is visible, with every smaller id decided, reaches the client unless
\* the connection ends first.
SettledFed ==
  \A e \in Ids :
    event[e] = "visible" /\ Settled(e) /\ cursor < e /\ socket.state = "open"
        /\ socket.page = <<>> /\ socket.sent < e
      ~> cursor >= e \/ socket.state # "open"

\* A round of snapshot requests ends or is given up, whatever logins, logouts
\* and expiries happen under it: refreshContext is not left pointing to a
\* round whose replies were all dropped, which would end the polling that
\* QT_MIGRATION.md promises of both windows.
RoundsEnd ==
  Refreshing ~> ~Refreshing

\* A round the window waits for still has replies to come: refreshContext is not
\* left pointing to a round that nothing ends.
RoundsHeld ==
  Refreshing => \E r \in request : r.round = "current"

\* The snapshots of a session catch up with the server again and again, with
\* the events the feed has skipped as well.
CaughtUp ==
  \A p \in PrivatePaths : []<>(bearer = Nobody \/ view[p].rows = Visible)
=============================================================================
