---------------------------- MODULE DesktopClient ----------------------------
(***************************************************************************)
(* The Qt client: ApiClient (requests, session, event socket) and the      *)
(* window that shows snapshots, against the event feed and a server whose  *)
(* data are the events committed so far.                                   *)
(*                                                                         *)
(* Everything in the client runs in one event loop: an action is one slot  *)
(* or callback with all the slots it calls.                                *)
(***************************************************************************)
EXTENDS EventFeed

CONSTANTS
  Window,        \* "user" or "admin": UserWindow or AdminWindow
  Users, Nobody, \* the subjects that log in, and the subject when none has
  PublicPaths,   \* the snapshots a window reads without a session
  PrivatePaths,  \* and those it reads with one
  MaxSessions,   \* bound on generation when somebody logs in
  MaxDialogs,    \* bound on the login dialogs open together
  MaxFailures    \* bound on the requests and connections the network loses

Paths == PublicPaths \cup PrivatePaths

ASSUME ClientAssumption ==
  /\ Window \in {"user", "admin"} /\ Nobody \notin Users
  /\ PublicPaths \cap PrivatePaths = {}
  /\ Window = "admin" => PublicPaths = {}
  /\ IsFiniteSet(Paths)
  /\ {MaxSessions, MaxDialogs, MaxFailures} \subseteq Nat

VARIABLES
  bearer,      \* whose token the client holds
  generation,  \* ++generation in logout(), to bound it
  accepted,    \* the server still accepts that token
  dialogs,     \* login dialogs on the screen
  cursor,      \* the last event received in this session
  retry,       \* the reconnect timer is active
  request,     \* the requests in flight
  waiting,     \* the replies each round still counts on; 0 when there is no such round
  timer,       \* the single-shot refresh timer is active
  view,        \* the private snapshots shown, and whose they are
  cache,       \* the private SQLite snapshots, by subject and path
  failures     \* what the network has lost so far

session == <<bearer, generation, accepted>>
rounds == <<request, waiting>>
clientVars == <<session, dialogs, cursor, retry, rounds, timer, view, cache, failures>>
allVars == <<feedVars, clientVars>>

None == [ok |-> FALSE, rows |-> {}]
Empty == [owner |-> Nobody, rows |-> {}]

\* The rounds of snapshot requests, each with a QObject its callbacks hang on:
\* the one refreshContext points to, one that waits for its deleteLater(), and
\* one that lives on although refreshContext has been reset under it.
Rounds == {"current", "doomed", "orphan"}

Init ==
  /\ FeedInit
  /\ bearer = Nobody /\ generation = 0 /\ accepted = FALSE
  /\ dialogs = 0 /\ cursor = 0 /\ retry = FALSE
  /\ request = {} /\ waiting = [c \in Rounds |-> 0] /\ timer = FALSE /\ failures = 0
  /\ view = [p \in PrivatePaths |-> Empty]
  /\ cache = [k \in Users \X PrivatePaths |-> None]
-----------------------------------------------------------------------------
(* Rounds of snapshot requests.                                            *)

\* What refresh() asks for.
RoundPaths(who) == IF who = Nobody THEN PublicPaths ELSE Paths

Ask(p, who) ==
  [path |-> p, owner |-> who, round |-> "current", answer |-> "waiting", rows |-> {}]

Refreshing == waiting["current"] > 0

\* The requests of round c pass to round d; "none" is a deleted context, whose
\* QPointer guards are null.
Moved(requests, c, d) ==
  {IF r.round = c THEN [r EXCEPT !.round = d] ELSE r : r \in requests}

\* refresh(), for the session it finds and the requests still in flight.  The
\* user's window drops the round under way by deleteLater(), the administrator's
\* waits for it.
Refresh(who, requests) ==
  IF Window = "admin" /\ (who = Nobody \/ Refreshing)
  THEN request' = requests /\ UNCHANGED waiting
  ELSE /\ waiting["doomed"] = 0
       /\ request' = Moved(requests, "current", "doomed")
                       \cup {Ask(p, who) : p \in RoundPaths(who)}
       /\ waiting' = [waiting EXCEPT !["doomed"] = waiting["current"],
                                    !["current"] = Cardinality(RoundPaths(who))]

\* if (refreshContext) delete refreshContext, with the requests left.
DropRound(requests) ==
  /\ request' = Moved(requests, "current", "none")
  /\ waiting' = [waiting EXCEPT !["current"] = 0]

\* The event loop gets to a deleteLater().
DeleteLater ==
  /\ waiting["doomed"] > 0
  /\ request' = Moved(request, "doomed", "none")
  /\ waiting' = [waiting EXCEPT !["doomed"] = 0]
  /\ UNCHANGED <<feedVars, session, dialogs, cursor, retry, timer, view, cache, failures>>

\* The refresh timer fires.
Timeout ==
  /\ timer /\ timer' = FALSE
  /\ Refresh(bearer, request)
  /\ UNCHANGED <<feedVars, session, dialogs, cursor, retry, view, cache,
                 failures>>

\* Mutant: no snapshots without events.
PollNever == FALSE /\ UNCHANGED allVars

\* The snapshot poll, every five seconds, unless a round is under way.
Poll ==
  /\ ~Refreshing /\ (Window = "admin" => bearer # Nobody)
  /\ Refresh(bearer, request)
  /\ UNCHANGED <<feedVars, session, dialogs, cursor, retry, timer, view,
                 cache, failures>>
-----------------------------------------------------------------------------
(* Sessions.                                                               *)

\* Mutant: no epoch in the callbacks.
HeardAlways(requests) == requests

\* The requests whose reply is still heard after ++generation: none, every
\* callback compares its epoch before it does anything else.
Heard(requests) == {r \in requests : FALSE}

\* What is left of the session when logout() returns.
Leave(who) ==
  /\ generation' = generation + 1 /\ bearer' = who /\ accepted' = (who # Nobody)
  /\ cursor' = 0 /\ retry' = FALSE

\* A login dialog is opened; nothing closes it when another one is used.
OpenDialog ==
  /\ bearer = Nobody /\ dialogs < MaxDialogs
  /\ dialogs' = dialogs + 1
  /\ UNCHANGED <<feedVars, session, cursor, retry, rounds, timer, view,
                 cache, failures>>

\* The answer to a login: session(token), d->accept(), refresh().  AdminWindow
\* also tries /auth/console without a dialog.
Login(u) ==
  /\ generation < MaxSessions
  /\ \/ dialogs > 0 /\ dialogs' = dialogs - 1
     \/ Window = "admin" /\ bearer = Nobody /\ UNCHANGED dialogs
  /\ Leave(u)
  /\ socket' = Opening(0)
  /\ Refresh(u, Heard(request))
  /\ UNCHANGED <<event, timer, view, cache, failures>>

\* The private part of the view is cleared.
Cleared == [p \in PrivatePaths |-> Empty]

\* Mutant: logout leaves the round in flight to itself.
LogoutKeepingRound ==
  /\ bearer # Nobody
  /\ Leave(Nobody) /\ socket' = Closed
  /\ timer' = FALSE /\ view' = Cleared
  /\ dialogs' = IF Window = "admin" THEN 0 ELSE dialogs
  /\ request' = Heard(request) /\ UNCHANGED waiting
  /\ UNCHANGED <<event, cache, failures>>

\* The logout button.
Logout ==
  /\ bearer # Nobody
  /\ Leave(Nobody) /\ socket' = Closed
  /\ DropRound(Heard(request))
  /\ timer' = FALSE /\ view' = Cleared
  /\ dialogs' = IF Window = "admin" THEN 0 ELSE dialogs
  /\ UNCHANGED <<event, cache, failures>>

\* logout() and the window's sessionExpired slot.  The administrator's window
\* closes every dialog and asks to log in again.
Expired(requests) ==
  /\ Leave(Nobody) /\ socket' = Closed
  /\ DropRound(Heard(requests))
  /\ view' = Cleared
  /\ timer' = (timer /\ Window = "admin")
  /\ dialogs' = IF Window = "admin" THEN Min({1, MaxDialogs}) ELSE dialogs

\* The token of the session runs out.
TokenEnds ==
  /\ accepted /\ accepted' = FALSE
  /\ UNCHANGED <<feedVars, bearer, generation, dialogs, cursor, retry,
                 rounds, timer, view, cache, failures>>
-----------------------------------------------------------------------------
(* Replies.                                                                *)

Answer(r, answer, rows) ==
  request' = (request \ {r}) \cup {[r EXCEPT !.answer = answer, !.rows = rows]}

\* The server reads the snapshot r asks for, or refuses its token.
Serve(r) ==
  /\ r.answer = "waiting"
  /\ IF r.path \in PrivatePaths /\ r.owner = bearer /\ ~accepted
     THEN Answer(r, "denied", {})
     ELSE Answer(r, "ok", IF r.path \in PrivatePaths THEN Visible ELSE {})
  /\ UNCHANGED <<feedVars, session, dialogs, cursor, retry, waiting,
                 timer, view, cache, failures>>

\* The request or its reply is lost: the transfer times out.
Lose(r) ==
  /\ r.answer = "waiting" /\ failures < MaxFailures
  /\ Answer(r, "failed", {}) /\ failures' = failures + 1
  /\ UNCHANGED <<feedVars, session, dialogs, cursor, retry, waiting,
                 timer, view, cache>>

\* The callback of a round, if its context still exists: one reply less, and
\* the last one sets refreshContext to null, whichever round it points to.
Finish(r) ==
  LET left == request \ {r}
      c    == r.round
  IN  IF c = "none" THEN request' = left /\ UNCHANGED waiting
      ELSE IF waiting[c] > 1 \/ c = "current" \/ ~Refreshing
      THEN request' = left /\ waiting' = [waiting EXCEPT ![c] = @ - 1]
      ELSE /\ request' = Moved(left, "current", "orphan")
           /\ waiting' = [[waiting EXCEPT ![c] = 0] EXCEPT
                !["current"] = 0, !["orphan"] = @ + waiting["current"]]

\* What a reply shows: the server's snapshot or, if the server cannot be
\* reached, the one in the cache.
Shown(r) ==
  IF r.answer = "ok" THEN [ok |-> TRUE, rows |-> r.rows] ELSE cache[<<r.owner, r.path>>]

\* A reply, and the callback of its round.
Deliver(r) ==
  /\ r.answer \in {"ok", "failed"}
  /\ Finish(r)
  /\ IF r.path \in PublicPaths THEN UNCHANGED <<view, cache>>
     ELSE /\ cache' = [cache EXCEPT ![<<r.owner, r.path>>] = Shown(r)]
          /\ view' = IF Shown(r).ok /\ r.round # "none"
                     THEN [view EXCEPT ![r.path] = [owner |-> r.owner, rows |-> Shown(r).rows]]
                     ELSE view
  /\ UNCHANGED <<feedVars, session, dialogs, cursor, retry, timer, failures>>

\* 401: the session is over.  The callback of a round that still waits for its
\* deleteLater() is called all the same, with an error.
Denied(r) ==
  /\ r.answer = "denied"
  /\ Expired(request \ {r})
  /\ UNCHANGED <<event, cache, failures>>
-----------------------------------------------------------------------------
(* The event socket.                                                       *)

Connected ==
  /\ socket.state = "connecting" /\ accepted
  /\ socket' = [socket EXCEPT !.state = "open"]
  /\ timer' = TRUE
  /\ UNCHANGED <<event, session, dialogs, cursor, retry, rounds, view,
                 cache, failures>>

\* Mutant: only a connection that was open is opened again.
DisconnectedOpen ==
  /\ socket.state # "closed"
  /\ socket' = Closed /\ retry' = (socket.state = "open")

\* disconnected(), without the close code 4401.
Disconnected ==
  /\ socket.state # "closed"
  /\ socket' = Closed /\ retry' = (bearer # Nobody)

\* The network drops the connection, or it is never made.
Drop ==
  /\ failures < MaxFailures /\ failures' = failures + 1
  /\ Disconnected
  /\ UNCHANGED <<event, session, dialogs, cursor, rounds, timer, view, cache>>

\* The server rejects the token: with 4401, or, when close() before accept()
\* is answered with an HTTP error, with a handshake that fails.
Reject ==
  /\ socket.state = "connecting" /\ ~accepted
  /\ \/ /\ Expired(request)
        /\ UNCHANGED <<event, cache, failures>>
     \/ /\ Disconnected
        /\ UNCHANGED <<event, session, dialogs, cursor, rounds, timer, view,
                       cache, failures>>

\* The reconnect timer: connectStream(), from the last event received.
Reconnect ==
  /\ retry /\ retry' = FALSE
  /\ socket' = Opening(cursor)
  /\ UNCHANGED <<event, session, dialogs, cursor, rounds, timer, view, cache,
                 failures>>

\* A message; the timer is not restarted when it is active.
Receive ==
  \E e \in Ids :
    /\ Sending(e)
    /\ IF e > cursor THEN cursor' = e /\ timer' = TRUE
       ELSE UNCHANGED <<cursor, timer>>
    /\ UNCHANGED <<event, session, dialogs, retry, rounds, view, cache,
                   failures>>
-----------------------------------------------------------------------------
Reply(r) == Deliver(r) \/ Denied(r)

SocketStep == Connected \/ Drop \/ Reject \/ Reconnect \/ Receive

WindowStep ==
  \/ Timeout \/ Poll \/ OpenDialog \/ Logout
  \/ \E u \in Users : Login(u)
  \/ DeleteLater

Next ==
  \/ ServerStep /\ UNCHANGED clientVars
  \/ SocketStep \/ WindowStep \/ TokenEnds
  \/ \E r \in request : Serve(r) \/ Lose(r) \/ Reply(r)

\* Timers fire, the server's loop and its transactions go on, a connection
\* attempt ends, and every request ends within its transfer timeout.  Nobody
\* has to log in, and nothing has to fail.
Fairness ==
  /\ \A e \in Ids : WF_allVars(EndOf(e) /\ UNCHANGED clientVars)
  /\ WF_allVars(Fetch /\ UNCHANGED clientVars)
  /\ WF_allVars(Connected \/ Reject) /\ WF_allVars(Reconnect) /\ WF_allVars(Receive)
  /\ WF_allVars(Timeout) /\ WF_allVars(Poll)
  /\ WF_allVars(DeleteLater)
  /\ WF_allVars(\E r \in request : Serve(r)) /\ WF_allVars(\E r \in request : Reply(r))

Spec == Init /\ [][Next]_allVars /\ Fairness
=============================================================================
