---------------------------- MODULE DesktopProofs ----------------------------
(***************************************************************************)
(* Sessions and rounds of the Qt client, for every number of subjects,     *)
(* snapshots, events and login dialogs.  The invariant is that whatever is *)
(* in flight was asked for by whoever is logged in now, because ++generation *)
(* silences every earlier callback, and that the user's window counts its  *)
(* round right: as many replies as it still counts on are in flight.       *)
(***************************************************************************)
EXTENDS DesktopProperties, FiniteSetTheorems, TLAPS

Requests == [path : Paths, owner : Users \cup {Nobody}, round : Rounds \cup {"none"},
             answer : {"waiting", "ok", "denied", "failed"}, rows : SUBSET Ids]

\* The requests of the round that refreshContext points to.
Current(requests) == {r \in requests : r.round = "current"}

\* No snapshot is asked for twice in a round.
OnePath(requests) ==
  \A r, s \in Current(requests) : r.path = s.path => r = s

\* The count of a round is the number of its replies still to come.
Counts(requests, waits) ==
  /\ OnePath(requests) /\ IsFiniteSet(Current(requests))
  /\ waits["current"] = Cardinality(Current(requests))

Own(requests, who) == \A r \in requests : r.owner = who

RoundsInv(requests, waits, who) ==
  /\ requests \subseteq Requests /\ waits \in [Rounds -> Int]
  /\ who \in Users \cup {Nobody} /\ Own(requests, who)
  /\ Window = "user" => Counts(requests, waits)

DesktopInv == RoundsInv(request, waiting, bearer)
-----------------------------------------------------------------------------
(* The rounds. *)

\* The context of a round is changed for another one.
LEMMA MovedIs ==
  ASSUME NEW requests \in SUBSET Requests, NEW c, NEW d \in Rounds \cup {"none"}
  PROVE  /\ Moved(requests, c, d) \in SUBSET Requests
         /\ \A who : Own(requests, who) => Own(Moved(requests, c, d), who)
         /\ c # "current" /\ d # "current" =>
              Current(Moved(requests, c, d)) = Current(requests)
         /\ c = "current" /\ d # "current" => Current(Moved(requests, c, d)) = {}
<1> DEFINE moved(r) == IF r.round = c THEN [r EXCEPT !.round = d] ELSE r
<1>1. ASSUME NEW r \in requests
      PROVE  /\ moved(r) \in Requests /\ moved(r).owner = r.owner
             /\ r.round # c => moved(r) = r
             /\ r.round = c => moved(r).round = d
  <2>1. r \in Requests
    OBVIOUS
  <2> QED
    BY <2>1 DEF Requests
<1>2. Moved(requests, c, d) = {moved(r) : r \in requests}
  BY DEF Moved
<1> HIDE DEF moved
<1> QED
  BY <1>1, <1>2 DEF Own, Current

\* A session that begins or ends leaves nothing in flight to be heard.
LEMMA NothingHeard ==
  ASSUME NEW requests
  PROVE  /\ Heard(requests) = {}
         /\ \A c, d : Moved(Heard(requests), c, d) = {}
BY DEF Heard, Moved

\* What a round asks for: one request for each of its paths.
LEMMA AskedIs ==
  ASSUME NEW who \in Users \cup {Nobody}
  PROVE  LET asked == {Ask(p, who) : p \in RoundPaths(who)}
         IN  /\ asked \in SUBSET Requests /\ Own(asked, who)
             /\ Current(asked) = asked /\ OnePath(asked)
             /\ IsFiniteSet(asked) /\ Cardinality(asked) = Cardinality(RoundPaths(who))
<1> DEFINE paths == RoundPaths(who)
           asked == {Ask(p, who) : p \in paths}
<1>1. paths \subseteq Paths /\ IsFiniteSet(paths)
  <2>1. RoundPaths(who) \subseteq Paths
    BY DEF RoundPaths, Paths
  <2> QED
    BY <2>1, ClientAssumption, FS_Subset
<1>2. \A p \in paths : /\ Ask(p, who) \in Requests /\ Ask(p, who).path = p
                       /\ Ask(p, who).owner = who /\ Ask(p, who).round = "current"
  BY <1>1 DEF Ask, Requests, Rounds
<1> HIDE DEF paths
<1>3. IsFiniteSet(asked) /\ Cardinality(asked) = Cardinality(paths)
  <2> DEFINE f == [p \in paths |-> Ask(p, who)]
  <2>1. f \in Bijection(paths, asked)
    BY <1>2 DEF Bijection, Injection, Surjection, IsInjective
  <2> QED
    BY <1>1, <2>1, FS_Bijection DEF ExistsBijection
<1>4. asked \in SUBSET Requests /\ Own(asked, who) /\ Current(asked) = asked /\ OnePath(asked)
  BY <1>2 DEF Own, Current, OnePath
<1> QED
  BY <1>3, <1>4 DEF paths

\* refresh(), by whoever is logged in when it returns.
LEMMA RefreshKeeps ==
  ASSUME NEW who \in Users \cup {Nobody}, NEW requests \in SUBSET Requests,
         Own(requests, who), waiting \in [Rounds -> Int], Refresh(who, requests)
  PROVE  RoundsInv(request', waiting', who)
<1> DEFINE moved == Moved(requests, "current", "doomed")
           asked == {Ask(p, who) : p \in RoundPaths(who)}
<1>1. /\ moved \in SUBSET Requests /\ Own(moved, who) /\ Current(moved) = {}
  BY MovedIs DEF Rounds
<1>2. /\ asked \in SUBSET Requests /\ Own(asked, who)
      /\ Current(asked) = asked /\ OnePath(asked)
      /\ IsFiniteSet(asked) /\ Cardinality(asked) = Cardinality(RoundPaths(who))
      /\ Cardinality(asked) \in Nat
  BY AskedIs, FS_CardinalityType
<1>3. Current(moved \cup asked) = asked
  BY <1>1, <1>2 DEF Current
<1>4. CASE /\ request' = moved \cup asked
           /\ waiting' = [waiting EXCEPT !["doomed"] = waiting["current"],
                                        !["current"] = Cardinality(RoundPaths(who))]
  <2> HIDE DEF moved, asked
  <2>1. waiting' \in [Rounds -> Int] /\ waiting'["current"] = Cardinality(asked)
    BY <1>2, <1>4 DEF Rounds
  <2>2. request' \subseteq Requests /\ Own(request', who) /\ Current(request') = asked
    BY <1>1, <1>2, <1>3, <1>4 DEF Own
  <2>3. OnePath(request')
    BY <1>2, <2>2 DEF OnePath
  <2> QED
    BY <1>2, <2>1, <2>2, <2>3 DEF RoundsInv, Counts
<1>5. CASE Window = "admin" /\ request' = requests /\ UNCHANGED waiting
  BY <1>5 DEF RoundsInv
<1> QED
  BY <1>4, <1>5 DEF Refresh

\* refreshContext is deleted, with every callback silenced.
LEMMA DropKeeps ==
  ASSUME NEW who \in Users \cup {Nobody}, waiting \in [Rounds -> Int],
         NEW requests, DropRound(Heard(requests))
  PROVE  RoundsInv(request', waiting', who)
<1>1. request' = {} /\ waiting' = [waiting EXCEPT !["current"] = 0]
  BY NothingHeard DEF DropRound
<1>2. waiting' \in [Rounds -> Int] /\ waiting'["current"] = 0 /\ Current(request') = {}
  BY <1>1 DEF Rounds, Current
<1> QED
  BY <1>1, <1>2, FS_EmptySet DEF RoundsInv, Own, Counts, OnePath

\* A request is answered.
LEMMA AnswerKeeps ==
  ASSUME DesktopInv, NEW r \in request, NEW rows \in SUBSET Ids,
         NEW answer \in {"waiting", "ok", "denied", "failed"},
         Answer(r, answer, rows), UNCHANGED <<waiting, bearer>>
  PROVE  DesktopInv'
<1> DEFINE s == [r EXCEPT !.answer = answer, !.rows = rows]
           rest == request \ {r}
<1>0. /\ request \subseteq Requests /\ r \in Requests /\ Own(request, bearer)
      /\ waiting \in [Rounds -> Int] /\ bearer \in Users \cup {Nobody}
  BY DEF DesktopInv, RoundsInv
<1>1. /\ s \in Requests /\ s.owner = r.owner /\ s.round = r.round /\ s.path = r.path
  BY <1>0 DEF Requests
<1>2. request' = rest \cup {s}
  BY DEF Answer
<1> HIDE DEF s
<1>3. request' \subseteq Requests /\ Own(request', bearer)
  BY <1>0, <1>1, <1>2 DEF Own
<1>4. ASSUME Window = "user" PROVE Counts(request', waiting)
  <2>1. /\ OnePath(request) /\ IsFiniteSet(Current(request))
        /\ waiting["current"] = Cardinality(Current(request))
    BY <1>4 DEF DesktopInv, RoundsInv, Counts
  <2>2. CASE r.round = "current"
    <3>1. r \in Current(request) /\ s \notin Current(request) \ {r}
      BY <1>1, <2>1, <2>2 DEF Current, OnePath
    <3>2. Current(request') = (Current(request) \ {r}) \cup {s}
      BY <1>1, <1>2, <2>2 DEF Current
    <3>3. OnePath(request')
      <4>1. \A q \in Current(request) \ {r} : q.path # r.path
        BY <2>1, <3>1 DEF OnePath
      <4> QED
        BY <1>1, <2>1, <3>2, <4>1 DEF OnePath
    <3>4. /\ IsFiniteSet(Current(request) \ {r})
          /\ Cardinality(Current(request) \ {r}) = Cardinality(Current(request)) - 1
      BY <2>1, <3>1, FS_RemoveElement
    <3>5. /\ IsFiniteSet(Current(request'))
          /\ Cardinality(Current(request')) = Cardinality(Current(request) \ {r}) + 1
      BY <3>1, <3>2, <3>4, FS_AddElement
    <3>6. Cardinality(Current(request)) \in Nat
      BY <2>1, FS_CardinalityType
    <3> QED
      BY <2>1, <3>3, <3>4, <3>5, <3>6 DEF Counts
  <2>3. CASE r.round # "current"
    <3>1. Current(request') = Current(request)
      BY <1>1, <1>2, <2>3 DEF Current
    <3> QED
      BY <2>1, <3>1 DEF Counts, OnePath
  <2> QED
    BY <2>2, <2>3
<1> QED
  BY <1>0, <1>3, <1>4 DEF DesktopInv, RoundsInv

\* A callback returns.
LEMMA FinishKeeps ==
  ASSUME DesktopInv, NEW r \in request, Finish(r), UNCHANGED bearer
  PROVE  DesktopInv'
<1> DEFINE left == request \ {r}
           c == r.round
<1>0. /\ request \in SUBSET Requests /\ left \in SUBSET Requests /\ c \in Rounds \cup {"none"}
      /\ Own(left, bearer) /\ waiting \in [Rounds -> Int] /\ bearer \in Users \cup {Nobody}
  BY DEF DesktopInv, RoundsInv, Own, Requests
<1>1. ASSUME Window = "user", c # "current" PROVE Counts(left, waiting)
  <2>1. Current(left) = Current(request)
    BY <1>1 DEF Current
  <2> QED
    BY <1>1, <2>1 DEF DesktopInv, RoundsInv, Counts, OnePath
<1>2. CASE c = "none" /\ request' = left /\ UNCHANGED waiting
  BY <1>0, <1>1, <1>2 DEF DesktopInv, RoundsInv
<1>3. CASE c # "none" /\ request' = left /\ waiting' = [waiting EXCEPT ![c] = @ - 1]
  <2>1. waiting' \in [Rounds -> Int]
    BY <1>0, <1>3
  <2>2. ASSUME Window = "user" PROVE Counts(left, waiting')
    <3>1. CASE c # "current"
      <4>1. waiting'["current"] = waiting["current"]
        BY <1>0, <1>3, <3>1
      <4> QED
        BY <1>1, <2>2, <3>1, <4>1 DEF Counts
    <3>2. CASE c = "current"
      <4>1. /\ OnePath(request) /\ IsFiniteSet(Current(request)) /\ r \in Current(request)
            /\ waiting["current"] = Cardinality(Current(request))
        BY <2>2, <3>2 DEF DesktopInv, RoundsInv, Counts, Current
      <4>2. Current(left) = Current(request) \ {r}
        BY DEF Current
      <4>3. /\ IsFiniteSet(Current(left))
            /\ Cardinality(Current(left)) = Cardinality(Current(request)) - 1
        BY <4>1, <4>2, FS_RemoveElement
      <4>4. OnePath(left)
        BY <4>1, <4>2 DEF OnePath
      <4>5. waiting'["current"] = waiting["current"] - 1
        BY <1>0, <1>3, <3>2 DEF Rounds
      <4> QED
        BY <4>1, <4>3, <4>4, <4>5 DEF Counts
    <3> QED
      BY <3>1, <3>2
  <2> QED
    BY <1>0, <1>3, <2>1, <2>2 DEF DesktopInv, RoundsInv
<1>4. CASE /\ c # "current" /\ request' = Moved(left, "current", "orphan")
           /\ waiting' = [[waiting EXCEPT ![c] = 0] EXCEPT
                !["current"] = 0, !["orphan"] = @ + waiting["current"]]
  <2>1. /\ request' \in SUBSET Requests /\ Own(request', bearer) /\ Current(request') = {}
    BY <1>0, <1>4, MovedIs DEF Rounds
  <2>2. waiting' \in [Rounds -> Int] /\ waiting'["current"] = 0
    <3> DEFINE w == [waiting EXCEPT ![c] = 0]
    <3>1. w \in [Rounds -> Int]
      <4> HIDE DEF c
      <4>1. w = [d \in Rounds |-> IF d = c THEN 0 ELSE waiting[d]]
        BY <1>0
      <4>2. waiting \in [Rounds -> Int]
        BY <1>0
      <4>3. \A d \in Rounds : (IF d = c THEN 0 ELSE waiting[d]) \in Int
        BY <4>2
      <4> HIDE DEF w
      <4> QED
        BY <4>1, <4>3
    <3>3. waiting["current"] \in Int
      BY <1>0 DEF Rounds
    <3>2. waiting' = [w EXCEPT !["current"] = 0, !["orphan"] = @ + waiting["current"]]
      BY <1>4
    <3> HIDE DEF w
    <3> QED
      BY <3>1, <3>2, <3>3 DEF Rounds
  <2> QED
    BY <1>0, <2>1, <2>2, FS_EmptySet DEF DesktopInv, RoundsInv, Counts, OnePath
<1> QED
  BY <1>2, <1>3, <1>4 DEF Finish
-----------------------------------------------------------------------------
(* The steps. *)

\* What is in flight, counted and shown after a step that leaves the rounds alone.
LEMMA RoundsAside ==
  ASSUME DesktopInv, UNCHANGED <<request, waiting, bearer>>
  PROVE  DesktopInv'
BY DEF DesktopInv, RoundsInv, Counts, OnePath, Own, Current

\* The data of the events that can be seen.
LEMMA VisibleIs == Visible \in SUBSET Ids
BY DEF Visible

\* The parts of the invariant that steps look at.
LEMMA Facts ==
  ASSUME DesktopInv
  PROVE  /\ request \in SUBSET Requests /\ waiting \in [Rounds -> Int]
         /\ bearer \in Users \cup {Nobody} /\ Own(request, bearer)
BY DEF DesktopInv, RoundsInv

\* What the steps of the window do with the rounds.
LEMMA WindowKeeps ==
  ASSUME DesktopInv, WindowStep
  PROVE  DesktopInv'
<1>1. CASE Timeout \/ Poll
  <2>1. Refresh(bearer, request) /\ UNCHANGED bearer
    BY <1>1 DEF Timeout, Poll, session
  <2>2. RoundsInv(request', waiting', bearer)
    BY <2>1, Facts, RefreshKeeps
  <2> QED
    BY <2>1, <2>2 DEF DesktopInv
<1>2. CASE OpenDialog
  BY <1>2, RoundsAside DEF OpenDialog, session, rounds
<1>3. CASE Logout
  <2>1. DropRound(Heard(request)) /\ bearer' = Nobody
    BY <1>3 DEF Logout, Leave
  <2>2. RoundsInv(request', waiting', Nobody)
    BY <2>1, Facts, DropKeeps
  <2> QED
    BY <2>1, <2>2 DEF DesktopInv
<1>4. ASSUME NEW u \in Users, Login(u) PROVE DesktopInv'
  <2>1. Refresh(u, {}) /\ bearer' = u
    BY <1>4, NothingHeard DEF Login, Leave
  <2>2. RoundsInv(request', waiting', u)
    BY <2>1, Facts, RefreshKeeps DEF Own
  <2> QED
    BY <2>1, <2>2 DEF DesktopInv
<1>5. CASE DeleteLater
  <2>1. /\ request' = Moved(request, "doomed", "none") /\ UNCHANGED bearer
        /\ waiting' = [waiting EXCEPT !["doomed"] = 0]
    BY <1>5 DEF DeleteLater, session
  <2>2. /\ request' \in SUBSET Requests /\ Own(request', bearer)
        /\ Current(request') = Current(request)
    BY <2>1, Facts, MovedIs DEF Rounds
  <2>3. waiting' \in [Rounds -> Int] /\ waiting'["current"] = waiting["current"]
    BY <2>1, Facts DEF Rounds
  <2> QED
    BY <2>1, <2>2, <2>3 DEF DesktopInv, RoundsInv, Counts, OnePath
<1> QED
  BY <1>1, <1>2, <1>3, <1>4, <1>5 DEF WindowStep

\* A session that ends by itself.
LEMMA ExpiredKeeps ==
  ASSUME DesktopInv, NEW requests, Expired(requests)
  PROVE  DesktopInv'
<1>1. DropRound(Heard(requests)) /\ bearer' = Nobody
  BY DEF Expired, Leave
<1>2. RoundsInv(request', waiting', Nobody)
  BY <1>1, Facts, DropKeeps
<1> QED
  BY <1>1, <1>2 DEF DesktopInv

\* Events and the socket leave requests and rounds alone.
LEMMA SocketKeeps ==
  ASSUME DesktopInv, SocketStep
  PROVE  DesktopInv'
<1>1. CASE UNCHANGED <<request, waiting, bearer>>
  BY <1>1, RoundsAside
<1>2. CASE Expired(request)
  BY <1>2, ExpiredKeeps
<1> QED
  BY <1>1, <1>2 DEF SocketStep, Connected, Drop, Reject, Reconnect, Receive, session, rounds

\* A request that is served, lost or answered leaves the others to their rounds and
\* sessions.
LEMMA RequestKeeps ==
  ASSUME DesktopInv, NEW r \in request, Serve(r) \/ Lose(r) \/ Reply(r)
  PROVE  DesktopInv'
<1>1. CASE Serve(r)
  <2>1. /\ UNCHANGED <<waiting, bearer>>
        /\ \/ Answer(r, "denied", {}) \/ Answer(r, "ok", {}) \/ Answer(r, "ok", Visible)
    BY <1>1 DEF Serve, session
  <2> QED
    BY <2>1, VisibleIs, AnswerKeeps
<1>2. CASE Lose(r)
  BY <1>2, AnswerKeeps DEF Lose, session
<1>3. CASE Deliver(r)
  BY <1>3, FinishKeeps DEF Deliver, session
<1>4. CASE Denied(r)
  BY <1>4, ExpiredKeeps DEF Denied
<1> QED
  BY <1>1, <1>2, <1>3, <1>4 DEF Reply

\* Every step preserves the invariant.
LEMMA NextKeeps == DesktopInv /\ [Next]_allVars => DesktopInv'
<1> SUFFICES ASSUME DesktopInv, [Next]_allVars PROVE DesktopInv'
  OBVIOUS
<1>1. CASE UNCHANGED <<request, waiting, bearer>>
  BY <1>1, RoundsAside
<1> QED
  BY <1>1, WindowKeeps, SocketKeeps, RequestKeeps
  DEF Next, allVars, clientVars, session, rounds, TokenEnds

\* A client that has just started has no requests.
LEMMA InitInv == Init => DesktopInv
<1> SUFFICES ASSUME Init PROVE DesktopInv
  OBVIOUS
<1>1. /\ request = {} /\ bearer = Nobody
      /\ waiting \in [Rounds -> Int] /\ waiting["current"] = 0 /\ Current(request) = {}
  BY DEF Init, Rounds, Current
<1> QED
  BY <1>1, FS_EmptySet DEF DesktopInv, RoundsInv, Own, Counts, OnePath

\* Whatever is in flight was asked for by whoever is logged in, and the user's window
\* counts on exactly the replies of its round that are still to come (ApiClient::request,
\* UserWindow::refresh).
THEOREM RoundsInvariant == Spec => []DesktopInv
BY InitInv, NextKeeps, PTL DEF Spec

\* The window never waits for a round whose replies were all dropped, whatever
\* logins, logouts and expiries happened under it: for the user's window, which is
\* the safety half of RoundsEnd (UserWindow::refresh, refreshContext).
THEOREM UserRoundsHeld ==
  ASSUME Window = "user"
  PROVE  Spec => []RoundsHeld
<1>1. DesktopInv => RoundsHeld
  <2> SUFFICES ASSUME DesktopInv, waiting["current"] > 0, Current(request) = {}
               PROVE  FALSE
    BY DEF RoundsHeld, Refreshing, Current
  <2> QED
    BY FS_EmptySet DEF DesktopInv, RoundsInv, Counts
<1> QED
  BY <1>1, RoundsInvariant, PTL
-----------------------------------------------------------------------------
(* What the replies show. *)

ViewTyped == \E f : view = [p \in PrivatePaths |-> f[p]]

\* What a step draws belongs to the session after the step, or to nobody.
LEMMA ViewStep ==
  ASSUME DesktopInv, ViewTyped, [Next]_allVars
  PROVE  /\ ViewTyped'
         /\ \A p \in PrivatePaths :
              view'[p] # view[p] => view'[p].owner \in {Nobody, bearer'}
<1>1. CASE UNCHANGED view
  BY <1>1 DEF ViewTyped
<1>2. CASE view' = Cleared
  <2>1. view' = [p \in PrivatePaths |-> Empty]
    BY <1>2 DEF Cleared
  <2>2. ViewTyped'
    <3>1. [p \in PrivatePaths |-> Empty] = [p \in PrivatePaths |-> [q \in PrivatePaths |-> Empty][p]]
      OBVIOUS
    <3> QED
      BY <2>1, <3>1 DEF ViewTyped
  <2> QED
    BY <2>1, <2>2 DEF Empty
<1>3. ASSUME NEW r \in request, Deliver(r), view' # view
      PROVE  /\ ViewTyped'
             /\ \A p \in PrivatePaths :
                  view'[p] # view[p] => view'[p].owner \in {Nobody, bearer'}
  <2> DEFINE shown == [owner |-> r.owner, rows |-> Shown(r).rows]
  <2>1. view' = [view EXCEPT ![r.path] = shown] /\ bearer' = bearer
    BY <1>3 DEF Deliver, session
  <2>2. r.owner = bearer
    BY DEF DesktopInv, RoundsInv, Own
  <2>3. shown.owner = bearer'
    BY <2>1, <2>2
  <2> HIDE DEF shown
  <2>4. PICK f : view = [p \in PrivatePaths |-> f[p]]
    BY DEF ViewTyped
  <2>5. view' = [p \in PrivatePaths |-> IF p = r.path THEN shown ELSE f[p]]
    BY <2>1, <2>4
  <2>6. ViewTyped'
    <3> DEFINE g == [p \in PrivatePaths |-> IF p = r.path THEN shown ELSE f[p]]
    <3>1. view' = [p \in PrivatePaths |-> g[p]]
      BY <2>5
    <3> HIDE DEF g
    <3> QED
      BY <3>1 DEF ViewTyped
  <2> QED
    BY <2>3, <2>4, <2>5, <2>6
<1>4. ASSUME NEW r \in request, Serve(r) \/ Lose(r) \/ Denied(r)
      PROVE  UNCHANGED view \/ view' = Cleared
  BY <1>4 DEF Serve, Lose, Denied, Expired
<1>5. UNCHANGED view \/ view' = Cleared \/ \E r \in request : Deliver(r) /\ view' # view
  BY <1>4 DEF Next, allVars, clientVars, Reply, TokenEnds, SocketStep, Connected, Drop, Reject,
              Expired, Reconnect, Receive, WindowStep, Timeout, Poll, OpenDialog, Logout, Login,
              DeleteLater
<1> QED
  BY <1>1, <1>2, <1>3, <1>5

\* No reply to a request of an earlier session reaches the window: what a private
\* snapshot shows changes to data of whoever is logged in, or to nothing
\* (ApiClient::logout, the epoch its callbacks compare).
THEOREM RepliesAreOwn == Spec => OwnReplies
<1>1. Init => ViewTyped
  <2>1. [p \in PrivatePaths |-> Empty] = [p \in PrivatePaths |-> [q \in PrivatePaths |-> Empty][p]]
    OBVIOUS
  <2> QED
    BY <2>1 DEF Init, ViewTyped
<1>2. DesktopInv /\ ViewTyped /\ [Next]_allVars => ViewTyped'
  BY ViewStep
<1>3. DesktopInv /\ ViewTyped /\ [Next]_allVars =>
        [\A p \in PrivatePaths :
           view'[p] # view[p] => view'[p].owner \in {Nobody, bearer'}]_allVars
  BY ViewStep
<1> QED
  BY <1>1, <1>2, <1>3, RoundsInvariant, PTL DEF Spec, OwnReplies
-----------------------------------------------------------------------------
(* The event socket. *)

SocketTyped == \E s, n, p : socket = [state |-> s, sent |-> n, page |-> p]

\* No step leaves a session without socket and timer.
LEMMA SocketStays ==
  ASSUME SocketTyped, StreamSupervised, [Next]_allVars
  PROVE  SocketTyped' /\ StreamSupervised'
<1>0. PICK s, n, p : socket = [state |-> s, sent |-> n, page |-> p]
  BY DEF SocketTyped
<1>1. ASSUME NEW m, NEW q, socket' = [socket EXCEPT !.sent = m, !.page = q],
             UNCHANGED <<bearer, retry>>
      PROVE  SocketTyped' /\ StreamSupervised'
  <2>1. socket' = [state |-> s, sent |-> m, page |-> q]
    BY <1>0, <1>1
  <2> QED
    BY <1>0, <1>1, <2>1 DEF SocketTyped, StreamSupervised
<1>2. ASSUME NEW m, socket' = Opening(m)
      PROVE  SocketTyped' /\ StreamSupervised'
  <2>1. socket' = [state |-> "connecting", sent |-> m, page |-> <<>>]
    BY <1>2 DEF Opening, Closed
  <2> QED
    BY <2>1 DEF SocketTyped, StreamSupervised
<1>3. CASE socket' = Closed /\ (bearer' = Nobody \/ retry')
  BY <1>3 DEF Closed, SocketTyped, StreamSupervised
<1>4. CASE socket' = [socket EXCEPT !.state = "open"]
  <2>1. socket' = [state |-> "open", sent |-> n, page |-> p]
    BY <1>0, <1>4
  <2> QED
    BY <2>1 DEF SocketTyped, StreamSupervised
<1>5. CASE UNCHANGED <<socket, bearer, retry>>
  BY <1>5 DEF SocketTyped, StreamSupervised
<1>6. CASE ServerStep /\ UNCHANGED clientVars
  <2>1. CASE UNCHANGED socket
    BY <1>5, <1>6, <2>1 DEF clientVars, session
  <2>2. ASSUME NEW q, socket' = [socket EXCEPT !.page = q]
        PROVE  SocketTyped' /\ StreamSupervised'
    <3>1. socket' = [state |-> s, sent |-> n, page |-> q]
      BY <1>0, <2>2
    <3> QED
      BY <1>0, <1>6, <3>1 DEF clientVars, session, SocketTyped, StreamSupervised
  <2> QED
    BY <1>6, <2>1, <2>2 DEF ServerStep, Emit, EndOf, Fetch
<1>7. CASE SocketStep
  <2>1. CASE Drop \/ Reject
    BY <1>3, <2>1 DEF Drop, Reject, Expired, Leave, Disconnected, session
  <2>2. CASE Receive
    <3>1. PICK e : Sending(e) /\ UNCHANGED <<bearer, retry>>
      BY <2>2 DEF Receive, session
    <3>2. \E q : socket' = [socket EXCEPT !.sent = e, !.page = q]
      BY <3>1 DEF Sending
    <3> QED
      BY <1>1, <3>1, <3>2
  <2> QED
    BY <1>2, <1>4, <1>7, <2>1, <2>2 DEF SocketStep, Connected, Reconnect
<1>8. CASE WindowStep
  <2>1. ASSUME NEW u \in Users, Login(u) PROVE SocketTyped' /\ StreamSupervised'
    BY <1>2, <2>1 DEF Login
  <2>2. CASE Logout
    BY <1>3, <2>2 DEF Logout, Leave
  <2> QED
    BY <1>5, <1>8, <2>1, <2>2
    DEF WindowStep, Timeout, Poll, OpenDialog, DeleteLater, feedVars, session
<1>9. ASSUME NEW r \in request, Serve(r) \/ Lose(r) \/ Reply(r)
      PROVE  SocketTyped' /\ StreamSupervised'
  <2>1. CASE Denied(r)
    BY <1>3, <2>1 DEF Denied, Expired, Leave
  <2> QED
    BY <1>5, <1>9, <2>1 DEF Serve, Lose, Reply, Deliver, feedVars, session
<1> QED
  BY <1>5, <1>6, <1>7, <1>8, <1>9
  DEF Next, TokenEnds, allVars, clientVars, feedVars, session

\* While somebody is logged in, the event socket is open, being opened or waiting for
\* the reconnect timer, after any order of closes, rejections and logins
\* (ApiClient::connectStream, logout and the slot of disconnected).
THEOREM StreamIsSupervised == Spec => []StreamSupervised
<1>1. Init => SocketTyped /\ StreamSupervised
  BY DEF Init, FeedInit, Closed, SocketTyped, StreamSupervised
<1>2. SocketTyped /\ StreamSupervised /\ [Next]_allVars => SocketTyped' /\ StreamSupervised'
  BY SocketStays
<1> QED
  BY <1>1, <1>2, PTL DEF Spec
-----------------------------------------------------------------------------
(* The pages of the feed. *)

\* A set of ids is finite, and an arrangement has each of them.
LEMMA Arranged ==
  ASSUME NEW ids \in SUBSET Ids, NEW rows \in SetToSeqs(ids)
  PROVE  /\ Cardinality(ids) \in Nat /\ rows \in [1 .. Cardinality(ids) -> ids]
         /\ \A e \in ids : \E i \in 1 .. Cardinality(ids) : rows[i] = e
<1>1. IsFiniteSet(ids) /\ Cardinality(ids) \in Nat
  <2>1. IsFiniteSet(Ids)
    BY FS_Interval, FeedAssumption DEF Ids
  <2> QED
    BY <2>1, FS_Subset, FS_CardinalityType
<1> DEFINE places == 1 .. Cardinality(ids)
<1>2. IsFiniteSet(places) /\ Cardinality(places) = Cardinality(ids)
  BY <1>1, FS_Interval
<1>3. rows \in [places -> ids] /\ \A i, j \in places : i # j => rows[i] # rows[j]
  BY DEF SetToSeqs
<1>4. rows \in Injection(places, ids)
  BY <1>3 DEF Injection, IsInjective
<1>5. rows \in Surjection(places, ids)
  BY <1>1, <1>2, <1>4, FS_Injection
<1> QED
  BY <1>1, <1>3, <1>5 DEF Surjection

\* The rows of a page are a first part of those after the cursor, in order.
LEMMA PageIsInitial ==
  ASSUME NEW after, NEW rows \in After(after), NEW k \in Nat, k <= Len(rows),
         NEW e \in Ids, NEW f \in Ids, event[e] = "visible", after < e, e < f,
         f \in ToSet(SubSeq(rows, 1, k))
  PROVE  e \in ToSet(SubSeq(rows, 1, k))
<1> DEFINE ids == {d \in Visible : d > after}
           page == SubSeq(rows, 1, k)
<1>1. /\ ids \in SUBSET Ids /\ rows \in SetToSeqs(ids)
      /\ \A i, j \in DOMAIN rows : i < j => rows[i] < rows[j]
  BY DEF After, Visible
<1>2. /\ Cardinality(ids) \in Nat /\ rows \in [1 .. Cardinality(ids) -> ids]
      /\ \A d \in ids : \E i \in 1 .. Cardinality(ids) : rows[i] = d
  BY <1>1, Arranged
<1>3. e \in ids
  BY FeedAssumption DEF Visible, Ids
<1> HIDE DEF ids
<1>4. DOMAIN rows = 1 .. Cardinality(ids) /\ Len(rows) = Cardinality(ids) /\ rows \in Seq(Ids)
  BY <1>1, <1>2
<1>5. DOMAIN page = 1 .. k /\ \A i \in 1 .. k : page[i] = rows[i]
  BY <1>2, <1>4
<1>6. PICK j \in 1 .. k : rows[j] = f
  BY <1>5 DEF ToSet
<1>7. PICK i \in DOMAIN rows : rows[i] = e
  BY <1>2, <1>3, <1>4
<1>8. i <= j
  <2>1. j \in DOMAIN rows /\ i \in Nat /\ j \in Nat
    BY <1>2, <1>4
  <2>2. ~ (j < i)
    BY <1>1, <1>6, <1>7, <2>1, FeedAssumption DEF Ids
  <2> QED
    BY <2>1, <2>2
<1>9. i \in 1 .. k /\ page[i] = e
  BY <1>2, <1>4, <1>5, <1>7, <1>8
<1> QED
  BY <1>5, <1>9 DEF ToSet

\* The limit of a page and its length are numbers.
LEMMA LimitIs ==
  ASSUME NEW n \in Nat
  PROVE  Min({PageLimit, n}) \in Nat /\ Min({PageLimit, n}) <= n
<1>1. PageLimit \in Nat
  BY FeedAssumption
<1>2. \E m \in {PageLimit, n} : \A l \in {PageLimit, n} : m <= l
  BY <1>1
<1> QED
  BY <1>1, <1>2 DEF Min

\* Only a query fills the page.
LEMMA PageStays ==
  ASSUME SocketTyped, [Next]_allVars, socket.page = <<>>, ~Fetch
  PROVE  socket'.page = <<>>
<1>1. CASE UNCHANGED socket
  BY <1>1
<1>2. CASE socket' = Closed \/ \E n : socket' = Opening(n)
  <2>1. Closed.page = <<>>
    BY DEF Closed
  <2>2. ASSUME NEW n, socket' = Opening(n)
        PROVE  socket'.page = <<>>
    <3>1. socket' = [state |-> "connecting", sent |-> n, page |-> <<>>]
      BY <2>2 DEF Opening, Closed
    <3> QED
      BY <3>1
  <2> QED
    BY <1>2, <2>1, <2>2
<1>3. CASE socket' = [socket EXCEPT !.state = "open"]
  BY <1>3 DEF SocketTyped
<1>4. CASE ServerStep /\ UNCHANGED clientVars
  BY <1>1, <1>4 DEF ServerStep, Emit, EndOf
<1>5. CASE SocketStep
  <2>1. ~Receive
    BY DEF Receive, Sending
  <2> QED
    BY <1>2, <1>3, <1>5, <2>1
    DEF SocketStep, Connected, Drop, Reject, Expired, Disconnected, Reconnect
<1>6. CASE WindowStep
  <2>1. ASSUME NEW u \in Users, Login(u) PROVE socket'.page = <<>>
    BY <1>2, <2>1 DEF Login
  <2>2. CASE Logout
    BY <1>2, <2>2 DEF Logout
  <2> QED
    BY <1>1, <1>6, <2>1, <2>2
    DEF WindowStep, Timeout, Poll, OpenDialog, DeleteLater, feedVars
<1>7. ASSUME NEW r \in request, Serve(r) \/ Lose(r) \/ Reply(r)
      PROVE  socket'.page = <<>>
  <2>1. CASE Denied(r)
    BY <1>2, <2>1 DEF Denied, Expired
  <2> QED
    BY <1>1, <1>7, <2>1 DEF Serve, Lose, Reply, Deliver, feedVars
<1> QED
  BY <1>1, <1>4, <1>5, <1>6, <1>7
  DEF Next, TokenEnds, allVars, feedVars

\* A page holds every visible row after the cursor and before a row it holds: the
\* promise of events_after's ORDER BY and LIMIT, for pages of every length.
THEOREM PagesAreComplete == Spec => PagesComplete
<1> DEFINE Complete ==
      socket.page = <<>> =>
        \A e, f \in Ids :
          event[e] = "visible" /\ socket.sent < e /\ e < f /\ f \in ToSet(socket'.page)
            => e \in ToSet(socket'.page)
<1>1. Init => SocketTyped /\ StreamSupervised
  BY DEF Init, FeedInit, Closed, SocketTyped, StreamSupervised
<1>2. SocketTyped /\ StreamSupervised /\ [Next]_allVars => SocketTyped' /\ StreamSupervised'
  BY SocketStays
<1>3. SocketTyped /\ [Next]_allVars => Complete
  <2> SUFFICES ASSUME SocketTyped, [Next]_allVars, socket.page = <<>>,
                      NEW e \in Ids, NEW f \in Ids, event[e] = "visible",
                      socket.sent < e, e < f, f \in ToSet(socket'.page)
               PROVE  e \in ToSet(socket'.page)
    OBVIOUS
  <2>1. ToSet(<<>>) = {}
    BY DEF ToSet
  <2>2. CASE Fetch
    <3>1. PICK rows \in After(socket.sent) :
            socket' = [socket EXCEPT !.page = SubSeq(rows, 1, Min({PageLimit, Len(rows)}))]
      BY <2>2 DEF Fetch
    <3>2. Len(rows) \in Nat
      <4> DEFINE ids == {d \in Visible : d > socket.sent}
      <4>1. ids \in SUBSET Ids /\ rows \in SetToSeqs(ids)
        BY <3>1 DEF After, Visible
      <4>2. Cardinality(ids) \in Nat /\ rows \in [1 .. Cardinality(ids) -> ids]
        BY <4>1, Arranged
      <4> QED
        BY <4>2
    <3>3. socket'.page = SubSeq(rows, 1, Min({PageLimit, Len(rows)}))
      BY <3>1 DEF SocketTyped
    <3> DEFINE k == Min({PageLimit, Len(rows)})
    <3>4. k \in Nat /\ k <= Len(rows)
      BY <3>2, LimitIs
    <3> HIDE DEF k
    <3>5. f \in ToSet(SubSeq(rows, 1, k))
      BY <3>3 DEF k
    <3>6. e \in ToSet(SubSeq(rows, 1, k))
      BY <3>4, <3>5, PageIsInitial
    <3> QED
      BY <3>3, <3>6 DEF k
  <2>3. CASE ~Fetch
    <3>1. socket'.page = <<>>
      BY <2>3, PageStays
    <3> QED
      BY <2>1, <3>1
  <2> QED
    BY <2>2, <2>3
<1> QED
  BY <1>1, <1>2, <1>3, PTL DEF Spec, PagesComplete
=============================================================================
