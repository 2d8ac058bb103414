------------------------------- MODULE MapFetch -------------------------------
(***************************************************************************)
(* MapService.fetch: the questions put to the public geocoding and routing *)
(* services.  The tasks of one event loop look into a cache, queue for an  *)
(* asyncio lock, which is handed on in order, look again, keep a distance  *)
(* from the request before, and ask.                                       *)
(***************************************************************************)
EXTENDS Clock, Null, Sequences, FiniteSets

CONSTANTS
  Tasks,      \* handlers that run at the same time
  Urls,       \* questions
  FreshFor,   \* 24 hours
  Distance,   \* 1.1 seconds
  CacheLimit  \* 512 answers

ASSUME MapFetchAssumption ==
  /\ {FreshFor, Distance, CacheLimit} \subseteq Nat
  /\ None \notin Urls

VARIABLES
  cache,        \* when each answer was stored, or None
  lastRequest,  \* when the last request ended, None before the first
  lock,         \* the task that holds the lock, and those that wait for it in order
  task,         \* the question each task has, or None
  at,           \* how far the task that holds the lock has come
  ended         \* when the service last stopped working on a request, or None

mapVars == <<cache, lastRequest, lock, task, at, ended>>

MapInit ==
  /\ cache = [u \in Urls |-> None]
  /\ lastRequest = None /\ ended = None
  /\ lock = <<>>
  /\ task = [t \in Tasks |-> None]
  /\ at = "enter"

IsFresh(u) == cache[u] # None /\ now - cache[u] < FreshFor

Fetch(t, u) ==
  /\ task[t] = None /\ ~IsFresh(u)
  /\ task' = [task EXCEPT ![t] = u]
  /\ lock' = Append(lock, t)
  /\ UNCHANGED <<cache, lastRequest, at, ended>>

\* The task that holds the lock leaves it to the next.
Release ==
  /\ lock' = Tail(lock)
  /\ task' = [task EXCEPT ![Head(lock)] = None]
  /\ at' = "enter"

\* Mutant: the cache is not looked at again under the lock.
AnsweredNever == FALSE

\* Another task has fetched the answer meanwhile.
Answered == IsFresh(task[Head(lock)])

Enter ==
  /\ lock # <<>> /\ at = "enter"
  /\ IF Answered THEN Release
     ELSE at' = "wait" /\ UNCHANGED <<lock, task>>
  /\ UNCHANGED <<cache, lastRequest, ended>>

\* The sleep is over, or was not needed.
Ask ==
  /\ lock # <<>> /\ at = "wait"
  /\ lastRequest # None => now >= lastRequest + Distance
  /\ at' = "ask"
  /\ UNCHANGED <<cache, lastRequest, lock, task, ended>>

Kept == {v \in Urls : cache[v] # None}

\* The cache with one more answer; a full one is emptied first.
Stored(u) ==
  IF Cardinality(Kept) > CacheLimit
  THEN [v \in Urls |-> IF v = u THEN now ELSE None]
  ELSE [cache EXCEPT ![u] = now]

\* Mutant: only an answer counts as a request.
PacedByAnswers(ok) == IF ok THEN now ELSE lastRequest

\* Requests that fail keep the next one waiting too.
Paced(ok) == now

Reply(ok) ==
  /\ lock # <<>> /\ at = "ask"
  /\ lastRequest' = Paced(ok) /\ ended' = now
  /\ cache' = IF ok THEN Stored(task[Head(lock)]) ELSE cache
  /\ Release

MapStep ==
  \/ \E t \in Tasks, u \in Urls : Fetch(t, u)
  \/ Enter \/ Ask
  \/ \E ok \in BOOLEAN : Reply(ok)
-----------------------------------------------------------------------------
\* Nothing is asked while its answer is in the cache and less than a day old,
\* whoever stored it and however long the task has waited; a request goes out
\* only when the one before has been over for a while, failed or not.
AskedSparingly ==
  [][at # "ask" /\ at' = "ask" =>
       /\ ~IsFresh(task[Head(lock)])
       /\ ended # None => now >= ended + Distance]_<<now, mapVars>>
=============================================================================
