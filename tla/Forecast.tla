------------------------------- MODULE Forecast -------------------------------
(***************************************************************************)
(* The forecast page of the console (admin-forecast.js): one panel, one    *)
(* selector, and requests whose answers come back in any order.            *)
(***************************************************************************)
EXTENDS Naturals

CONSTANTS
  Scopes,       \* the areas a forecast is made for
  MaxRequests   \* bound on the requests of one visit

Notices == {"loading", "not ready", "failed"}

ASSUME ForecastAssumption ==
  MaxRequests \in Nat /\ Scopes # {} /\ Scopes \cap Notices = {}

VARIABLES
  scope,            \* selector.value
  filled,           \* whether the selector offers more than its first option
  forecastRequest,  \* the number of the newest request
  asked,            \* the requests not answered, each with the scope it asks for
  panel             \* what the container shows: a scope, or a notice

forecastVars == <<scope, filled, forecastRequest, asked, panel>>

First == CHOOSE s \in Scopes : TRUE

ForecastInit ==
  /\ scope = First /\ filled = FALSE
  /\ forecastRequest = 0 /\ asked = {} /\ panel = "loading"

\* renderForecast, up to its await, for what the selector then holds.
RenderForecast(s) ==
  /\ forecastRequest < MaxRequests
  /\ forecastRequest' = forecastRequest + 1
  /\ asked' = asked \cup {<<forecastRequest', s>>}
  /\ panel' = "loading"

\* The page is shown, or the button to try again is pressed.
OpenForecast == RenderForecast(scope) /\ UNCHANGED <<scope, filled>>

ChooseScope(s) ==
  /\ filled /\ s # scope
  /\ scope' = s
  /\ RenderForecast(s)
  /\ UNCHANGED filled

\* Mutant: every answer is shown.
NewestAny(request) == TRUE

Newest(request) == request = forecastRequest

\* The first answer fills the selector and puts it on its own scope.
Show(s) ==
  /\ panel' = s
  /\ filled' = TRUE
  /\ scope' = IF filled THEN scope ELSE s

\* The server may have no forecast (yet).
ForecastAnswered(request, s) ==
  /\ <<request, s>> \in asked
  /\ asked' = asked \ {<<request, s>>}
  /\ IF Newest(request)
     THEN \/ Show(s)
          \/ panel' = "not ready" /\ UNCHANGED <<scope, filled>>
     ELSE UNCHANGED <<panel, scope, filled>>
  /\ UNCHANGED forecastRequest

ForecastFailed(request, s) ==
  /\ <<request, s>> \in asked
  /\ asked' = asked \ {<<request, s>>}
  /\ panel' = IF Newest(request) THEN "failed" ELSE panel
  /\ UNCHANGED <<scope, filled, forecastRequest>>

ForecastStep ==
  \/ OpenForecast
  \/ \E s \in Scopes : ChooseScope(s)
  \/ \E r \in asked : ForecastAnswered(r[1], r[2]) \/ ForecastFailed(r[1], r[2])
-----------------------------------------------------------------------------
\* However answers overtake each other, the forecast in the panel is the one of
\* the area the selector names (renderForecast drops the answers of older
\* requests), and once nothing is in flight the panel does not go on loading.
ForecastMatchesScope ==
  /\ panel \in Notices \cup {scope}
  /\ forecastRequest > 0 /\ asked = {} => panel # "loading"
=============================================================================
