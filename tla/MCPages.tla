-------------------------------- MODULE MCPages --------------------------------
(***************************************************************************)
(* The pages of the browser clients for model checking, one after the      *)
(* other: they share no state, so a behaviour is one of a single page, and *)
(* the variables of the others stay as they are.  In the console either    *)
(* its editor or its drawer is used, each with refreshes.                  *)
(***************************************************************************)
EXTENDS ConsolePage, ActivityView, Forecast, DashboardPage, MobileAccount, MobileBrowse,
        Charts

VARIABLE looking   \* the page looked at

pageVars == <<consoleVars, activityVars, forecastVars, dashboardVars, accountVars,
              browseVars, chartVars, looking>>

TwoStations == <<"north", "south">>
OnePreview == <<"preview">>

\* Days without energy, that rise, that fall, and that end as they began.
HoursOfDays == {<<0, 0, 0>>, <<3, 5, 7>>, <<7, 0, 3>>, <<4, 9, 4>>}

\* The dashboard was left as an administrator's, and with a demo token: without
\* them is how it is after a disconnection and a refusal.
Init ==
  /\ looking \in {"editor", "drawer", "activity", "forecast", "dashboard", "account",
                  "browse", "charts"}
  /\ ConsoleInit /\ ActivityInit /\ ForecastInit /\ BrowseInit /\ ChartsInit
  /\ DashboardInit /\ token = "good" /\ demo = "old"
  /\ AccountInit /\ (looking = "account" \/ userToken = None)

Next ==
  /\ UNCHANGED looking
  /\ looking \notin {"editor", "drawer"} => UNCHANGED consoleVars
  /\ looking # "activity" => UNCHANGED activityVars
  /\ looking # "forecast" => UNCHANGED forecastVars
  /\ looking # "dashboard" => UNCHANGED dashboardVars
  /\ looking # "account" => UNCHANGED accountVars
  /\ looking # "browse" => UNCHANGED browseVars
  /\ looking # "charts" => UNCHANGED chartVars
  /\ \/ looking = "editor" /\ (EditorStep \/ RefreshStep)
     \/ looking = "drawer" /\ (DrawerStep \/ RefreshStep)
     \/ looking = "activity" /\ ActivityStep
     \/ looking = "forecast" /\ ForecastStep
     \/ looking = "dashboard" /\ DashboardStep
     \/ looking = "account" /\ AccountStep
     \/ looking = "browse" /\ BrowseStep
     \/ looking = "charts" /\ ChartsStep

\* The dashboard is refreshed by its interval, the calls of a page are answered
\* or fail, and a customer looks at the profile again, and logs in when the page
\* asks for it, having no token.
Fairness ==
  /\ WF_dashboardVars(looking = "dashboard" /\ StartRefresh)
  /\ \A f \in Flights : WF_dashboardVars(looking = "dashboard" /\ RefreshSettles(f))
  /\ \A e \in Errands : WF_accountVars(looking = "account" /\ ErrandSettles(e))
  /\ WF_accountVars(looking = "account" /\ LoadProfile)
  /\ WF_accountVars(looking = "account" /\ userToken = None /\ VerifyCode)

Spec == Init /\ [][Next]_pageVars /\ Fairness
-----------------------------------------------------------------------------
\* When the server no longer changes the page comes to show what it says, and
\* its orders to an administrator only, though the answers of an old refresh may
\* be drawn after those of a new one, and after a disconnection.
DashboardCatchesUp == <>[](looking = "dashboard" => DashboardShown)

\* Whatever answers late, fails or expires in between, and though a failure of an
\* earlier call removes a token that came since, a customer who goes on looking
\* comes to see the balance of the account.
BalanceCatchesUp == <>[](looking = "account" => BalanceShown)
=============================================================================
