------------------------------ MODULE MCServices ------------------------------
(***************************************************************************)
(* The services that share nothing with each other but the clock.  Each    *)
(* behaviour looks at one of them, so that TLC does not multiply them.     *)
(***************************************************************************)
EXTENDS SignInProperties, ConsoleLogin, MapFetch, Maintenance, TLC

VARIABLE looking  \* at which service

allVars == <<now, signInVars, consoleVars, mapVars, maintenanceVars, looking>>

Init ==
  /\ ClockInit /\ SignInInit /\ ConsoleInit /\ MapInit /\ MaintenanceInit
  /\ looking \in {"signin", "console", "map", "maintenance"}

Next ==
  /\ UNCHANGED looking
  /\ \/ looking # "maintenance" /\ Tick
        /\ UNCHANGED <<signInVars, consoleVars, mapVars, maintenanceVars>>
     \/ looking = "signin" /\ SignInStep
        /\ UNCHANGED <<now, consoleVars, mapVars, maintenanceVars>>
     \/ looking = "console" /\ ConsoleStep
        /\ UNCHANGED <<now, signInVars, mapVars, maintenanceVars>>
     \/ looking = "map" /\ MapStep
        /\ UNCHANGED <<now, signInVars, consoleVars, maintenanceVars>>
     \/ looking = "maintenance" /\ MaintenanceStep
        /\ UNCHANGED <<now, signInVars, consoleVars, mapVars>>

Spec == Init /\ [][Next]_allVars

Symmetry == Permutations(Sessions) \cup Permutations(Codes)
=============================================================================
