---------------------------- MODULE SingleFlight ----------------------------
(***************************************************************************)
(* What the scheduler and the web console promise about the execution of   *)
(* the configured modules, however a run is triggered: of one module at    *)
(* most one run executes at any time, through reloads of the configuration *)
(* included.  ModuleRun is shown to implement this specification.          *)
(***************************************************************************)
CONSTANTS Modules, Runs    \* the configured modules; the runs that may exist

VARIABLE executing         \* the runs executing each module

Init == executing = [m \in Modules |-> {}]

\* A run starts to execute a module that no run executes.
Begin(m, r) ==
  /\ executing[m] = {}
  /\ executing' = [executing EXCEPT ![m] = {r}]

\* The run executing a module ends: it returns, fails or panics.
End(m) ==
  /\ executing[m] # {}
  /\ executing' = [executing EXCEPT ![m] = {}]

\* The process ends, and every run with it.
Stop == executing' = [m \in Modules |-> {}]

Next == (\E m \in Modules : End(m) \/ \E r \in Runs : Begin(m, r)) \/ Stop

Spec == Init /\ [][Next]_executing
=============================================================================
