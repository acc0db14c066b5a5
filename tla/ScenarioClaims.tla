--------------------------- MODULE ScenarioClaims ---------------------------
(***************************************************************************)
(* What comments of pkg/scenarios say of the scenarios and the code does   *)
(* not do.  Each claim is violated; the run that shows it names the line.  *)
(***************************************************************************)
EXTENDS ScenarioManager

\* manager.go:363-365: "For state-change scenarios (host disconnect, VM power
\* off), we need to reverse the action."  The scenarios that disconnect the
\* hosts of a cluster are state-change scenarios too, but deactivateScenario
\* only clears the overrides of the cluster object itself.
ClusterScenariosReverse == [][DeactivationReverses(ClusterScenario)]_vars

\* manager.go:155: "ClearAll deactivates all active scenarios."  It empties the
\* registry and the map and never calls deactivateScenario, so hosts stay
\* disconnected and VMs off with nothing left to deactivate.
ClearAllDeactivates ==
    [][\A w \in Worker : pc[w] = "cleared" /\ pc'[w] = "idle" =>
         \A s \in {active[k] : k \in DOMAIN active} :
            (\A p \in Range(s[2]) : \A o \in Range(activateScenario(s[1], p, NoParam)) :
                Restored(o, NotRunning))']_vars

\* manager.go:92: "ListActive returns all currently active scenarios.", and
\* manager.go:55: Duration is in "seconds, 0 = permanent".  When the duration
\* is over the overrides expire but nothing removes the scenario from the map.
ListedScenariosLast ==
    mu = Free => \A k \in DOMAIN active :
        \E e \in Entity : \E o \in OverridesOn(e) :
            o.value = active[k] /\ ~Registry!Expired(o, now)
=============================================================================
