---------------------------- MODULE InventoryBuild ----------------------------
(***************************************************************************)
(* What the builder of the inventory promises: the clusters it is asked    *)
(* for become whole one by one, in the order of the layout, and stay so;   *)
(* after its first error no other does, and the build is complete when all *)
(* are.  Startup.tla, where a cluster is made host by host and any call    *)
(* may fail, is shown to implement this module.                            *)
(***************************************************************************)
EXTENDS Integers

VARIABLES
    asked,              \* the clusters <<d, c>> of the layout
    built,              \* those that have all their hosts, mounts and pools
    outcome             \* of the build: "none", "complete" or "failed"

buildVars == <<asked, built, outcome>>

Before(j, k) == j[1] < k[1] \/ (j[1] = k[1] /\ j[2] < k[2])

BuildInit ==
    /\ asked \subseteq Nat \X Nat
    /\ built = {} /\ outcome = "none"

Undecided == outcome = "none" /\ asked' = asked

\* The call that makes a cluster whole may take effect and lose its answer.
Grow ==
    /\ Undecided /\ outcome' \in {"none", "failed"}
    /\ \E k \in asked \ built :
         /\ built' = built \union {k}
         /\ {j \in asked : Before(j, k)} \subseteq built

Finish == Undecided /\ built = asked /\ built' = built /\ outcome' = "complete"

Fail == Undecided /\ built' = built /\ outcome' = "failed"

BuildNext == Grow \/ Finish \/ Fail

BuildSpec == BuildInit /\ [][BuildNext]_buildVars
=============================================================================
