----------------------------- MODULE MCStartup ------------------------------
(* The default layout, and flags with counts that are negative, zero, not  *)
(* divisible by three, and more than one; also -skip-inventory.            *)
EXTENDS Startup

Flag(dc, cluster, host, vm) ==
    [skip |-> FALSE, dc |-> dc, cluster |-> cluster, host |-> host, vm |-> vm, ds |-> 0, dvs |-> -1]

MCDefault == {Flag(0, 3, 6, 100)}

MCFlags == MCDefault \union
    {Flag(1, 0, 0, -1), Flag(1, 1, 1, 7), Flag(2, 2, 2, 4),
     [Flag(0, 3, 6, 100) EXCEPT !.skip = TRUE]}
=============================================================================
