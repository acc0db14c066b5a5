-------------------------------- MODULE MCApi --------------------------------
(* Two handlers and an endless supply of requests about two hosts: metric  *)
(* overrides on both hosts, a host that is disconnected and reconnected,   *)
(* requests that fail at once or half-way, and a deactivation whose one    *)
(* target prints like two.                                                 *)
EXTENDS ScenarioManager, TLC

CONSTANTS w1, w2, h1, h2

MCWorker == {w1, w2}
MCEntity == {h1, h2}
MCPath == {"h1", "h2", "h1 h2"}
MCAt == [p \in MCPath |-> CASE p = "h1" -> h1 [] p = "h2" -> h2 [] OTHER -> NoEntity]
MCHostsAt == [p \in MCPath |-> IF MCAt[p] = NoEntity THEN <<>> ELSE <<MCAt[p]>>]
MCNone == [p \in MCPath |-> <<>>]
MCWords == [p \in MCPath |-> IF p = "h1 h2" THEN <<"h1", "h2">> ELSE <<p>>]
MCHostOf == [e \in MCEntity |-> e]

Ask(op, id, targets, duration) ==
    [op |-> op, id |-> id, targets |-> targets, duration |-> duration, param |-> NoParam]

MCRequest ==
    {Ask("activate", "cpu_rp_limit", <<"h1", "h2">>, 1),
     Ask("deactivate", "cpu_rp_limit", <<"h1", "h2">>, 0),
     Ask("deactivate", "cpu_rp_limit", <<"h1 h2">>, 0),
     Ask("activate", "host_psod", <<"h2">>, 0),
     Ask("activate", "net_mgmt_partition", <<"h2", "h1 h2">>, 0),
     Ask("deactivate", "host_psod", <<"h2">>, 0),
     Ask("clearAll", "", <<>>, 0),
     Ask("list", "", <<>>, 0)}
=============================================================================
