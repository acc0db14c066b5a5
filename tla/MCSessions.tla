----------------------------- MODULE MCSessions -----------------------------
(* Two clients and three session keys; one account, a token subject that   *)
(* has none, and idle sessions that time out.                              *)
EXTENDS Sessions, TLC

CONSTANTS c1, c2, k1, k2, k3

MCClient == {c1, c2}
MCKey == {k1, k2, k3}
MCUser == {"admin", "sso"}
MCAccount == {"admin"}

Symmetric == Permutations(MCClient) \union Permutations(MCKey)
=============================================================================
