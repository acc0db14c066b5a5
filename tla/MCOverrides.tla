----------------------------- MODULE MCOverrides -----------------------------
(* Overrides on one object that is known under two ServerGUIDs, with two   *)
(* metric keys, one property and two values; they last for ever or until 1.*)
EXTENDS Overrides, TLC

CONSTANTS v1, v2

MCGuid == {"", "vcenter"}
MCInstance == {"", "vmnic0"}
MCExpiry == {0, 1}
MCValue == {v1, v2}

Values == Permutations(MCValue)
=============================================================================
