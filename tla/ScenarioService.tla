--------------------------- MODULE ScenarioService ---------------------------
(***************************************************************************)
(* What the scenario controller promises the callers of its REST API about *)
(* the set of active scenarios: every request takes effect at one instant  *)
(* between its arrival and its answer.  ScenarioManager is shown to        *)
(* implement this although activations run for many steps, wait for        *)
(* vSphere tasks and overlap with other requests.                          *)
(***************************************************************************)

CONSTANTS
    Worker,      \* requests that can be in flight at once
    ApiCall,     \* [op, key]: what a request asks for
    NoCall

VARIABLES
    active,      \* keys of the active scenarios
    call,        \* worker -> the call it has not answered yet
    answer       \* worker -> its last answer: a code, and the keys of a list

serviceVars == <<active, call, answer>>

NoAnswer == [code |-> "none", keys |-> {}]

ServiceInit ==
    /\ active = {}
    /\ call = [w \in Worker |-> NoCall]
    /\ answer = [w \in Worker |-> NoAnswer]

Submitted(w, c) ==
    /\ call[w] = NoCall
    /\ call' = [call EXCEPT ![w] = c]
    /\ answer' = [answer EXCEPT ![w] = NoAnswer]
    /\ UNCHANGED active

Answer(w, code, keys) ==
    /\ call' = [call EXCEPT ![w] = NoCall]
    /\ answer' = [answer EXCEPT ![w] = [code |-> code, keys |-> keys]]

Pending(w, op) == call[w] # NoCall /\ call[w].op = op

\* A scenario is listed from the moment its activation is answered "ok".
Activated(w) ==
    /\ Pending(w, "activate")
    /\ active' = active \union {call[w].key}
    /\ Answer(w, "ok", {})

\* An activation that is not answered "ok" lists nothing and unlists nothing.
NotActivated(w) ==
    /\ Pending(w, "activate")
    /\ \E code \in {"error", "badRequest", "aborted"} : Answer(w, code, {})
    /\ UNCHANGED active

\* Of two deactivations of one activation, only one is answered "ok".
Deactivated(w) ==
    /\ Pending(w, "deactivate")
    /\ call[w].key \in active
    /\ active' = active \ {call[w].key}
    /\ Answer(w, "ok", {})

NotDeactivated(w) ==
    /\ Pending(w, "deactivate")
    /\ call[w].key \notin active
    /\ Answer(w, "error", {})
    /\ UNCHANGED active

ClearedAll(w) ==
    /\ Pending(w, "clearAll")
    /\ active' = {}
    /\ Answer(w, "ok", {})

Listed(w) ==
    /\ Pending(w, "list")
    /\ Answer(w, "ok", active)
    /\ UNCHANGED active

ServiceNext ==
    \E w \in Worker :
        \/ \E c \in ApiCall : Submitted(w, c)
        \/ Activated(w) \/ NotActivated(w)
        \/ Deactivated(w) \/ NotDeactivated(w)
        \/ ClearedAll(w) \/ Listed(w)

ServiceSpec == ServiceInit /\ [][ServiceNext]_serviceVars
=============================================================================
