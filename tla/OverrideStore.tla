---------------------------- MODULE OverrideStore ----------------------------
(***************************************************************************)
(* What pkg/overrides promises its callers: two maps from a managed object *)
(* and a key to an override, changed atomically, in which an override is   *)
(* seen until it is replaced, cleared or expired.  Overrides.tla keeps     *)
(* lists as the code does and is shown to implement this module;           *)
(* ScenarioManager.tla uses the actions of this module for its registry.   *)
(***************************************************************************)
EXTENDS Naturals

CONSTANTS
    Entity,       \* managed objects, after morKey dropped the ServerGUID
    MetricKey,    \* <<counter, instance>> pairs
    Property,     \* property paths such as "runtime.connectionState"
    Value,        \* what an override shows instead of the simulated data
    NoValue,      \* nil: no override, the simulated data is shown
    Expiry,       \* the ExpiresAt times callers pass, Never among them
    Reader,       \* QueryPerf calls in progress
    MaxTime       \* bound on the clock

Never == 0        \* the zero time.Time: until cleared by hand

VARIABLES
    metrics,      \* entity -> (metric key -> override), a partial map each
    properties,   \* entity -> (property -> override)
    now,          \* time.Now()
    reply         \* reader -> its last call of the metric hook: for which entity
                  \* and key, and the value it returned

storeVars == <<metrics, properties, now, reply>>

Override == [value : Value, expires : Expiry]

EmptyMap == [k \in {} |-> NoValue]

Expired(o, t) == o.expires # Never /\ t > o.expires

Put(m, k, o) == [j \in DOMAIN m \union {k} |-> IF j = k THEN o ELSE m[j]]

\* What a reader of key k sees of the map m at time t.
Seen(m, k, t) ==
    IF k \in DOMAIN m /\ ~Expired(m[k], t) THEN m[k].value ELSE NoValue

Unasked == [value |-> NoValue]

MapOf(m, Keys) == DOMAIN m \subseteq Keys /\ \A k \in DOMAIN m : m[k] \in Override

-----------------------------------------------------------------------------

StoreInit ==
    /\ metrics = [e \in Entity |-> EmptyMap]
    /\ properties = [e \in Entity |-> EmptyMap]
    /\ now = 1
    /\ reply = [r \in Reader |-> Unasked]

SetMetric(e, k, o) ==
    /\ metrics' = [metrics EXCEPT ![e] = Put(metrics[e], k, o)]
    /\ UNCHANGED <<properties, now, reply>>

SetProperty(e, p, o) ==
    /\ properties' = [properties EXCEPT ![e] = Put(properties[e], p, o)]
    /\ UNCHANGED <<metrics, now, reply>>

ClearMetrics(e) ==
    /\ metrics' = [metrics EXCEPT ![e] = EmptyMap]
    /\ UNCHANGED <<properties, now, reply>>

ClearProperties(e) ==
    /\ properties' = [properties EXCEPT ![e] = EmptyMap]
    /\ UNCHANGED <<metrics, now, reply>>

ClearAllMetrics ==
    /\ metrics' = [e \in Entity |-> EmptyMap]
    /\ UNCHANGED <<properties, now, reply>>

ClearAll ==
    /\ metrics' = [e \in Entity |-> EmptyMap]
    /\ properties' = [e \in Entity |-> EmptyMap]
    /\ UNCHANGED <<now, reply>>

\* One QueryPerf series: the reader is told what the map of the entity shows for
\* the key at one instant.
Read(r, e, k) ==
    /\ reply' = [reply EXCEPT ![r] =
         [entity |-> e, key |-> k, value |-> Seen(metrics[e], k, now)]]
    /\ UNCHANGED <<metrics, properties, now>>

\* The reader has used what it was told.
Forget(r) ==
    /\ reply' = [reply EXCEPT ![r] = Unasked]
    /\ UNCHANGED <<metrics, properties, now>>

Tick ==
    /\ now < MaxTime
    /\ now' = now + 1
    /\ UNCHANGED <<metrics, properties, reply>>

StoreNext ==
    \/ \E e \in Entity, k \in MetricKey, o \in Override : SetMetric(e, k, o)
    \/ \E e \in Entity, p \in Property, o \in Override : SetProperty(e, p, o)
    \/ \E e \in Entity : ClearMetrics(e) \/ ClearProperties(e)
    \/ ClearAllMetrics
    \/ ClearAll
    \/ \E r \in Reader, e \in Entity, k \in MetricKey : Read(r, e, k)
    \/ \E r \in Reader : Forget(r)
    \/ Tick

StoreSpec == StoreInit /\ [][StoreNext]_storeVars
=============================================================================
