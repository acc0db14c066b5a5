------------------------------ MODULE Overrides ------------------------------
(***************************************************************************)
(* pkg/overrides/overrides.go: the Registry of metric and property         *)
(* overrides, and the hook of cmd/vcsim/main.go that QueryPerf calls for   *)
(* every entity, counter and instance.  The registry keeps one list per    *)
(* managed object; every method holds Registry.mu for its whole body, so   *)
(* each one is a single action here.  The hook is not: it copies the live  *)
(* entries under the read lock and searches the copy after the unlock.     *)
(***************************************************************************)
EXTENDS Naturals, Sequences

CONSTANTS
    Entity, Guid,           \* a reference is an entity and a ServerGUID
    Counter, Instance,      \* a metric override is for a counter and instance
    Property, Value, NoValue,
    Expiry, Reader, MaxTime

VARIABLES
    metrics,                \* Registry.metrics: key -> list of MetricOverride
    properties,             \* Registry.properties
    now,                    \* time.Now()
    hook,                   \* reader -> the MetricOverrideFunc call it is in
    reply                   \* reader -> its last call: what it was for, and what
                            \* it returned

vars == <<metrics, properties, now, hook, reply>>

Never == 0

ASSUME RegistryAssumption ==
    /\ NoValue \notin Value
    /\ Expiry \subseteq Nat /\ Never \in Expiry
    /\ MaxTime \in Nat

Ref == [mo : Entity, guid : Guid]

MetricKey == Counter \X Instance

MetricOverride == [key : MetricKey, value : Value, expires : Expiry]

PropertyOverride == [key : Property, value : Value, expires : Expiry]

\* The map key of a reference: its ServerGUID is dropped.
morKey(ref) == ref.mo

Idle == [on |-> FALSE]
Unasked == [value |-> NoValue]

-----------------------------------------------------------------------------
(* Lists.  Both kinds of override are searched and replaced the same way.  *)

\* A faulty variant: an override ends at its expiry time, not after it.
ExpiredEarly(o, t) == o.expires # Never /\ t >= o.expires

Expired(o, t) == o.expires # Never /\ t > o.expires

Matches(list, k) == {i \in DOMAIN list : list[i].key = k}

Least(S) == CHOOSE i \in S : \A j \in S : i <= j

\* A faulty variant: the loop that replaces an existing entry is missing.
AppendOnly(list, o) == Append(list, o)

\* SetMetric and SetProperty: replace the first entry of the key, else append.
Upsert(list, o) ==
    IF Matches(list, o.key) = {}
    THEN Append(list, o)
    ELSE [list EXCEPT ![Least(Matches(list, o.key))] = o]

\* The entries of list that GetMetrics and GetProperties copy at time t.
Live(list, t) == {i \in DOMAIN list : ~Expired(list[i], t)}

\* A faulty variant: the entry is returned in place of its values.
PickEntry(list, k, t) ==
    LET found == Matches(list, k) \intersect Live(list, t)
    IN  IF found = {} THEN NoValue ELSE list[Least(found)]

\* The first entry for key k among those copied at time t.
Pick(list, k, t) ==
    LET found == Matches(list, k) \intersect Live(list, t)
    IN  IF found = {} THEN NoValue ELSE list[Least(found)].value

-----------------------------------------------------------------------------

Init ==
    /\ metrics = [e \in Entity |-> <<>>]
    /\ properties = [e \in Entity |-> <<>>]
    /\ now = 1
    /\ hook = [r \in Reader |-> Idle]
    /\ reply = [r \in Reader |-> Unasked]

SetMetric(ref, o) ==
    /\ metrics' = [metrics EXCEPT ![morKey(ref)] = Upsert(metrics[morKey(ref)], o)]
    /\ UNCHANGED <<properties, now, hook, reply>>

SetProperty(ref, o) ==
    /\ properties' = [properties EXCEPT ![morKey(ref)] = Upsert(properties[morKey(ref)], o)]
    /\ UNCHANGED <<metrics, now, hook, reply>>

ClearMetrics(ref) ==
    /\ metrics' = [metrics EXCEPT ![morKey(ref)] = <<>>]
    /\ UNCHANGED <<properties, now, hook, reply>>

ClearProperties(ref) ==
    /\ properties' = [properties EXCEPT ![morKey(ref)] = <<>>]
    /\ UNCHANGED <<metrics, now, hook, reply>>

ClearAllMetrics ==
    /\ metrics' = [e \in Entity |-> <<>>]
    /\ UNCHANGED <<properties, now, hook, reply>>

ClearAll ==
    /\ metrics' = [e \in Entity |-> <<>>]
    /\ properties' = [e \in Entity |-> <<>>]
    /\ UNCHANGED <<now, hook, reply>>

\* GetMetrics inside the hook: the live entries are copied under the read
\* lock.  The copy is kept as the list it was made of and the time.
GetMetrics(r, ref, k) ==
    /\ ~hook[r].on
    /\ hook' = [hook EXCEPT ![r] =
         [on |-> TRUE, entity |-> morKey(ref), key |-> k, list |-> metrics[morKey(ref)], at |-> now]]
    /\ UNCHANGED <<metrics, properties, now, reply>>

\* What the hook finds in the copy.
Reply(h) == [entity |-> h.entity, key |-> h.key, value |-> Pick(h.list, h.key, h.at)]

\* The rest of the hook, after the unlock: the registry may have changed.
MetricOverrideFunc(r) ==
    /\ hook[r].on
    /\ reply' = [reply EXCEPT ![r] = Reply(hook[r])]
    /\ hook' = [hook EXCEPT ![r] = Idle]
    /\ UNCHANGED <<metrics, properties, now>>

\* The caller has made its series of what the hook returned.
Forget(r) ==
    /\ ~hook[r].on
    /\ reply' = [reply EXCEPT ![r] = Unasked]
    /\ UNCHANGED <<metrics, properties, now, hook>>

Tick ==
    /\ now < MaxTime
    /\ now' = now + 1
    /\ UNCHANGED <<metrics, properties, hook, reply>>

Next ==
    \/ \E ref \in Ref, o \in MetricOverride : SetMetric(ref, o)
    \/ \E ref \in Ref, o \in PropertyOverride : SetProperty(ref, o)
    \/ \E ref \in Ref : ClearMetrics(ref)
    \/ \E ref \in Ref : ClearProperties(ref)
    \/ ClearAllMetrics
    \/ ClearAll
    \/ \E r \in Reader, ref \in Ref, k \in MetricKey : GetMetrics(r, ref, k)
    \/ \E r \in Reader : MetricOverrideFunc(r)
    \/ \E r \in Reader : Forget(r)
    \/ Tick

Spec == Init /\ [][Next]_vars

-----------------------------------------------------------------------------
(* The read methods that no action needs.                                  *)

\* A property as the caller of GetProperties finds it among the live ones.
GetProperties(ref, p) == Pick(properties[morKey(ref)], p, now)

\* Stops at the first entry of the property, expired or not.
GetProperty(ref, p) ==
    LET list == properties[morKey(ref)]
        i == Least(Matches(list, p))
    IN  IF Matches(list, p) = {} \/ Expired(list[i], now) THEN NoValue ELSE list[i].value

-----------------------------------------------------------------------------
(* Properties.                                                             *)

HookCall == [on : {TRUE}, entity : Entity, key : MetricKey, list : Seq(MetricOverride), at : Nat]

HookReply == [entity : Entity, key : MetricKey, value : Value \union {NoValue}]

\* Every list holds overrides of its kind, and so does the copy a reader holds.
TypeOK ==
    /\ metrics \in [Entity -> Seq(MetricOverride)]
    /\ properties \in [Entity -> Seq(PropertyOverride)]
    /\ now \in Nat
    /\ hook \in [Reader -> HookCall \union {Idle}]
    /\ reply \in [Reader -> HookReply \union {Unasked}]

UniqueKeys(list) ==
    \A i, j \in DOMAIN list : list[i].key = list[j].key => i = j

\* No list ever holds two entries for one counter and instance, or one
\* property: "Replace existing override for same counter+instance"
\* (overrides.go:72) keeps the first-match loops of the readers unambiguous.
OneEntryPerKey ==
    \A e \in Entity : UniqueKeys(metrics[e]) /\ UniqueKeys(properties[e])

\* The two ways to read a property agree: GetProperty gives up at the first
\* entry even when that one has expired, GetProperties filters expired entries
\* and goes on, and a caller must not be able to tell them apart.
PropertyReadsAgree ==
    \A ref \in Ref, p \in Property :
        GetProperty(ref, p) = GetProperties(ref, p)

(* The lists as the maps of OverrideStore, and a hook call in progress as  *)
(* answered when it took its copy.                                         *)
AsMap(list) ==
    [k \in {list[i].key : i \in DOMAIN list} |->
        [value |-> list[Least(Matches(list, k))].value,
         expires |-> list[Least(Matches(list, k))].expires]]

Answer(r) == IF hook[r].on THEN Reply(hook[r]) ELSE reply[r]

Store == INSTANCE OverrideStore WITH
    metrics    <- [e \in Entity |-> AsMap(metrics[e])],
    properties <- [e \in Entity |-> AsMap(properties[e])],
    reply      <- [r \in Reader |-> Answer(r)]

\* The registry and its hook behave as atomic maps: every write is seen by the
\* reads after it whatever ServerGUID they name it with, an expired or cleared
\* override is never returned, and a hook call that overlaps a write returns
\* what held, of its entity and key, at one instant of the call.
ImplementsStore == Store!StoreSpec
=============================================================================
