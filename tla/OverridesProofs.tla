-------------------------- MODULE OverridesProofs --------------------------
(***************************************************************************)
(* Proofs about the override registry, for any number of objects, keys,    *)
(* values, readers and expiry times: its type invariant, that it never     *)
(* holds two entries for one key, that its two property readers agree, and *)
(* that it implements the atomic maps of OverrideStore.                    *)
(***************************************************************************)
EXTENDS Overrides, TLAPS

-----------------------------------------------------------------------------
(* Lists with at most one entry per key.                                   *)

\* In such a list the entry the first-match loops stop at is the only one.
LEMMA LeastOfMatches ==
    ASSUME NEW T, NEW list \in Seq(T), UniqueKeys(list), NEW k,
           NEW i \in Matches(list, k), NEW S, S \subseteq Matches(list, k), i \in S
    PROVE  Least(S) = i
<1>1. S = {i}
  BY DEF UniqueKeys, Matches
<1>2. i \in Nat
  BY DEF Matches
<1>3. QED
  BY <1>1, <1>2 DEF Least

LEMMA LeastMatch ==
    ASSUME NEW T, NEW list \in Seq(T), UniqueKeys(list), NEW k,
           Matches(list, k) # {}
    PROVE  /\ Least(Matches(list, k)) \in DOMAIN list
           /\ list[Least(Matches(list, k))].key = k
           /\ \A i \in DOMAIN list : list[i].key = k => i = Least(Matches(list, k))
<1>1. PICK i \in Matches(list, k) : TRUE
  OBVIOUS
<1>2. Least(Matches(list, k)) = i
  BY LeastOfMatches
<1>3. QED
  BY <1>2 DEF Matches, UniqueKeys

\* Upsert keeps the element type and the uniqueness of keys.
LEMMA UpsertKeeps ==
    ASSUME NEW T, NEW list \in Seq(T), UniqueKeys(list), NEW o \in T
    PROVE  Upsert(list, o) \in Seq(T) /\ UniqueKeys(Upsert(list, o))
<1>1. CASE Matches(list, o.key) = {}
  <2>1. Upsert(list, o) = Append(list, o)
    BY <1>1 DEF Upsert
  <2>2. \A i \in DOMAIN list : list[i].key # o.key
    BY <1>1 DEF Matches
  <2>3. QED
    BY <2>1, <2>2 DEF UniqueKeys
<1>2. CASE Matches(list, o.key) # {}
  <2> DEFINE m == Least(Matches(list, o.key))
  <2>1. Upsert(list, o) = [list EXCEPT ![m] = o]
    BY <1>2 DEF Upsert
  <2>2. m \in DOMAIN list /\ \A i \in DOMAIN list : list[i].key = o.key => i = m
    BY <1>2, LeastMatch
  <2> HIDE DEF m
  <2>3. QED
    BY <2>1, <2>2 DEF UniqueKeys
<1>3. QED
  BY <1>1, <1>2

\* What a reader picks is a value of the list, or nothing.
LEMMA PickType ==
    ASSUME NEW T, NEW list \in Seq(T), UniqueKeys(list), NEW k, NEW t,
           \A o \in T : o.value \in Value
    PROVE  Pick(list, k, t) \in Value \union {NoValue}
<1> DEFINE found == Matches(list, k) \intersect Live(list, t)
<1>1. CASE found = {}
  BY <1>1 DEF Pick
<1>2. CASE found # {}
  <2>1. PICK i \in found : TRUE
    BY <1>2
  <2>2. Least(found) = i
    BY <2>1, LeastOfMatches
  <2>3. Pick(list, k, t) = list[i].value
    BY <1>2, <2>2 DEF Pick
  <2>4. i \in DOMAIN list
    BY <2>1 DEF Matches
  <2>5. QED
    BY <2>3, <2>4
<1>3. QED
  BY <1>1, <1>2

\* Filtering expired entries first and searching then, or searching first and
\* looking at the expiry of the entry then, comes to the same.
LEMMA PickIsFirst ==
    ASSUME NEW T, NEW list \in Seq(T), UniqueKeys(list), NEW k, NEW t
    PROVE  LET m == Least(Matches(list, k))
           IN  Pick(list, k, t) = IF Matches(list, k) = {} \/ Expired(list[m], t)
                                  THEN NoValue ELSE list[m].value
<1> DEFINE m == Least(Matches(list, k))
           found == Matches(list, k) \intersect Live(list, t)
<1>1. CASE Matches(list, k) = {}
  BY <1>1 DEF Pick
<1>2. CASE Matches(list, k) # {}
  <2>1. m \in DOMAIN list /\ list[m].key = k
        /\ \A i \in DOMAIN list : list[i].key = k => i = m
    BY <1>2, LeastMatch
  <2>2. Matches(list, k) = {m}
    BY <2>1 DEF Matches
  <2>3. CASE Expired(list[m], t)
    <3>1. found = {}
      BY <2>2, <2>3 DEF Live
    <3>2. QED
      BY <2>3, <3>1 DEF Pick
  <2>4. CASE ~Expired(list[m], t)
    <3>1. found = Matches(list, k)
      BY <2>1, <2>2, <2>4 DEF Live
    <3>2. QED
      BY <1>2, <2>4, <3>1 DEF Pick
  <2>5. QED
    BY <2>3, <2>4
<1>3. QED
  BY <1>1, <1>2

-----------------------------------------------------------------------------
(* The inductive invariant: a hook call is safe only because the list it   *)
(* copied had one entry per key, too.                                      *)

CopiesUnique == \A r \in Reader : hook[r].on => UniqueKeys(hook[r].list)

RegistryInv == TypeOK /\ OneEntryPerKey /\ CopiesUnique

LEMMA EmptyListUnique == UniqueKeys(<<>>)
BY DEF UniqueKeys

LEMMA RegistryInit == Init => RegistryInv
<1> SUFFICES ASSUME Init PROVE RegistryInv
  OBVIOUS
<1>1. TypeOK
  BY RegistryAssumption DEF Init, TypeOK
<1>2. OneEntryPerKey
  BY EmptyListUnique DEF Init, OneEntryPerKey
<1>3. CopiesUnique
  BY DEF Init, CopiesUnique, Idle
<1>4. QED
  BY <1>1, <1>2, <1>3 DEF RegistryInv

LEMMA RegistryStep == RegistryInv /\ [Next]_vars => RegistryInv'
<1> SUFFICES ASSUME RegistryInv, [Next]_vars PROVE RegistryInv'
  OBVIOUS
<1> USE DEF RegistryInv
<1>1. ASSUME NEW ref \in Ref, NEW o \in MetricOverride, SetMetric(ref, o)
      PROVE  RegistryInv'
  <2> DEFINE e == morKey(ref)
  <2>1. e \in Entity
    BY DEF morKey, Ref
  <2>2. /\ Upsert(metrics[e], o) \in Seq(MetricOverride)
        /\ UniqueKeys(Upsert(metrics[e], o))
    BY <2>1, UpsertKeeps DEF TypeOK, OneEntryPerKey
  <2>3. TypeOK'
    BY <1>1, <2>1, <2>2 DEF SetMetric, TypeOK
  <2>4. OneEntryPerKey'
    BY <1>1, <2>1, <2>2 DEF SetMetric, TypeOK, OneEntryPerKey
  <2>5. CopiesUnique'
    BY <1>1 DEF SetMetric, CopiesUnique
  <2>6. QED
    BY <2>3, <2>4, <2>5
<1>2. ASSUME NEW ref \in Ref, NEW o \in PropertyOverride, SetProperty(ref, o)
      PROVE  RegistryInv'
  <2> DEFINE e == morKey(ref)
  <2>1. e \in Entity
    BY DEF morKey, Ref
  <2>2. /\ Upsert(properties[e], o) \in Seq(PropertyOverride)
        /\ UniqueKeys(Upsert(properties[e], o))
    BY <2>1, UpsertKeeps DEF TypeOK, OneEntryPerKey
  <2>3. TypeOK'
    BY <1>2, <2>1, <2>2 DEF SetProperty, TypeOK
  <2>4. OneEntryPerKey'
    BY <1>2, <2>1, <2>2 DEF SetProperty, TypeOK, OneEntryPerKey
  <2>5. CopiesUnique'
    BY <1>2 DEF SetProperty, CopiesUnique
  <2>6. QED
    BY <2>3, <2>4, <2>5
<1>3. ASSUME NEW ref \in Ref, ClearMetrics(ref) PROVE RegistryInv'
  <2>1. TypeOK'
    <3>1. <<>> \in Seq(MetricOverride)
      OBVIOUS
    <3>2. metrics' \in [Entity -> Seq(MetricOverride)]
      BY <1>3, <3>1 DEF ClearMetrics, TypeOK
    <3>3. QED
      BY <1>3, <3>2 DEF ClearMetrics, TypeOK
  <2>2. OneEntryPerKey'
    BY <1>3, EmptyListUnique DEF ClearMetrics, TypeOK, OneEntryPerKey
  <2>3. CopiesUnique'
    BY <1>3 DEF ClearMetrics, CopiesUnique
  <2>4. QED
    BY <2>1, <2>2, <2>3
<1>4. ASSUME NEW ref \in Ref, ClearProperties(ref) PROVE RegistryInv'
  <2>1. TypeOK'
    <3>1. <<>> \in Seq(PropertyOverride)
      OBVIOUS
    <3>2. properties' \in [Entity -> Seq(PropertyOverride)]
      BY <1>4, <3>1 DEF ClearProperties, TypeOK
    <3>3. QED
      BY <1>4, <3>2 DEF ClearProperties, TypeOK
  <2>2. OneEntryPerKey'
    BY <1>4, EmptyListUnique DEF ClearProperties, TypeOK, OneEntryPerKey
  <2>3. CopiesUnique'
    BY <1>4 DEF ClearProperties, CopiesUnique
  <2>4. QED
    BY <2>1, <2>2, <2>3
<1>5. CASE ClearAllMetrics
  BY <1>5, EmptyListUnique DEF ClearAllMetrics, TypeOK, OneEntryPerKey, CopiesUnique
<1>6. CASE ClearAll
  BY <1>6, EmptyListUnique DEF ClearAll, TypeOK, OneEntryPerKey, CopiesUnique
<1>7. ASSUME NEW r \in Reader, NEW ref \in Ref, NEW k \in MetricKey, GetMetrics(r, ref, k)
      PROVE  RegistryInv'
  <2> DEFINE h == [on |-> TRUE, entity |-> morKey(ref), key |-> k, list |-> metrics[morKey(ref)],
                   at |-> now]
  <2>1. h \in HookCall /\ UniqueKeys(h.list)
    BY DEF morKey, Ref, TypeOK, OneEntryPerKey, HookCall
  <2>2. hook' = [hook EXCEPT ![r] = h] /\ UNCHANGED <<metrics, properties, now, reply>>
    BY <1>7 DEF GetMetrics
  <2> HIDE DEF h
  <2>3. TypeOK'
    BY <2>1, <2>2 DEF TypeOK
  <2>4. OneEntryPerKey'
    BY <2>2 DEF OneEntryPerKey
  <2>5. CopiesUnique'
    BY <2>1, <2>2 DEF CopiesUnique, TypeOK
  <2>6. QED
    BY <2>3, <2>4, <2>5
<1>8. ASSUME NEW r \in Reader, MetricOverrideFunc(r) PROVE RegistryInv'
  <2> DEFINE v == Reply(hook[r])
  <2>1. hook[r] \in HookCall /\ UniqueKeys(hook[r].list)
    BY <1>8 DEF MetricOverrideFunc, TypeOK, CopiesUnique, Idle
  <2>2. v \in HookReply
    <3>1. hook[r].list \in Seq(MetricOverride)
      BY <2>1 DEF HookCall
    <3>2. \A o \in MetricOverride : o.value \in Value
      BY DEF MetricOverride
    <3>3. Pick(hook[r].list, hook[r].key, hook[r].at) \in Value \union {NoValue}
      BY <2>1, <3>1, <3>2, PickType
    <3>4. QED
      BY <2>1, <3>3 DEF Reply, HookReply, HookCall
  <2>3. /\ reply' = [reply EXCEPT ![r] = v]
        /\ hook' = [hook EXCEPT ![r] = Idle]
        /\ UNCHANGED <<metrics, properties, now>>
    BY <1>8 DEF MetricOverrideFunc
  <2> HIDE DEF v
  <2>4. TypeOK'
    BY <2>2, <2>3 DEF TypeOK
  <2>5. OneEntryPerKey'
    BY <2>3 DEF OneEntryPerKey
  <2>6. CopiesUnique'
    BY <2>3 DEF CopiesUnique, TypeOK, Idle
  <2>7. QED
    BY <2>4, <2>5, <2>6
<1>9. CASE Tick
  BY <1>9 DEF Tick, TypeOK, OneEntryPerKey, CopiesUnique
<1>10. CASE UNCHANGED vars
  BY <1>10 DEF vars, TypeOK, OneEntryPerKey, CopiesUnique
<1>11. ASSUME NEW r \in Reader, Forget(r) PROVE RegistryInv'
  BY <1>11 DEF Forget, TypeOK, OneEntryPerKey, CopiesUnique
<1>12. QED
  BY <1>1, <1>2, <1>3, <1>4, <1>5, <1>6, <1>7, <1>8, <1>9, <1>10, <1>11 DEF Next

\* The registry's lists, the copies its readers hold and their answers keep
\* their types, whatever the callers do.
THEOREM RegistryTypeOK == Spec => []TypeOK
<1>1. RegistryInv => TypeOK
  BY DEF RegistryInv
<1>2. QED
  BY <1>1, RegistryInit, RegistryStep, PTL DEF Spec

\* SetMetric and SetProperty never leave two entries for one key.
THEOREM RegistryOneEntryPerKey == Spec => []OneEntryPerKey
<1>1. RegistryInv => OneEntryPerKey
  BY DEF RegistryInv
<1>2. QED
  BY <1>1, RegistryInit, RegistryStep, PTL DEF Spec

\* GetProperty and GetProperties never disagree about a property.
THEOREM RegistryPropertyReadsAgree == Spec => []PropertyReadsAgree
<1>1. RegistryInv => PropertyReadsAgree
  <2> SUFFICES ASSUME RegistryInv, NEW ref \in Ref, NEW p \in Property
               PROVE  GetProperty(ref, p) = GetProperties(ref, p)
    BY DEF PropertyReadsAgree
  <2>1. /\ properties[morKey(ref)] \in Seq(PropertyOverride)
        /\ UniqueKeys(properties[morKey(ref)])
    BY DEF RegistryInv, TypeOK, OneEntryPerKey, morKey, Ref
  <2>2. QED
    BY <2>1, PickIsFirst DEF GetProperty, GetProperties
<1>2. QED
  BY <1>1, RegistryInit, RegistryStep, PTL DEF Spec

-----------------------------------------------------------------------------
(* Refinement: the lists as maps.                                          *)

LEMMA AsMapEmpty == AsMap(<<>>) = Store!EmptyMap
BY DEF AsMap, Store!EmptyMap

LEMMA AsMapDomain ==
    ASSUME NEW list, NEW k
    PROVE  k \in DOMAIN AsMap(list) <=> Matches(list, k) # {}
BY DEF AsMap, Matches

\* Replacing or appending an entry is an update of the map.
LEMMA AsMapUpsert ==
    ASSUME NEW T, NEW list \in Seq(T), UniqueKeys(list), NEW o \in T
    PROVE  AsMap(Upsert(list, o)) =
             Store!Put(AsMap(list), o.key, [value |-> o.value, expires |-> o.expires])
<1> DEFINE new == Upsert(list, o)
           at(l, k) == l[Least(Matches(l, k))]
           v == [value |-> o.value, expires |-> o.expires]
<1>1. new \in Seq(T) /\ UniqueKeys(new)
  BY UpsertKeeps
<1>2. PICK n \in DOMAIN new :
          /\ new[n] = o
          /\ \A i : i \in DOMAIN new /\ i # n <=> i \in DOMAIN list /\ list[i].key # o.key
          /\ \A i \in DOMAIN new : i # n => new[i] = list[i]
  <2>1. CASE Matches(list, o.key) = {}
    <3>1. new = Append(list, o) /\ \A i \in DOMAIN list : list[i].key # o.key
      BY <2>1 DEF Upsert, Matches
    <3> HIDE DEF new
    <3>2. Len(list) + 1 \in DOMAIN new
      BY <3>1
    <3>3. QED
      BY <3>1, <3>2
  <2>2. CASE Matches(list, o.key) # {}
    <3> DEFINE m == Least(Matches(list, o.key))
    <3>1. /\ m \in DOMAIN list /\ list[m].key = o.key
          /\ \A i \in DOMAIN list : list[i].key = o.key => i = m
      BY <2>2, LeastMatch
    <3>2. new = [list EXCEPT ![m] = o]
      BY <2>2 DEF Upsert
    <3> HIDE DEF m, new
    <3>3. m \in DOMAIN new
      BY <3>1, <3>2
    <3>4. QED
      BY <3>1, <3>2, <3>3
  <2>3. QED
    BY <2>1, <2>2
<1> HIDE DEF new
<1>3. at(new, o.key) = o /\ Matches(new, o.key) # {}
  <2>1. n \in Matches(new, o.key)
    BY <1>2 DEF Matches
  <2>2. Least(Matches(new, o.key)) = n
    BY <1>1, <2>1, LeastOfMatches
  <2>3. QED
    BY <1>2, <2>1, <2>2
<1>4. ASSUME NEW k, k # o.key
      PROVE  /\ Matches(new, k) = Matches(list, k)
             /\ Matches(list, k) # {} => at(new, k) = at(list, k)
  <2>1. Matches(new, k) = Matches(list, k)
    BY <1>2, <1>4 DEF Matches
  <2>2. ASSUME Matches(list, k) # {} PROVE at(new, k) = at(list, k)
    <3>1. Least(Matches(list, k)) \in DOMAIN list /\ list[Least(Matches(list, k))].key = k
      BY <2>2, LeastMatch
    <3>2. QED
      BY <1>2, <1>4, <2>1, <3>1
  <2>3. QED
    BY <2>1, <2>2
<1>5. DOMAIN AsMap(new) = DOMAIN AsMap(list) \union {o.key}
  <2>1. ASSUME NEW k
        PROVE  k \in DOMAIN AsMap(new) <=> k \in DOMAIN AsMap(list) \/ k = o.key
    <3>1. CASE k = o.key
      BY <1>3, <3>1, AsMapDomain
    <3>2. CASE k # o.key
      <4>1. Matches(new, k) = Matches(list, k)
        BY <1>4, <3>2
      <4>2. QED
        BY <3>2, <4>1, AsMapDomain
    <3>3. QED
      BY <3>1, <3>2
  <2>2. QED
    BY <2>1
<1>6. ASSUME NEW k \in DOMAIN AsMap(new)
      PROVE  AsMap(new)[k] = IF k = o.key THEN v ELSE AsMap(list)[k]
  <2>1. AsMap(new)[k] = [value |-> at(new, k).value, expires |-> at(new, k).expires]
    BY DEF AsMap
  <2>2. CASE k = o.key
    BY <1>3, <2>1, <2>2
  <2>3. CASE k # o.key
    <3>1. k \in DOMAIN AsMap(list) /\ at(new, k) = at(list, k)
      BY <1>4, <1>5, <2>3, AsMapDomain
    <3>2. AsMap(list)[k] = [value |-> at(list, k).value, expires |-> at(list, k).expires]
      BY <3>1 DEF AsMap
    <3>3. QED
      BY <2>1, <2>3, <3>1, <3>2
  <2>4. QED
    BY <2>2, <2>3
<1>7. AsMap(new) = [k \in DOMAIN AsMap(new) |-> AsMap(new)[k]]
  BY DEF AsMap
<1>8. AsMap(new) = [k \in DOMAIN AsMap(list) \union {o.key} |->
                       IF k = o.key THEN v ELSE AsMap(list)[k]]
  BY <1>5, <1>6, <1>7
<1>9. QED
  BY <1>8 DEF Store!Put, new

\* A reader of the map sees what the hook picks from the list.
LEMMA SeenIsPick ==
    ASSUME NEW T, NEW list \in Seq(T), UniqueKeys(list), NEW k, NEW t
    PROVE  Store!Seen(AsMap(list), k, t) = Pick(list, k, t)
<1> DEFINE m == Least(Matches(list, k))
<1>1. CASE Matches(list, k) = {}
  BY <1>1, AsMapDomain, PickIsFirst DEF Store!Seen
<1>2. CASE Matches(list, k) # {}
  <2>1. k \in DOMAIN AsMap(list)
    BY <1>2, AsMapDomain
  <2>2. AsMap(list)[k] = [value |-> list[m].value, expires |-> list[m].expires]
    BY <2>1 DEF AsMap
  <2>3. Store!Expired(AsMap(list)[k], t) <=> Expired(list[m], t)
    BY <2>2 DEF Store!Expired, Expired, Store!Never, Never
  <2>4. QED
    BY <1>2, <2>1, <2>2, <2>3, PickIsFirst DEF Store!Seen
<1>3. QED
  BY <1>1, <1>2

Mapped(lists) == [e \in Entity |-> AsMap(lists[e])]

Answers == [r \in Reader |-> Answer(r)]

LEMMA MappedClear ==
    ASSUME NEW T, NEW lists \in [Entity -> Seq(T)], NEW e \in Entity
    PROVE  Mapped([lists EXCEPT ![e] = <<>>]) = [Mapped(lists) EXCEPT ![e] = Store!EmptyMap]
BY AsMapEmpty DEF Mapped

LEMMA MappedClearAll ==
    Mapped([e \in Entity |-> <<>>]) = [e \in Entity |-> Store!EmptyMap]
BY AsMapEmpty DEF Mapped

LEMMA StoreInitHolds == Init => Store!StoreInit
<1> SUFFICES ASSUME Init PROVE Store!StoreInit
  OBVIOUS
<1>1. Mapped(metrics) = [e \in Entity |-> Store!EmptyMap]
      /\ Mapped(properties) = [e \in Entity |-> Store!EmptyMap]
  BY MappedClearAll DEF Init
<1>2. Answers = [r \in Reader |-> Unasked]
  BY DEF Init, Answers, Answer, Idle
<1>3. QED
  BY <1>1, <1>2 DEF Init, Store!StoreInit, Store!Unasked, Unasked, Mapped, Answers

\* Every step of the registry is a step of the store or changes nothing there:
\* a hook call answers, as far as the store can tell, when it takes its copy.
LEMMA StoreStep == RegistryInv /\ [Next]_vars => [Store!StoreNext]_(Store!storeVars)
<1> SUFFICES ASSUME RegistryInv, [Next]_vars
             PROVE  [Store!StoreNext]_(Store!storeVars)
  OBVIOUS
<1> USE DEF RegistryInv
<1>1. ASSUME NEW ref \in Ref, NEW o \in MetricOverride, SetMetric(ref, o)
      PROVE  Store!StoreNext
  <2> DEFINE e == morKey(ref)
             v == [value |-> o.value, expires |-> o.expires]
  <2>1. e \in Entity /\ o.key \in MetricKey /\ v \in Store!Override
    BY DEF morKey, Ref, MetricOverride, Store!Override
  <2>2. Mapped(metrics)' = [Mapped(metrics) EXCEPT ![e] = Store!Put(Mapped(metrics)[e], o.key, v)]
    <3>1. metrics \in [Entity -> Seq(MetricOverride)] /\ UniqueKeys(metrics[e])
      BY <2>1 DEF TypeOK, OneEntryPerKey
    <3>2. metrics' = [metrics EXCEPT ![e] = Upsert(metrics[e], o)]
      BY <1>1 DEF SetMetric
    <3>3. AsMap(Upsert(metrics[e], o)) = Store!Put(AsMap(metrics[e]), o.key, v)
      BY <2>1, <3>1, AsMapUpsert
    <3> HIDE DEF e, v
    <3>4. QED
      BY <2>1, <3>1, <3>2, <3>3 DEF Mapped
  <2>3. UNCHANGED <<Mapped(properties), now, Answers>>
    BY <1>1 DEF SetMetric, Mapped, Answers, Answer
  <2>4. Store!SetMetric(e, o.key, v)
    BY <2>2, <2>3 DEF Store!SetMetric, Mapped, Answers
  <2>5. QED
    BY <2>1, <2>4 DEF Store!StoreNext
<1>2. ASSUME NEW ref \in Ref, NEW o \in PropertyOverride, SetProperty(ref, o)
      PROVE  Store!StoreNext
  <2> DEFINE e == morKey(ref)
             v == [value |-> o.value, expires |-> o.expires]
  <2>1. e \in Entity /\ o.key \in Property /\ v \in Store!Override
    BY DEF morKey, Ref, PropertyOverride, Store!Override
  <2>2. Mapped(properties)' =
          [Mapped(properties) EXCEPT ![e] = Store!Put(Mapped(properties)[e], o.key, v)]
    <3>1. properties \in [Entity -> Seq(PropertyOverride)] /\ UniqueKeys(properties[e])
      BY <2>1 DEF TypeOK, OneEntryPerKey
    <3>2. properties' = [properties EXCEPT ![e] = Upsert(properties[e], o)]
      BY <1>2 DEF SetProperty
    <3>3. AsMap(Upsert(properties[e], o)) = Store!Put(AsMap(properties[e]), o.key, v)
      BY <2>1, <3>1, AsMapUpsert
    <3> HIDE DEF e, v
    <3>4. QED
      BY <2>1, <3>1, <3>2, <3>3 DEF Mapped
  <2>3. UNCHANGED <<Mapped(metrics), now, Answers>>
    BY <1>2 DEF SetProperty, Mapped, Answers, Answer
  <2>4. Store!SetProperty(e, o.key, v)
    BY <2>2, <2>3 DEF Store!SetProperty, Mapped, Answers
  <2>5. QED
    BY <2>1, <2>4 DEF Store!StoreNext
<1>3. ASSUME NEW ref \in Ref, ClearMetrics(ref) PROVE Store!StoreNext
  <2>1. morKey(ref) \in Entity
    BY DEF morKey, Ref
  <2>2. Mapped(metrics)' = [Mapped(metrics) EXCEPT ![morKey(ref)] = Store!EmptyMap]
    BY <1>3, <2>1, MappedClear DEF ClearMetrics, TypeOK
  <2>3. UNCHANGED <<Mapped(properties), now, Answers>>
    BY <1>3 DEF ClearMetrics, Mapped, Answers, Answer
  <2>4. Store!ClearMetrics(morKey(ref))
    BY <2>2, <2>3 DEF Store!ClearMetrics, Mapped, Answers
  <2>5. QED
    BY <2>1, <2>4 DEF Store!StoreNext
<1>4. ASSUME NEW ref \in Ref, ClearProperties(ref) PROVE Store!StoreNext
  <2>1. morKey(ref) \in Entity
    BY DEF morKey, Ref
  <2>2. Mapped(properties)' = [Mapped(properties) EXCEPT ![morKey(ref)] = Store!EmptyMap]
    BY <1>4, <2>1, MappedClear DEF ClearProperties, TypeOK
  <2>3. UNCHANGED <<Mapped(metrics), now, Answers>>
    BY <1>4 DEF ClearProperties, Mapped, Answers, Answer
  <2>4. Store!ClearProperties(morKey(ref))
    BY <2>2, <2>3 DEF Store!ClearProperties, Mapped, Answers
  <2>5. QED
    BY <2>1, <2>4 DEF Store!StoreNext
<1>5. CASE ClearAllMetrics
  <2>1. Mapped(metrics)' = [e \in Entity |-> Store!EmptyMap]
    BY <1>5, MappedClearAll DEF ClearAllMetrics
  <2>2. UNCHANGED <<Mapped(properties), now, Answers>>
    BY <1>5 DEF ClearAllMetrics, Mapped, Answers, Answer
  <2>3. Store!ClearAllMetrics
    BY <2>1, <2>2 DEF Store!ClearAllMetrics, Mapped, Answers
  <2>4. QED
    BY <2>3 DEF Store!StoreNext
<1>6. CASE ClearAll
  <2>1. Mapped(metrics)' = [e \in Entity |-> Store!EmptyMap]
        /\ Mapped(properties)' = [e \in Entity |-> Store!EmptyMap]
    BY <1>6, MappedClearAll DEF ClearAll
  <2>2. UNCHANGED <<now, Answers>>
    BY <1>6 DEF ClearAll, Answers, Answer
  <2>3. Store!ClearAll
    BY <2>1, <2>2 DEF Store!ClearAll, Mapped, Answers
  <2>4. QED
    BY <2>3 DEF Store!StoreNext
<1>7. ASSUME NEW r \in Reader, NEW ref \in Ref, NEW k \in MetricKey, GetMetrics(r, ref, k)
      PROVE  Store!StoreNext
  <2> DEFINE e == morKey(ref)
             h == [on |-> TRUE, entity |-> e, key |-> k, list |-> metrics[e], at |-> now]
  <2>1. e \in Entity /\ metrics[e] \in Seq(MetricOverride) /\ UniqueKeys(metrics[e])
    BY DEF morKey, Ref, TypeOK, OneEntryPerKey
  <2>2. hook' = [hook EXCEPT ![r] = h] /\ UNCHANGED <<metrics, properties, now, reply>>
    BY <1>7 DEF GetMetrics
  <2>3. Pick(metrics[e], k, now) = Store!Seen(Mapped(metrics)[e], k, now)
    BY <2>1, SeenIsPick DEF Mapped
  <2>4. Answers' = [Answers EXCEPT ![r] =
                      [entity |-> e, key |-> k, value |-> Pick(metrics[e], k, now)]]
    <3>1. Reply(h) = [entity |-> e, key |-> k, value |-> Pick(metrics[e], k, now)] /\ h.on
      BY DEF Reply
    <3>2. DOMAIN hook = Reader
      BY DEF TypeOK
    <3> HIDE DEF h, e
    <3>3. QED
      BY <2>2, <3>1, <3>2 DEF Answers, Answer
  <2>5. UNCHANGED <<Mapped(metrics), Mapped(properties), now>>
    BY <2>2 DEF Mapped
  <2>6. Store!Read(r, e, k)
    BY <2>3, <2>4, <2>5 DEF Store!Read, Mapped, Answers
  <2>7. QED
    BY <2>1, <2>6 DEF Store!StoreNext
<1>8. ASSUME NEW r \in Reader, MetricOverrideFunc(r) PROVE UNCHANGED Store!storeVars
  <2>1. Answers' = Answers
    BY <1>8 DEF MetricOverrideFunc, Answers, Answer, TypeOK, Idle
  <2>2. UNCHANGED <<Mapped(metrics), Mapped(properties), now>>
    BY <1>8 DEF MetricOverrideFunc, Mapped
  <2>3. QED
    BY <2>1, <2>2 DEF Store!storeVars, Mapped, Answers
<1>9. CASE Tick
  <2>1. UNCHANGED <<Mapped(metrics), Mapped(properties), Answers>>
    BY <1>9 DEF Tick, Mapped, Answers, Answer
  <2>2. Store!Tick
    BY <1>9, <2>1 DEF Tick, Store!Tick, Mapped, Answers
  <2>3. QED
    BY <2>2 DEF Store!StoreNext
<1>10. CASE UNCHANGED vars
  <2>1. UNCHANGED <<Mapped(metrics), Mapped(properties), now, Answers>>
    BY <1>10 DEF vars, Mapped, Answers, Answer
  <2>2. UNCHANGED Store!storeVars
    BY <2>1 DEF Store!storeVars, Mapped, Answers
  <2>3. QED
    BY <2>2
<1>11. ASSUME NEW r \in Reader, Forget(r) PROVE Store!StoreNext
  <2>1. reply' = [reply EXCEPT ![r] = Unasked] /\ ~hook[r].on /\ hook' = hook /\ DOMAIN reply = Reader
    BY <1>11 DEF Forget, TypeOK
  <2>2. Answers' = [Answers EXCEPT ![r] = Unasked]
    BY <2>1 DEF Answers, Answer
  <2>3. UNCHANGED <<Mapped(metrics), Mapped(properties), now>>
    BY <1>11 DEF Forget, Mapped
  <2>4. Store!Forget(r)
    BY <2>2, <2>3 DEF Store!Forget, Store!Unasked, Unasked, Mapped, Answers
  <2>5. QED
    BY <2>4 DEF Store!StoreNext
<1>12. QED
  BY <1>1, <1>2, <1>3, <1>4, <1>5, <1>6, <1>7, <1>8, <1>9, <1>10, <1>11 DEF Next

\* The list-based registry and its two-step readers implement atomic maps.
THEOREM RegistryImplementsStore == Spec => ImplementsStore
<1>1. RegistryInv /\ [Next]_vars => [Store!StoreNext]_(Store!storeVars)
  BY StoreStep
<1>2. QED
  BY <1>1, RegistryInit, RegistryStep, StoreInitHolds, PTL
     DEF Spec, ImplementsStore, Store!StoreSpec
=============================================================================
