---------------------- MODULE PerformanceManagerProofs ----------------------
(***************************************************************************)
(* Proofs about QueryPerf, for any clients, queries, overrides, recorded   *)
(* data and sizes of the sample buffer: who holds the lock and how many    *)
(* samples there are, what a series shows while scenarios come and go, and *)
(* which windows can make it panic.                                        *)
(***************************************************************************)
EXTENDS PerformanceManager, OverridesProofs, ListsProofs

-----------------------------------------------------------------------------
(* Arithmetic.                                                             *)

LEMMA Remainder ==
    ASSUME NEW a \in Int, NEW m \in Nat \ {0}
    PROVE  a % m \in 0..(m - 1)
OBVIOUS

LEMMA NatQuotient ==
    ASSUME NEW a \in Nat, NEW b \in Nat \ {0}
    PROVE  a \div b \in Nat
OBVIOUS

LEMMA QuotientType ==
    ASSUME NEW a \in Int, NEW b \in Int \ {0}
    PROVE  Quotient(a, b) \in Int
<1>1. Abs(a) \in Nat /\ Abs(b) \in Nat \ {0}
  BY DEF Abs
<1>2. Abs(a) \div Abs(b) \in Nat
  BY <1>1, NatQuotient
<1>3. QED
  BY <1>2 DEF Quotient

\* Go's division of numbers that are not negative.
LEMMA QuotientNat ==
    ASSUME NEW a \in Nat, NEW b \in Nat \ {0}
    PROVE  Quotient(a, b) \in Nat
BY NatQuotient DEF Quotient, Abs

\* A dividend of less than two divisors below zero gives -1 at the least.
LEMMA QuotientAbove ==
    ASSUME NEW a \in Int, NEW b \in Nat \ {0}, -a < 2 * b
    PROVE  Quotient(a, b) \in Int /\ Quotient(a, b) >= -1
<1>1. CASE a >= 0
  BY <1>1, QuotientNat
<1>2. CASE a < 0
  <2>1. Quotient(a, b) = -((-a) \div b)
    BY <1>2 DEF Quotient, Abs
  <2>2. ASSUME NEW q \in Nat, NEW r \in 0..(b - 1), -a = b * q + r PROVE q <= 1
    <3> SUFFICES ASSUME q >= 2 PROVE FALSE
      OBVIOUS
    <3>1. b * q >= b * 2
      OBVIOUS
    <3>2. QED
      BY <2>2, <3>1
  <2>3. (-a) \div b \in Nat /\ (-a) % b \in 0..(b - 1)
        /\ -a = b * ((-a) \div b) + ((-a) % b)
    BY <1>2
  <2>4. (-a) \div b <= 1
    BY <2>2, <2>3
  <2>5. QED
    BY <2>1, <2>3, <2>4
<1>3. QED
  BY <1>1, <1>2

LEMMA int32Type ==
    ASSUME NEW a \in Int, NEW s \in int32(a)
    PROVE  s \in Int32
BY PerfAssumption DEF int32, Int32

LEMMA WrapType ==
    ASSUME NEW a \in Int
    PROVE  Wrap(a) \in Int /\ (a \in Int32 => Wrap(a) = a)
<1>1. 2 * Int32Half \in Nat \ {0} /\ a + Int32Half \in Int /\ Int32Half \in Nat
  BY PerfAssumption
<1> DEFINE m == 2 * Int32Half
           x == a + Int32Half
<1>2. x % m \in 0..(m - 1)
  BY <1>1, Remainder
<1>3. ASSUME x >= 0, x < m PROVE x % m = x
  BY <1>1, <1>3
<1>4. QED
  BY <1>1, <1>2, <1>3 DEF Wrap, Int32

\* A quotient has a successor in int32 unless it is the greatest divided by 1.
LEMMA QuotientBelow ==
    ASSUME NEW a \in Int, NEW b \in 1..(Int32Half - 1), a < Int32Half,
           b = 1 => a < Int32Half - 1
    PROVE  Quotient(a, b) < Int32Half - 1
<1>1. Int32Half \in Nat /\ Int32Half > 1 /\ b \in Nat \ {0}
  BY PerfAssumption
<1>2. CASE a < 0
  <2>1. Quotient(a, b) = -((-a) \div b) /\ (-a) \div b \in Nat
    BY <1>1, <1>2, NatQuotient DEF Quotient, Abs
  <2>2. QED
    BY <1>1, <2>1
<1>3. CASE a >= 0
  <2> DEFINE q == a \div b
  <2>1. Quotient(a, b) = q
    BY <1>1, <1>3 DEF Quotient, Abs
  <2>2. q \in Nat /\ a % b \in 0..(b - 1) /\ a = b * q + (a % b)
    BY <1>1, <1>3, NatQuotient
  <2>3. CASE b = 1
    BY <1>1, <2>1, <2>2, <2>3
  <2>4. CASE b >= 2
    <3> HIDE DEF q
    <3>1. b * q >= 2 * q
      BY <1>1, <2>2, <2>4
    <3>2. 2 * q <= a
      BY <1>1, <2>2, <3>1
    <3>3. QED
      BY <1>1, <2>1, <2>2, <3>2
  <2>5. QED
    BY <1>1, <2>3, <2>4
<1>4. QED
  BY <1>2, <1>3

-----------------------------------------------------------------------------
(* The window of a query.                                                  *)

LEMMA IntervalType ==
    ASSUME NEW qs \in QuerySpec
    PROVE  /\ Interval(qs) \in Int32 \ {0}
           /\ qs.interval >= -1 => Interval(qs) \in 1..(Int32Half - 1)
<1>1. Int32Half \in Nat \ {0} /\ Realtime \in 1..(Int32Half - 1) /\ Historic \in 1..(Int32Half - 1)
  BY PerfAssumption
<1>2. qs.interval \in Int32
  BY DEF QuerySpec
<1>3. QED
  BY <1>1, <1>2 DEF Interval, Int32

LEMMA WindowType ==
    ASSUME NEW qs \in QuerySpec, NEW t \in Nat
    PROVE  Start(qs, t) \in Int /\ End(qs, t) \in Int
<1>1. qs.start \in Int \union {NoTime} /\ qs.end \in Int \union {NoTime}
  BY DEF QuerySpec
<1>2. QED
  BY <1>1, PerfAssumption DEF Start, End

LEMMA SampleCountType ==
    ASSUME NEW qs \in QuerySpec, NEW t \in Nat, NEW n \in SampleCount(qs, t)
    PROVE  n \in Int /\ n <= SampleCap
<1>1. PICK s \in int32(End(qs, t) - Start(qs, t)) :
         n = Capped(qs, Wrap(1 + Quotient(s, Interval(qs))))
  BY DEF SampleCount
<1>2. s \in Int
  BY WindowType, int32Type, PerfAssumption DEF Int32
<1>3. Interval(qs) \in Int \ {0}
  BY IntervalType, PerfAssumption DEF Int32
<1>4. Wrap(1 + Quotient(s, Interval(qs))) \in Int
  BY <1>2, <1>3, QuotientType, WrapType
<1>5. qs.max \in Int /\ SampleCap \in Nat
  BY PerfAssumption DEF QuerySpec, Int32
<1>6. QED
  BY <1>1, <1>4, <1>5 DEF Capped, AtMost

\* A window that is not odd gives no count of samples that is negative ...
LEMMA OddCount ==
    ASSUME NEW qs \in QuerySpec, NEW t \in 0..MaxTime,
           NEW n \in SampleCount(qs, t), n < 0
    PROVE  OddWindow(qs)
<1> SUFFICES ASSUME ~OddWindow(qs) PROVE FALSE
  OBVIOUS
<1>1. t \in Nat /\ qs.interval \in Int /\ qs.max \in Int /\ SampleCap \in Nat
  BY RegistryAssumption, PerfAssumption DEF QuerySpec, Int32
<1> DEFINE d == End(qs, t) - Start(qs, t)
           iv == Interval(qs)
<1>2. Start(qs, t) \in Int /\ End(qs, t) \in Int
  BY <1>1, WindowType
<1>3. /\ ~(qs.interval < -1) /\ ~(d >= Int32Half) /\ ~(iv = 1 /\ d = Int32Half - 1)
      /\ ~(Start(qs, t) >= End(qs, t) + 2 * iv)
  BY DEF OddWindow
<1>4. iv \in 1..(Int32Half - 1) /\ Int32Half \in Nat
  BY <1>1, <1>3, IntervalType, PerfAssumption
<1>5. d \in Int /\ d < Int32Half /\ -d < 2 * iv /\ (iv = 1 => d < Int32Half - 1)
  BY <1>2, <1>3, <1>4
<1>6. PICK s \in int32(d) : n = Capped(qs, Wrap(1 + Quotient(s, iv)))
  BY DEF SampleCount
<1> HIDE DEF d, iv
<1>7. s \in Int /\ s < Int32Half /\ -s < 2 * iv /\ (iv = 1 => s < Int32Half - 1)
  <2>1. CASE d \in Int32
    BY <1>5, <1>6, <2>1 DEF int32
  <2>2. CASE d \notin Int32
    <3>1. d < -Int32Half
      BY <1>4, <1>5, <2>2 DEF Int32
    <3>2. s = -Int32Half
      BY <1>4, <1>5, <1>6, <2>2, <3>1 DEF int32
    <3>3. QED
      BY <1>4, <1>5, <3>1, <3>2
  <2>3. QED
    BY <2>1, <2>2
<1>8. /\ Quotient(s, iv) \in Int /\ Quotient(s, iv) >= -1
      /\ Quotient(s, iv) < Int32Half - 1
  BY <1>4, <1>7, QuotientAbove, QuotientBelow
<1>9. Wrap(1 + Quotient(s, iv)) \in Nat
  BY <1>4, <1>8, WrapType DEF Int32
<1>10. QED
  BY <1>1, <1>6, <1>9 DEF Capped, AtMost

\* ... and no index below zero.
LEMMA OddIndex ==
    ASSUME NEW qs \in QuerySpec, NEW t \in 0..MaxTime, NEW k, NEW n \in Nat,
           IndexPanics(qs, k, n, t)
    PROVE  OddWindow(qs)
<1> SUFFICES ASSUME ~OddWindow(qs) PROVE FALSE
  OBVIOUS
<1>1. t \in Nat /\ qs.interval \in Int
  BY RegistryAssumption, PerfAssumption DEF QuerySpec, Int32
<1>2. Start(qs, t) \in Int
  BY <1>1, WindowType
<1>3. ~(qs.interval < -1) /\ ~(Start(qs, t) < 0)
  BY DEF OddWindow
<1>4. Interval(qs) \in Nat \ {0} /\ Start(qs, t) \in Nat
  BY <1>1, <1>2, <1>3, IntervalType, PerfAssumption
<1>5. FirstPoint(qs, t) \in Nat
  BY <1>4, QuotientNat DEF FirstPoint
<1>6. PICK i \in 1..n : FirstPoint(qs, t) + i - 1 < 0
  BY DEF IndexPanics
<1>7. QED
  BY <1>5, <1>6

-----------------------------------------------------------------------------
(* The metrics of a query.                                                 *)

LEMMA ExpandedType ==
    ASSUME NEW qs \in QuerySpec, TypeOf[qs.entity] \in DOMAIN SampleData
    PROVE  expandedMetrics(qs) \in Seq(MetricId)
<1>1. qs.entity \in DOMAIN TypeOf /\ qs.ids \in Seq(MetricId)
  BY DEF QuerySpec
<1>2. qs.entity \in DOMAIN Available
  BY <1>1, PerfAssumption
<1>3. queryAvailablePerfMetric(qs) \in Seq(MetricId)
  BY <1>2, PerfAssumption DEF queryAvailablePerfMetric
<1>4. ASSUME NEW counter \in Int PROVE Instances(qs, counter) \in Seq(MetricId)
  <2> DEFINE found == Filter(queryAvailablePerfMetric(qs), {counter} \X InstanceName)
  <2>1. found \in Seq(MetricId \intersect ({counter} \X InstanceName))
    BY <1>3, FilterType
  <2> HIDE DEF found
  <2>2. found \in Seq(MetricId)
    BY <2>1
  <2>3. <<counter, "">> \in MetricId
    <3>1. "" \in InstanceName
      BY DEF InstanceName
    <3>2. QED
      BY <3>1, Zenon DEF MetricId
  <2>4. <<<<counter, "">>>> \in Seq(MetricId)
    <3> DEFINE k == <<counter, "">>
    <3> HIDE DEF k
    <3>1. k \in MetricId
      BY <2>3 DEF k
    <3>2. <<k>> \in Seq(MetricId)
      BY <3>1
    <3>3. QED
      BY <3>2 DEF k
  <2>5. Instances(qs, counter) = IF found = <<>> THEN <<<<counter, "">>>> ELSE found
    BY DEF Instances, found
  <2>6. QED
    BY <2>2, <2>4, <2>5, Zenon
<1> DEFINE part == [i \in DOMAIN qs.ids |->
              IF qs.ids[i][2] = Star THEN Instances(qs, qs.ids[i][1]) ELSE <<qs.ids[i]>>]
<1>5. part \in Seq(Seq(MetricId))
  <2>1. ASSUME NEW i \in DOMAIN qs.ids PROVE part[i] \in Seq(MetricId)
    <3>1. qs.ids[i] \in MetricId
      BY <1>1
    <3>2. qs.ids[i][1] \in Int
      BY <3>1 DEF MetricId
    <3>3. Instances(qs, qs.ids[i][1]) \in Seq(MetricId)
      BY <1>4, <3>2
    <3>4. <<qs.ids[i]>> \in Seq(MetricId)
      BY <3>1
    <3>5. QED
      BY <3>3, <3>4
  <2>2. DOMAIN part = 1..Len(qs.ids) /\ Len(qs.ids) \in Nat /\ part = [i \in 1..Len(qs.ids) |-> part[i]]
    BY <1>1
  <2> HIDE DEF part
  <2>3. part \in [1..Len(qs.ids) -> Seq(MetricId)]
    BY <1>1, <2>1, <2>2
  <2>4. QED
    BY <2>2, <2>3
<1>6. QED
  <2> HIDE DEF part
  <2>1. FlattenSeq(part) \in Seq(MetricId)
    BY <1>5, FlattenType
  <2>2. QED
    BY <2>1 DEF expandedMetrics, part

-----------------------------------------------------------------------------
(* Lists of series.                                                        *)

Listed(s) == s \in Seq(Range(s))

LEMMA ListedAppend ==
    ASSUME NEW s, Listed(s), NEW x
    PROVE  /\ Listed(Append(s, x))
           /\ \A i \in DOMAIN Append(s, x) :
                \/ i \in DOMAIN s /\ Append(s, x)[i] = s[i]
                \/ Append(s, x)[i] = x
<1> DEFINE T == Range(s) \union {x}
           r == Append(s, x)
<1>1. s \in Seq(T) /\ x \in T
  BY DEF Listed
<1> HIDE DEF T
<1>2. r \in Seq(T) /\ DOMAIN r = 1..Len(r)
  BY <1>1
<1>3. \A i \in DOMAIN r : (i \in DOMAIN s /\ r[i] = s[i]) \/ r[i] = x
  BY <1>1
<1> HIDE DEF r
<1>4. \A i \in 1..Len(r) : r[i] \in Range(r)
  BY <1>2 DEF Range
<1>5. Listed(r)
  BY <1>2, <1>4 DEF Listed
<1>6. QED
  BY <1>3, <1>5 DEF r

LEMMA ListedEmpty == Listed(<<>>)
BY DEF Listed

\* What the reader of a list with one entry per key finds is what is in force.
LEMMA PickInForce ==
    ASSUME NEW list \in Seq(MetricOverride), UniqueKeys(list), NEW k, NEW t \in Nat
    PROVE  Pick(list, k, t) = InForce(list, k, t)
<1> DEFINE m == Least(Matches(list, k))
<1>1. CASE Matches(list, k) = {}
  <2>1. Pick(list, k, t) = NoValue
    BY <1>1, PickIsFirst
  <2>2. InForce(list, k, t) = NoValue
    BY <1>1 DEF InForce, Matches
  <2>3. QED
    BY <2>1, <2>2
<1>2. CASE Matches(list, k) # {}
  <2>1. m \in DOMAIN list /\ list[m].key = k
        /\ \A i \in DOMAIN list : list[i].key = k => i = m
    BY <1>2, LeastMatch
  <2>2. Pick(list, k, t) = IF Expired(list[m], t) THEN NoValue ELSE list[m].value
    BY <1>2, PickIsFirst
  <2> HIDE DEF m
  <2>3. list[m].expires \in Nat
    <3>1. list[m] \in MetricOverride
      BY <2>1
    <3>2. list[m].expires \in Expiry
      BY <3>1 DEF MetricOverride
    <3>3. QED
      BY <3>2, RegistryAssumption
  <2>4. (\E i \in DOMAIN list : list[i].key = k /\ (list[i].expires = Never \/ t <= list[i].expires))
        <=> ~Expired(list[m], t)
    BY <2>1, <2>3 DEF Expired, Never
  <2>5. (CHOOSE o \in Range(list) : o.key = k) = list[m]
    <3>1. list[m] \in Range(list)
      BY <2>1 DEF Range
    <3>2. \A o \in Range(list) : o.key = k => o = list[m]
      BY <2>1 DEF Range
    <3>3. QED
      BY <2>1, <3>1, <3>2
  <2>6. QED
    BY <2>2, <2>4, <2>5 DEF InForce
<1>3. QED
  BY <1>1, <1>2

-----------------------------------------------------------------------------
(* The inductive invariant.                                                *)

Busy == {"series", "hook", "points"}

\* The registry: the hook finds one entry per key at most.
RegistryOK ==
    /\ metrics \in [Entity -> Seq(MetricOverride)]
    /\ \A e \in Entity : UniqueKeys(metrics[e])
    /\ now \in 0..MaxTime
    /\ DOMAIN hook = Reader /\ DOMAIN reply = Reader

LockOK ==
    /\ \A c \in Reader : query[c].pc \notin {"idle", "waiting"} <=> lock = HeldBy(c)
    /\ lock.state = "leaked" => OddWindow(lock.by)

\* A query that waits, one between two specifications, and one in the middle
\* of a specification.
Waits(q) == q.pc \in {"idle", "waiting"}

Between(q) == q.pc = "spec" /\ q.specs \in Seq(QuerySpec)

Amid(q) ==
    /\ DOMAIN q = {"pc", "specs", "todo", "n", "at", "series"}
    /\ q.pc \in Busy
    /\ q.specs \in Seq(QuerySpec) /\ q.specs # <<>>
    /\ TypeOf[Head(q.specs).entity] \in DOMAIN SampleData
    /\ q.todo \in Seq(MetricId)
    /\ q.pc # "series" => q.todo # <<>>
    /\ q.n \in 0..SampleCap /\ q.at \in 0..MaxTime
    /\ Listed(q.series)
    /\ \A i \in DOMAIN q.series : Len(q.series[i].samples) = q.n

QueryOK ==
    /\ DOMAIN query = Reader /\ DOMAIN shown = Reader
    /\ \A c \in Reader : Waits(query[c]) \/ Between(query[c]) \/ Amid(query[c])

\* What is in force now of the metrics of the query has been shown, ...
NowShown(c) ==
    \A k \in Range(expandedMetrics(Qs(c))) :
        <<k, InForce(metrics[Qs(c).entity], k, now)>> \in shown[c]

\* ... and so has what the hook is about to return, or has returned, ...
HookShown(c) ==
    /\ query[c].pc = "hook" =>
         <<Metric(c), Pick(hook[c].list, hook[c].key, hook[c].at)>> \in shown[c]
    /\ query[c].pc = "points" => <<Metric(c), reply[c].value>> \in shown[c]

\* ... for metrics that belong to the query, and what the series show.
TodoOK(c) == \A i \in 1..Len(query[c].todo) : query[c].todo[i] \in Range(expandedMetrics(Qs(c)))

Shows(c, i) ==
    \E pair \in shown[c] :
        /\ pair[1] = query[c].series[i].key
        /\ query[c].series[i].samples = Expected(c, pair[1], pair[2])

SeriesShown(c) == \A i \in DOMAIN query[c].series : Shows(c, i)

ShownOK ==
    \A c \in Reader : query[c].pc \in Busy =>
        NowShown(c) /\ HookShown(c) /\ TodoOK(c) /\ SeriesShown(c)

PerfInv == RegistryOK /\ LockOK /\ QueryOK /\ ShownOK

LEMMA PerfInitHolds == PerfInit => PerfInv
<1> SUFFICES ASSUME PerfInit PROVE PerfInv
  OBVIOUS
<1>1. RegistryOK
  <2>1. metrics \in [Entity -> Seq(MetricOverride)] /\ \A e \in Entity : UniqueKeys(metrics[e])
    BY EmptyListUnique DEF PerfInit, Init
  <2>2. now \in 0..MaxTime
    BY RegistryAssumption, PerfAssumption DEF PerfInit, Init
  <2>3. QED
    BY <2>1, <2>2 DEF PerfInit, Init, RegistryOK
<1>2. LockOK
  BY DEF PerfInit, LockOK, NoQuery, Free, HeldBy
<1>3. QueryOK
  BY DEF PerfInit, QueryOK, NoQuery, Waits
<1>4. ShownOK
  BY DEF PerfInit, ShownOK, NoQuery, Busy
<1>5. QED
  BY <1>1, <1>2, <1>3, <1>4 DEF PerfInv

\* The lock has one holder.
LEMMA OneHolder ==
    ASSUME PerfInv, NEW c \in Reader, ~Waits(query[c])
    PROVE  lock = HeldBy(c) /\ \A d \in Reader : d # c => Waits(query[d])
<1>1. lock = HeldBy(c)
  BY DEF PerfInv, LockOK, Waits
<1>2. ASSUME NEW d \in Reader, d # c PROVE lock # HeldBy(d)
  <2>1. HeldBy(c).by = c /\ HeldBy(d).by = d
    BY DEF HeldBy
  <2>2. QED
    BY <1>1, <1>2, <2>1
<1>3. QED
  BY <1>1, <1>2 DEF PerfInv, LockOK, Waits

\* A step of one client keeps the invariant if it keeps what the invariant says
\* of that client: the others see nothing of it.
LEMMA StepOfOne ==
    ASSUME PerfInv, NEW c \in Reader, UNCHANGED <<metrics, now>>,
           DOMAIN query' = Reader /\ DOMAIN shown' = Reader,
           DOMAIN hook' = Reader /\ DOMAIN reply' = Reader,
           \A d \in Reader : d # c =>
               /\ query'[d] = query[d] /\ shown'[d] = shown[d]
               /\ hook'[d] = hook[d] /\ reply'[d] = reply[d],
           Waits(query'[c]) \/ Between(query'[c]) \/ Amid(query'[c]),
           query'[c].pc \in Busy =>
               NowShown(c)' /\ HookShown(c)' /\ TodoOK(c)' /\ SeriesShown(c)',
           LockOK'
    PROVE  PerfInv'
<1>1. RegistryOK'
  BY DEF PerfInv, RegistryOK
<1>2. QueryOK'
  BY DEF PerfInv, QueryOK
<1>3. ASSUME NEW d \in Reader, query'[d].pc \in Busy
      PROVE  NowShown(d)' /\ HookShown(d)' /\ TodoOK(d)' /\ SeriesShown(d)'
  <2>1. CASE d = c
    BY <1>3, <2>1
  <2>2. CASE d # c
    <3>1. query'[d] = query[d] /\ shown'[d] = shown[d] /\ hook'[d] = hook[d] /\ reply'[d] = reply[d]
      BY <2>2
    <3>2. NowShown(d) /\ HookShown(d) /\ TodoOK(d) /\ SeriesShown(d)
      BY <1>3, <3>1 DEF PerfInv, ShownOK
    <3>3. Qs(d)' = Qs(d) /\ Metric(d)' = Metric(d)
      BY <3>1 DEF Qs, Metric
    <3>4. NowShown(d)'
      BY <3>1, <3>2, <3>3 DEF NowShown
    <3>5. HookShown(d)'
      BY <3>1, <3>2, <3>3 DEF HookShown
    <3>6. TodoOK(d)'
      BY <3>1, <3>2, <3>3 DEF TodoOK
    <3>7. SeriesShown(d)'
      BY <3>1, <3>2, <3>3 DEF SeriesShown, Shows, Expected
    <3>8. QED
      BY <3>4, <3>5, <3>6, <3>7
  <2>3. QED
    BY <2>1, <2>2
<1>4. ShownOK'
  BY <1>3 DEF ShownOK
<1>5. QED
  BY <1>1, <1>2, <1>4 DEF PerfInv

\* Asking, and taking the lock.
LEMMA AskStep ==
    ASSUME PerfInv, NEW c \in Reader, Ask(c) \/ QueryPerf(c)
    PROVE  PerfInv'
<1>1. UNCHANGED <<metrics, now, hook, reply, shown>>
  BY DEF Ask, QueryPerf, vars
<1>2. DOMAIN query = Reader /\ DOMAIN shown = Reader /\ DOMAIN hook = Reader /\ DOMAIN reply = Reader
  BY DEF PerfInv, QueryOK, RegistryOK
<1>3. CASE Ask(c)
  <2>1. query' = [query EXCEPT ![c] = [pc |-> "waiting"]] /\ lock' = lock /\ query[c].pc = "idle"
    BY <1>3 DEF Ask
  <2>2. query'[c].pc = "waiting" /\ \A d \in Reader : d # c => query'[d] = query[d]
    BY <1>2, <2>1
  <2>3. LockOK'
    BY <2>1, <2>2 DEF PerfInv, LockOK, OddWindow, Start, End, Interval
  <2>4. Waits(query'[c]) /\ query'[c].pc \notin Busy /\ DOMAIN query' = Reader
    BY <1>2, <2>1, <2>2 DEF Waits, Busy
  <2>5. QED
    BY <1>1, <1>2, <2>2, <2>3, <2>4, StepOfOne
<1>4. CASE QueryPerf(c)
  <2>1. PICK specs \in Query : query' = [query EXCEPT ![c] = [pc |-> "spec", specs |-> specs]]
    BY <1>4 DEF QueryPerf
  <2>2. lock' = HeldBy(c) /\ lock = Free
    BY <1>4 DEF QueryPerf
  <2>3. query'[c] = [pc |-> "spec", specs |-> specs] /\ \A d \in Reader : d # c => query'[d] = query[d]
    BY <1>2, <2>1
  <2>4. specs \in Seq(QuerySpec)
    BY PerfAssumption
  <2>5. Between(query'[c]) /\ query'[c].pc \notin Busy /\ DOMAIN query' = Reader
    BY <1>2, <2>1, <2>3, <2>4 DEF Between, Busy
  <2>6. \A d \in Reader : d # c => lock' # HeldBy(d) /\ query'[d].pc \in {"idle", "waiting"}
    <3> SUFFICES ASSUME NEW d \in Reader, d # c
                 PROVE  lock' # HeldBy(d) /\ query'[d].pc \in {"idle", "waiting"}
      OBVIOUS
    <3>1. HeldBy(c).by = c /\ HeldBy(d).by = d /\ HeldBy(d).state = "held" /\ Free.state = "free"
      BY DEF HeldBy, Free
    <3>2. QED
      BY <2>2, <2>3, <3>1 DEF PerfInv, LockOK
  <2>7. LockOK'
    <3>1. lock'.state = "held"
      BY <2>2 DEF HeldBy
    <3>2. QED
      BY <2>2, <2>3, <2>6, <3>1 DEF LockOK
  <2>8. QED
    BY <1>1, <1>2, <2>3, <2>5, <2>7, StepOfOne
<1>5. QED
  BY <1>3, <1>4

\* A step that keeps the lock and stays past it.
LEMMA LockKept ==
    ASSUME PerfInv, NEW c \in Reader, ~Waits(query[c]), ~Waits(query'[c]), lock' = lock,
           \A d \in Reader : d # c => query'[d] = query[d]
    PROVE  LockOK'
<1>1. lock = HeldBy(c)
  BY OneHolder
<1>2. lock'.state = "held"
  BY <1>1 DEF HeldBy
<1>3. \A d \in Reader : query'[d].pc \notin {"idle", "waiting"} <=> lock' = HeldBy(d)
  BY <1>1 DEF PerfInv, LockOK, Waits
<1>4. QED
  BY <1>2, <1>3 DEF LockOK

\* The steps that give up the lock, or leave it locked for good.
LEMMA UnlockStep ==
    ASSUME PerfInv, NEW c \in Reader, ~Waits(query[c]),
           query' = [query EXCEPT ![c] = NoQuery],
           lock' = Free \/ \E qs : lock' = Leaked(qs) /\ OddWindow(qs),
           UNCHANGED <<metrics, now, hook, shown>>,
           reply' \in {reply, [reply EXCEPT ![c] = Unasked]}
    PROVE  PerfInv'
<1>1. /\ DOMAIN query = Reader /\ DOMAIN shown = Reader /\ DOMAIN hook = Reader
      /\ DOMAIN reply = Reader
  BY DEF PerfInv, QueryOK, RegistryOK
<1>2. DOMAIN reply' = Reader /\ \A d \in Reader : d # c => reply'[d] = reply[d]
  BY <1>1
<1>3. query'[c].pc = "idle" /\ (\A d \in Reader : d # c => query'[d] = query[d]) /\ DOMAIN query' = Reader
  BY <1>1 DEF NoQuery
<1>4. \A d \in Reader : query'[d].pc \in {"idle", "waiting"}
  BY <1>3, OneHolder DEF Waits
<1>5. \A d \in Reader : lock' # HeldBy(d)
  <2>1. lock'.state # "held"
    BY DEF Free, Leaked
  <2>2. QED
    BY <2>1 DEF HeldBy
<1>6. lock'.state = "leaked" => OddWindow(lock'.by)
  BY DEF Free, Leaked
<1>7. (lock.state = "leaked" => OddWindow(lock.by))'
  BY <1>6 DEF OddWindow, Start, End, Interval
<1>8. LockOK'
  BY <1>4, <1>5, <1>7 DEF LockOK
<1>9. Waits(query'[c]) /\ query'[c].pc \notin Busy
  BY <1>3 DEF Waits, Busy
<1>10. QED
  BY <1>1, <1>2, <1>3, <1>8, <1>9, StepOfOne

\* What the invariant says of a query in the middle of a specification.
LEMMA AmidFacts ==
    ASSUME PerfInv, NEW c \in Reader, query[c].pc \in Busy
    PROVE  /\ Amid(query[c]) /\ ~Waits(query[c])
           /\ Qs(c) \in QuerySpec /\ Qs(c).entity \in Entity
           /\ NowShown(c) /\ HookShown(c) /\ TodoOK(c) /\ SeriesShown(c)
<1>1. ~Waits(query[c]) /\ ~Between(query[c])
  BY DEF Waits, Between, Busy
<1>2. Amid(query[c])
  BY <1>1 DEF PerfInv, QueryOK
<1>3. Qs(c) \in QuerySpec
  BY <1>2 DEF Amid, Qs
<1>4. TypeOf[Qs(c).entity] \in DOMAIN SampleData
  BY <1>2 DEF Amid, Qs
<1>5. Qs(c).entity \in DOMAIN TypeOf
  BY <1>3 DEF QuerySpec
<1>6. Qs(c).entity \in Entity
  BY <1>4, <1>5, PerfAssumption
<1>7. QED
  BY <1>1, <1>2, <1>3, <1>6 DEF PerfInv, ShownOK

LEMMA SpecFacts ==
    ASSUME PerfInv, NEW c \in Reader, query[c].pc = "spec"
    PROVE  /\ ~Waits(query[c]) /\ query[c].specs \in Seq(QuerySpec)
           /\ query[c].specs # <<>> => Qs(c) \in QuerySpec
<1>1. ~Waits(query[c]) /\ ~Amid(query[c])
  BY DEF Waits, Amid, Busy
<1>2. Between(query[c])
  BY <1>1 DEF PerfInv, QueryOK
<1>3. QED
  BY <1>1, <1>2 DEF Between, Qs

LEMMA EndOfQuery ==
    ASSUME PerfInv, NEW c \in Reader,
           NegativeCount(c) \/ InvalidArgument(c) \/ NegativeIndex(c) \/ Return(c)
    PROVE  PerfInv'
<1>1. /\ query' = [query EXCEPT ![c] = NoQuery] /\ UNCHANGED <<metrics, now, hook, shown>>
      /\ reply' \in {reply, [reply EXCEPT ![c] = Unasked]}
  BY DEF NegativeCount, InvalidArgument, NegativeIndex, Return, Forget, vars
<1>2. now \in 0..MaxTime
  BY DEF PerfInv, RegistryOK
<1>3. CASE InvalidArgument(c) \/ Return(c)
  <2>1. query[c].pc = "spec" /\ lock' = Free
    BY <1>3 DEF InvalidArgument, Return
  <2>2. QED
    BY <1>1, <2>1, SpecFacts, UnlockStep
<1>4. CASE NegativeCount(c)
  <2>1. query[c].pc = "spec" /\ query[c].specs # <<>> /\ lock' = Leaked(Qs(c))
        /\ \E n \in SampleCount(Qs(c), now) : n < 0
    BY <1>4 DEF NegativeCount
  <2>2. Qs(c) \in QuerySpec /\ ~Waits(query[c])
    BY <2>1, SpecFacts
  <2>3. OddWindow(Qs(c))
    BY <1>2, <2>1, <2>2, OddCount
  <2>4. QED
    BY <1>1, <2>1, <2>2, <2>3, UnlockStep
<1>5. CASE NegativeIndex(c)
  <2>1. query[c].pc = "points" /\ IndexPanics(Qs(c), Metric(c), query[c].n, query[c].at)
        /\ lock' = Leaked(Qs(c))
    BY <1>5 DEF NegativeIndex
  <2>2. query[c].pc \in Busy
    BY <2>1 DEF Busy
  <2>3. Qs(c) \in QuerySpec /\ ~Waits(query[c]) /\ Amid(query[c])
    BY <2>2, AmidFacts
  <2>4. query[c].n \in Nat /\ query[c].at \in 0..MaxTime
    BY <2>3, PerfAssumption DEF Amid
  <2>5. OddWindow(Qs(c))
    BY <2>1, <2>3, <2>4, OddIndex
  <2>6. QED
    BY <1>1, <2>1, <2>3, <2>5, UnlockStep
<1>6. QED
  BY <1>3, <1>4, <1>5

LEMMA StartSpecStep ==
    ASSUME PerfInv, NEW c \in Reader, StartSpec(c)
    PROVE  PerfInv'
<1> DEFINE keys == expandedMetrics(Qs(c))
<1>0. PICK n \in SampleCount(Qs(c), now) :
        /\ n >= 0
        /\ query' = [query EXCEPT ![c] =
             [pc |-> "series", specs |-> query[c].specs, todo |-> expandedMetrics(Qs(c)),
              n |-> n, at |-> now, series |-> <<>>]]
  BY DEF StartSpec
<1> DEFINE q == [pc |-> "series", specs |-> query[c].specs, todo |-> keys,
                 n |-> n, at |-> now, series |-> <<>>]
<1>1. /\ query[c].pc = "spec" /\ query[c].specs # <<>> /\ n >= 0
      /\ TypeOf[Qs(c).entity] \in DOMAIN SampleData
      /\ query' = [query EXCEPT ![c] = q]
      /\ shown' = [shown EXCEPT ![c] = Showing(Qs(c).entity, Range(keys))]
      /\ UNCHANGED <<vars, lock>>
  BY <1>0 DEF StartSpec
<1>2. UNCHANGED <<metrics, now, hook, reply>>
  BY <1>1 DEF vars
<1>3. DOMAIN query = Reader /\ DOMAIN shown = Reader /\ DOMAIN hook = Reader /\ DOMAIN reply = Reader
  BY DEF PerfInv, QueryOK, RegistryOK
<1>4. ~Waits(query[c]) /\ Qs(c) \in QuerySpec /\ query[c].specs \in Seq(QuerySpec)
  BY <1>1, SpecFacts
<1>5. keys \in Seq(MetricId)
  BY <1>1, <1>4, ExpandedType
<1>6. now \in 0..MaxTime /\ now \in Nat
  BY RegistryAssumption DEF PerfInv, RegistryOK
<1>7. n \in 0..SampleCap
  BY <1>0, <1>4, <1>6, SampleCountType, PerfAssumption
<1>8. Amid(q) /\ q.pc = "series"
  <2> HIDE DEF keys
  <2>1. TypeOf[Head(query[c].specs).entity] \in DOMAIN SampleData
    BY <1>1 DEF Qs
  <2>2. DOMAIN q = {"pc", "specs", "todo", "n", "at", "series"}
    OBVIOUS
  <2>3. Listed(q.series) /\ \A i \in DOMAIN q.series : Len(q.series[i].samples) = q.n
    BY ListedEmpty
  <2>4. QED
    BY <1>1, <1>4, <1>5, <1>6, <1>7, <2>1, <2>2, <2>3 DEF Amid, Busy
<1>9. query'[c] = q /\ shown'[c] = Showing(Qs(c).entity, Range(keys)) /\ DOMAIN query' = Reader
      /\ DOMAIN shown' = Reader
      /\ \A d \in Reader : d # c => query'[d] = query[d] /\ shown'[d] = shown[d]
  <2> HIDE DEF q, keys
  <2> QED
    BY <1>1, <1>3
<1>10. Qs(c)' = Qs(c) /\ query'[c].todo = keys /\ query'[c].series = <<>> /\ query'[c].pc = "series"
  BY <1>9 DEF Qs
<1>11. NowShown(c)' /\ HookShown(c)' /\ TodoOK(c)' /\ SeriesShown(c)'
  <2>1. NowShown(c)'
    BY <1>2, <1>9, <1>10 DEF NowShown, Showing
  <2>2. HookShown(c)'
    BY <1>10 DEF HookShown
  <2>3. TodoOK(c)'
    <3>1. \A i \in 1..Len(keys) : keys[i] \in Range(keys)
      BY <1>5 DEF Range
    <3> HIDE DEF keys
    <3>2. QED
      BY <1>10, <3>1 DEF TodoOK, keys
  <2>4. SeriesShown(c)'
    BY <1>10 DEF SeriesShown
  <2>5. QED
    BY <2>1, <2>2, <2>3, <2>4
<1>12. LockOK'
  <2>1. ~Waits(query'[c])
    BY <1>10 DEF Waits
  <2>2. QED
    BY <1>1, <1>4, <1>9, <2>1, LockKept
<1>13. QED
  <2> HIDE DEF q
  <2> QED
    BY <1>2, <1>3, <1>8, <1>9, <1>11, <1>12, StepOfOne

LEMMA EndSpecStep ==
    ASSUME PerfInv, NEW c \in Reader, EndSpec(c)
    PROVE  PerfInv'
<1>1. /\ query[c].pc = "series"
      /\ query' = [query EXCEPT ![c] = [pc |-> "spec", specs |-> Tail(query[c].specs)]]
      /\ shown' = [shown EXCEPT ![c] = {}]
      /\ UNCHANGED <<vars, lock>>
  BY DEF EndSpec
<1>2. UNCHANGED <<metrics, now, hook, reply>>
  BY <1>1 DEF vars
<1>3. DOMAIN query = Reader /\ DOMAIN shown = Reader /\ DOMAIN hook = Reader /\ DOMAIN reply = Reader
  BY DEF PerfInv, QueryOK, RegistryOK
<1>4. ~Waits(query[c]) /\ Amid(query[c])
  BY <1>1, AmidFacts DEF Busy
<1>5. Tail(query[c].specs) \in Seq(QuerySpec)
  BY <1>4 DEF Amid
<1>6. /\ query'[c] = [pc |-> "spec", specs |-> Tail(query[c].specs)]
      /\ DOMAIN query' = Reader /\ DOMAIN shown' = Reader
      /\ \A d \in Reader : d # c => query'[d] = query[d] /\ shown'[d] = shown[d]
  BY <1>1, <1>3
<1>7. Between(query'[c]) /\ ~Waits(query'[c]) /\ query'[c].pc \notin Busy
  BY <1>5, <1>6 DEF Between, Waits, Busy
<1>8. LockOK'
  BY <1>1, <1>4, <1>6, <1>7, LockKept
<1>9. QED
  BY <1>2, <1>3, <1>6, <1>7, <1>8, StepOfOne

\* The two halves of a hook call.  What the second finds in the copy was in
\* force when the first took it.
LEMMA HookStep ==
    ASSUME PerfInv, NEW c \in Reader, CallHook(c) \/ HookReturns(c)
    PROVE  PerfInv'
<1> DEFINE pc == IF query[c].pc = "series" THEN "hook" ELSE "points"
<1>1. /\ query' = [query EXCEPT ![c].pc = pc] /\ query[c].pc \in {"series", "hook"}
      /\ UNCHANGED <<metrics, now, lock, shown>>
      /\ query[c].pc = "series" => query[c].todo # <<>>
  BY DEF CallHook, HookReturns, GetMetrics, MetricOverrideFunc
<1>2. DOMAIN query = Reader /\ DOMAIN shown = Reader /\ DOMAIN hook = Reader /\ DOMAIN reply = Reader
  BY DEF PerfInv, QueryOK, RegistryOK
<1>3. /\ Amid(query[c]) /\ ~Waits(query[c]) /\ Qs(c) \in QuerySpec /\ Qs(c).entity \in Entity
      /\ NowShown(c) /\ HookShown(c) /\ TodoOK(c) /\ SeriesShown(c)
  BY <1>1, AmidFacts DEF Busy
<1>4. query'[c] = [query[c] EXCEPT !.pc = pc] /\ DOMAIN query' = Reader
      /\ \A d \in Reader : d # c => query'[d] = query[d]
  BY <1>1, <1>2
<1>5. /\ query'[c].pc = pc /\ DOMAIN query'[c] = DOMAIN query[c]
      /\ query'[c].specs = query[c].specs /\ query'[c].todo = query[c].todo
      /\ query'[c].n = query[c].n /\ query'[c].at = query[c].at /\ query'[c].series = query[c].series
  <2> HIDE DEF pc
  <2>1. QED
    BY <1>3, <1>4 DEF Amid
<1>6. query[c].todo # <<>> /\ query'[c].pc \in {"hook", "points"}
  BY <1>1, <1>3, <1>5 DEF Amid
<1>7. Amid(query'[c]) /\ ~Waits(query'[c])
  BY <1>3, <1>5, <1>6 DEF Amid, Waits, Busy
<1>8. Qs(c)' = Qs(c) /\ Metric(c)' = Metric(c)
  BY <1>5 DEF Qs, Metric
<1>9. NowShown(c)' /\ TodoOK(c)' /\ SeriesShown(c)'
  <2>1. NowShown(c)'
    BY <1>1, <1>3, <1>8 DEF NowShown
  <2>2. TodoOK(c)'
    BY <1>3, <1>5, <1>8 DEF TodoOK
  <2>3. SeriesShown(c)'
    BY <1>1, <1>3, <1>5, <1>8 DEF SeriesShown, Shows, Expected
  <2>4. QED
    BY <2>1, <2>2, <2>3
<1>10. CASE CallHook(c)
  <2>1. query[c].pc = "series" /\ query'[c].pc = "hook"
    BY <1>5, <1>10 DEF CallHook
  <2>2. /\ hook' = [hook EXCEPT ![c] = [on |-> TRUE, entity |-> Qs(c).entity, key |-> Metric(c),
                                        list |-> metrics[Qs(c).entity], at |-> now]]
        /\ reply' = reply
    BY <1>10 DEF CallHook, GetMetrics, morKey
  <2>3. hook'[c].list = metrics[Qs(c).entity] /\ hook'[c].key = Metric(c) /\ hook'[c].at = now
        /\ DOMAIN hook' = Reader /\ \A d \in Reader : d # c => hook'[d] = hook[d]
    BY <1>2, <2>2
  <2>4. Metric(c) \in Range(expandedMetrics(Qs(c)))
    <3>1. 1 \in 1..Len(query[c].todo) /\ Metric(c) = query[c].todo[1]
      BY <1>3, <1>6 DEF Amid, Metric
    <3>2. QED
      BY <1>3, <3>1 DEF TodoOK
  <2>5. <<Metric(c), InForce(metrics[Qs(c).entity], Metric(c), now)>> \in shown[c]
    BY <1>3, <2>4 DEF NowShown
  <2>6. metrics[Qs(c).entity] \in Seq(MetricOverride) /\ UniqueKeys(metrics[Qs(c).entity]) /\ now \in Nat
    BY <1>3, RegistryAssumption DEF PerfInv, RegistryOK
  <2>7. <<Metric(c), Pick(metrics[Qs(c).entity], Metric(c), now)>> \in shown[c]
    BY <2>5, <2>6, PickInForce
  <2>8. HookShown(c)'
    BY <1>1, <1>8, <2>1, <2>3, <2>7 DEF HookShown
  <2>9. LockOK'
    BY <1>1, <1>3, <1>4, <1>7, LockKept
  <2>10. QED
    BY <1>1, <1>2, <1>4, <1>7, <1>9, <2>2, <2>3, <2>8, <2>9, StepOfOne
<1>11. CASE HookReturns(c)
  <2>1. query[c].pc = "hook" /\ query'[c].pc = "points"
    BY <1>5, <1>11 DEF HookReturns
  <2>2. /\ reply' = [reply EXCEPT ![c] = Reply(hook[c])]
        /\ hook' = [hook EXCEPT ![c] = Idle]
    BY <1>11 DEF HookReturns, MetricOverrideFunc
  <2>3. reply'[c].value = Pick(hook[c].list, hook[c].key, hook[c].at)
        /\ DOMAIN hook' = Reader /\ DOMAIN reply' = Reader
        /\ \A d \in Reader : d # c => hook'[d] = hook[d] /\ reply'[d] = reply[d]
    BY <1>2, <2>2 DEF Reply
  <2>4. HookShown(c)'
    BY <1>1, <1>3, <1>8, <2>1, <2>3 DEF HookShown
  <2>5. LockOK'
    BY <1>1, <1>3, <1>4, <1>7, LockKept
  <2>6. QED
    BY <1>1, <1>2, <1>4, <1>7, <1>9, <2>3, <2>4, <2>5, StepOfOne
<1>12. QED
  BY <1>10, <1>11

\* One more series, whose samples are what the reply of the hook asks for.
LEMMA SeriesStep ==
    ASSUME PerfInv, NEW c \in Reader, OverrideSeries(c) \/ SampleSeries(c)
    PROVE  PerfInv'
<1> DEFINE samples == Expected(c, Metric(c), reply[c].value)
           x == [key |-> Metric(c), samples |-> samples]
<1>1. query[c].pc = "points" /\ UNCHANGED <<metrics, now, hook, lock, shown>>
  BY DEF OverrideSeries, SampleSeries, Forget
<1>2. AddSeries(c, samples)
  BY DEF OverrideSeries, SampleSeries, Overridden, Expected
<1> HIDE DEF samples
<1>3. DOMAIN query = Reader /\ DOMAIN shown = Reader /\ DOMAIN hook = Reader /\ DOMAIN reply = Reader
  BY DEF PerfInv, QueryOK, RegistryOK
<1>4. DOMAIN reply' = Reader /\ \A d \in Reader : d # c => reply'[d] = reply[d]
  BY <1>3 DEF OverrideSeries, SampleSeries, Forget
<1>5. /\ Amid(query[c]) /\ ~Waits(query[c]) /\ Qs(c) \in QuerySpec /\ Qs(c).entity \in Entity
      /\ NowShown(c) /\ HookShown(c) /\ TodoOK(c) /\ SeriesShown(c)
  BY <1>1, AmidFacts DEF Busy
<1>6. query'[c] = [query[c] EXCEPT !.pc = "series", !.todo = Tail(query[c].todo),
                                   !.series = Append(query[c].series, x)]
      /\ DOMAIN query' = Reader
      /\ \A d \in Reader : d # c => query'[d] = query[d]
  BY <1>2, <1>3, <1>5 DEF AddSeries, Amid
<1>7. /\ query'[c].pc = "series" /\ DOMAIN query'[c] = DOMAIN query[c]
      /\ query'[c].specs = query[c].specs /\ query'[c].todo = Tail(query[c].todo)
      /\ query'[c].n = query[c].n /\ query'[c].at = query[c].at
      /\ query'[c].series = Append(query[c].series, x)
  <2> HIDE DEF x
  <2>1. QED
    BY <1>5, <1>6 DEF Amid
<1>8. query[c].n \in Nat /\ Listed(query[c].series) /\ query[c].todo \in Seq(MetricId)
      /\ query[c].todo # <<>>
  BY <1>1, <1>5, PerfAssumption DEF Amid
<1>9. /\ Listed(query'[c].series)
      /\ \A i \in DOMAIN query'[c].series :
           \/ i \in DOMAIN query[c].series /\ query'[c].series[i] = query[c].series[i]
           \/ query'[c].series[i] = x
  <2> HIDE DEF x
  <2>1. QED
    BY <1>7, <1>8, ListedAppend
<1>10. Len(samples) = query[c].n
  BY <1>8 DEF samples, Expected, Cycle, DataSeries
<1>11. Tail(query[c].todo) \in Seq(MetricId)
       /\ \A i \in 1..Len(Tail(query[c].todo)) :
            i + 1 \in 1..Len(query[c].todo) /\ Tail(query[c].todo)[i] = query[c].todo[i + 1]
  BY <1>8
<1>12. Amid(query'[c]) /\ ~Waits(query'[c])
  <2>1. \A i \in DOMAIN query'[c].series : Len(query'[c].series[i].samples) = query'[c].n
    BY <1>5, <1>7, <1>9, <1>10 DEF Amid
  <2>2. QED
    BY <1>5, <1>7, <1>9, <1>11, <2>1 DEF Amid, Waits, Busy
<1>13. Qs(c)' = Qs(c)
  BY <1>7 DEF Qs
<1>14. NowShown(c)'
  BY <1>1, <1>5, <1>13 DEF NowShown
<1>15. HookShown(c)'
  BY <1>7 DEF HookShown
<1>16. TodoOK(c)'
  BY <1>5, <1>7, <1>11, <1>13 DEF TodoOK
<1>17. SeriesShown(c)'
  <2> SUFFICES ASSUME NEW i \in DOMAIN query'[c].series PROVE Shows(c, i)'
    BY DEF SeriesShown
  <2>1. \A k, v : Expected(c, k, v)' = Expected(c, k, v)
    BY <1>7, <1>13 DEF Expected
  <2>2. CASE i \in DOMAIN query[c].series /\ query'[c].series[i] = query[c].series[i]
    <3>1. PICK pair \in shown[c] :
              /\ pair[1] = query[c].series[i].key
              /\ query[c].series[i].samples = Expected(c, pair[1], pair[2])
      BY <1>5, <2>2 DEF SeriesShown, Shows
    <3>2. QED
      BY <1>1, <2>1, <2>2, <3>1 DEF Shows
  <2>3. CASE query'[c].series[i] = x
    <3> DEFINE pair == <<Metric(c), reply[c].value>>
    <3>1. pair \in shown[c]
      BY <1>1, <1>5 DEF HookShown
    <3>2. pair[1] = query'[c].series[i].key
          /\ query'[c].series[i].samples = Expected(c, pair[1], pair[2])
      BY <2>3 DEF samples
    <3> HIDE DEF pair
    <3>3. QED
      BY <1>1, <2>1, <3>1, <3>2 DEF Shows
  <2>4. QED
    BY <1>9, <2>2, <2>3
<1>18. LockOK'
  BY <1>1, <1>5, <1>6, <1>12, LockKept
<1>19. QED
  BY <1>1, <1>3, <1>4, <1>6, <1>12, <1>14, <1>15, <1>16, <1>17, <1>18, StepOfOne

\* What scenarios do to the registry, and time: a query that is going on is
\* shown what holds then as well.
LEMMA ScenarioStep ==
    ASSUME PerfInv, Scenario
    PROVE  PerfInv'
<1>1. UNCHANGED <<lock, query, hook, reply>> /\ Watch
  BY DEF Scenario, SetMetric, ClearMetrics, ClearAll, Tick
<1>2. metrics \in [Entity -> Seq(MetricOverride)] /\ (\A e \in Entity : UniqueKeys(metrics[e]))
      /\ now \in 0..MaxTime /\ DOMAIN query = Reader
  BY DEF PerfInv, RegistryOK, QueryOK
<1>3. RegistryOK'
  <2>1. CASE \E ref \in Target, o \in MetricOverride : SetMetric(ref, o)
    <3>1. PICK ref \in Target, o \in MetricOverride : SetMetric(ref, o)
      BY <2>1
    <3>2. ref.mo \in Entity
      BY PerfAssumption DEF Ref
    <3>3. metrics' = [metrics EXCEPT ![ref.mo] = Upsert(metrics[ref.mo], o)] /\ now' = now
      BY <3>1 DEF SetMetric, morKey
    <3>4. Upsert(metrics[ref.mo], o) \in Seq(MetricOverride) /\ UniqueKeys(Upsert(metrics[ref.mo], o))
      BY <1>2, <3>2, UpsertKeeps
    <3>5. metrics' \in [Entity -> Seq(MetricOverride)] /\ \A e \in Entity : UniqueKeys(metrics'[e])
      BY <1>2, <3>2, <3>3, <3>4
    <3>6. QED
      BY <1>1, <1>2, <3>3, <3>5 DEF PerfInv, RegistryOK
  <2>2. CASE (\E ref \in Target : ClearMetrics(ref)) \/ ClearAll
    <3>1. now' = now /\ metrics' \in [Entity -> Seq(MetricOverride)]
          /\ \A e \in Entity : metrics'[e] = metrics[e] \/ metrics'[e] = <<>>
      <4>1. CASE \E ref \in Target : ClearMetrics(ref)
        <5>1. PICK ref \in Target : ClearMetrics(ref)
          BY <4>1
        <5>2. metrics' = [metrics EXCEPT ![ref.mo] = <<>>] /\ now' = now
          BY <5>1 DEF ClearMetrics, morKey
        <5>3. <<>> \in Seq(MetricOverride)
          OBVIOUS
        <5>4. QED
          BY <1>2, <5>2, <5>3
      <4>2. CASE ClearAll
        BY <4>2 DEF ClearAll
      <4>3. QED
        BY <2>2, <4>1, <4>2
    <3>2. \A e \in Entity : UniqueKeys(metrics'[e])
      BY <1>2, <3>1, EmptyListUnique
    <3>3. QED
      BY <1>1, <1>2, <3>1, <3>2 DEF PerfInv, RegistryOK
  <2>3. CASE Tick
    <3>1. metrics' = metrics /\ now < MaxTime /\ now' = now + 1
      BY <2>3 DEF Tick
    <3>2. now' \in 0..MaxTime
      BY <1>2, <3>1, RegistryAssumption
    <3>3. QED
      BY <1>1, <1>2, <3>1, <3>2 DEF PerfInv, RegistryOK
  <2>4. QED
    BY <2>1, <2>2, <2>3 DEF Scenario
<1>4. LockOK'
  BY <1>1 DEF PerfInv, LockOK, OddWindow, Start, End, Interval
<1>5. QueryOK'
  BY <1>1 DEF PerfInv, QueryOK, Watch
<1>6. ShownOK'
  <2> SUFFICES ASSUME NEW c \in Reader, query[c].pc \in Busy
               PROVE  NowShown(c)' /\ HookShown(c)' /\ TodoOK(c)' /\ SeriesShown(c)'
    BY <1>1 DEF ShownOK
  <2>1. /\ NowShown(c) /\ HookShown(c) /\ TodoOK(c) /\ SeriesShown(c)
    BY AmidFacts
  <2>2. Qs(c)' = Qs(c) /\ Metric(c)' = Metric(c)
    BY <1>1 DEF Qs, Metric
  <2>3. shown'[c] = shown[c] \union
          {<<k, InForce(metrics'[Qs(c).entity], k, now')>> : k \in Range(expandedMetrics(Qs(c)))}
    BY <1>1 DEF Watch, Busy
  <2>4. NowShown(c)'
    BY <2>2, <2>3 DEF NowShown
  <2>5. HookShown(c)'
    BY <1>1, <2>1, <2>2, <2>3 DEF HookShown
  <2>6. TodoOK(c)'
    BY <1>1, <2>1, <2>2 DEF TodoOK
  <2>7. SeriesShown(c)'
    BY <1>1, <2>1, <2>2, <2>3 DEF SeriesShown, Shows, Expected
  <2>8. QED
    BY <2>4, <2>5, <2>6, <2>7
<1>7. QED
  BY <1>3, <1>4, <1>5, <1>6 DEF PerfInv

LEMMA PerfStep == PerfInv /\ [PerfNext]_perfVars => PerfInv'
<1> SUFFICES ASSUME PerfInv, [PerfNext]_perfVars PROVE PerfInv'
  OBVIOUS
<1>1. CASE Scenario
  BY <1>1, ScenarioStep
<1>2. ASSUME NEW c \in Reader, Ask(c) \/ QueryPerf(c) \/ QueryStep(c) PROVE PerfInv'
  BY <1>2, AskStep, EndOfQuery, StartSpecStep, EndSpecStep, HookStep, SeriesStep DEF QueryStep
<1>3. CASE UNCHANGED perfVars
  <2>1. UNCHANGED <<metrics, now, hook, reply, lock, query, shown>>
    BY <1>3 DEF perfVars, vars
  <2>2. RegistryOK' /\ LockOK' /\ QueryOK'
    BY <2>1 DEF PerfInv, RegistryOK, LockOK, QueryOK, OddWindow, Start, End, Interval
  <2>3. ShownOK'
    BY <2>1 DEF PerfInv, ShownOK, NowShown, HookShown, TodoOK, SeriesShown, Shows, Expected, Qs, Metric
  <2>4. QED
    BY <2>2, <2>3 DEF PerfInv
<1>4. QED
  BY <1>1, <1>2, <1>3 DEF PerfNext

\* At any time the lock of the PerformanceManager belongs to the one query that
\* is past it, and the series of a query all have the number of samples that
\* was counted for its window: for all clients, queries and caps.
THEOREM QueryLockAndSamples == PerfSpec => []LockAndSamples
<1>1. PerfInv => LockAndSamples
  <2> SUFFICES ASSUME PerfInv PROVE LockAndSamples
    OBVIOUS
  <2>1. ASSUME NEW c \in Reader, query[c].pc = "series" PROVE Amid(query[c])
    BY <2>1, AmidFacts DEF Busy
  <2>2. QED
    BY <2>1 DEF PerfInv, LockOK, LockAndSamples, Amid
<1>2. QED
  BY <1>1, PerfInitHolds, PerfStep, PTL DEF PerfSpec

\* Every series that QueryPerf answers with shows, whole, an override that was
\* in force at some instant of the query for its counter and instance, or the
\* recorded data if at some instant none was, whatever scenarios do meanwhile.
THEOREM QuerySeriesAsShown == PerfSpec => []SeriesAsShown
<1>1. PerfInv => SeriesAsShown
  BY DEF PerfInv, ShownOK, SeriesShown, Shows, SeriesAsShown, Busy
<1>2. QED
  BY <1>1, PerfInitHolds, PerfStep, PTL DEF PerfSpec

\* QueryPerf panics, and keeps the lock for good, only for a window that starts
\* before 1970, lasts 2^31 seconds or more (or 2^31 - 1 in intervals of one),
\* ends two intervals or more before its start, or has an interval below -1: for
\* all intervals, windows and caps, and whatever int32 makes of a long window.
THEOREM QueryPanicNeedsOddWindow == PerfSpec => []PanicNeedsOddWindow
<1>1. PerfInv => PanicNeedsOddWindow
  BY DEF PerfInv, LockOK, PanicNeedsOddWindow
<1>2. QED
  BY <1>1, PerfInitHolds, PerfStep, PTL DEF PerfSpec

-----------------------------------------------------------------------------
(* Refinement: the registry that queries read is the store of atomic maps. *)

\* What a query still has to do is what a client sent, so that the hook is only
\* called for metrics that some client asked for.
Sent == UNION {Range(specs) : specs \in Query}

SpecsSent == \A c \in Reader : ~Waits(query[c]) => query[c].specs \in Seq(Sent)

LEMMA QuerySent == \A specs \in Query : specs \in Seq(Sent)
<1> SUFFICES ASSUME NEW specs \in Query PROVE specs \in Seq(Sent)
  OBVIOUS
<1>1. specs \in Seq(QuerySpec)
  BY PerfAssumption
<1>2. \A i \in 1..Len(specs) : specs[i] \in Sent
  BY <1>1 DEF Sent, Range
<1>3. QED
  BY <1>1, <1>2

LEMMA SentInit == PerfInit => SpecsSent
BY DEF PerfInit, SpecsSent, NoQuery, Waits

LEMMA SentStep == PerfInv /\ SpecsSent /\ [PerfNext]_perfVars => SpecsSent'
<1> SUFFICES ASSUME PerfInv, SpecsSent, [PerfNext]_perfVars PROVE SpecsSent'
  OBVIOUS
<1>1. DOMAIN query = Reader
  BY DEF PerfInv, QueryOK
<1>2. ASSUME UNCHANGED query PROVE SpecsSent'
  BY <1>2 DEF SpecsSent
<1>3. ASSUME NEW c \in Reader, NEW q, query' = [query EXCEPT ![c] = q],
             ~Waits(q) => q.specs \in Seq(Sent)
      PROVE  SpecsSent'
  BY <1>1, <1>3 DEF SpecsSent
<1>4. ASSUME NEW c \in Reader, Ask(c) \/ QueryPerf(c) PROVE SpecsSent'
  <2>1. CASE Ask(c)
    BY <1>3, <2>1 DEF Ask, Waits
  <2>2. CASE QueryPerf(c)
    <3>1. PICK specs \in Query : query' = [query EXCEPT ![c] = [pc |-> "spec", specs |-> specs]]
      BY <2>2 DEF QueryPerf
    <3>2. QED
      BY <1>3, <3>1, QuerySent
  <2>3. QED
    BY <1>4, <2>1, <2>2
<1>5. ASSUME NEW c \in Reader,
             NegativeCount(c) \/ InvalidArgument(c) \/ NegativeIndex(c) \/ Return(c)
      PROVE  SpecsSent'
  <2>1. query' = [query EXCEPT ![c] = NoQuery]
    BY <1>5 DEF NegativeCount, InvalidArgument, NegativeIndex, Return
  <2>2. QED
    BY <1>3, <2>1 DEF NoQuery, Waits
<1>6. ASSUME NEW c \in Reader, StartSpec(c) PROVE SpecsSent'
  <2>1. PICK n \in SampleCount(Qs(c), now) : query' = [query EXCEPT ![c] =
          [pc |-> "series", specs |-> query[c].specs, todo |-> expandedMetrics(Qs(c)),
           n |-> n, at |-> now, series |-> <<>>]]
    BY <1>6 DEF StartSpec
  <2> DEFINE q == [pc |-> "series", specs |-> query[c].specs, todo |-> expandedMetrics(Qs(c)),
                   n |-> n, at |-> now, series |-> <<>>]
  <2>2. q.specs = query[c].specs
    OBVIOUS
  <2>3. query[c].specs \in Seq(Sent)
    BY <1>6 DEF StartSpec, SpecsSent, Waits
  <2> HIDE DEF q
  <2>4. QED
    BY <1>3, <2>1, <2>2, <2>3
<1>7. ASSUME NEW c \in Reader, EndSpec(c) PROVE SpecsSent'
  <2>1. query[c].pc = "series"
        /\ query' = [query EXCEPT ![c] = [pc |-> "spec", specs |-> Tail(query[c].specs)]]
    BY <1>7 DEF EndSpec
  <2>2. query[c].specs \in Seq(Sent) /\ query[c].specs # <<>>
    BY <2>1, AmidFacts DEF SpecsSent, Waits, Busy, Amid
  <2>3. Tail(query[c].specs) \in Seq(Sent)
    BY <2>2
  <2>4. QED
    BY <1>3, <2>1, <2>3
<1>8. ASSUME NEW c \in Reader,
             CallHook(c) \/ HookReturns(c) \/ OverrideSeries(c) \/ SampleSeries(c)
      PROVE  SpecsSent'
  <2>1. query[c].pc \in Busy
    BY <1>8 DEF CallHook, HookReturns, OverrideSeries, SampleSeries, Busy
  <2>2. DOMAIN query[c] = {"pc", "specs", "todo", "n", "at", "series"}
        /\ query[c].specs \in Seq(Sent)
    BY <2>1, AmidFacts DEF SpecsSent, Amid
  <2>3. query'[c].specs = query[c].specs /\ DOMAIN query' = Reader
        /\ \A d \in Reader : d # c => query'[d] = query[d]
    BY <1>1, <1>8, <2>2 DEF CallHook, HookReturns, OverrideSeries, SampleSeries, AddSeries
  <2>4. QED
    BY <2>2, <2>3 DEF SpecsSent
<1>9. CASE Scenario
  BY <1>2, <1>9 DEF Scenario
<1>10. CASE UNCHANGED perfVars
  BY <1>2, <1>10 DEF perfVars
<1>11. QED
  BY <1>4, <1>5, <1>6, <1>7, <1>8, <1>9, <1>10 DEF PerfNext, QueryStep

\* The two instances of the store differ in their metric keys only.
LEMMA SameStore ==
    /\ QueriedStore!EmptyMap = Store!EmptyMap /\ QueriedStore!Unasked = Unasked
    /\ QueriedStore!Override = Store!Override
    /\ \A m, k, o : QueriedStore!Put(m, k, o) = Store!Put(m, k, o)
    /\ \A m, k, t : QueriedStore!Seen(m, k, t) = Store!Seen(m, k, t)
BY DEF QueriedStore!EmptyMap, Store!EmptyMap, QueriedStore!Unasked, Unasked,
       QueriedStore!Override, Store!Override, QueriedStore!Put, Store!Put,
       QueriedStore!Seen, Store!Seen, QueriedStore!Expired, Store!Expired,
       QueriedStore!Never, Store!Never

LEMMA QueriedInit == PerfInit => QueriedStore!StoreInit
<1> SUFFICES ASSUME PerfInit PROVE QueriedStore!StoreInit
  OBVIOUS
<1>1. Mapped(metrics) = [e \in Entity |-> QueriedStore!EmptyMap]
      /\ Mapped(properties) = [e \in Entity |-> QueriedStore!EmptyMap]
  BY MappedClearAll, SameStore DEF PerfInit, Init
<1>2. Answers = [r \in Reader |-> QueriedStore!Unasked]
  BY SameStore DEF PerfInit, Init, Answers, Answer, Idle
<1>3. QED
  BY <1>1, <1>2 DEF PerfInit, Init, QueriedStore!StoreInit, Mapped, Answers

\* A step that leaves the registry and the hooks alone.
LEMMA QueriedStutter ==
    ASSUME UNCHANGED <<metrics, properties, now, hook, reply>>
    PROVE  UNCHANGED QueriedStore!storeVars
BY DEF QueriedStore!storeVars, Answer

\* A hook call answers, as far as the store can tell, when it takes its copy.
LEMMA CallHookReads ==
    ASSUME PerfInv, SpecsSent, NEW c \in Reader, CallHook(c)
    PROVE  QueriedStore!StoreNext
<1> DEFINE e == Qs(c).entity
           k == Metric(c)
           h == [on |-> TRUE, entity |-> e, key |-> k, list |-> metrics[e], at |-> now]
<1>1. /\ query[c].pc = "series" /\ query[c].todo # <<>>
      /\ hook' = [hook EXCEPT ![c] = h] /\ UNCHANGED <<metrics, properties, now, reply>>
  BY DEF CallHook, GetMetrics, morKey
<1>2. Amid(query[c]) /\ e \in Entity /\ TodoOK(c) /\ ~Waits(query[c])
  BY <1>1, AmidFacts DEF Busy
<1>3. metrics[e] \in Seq(MetricOverride) /\ UniqueKeys(metrics[e]) /\ DOMAIN hook = Reader
  BY <1>2 DEF PerfInv, RegistryOK
<1>4. k \in AskedKey
  <2>1. Qs(c) \in Sent /\ TypeOf[Qs(c).entity] \in DOMAIN SampleData
    BY <1>2 DEF Amid, Qs, SpecsSent
  <2>2. 1 \in 1..Len(query[c].todo) /\ k = query[c].todo[1]
    BY <1>1, <1>2 DEF Amid, Metric
  <2>3. k \in Range(expandedMetrics(Qs(c)))
    BY <1>2, <2>2 DEF TodoOK
  <2> HIDE DEF k
  <2>4. QED
    BY <2>1, <2>3 DEF AskedKey, Sent
<1>5. Pick(metrics[e], k, now) = QueriedStore!Seen(Mapped(metrics)[e], k, now)
  BY <1>2, <1>3, SeenIsPick, SameStore DEF Mapped
<1>6. Answers' = [Answers EXCEPT ![c] =
                    [entity |-> e, key |-> k, value |-> Pick(metrics[e], k, now)]]
  <2>1. Reply(h) = [entity |-> e, key |-> k, value |-> Pick(metrics[e], k, now)] /\ h.on
    BY DEF Reply
  <2> HIDE DEF h, e, k
  <2>2. QED
    BY <1>1, <1>3, <2>1 DEF Answers, Answer
<1>7. UNCHANGED <<Mapped(metrics), Mapped(properties), now>>
  BY <1>1 DEF Mapped
<1> HIDE DEF e, k
<1>8. QueriedStore!Read(c, e, k)
  BY <1>5, <1>6, <1>7 DEF QueriedStore!Read, Mapped, Answers
<1>9. QED
  BY <1>2, <1>4, <1>8 DEF QueriedStore!StoreNext

LEMMA ForgetForgets ==
    ASSUME PerfInv, NEW c \in Reader, Forget(c)
    PROVE  QueriedStore!StoreNext
<1>1. reply' = [reply EXCEPT ![c] = Unasked] /\ ~hook[c].on /\ hook' = hook /\ DOMAIN reply = Reader
  BY DEF Forget, PerfInv, RegistryOK
<1>2. Answers' = [Answers EXCEPT ![c] = Unasked]
  BY <1>1 DEF Answers, Answer
<1>3. UNCHANGED <<Mapped(metrics), Mapped(properties), now>>
  BY DEF Forget, Mapped
<1>4. QueriedStore!Forget(c)
  BY <1>2, <1>3, SameStore DEF QueriedStore!Forget, Mapped, Answers
<1>5. QED
  BY <1>4 DEF QueriedStore!StoreNext

LEMMA ScenarioWrites ==
    ASSUME PerfInv, Scenario
    PROVE  QueriedStore!StoreNext
<1>1. metrics \in [Entity -> Seq(MetricOverride)] /\ \A e \in Entity : UniqueKeys(metrics[e])
  BY DEF PerfInv, RegistryOK
<1>2. ASSUME NEW ref \in Target, NEW o \in MetricOverride, SetMetric(ref, o)
      PROVE  QueriedStore!StoreNext
  <2> DEFINE e == morKey(ref)
             v == [value |-> o.value, expires |-> o.expires]
  <2>1. e \in Entity /\ o.key \in MetricKey /\ v \in QueriedStore!Override
    BY PerfAssumption DEF morKey, Ref, MetricOverride, QueriedStore!Override
  <2>2. Mapped(metrics)' =
          [Mapped(metrics) EXCEPT ![e] = QueriedStore!Put(Mapped(metrics)[e], o.key, v)]
    <3>1. metrics' = [metrics EXCEPT ![e] = Upsert(metrics[e], o)]
      BY <1>2 DEF SetMetric
    <3>2. AsMap(Upsert(metrics[e], o)) = QueriedStore!Put(AsMap(metrics[e]), o.key, v)
      BY <1>1, <2>1, AsMapUpsert, SameStore
    <3> HIDE DEF e, v
    <3>3. QED
      BY <1>1, <2>1, <3>1, <3>2 DEF Mapped
  <2>3. UNCHANGED <<Mapped(properties), now, Answers>>
    BY <1>2 DEF SetMetric, Mapped, Answers, Answer
  <2> HIDE DEF e, v
  <2>4. QueriedStore!SetMetric(e, o.key, v)
    BY <2>2, <2>3 DEF QueriedStore!SetMetric, Mapped, Answers
  <2>5. QED
    BY <2>1, <2>4 DEF QueriedStore!StoreNext
<1>3. ASSUME NEW ref \in Target, ClearMetrics(ref) PROVE QueriedStore!StoreNext
  <2>1. morKey(ref) \in Entity
    BY PerfAssumption DEF morKey, Ref
  <2>2. Mapped(metrics)' = [Mapped(metrics) EXCEPT ![morKey(ref)] = QueriedStore!EmptyMap]
    BY <1>1, <1>3, <2>1, MappedClear, SameStore DEF ClearMetrics
  <2>3. UNCHANGED <<Mapped(properties), now, Answers>>
    BY <1>3 DEF ClearMetrics, Mapped, Answers, Answer
  <2>4. QueriedStore!ClearMetrics(morKey(ref))
    BY <2>2, <2>3 DEF QueriedStore!ClearMetrics, Mapped, Answers
  <2>5. QED
    BY <2>1, <2>4 DEF QueriedStore!StoreNext
<1>4. CASE ClearAll
  <2>1. Mapped(metrics)' = [e \in Entity |-> QueriedStore!EmptyMap]
        /\ Mapped(properties)' = [e \in Entity |-> QueriedStore!EmptyMap]
    BY <1>4, MappedClearAll, SameStore DEF ClearAll
  <2>2. UNCHANGED <<now, Answers>>
    BY <1>4 DEF ClearAll, Answers, Answer
  <2>3. QueriedStore!ClearAll
    BY <2>1, <2>2 DEF QueriedStore!ClearAll, Mapped, Answers
  <2>4. QED
    BY <2>3 DEF QueriedStore!StoreNext
<1>5. CASE Tick
  <2>1. UNCHANGED <<Mapped(metrics), Mapped(properties), Answers>>
    BY <1>5 DEF Tick, Mapped, Answers, Answer
  <2>2. QueriedStore!Tick
    BY <1>5, <2>1 DEF Tick, QueriedStore!Tick, Mapped, Answers
  <2>3. QED
    BY <2>2 DEF QueriedStore!StoreNext
<1>6. QED
  BY <1>2, <1>3, <1>4, <1>5 DEF Scenario

LEMMA QueriedStep ==
    PerfInv /\ SpecsSent /\ [PerfNext]_perfVars => [QueriedStore!StoreNext]_(QueriedStore!storeVars)
<1> SUFFICES ASSUME PerfInv, SpecsSent, [PerfNext]_perfVars
             PROVE  [QueriedStore!StoreNext]_(QueriedStore!storeVars)
  OBVIOUS
<1>1. ASSUME NEW c \in Reader, HookReturns(c) PROVE UNCHANGED QueriedStore!storeVars
  <2>1. /\ hook[c].on /\ hook' = [hook EXCEPT ![c] = Idle]
        /\ reply' = [reply EXCEPT ![c] = Reply(hook[c])]
        /\ UNCHANGED <<metrics, properties, now>>
    BY <1>1 DEF HookReturns, MetricOverrideFunc
  <2>2. DOMAIN hook = Reader /\ DOMAIN reply = Reader
    BY DEF PerfInv, RegistryOK
  <2>3. Answers' = Answers
    BY <2>1, <2>2 DEF Answers, Answer, Idle
  <2>4. UNCHANGED <<Mapped(metrics), Mapped(properties), now>>
    BY <2>1 DEF Mapped
  <2>5. QED
    BY <2>3, <2>4 DEF QueriedStore!storeVars, Mapped, Answers
<1>2. ASSUME NEW c \in Reader,
             OverrideSeries(c) \/ SampleSeries(c) \/ NegativeIndex(c)
      PROVE  QueriedStore!StoreNext
  BY <1>2, ForgetForgets DEF OverrideSeries, SampleSeries, NegativeIndex
<1>3. ASSUME NEW c \in Reader,
             \/ Ask(c) \/ QueryPerf(c) \/ StartSpec(c) \/ NegativeCount(c)
             \/ InvalidArgument(c) \/ EndSpec(c) \/ Return(c)
      PROVE  UNCHANGED QueriedStore!storeVars
  <2>1. UNCHANGED vars
    BY <1>3 DEF Ask, QueryPerf, StartSpec, NegativeCount, InvalidArgument, EndSpec, Return
  <2>2. QED
    BY <2>1, QueriedStutter DEF vars
<1>4. CASE UNCHANGED perfVars
  BY <1>4, QueriedStutter DEF perfVars, vars
<1>5. QED
  BY <1>1, <1>2, <1>3, <1>4, CallHookReads, ScenarioWrites DEF PerfNext, QueryStep

\* Queries read the registry as atomic maps, whatever clients ask for, however
\* long they wait for the lock and wherever they panic: every hook call of
\* theirs answers what the registry held, for the entity and the metric of that
\* series, at one instant of the call.
THEOREM QueryPerfReadsStore == PerfSpec => QueriesReadStore
<1>1. PerfInit => PerfInv /\ SpecsSent
  BY PerfInitHolds, SentInit
<1>2. PerfInv /\ SpecsSent /\ [PerfNext]_perfVars => (PerfInv /\ SpecsSent)'
  BY PerfStep, SentStep
<1>3. PerfInv /\ SpecsSent /\ [PerfNext]_perfVars
        => [QueriedStore!StoreNext]_(QueriedStore!storeVars)
  BY QueriedStep
<1>4. QED
  BY <1>1, <1>2, <1>3, QueriedInit, PTL DEF PerfSpec, QueriesReadStore, QueriedStore!StoreSpec
=============================================================================
