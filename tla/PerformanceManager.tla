------------------------- MODULE PerformanceManager -------------------------
(***************************************************************************)
(* simulator/performance_manager.go: QueryPerf, composed with the registry *)
(* and the hook it calls for every series (Overrides).  Service.call runs  *)
(* the method under the lock of the PerformanceManager object; WithLock    *)
(* does not defer the unlock, so a panic keeps the lock for good.  While a *)
(* query goes through its series, scenarios write the registry.            *)
(***************************************************************************)
EXTENDS Overrides, Lists, SequencesExt

CONSTANTS
    Target,             \* the references that scenarios set overrides for
    Query,              \* the lists of query specifications that clients send
    TypeOf,             \* entity -> its managed object type
    Available,          \* entity -> its metrics, a sequence of metric keys
    SampleData,         \* type -> (counter -> its recorded points)
    Historical,         \* the types whose data comes in long intervals
    Realtime, Historic, \* the two default intervals in seconds: 20 and 300
    Window, SampleCap,  \* the default window in seconds and the safety cap
    Int32Half,          \* 2^31
    Boot,               \* the Unix time at which the clock "now" reads 0
    NoTime              \* a StartTime or EndTime that is not set

VARIABLES
    lock,               \* the object lock of the PerformanceManager
    query,              \* client -> the QueryPerf call it waits for
    shown               \* history: client -> what the registry showed of the
                        \* entity since its query began, as <<key, value>>

perfVars == <<vars, lock, query, shown>>

Int32 == -Int32Half..(Int32Half - 1)

Star == "*"

\* "" stands for the aggregate of all instances, and "*" for each of them.
InstanceName == Instance \union {"", Star}

MetricId == Int \X InstanceName

QuerySpec == [entity : DOMAIN TypeOf, ids : Seq(MetricId), interval : Int32, max : Int32,
              start : Int \union {NoTime}, end : Int \union {NoTime}]

\* Only entities of the inventory have a type with recorded data.
ASSUME PerfAssumption ==
    /\ Target \subseteq Ref
    /\ NoTime \notin Int
    /\ Int32Half \in Nat \ {0}
    /\ {Realtime, Historic} \subseteq 1..(Int32Half - 1)
    /\ Window \in Nat /\ SampleCap \in Nat /\ Boot \in Nat /\ MaxTime # 0
    /\ \A specs \in Query : specs \in Seq(QuerySpec)
    /\ \A e \in DOMAIN TypeOf : TypeOf[e] \in DOMAIN SampleData => e \in Entity
    /\ \A e \in DOMAIN Available : Available[e] \in Seq(MetricId)
    /\ Entity \subseteq DOMAIN Available

Free == [state |-> "free"]
HeldBy(c) == [state |-> "held", by |-> c]
Leaked(qs) == [state |-> "leaked", by |-> qs]

NoQuery == [pc |-> "idle"]

-----------------------------------------------------------------------------
(* The window of a query and the samples in it.                            *)

Abs(a) == IF a < 0 THEN -a ELSE a

\* Go's division rounds towards zero.
Quotient(a, b) ==
    IF (a < 0) # (b < 0) THEN -(Abs(a) \div Abs(b)) ELSE Abs(a) \div Abs(b)

\* What int32 of a number of seconds, a float64, can be.  Out of range Go leaves
\* the result to the build: amd64 gives the least int32, arm64 the nearest one.
int32(a) ==
    IF a \in Int32 THEN {a}
    ELSE IF a < 0 THEN {-Int32Half}
    ELSE {-Int32Half, Int32Half - 1}

\* Int32 arithmetic keeps the low 32 bits.
Wrap(a) == ((a + Int32Half) % (2 * Int32Half)) - Int32Half

Interval(qs) ==
    IF qs.interval \notin {-1, 0} THEN qs.interval
    ELSE IF TypeOf[qs.entity] \in Historical THEN Historic ELSE Realtime

End(qs, t) == IF qs.end = NoTime THEN Boot + t ELSE qs.end

Start(qs, t) == IF qs.start = NoTime THEN End(qs, t) - Window ELSE qs.start

AtMost(n, limit) == IF n > limit THEN limit ELSE n

\* n is what the limits of the query and of the server leave of the count.
Capped(qs, n) == AtMost(IF qs.max > 0 THEN AtMost(n, qs.max) ELSE n, SampleCap)

\* A faulty variant: the sample at the start of the window is not counted.
OneSampleLess(qs, t) ==
    {Capped(qs, Quotient(s, Interval(qs))) : s \in int32(End(qs, t) - Start(qs, t))}

\* The numbers of samples there can be.  One is negative when the window ends
\* well before it starts, when its length does not fit, and when one more than
\* the quotient does not.
SampleCount(qs, t) ==
    {Capped(qs, Wrap(1 + Quotient(s, Interval(qs)))) : s \in int32(End(qs, t) - Start(qs, t))}

\* An override's points are repeated; its noise is left out.
Cycle(points, n) == [i \in 1..n |-> points[((i - 1) % Len(points)) + 1]]

\* The recorded points from the start of the window on; their noise and the
\* scaling by instance are left out.
FirstPoint(qs, t) == Quotient(Start(qs, t), Interval(qs))

Recorded(qs, k) == SampleData[TypeOf[qs.entity]][k[1]]

DataSeries(qs, k, n, t) ==
    LET points == Recorded(qs, k)
    IN  [i \in 1..n |-> IF points = <<>> THEN 0
                        ELSE points[((FirstPoint(qs, t) + i - 1) % Len(points)) + 1]]

\* Go's remainder has the sign of the dividend: an index below zero panics.
IndexPanics(qs, k, n, t) ==
    LET points == Recorded(qs, k)
    IN  /\ points # <<>>
        /\ \E i \in 1..n : LET index == FirstPoint(qs, t) + i - 1
                         IN  index < 0 /\ index % Len(points) # 0

-----------------------------------------------------------------------------
(* The metrics of a query.                                                 *)

\* Historical types have nothing to offer for the realtime interval.
queryAvailablePerfMetric(qs) ==
    IF TypeOf[qs.entity] \in Historical /\ qs.interval = Realtime THEN <<>>
    ELSE Available[qs.entity]

\* The instances of a wildcard, or the aggregate of a counter that has none.
Instances(qs, counter) ==
    LET found == Filter(queryAvailablePerfMetric(qs), {counter} \X InstanceName)
    IN  IF found = <<>> THEN <<<<counter, "">>>> ELSE found

expandedMetrics(qs) ==
    FlattenSeq([i \in DOMAIN qs.ids |->
        IF qs.ids[i][2] = Star THEN Instances(qs, qs.ids[i][1]) ELSE <<qs.ids[i]>>])

-----------------------------------------------------------------------------
(* One request, from its arrival to its answer.                            *)

PerfInit ==
    /\ Init
    /\ lock = Free
    /\ query = [c \in Reader |-> NoQuery]
    /\ shown = [c \in Reader |-> {}]

\* A request arrives and waits for the lock; what it asks for does not matter
\* before it has it.
Ask(c) ==
    /\ query[c].pc = "idle"
    /\ query' = [query EXCEPT ![c] = [pc |-> "waiting"]]
    /\ UNCHANGED <<vars, lock, shown>>

QueryPerf(c) ==
    /\ query[c].pc = "waiting"
    /\ lock = Free
    /\ lock' = HeldBy(c)
    /\ \E specs \in Query : query' = [query EXCEPT ![c] = [pc |-> "spec", specs |-> specs]]
    /\ UNCHANGED <<vars, shown>>

Qs(c) == Head(query[c].specs)

\* What a reader of entity e and key k is entitled to see at time t.
InForce(list, k, t) ==
    IF \E i \in DOMAIN list : list[i].key = k /\ (list[i].expires = Never \/ t <= list[i].expires)
    THEN (CHOOSE o \in Range(list) : o.key = k).value
    ELSE NoValue

Showing(e, keys) == {<<k, InForce(metrics[e], k, now)>> : k \in keys}

\* The next specification: its entity type is known, the metrics are expanded
\* and the samples counted.
StartSpec(c) ==
    /\ query[c].pc = "spec" /\ query[c].specs # <<>>
    /\ TypeOf[Qs(c).entity] \in DOMAIN SampleData
    /\ \E n \in SampleCount(Qs(c), now) :
         /\ n >= 0
         /\ query' = [query EXCEPT ![c] =
              [pc |-> "series", specs |-> query[c].specs, todo |-> expandedMetrics(Qs(c)),
               n |-> n, at |-> now, series |-> <<>>]]
    /\ shown' = [shown EXCEPT ![c] = Showing(Qs(c).entity, Range(expandedMetrics(Qs(c))))]
    /\ UNCHANGED <<vars, lock>>

\* A negative count makes make() panic.
NegativeCount(c) ==
    /\ query[c].pc = "spec" /\ query[c].specs # <<>>
    /\ TypeOf[Qs(c).entity] \in DOMAIN SampleData
    /\ \E n \in SampleCount(Qs(c), now) : n < 0
    /\ lock' = Leaked(Qs(c))
    /\ query' = [query EXCEPT ![c] = NoQuery]
    /\ UNCHANGED <<vars, shown>>

\* A faulty variant: the fault is answered without giving up the lock.
InvalidKeepsLock(c) ==
    /\ query[c].pc = "spec" /\ query[c].specs # <<>>
    /\ TypeOf[Qs(c).entity] \notin DOMAIN SampleData
    /\ query' = [query EXCEPT ![c] = NoQuery]
    /\ UNCHANGED <<vars, lock, shown>>

InvalidArgument(c) ==
    /\ query[c].pc = "spec" /\ query[c].specs # <<>>
    /\ TypeOf[Qs(c).entity] \notin DOMAIN SampleData
    /\ lock' = Free
    /\ query' = [query EXCEPT ![c] = NoQuery]
    /\ UNCHANGED <<vars, shown>>

Metric(c) == Head(query[c].todo)

\* The hook takes its copy of the overrides of the entity ...
CallHook(c) ==
    /\ query[c].pc = "series" /\ query[c].todo # <<>>
    /\ \E g \in Guid : GetMetrics(c, [mo |-> Qs(c).entity, guid |-> g], Metric(c))
    /\ query' = [query EXCEPT ![c].pc = "hook"]
    /\ UNCHANGED <<lock, shown>>

\* ... and finds the override in it or none.  Points without values are none.
HookReturns(c) ==
    /\ query[c].pc = "hook"
    /\ MetricOverrideFunc(c)
    /\ query' = [query EXCEPT ![c].pc = "points"]
    /\ UNCHANGED <<lock, shown>>

Overridden(c) == reply[c].value # NoValue /\ reply[c].value # <<>>

AddSeries(c, samples) ==
    query' = [query EXCEPT
        ![c].pc = "series", ![c].todo = Tail(@),
        ![c].series = Append(@, [key |-> Metric(c), samples |-> samples])]

OverrideSeries(c) ==
    /\ query[c].pc = "points" /\ Overridden(c)
    /\ AddSeries(c, Cycle(reply[c].value, query[c].n))
    /\ Forget(c)
    /\ UNCHANGED <<lock, shown>>

SampleSeries(c) ==
    /\ query[c].pc = "points" /\ ~Overridden(c)
    /\ ~IndexPanics(Qs(c), Metric(c), query[c].n, query[c].at)
    /\ AddSeries(c, DataSeries(Qs(c), Metric(c), query[c].n, query[c].at))
    /\ Forget(c)
    /\ UNCHANGED <<lock, shown>>

\* The recorded data is indexed from before the epoch.
NegativeIndex(c) ==
    /\ query[c].pc = "points" /\ ~Overridden(c)
    /\ IndexPanics(Qs(c), Metric(c), query[c].n, query[c].at)
    /\ lock' = Leaked(Qs(c))
    /\ query' = [query EXCEPT ![c] = NoQuery]
    /\ Forget(c)
    /\ UNCHANGED shown

\* A faulty variant: the loop starts over with the same specification.
SpecAgain(c) ==
    /\ query[c].pc = "series" /\ query[c].todo = <<>>
    /\ query' = [query EXCEPT ![c] = [pc |-> "spec", specs |-> query[c].specs]]
    /\ shown' = [shown EXCEPT ![c] = {}]
    /\ UNCHANGED <<vars, lock>>

\* All series of one entity are done.
EndSpec(c) ==
    /\ query[c].pc = "series" /\ query[c].todo = <<>>
    /\ query' = [query EXCEPT ![c] = [pc |-> "spec", specs |-> Tail(query[c].specs)]]
    /\ shown' = [shown EXCEPT ![c] = {}]
    /\ UNCHANGED <<vars, lock>>

Return(c) ==
    /\ query[c].pc = "spec" /\ query[c].specs = <<>>
    /\ lock' = Free
    /\ query' = [query EXCEPT ![c] = NoQuery]
    /\ UNCHANGED <<vars, shown>>

-----------------------------------------------------------------------------
(* What scenarios do to the registry meanwhile.                            *)

\* A running query has now also been shown what holds after the step.
Watch ==
    shown' = [c \in Reader |->
        IF query[c].pc \in {"series", "hook", "points"}
        THEN shown[c] \union
             {<<k, InForce(metrics'[Qs(c).entity], k, now')>> : k \in Range(expandedMetrics(Qs(c)))}
        ELSE shown[c]]

Scenario ==
    /\ \/ \E ref \in Target, o \in MetricOverride : SetMetric(ref, o)
       \/ \E ref \in Target : ClearMetrics(ref)
       \/ ClearAll
       \/ Tick
    /\ Watch
    /\ UNCHANGED <<lock, query>>

QueryStep(c) ==
    \/ StartSpec(c) \/ NegativeCount(c) \/ InvalidArgument(c) \/ CallHook(c)
    \/ HookReturns(c) \/ OverrideSeries(c) \/ SampleSeries(c) \/ NegativeIndex(c)
    \/ EndSpec(c) \/ Return(c)

PerfNext ==
    \/ \E c \in Reader : Ask(c) \/ QueryPerf(c) \/ QueryStep(c)
    \/ Scenario

\* A goroutine that can run does, and a mutex goes to its oldest waiter.
PerfSpec ==
    /\ PerfInit /\ [][PerfNext]_perfVars
    /\ \A c \in Reader : WF_perfVars(QueryStep(c)) /\ SF_perfVars(QueryPerf(c))

-----------------------------------------------------------------------------
(* Properties.                                                             *)

\* The lock belongs to the one query that is past it, and all series of an
\* entity have the number of samples that was counted, never above the cap.
LockAndSamples ==
    /\ \A c \in Reader : query[c].pc \notin {"idle", "waiting"} <=> lock = HeldBy(c)
    /\ \A c \in Reader : query[c].pc = "series" =>
         /\ query[c].n \in 0..SampleCap
         /\ \A i \in DOMAIN query[c].series : Len(query[c].series[i].samples) = query[c].n

\* What the samples of key k are if v is in force, or no values are.
Expected(c, k, v) ==
    IF v \in {NoValue, <<>>} THEN DataSeries(Qs(c), k, query[c].n, query[c].at)
    ELSE Cycle(v, query[c].n)

\* Every series of an answer shows, whole, an override that was in force for
\* its counter and instance at some instant of the query, or recorded data if
\* at some instant none was: a scenario that is activated, cleared or expires
\* half-way may show in some series only, never in part of one, and one that was
\* over before the query began never shows.
SeriesAsShown ==
    \A c \in Reader : query[c].pc = "series" =>
        \A i \in DOMAIN query[c].series :
            \E pair \in shown[c] :
                /\ pair[1] = query[c].series[i].key
                /\ query[c].series[i].samples = Expected(c, pair[1], pair[2])

\* Windows that QueryPerf cannot divide: too long for an int32 or, in intervals
\* of one second, for its successor; with a negative interval; over two intervals
\* or more before they start; or from before 1970.
OddWindow(qs) ==
    \/ qs.interval < -1
    \/ \E t \in 0..MaxTime :
         \/ Start(qs, t) < 0
         \/ End(qs, t) - Start(qs, t) >= Int32Half
         \/ Interval(qs) = 1 /\ End(qs, t) - Start(qs, t) = Int32Half - 1
         \/ Start(qs, t) >= End(qs, t) + 2 * Interval(qs)

\* QueryPerf panics, and keeps the lock, for odd windows only: none that starts
\* after 1970, ends less than two intervals before its start and lasts less than
\* 2^31 seconds, or 2^31 - 1 in intervals of one, makes it index a slice below
\* zero or ask for one of negative length.
PanicNeedsOddWindow == lock.state = "leaked" => OddWindow(lock.by)

(* The registry as the store that queries read: their hook calls may be for *)
(* any counter and instance, not only those that have overrides.           *)
AskedKey ==
    LET Sampled == {qs \in UNION {Range(specs) : specs \in Query} : TypeOf[qs.entity] \in DOMAIN SampleData}
    IN  UNION {Range(expandedMetrics(qs)) : qs \in Sampled}

QueriedStore == INSTANCE OverrideStore WITH
    MetricKey  <- MetricKey \union AskedKey,
    metrics    <- [e \in Entity |-> AsMap(metrics[e])],
    properties <- [e \in Entity |-> AsMap(properties[e])],
    reply      <- [c \in Reader |-> Answer(c)]

\* Whatever queries ask for and whenever they wait, fail or panic, every hook
\* call of theirs answers what the registry held for its metric at one instant.
QueriesReadStore == QueriedStore!StoreSpec

\* Every query is answered, however many others there are, unless a panic has
\* kept the lock: then no query is ever answered again.
QueriesAnswered ==
    \A c \in Reader : query[c].pc # "idle" ~> (query[c].pc = "idle" \/ lock.state = "leaked")
=============================================================================
