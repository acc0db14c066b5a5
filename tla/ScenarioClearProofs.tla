------------------------ MODULE ScenarioClearProofs ------------------------
(***************************************************************************)
(* That nothing survives Manager.ClearAll, for any inventory, catalogue    *)
(* entry, request and number of handlers.                                  *)
(***************************************************************************)
EXTENDS ScenarioManagerProofs

-----------------------------------------------------------------------------
(* The inductive invariant.  An activation in progress began after the     *)
(* last clear-all, because clear-all cannot run beside it; a registry that *)
(* clear-all has emptied stays empty until it forgets the active scenarios *)
(* as well; and a deactivation writes no override.                         *)

Tables == DOMAIN metrics = Entity /\ DOMAIN properties = Entity

Recent(m) == \A k \in DOMAIN m : m[k].value \in since

NoneOlder ==
    /\ \A e \in Entity : Recent(metrics[e]) /\ Recent(properties[e])
    /\ \A k \in DOMAIN active : active[k] \in since

Begun == \A w \in Worker : pc[w] \in Working /\ req[w].op = "activate" => Stamp(w) \in since

Emptied ==
    \A w \in Worker : pc[w] = "cleared" =>
        \A e \in Entity : DOMAIN metrics[e] = {} /\ DOMAIN properties[e] = {}

FinalInv == Tables /\ NoneOlder /\ Begun /\ Emptied

LEMMA FinalInit == Init => FinalInv
<1> SUFFICES ASSUME Init PROVE FinalInv
  OBVIOUS
<1>1. Tables /\ NoneOlder
  BY DEF Init, Tables, NoneOlder, Recent, Registry!EmptyMap
<1>2. Begun /\ Emptied
  BY DEF Init, Begun, Emptied, Working, Waiting
<1>3. QED
  BY <1>1, <1>2 DEF FinalInv

\* A step that changes neither the registry nor the list of active scenarios,
\* and after which no handler is in a loop or has emptied the registry that
\* was not and had not before.
LEMMA FinalQuiet ==
    ASSUME FinalInv, UNCHANGED <<metrics, properties, active, since>>,
           \A u \in Worker : /\ pc'[u] \in Working => pc[u] \in Working /\ req'[u] = req[u]
                             /\ pc'[u] = "cleared" => pc[u] = "cleared"
    PROVE  FinalInv'
<1>1. Tables' /\ NoneOlder'
  BY DEF FinalInv, Tables, NoneOlder, Recent
<1>2. Begun'
  BY DEF FinalInv, Begun, Stamp
<1>3. Emptied'
  BY DEF FinalInv, Emptied
<1>4. QED
  BY <1>1, <1>2, <1>3 DEF FinalInv

\* The same for an answer, which takes its handler out of the Manager.
LEMMA FinalAnswer ==
    ASSUME ManagerInv, FinalInv, NEW w \in Worker, NEW code, NEW keys, Reply(w, code, keys),
           UNCHANGED <<metrics, properties, active, since>>
    PROVE  FinalInv'
<1>1. \A u \in Worker : /\ pc'[u] \in Working => pc[u] \in Working /\ req'[u] = req[u]
                        /\ pc'[u] = "cleared" => pc[u] = "cleared"
  BY DEF ManagerInv, HandlersOK, Reply, Working, Waiting
<1>2. QED
  BY <1>1, FinalQuiet

-----------------------------------------------------------------------------
(* Writing the registry.                                                   *)

\* Only the holder of mu is inside the Manager.
LEMMA OneInside ==
    ASSUME ManagerInv, NEW w \in Worker, pc[w] \in Holding,
           NEW u \in Worker, pc[u] \in Holding
    PROVE  u = w
BY DEF ManagerInv, HolderInvariant

\* A step of a script that leaves every map of the registry as it was, or
\* empty, or with one more override of an activation in progress.
LEMMA FinalWrite ==
    ASSUME ManagerInv, FinalInv, NEW w \in Worker, Moves(w), UNCHANGED since,
           Tables',
           \A e \in Entity : Recent(metrics[e])' /\ Recent(properties[e])'
    PROVE  FinalInv'
<1>1. NoneOlder'
  BY DEF FinalInv, NoneOlder, Moves
<1>2. \A u \in Worker : pc'[u] \in Working => pc[u] \in Working
  BY DEF ManagerInv, HandlersOK, Moves
<1>3. Begun'
  BY <1>2 DEF FinalInv, Begun, Stamp, Moves
<1>4. \A u \in Worker : pc[u] # "cleared"
  BY OneInside DEF Holding, Moves, Working, Waiting
<1>5. \A u \in Worker : pc'[u] # "cleared"
  BY <1>4 DEF ManagerInv, HandlersOK, Moves, Working, Waiting
<1>6. Emptied'
  BY <1>5 DEF Emptied
<1>7. QED
  BY <1>1, <1>3, <1>6 DEF FinalInv

\* An override is only set by an activation.
LEMMA SetByActivation ==
    ASSUME ManagerInv, FinalInv, NEW w \in Worker, pc[w] \in Working, local[w].script # <<>>,
           Doing(w).op \in {"setMetric", "setProperty", "strike"}
    PROVE  OverrideBy(w).value \in since
<1>1. ASSUME req[w].op = "deactivate" PROVE FALSE
  <2>1. Doing(w) \in UndoEntry
    BY <1>1 DEF ManagerInv, Undoes, Doing
  <2>2. QED
    BY <2>1 DEF UndoEntry
<1>2. req[w].op = "activate"
  BY <1>1 DEF ManagerInv, Place
<1>3. QED
  BY <1>2 DEF FinalInv, Begun, OverrideBy

LEMMA PutRecent ==
    ASSUME NEW m, Recent(m), NEW k, NEW o, o.value \in since, since' = since
    PROVE  \A j \in DOMAIN Registry!Put(m, k, o) : Registry!Put(m, k, o)[j].value \in since'
BY DEF Recent, Registry!Put

LEMMA EmptyRecent ==
    \A j \in DOMAIN Registry!EmptyMap : FALSE
BY DEF Registry!EmptyMap

LEMMA MetricWrite ==
    ASSUME ManagerInv, FinalInv, NEW w \in Worker, Moves(w), UNCHANGED since,
           local[w].script # <<>>, Doing(w).op = "setMetric",
           NEW c, Registry!SetMetric(Doing(w).ref, c, OverrideBy(w))
    PROVE  FinalInv'
<1> DEFINE e0 == Doing(w).ref
           m0 == Registry!Put(metrics[e0], c, OverrideBy(w))
<1>1. metrics' = [metrics EXCEPT ![e0] = m0] /\ UNCHANGED properties
  BY DEF Registry!SetMetric
<1>2. OverrideBy(w).value \in since
  BY SetByActivation DEF Moves
<1>3. ASSUME e0 \in Entity
      PROVE  \A j \in DOMAIN m0 : m0[j].value \in since'
  BY <1>2, <1>3, PutRecent DEF FinalInv, NoneOlder
<1> HIDE DEF e0, m0
<1>4. Tables'
  BY <1>1 DEF FinalInv, Tables
<1>5. ASSUME NEW e \in Entity PROVE Recent(metrics[e])' /\ Recent(properties[e])'
  <2>1. Recent(properties[e])'
    BY <1>1 DEF FinalInv, NoneOlder, Recent
  <2>2. CASE e = e0
    BY <1>1, <1>3, <2>1, <2>2 DEF FinalInv, Tables, Recent
  <2>3. CASE e # e0
    BY <1>1, <2>1, <2>3 DEF FinalInv, Tables, NoneOlder, Recent
  <2>4. QED
    BY <2>2, <2>3
<1>6. QED
  BY <1>4, <1>5, FinalWrite

LEMMA PropertyWrite ==
    ASSUME ManagerInv, FinalInv, NEW w \in Worker, Moves(w), UNCHANGED since,
           local[w].script # <<>>, Doing(w).op \in {"setProperty", "strike"},
           NEW p, Registry!SetProperty(Doing(w).ref, p, OverrideBy(w))
    PROVE  FinalInv'
<1> DEFINE e0 == Doing(w).ref
           m0 == Registry!Put(properties[e0], p, OverrideBy(w))
<1>1. properties' = [properties EXCEPT ![e0] = m0] /\ UNCHANGED metrics
  BY DEF Registry!SetProperty
<1>2. OverrideBy(w).value \in since
  BY SetByActivation DEF Moves
<1>3. ASSUME e0 \in Entity
      PROVE  \A j \in DOMAIN m0 : m0[j].value \in since'
  BY <1>2, <1>3, PutRecent DEF FinalInv, NoneOlder
<1> HIDE DEF e0, m0
<1>4. Tables'
  BY <1>1 DEF FinalInv, Tables
<1>5. ASSUME NEW e \in Entity PROVE Recent(metrics[e])' /\ Recent(properties[e])'
  <2>1. Recent(metrics[e])'
    BY <1>1 DEF FinalInv, NoneOlder, Recent
  <2>2. CASE e = e0
    BY <1>1, <1>3, <2>1, <2>2 DEF FinalInv, Tables, Recent
  <2>3. CASE e # e0
    BY <1>1, <2>1, <2>3 DEF FinalInv, Tables, NoneOlder, Recent
  <2>4. QED
    BY <2>2, <2>3
<1>6. QED
  BY <1>4, <1>5, FinalWrite

LEMMA RegistryKept ==
    ASSUME ManagerInv, FinalInv, NEW w \in Worker, Moves(w),
           UNCHANGED <<metrics, properties, since>>
    PROVE  FinalInv'
<1>1. Tables'
  BY DEF FinalInv, Tables
<1>2. ASSUME NEW e \in Entity PROVE Recent(metrics[e])' /\ Recent(properties[e])'
  BY DEF FinalInv, NoneOlder, Recent
<1>3. QED
  BY <1>1, <1>2, FinalWrite

LEMMA FinalLocked ==
    ASSUME ManagerInv, FinalInv, NEW w \in Worker, Locked(w)
    PROVE  FinalInv'
<1>1. CASE SetMetricStep(w)
  <2>1. Moves(w)
    BY <1>1, WorkMoves DEF Works
  <2>2. /\ local[w].script # <<>> /\ Doing(w).op = "setMetric" /\ UNCHANGED since
        /\ \E c : Registry!SetMetric(Doing(w).ref, c, OverrideBy(w))
    BY <1>1 DEF SetMetricStep, Upcoming, RegistryOnly
  <2>3. QED
    BY <2>1, <2>2, MetricWrite
<1>2. CASE SetPropertyStep(w)
  <2>1. Moves(w)
    BY <1>2, WorkMoves DEF Works
  <2>2. /\ local[w].script # <<>> /\ Doing(w).op = "setProperty" /\ UNCHANGED since
        /\ \E p : Registry!SetProperty(Doing(w).ref, p, OverrideBy(w))
    BY <1>2 DEF SetPropertyStep, Upcoming, RegistryOnly
  <2>3. QED
    BY <2>1, <2>2, PropertyWrite
<1>3. CASE ClearMetricsStep(w)
  <2>1. Moves(w)
    BY <1>3, WorkMoves DEF Works
  <2>2. /\ metrics' = [metrics EXCEPT ![Doing(w).ref] = Registry!EmptyMap]
        /\ UNCHANGED <<properties, since>>
    BY <1>3 DEF ClearMetricsStep, RegistryOnly, Registry!ClearMetrics
  <2>3. Tables'
    BY <2>2 DEF FinalInv, Tables
  <2>4. ASSUME NEW e \in Entity PROVE Recent(metrics[e])' /\ Recent(properties[e])'
    BY <2>2, EmptyRecent DEF FinalInv, Tables, NoneOlder, Recent
  <2>5. QED
    BY <2>1, <2>2, <2>3, <2>4, FinalWrite
<1>4. CASE ClearPropertiesStep(w)
  <2>1. Moves(w)
    BY <1>4, WorkMoves DEF Works
  <2>2. /\ properties' = [properties EXCEPT ![Doing(w).ref] = Registry!EmptyMap]
        /\ UNCHANGED <<metrics, since>>
    BY <1>4 DEF ClearPropertiesStep, RegistryOnly, Registry!ClearProperties
  <2>3. Tables'
    BY <2>2 DEF FinalInv, Tables
  <2>4. ASSUME NEW e \in Entity PROVE Recent(metrics[e])' /\ Recent(properties[e])'
    BY <2>2, EmptyRecent DEF FinalInv, Tables, NoneOlder, Recent
  <2>5. QED
    BY <2>1, <2>2, <2>3, <2>4, FinalWrite
<1>5. CASE ClearRegistry(w)
  <2>1. /\ pc[w] = "clearing" /\ pc' = [pc EXCEPT ![w] = "cleared"]
        /\ metrics' = [e \in Entity |-> Registry!EmptyMap]
        /\ properties' = [e \in Entity |-> Registry!EmptyMap]
        /\ UNCHANGED <<active, since, req>>
    BY <1>5 DEF ClearRegistry, Registry!ClearAll
  <2>2. Tables' /\ \A e \in Entity : DOMAIN metrics'[e] = {} /\ DOMAIN properties'[e] = {}
    BY <2>1 DEF Tables, Registry!EmptyMap
  <2>3. NoneOlder' /\ Emptied'
    BY <2>1, <2>2 DEF FinalInv, NoneOlder, Recent, Emptied
  <2>4. Begun'
    BY <2>1 DEF ManagerInv, HandlersOK, FinalInv, Begun, Stamp, Working, Waiting
  <2>5. QED
    BY <2>2, <2>3, <2>4 DEF FinalInv
<1>6. CASE ClearActive(w)
  <2>1. /\ pc[w] = "cleared" /\ active' = Registry!EmptyMap
        /\ UNCHANGED <<metrics, properties>> /\ Reply(w, "ok", {})
    BY <1>6 DEF ClearActive, Return, storeVars
  <2>2. ASSUME NEW u \in Worker PROVE pc'[u] \notin Holding
    <3>1. CASE u = w
      BY <2>1, <3>1 DEF ManagerInv, HandlersOK, Reply, Holding, Working, Waiting
    <3>2. CASE u # w
      <4>1. pc[u] \notin Holding
        BY <2>1, <3>2, OneInside DEF Holding
      <4>2. QED
        BY <2>1, <3>2, <4>1 DEF ManagerInv, HandlersOK, Reply
    <3>3. QED
      BY <3>1, <3>2
  <2>3. Tables' /\ NoneOlder'
    BY <2>1, EmptyRecent DEF FinalInv, Tables, NoneOlder, Recent, Emptied
  <2>4. Begun' /\ Emptied'
    BY <2>2 DEF Begun, Emptied, Holding
  <2>5. QED
    BY <2>3, <2>4 DEF FinalInv
<1>7. CASE Complete(w)
  <2>1. /\ pc[w] = "running" /\ Reply(w, "ok", {})
        /\ UNCHANGED <<metrics, properties, since>>
        /\ active' = IF req[w].op = "activate"
                     THEN Registry!Put(active, ReqKey(w), Stamp(w))
                     ELSE [k \in DOMAIN active \ {ReqKey(w)} |-> active[k]]
    BY <1>7 DEF Complete, Return, storeVars
  <2>2. \A k \in DOMAIN active' : active'[k] \in since
    BY <2>1 DEF FinalInv, NoneOlder, Begun, Registry!Put, Working
  <2>3. Tables' /\ NoneOlder'
    BY <2>1, <2>2 DEF FinalInv, Tables, NoneOlder, Recent
  <2>4. Begun' /\ Emptied'
    BY <2>1 DEF ManagerInv, HandlersOK, FinalInv, Begun, Emptied, Reply, Stamp, Working, Waiting
  <2>5. QED
    BY <2>3, <2>4 DEF FinalInv
<1>8. CASE TargetNotFound(w) \/ PanicStep(w) \/ CallFails(w) \/ WaitFails(w)
  <2>1. /\ \E code : Reply(w, code, {})
        /\ UNCHANGED <<metrics, properties, active, since>>
    BY <1>8 DEF TargetNotFound, PanicStep, CallFails, WaitFails, Return, storeVars
  <2>2. QED
    BY <2>1, FinalAnswer
<1>9. ASSUME \/ SkipHost(w) \/ SendCall(w) \/ CallIgnored(w) \/ StartTask(w)
             \/ CreatePropertyCollector(w) \/ CreateFilter(w) \/ WaitForUpdatesEx(w)
             \/ ReceiveUpdate(w)
      PROVE  FinalInv'
  <2>1. Moves(w)
    BY <1>9, WorkMoves DEF Works
  <2>2. UNCHANGED <<metrics, properties, since>>
    BY <1>9 DEF SkipHost, SendCall, CallIgnored, StartTask, CreatePropertyCollector,
               CreateFilter, WaitForUpdatesEx, ReceiveUpdate, RegistryOnly, RequestOnly,
               storeVars
  <2>3. QED
    BY <2>1, <2>2, RegistryKept
<1>10. ASSUME WaitDone(w) \/ WaitIgnored(w)
       PROVE  FinalInv'
  <2>1. Moves(w)
    BY <1>10, WorkMoves DEF Works
  <2>2. PICK e : AfterCall(w, e)
    BY <1>10 DEF WaitDone, WaitIgnored
  <2>3. pc[w] \in Waiting
    BY <1>10 DEF WaitDone, WaitIgnored, WaitLost, Waiting
  <2>4. local[w].script # <<>>
    BY <2>3 DEF ManagerInv, Awaits
  <2>5. CASE Doing(w).op = "strike" /\ Doing(w).mark # NoMark
    BY <2>1, <2>2, <2>4, <2>5, PropertyWrite DEF AfterCall
  <2>6. CASE ~(Doing(w).op = "strike" /\ Doing(w).mark # NoMark)
    BY <2>1, <2>2, <2>6, RegistryKept DEF AfterCall, storeVars
  <2>7. QED
    BY <2>5, <2>6
<1>11. CASE NextTarget(w) \/ SkipTarget(w)
  <2>1. UNCHANGED <<metrics, properties, active, since, pc, req>>
    BY <1>11 DEF NextTarget, SkipTarget, storeVars
  <2>2. QED
    BY <2>1, FinalQuiet
<1>12. QED
  BY <1>1, <1>2, <1>3, <1>4, <1>5, <1>6, <1>7, <1>8, <1>9, <1>10, <1>11 DEF Locked

\* Taking the lock: an activation is counted among those since the clear-all.
LEMMA FinalAcquire ==
    ASSUME ManagerInv, FinalInv, NEW w \in Worker, Acquire(w)
    PROVE  FinalInv'
<1>1. CASE ListActive(w) \/ ActivateUnknown(w) \/ DeactivateInactive(w)
  <2>1. /\ \E code, keys : Reply(w, code, keys)
        /\ UNCHANGED <<metrics, properties, active, since>>
    BY <1>1 DEF ListActive, ActivateUnknown, DeactivateInactive, storeVars
  <2>2. QED
    BY <2>1, FinalAnswer
<1>2. CASE Activate(w)
  <2>1. /\ pc' = [pc EXCEPT ![w] = "running"] /\ since' = since \union {Stamp(w)}
        /\ UNCHANGED <<metrics, properties, active, req>>
    BY <1>2 DEF Activate, Enter, storeVars
  <2>2. Tables' /\ NoneOlder'
    BY <2>1 DEF FinalInv, Tables, NoneOlder, Recent
  <2>3. Begun' /\ Emptied'
    BY <2>1 DEF ManagerInv, HandlersOK, FinalInv, Begun, Emptied, Stamp, Working, Waiting
  <2>4. QED
    BY <2>2, <2>3 DEF FinalInv
<1>3. CASE Deactivate(w)
  <2>1. /\ pc' = [pc EXCEPT ![w] = "running"] /\ req[w].op = "deactivate"
        /\ UNCHANGED <<metrics, properties, active, req, since>>
    BY <1>3 DEF Deactivate, CanEnter, Enter, storeVars
  <2>2. Tables' /\ NoneOlder'
    BY <2>1 DEF FinalInv, Tables, NoneOlder, Recent
  <2>3. Begun' /\ Emptied'
    BY <2>1 DEF ManagerInv, HandlersOK, FinalInv, Begun, Emptied, Stamp, Working, Waiting
  <2>4. QED
    BY <2>2, <2>3 DEF FinalInv
<1>4. CASE ClearAll(w)
  <2>1. /\ pc' = [pc EXCEPT ![w] = "clearing"]
        /\ UNCHANGED <<metrics, properties, active, req, since>>
    BY <1>4 DEF ClearAll, storeVars
  <2>2. \A u \in Worker : /\ pc'[u] \in Working => pc[u] \in Working /\ req'[u] = req[u]
                          /\ pc'[u] = "cleared" => pc[u] = "cleared"
    BY <2>1 DEF ManagerInv, HandlersOK, Working, Waiting
  <2>3. QED
    BY <2>1, <2>2, FinalQuiet
<1>5. QED
  BY <1>1, <1>2, <1>3, <1>4 DEF Acquire

LEMMA FinalStep == ManagerInv /\ FinalInv /\ [Next]_vars => FinalInv'
<1> SUFFICES ASSUME ManagerInv, FinalInv, [Next]_vars PROVE FinalInv'
  OBVIOUS
<1>1. ASSUME NEW w \in Worker, NEW r \in Request, Arrive(w, r) PROVE FinalInv'
  <2>1. /\ pc[w] = "idle" /\ pc' = [pc EXCEPT ![w] = "received"]
        /\ req' = [req EXCEPT ![w] = r]
        /\ UNCHANGED <<metrics, properties, active, since>>
    BY <1>1 DEF Arrive, storeVars
  <2>2. \A u \in Worker : /\ pc'[u] \in Working => pc[u] \in Working /\ req'[u] = req[u]
                          /\ pc'[u] = "cleared" => pc[u] = "cleared"
    BY <2>1 DEF ManagerInv, HandlersOK, Working, Waiting
  <2>3. QED
    BY <2>1, <2>2, FinalQuiet
<1>2. ASSUME NEW w \in Worker, Reject(w) PROVE FinalInv'
  BY <1>2, FinalAnswer DEF Reject, storeVars
<1>3. ASSUME NEW w \in Worker, Acquire(w) PROVE FinalInv'
  BY <1>3, FinalAcquire
<1>4. ASSUME NEW w \in Worker, Locked(w) PROVE FinalInv'
  BY <1>4, FinalLocked
<1>5. ASSUME \/ Tick \/ (\E e \in Entity : RunTask(e)) \/ (\E s : ServeFrom(s) \/ Logout(s))
             \/ (\E p \in Renamable : RenameTask(p)) \/ UNCHANGED vars
      PROVE  FinalInv'
  <2>1. UNCHANGED <<metrics, properties, active, since, pc, req>>
    BY <1>5, RunsAlone DEF Tick, Registry!Tick, ServeFrom, Logout, SessionsOnly, RenameTask,
                           vars, handlerVars, storeVars
  <2>2. QED
    BY <2>1, FinalQuiet
<1>6. QED
  BY <1>1, <1>2, <1>3, <1>4, <1>5 DEF Next

LEMMA FinalInvSuffices == FinalInv => ClearAllIsFinal
BY DEF FinalInv, NoneOlder, Recent, ClearAllIsFinal, OverridesOn

\* Whatever is overridden or listed was brought about by an activation that
\* took Manager.mu after the last ClearAll released it.
THEOREM ManagerClearAllIsFinal == Spec => []ClearAllIsFinal
<1>1. QED
  BY ManagerInit, ManagerStep, FinalInit, FinalStep, FinalInvSuffices, PTL DEF Spec
=============================================================================
