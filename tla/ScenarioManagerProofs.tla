----------------------- MODULE ScenarioManagerProofs -----------------------
(***************************************************************************)
(* Proofs about the scenario controller, for any inventory, requests and   *)
(* number of handlers: the discipline of Manager.mu, and that overlapping  *)
(* requests are linearizable.                                              *)
(***************************************************************************)
EXTENDS ScenarioManager, TLAPS

-----------------------------------------------------------------------------
(* What a deactivation may do: no call whose error ends it, no panic.      *)

MaybeEntity == Entity \union {NoEntity}

UndoEntry ==
    [op : {"clearMetrics", "clearProperties"}, ref : MaybeEntity] \union
    [op : {"reconnect", "exitMaintenance", "powerOn"}, ref : MaybeEntity,
     onErr : {"ignore"}, onWait : {"ignore"}]

LEMMA DeactivationScript ==
    ASSUME NEW id, NEW p \in Path
    PROVE  deactivateScenario(id, p) \in Seq(UndoEntry)
<1>1. HostSystem(p) \in MaybeEntity /\ VirtualMachine(p) \in MaybeEntity /\ resolveRef(p) \in MaybeEntity
  BY InventoryAssumption DEF HostSystem, VirtualMachine, resolveRef, MaybeEntity
<1>2. ASSUME NEW e \in MaybeEntity PROVE ClearOverrides(e) \in Seq(UndoEntry)
  BY DEF ClearOverrides, UndoEntry
<1>3. ASSUME NEW e \in MaybeEntity, NEW n \in {"reconnect", "exitMaintenance", "powerOn"}
      PROVE  <<Attempt(n, e)>> \in Seq(UndoEntry)
  BY DEF Attempt, Call, UndoEntry
<1>4. deactivateHostDisconnect(p) \in Seq(UndoEntry)
  BY <1>1, <1>2, <1>3 DEF deactivateHostDisconnect
<1>5. deactivateHostMaintenance(p) \in Seq(UndoEntry)
  BY <1>1, <1>3 DEF deactivateHostMaintenance
<1>6. deactivateVMCrash(p) \in Seq(UndoEntry)
  BY <1>1, <1>2, <1>3 DEF deactivateVMCrash
<1>7. deactivateClearOverrides(p) \in Seq(UndoEntry)
  BY <1>1, <1>2 DEF deactivateClearOverrides
<1>8. QED
  BY <1>4, <1>5, <1>6, <1>7 DEF deactivateScenario

-----------------------------------------------------------------------------
(* The inductive invariant.  Besides the lock discipline it says which     *)
(* requests can be where, that a handler that waits is at a call, and that *)
(* a running deactivation has nothing ahead of it that could end it early: *)
(* an answer other than "ok" after the lock is taken can only be an        *)
(* activation's.                                                           *)

HandlersOK ==
    /\ mu \in Worker \union {Free}
    /\ pc \in [Worker -> {"idle", "received"} \union Holding]
    /\ req \in [Worker -> Request \union {NoRequest}]
    /\ DOMAIN local = Worker
    /\ \A w \in Worker : DOMAIN local[w] = DOMAIN NotRunning
    /\ DOMAIN answer = Worker

Place(w) ==
    /\ pc[w] # "idle" => req[w] \in Request
    /\ pc[w] \in Working => req[w].op \in {"activate", "deactivate"}
    /\ pc[w] \in {"clearing", "cleared"} => req[w].op = "clearAll"

Undoes(w) ==
    pc[w] \in Working /\ req[w].op = "deactivate" =>
        local[w].rest \in Seq(Path) /\ local[w].script \in Seq(UndoEntry)

Awaits(w) ==
    pc[w] \in Waiting => local[w].script # <<>> /\ TaskOf(Doing(w)) \in VSphereTask

ManagerInv ==
    /\ HandlersOK
    /\ HolderInvariant
    /\ \A w \in Worker : Place(w) /\ Undoes(w) /\ Awaits(w)

LEMMA ManagerInit == Init => ManagerInv
<1> SUFFICES ASSUME Init PROVE ManagerInv
  OBVIOUS
<1>1. HandlersOK
  BY DEF Init, HandlersOK
<1>2. HolderInvariant
  BY ManagerAssumption DEF Init, HolderInvariant, Holding, Working, Waiting
<1>3. \A w \in Worker : Place(w) /\ Undoes(w) /\ Awaits(w)
  BY DEF Init, Place, Undoes, Awaits, Working, Waiting
<1>4. QED
  BY <1>1, <1>2, <1>3 DEF ManagerInv

\* A step that leaves lock, map and handlers alone.
LEMMA QuietStep ==
    ManagerInv /\ UNCHANGED <<mu, active, handlerVars>> => ManagerInv'
BY DEF ManagerInv, HandlersOK, HolderInvariant, Place, Undoes, Awaits, Doing,
       handlerVars, ReqKey

\* A step of the handler that holds mu, inside Activate or Deactivate.
Moves(w) ==
    /\ pc[w] \in Working /\ pc'[w] \in Working
    /\ pc' = [pc EXCEPT ![w] = pc'[w]]
    /\ DOMAIN local' = Worker /\ DOMAIN local'[w] = DOMAIN NotRunning
    /\ \A u \in Worker \ {w} : local'[u] = local[u]
    /\ UNCHANGED <<mu, active, req, answer>>

LEMMA MoveStep ==
    ASSUME ManagerInv, NEW w \in Worker, Moves(w), Undoes(w)', Awaits(w)'
    PROVE  ManagerInv'
<1>1. HandlersOK'
  BY DEF ManagerInv, HandlersOK, Moves, Holding
<1>2. ASSUME NEW u \in Worker, u # w
      PROVE  pc'[u] = pc[u] /\ local'[u] = local[u]
  BY <1>2 DEF ManagerInv, HandlersOK, Moves
<1>3. HolderInvariant'
  BY <1>2 DEF ManagerInv, HolderInvariant, ReqKey, Moves, Holding
<1>4. ASSUME NEW u \in Worker PROVE (Place(u) /\ Undoes(u) /\ Awaits(u))'
  <2>1. CASE u = w
    <3>1. Place(w)'
      BY DEF ManagerInv, Place, Moves, Working, Waiting
    <3>2. QED
      BY <2>1, <3>1
  <2>2. CASE u # w
    BY <1>2, <2>2 DEF ManagerInv, Place, Undoes, Awaits, Doing, Moves
  <2>3. QED
    BY <2>1, <2>2
<1>5. QED
  BY <1>1, <1>3, <1>4 DEF ManagerInv

\* A step of the script: the rest of it is as harmless as before.
Works(w) ==
    \/ SetMetricStep(w) \/ SetPropertyStep(w)
    \/ ClearMetricsStep(w) \/ ClearPropertiesStep(w)
    \/ SkipHost(w) \/ SendCall(w) \/ CallIgnored(w) \/ StartTask(w)
    \/ CreatePropertyCollector(w) \/ CreateFilter(w) \/ WaitForUpdatesEx(w)
    \/ ReceiveUpdate(w) \/ WaitDone(w) \/ WaitIgnored(w)

\* Where the entry that w is at is left, and where it is not.
Done(w) ==
    /\ local[w].script # <<>> /\ local'[w].script = Tail(local[w].script)
    /\ pc'[w] = "running"

Stays(w) == local'[w].script = local[w].script /\ (pc'[w] \in Waiting => Awaits(w)')

\* What a record of a goroutine consists of.
LEMMA LocalFields ==
    ASSUME ManagerInv, NEW w \in Worker
    PROVE  DOMAIN local[w] = {"rest", "script", "struck", "expiry", "collector", "refused",
                              "unwatched"}
BY DEF ManagerInv, HandlersOK, NotRunning

LEMMA LocalMoves ==
    ASSUME ManagerInv, NEW w \in Worker, pc[w] \in Working,
           NEW x \in Working, pc' = [pc EXCEPT ![w] = x],
           NEW l, local' = [local EXCEPT ![w] = l], DOMAIN l = DOMAIN local[w],
           UNCHANGED <<mu, active, req, answer>>
    PROVE  Moves(w) /\ local'[w] = l /\ pc'[w] = x
<1>1. DOMAIN local = Worker /\ DOMAIN pc = Worker /\ DOMAIN local[w] = DOMAIN NotRunning
  BY DEF ManagerInv, HandlersOK
<1>2. QED
  BY <1>1 DEF Moves

LEMMA RunningMoves ==
    ASSUME ManagerInv, NEW w \in Worker, pc[w] = "running",
           NEW l, local' = [local EXCEPT ![w] = l], DOMAIN l = DOMAIN local[w],
           UNCHANGED <<mu, active, pc, req, answer>>
    PROVE  Moves(w) /\ local'[w] = l
<1>1. DOMAIN local = Worker /\ DOMAIN local[w] = DOMAIN NotRunning
  BY DEF ManagerInv, HandlersOK
<1>2. local'[w] = l /\ \A u \in Worker \ {w} : local'[u] = local[u]
  BY <1>1
<1>3. pc' = [pc EXCEPT ![w] = pc'[w]]
  BY DEF ManagerInv, HandlersOK
<1>4. pc[w] \in Working /\ pc'[w] \in Working
  BY DEF Working
<1>5. QED
  BY <1>1, <1>2, <1>3, <1>4 DEF Moves

LEMMA AdvanceMoves ==
    ASSUME ManagerInv, NEW w \in Worker, pc[w] = "running", local[w].script # <<>>,
           Advance(w), UNCHANGED <<mu, active, pc, req, answer>>
    PROVE  Moves(w) /\ local'[w].rest = local[w].rest /\ Done(w)
<1> DEFINE l == [local[w] EXCEPT !.script = Tail(@)]
<1>1. l.rest = local[w].rest /\ l.script = Tail(local[w].script) /\ DOMAIN l = DOMAIN local[w]
  BY LocalFields
<1>2. local' = [local EXCEPT ![w] = l]
  BY DEF Advance
<1> HIDE DEF l
<1>3. Moves(w) /\ local'[w] = l
  BY <1>1, <1>2, RunningMoves
<1>4. QED
  BY <1>1, <1>3 DEF Done

LEMMA GotoMoves ==
    ASSUME ManagerInv, NEW w \in Worker, pc[w] \in Working, NEW x \in Waiting, Goto(w, x),
           local[w].script # <<>>, TaskOf(Doing(w)) \in VSphereTask,
           UNCHANGED <<mu, active, local, req, answer>>
    PROVE  Moves(w) /\ local'[w].rest = local[w].rest /\ Stays(w)
BY DEF ManagerInv, HandlersOK, Moves, Stays, Goto, Working, Awaits, Doing

LEMMA AfterCallMoves ==
    ASSUME ManagerInv, NEW w \in Worker, pc[w] \in Waiting, NEW e, AfterCall(w, e)
    PROVE  Moves(w) /\ local'[w].rest = local[w].rest /\ Done(w)
<1> DEFINE l == [local[w] EXCEPT !.script = Tail(@), !.collector = NoSession,
                                 !.struck = IF Doing(w).op = "strike" THEN @ + 1 ELSE @,
                                 !.unwatched = @ \union e]
<1>1. l.rest = local[w].rest /\ l.script = Tail(local[w].script) /\ DOMAIN l = DOMAIN local[w]
  BY LocalFields
<1>2. local' = [local EXCEPT ![w] = l]
  BY DEF AfterCall
<1> HIDE DEF l
<1>3. /\ pc[w] \in Working /\ "running" \in Working /\ pc' = [pc EXCEPT ![w] = "running"]
      /\ UNCHANGED <<mu, active, req, answer>>
  BY DEF AfterCall, Goto, Working
<1>4. Moves(w) /\ local'[w] = l /\ pc'[w] = "running"
  BY <1>1, <1>2, <1>3, LocalMoves
<1>5. QED
  BY <1>1, <1>4 DEF Done, ManagerInv, Awaits

LEMMA WorkMoves ==
    ASSUME ManagerInv, NEW w \in Worker, Works(w)
    PROVE  Moves(w) /\ local'[w].rest = local[w].rest /\ (Done(w) \/ Stays(w))
<1>1. ASSUME \/ SetMetricStep(w) \/ SetPropertyStep(w)
             \/ ClearMetricsStep(w) \/ ClearPropertiesStep(w) \/ SkipHost(w)
      PROVE  Moves(w) /\ local'[w].rest = local[w].rest /\ Done(w)
  <2>1. /\ pc[w] = "running" /\ local[w].script # <<>>
        /\ Advance(w) /\ UNCHANGED <<mu, active, pc, req, answer>>
    BY <1>1 DEF SetMetricStep, SetPropertyStep, ClearMetricsStep, ClearPropertiesStep,
               SkipHost, RegistryOnly, Upcoming
  <2>2. QED
    BY <2>1, AdvanceMoves
<1>2. CASE CallIgnored(w)
  <2> DEFINE l == [local[w] EXCEPT !.script = Tail(@), !.refused = @ \union {Doing(w).ref}]
  <2>1. l.rest = local[w].rest /\ l.script = Tail(local[w].script) /\ DOMAIN l = DOMAIN local[w]
    BY LocalFields
  <2>2. /\ pc[w] = "running" /\ local[w].script # <<>> /\ local' = [local EXCEPT ![w] = l]
        /\ UNCHANGED <<mu, active, pc, req, answer>>
    BY <1>2 DEF CallIgnored, AtCall, RegistryOnly
  <2> HIDE DEF l
  <2>3. Moves(w) /\ local'[w] = l
    BY <2>1, <2>2, RunningMoves
  <2>4. QED
    BY <2>1, <2>2, <2>3 DEF Done
<1>3. ASSUME pc[w] \in Waiting
      PROVE  pc[w] \in Working /\ local[w].script # <<>> /\ TaskOf(Doing(w)) \in VSphereTask
  BY <1>3 DEF ManagerInv, Awaits, Working
<1>4. CASE SendCall(w)
  BY <1>4, GotoMoves DEF SendCall, AtCall, RequestOnly, Working, Waiting
<1>5. CASE StartTask(w)
  BY <1>3, <1>5, GotoMoves DEF StartTask, Waiting
<1>6. CASE CreatePropertyCollector(w)
  BY <1>3, <1>6 DEF CreatePropertyCollector, RequestOnly, Goto, ManagerInv, HandlersOK,
                    Moves, Stays, Awaits, Doing, NotRunning, Working, Waiting
<1>7. CASE CreateFilter(w)
  BY <1>3, <1>7, GotoMoves DEF CreateFilter, RequestOnly, Waiting
<1>8. CASE WaitForUpdatesEx(w)
  BY <1>3, <1>8, GotoMoves DEF WaitForUpdatesEx, RequestOnly, Waiting
<1>9. CASE ReceiveUpdate(w)
  BY <1>3, <1>9, GotoMoves DEF ReceiveUpdate, RequestOnly, Waiting
<1>10. ASSUME WaitDone(w) \/ WaitIgnored(w)
       PROVE  pc[w] \in Waiting /\ \E e : AfterCall(w, e)
  BY <1>10 DEF WaitDone, WaitIgnored, WaitLost, Waiting
<1>11. QED
  BY <1>1, <1>2, <1>4, <1>5, <1>6, <1>7, <1>8, <1>9, <1>10, AfterCallMoves DEF Works

LEMMA WorkStep ==
    ASSUME ManagerInv, NEW w \in Worker, Works(w)
    PROVE  ManagerInv'
<1>1. Moves(w) /\ local'[w].rest = local[w].rest /\ (Done(w) \/ Stays(w))
  BY WorkMoves
<1>2. Awaits(w)'
  BY <1>1 DEF Done, Stays, Awaits, Waiting
<1>3. Undoes(w)'
  <2> SUFFICES ASSUME pc'[w] \in Working, req'[w].op = "deactivate"
               PROVE  local'[w].rest \in Seq(Path) /\ local'[w].script \in Seq(UndoEntry)
    BY DEF Undoes
  <2>1. local[w].rest \in Seq(Path) /\ local[w].script \in Seq(UndoEntry)
    BY <1>1 DEF ManagerInv, Undoes, Moves
  <2>2. local[w].script # <<>> => Tail(local[w].script) \in Seq(UndoEntry)
    BY <2>1
  <2>3. QED
    BY <1>1, <2>1, <2>2 DEF Done, Stays
<1>4. QED
  BY <1>1, <1>2, <1>3, MoveStep

\* An answer of a handler that does not hold mu.
LEMMA AnswerStep ==
    ASSUME ManagerInv, NEW w \in Worker, pc[w] = "received",
           NEW code, NEW keys, Reply(w, code, keys), UNCHANGED <<mu, active>>
    PROVE  ManagerInv'
<1>1. HandlersOK'
  BY DEF ManagerInv, HandlersOK, Reply
<1>2. HolderInvariant'
  BY DEF ManagerInv, HolderInvariant, HandlersOK, Holding, Working, Waiting,
         Reply, ReqKey
<1>3. ASSUME NEW u \in Worker PROVE (Place(u) /\ Undoes(u) /\ Awaits(u))'
  BY DEF ManagerInv, HandlersOK, Place, Undoes, Awaits, Doing, Reply, Working, Waiting
<1>4. QED
  BY <1>1, <1>2, <1>3 DEF ManagerInv

\* The return of a method that holds mu: nobody else is inside, so whatever
\* it does to the map cannot pull an entry away from another deactivation.
LEMMA ReturnStep ==
    ASSUME ManagerInv, NEW w \in Worker, pc[w] \in Holding, NEW code, Return(w, code)
    PROVE  ManagerInv'
<1>1. mu = w /\ mu' = Free /\ Free \notin Worker /\ Reply(w, code, {})
  BY ManagerAssumption DEF ManagerInv, HolderInvariant, Return
<1>2. HandlersOK'
  BY <1>1 DEF ManagerInv, HandlersOK, Reply
<1>3. ASSUME NEW u \in Worker PROVE pc'[u] \notin Holding
  BY <1>1 DEF ManagerInv, HandlersOK, HolderInvariant, Reply, Holding, Working, Waiting
<1>4. HolderInvariant'
  BY <1>1, <1>3 DEF HolderInvariant, Holding
<1>5. ASSUME NEW u \in Worker PROVE (Place(u) /\ Undoes(u) /\ Awaits(u))'
  BY <1>1 DEF ManagerInv, HandlersOK, Place, Undoes, Awaits, Doing, Reply, Working, Waiting
<1>6. QED
  BY <1>2, <1>4, <1>5 DEF ManagerInv

\* Every step under the lock keeps the invariant.
LEMMA LockedStep ==
    ASSUME ManagerInv, NEW w \in Worker, Locked(w)
    PROVE  ManagerInv'
<1>1. CASE Works(w)
  BY <1>1, WorkStep
<1>2. ASSUME \/ TargetNotFound(w) \/ Complete(w) \/ PanicStep(w) \/ CallFails(w)
             \/ WaitFails(w) \/ ClearActive(w)
      PROVE  ManagerInv'
  <2>1. pc[w] \in Holding /\ \E code : Return(w, code)
    BY <1>2 DEF TargetNotFound, Complete, PanicStep, CallFails, WaitFails, ClearActive,
               AtTarget, Upcoming, AtCall, WaitLost, Holding, Working, Waiting
  <2>2. QED
    BY <2>1, ReturnStep
<1>3. CASE ClearRegistry(w)
  <2>1. UNCHANGED <<mu, active, req, local, answer>>
        /\ pc[w] = "clearing" /\ pc' = [pc EXCEPT ![w] = "cleared"]
    BY <1>3 DEF ClearRegistry
  <2>2. HandlersOK'
    BY <2>1 DEF ManagerInv, HandlersOK, Holding
  <2>3. HolderInvariant'
    BY <2>1 DEF ManagerInv, HandlersOK, HolderInvariant, Holding, Working, Waiting, ReqKey
  <2>4. ASSUME NEW u \in Worker PROVE (Place(u) /\ Undoes(u) /\ Awaits(u))'
    BY <2>1 DEF ManagerInv, HandlersOK, Place, Undoes, Awaits, Doing, Working, Waiting
  <2>5. QED
    BY <2>2, <2>3, <2>4 DEF ManagerInv
<1>4. CASE NextTarget(w)
  <2>1. /\ pc[w] = "running" /\ local[w].rest # <<>>
        /\ Moves(w)
        /\ local'[w].rest = Tail(local[w].rest)
        /\ local'[w].script = ScriptOf(req[w], Head(local[w].rest))
    <3> DEFINE l == [local[w] EXCEPT !.rest = Tail(@), !.struck = 0,
                                     !.script = ScriptOf(req[w], Head(local[w].rest))]
    <3>1. /\ l.rest = Tail(local[w].rest) /\ l.script = ScriptOf(req[w], Head(local[w].rest))
          /\ DOMAIN l = DOMAIN local[w]
      BY LocalFields
    <3>2. /\ pc[w] = "running" /\ local[w].rest # <<>> /\ local' = [local EXCEPT ![w] = l]
          /\ UNCHANGED <<mu, active, pc, req, answer>>
      BY <1>4 DEF NextTarget, AtTarget
    <3> HIDE DEF l
    <3>3. Moves(w) /\ local'[w] = l
      BY <3>1, <3>2, RunningMoves
    <3>4. QED
      BY <3>1, <3>2, <3>3
  <2>2. Undoes(w)'
    <3> SUFFICES ASSUME req[w].op = "deactivate"
                 PROVE  local'[w].rest \in Seq(Path) /\ local'[w].script \in Seq(UndoEntry)
      BY <2>1 DEF Undoes, Moves
    <3>1. local[w].rest \in Seq(Path)
      BY <2>1 DEF ManagerInv, Undoes, Working
    <3>2. Tail(local[w].rest) \in Seq(Path) /\ Head(local[w].rest) \in Path
      BY <2>1, <3>1
    <3>3. ScriptOf(req[w], Head(local[w].rest)) \in Seq(UndoEntry)
      BY <3>2, DeactivationScript DEF ScriptOf
    <3>4. QED
      BY <2>1, <3>2, <3>3
  <2>3. Awaits(w)'
    BY <1>4, <2>1 DEF NextTarget, Awaits, Waiting
  <2>4. QED
    BY <2>1, <2>2, <2>3, MoveStep
<1>5. CASE SkipTarget(w)
  <2>1. /\ pc[w] = "running" /\ local[w].rest # <<>>
        /\ Moves(w)
        /\ local'[w].rest = Tail(local[w].rest)
        /\ local'[w].script = local[w].script
    <3> DEFINE l == [local[w] EXCEPT !.rest = Tail(@)]
    <3>1. /\ l.rest = Tail(local[w].rest) /\ l.script = local[w].script
          /\ DOMAIN l = DOMAIN local[w]
      BY LocalFields
    <3>2. /\ pc[w] = "running" /\ local[w].rest # <<>> /\ local' = [local EXCEPT ![w] = l]
          /\ UNCHANGED <<mu, active, pc, req, answer>>
      BY <1>5 DEF SkipTarget, AtTarget
    <3> HIDE DEF l
    <3>3. Moves(w) /\ local'[w] = l
      BY <3>1, <3>2, RunningMoves
    <3>4. QED
      BY <3>1, <3>2, <3>3
  <2>2. Undoes(w)'
    BY <2>1 DEF ManagerInv, Undoes, Moves
  <2>3. Awaits(w)'
    BY <1>5, <2>1 DEF SkipTarget, Awaits, Waiting
  <2>4. QED
    BY <2>1, <2>2, <2>3, MoveStep
<1>6. QED
  BY <1>1, <1>2, <1>3, <1>4, <1>5 DEF Locked, Works

\* A handler takes the lock while it is free: it is the only one inside.
LEMMA EnterStep ==
    ASSUME ManagerInv, NEW w \in Worker, pc[w] = "received", mu = Free,
           req[w] \in Request, req[w].op \in {"activate", "deactivate"},
           req[w].op = "deactivate" => ReqKey(w) \in DOMAIN active,
           NEW expiry, Enter(w, expiry)
    PROVE  ManagerInv'
<1>1. /\ mu' = w /\ pc' = [pc EXCEPT ![w] = "running"]
      /\ local' = [local EXCEPT ![w] =
                      [NotRunning EXCEPT !.rest = req[w].targets, !.expiry = expiry]]
      /\ UNCHANGED <<active, req, answer>>
  BY DEF Enter
<1>2. HandlersOK'
  BY <1>1 DEF ManagerInv, HandlersOK, Holding, Working, NotRunning
<1>3. \A u \in Worker : pc[u] \notin Holding
  BY ManagerAssumption DEF ManagerInv, HolderInvariant
<1>4. HolderInvariant'
  BY <1>1, <1>3 DEF ManagerInv, HandlersOK, HolderInvariant, Holding, Working, ReqKey
<1>5. ASSUME NEW u \in Worker PROVE (Place(u) /\ Awaits(u))'
  BY <1>1 DEF ManagerInv, HandlersOK, Place, Awaits, Doing, Working, Waiting
<1>6. ASSUME NEW u \in Worker PROVE Undoes(u)'
  <2>1. req[w].targets \in Seq(Path)
    BY ManagerAssumption
  <2>2. CASE u = w
    BY <1>1, <2>1, <2>2 DEF ManagerInv, HandlersOK, Undoes, NotRunning
  <2>3. CASE u # w
    BY <1>1, <1>3, <2>3 DEF ManagerInv, HandlersOK, Undoes
  <2>4. QED
    BY <2>2, <2>3
<1>7. QED
  BY <1>2, <1>4, <1>5, <1>6 DEF ManagerInv

LEMMA AcquireStep ==
    ASSUME ManagerInv, NEW w \in Worker, Acquire(w)
    PROVE  ManagerInv'
<1>1. CASE ListActive(w)
  BY <1>1, AnswerStep DEF ListActive, CanEnter
<1>2. CASE ActivateUnknown(w)
  BY <1>2, AnswerStep DEF ActivateUnknown, CanEnter
<1>3. CASE DeactivateInactive(w)
  BY <1>3, AnswerStep DEF DeactivateInactive, CanEnter
<1>4. CASE Activate(w)
  <2>1. /\ pc[w] = "received" /\ mu = Free /\ req[w].op = "activate"
        /\ \E expiry : Enter(w, expiry)
    BY <1>4 DEF Activate, CanEnter
  <2>2. req[w] \in Request
    BY <2>1 DEF ManagerInv, Place
  <2>3. QED
    BY <2>1, <2>2, EnterStep
<1>5. CASE Deactivate(w)
  <2>1. /\ pc[w] = "received" /\ mu = Free /\ req[w].op = "deactivate"
        /\ ReqKey(w) \in DOMAIN active
        /\ \E expiry : Enter(w, expiry)
    BY <1>5 DEF Deactivate, CanEnter
  <2>2. req[w] \in Request
    BY <2>1 DEF ManagerInv, Place
  <2>3. QED
    BY <2>1, <2>2, EnterStep
<1>6. CASE ClearAll(w)
  <2>1. /\ pc[w] = "received" /\ mu = Free /\ req[w].op = "clearAll"
        /\ mu' = w /\ pc' = [pc EXCEPT ![w] = "clearing"]
        /\ UNCHANGED <<active, req, local, answer>>
    BY <1>6 DEF ClearAll, CanEnter
  <2>2. HandlersOK'
    BY <2>1 DEF ManagerInv, HandlersOK, Holding
  <2>3. \A u \in Worker : pc[u] \notin Holding
    BY <2>1, ManagerAssumption DEF ManagerInv, HolderInvariant
  <2>4. HolderInvariant'
    BY <2>1, <2>3 DEF ManagerInv, HandlersOK, HolderInvariant, Holding, Working, Waiting,
                      ReqKey
  <2>5. ASSUME NEW u \in Worker PROVE (Place(u) /\ Undoes(u) /\ Awaits(u))'
    BY <2>1 DEF ManagerInv, HandlersOK, Place, Undoes, Awaits, Doing, Working, Waiting
  <2>6. QED
    BY <2>2, <2>4, <2>5 DEF ManagerInv
<1>7. QED
  BY <1>1, <1>2, <1>3, <1>4, <1>5, <1>6 DEF Acquire

\* A task that ends.
LEMMA RunsAlone ==
    ASSUME NEW e, RunTask(e)
    PROVE  UNCHANGED <<storeVars, mu, active, handlerVars, session, deaf, present,
                       since, arrivals>>
BY DEF RunTask, DisconnectHost, ReconnectHost, EnterMaintenanceMode, ExitMaintenanceMode,
       PowerOffVM, PowerOnVM, CreateSnapshot, TaskEnds

LEMMA ManagerStep == ManagerInv /\ [Next]_vars => ManagerInv'
<1> SUFFICES ASSUME ManagerInv, [Next]_vars PROVE ManagerInv'
  OBVIOUS
<1>1. ASSUME NEW w \in Worker, NEW r \in Request, Arrive(w, r) PROVE ManagerInv'
  <2>1. /\ pc[w] = "idle" /\ pc' = [pc EXCEPT ![w] = "received"]
        /\ req' = [req EXCEPT ![w] = r]
        /\ answer' = [answer EXCEPT ![w] = NoAnswer]
        /\ UNCHANGED <<mu, active, local>>
    BY <1>1 DEF Arrive
  <2>2. HandlersOK'
    BY <2>1 DEF ManagerInv, HandlersOK
  <2>3. HolderInvariant'
    BY <2>1 DEF ManagerInv, HandlersOK, HolderInvariant, Holding, Working, Waiting, ReqKey
  <2>4. ASSUME NEW u \in Worker PROVE (Place(u) /\ Undoes(u) /\ Awaits(u))'
    BY <2>1 DEF ManagerInv, HandlersOK, Place, Undoes, Awaits, Doing, Working, Waiting
  <2>5. QED
    BY <2>2, <2>3, <2>4 DEF ManagerInv
<1>2. ASSUME NEW w \in Worker, Reject(w) PROVE ManagerInv'
  BY <1>2, AnswerStep DEF Reject
<1>3. ASSUME NEW w \in Worker, Acquire(w) PROVE ManagerInv'
  BY <1>3, AcquireStep
<1>4. ASSUME NEW w \in Worker, Locked(w) PROVE ManagerInv'
  BY <1>4, LockedStep
<1>5. CASE Tick
  BY <1>5, QuietStep DEF Tick
<1>6. ASSUME NEW e \in Entity, RunTask(e) PROVE ManagerInv'
  BY <1>6, RunsAlone, QuietStep
<1>7. ASSUME NEW s, ServeFrom(s) \/ Logout(s) PROVE ManagerInv'
  BY <1>7, QuietStep DEF ServeFrom, Logout, SessionsOnly
<1>8. ASSUME NEW p \in Renamable, RenameTask(p) PROVE ManagerInv'
  BY <1>8, QuietStep DEF RenameTask
<1>9. CASE UNCHANGED vars
  BY <1>9, QuietStep DEF vars
<1>10. QED
  BY <1>1, <1>2, <1>3, <1>4, <1>5, <1>6, <1>7, <1>8, <1>9 DEF Next

\* However many handlers run, at most one is inside Activate, Deactivate or
\* ClearAll, and a running Deactivate never finds its scenario unlisted.
THEOREM ManagerHolds == Spec => []HolderInvariant
<1>1. ManagerInv => HolderInvariant
  BY DEF ManagerInv
<1>2. QED
  BY <1>1, ManagerInit, ManagerStep, PTL DEF Spec

-----------------------------------------------------------------------------
(* Refinement: requests take effect when the lock is left.      *)

Pend == [w \in Worker |-> IF pc[w] = "idle" THEN NoCall ELSE CallsOf[req[w]]]

\* A step that neither answers nor changes the map is not seen by a client.
LEMMA Unseen ==
    ASSUME UNCHANGED <<active, req, answer>>,
           \A w \in Worker : (pc'[w] = "idle") = (pc[w] = "idle")
    PROVE  UNCHANGED Service!serviceVars
<1>1. Pend' = Pend
  BY DEF Pend
<1>2. QED
  BY <1>1 DEF Service!serviceVars, Pend

LEMMA PendingRequest ==
    ASSUME ManagerInv, NEW w \in Worker, pc[w] # "idle"
    PROVE  /\ Service!Pending(w, req[w].op)
           /\ Pend[w] = CallOf(req[w])
           /\ req[w].op \in {"activate", "deactivate"} => CallOf(req[w]).key = ReqKey(w)
<1>1. req[w] \in Request
  BY DEF ManagerInv, Place
<1>2. Pend[w] = CallOf(req[w]) /\ CallOf(req[w]).op = req[w].op
  BY <1>1 DEF Pend, CallsOf, CallOf
<1>3. NoCall.op = "none" /\ req[w].op # "none"
  BY <1>1, ManagerAssumption DEF NoCall
<1>4. Pend[w] # NoCall /\ Pend[w].op = req[w].op
  BY <1>2, <1>3
<1>5. Service!Pending(w, req[w].op)
  BY <1>4 DEF Service!Pending, Pend
<1>6. req[w].op \in {"activate", "deactivate"} => CallOf(req[w]).key = ReqKey(w)
  BY DEF CallOf, ReqKey
<1>7. QED
  BY <1>2, <1>5, <1>6

LEMMA ReplyAnswers ==
    ASSUME ManagerInv, NEW w \in Worker, NEW code, NEW keys, Reply(w, code, keys)
    PROVE  Service!Answer(w, code, keys)
<1>1. Pend' = [Pend EXCEPT ![w] = NoCall]
  BY DEF ManagerInv, HandlersOK, Reply, Pend
<1>2. answer' = [answer EXCEPT ![w] = [code |-> code, keys |-> keys]]
  BY DEF Reply
<1>3. QED
  BY <1>1, <1>2 DEF Service!Answer, Pend

\* Whatever ends an activation without success lists and unlists nothing.
LEMMA FailedActivation ==
    ASSUME ManagerInv, NEW w \in Worker, pc[w] # "idle", req[w].op = "activate",
           NEW code \in {"error", "badRequest", "aborted"}, Reply(w, code, {}),
           UNCHANGED active
    PROVE  Service!ServiceNext
<1>1. Service!Pending(w, "activate") /\ Service!Answer(w, code, {})
  BY PendingRequest, ReplyAnswers
<1>2. Service!NotActivated(w)
  BY <1>1 DEF Service!NotActivated
<1>3. QED
  BY <1>2 DEF Service!ServiceNext

LEMMA CompletedRequest ==
    ASSUME ManagerInv, NEW w \in Worker, Complete(w)
    PROVE  Service!ServiceNext
<1>1. pc[w] = "running" /\ mu' = Free /\ Reply(w, "ok", {})
  BY DEF Complete, Return
<1>2. Service!Answer(w, "ok", {})
  BY <1>1, ReplyAnswers
<1>3. req[w].op \in {"activate", "deactivate"}
  BY <1>1 DEF ManagerInv, Place, Working
<1>4. Service!Pending(w, req[w].op) /\ Pend[w].key = ReqKey(w)
  BY <1>1, <1>3, PendingRequest
<1>5. CASE req[w].op = "activate"
  <2>1. active' = Registry!Put(active, ReqKey(w), Stamp(w))
    BY <1>5 DEF Complete
  <2>2. DOMAIN active' = DOMAIN active \union {Pend[w].key}
    BY <1>4, <2>1 DEF Registry!Put
  <2>3. Service!Activated(w)
    BY <1>2, <1>4, <1>5, <2>2 DEF Service!Activated, Pend
  <2>4. QED
    BY <2>3 DEF Service!ServiceNext
<1>6. CASE req[w].op = "deactivate"
  <2>1. active' = [k \in DOMAIN active \ {ReqKey(w)} |-> active[k]]
    BY <1>6 DEF Complete
  <2>2. DOMAIN active' = DOMAIN active \ {Pend[w].key}
    BY <1>4, <2>1
  <2>3. Pend[w].key \in DOMAIN active
    BY <1>1, <1>4, <1>6 DEF ManagerInv, HolderInvariant, Working
  <2>4. Service!Deactivated(w)
    BY <1>2, <1>4, <1>6, <2>2, <2>3 DEF Service!Deactivated, Pend
  <2>5. QED
    BY <2>4 DEF Service!ServiceNext
<1>7. QED
  BY <1>3, <1>5, <1>6

\* No call of a deactivation ends it, and none of its waits.
LEMMA GivesUp ==
    ASSUME ManagerInv, NEW w \in Worker,
           pc[w] \in Working, local[w].script # <<>>,
           \/ /\ TaskOf(Doing(w)) \in VSphereTask
              /\ "return" \in {Doing(w).onErr, Doing(w).onWait}
           \/ Doing(w).op = "panic"
    PROVE  req[w].op = "activate"
<1>1. req[w].op \in {"activate", "deactivate"}
  BY DEF ManagerInv, Place
<1>2. ASSUME req[w].op = "deactivate" PROVE FALSE
  <2>1. Doing(w) \in UndoEntry
    BY <1>2 DEF ManagerInv, Undoes, Doing
  <2>2. QED
    BY <2>1 DEF UndoEntry, TaskOf, VSphereTask
<1>3. QED
  BY <1>1, <1>2

LEMMA LockedSeen ==
    ASSUME ManagerInv, NEW w \in Worker, Locked(w)
    PROVE  Service!ServiceNext \/ UNCHANGED Service!serviceVars
<1>1. CASE Works(w)
  <2>1. Moves(w)
    BY <1>1, WorkMoves
  <2>2. \A u \in Worker : (pc'[u] = "idle") = (pc[u] = "idle")
    BY <2>1 DEF ManagerInv, HandlersOK, Moves, Working, Waiting
  <2>3. QED
    BY <2>1, <2>2, Unseen DEF Moves
<1>2. ASSUME NextTarget(w) \/ SkipTarget(w)
      PROVE  UNCHANGED Service!serviceVars
  <2>1. UNCHANGED <<active, req, answer, pc>>
    BY <1>2 DEF NextTarget, SkipTarget
  <2>2. QED
    BY <2>1, Unseen
<1>3. CASE ClearRegistry(w)
  <2>1. UNCHANGED <<active, req, answer>>
        /\ pc[w] = "clearing" /\ pc' = [pc EXCEPT ![w] = "cleared"]
    BY <1>3 DEF ClearRegistry
  <2>2. \A u \in Worker : (pc'[u] = "idle") = (pc[u] = "idle")
    BY <2>1 DEF ManagerInv, HandlersOK
  <2>3. QED
    BY <2>1, <2>2, Unseen
<1>4. CASE ClearActive(w)
  <2>1. pc[w] = "cleared" /\ active' = Registry!EmptyMap /\ Reply(w, "ok", {})
    BY <1>4 DEF ClearActive, Return
  <2>2. req[w].op = "clearAll"
    BY <2>1 DEF ManagerInv, Place
  <2>3. Service!Pending(w, "clearAll") /\ Service!Answer(w, "ok", {})
    BY <2>1, <2>2, PendingRequest, ReplyAnswers
  <2>4. DOMAIN active' = {}
    BY <2>1 DEF Registry!EmptyMap
  <2>5. Service!ClearedAll(w)
    BY <2>3, <2>4 DEF Service!ClearedAll
  <2>6. QED
    BY <2>5 DEF Service!ServiceNext
<1>5. CASE Complete(w)
  BY <1>5, CompletedRequest
<1>6. CASE TargetNotFound(w)
  <2>1. pc[w] # "idle" /\ req[w].op = "activate" /\ Reply(w, "error", {}) /\ UNCHANGED active
    BY <1>6 DEF TargetNotFound, AtTarget, Return
  <2>2. QED
    BY <2>1, FailedActivation
<1>7. CASE CallFails(w)
  <2>1. /\ pc[w] \in Working /\ local[w].script # <<>> /\ Doing(w).onErr = "return"
        /\ TaskOf(Doing(w)) \in VSphereTask
        /\ Reply(w, "error", {}) /\ UNCHANGED active
    BY <1>7 DEF CallFails, AtCall, Return, Working
  <2>2. req[w].op = "activate" /\ pc[w] # "idle"
    BY <2>1, GivesUp DEF Working, Waiting
  <2>3. QED
    BY <2>1, <2>2, FailedActivation
<1>8. CASE WaitFails(w)
  <2>1. pc[w] \in Waiting /\ Doing(w).onWait = "return" /\ Reply(w, "error", {}) /\ UNCHANGED active
    BY <1>8 DEF WaitFails, WaitLost, Return, Waiting
  <2>2. pc[w] \in Working /\ local[w].script # <<>> /\ TaskOf(Doing(w)) \in VSphereTask
    BY <2>1 DEF ManagerInv, Awaits, Working
  <2>3. req[w].op = "activate" /\ pc[w] # "idle"
    BY <2>1, <2>2, GivesUp DEF Waiting
  <2>4. QED
    BY <2>1, <2>3, FailedActivation
<1>9. CASE PanicStep(w)
  <2>1. /\ pc[w] \in Working /\ local[w].script # <<>> /\ Doing(w).op = "panic"
        /\ Reply(w, "aborted", {}) /\ UNCHANGED active
    BY <1>9 DEF PanicStep, Upcoming, Return, Working
  <2>2. req[w].op = "activate" /\ pc[w] # "idle"
    BY <2>1, GivesUp DEF Working, Waiting
  <2>3. QED
    BY <2>1, <2>2, FailedActivation
<1>10. QED
  BY <1>1, <1>2, <1>3, <1>4, <1>5, <1>6, <1>7, <1>8, <1>9 DEF Locked, Works

LEMMA AcquireSeen ==
    ASSUME ManagerInv, NEW w \in Worker, Acquire(w)
    PROVE  Service!ServiceNext \/ UNCHANGED Service!serviceVars
<1>1. CASE ListActive(w)
  <2>1. pc[w] # "idle" /\ req[w].op = "list" /\ Reply(w, "ok", DOMAIN active) /\ UNCHANGED active
    BY <1>1 DEF ListActive, CanEnter
  <2>2. Service!Pending(w, "list")
    BY <2>1, PendingRequest
  <2>3. Pend' = [Pend EXCEPT ![w] = NoCall]
    BY <2>1 DEF ManagerInv, HandlersOK, Reply, Pend
  <2>4. answer' = [answer EXCEPT ![w] = [code |-> "ok", keys |-> DOMAIN active]]
    BY <2>1 DEF Reply
  <2>5. Service!Answer(w, "ok", DOMAIN active)
    BY <2>3, <2>4 DEF Service!Answer, Pend
  <2>6. Service!Listed(w)
    BY <2>1, <2>2, <2>5 DEF Service!Listed
  <2>7. QED
    BY <2>6 DEF Service!ServiceNext
<1>2. CASE ActivateUnknown(w)
  <2>1. pc[w] # "idle" /\ req[w].op = "activate" /\ Reply(w, "error", {}) /\ UNCHANGED active
    BY <1>2 DEF ActivateUnknown, CanEnter
  <2>2. QED
    BY <2>1, FailedActivation
<1>3. CASE DeactivateInactive(w)
  <2>1. /\ pc[w] # "idle" /\ req[w].op = "deactivate" /\ ReqKey(w) \notin DOMAIN active
        /\ Reply(w, "error", {}) /\ UNCHANGED active
    BY <1>3 DEF DeactivateInactive, CanEnter
  <2>2. /\ Service!Pending(w, "deactivate") /\ Service!Answer(w, "error", {})
        /\ Pend[w].key = ReqKey(w)
    BY <2>1, PendingRequest, ReplyAnswers
  <2>3. Service!NotDeactivated(w)
    BY <2>1, <2>2 DEF Service!NotDeactivated, Pend
  <2>4. QED
    BY <2>3 DEF Service!ServiceNext
<1>4. ASSUME Activate(w) \/ Deactivate(w) \/ ClearAll(w)
      PROVE  UNCHANGED Service!serviceVars
  <2>1. /\ UNCHANGED <<active, req, answer>> /\ pc[w] = "received"
        /\ \/ pc' = [pc EXCEPT ![w] = "running"]
           \/ pc' = [pc EXCEPT ![w] = "clearing"]
    BY <1>4 DEF Activate, Deactivate, ClearAll, Enter, CanEnter
  <2>2. \A u \in Worker : (pc'[u] = "idle") = (pc[u] = "idle")
    BY <2>1 DEF ManagerInv, HandlersOK
  <2>3. QED
    BY <2>1, <2>2, Unseen
<1>5. QED
  BY <1>1, <1>2, <1>3, <1>4 DEF Acquire

LEMMA ServiceInitHolds == Init => Service!ServiceInit
<1> SUFFICES ASSUME Init PROVE Service!ServiceInit
  OBVIOUS
<1>1. Pend = [w \in Worker |-> NoCall]
  BY DEF Init, Pend
<1>2. DOMAIN active = {}
  BY DEF Init, Registry!EmptyMap
<1>3. answer = [w \in Worker |-> Service!NoAnswer]
  BY DEF Init, NoAnswer, Service!NoAnswer
<1>4. QED
  BY <1>1, <1>2, <1>3 DEF Service!ServiceInit, Pend

LEMMA ServiceStep == ManagerInv /\ [Next]_vars => [Service!ServiceNext]_(Service!serviceVars)
<1> SUFFICES ASSUME ManagerInv, [Next]_vars
             PROVE  Service!ServiceNext \/ UNCHANGED Service!serviceVars
  OBVIOUS
<1>1. ASSUME NEW w \in Worker, NEW r \in Request, Arrive(w, r) PROVE Service!ServiceNext
  <2>1. /\ pc[w] = "idle" /\ pc' = [pc EXCEPT ![w] = "received"]
        /\ req' = [req EXCEPT ![w] = r]
        /\ answer' = [answer EXCEPT ![w] = NoAnswer]
        /\ UNCHANGED active
    BY <1>1 DEF Arrive
  <2>2. Pend[w] = NoCall /\ Pend' = [Pend EXCEPT ![w] = CallsOf[r]]
    BY <2>1 DEF ManagerInv, HandlersOK, Pend
  <2>3. Service!Submitted(w, CallsOf[r])
    BY <2>1, <2>2 DEF Service!Submitted, Pend, NoAnswer, Service!NoAnswer
  <2>4. CallsOf[r] \in Range(CallsOf)
    BY DEF CallsOf, Range
  <2>5. QED
    BY <2>3, <2>4 DEF Service!ServiceNext
<1>2. ASSUME NEW w \in Worker, Reject(w) PROVE Service!ServiceNext
  <2>1. pc[w] # "idle" /\ req[w].op = "activate" /\ Reply(w, "badRequest", {}) /\ UNCHANGED active
    BY <1>2 DEF Reject, Invalid
  <2>2. QED
    BY <2>1, FailedActivation
<1>3. ASSUME NEW w \in Worker, Acquire(w)
      PROVE  Service!ServiceNext \/ UNCHANGED Service!serviceVars
  BY <1>3, AcquireSeen
<1>4. ASSUME NEW w \in Worker, Locked(w)
      PROVE  Service!ServiceNext \/ UNCHANGED Service!serviceVars
  BY <1>4, LockedSeen
<1>5. ASSUME \/ Tick \/ (\E e \in Entity : RunTask(e)) \/ (\E s : ServeFrom(s) \/ Logout(s))
             \/ (\E p \in Renamable : RenameTask(p)) \/ UNCHANGED vars
      PROVE  UNCHANGED Service!serviceVars
  <2>1. UNCHANGED <<active, req, answer, pc>>
    BY <1>5, RunsAlone DEF Tick, ServeFrom, Logout, SessionsOnly, RenameTask, vars, handlerVars
  <2>2. QED
    BY <2>1, Unseen
<1>6. QED
  BY <1>1, <1>2, <1>3, <1>4, <1>5 DEF Next

\* Overlapping API requests are linearizable, for any number of them.
THEOREM ManagerImplementsService == Spec => ImplementsService
<1>1. QED
  BY ManagerInit, ManagerStep, ServiceInitHolds, ServiceStep, PTL
     DEF Spec, ImplementsService, Service!ServiceSpec
=============================================================================
