--------------------------- MODULE ScenarioManager ---------------------------
(***************************************************************************)
(* pkg/scenarios/manager.go and pkg/api/server.go: HTTP handlers run       *)
(* concurrently, one goroutine a request, and call the Manager, whose      *)
(* Activate, Deactivate and ClearAll hold Manager.mu from start to end     *)
(* while they write the override registry and make vSphere calls one after *)
(* the other.  The registry is the one of OverrideStore.  The vSphere      *)
(* server changes hosts and VMs in tasks that run beside the handlers; a   *)
(* handler waits for a task through a property collector of the session    *)
(* that serves it, and sessions end and change between its requests.       *)
(***************************************************************************)
EXTENDS ScenarioScripts

CONSTANTS
    Worker,       \* HTTP requests that can be in flight at once
    Free,         \* mu is not held
    Request,      \* the requests clients send
    NoRequest,
    Words,        \* path -> its blank-separated parts, as %v prints them
    HostOf,       \* VM -> the host it runs on
    Renamable,    \* paths that another client may rename
    Session,      \* the server's sessions; a clone is its original's session
    NoSession,    \* nobody is logged in
    SessionsEnd,  \* TRUE if vSphere sessions may end
    MaxTime,      \* bound on the clock
    MaxRequests   \* bound on the requests of a behaviour, 0 for no bound

ASSUME ManagerAssumption ==
    /\ Free \notin Worker
    /\ NoRequest \notin Request
    /\ NoSession \notin Session
    /\ \A r \in Request : /\ r.op \in {"activate", "deactivate", "clearAll", "list"}
                          /\ r.targets \in Seq(Path)
                          /\ r.duration \in Int /\ r.param \in Int \union {NoParam}
    /\ Words \in [Path -> Seq(STRING)]
    /\ SessionsEnd \in BOOLEAN
    /\ MaxTime \in Nat /\ MaxRequests \in Nat

VARIABLES
    metrics, properties, now,      \* the registry and the clock
    mu,                            \* Manager.mu: the writer that holds it
    active,                        \* Manager.active: key -> scenario
    pc, req, local, answer,        \* the handlers
    session,                       \* the session the manager's requests run in
    deaf,                          \* handlers whose collector a Logout unhooked
    task,                          \* object -> its running task, or how its last ended
    present,                       \* paths that still name their object
    connected, maintenance,        \* hosts
    powered, snapshots,            \* VMs
    since,                         \* history: activations begun since clear-all
    arrivals                       \* requests so far

storeVars == <<metrics, properties, now>>
handlerVars == <<pc, req, local, answer>>
hostVars == <<connected, maintenance, powered, snapshots>>
vsphereVars == <<session, deaf, task, present, hostVars>>
vars == <<storeVars, mu, active, handlerVars, vsphereVars, since, arrivals>>

Registry == INSTANCE OverrideStore WITH
    MetricKey <- Int \X {""},
    Property  <- PropertyPath,
    Value     <- registerAllScenarios \X Seq(Path),
    NoValue   <- <<>>,
    Expiry    <- Nat,
    Reader    <- {},
    reply     <- <<>>

\* A faulty variant: the key is made of the targets only.
KeyWithoutId(id, targets) == FlattenSeq([i \in DOMAIN targets |-> Words[targets[i]]])

\* fmt.Sprintf("%s:%v", id, targets): a list prints its elements with blanks
\* between them, so only the sequence of words is left of it.
Key(id, targets) ==
    <<id, FlattenSeq([i \in DOMAIN targets |-> Words[targets[i]]])>>

NoAnswer == [code |-> "none", keys |-> {}]

\* What a handler's goroutine keeps: the targets its loop has not reached, the
\* rest of the current target's script, the hosts it disconnected by Strike,
\* the expiry of its overrides, and the session whose property collector its
\* wait uses.  History: the objects on which a call of it failed, and those
\* with a task whose wait failed.
NotRunning ==
    [rest |-> <<>>, script |-> <<>>, struck |-> 0, expiry |-> 0,
     collector |-> NoSession, refused |-> {}, unwatched |-> {}]

Init ==
    /\ metrics = [e \in Entity |-> Registry!EmptyMap]
    /\ properties = [e \in Entity |-> Registry!EmptyMap]
    /\ now = 1
    /\ mu = Free
    /\ active = Registry!EmptyMap
    /\ pc = [w \in Worker |-> "idle"]
    /\ req = [w \in Worker |-> NoRequest]
    /\ local = [w \in Worker |-> NotRunning]
    /\ answer = [w \in Worker |-> NoAnswer]
    /\ session \in Session
    /\ deaf = {}
    /\ task = [e \in Entity |-> "none"]
    /\ present = Path
    /\ connected = [e \in Entity |-> TRUE]
    /\ maintenance = [e \in Entity |-> FALSE]
    /\ powered = [e \in Entity |-> TRUE]
    /\ snapshots = [e \in Entity |-> 0]
    /\ since = {}
    /\ arrivals = 0

-----------------------------------------------------------------------------
(* The handlers of pkg/api/server.go.                                      *)

Arrive(w, r) ==
    /\ pc[w] = "idle"
    /\ MaxRequests = 0 \/ arrivals < MaxRequests
    /\ arrivals' = IF MaxRequests = 0 THEN 0 ELSE arrivals + 1
    /\ pc' = [pc EXCEPT ![w] = "received"]
    /\ req' = [req EXCEPT ![w] = r]
    /\ answer' = [answer EXCEPT ![w] = NoAnswer]
    /\ UNCHANGED <<storeVars, mu, active, local, vsphereVars, since>>

Reply(w, code, keys) ==
    /\ pc' = [pc EXCEPT ![w] = "idle"]
    /\ req' = [req EXCEPT ![w] = NoRequest]
    /\ local' = [local EXCEPT ![w] = NotRunning]
    /\ answer' = [answer EXCEPT ![w] = [code |-> code, keys |-> keys]]

\* Only handleActivate validates: an id, and at least one target.
Invalid(r) == r.op = "activate" /\ (r.id = "" \/ r.targets = <<>>)

Reject(w) ==
    /\ pc[w] = "received" /\ Invalid(req[w])
    /\ Reply(w, "badRequest", {})
    /\ UNCHANGED <<storeVars, mu, active, vsphereVars, since, arrivals>>

\* A faulty variant: the mutex is not taken into account.
EnterUnlocked(w, op) == pc[w] = "received" /\ req[w].op = op /\ ~Invalid(req[w])

\* w's handler has called the Manager, and mu.Lock (or RLock) can succeed.
CanEnter(w, op) ==
    /\ pc[w] = "received" /\ req[w].op = op /\ ~Invalid(req[w])
    /\ mu = Free

\* A read-locked copy of the map, in one step: it changes nothing.
ListActive(w) ==
    /\ CanEnter(w, "list")
    /\ Reply(w, "ok", DOMAIN active)
    /\ UNCHANGED <<storeVars, mu, active, vsphereVars, since, arrivals>>

-----------------------------------------------------------------------------
(* Manager.Activate, Manager.Deactivate and Manager.ClearAll.              *)

ReqKey(w) == Key(req[w].id, req[w].targets)

\* An activation, as its overrides and its ActiveScenario record it.
Stamp(w) == <<req[w].id, req[w].targets>>

ActivateUnknown(w) ==
    /\ CanEnter(w, "activate")
    /\ req[w].id \notin registerAllScenarios
    /\ Reply(w, "error", {})
    /\ UNCHANGED <<storeVars, mu, active, vsphereVars, since, arrivals>>

Enter(w, expiry) ==
    /\ mu' = w
    /\ pc' = [pc EXCEPT ![w] = "running"]
    /\ local' = [local EXCEPT ![w] =
                [NotRunning EXCEPT !.rest = req[w].targets, !.expiry = expiry]]
    /\ UNCHANGED <<storeVars, active, req, answer, vsphereVars, arrivals>>

Activate(w) ==
    /\ CanEnter(w, "activate")
    /\ req[w].id \in registerAllScenarios
    /\ Enter(w, IF req[w].duration > 0 THEN now + req[w].duration ELSE Registry!Never)
    /\ since' = since \union {Stamp(w)}

DeactivateInactive(w) ==
    /\ CanEnter(w, "deactivate")
    /\ ReqKey(w) \notin DOMAIN active
    /\ Reply(w, "error", {})
    /\ UNCHANGED <<storeVars, mu, active, vsphereVars, since, arrivals>>

Deactivate(w) ==
    /\ CanEnter(w, "deactivate")
    /\ ReqKey(w) \in DOMAIN active
    /\ Enter(w, Registry!Never)
    /\ UNCHANGED since

ClearAll(w) ==
    /\ CanEnter(w, "clearAll")
    /\ mu' = w
    /\ pc' = [pc EXCEPT ![w] = "clearing"]
    /\ UNCHANGED <<storeVars, active, req, local, answer, vsphereVars, since, arrivals>>

\* A faulty variant: property overrides survive.
ClearMetricsOnly(w) ==
    /\ pc[w] = "clearing"
    /\ Registry!ClearAllMetrics
    /\ pc' = [pc EXCEPT ![w] = "cleared"]
    /\ UNCHANGED <<mu, active, req, local, answer, vsphereVars, since, arrivals>>

ClearRegistry(w) ==
    /\ pc[w] = "clearing"
    /\ Registry!ClearAll
    /\ pc' = [pc EXCEPT ![w] = "cleared"]
    /\ UNCHANGED <<mu, active, req, local, answer, vsphereVars, since, arrivals>>

\* A faulty variant: an unlock is missing on the way out.
ReturnLocked(w, code) == mu' = mu /\ Reply(w, code, {})

\* Every return of a method that holds mu runs its deferred Unlock.
Return(w, code) == mu' = Free /\ Reply(w, code, {})

ClearActive(w) ==
    /\ pc[w] = "cleared"
    /\ active' = Registry!EmptyMap
    /\ since' = {}
    /\ Return(w, "ok")
    /\ UNCHANGED <<storeVars, vsphereVars, arrivals>>

\* A faulty variant: delete(m.active, key) is missing.
KeepsListed(w) ==
    /\ pc[w] = "running" /\ local[w].rest = <<>> /\ local[w].script = <<>>
    /\ active' = IF req[w].op = "activate"
                 THEN Registry!Put(active, ReqKey(w), Stamp(w))
                 ELSE active
    /\ Return(w, "ok")
    /\ UNCHANGED <<storeVars, vsphereVars, since, arrivals>>

\* The end of activateScenario or deactivateScenario, after the last target:
\* m.active is updated under the lock and the handler answers.
Complete(w) ==
    /\ pc[w] = "running" /\ local[w].rest = <<>> /\ local[w].script = <<>>
    /\ active' = IF req[w].op = "activate"
                 THEN Registry!Put(active, ReqKey(w), Stamp(w))
                 ELSE [k \in DOMAIN active \ {ReqKey(w)} |-> active[k]]
    /\ Return(w, "ok")
    /\ UNCHANGED <<storeVars, vsphereVars, since, arrivals>>

-----------------------------------------------------------------------------
(* The loop over the targets.  A path is looked up when the loop gets to   *)
(* it; lookups read properties, which needs no session.                    *)

AtTarget(w) == pc[w] = "running" /\ local[w].rest # <<>> /\ local[w].script = <<>>

Finds(r, p) ==
    p \in present /\ IF r.op = "activate" THEN ActivationFinds(r.id, p)
                                          ELSE DeactivationFinds(r.id, p)

ScriptOf(r, p) ==
    IF r.op = "activate" THEN activateScenario(r.id, p, r.param)
                         ELSE deactivateScenario(r.id, p)

NextTarget(w) ==
    /\ AtTarget(w) /\ Finds(req[w], Head(local[w].rest))
    /\ local' = [local EXCEPT ![w].rest = Tail(@), ![w].struck = 0,
                              ![w].script = ScriptOf(req[w], Head(local[w].rest))]
    /\ UNCHANGED <<storeVars, mu, active, pc, req, answer, vsphereVars, since, arrivals>>

\* An activation gives up; what it did to earlier targets stays.
TargetNotFound(w) ==
    /\ AtTarget(w) /\ ~Finds(req[w], Head(local[w].rest))
    /\ req[w].op = "activate"
    /\ Return(w, "error")
    /\ UNCHANGED <<storeVars, active, vsphereVars, since, arrivals>>

\* A deactivation goes on with the next target.
SkipTarget(w) ==
    /\ AtTarget(w) /\ ~Finds(req[w], Head(local[w].rest))
    /\ req[w].op = "deactivate"
    /\ local' = [local EXCEPT ![w].rest = Tail(@)]
    /\ UNCHANGED <<storeVars, mu, active, pc, req, answer, vsphereVars, since, arrivals>>

-----------------------------------------------------------------------------
(* One entry of a script: a registry method.                               *)

Doing(w) == Head(local[w].script)

Upcoming(w, op) == pc[w] = "running" /\ local[w].script # <<>> /\ Doing(w).op = op

Advance(w) == local' = [local EXCEPT ![w].script = Tail(@)]

OverrideBy(w) == [value |-> Stamp(w), expires |-> local[w].expiry]

\* What a step that only touches the registry leaves alone.
RegistryOnly == UNCHANGED <<mu, active, pc, req, answer, vsphereVars, since, arrivals>>

SetMetricStep(w) ==
    /\ Upcoming(w, "setMetric")
    /\ Registry!SetMetric(Doing(w).ref, <<Doing(w).counter, "">>, OverrideBy(w))
    /\ Advance(w) /\ RegistryOnly

SetPropertyStep(w) ==
    /\ Upcoming(w, "setProperty")
    /\ Registry!SetProperty(Doing(w).ref, Doing(w).prop, OverrideBy(w))
    /\ Advance(w) /\ RegistryOnly

ClearMetricsStep(w) ==
    /\ Upcoming(w, "clearMetrics")
    /\ Registry!ClearMetrics(Doing(w).ref)
    /\ Advance(w) /\ RegistryOnly

ClearPropertiesStep(w) ==
    /\ Upcoming(w, "clearProperties")
    /\ Registry!ClearProperties(Doing(w).ref)
    /\ Advance(w) /\ RegistryOnly

\* hosts[-1]: net/http recovers the panic and drops the connection; the
\* deferred Unlock has run.
PanicStep(w) ==
    /\ Upcoming(w, "panic")
    /\ Return(w, "aborted")
    /\ UNCHANGED <<storeVars, active, vsphereVars, since, arrivals>>

-----------------------------------------------------------------------------
(* One entry of a script: a vSphere call and the wait for its task.  Each  *)
(* is a request of its own, and the session may be another one each time.  *)

VSphereTask ==
    {"disconnect", "reconnect", "enterMaintenance", "exitMaintenance",
     "powerOff", "powerOn", "createSnapshot"}

TaskOf(o) == IF o.op = "strike" THEN "disconnect" ELSE o.op

TaskRuns(e) == task[e] \in VSphereTask

\* A faulty variant: it stops one host early.
StruckEarly(w) == local[w].struck + 1 >= StrikeLimit(req[w].id, req[w].param)

\* if disconnected >= hostCount { break }
Struck(w) == local[w].struck >= StrikeLimit(req[w].id, req[w].param)

AtCall(w) ==
    /\ pc[w] = "running" /\ local[w].script # <<>>
    /\ TaskOf(Doing(w)) \in VSphereTask
    /\ Doing(w).op = "strike" => ~Struck(w)

SkipHost(w) ==
    /\ Upcoming(w, "strike") /\ Struck(w)
    /\ Advance(w) /\ RegistryOnly
    /\ UNCHANGED storeVars

\* What a request of w that starts no task and changes no registry leaves alone.
RequestOnly ==
    UNCHANGED <<storeVars, mu, active, req, answer, vsphereVars, since, arrivals>>

Goto(w, label) == pc' = [pc EXCEPT ![w] = label]

\* The server has a session to run the call in; now it waits for the object.
SendCall(w) ==
    /\ AtCall(w) /\ session # NoSession
    /\ Goto(w, "sent")
    /\ UNCHANGED local /\ RequestOnly

CallFails(w) ==
    /\ AtCall(w) /\ session = NoSession /\ Doing(w).onErr = "return"
    /\ Return(w, "error")
    /\ UNCHANGED <<storeVars, active, vsphereVars, since, arrivals>>

CallIgnored(w) ==
    /\ AtCall(w) /\ session = NoSession /\ Doing(w).onErr = "ignore"
    /\ local' = [local EXCEPT ![w].script = Tail(@),
                              ![w].refused = @ \union {Doing(w).ref}]
    /\ RegistryOnly /\ UNCHANGED storeVars

\* Task.Run takes the object's lock for as long as the task runs, so the call
\* returns when an earlier task of the object has ended and the new one runs.
StartTask(w) ==
    /\ pc[w] = "sent" /\ ~TaskRuns(Doing(w).ref)
    /\ task' = [task EXCEPT ![Doing(w).ref] = TaskOf(Doing(w))]
    /\ Goto(w, "called")
    /\ UNCHANGED <<storeVars, mu, active, req, local, answer, session, deaf, present,
                   hostVars, since, arrivals>>

\* WaitForResult has a property collector of its own, in the registry of the
\* session that serves this request.
CreatePropertyCollector(w) ==
    /\ pc[w] = "called" /\ session # NoSession
    /\ local' = [local EXCEPT ![w].collector = session]
    /\ Goto(w, "created")
    /\ RequestOnly

\* Its filter, and the first WaitForUpdatesEx: it hooks the collector up and
\* tells the task's state as it is.
CreateFilter(w) ==
    /\ pc[w] = "created" /\ session = local[w].collector
    /\ Goto(w, IF TaskRuns(Doing(w).ref) THEN "listening" ELSE "updated")
    /\ UNCHANGED local /\ RequestOnly

\* The second one, which returns only on an update.
WaitForUpdatesEx(w) ==
    /\ pc[w] = "listening" /\ session = local[w].collector
    /\ Goto(w, "blocked")
    /\ UNCHANGED local /\ RequestOnly

\* The end of the task comes to a collector that is still hooked up.  The
\* context has no deadline: a handler that is deaf stays here, and keeps mu.
ReceiveUpdate(w) ==
    /\ pc[w] = "blocked" /\ w \notin deaf /\ ~TaskRuns(Doing(w).ref)
    /\ Goto(w, "updated")
    /\ UNCHANGED local /\ RequestOnly

\* What a scenario does after a call and its wait; a struck host is counted,
\* and marked, whether the wait failed or not.
AfterCall(w, unwatched) ==
    /\ Goto(w, "running")
    /\ local' = [local EXCEPT
            ![w].script = Tail(@), ![w].collector = NoSession,
            ![w].struck = IF Doing(w).op = "strike" THEN @ + 1 ELSE @,
            ![w].unwatched = @ \union unwatched]
    /\ IF Doing(w).op = "strike" /\ Doing(w).mark # NoMark
       THEN Registry!SetProperty(Doing(w).ref, Doing(w).mark, OverrideBy(w))
       ELSE UNCHANGED storeVars
    /\ UNCHANGED <<mu, active, req, answer, session, task, present, hostVars,
                   since, arrivals>>

\* The filter and the collector are destroyed.  A task that failed is an error
\* of the wait too; only power tasks fail, and no scenario looks at theirs.
WaitDone(w) ==
    /\ pc[w] = "updated" /\ session = local[w].collector
    /\ AfterCall(w, {})
    /\ UNCHANGED deaf

\* A request of the wait fails: without a session CreatePropertyCollector
\* panics in the server, and another session does not know the collector.
WaitLost(w) ==
    \/ pc[w] = "called" /\ session = NoSession
    \/ pc[w] \in {"created", "listening", "updated"} /\ session # local[w].collector

\* A faulty variant: the error of the wait is dropped where it is returned.
DropsWaitError(w) ==
    /\ WaitLost(w) /\ Doing(w).onWait = "return"
    /\ AfterCall(w, {Doing(w).ref})
    /\ deaf' = deaf \ {w}

WaitFails(w) ==
    /\ WaitLost(w) /\ Doing(w).onWait = "return"
    /\ Return(w, "error")
    /\ deaf' = deaf \ {w}
    /\ UNCHANGED <<storeVars, active, session, task, present, hostVars, since, arrivals>>

WaitIgnored(w) ==
    /\ WaitLost(w) /\ Doing(w).onWait = "ignore"
    /\ AfterCall(w, {Doing(w).ref})
    /\ deaf' = deaf \ {w}

-----------------------------------------------------------------------------
(* The tasks of the vSphere server.                                        *)

\* e's task of this name ends.
TaskEnds(e, name, state) ==
    /\ task[e] = name
    /\ task' = [task EXCEPT ![e] = state]
    /\ UNCHANGED <<storeVars, mu, active, handlerVars, session, deaf, present, since, arrivals>>

DisconnectHost(e) ==
    /\ TaskEnds(e, "disconnect", "none")
    /\ connected' = [connected EXCEPT ![e] = FALSE]
    /\ UNCHANGED <<maintenance, powered, snapshots>>

ReconnectHost(e) ==
    /\ TaskEnds(e, "reconnect", "none")
    /\ connected' = [connected EXCEPT ![e] = TRUE]
    /\ UNCHANGED <<maintenance, powered, snapshots>>

EnterMaintenanceMode(e) ==
    /\ TaskEnds(e, "enterMaintenance", "none")
    /\ maintenance' = [maintenance EXCEPT ![e] = TRUE]
    /\ UNCHANGED <<connected, powered, snapshots>>

ExitMaintenanceMode(e) ==
    /\ TaskEnds(e, "exitMaintenance", "none")
    /\ maintenance' = [maintenance EXCEPT ![e] = FALSE]
    /\ UNCHANGED <<connected, powered, snapshots>>

\* It fails on a VM that is off.
PowerOffVM(e) ==
    /\ TaskEnds(e, "powerOff", IF powered[e] THEN "none" ELSE "error")
    /\ powered' = [powered EXCEPT ![e] = FALSE]
    /\ UNCHANGED <<connected, maintenance, snapshots>>

\* It fails on a VM that is on, or whose host is in maintenance mode.
PowerOnVM(e) ==
    LET fails == powered[e] \/ maintenance[HostOf[e]]
    IN  /\ TaskEnds(e, "powerOn", IF fails THEN "error" ELSE "none")
        /\ powered' = [powered EXCEPT ![e] = @ \/ ~fails]
        /\ UNCHANGED <<connected, maintenance, snapshots>>

CreateSnapshot(e) ==
    /\ TaskEnds(e, "createSnapshot", "none")
    /\ snapshots' = [snapshots EXCEPT ![e] = @ + 1]
    /\ UNCHANGED <<connected, maintenance, powered>>

RunTask(e) ==
    \/ DisconnectHost(e) \/ ReconnectHost(e)
    \/ EnterMaintenanceMode(e) \/ ExitMaintenanceMode(e)
    \/ PowerOffVM(e) \/ PowerOnVM(e) \/ CreateSnapshot(e)

-----------------------------------------------------------------------------
(* The clock, and the other clients of the vSphere server.                 *)

Tick ==
    /\ Registry!Tick
    /\ UNCHANGED <<mu, active, handlerVars, vsphereVars, since, arrivals>>

\* What a change of sessions leaves alone.
SessionsOnly ==
    UNCHANGED <<storeVars, mu, active, handlerVars, task, present, hostVars, since, arrivals>>

\* The session of the manager's cookie is terminated or idles out, a request
\* with an unknown cookie runs in any session there is, or someone logs in.
ServeFrom(s) ==
    /\ SessionsEnd /\ s # session
    /\ session' = s
    /\ UNCHANGED deaf /\ SessionsOnly

\* A Logout, of a clone of s maybe, or of s because the client's cookie was
\* unknown: it ends the session it runs in, and unhooks the collectors in the
\* registry of s.  An update that was there before it is still delivered.
Logout(s) ==
    /\ SessionsEnd
    /\ session' \in Session \union {NoSession}
    /\ deaf' = deaf \union {w \in Worker :
                    /\ pc[w] \in {"listening", "blocked"} /\ local[w].collector = s
                    /\ TaskRuns(Doing(w).ref)}
    /\ SessionsOnly

RenameTask(p) ==
    /\ session # NoSession /\ p \in present
    /\ present' = present \ {p}
    /\ UNCHANGED <<storeVars, mu, active, handlerVars, session, deaf, task, hostVars,
                   since, arrivals>>

-----------------------------------------------------------------------------

\* The steps that need mu.
Acquire(w) ==
    \/ ListActive(w)
    \/ ActivateUnknown(w) \/ Activate(w)
    \/ DeactivateInactive(w) \/ Deactivate(w)
    \/ ClearAll(w)

\* The steps a goroutine takes while it holds mu.
Locked(w) ==
    \/ ClearRegistry(w) \/ ClearActive(w)
    \/ NextTarget(w) \/ TargetNotFound(w) \/ SkipTarget(w) \/ Complete(w)
    \/ SetMetricStep(w) \/ SetPropertyStep(w)
    \/ ClearMetricsStep(w) \/ ClearPropertiesStep(w) \/ PanicStep(w)
    \/ SkipHost(w) \/ SendCall(w) \/ CallFails(w) \/ CallIgnored(w) \/ StartTask(w)
    \/ CreatePropertyCollector(w) \/ CreateFilter(w) \/ WaitForUpdatesEx(w)
    \/ ReceiveUpdate(w) \/ WaitDone(w) \/ WaitFails(w) \/ WaitIgnored(w)

Next ==
    \/ \E w \in Worker, r \in Request : Arrive(w, r)
    \/ \E w \in Worker : Reject(w) \/ Acquire(w) \/ Locked(w)
    \/ Tick
    \/ \E e \in Entity : RunTask(e)
    \/ \E s \in Session \union {NoSession} : ServeFrom(s)
    \/ \E s \in Session : Logout(s)
    \/ \E p \in Renamable : RenameTask(p)

\* A runnable goroutine runs, a vSphere task runs to its end, and a goroutine that waits
\* for mu gets it in the end: a blocked Lock keeps later readers out, and a
\* mutex that starves hands itself to its oldest waiter.
Fairness ==
    /\ \A w \in Worker :
        WF_vars(Reject(w)) /\ WF_vars(Locked(w)) /\ SF_vars(Acquire(w))
    /\ \A e \in Entity : WF_vars(RunTask(e))

Spec == Init /\ [][Next]_vars /\ Fairness

-----------------------------------------------------------------------------
(* Properties.                                                             *)

\* From a call to the end of the wait for its task.
Waiting == {"sent", "called", "created", "listening", "blocked", "updated"}

Working == {"running"} \union Waiting

Holding == Working \union {"clearing", "cleared"}

TargetLists == Seq(Path)

Keys == registerAllScenarios \X Seq(STRING)

\* Handlers, lock, active map, registry and vSphere state have their types;
\* a handler between requests has forgotten the last one.
TypeOK ==
    /\ \A e \in Entity : Registry!MapOf(metrics[e], Int \X {""})
    /\ \A e \in Entity : Registry!MapOf(properties[e], PropertyPath)
    /\ now \in Nat /\ arrivals \in Nat
    /\ mu \in Worker \union {Free}
    /\ DOMAIN active \subseteq Keys
    /\ \A k \in DOMAIN active : active[k] \in registerAllScenarios \X TargetLists
    /\ pc \in [Worker -> {"idle", "received"} \union Holding]
    /\ req \in [Worker -> Request \union {NoRequest}]
    /\ \A w \in Worker : (pc[w] = "idle") = (req[w] = NoRequest)
    /\ \A w \in Worker : answer[w].keys \subseteq Keys
    /\ session \in Session \union {NoSession} /\ present \subseteq Path
    /\ deaf \subseteq {w \in Worker : pc[w] \in {"listening", "blocked"}}
    /\ task \in [Entity -> VSphereTask \union {"none", "error"}]
    /\ {connected, maintenance, powered} \subseteq [Entity -> BOOLEAN]
    /\ snapshots \in [Entity -> Nat]

\* At most one goroutine is inside Activate, Deactivate or ClearAll, and it is
\* the one mu belongs to; the scenario that a running Deactivate found active
\* when it took the lock is still active at every later step of it, so what
\* "if _, ok := m.active[key]" saw is not stale when the entry is deleted.
HolderInvariant ==
    \A w \in Worker :
        /\ (mu = w) = (pc[w] \in Holding)
        /\ pc[w] \in Working /\ req[w].op = "deactivate" => ReqKey(w) \in DOMAIN active

OverridesOn(e) ==
    {metrics[e][k] : k \in DOMAIN metrics[e]} \union
    {properties[e][k] : k \in DOMAIN properties[e]}

\* Nothing survives a clear-all: whatever is overridden or listed was brought
\* about by an activation that took the lock after the last ClearAll released
\* it.  ClearAll empties the registry and the map in two steps.
ClearAllIsFinal ==
    /\ \A e \in Entity : \A o \in OverridesOn(e) : o.value \in since
    /\ \A k \in DOMAIN active : active[k] \in since

\* The goroutine that ends with record l could not see the call of entry o
\* through, and its scenario goes on then: the call was refused, or the wait
\* for its task failed and the task still runs.
Excused(o, l) ==
    \/ o.onErr = "ignore" /\ o.ref \in l.refused
    \/ o.onWait = "ignore" /\ o.ref \in l.unwatched /\ task[o.ref] = TaskOf(o)

HasProperty(e, p, override) == p \in DOMAIN properties[e] /\ properties[e][p] = override

\* The state that entry o of request r, an activation whose goroutine ends with
\* record l, is there to bring about, on an object that its lookup found: a
\* strike is made on the first hosts of the list, up to the limit.
InEffect(r, o, override, l) ==
    /\ o.ref \in Entity
    /\ CASE o.op = "setMetric" ->
               <<o.counter, "">> \in DOMAIN metrics[o.ref]
               /\ metrics[o.ref][<<o.counter, "">>] = override
         [] o.op = "setProperty" -> HasProperty(o.ref, o.prop, override)
         [] o.op = "disconnect" -> ~connected[o.ref] \/ Excused(o, l)
         [] o.op = "strike" ->
               o.nth <= StrikeLimit(r.id, r.param) /\ o.ref \notin l.refused =>
                   /\ ~connected[o.ref] \/ Excused(o, l)
                   /\ o.mark # NoMark => HasProperty(o.ref, o.mark, override)
         [] o.op = "enterMaintenance" -> maintenance[o.ref]
         [] o.op = "powerOff" -> ~powered[o.ref] \/ Excused(o, l)
         [] o.op = "createSnapshot" ->
               \/ snapshots[o.ref] >= o.nth
               \/ snapshots[o.ref] = o.nth - 1 /\ Excused(o, l)
               \/ o.ref \in l.refused

\* w's request completes in this step and is answered "ok".
Succeeds(w, op) ==
    pc[w] \in Working /\ req[w].op = op /\ pc'[w] = "idle" /\ answer'[w].code = "ok"

\* An activation that answers "activated" has put every override, every host
\* and VM state and every snapshot of its scenario in place, on all of its
\* targets, with the expiry computed when it started, and no other request has
\* touched them: the hosts of host_boot_storm and cascade_rack_power up to
\* host_count too.  Short of it may fall only a call whose error the code
\* ignores: one that had no session, or one whose task still runs because the
\* wait for it lost its session.
ActivationInPlace ==
    [][\A w \in Worker : Succeeds(w, "activate") =>
         \A r \in {req[w]}, override \in {OverrideBy(w)}, l \in {local[w]} :
            (\A p \in Range(r.targets) : \A o \in Range(ScriptOf(r, p)) :
                InEffect(r, o, override, l))']_vars

OverridesBy(r) ==
    {e \in Entity : \E o \in OverridesOn(e) : o.value = <<r.id, r.targets>>}

\* The host or VM that entry o of an activation changed is as before when the
\* goroutine of the deactivation ends with record l: except where the call that
\* takes o back could not be seen through, and where the server failed the
\* power-on.  Snapshots are not taken back, and nothing is said of them.
Restored(o, l) ==
    CASE o.op \in {"disconnect", "strike"} ->
            connected[o.ref] \/ Excused(Attempt("reconnect", o.ref), l)
      [] o.op = "enterMaintenance" ->
            ~maintenance[o.ref] \/ Excused(Attempt("exitMaintenance", o.ref), l)
      [] o.op = "powerOff" ->
            \/ powered[o.ref] \/ task[o.ref] = "error"
            \/ Excused(Attempt("powerOn", o.ref), l)
      [] OTHER -> TRUE

\* Nothing is left of the activation of r's scenario on r's targets.
Reversed(r, l) ==
    /\ OverridesBy(r) = {}
    /\ \A p \in Range(r.targets) :
            \A o \in Range(activateScenario(r.id, p, r.param)) : Restored(o, l)

\* This step does not complete a deactivation of one of ids that leaves a rest.
DeactivationReverses(ids) ==
    \A w \in Worker : Succeeds(w, "deactivate") =>
        \A r \in {req[w]}, l \in {local[w]} :
            (r.id \in ids /\ (\A p \in Range(r.targets) : Finds(r, p)) => Reversed(r, l))'

\* A scenario that acts on its targets alone is reversed by its deactivation:
\* once "deactivated" is answered and every target's path still resolves, no
\* override of the activation is left on any object although deactivation
\* looks the targets up in other ways than the activation did, its hosts are
\* connected and out of maintenance mode, and its VMs powered on again.  Short
\* of it may fall only a reconnect, exit or power-on that had no session, whose
\* task still runs because the wait for it lost its session, or that the server
\* failed (a power-on, on a host in maintenance mode): the code ignores all
\* three.  The snapshots of vm_snapshot_growth stay.
TargetScenariosReverse ==
    [][DeactivationReverses(registerAllScenarios \ ClusterScenario)]_vars

\* Every request is answered, although requests keep coming, all of them queue
\* for the one lock that an activation holds across its vSphere calls, and
\* sessions end and change between any two of those: unless a Logout unhooks a
\* collector while its handler waits for an update of a running task.  Only
\* that handler waits for ever then, and all who queue behind it.
Answered ==
    \A w \in Worker : pc[w] = "received" ~>
        pc[w] = "idle" \/ \E v \in deaf : pc[v] = "blocked"

CallOf(r) ==
    [op |-> r.op,
     key |-> IF r.op \in {"activate", "deactivate"} THEN Key(r.id, r.targets) ELSE <<>>]

NoCall == [op |-> "none"]

CallsOf == [r \in Request |-> CallOf(r)]

Service == INSTANCE ScenarioService WITH
    ApiCall <- Range(CallsOf),
    active  <- DOMAIN active,
    call    <- [w \in Worker |-> IF pc[w] = "idle" THEN NoCall ELSE CallsOf[req[w]]]

\* Overlapping requests are linearizable: each takes effect on the set of
\* active scenarios at one instant between arrival and answer, and an
\* activation that fails half-way, for whatever reason, lists nothing.
ImplementsService == Service!ServiceSpec
=============================================================================
