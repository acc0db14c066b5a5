# TLA+ verification of the VMware demo simulator

The repository is a modified `vcsim` (govmomi's vCenter simulator) with a
controller that injects failure scenarios. Pollers talk SOAP to the simulated
vCenter; an operator talks HTTP to the scenario controller, which overrides
metrics and properties and disconnects hosts or powers VMs off through the
vSphere API; at start-up `vcsim` builds an inventory through the same API. This
directory models the controller, the override registry, the start-up with its
builder, and the parts of the simulator they meet (sessions, performance
queries, host and VM tasks), checks them with TLC and proves the central results
with TLAPS.

## The system

| Part | State | Operations | Talks to |
|---|---|---|---|
| override registry, `pkg/overrides` | two maps from an object to a list of overrides, under one RW mutex | set, get, clear, clear all; entries expire | written by the scenario manager, read by the metric hook |
| metric hook, `cmd/vcsim/main.go:121` | none | copy the live overrides, search the copy | called by `QueryPerf` for every counter of every entity |
| scenario manager, `pkg/scenarios/manager.go` | map of active scenarios, RW mutex | Activate, Deactivate, ClearAll, ListActive, ListDefinitions | registry (calls), simulator (SOAP over loopback, one session) |
| scenario catalogue, `scenarios_impl.go` | none | 30 activations, 4 deactivations | the same |
| REST server, `pkg/api` | none; one goroutine a request | seven handlers | scenario manager (calls) |
| host and VM tasks of the vendored simulator | connection, maintenance and power state, snapshots | the seven tasks the manager starts, renames | scenario manager, other clients |
| session manager, vendored and modified | table of sessions under `sessionMutex`, an idle watch per session | find a request's session, Login, Logout, terminate, clone, impersonate | every client |
| `QueryPerf`, vendored and modified | the performance manager's lock | recorded or overridden series | pollers, metric hook |
| inventory builder, `pkg/inventory/builder.go` | the inventory | lay out, build once at start | simulator (SOAP) |
| hardware profiles, sensors, `pkg/inventory` | a registry of host profiles; what hosts share of their template | register, look up, apply | builder, host customisation hook |
| `cmd/vcsim` | global hooks | start-up, shutdown | everything |
| `cmd/inspect`, `cmd/topoxml` | none | print the inventory | simulator (SOAP) |

What is hard here: handlers run concurrently and queue for one mutex that is
held across SOAP calls and task waits; the hook reads shared state after it has
released the lock; an activation works on several targets and can fail between
two of them; sessions can be ended by another client between a call and any of
the requests that wait for its task, which runs beside the handler; a
deactivation looks targets up again, by other means than the activation, when
they may have been renamed; overrides expire by themselves and the list of
active scenarios does not. In the simulator, a request reads its session in one
critical section and writes it back in another; a query calls the hook once per
counter while scenarios come and go, and a panic inside it keeps its lock; the
build has a deadline that can pass while a call is being answered, and its hosts
share memory with their template. `PROJECT.json` lists these hazards line by line.

What makes each part correct:

- registry: at most one entry per key, readers that agree, no expired or cleared
  value returned, atomic behaviour in spite of the copy;
- manager: mutual exclusion, linearizable requests, an activation that answers
  success is in place, a deactivation that answers success has undone it, short
  of calls whose errors the code ignores, clear-all leaves nothing, every request
  is answered;
- sessions: nobody gets in as a user who never logged in, a request
  without a usable cookie runs in any session there is, a session that ended stays ended and
  one that was not given up stays, except for the races the code has;
- performance queries: a series shows one thing, whole, that was true during the
  query; every query is answered; panics need windows no poller asks for;
- inventory: the layout is what the flags ask for, a build called complete is
  complete, a failed one leaves a usable prefix, every host gets its own profile,
  VMs find a host with their datastore, and `vcsim` gets ready in any case.

## Modules

| Module | Models | Uses |
|---|---|---|
| `OverrideStore` | the abstract registry: two maps changed atomically, with expiry | |
| `Overrides` | `overrides.go` and the hook of `main.go` | refines `OverrideStore` |
| `OverridesProofs` | theorems about `Overrides` | |
| `ScenarioScripts` | `scenarios_impl.go` and the helpers of `manager.go` | |
| `ScenarioManager` | `manager.go`, `server.go` and the vSphere calls | `ScenarioScripts`; the actions of `OverrideStore` as its registry; refines `ScenarioService` |
| `ScenarioService` | the abstract API: requests that take effect at one instant | |
| `ScenarioManagerProofs`, `ScenarioClearProofs`, `ScenarioEffectProofs` | theorems about `ScenarioManager` | `ListsProofs` |
| `ScenarioClaims` | what comments say and the code does not do | `ScenarioManager` |
| `SessionTable` | the abstract table: sessions that are opened, end, or come back from a copy | |
| `Sessions` | `session_manager.go` and `mapSession` | refines `SessionTable` |
| `SessionsProofs` | theorems about `Sessions` | |
| `PerformanceManager` | `QueryPerf` of `performance_manager.go` under `WithLock` | composes with `Overrides`; refines `OverrideStore` |
| `PerformanceManagerProofs` | theorems about `PerformanceManager` | `OverridesProofs`, `ListsProofs` |
| `InventoryConfig` | the layouts of `builder.go`, `hardware.go`, `sensors.go` | |
| `InventoryBuild` | the abstract build: whole clusters one by one, in order | |
| `Startup` | `main.go`, and the builder's calls | `InventoryConfig`; refines `InventoryBuild` |
| `StartupProofs` | theorems about `Startup` | `ListsProofs` |
| `Lists` | the loop that keeps some elements of a list, which `hostsWithDatastore` and `QueryPerf` have | |
| `ListsProofs` | lemmas: induction and recursion over numbers, `Filter`, `FlattenSeq`, sums | |
| `MCOverrides`, `MCApi`, `MCCatalogue`, `MCSessions`, `MCPerf`, `MCStartup` | instances for TLC | |

The registry is composed in two ways. `Overrides` implements `OverrideStore`
(checked and proved), so `ScenarioManager` may use the short maps of
`OverrideStore` where the code calls the list-based registry.
`PerformanceManager` extends `Overrides` itself, lists and two-step hook included, and
implements `OverrideStore` in its turn (`QueriesReadStore`).

### Overrides

Each registry method holds `Registry.mu` for its whole body and is one action.
The hook is two: `GetMetrics` takes the copy (kept as the list and the time it
was filtered at) and `MetricOverrideFunc` searches it after the unlock, so that
writes can fall in between. A reference carries a ServerGUID, which `morKey`
drops. `GetProperty` and `GetProperties` have no caller in the repository (so no
property override is ever shown to a client); they are modelled as the values
they would return in each state. `reply` holds what the last hook call of a reader
was for, entity and key, with what it returned, until the reader has used it
(`Forget`): with the value alone, the refinement would let a read of any other key
explain an answer.

### ScenarioScripts

A scenario is a sequence of entries for one target: registry writes, vSphere
calls, and the conditional disconnect (`Strike`) of the two scenarios that stop
after `host_count` hosts. An entry says what the scenario does with an error of
the call (`onErr`) and with one of the wait for its task (`onWait`): `return` it or
`ignore` it. A `Strike` knows which host of the cluster it is for (`nth`) and the
property that is set on a host once it is disconnected (`mark`,
`cascade_rack_power` has one); a `Snapshot` knows how many were asked for before
it. What is overridden is kept (object,
counter or property, in the code's order); the sampled numbers are not. The
inventory is a constant: for each path what the finder returns. `Finder`
wants exactly one match for a host or a VM, while `resolveRef` takes the first.
`findVMsOnHost` is empty: its pattern `*/<host>/*` is relative, the finder
resolves it against the VM folder of a datacenter the manager never sets, and
every caller drops the error or skips the VMs. So no scenario ever affects the VMs
of a host, although `scenarios_impl.go:432` says of `host_psod` "CASCADE: All VMs
crash, HA restarts on other hosts".

### ScenarioManager

`Arrive` is the HTTP request; `Reject` the validation of `handleActivate`, the
only handler that validates; `Activate`, `Deactivate`, `ClearAll` and
`ListActive` take `mu`; the other steps happen while it is held. A registry method
is one step. A vSphere call and the wait for its task are several, as each is a
request of its own:

| Step | Request or event |
|---|---|
| `SendCall`; `CallFails`, `CallIgnored` | the call is let in, or refused for want of a session |
| `StartTask` | `Task.Run` has the object's lock, and keeps it until the task ends |
| `CreatePropertyCollector` | the wait's own collector, in the registry of the serving session |
| `CreateFilter` | its filter, and the first `WaitForUpdatesEx`, which hooks the collector up and tells the task's state |
| `WaitForUpdatesEx`, `ReceiveUpdate` | the second one, which returns on an update only |
| `WaitDone`; `WaitFails`, `WaitIgnored` | the end of the wait; an error of it, returned or ignored |
| `RunTask` | a task ends, with its effect on the host or VM, at any time after it was started |

`Return` merges the deferred unlock with the HTTP answer: nothing the manager
does happens between them. The goroutine's locals are a record: targets left, rest
of the script, hosts struck, expiry, and the session whose collector the wait uses.
`refused` and `unwatched` in it are history: the objects on which a call was
refused, and those with a task whose wait failed.

- `session` is the session that serves the manager's requests, or none. It may
  change before any of them (`ServeFrom`): it is terminated or idles out, another
  client's session takes over as the cookie is unknown, someone logs in. `Sessions`
  has the details; here all that matters is which session a request runs in.
- Lookups need no session. Task calls fail with NotAuthenticated when there is none.
  The requests of a wait are on the whitelist of `simulator.go:195` and fail all
  the same: without a session `CreatePropertyCollector` dereferences nil
  (`property_collector.go:578`), and the collector of one session is an unknown
  object in another (`simulator.go:227-239`). Either way the call has taken effect
  or its task still runs (`WaitLost`).
- A `Logout` unhooks the collectors in its session's registry
  (`session_manager.go:215`), also when the session is a clone of it that lives on,
  or when a later request is served from it again. A handler that was told that its
  task runs is `deaf` then: it is never told that it ended.
- A negative `host_count` makes `hosts[i]` panic; net/http recovers it, the
  client gets no answer (`aborted`), and the deferred unlock has run.
- `Key` is what `"%s:%v"` prints: the words of the targets, so that `["a b"]` and
  `["a" "b"]` have the same key.
- Renames are one-way and keep patterns matching: a renamed path stops
  resolving, and other paths resolve as before.
- `since` is a history variable: the activations begun since the last clear-all.

### Sessions

`SessionManager` embeds `nopLocker`, so requests run through it side by side and
only `sessionMutex` separates them, for one `getSession`, `anySession`,
`putSession` or `delSession` at a time. Each of these is a step, and a request
(`req`) carries the copy of the session it read, the cookie it came with, and the
session it is about to end or clone. `Arrive` is a request with the client's
cookie or, as pollers lose theirs, without; `getSession` and `anySession` are
`mapSession` with the fallback this repository added; `SetSession` writes the copy
back. `Serve` is every method that does nothing to sessions, refused ones
included. `Timer` and `expiredSession` are the two critical sections of the idle
watch. `authenticated`, `sawEmpty`, `ended`, `given` and `stray` are history that
only properties read. `ScenarioManager` keeps of all this the one session that serves
a request; that a request is served from some session unless there was none at an
instant of its lookup is what `NoSessionMeansNone` says.

`SessionTable` says the same of whole sessions: `Login` and `Share` open one under a key
that was never used, `Leave` takes it out of the table, for good (`End`) or with the
copy of some request left behind (`Suspend`), and only then may it come back
(`Resume`). Which user a session has is a relation (`Owned`) between the keys of the
table and of the copies, on the one hand, and users; nothing in it may ever change
but by opening and ending.

### PerformanceManager

`WithLock` gives `QueryPerf` the performance manager's lock until it returns. `Ask`
is a request; `QueryPerf` takes the lock; `StartSpec` expands the metrics of the
next specification and counts its samples; `CallHook` and `HookReturns` are the two
steps of the hook in `Overrides`; `OverrideSeries` or `SampleSeries` adds a series;
`EndSpec` and `Return` finish. Counts follow Go: the conversion of a float64 to `int32`,
whose result out of range is the build's choice (amd64 or arm64), division towards
zero, a sum that keeps the low 32 bits (`Wrap`), remainders with the sign of the
dividend. `NegativeCount` and `NegativeIndex`
are the two panics; net/http recovers them, and as `WithLock` has no deferred
unlock the lock is `Leaked`. `Scenario` is what scenarios do to the registry at
any time. `shown` is history: what the registry showed during the query.
`QueriedStore` is the `OverrideStore` that queries read. Its keys include what clients
may ask for (`AskedKey`), since a query names counters that nobody overrides.

### InventoryConfig and Startup

`InventoryConfig` holds `SimpleConfig`, the five datacenters of `DefaultConfig`, the
thirteen profiles, `ProfileForHost` and the sensors by type. `Startup` is one
goroutine, `main`, which runs the builder; each call of the builder to the
simulator is an action at a `phase`, with the loop counters in `at`. A call takes
effect and is answered, takes effect and loses its answer to the deadline
(`Answered`), or fails (`CallFails`); once the five minutes are over all fail.
`createVMs` is one action per pool: errors of single VMs are only logged, so what
matters is how many were lost and how many stay off. `addHostToCluster` includes
the customisation hook: `Apply` and `ApplySensors` write the host's own summary and,
through pointers that `NewHostSystem` copies from the template, the BIOS, the CPU
packages and the sensors of every host (`shared`, `sensors`). Datastores and
switches of a layout are counted only, since the builder creates neither; what it
does create is one shared datastore per cluster (`mounts`).

`InventoryBuild` sees clusters only: `asked` are those of the layout, `built` those with
all their hosts, mounts and pools. Most calls are stutters; the call that makes a
cluster whole is `Grow`, also when its answer is lost, which fails the build in the
same step; `Finish` wants every cluster whole.

## Runs

| Run | Instance | Result |
|---|---|---|
| `overrides` | one object under two ServerGUIDs, two metric keys, one property, two values (symmetric), expiry never or 1, clock to 2, one reader | passes, 177,952 states |
| `api` | two handlers, unlimited requests of eight kinds about two hosts, one session that ends and returns, clock stands still | passes, 200,974 states, with liveness |
| `faults` | one handler, two requests of the scenarios that make vSphere calls and one that does not, two sessions (symmetric) that end and change before any request, host `h1` renamed, clock stands still | passes, about 1.7 million states |
| `reversal` | one handler, three requests, all scenarios, no faults, clock to 2 with scenarios that last one second | passes, 3.6 million states |
| `cluster_reverse`, `clear_all`, `expiry` | one handler, two requests | violated, see Findings |
| `ticket` | as `sessions`, without symmetry | violated, see Findings |
| `sessions` | two clients (symmetric), three session keys (symmetric), one account and a token subject without one, one session at a time with an idle timeout | passes, 4.4 million states |
| `perf` | two clients, nine queries about a host, a datastore and a folder, one override value of two points, expiry never or 1, clock to 2 | passes, 45,084 states, with liveness |
| `inventory` | the default layout, three small ones, and no inventory; at most two faults | passes, 88,066 states, with liveness |
| `hardware` | the default layout without faults | violated, see Findings |

`overrides`: `OneEntryPerKey`, `PropertyReadsAgree` and the refinement
`ImplementsStore` (which answers of the hook there may be, for which entity and
key). One object suffices since no method relates two objects except
the clear-alls; two keys and two values are needed to replace one entry and keep
another; a clock of 2 passes the expiry time 1.

`api`: `HolderInvariant` (mutual exclusion, and what Deactivate saw active is
active when it deletes it), `ClearAllIsFinal`, `ActivationInPlace`,
`TargetScenariosReverse`, the refinement `ImplementsService` (linearizability)
and the liveness property `Answered`. The requests include metric overrides on
two hosts, a host disconnect, an activation that fails at its
second target, and a deactivation of the single target
`"h1 h2"`, whose key collides with that of the two targets. Two handlers give all
pairs of overlapping requests; the number of requests is not bounded. One session
is enough for `Answered`: it may end and return, or be logged out, between any two
requests of a wait, so that collectors are lost and unhooked. Deadlock is checked,
and there is none: arrivals and sessions go on when a handler waits for ever.

`faults` and `reversal` go through the whole catalogue on a cluster of three
hosts, a VM and a datastore: the smallest cluster `cascade_ha_exhaustion` accepts
and the smallest on which `host_count` 1 leaves hosts to overload. The path `h*`
matches two hosts, which `resolveRef` accepts and `Finder.HostSystem` refuses.
Two requests are enough for an activation and its deactivation with faults
between their steps, and two sessions for a wait that goes on in another one than
it began in; three requests let another scenario come between. Concurrency of
handlers is not at stake there: the lock makes requests sequential, as `api` shows,
and tasks run beside the handler. Behaviours end when the requests are used up, so
deadlock is not checked. `reversal` goes through every scenario and shows what
sessions that stay and a clock that moves leave of the statements; `faults` leaves
out scenarios that set overrides only, but for one.

`ActivationInPlace` asks for the effect of every entry of the script on every target,
of strikes on the first `host_count` hosts, and of as many snapshots as were asked
for. `TargetScenariosReverse` asks that no override is left on any object and hosts
and VMs are back, for scenarios that are not on clusters (see Findings) and targets
that still resolve; snapshots are not taken back and nothing is said of them. Both
except what the code cannot know of, and only that (`Excused`): a call that was
refused for want of a session where the scenario ignores the error, and a call
whose wait failed where the scenario ignores that, for as long as its task still
runs. `TargetScenariosReverse` also accepts a VM that stays off because the server
failed its power-on (its host is in maintenance mode).

`sessions`: `UsersAuthenticated`, `NoSessionMeansNone`, `EndedForGood`,
`KeptUnlessStray` and the refinement `ImplementsTable`. Two clients give every pair of overlapping requests, and each may
send any number; three keys give two sessions and a ticket or a clone. When the
keys are used up, requests go on without logins. The races are part of the
statements: a session comes back if another request held a copy of it when it
ended, and a `Logout` with a lost cookie ends a session that its client does not
own.

`perf`: `LockAndSamples`, `SeriesAsShown`, `PanicNeedsOddWindow`,
`QueriesAnswered` and the refinement `QueriesReadStore`, of the composition of queries
and registry. Times are scaled down (intervals of 2 and 6 seconds, 7-bit
integers, clock from 20 on) so that the integer limit, the sample cap and the
epoch can all be crossed. The queries include wildcards, a counter without data,
two specifications, an entity type without data, and windows that are empty,
reversed, too long, as long as an integer can say in intervals of one, with a
negative interval and from before 1970.

`inventory`: `HostsCustomized`, `PlacementSound`, `CompleteMeansBuilt`,
`FailureLeavesPrefix`, `DashboardPopulated`, `LayoutSound`, `GetsReady` and the
refinement `ImplementsBuild`. The flags
have counts that are negative, zero, not divisible by three and above one. The
deadline may pass anywhere and costs no fault; `MaxFaults` = 2 bounds the others,
since the first error of a call ends the build and only VMs lost before it and the
errors of `main` after it can come on top. `MaxLost` and `LossyPool` bound the VMs
lost in one pool and the size of a pool in which some may be. Behaviours end when
`vcsim` exits, so deadlock is not checked.

### Fairness

Weak fairness of the steps of the lock's holder and of `Reject`: a runnable
goroutine runs; and of `RunTask`: a vSphere task ends (an assumption about the
simulator: the tasks the manager starts run to completion without waiting for
anything). Nothing makes a wait end: the manager waits under
`context.Background()` without a timeout, and `ReceiveUpdate` is not enabled for a
handler whose collector is unhooked. `Answered` therefore excepts the behaviours in
which a `Logout` left a handler waiting for ever; those in which waits fail, sessions
come and go, or other requests overtake are not excepted. Strong fairness of
acquiring `mu`: a blocked `Lock` keeps later readers of an `RWMutex` out, and a
starving mutex is handed to its oldest waiter. Nothing is assumed of arrivals,
renames, the clock, or of when sessions end, change and return.

For `QueriesAnswered`: weak fairness of the steps of the query that holds the lock
and strong fairness of taking it, for the same reasons. For `GetsReady`: weak
fairness of the one goroutine of `main` and the builder. Its calls come back because
the build's context has a deadline; the logins of the builder and of the manager,
which have none, are assumed to be answered by the server in the same process.
`Sessions` states no fairness and no liveness.

## Findings

1. `cluster_reverse`: scenarios on a cluster disconnect and override its hosts;
   their deactivation clears the overrides of the cluster object only.
2. `clear_all`: clear-all calls no deactivation; hosts stay disconnected with no
   scenario left to deactivate.
3. `expiry`: a scenario whose duration is over stays listed.
4. `ticket`: `CloneSession` finds a ticket and deletes it in two critical sections, so
   two clients can use one ticket that "can only be used once".
5. `hardware`: `NewHostSystem` copies the template one level deep, so hosts share the
   BIOS, the CPU packages and the sensors, and all show those of the host created
   last.

## Proofs

TLAPS proves, for every value of the constants that satisfies the assumptions:

- `RegistryTypeOK`, `RegistryOneEntryPerKey`, `RegistryPropertyReadsAgree` and
  `RegistryImplementsStore` (`OverridesProofs`). The inductive invariant is
  `RegistryInv`: types, one entry per key, and one entry per key in the copy every
  reader holds. The last part is needed because a reader answers from its copy
  after the list has moved on. With it the first match is the only match
  (`LeastMatch`), so `Upsert` is the map update of the abstract store, and a hook
  call is mapped to a read at the instant of its copy.
- `ManagerHolds` and `ManagerImplementsService` (`ScenarioManagerProofs`). The
  inductive invariant `ManagerInv` adds to `HolderInvariant` which request can be
  at which step and that what is left of a running deactivation's script holds no
  call whose error is returned and no panic (`DeactivationScript`): otherwise a
  deactivation could fail after it took the lock, which `ScenarioService` does not
  allow. An answered request maps to its instant of effect: the step that answers.

- `ManagerClearAllIsFinal` (`ScenarioClearProofs`). `FinalInv` adds to `ManagerInv`
  that an activation in progress counts among those since the last clear-all, and
  that the registry is empty while a clear-all is between its two halves. Both rest
  on mutual exclusion: an activation beside a clear-all would write the registry
  after it was emptied and be forgotten by `since`. That a deactivation writes no
  override is `DeactivationScript` again.
- `SessionsTypeOK`, `SessionsUsersAuthenticated`, `SessionsNoSessionMeansNone`,
  `SessionsEndedForGood` and `SessionsKeptUnlessStray` (`SessionsProofs`), for any number
  of clients, keys and idle watches. `UsersAuthenticated` and `KeptUnlessStray` are
  inductive with the types. `NoSessionMeansNone` needs `SeenInv`: a request that is
  still looking while the table is empty has been marked as having seen it so.
  `EndedForGood` needs `EndedInv`: an ended key was drawn before, so no new session
  gets it, and no request holds a copy of it, so none writes it back; nobody can
  take a copy later since only live sessions are copied.
- `SessionsImplementTable` and `SessionsUserForGood`. `OwnedInv` says that a key has one
  user, in the table and in all copies of it together, and was drawn before: else a
  write-back could put a session into the table under another user than the one it
  was taken out with. Each step changes what one request holds, so what is owned
  after it is the table, the other requests' copies and its own (`OwnedParts`). A
  lookup that takes a copy is a stutter; a logout, a termination, the deletion of a
  clone ticket and the idle watch map to `End` or `Suspend` by whether a copy is left;
  a write-back maps to `Resume`, or to a stutter if the session is still there.
- `StartupTypeOK` and `StartupHostsCustomized` (`StartupProofs`), for any flags and any
  number of failures. `StartupInv` adds that the registry holds the right profile
  for the host about to be added (`Registered`), whatever other clusters registered
  before, and which hosts exist while the loops over them run (`Added`).
- `StartupPlacementSound`, `StartupCompleteMeansBuilt` and `StartupFailureLeavesPrefix`.
  `OrderInv` adds to `StartupInv` that everything before the place where the builder
  stands is whole and nothing comes after it (`Frontier`), and, inside the cluster it
  stands at, what its loops have done so far: `cluster.Host` is exactly the hosts
  added, in order (`HostsHere`), the first hosts have the datastore (`MountsHere`) and
  the first pools exist (`PoolsHere`). Neither property is inductive: a prefix is
  left wherever the build fails only because it was one before, and a build is
  complete only because the frontier has passed the end of the layout. At the VMs,
  `AllAttached` shows that the filter of `hostsWithDatastore`, which works in the
  array of `cluster.Host`, returns all of it and so overwrites nothing.
- `StartupImplementsBuild`. A cluster becomes whole with its last mount or, if it has
  any, its last pool. By the frontier of `OrderInv` all clusters before it are whole
  then and none after it is. `BuildInv` adds that a cluster is new when it is created
  and that no host of it has a datastore before the loop that mounts it (`Fresh`), so
  that neither creating it nor adding a host makes it whole or takes from one that
  is; the filter of `hostsWithDatastore` takes nothing by `AllAttached`.
- `StartupHardwareShared` is finding 5 in general: whichever VMs are lost, a complete
  default layout has a host that shows hardware not its own. By `OrderInv` its first
  cluster has its first two hosts then, whose profiles differ in the version of the
  BIOS, and all hosts show the same one.
- `StartupDashboardPopulated`. `SensorInv` adds to `StartupInv` that once there is a host,
  the shared sensors are those of one of the profiles; every profile fills every
  category (`EveryCategory`). The hook never finds a host without a profile
  (`Registered` again), or the first host would have no sensors.
- `StartupLayoutSound` is a fact about the constant layouts, for any flags: the three
  shares of a cluster add up (`SimpleSum`, from a lemma on `SumFunctionOnSet`), and the
  names and prefixes of the simple layouts and of the fourteen clusters and thirty-one
  pools of the default one are distinct.
- `QueryLockAndSamples`, `QuerySeriesAsShown` and `QueryPanicNeedsOddWindow`
  (`PerformanceManagerProofs`), for any queries, recorded data, clients and integer
  width. `PerfInv` has the registry's one entry per key (`RegistryOK`, with the lemmas
  of `OverridesProofs`), who has the lock (`LockOK`), the shape of a query at every step
  (`QueryOK`), and `ShownOK`: of every metric of a running query what is in force now
  has been shown, what the hook has found or is about to return has been shown, and
  so has what every series shows. The middle part is what makes a hook that answers
  from an outdated copy harmless. That a panic needs an odd window rests on two
  lemmas on Go's arithmetic, about the sign of the truncated quotient and of the
  remainder, and on where one more than the quotient wraps around: only where the
  length is the largest integer and the interval is one (`QuotientBelow`).
- `QueryPerfReadsStore`. `SpecsSent` adds to `PerfInv` that the specifications a query
  still has to do are some client's, so that every key the hook is called for is one
  of `AskedKey`. The hook's first half is the store's `Read`; adding a series and the
  panic on a negative index are its `Forget`; everything else about a query, waiting
  for the lock and losing it included, is a stutter. The lemmas about lists as maps
  are those of `RegistryImplementsStore`.
- `ManagerActivationInPlace`, `ManagerTargetScenariosReverse` and `ManagerTypeOK`
  (`ScenarioEffectProofs`), for any inventory, requests, sessions and number of handlers,
  through the scripts of all thirty scenarios. `Deed` is what the entries of a script
  may be and on which objects; each script is shown to be made of deeds, with its
  strikes and snapshots counted. `EffectInv` has four parts for a running request.
  `Course`: each entry of the script of a target it has been through is still ahead
  of it or made. `Made` means, of a registry write, that it shows (`Written`), and, of
  a call, that it was refused, that its task runs and is the only one of its object, or
  that it has had its effect (`Seen`); a call whose task still runs is the one in hand
  or one whose wait failed. `Ahead`: what is ahead are entries of the request, in
  number (`Numbered`). `Ready`: before a snapshot is asked for the one before it was.
  `AtTask`: a handler that has been told the end of its task finds it ended. `Marked`
  says that every override is on an object that its activation marks: so a
  deactivation that has cleared the objects it found has cleared all objects with
  overrides of that activation. No other handler can undo an effect in between
  because of `HolderInvariant`, and no task of another request can, since a task holds
  its object's lock and `StartTask` waits for it. `ManagerTypeOK` adds that only handlers
  that listen are `deaf` (`Deaf`) and that what is listed has the shape of a key
  (`Listed`).

### Assumptions

TLC evaluates each on the instances that use it.

- `RegistryAssumption`: the absent value is no value, expiry times are naturals with
  0 for never.
- `InventoryAssumption`: the finder returns entities.
- `ManagerAssumption`: requests have one of the four operations, a list of paths, and
  whole numbers for duration and parameter or, for the latter, none; the absent
  session is no session.
- `SessionAssumption`: no key and no user are none of them.
- `StartupAssumption`: flags and bounds are numbers; the absent profile is none of the
  profiles.
- `PerfAssumption`: queries have the fields and number types of Go's `PerfQuerySpec`, the
  intervals are positive, the window, the cap and the boot time are naturals, the bound
  on the clock admits the 1 it starts at, and what has recorded data is an entity of the
  inventory.

### Only model-checked

Every invariant and every action property of the passing runs, and all five
refinements, have a theorem. Three properties have none: `Answered`,
`QueriesAnswered` and `GetsReady` are liveness under fairness, which rests on ENABLED
and is outside the prover's reach; they stay with TLC. The five findings are
violations, which a trace shows and no proof is needed for.

Lemmas by induction are stated over sets of numbers (`SetInduction`: a set with 0
and all successors holds every number) and recursive functions are handled through
their histories (`LoopHistory`); the library's theorems that take an operator as a
parameter cannot be instantiated by the installed provers. For the same reason
loops are recursive functions (`Filter`), and tables are sets of rows and records,
since the prover does not expand TLC's `:>` and `@@`.

## Bounds

`MaxTime` bounds the clock, `MaxRequests` the requests of a behaviour (0: no
bound). Snapshots are bounded by the requests, and so are tasks, one of an object at a
time. `Key` bounds the sessions of a
behaviour and `MaxWatched` the idle watches at one time. `MaxFaults`, `MaxLost` and
`LossyPool` bound the faults of a start-up, see its run. The proofs use no bound.

Definitions that a comment introduces as "a faulty variant" stand before the
definition they vary: each is a plausible slip in that piece of code, and TLC
finds the property it is paired with in `PROJECT.json` violated when it takes the
definition's place.

## Not modelled

Sampled values, their noise, the scaling by instance and the CSV form of a query;
logging, JSON and HTTP details; the list of definitions, index and health handlers,
which are stateless; `ActiveMetricKeys` and `ActivePropertyKeys`, which nobody calls;
the int64 of `time.Duration` in an activation's expiry (durations of more than 292
years) and the int16 of a cluster's thread count; names and sizes of VMs, hosts and
hardware that no property tells apart; the command-line tools `cmd/inspect` and
`cmd/topoxml`, which log in, print and log out; the rest of vendored govmomi.

## Plan

1. Done: the registry, the controller and its catalogue, with refinements and proofs.
2. Done: `Sessions` and `Startup` with proofs, `InventoryConfig`, `PerformanceManager`.
3. Done: theorems about every invariant and action property of the runs.
4. Done: abstract specifications of the session table and of the builder, and of the
   registry as queries read it, with their refinements proved.
