# Verification of the fleet manager

TLA+ modules for nakama-agones, a Nakama plug-in that places pairs of players
in rooms on game processes it creates, watches and deletes through Agones.

## 1. The system

| part | code | state | operations |
|---|---|---|---|
| durable store | `internal/state` | one JSON row per namespace: workers, allocations, commands, leader lease, capacity policy | `Update` (one transaction), `View` |
| allocation and capacity API | `pkg/fleetmanager/manager.go`, `policy.go` | none of its own | Allocate, Create, Cancel, Join, Update, Drain, Delete, UpdatePolicy, retry-creation, Get, List, Assignment |
| controller tick | `pkg/fleetmanager/lifecycle.go` | the point between two transactions of a tick | lease, maintenance, placement, scaling; start, reconcileUnknown, poll, stop; notify, callbacks |
| agent protocol | `pkg/fleetmanager/http.go`, `timing.go` | none of its own | bootstrap, heartbeat (observation, command results, room snapshots) |
| admission tickets | `pkg/fleetmanager/token.go` | none | sign, verify |
| Agones client | `internal/agones` | Kubernetes objects: Secret, GameServer | Start, Stop, Get, List as sequences of API calls |
| room host | `examples/room-worker/server.py` | rooms, tickets used, sequence number, tombstones | prepare, cancel, drain, connect, heartbeat loop |
| node enrollment and retirement | `internal/console/onboarding.go`, `retirement.go`; `scripts/node_enrollment_controller.py`, `node_onboarding.py` | NodeEnrollment and NodeRetirement resources, a Secret per enrollment, the Node object; in the controller a main thread with its copy and an installer thread | scan, preflight, join, retire (console); list, watch, reconcile, install, clean up, retire (controller) |
| alerts | `internal/console/alerts.go`, `operations_*.go` | alert file, configuration file | evaluate, save, send, configure |
| console sessions | `internal/console/auth.go` | sessions, login attempts | login, check, logout, prune |
| console commands | `internal/console/control.go`, `policy.go` | slots of the broker | drain, retry-creation, policy update |
| console data | `internal/console/source.go`, `api_v1.go` | cached snapshot and its lock | collect, invalidate, list by pages, read logs |
| credential sync | `scripts/sync_nakama_token.py` | two files and a lock | install, inspect |
| node setup | `scripts/k3s_node.py` | ownership record | install, uninstall |

Parts interact as follows. Clients and operators call the manager through
Nakama RPCs. Every replica of Nakama runs a manager; all of them share one
row of the store, and the lease in that row decides which of them ticks. A
tick is one maintenance transaction followed by at most one operation on one
worker: a transaction, a call to the provider without a lock, and a
transaction for its answer. A game process learns its commands from the
answers to its heartbeats and reports their results in later ones.

What is hard: the provider call is made outside any transaction, so the state
it was decided on may have changed, and the lease may have gone to another
replica, when its answer is recorded; the outcome of a create may be unknown;
a process may bootstrap, report and fall silent at any time; a room is shared
by two players, a process, a tick and an operator who drains its worker.

The console is a separate process. It reads the fleet from an exported file,
changes it through a broker behind a Unix socket, and adds and removes
machines by writing Kubernetes resources that a controller watches. Several
operators use it at once; the controller holds a lease of 30 seconds, works
on copies of the resources, and acts on machines by SSH. What is hard there:
every write may be lost, late or applied without an answer; watch events are
older than the resource; a crash may fall between the record of an action and
the action; a command that timed out may still be carried out; a snapshot that
is being collected may be older than a command acknowledged meanwhile.

What makes each modelled part correct: a player is in at most one live room;
a worker has no more rooms than it holds; no live room is on an instance that
is being deleted or was given up; commands and rooms agree; a player's absence
is always timed; outcomes are final; a worker that left service never admits
again; the number of instances that may exist is bounded; every request is
decided. For the Agones client: an instance exists only while its worker is
counted, whatever answers are lost; its credentials stay as long as it does and
go with it; its end is noticed. For the alert engine: an alert fires and
recovers only after an uninterrupted hold period; messages about it keep their
distance across lost answers, crashes and updates; what is saved can be loaded.
For enrollment and retirement: a machine is installed at most once, a failure
means that it was left alone, a password does not outlive its use but a plan
that can be approved has one, a verdict stays, only the node the operator
confirmed is removed, and everything submitted comes to an end. For the
console: what an operator was told stays true, a page shows what was
acknowledged before it and nothing older than the limits add up to, a list
without a warning is complete, sessions end for a reason, no slot is lost.

## 2. Modules

    FleetStore      the records of the store, queries and elementary changes
      FleetTick     the maintenance transaction of a tick
      FleetHeartbeat  the effect of one heartbeat
        FleetManager  variables, one action per transaction or provider answer, properties
          MCFleet     small instances for TLC
          FleetManagerProofs  theorems: types, players, outcomes
            FleetSafetyProofs   theorems: rooms, workers, capacity, instances
              FleetCommandProofs  theorems: commands, seats, sessions, scaling down
    InstanceSlot    what counting instances against the limit relies on
      AgonesClient  the client, request by request; implements InstanceSlot
        AgonesClientProofs  theorems
    AlertEngine     alerts: observation, delivery, configuration, crashes
      AlertEngineProofs  theorems
    NodeEnrollment  one enrollment: console requests, API, controller, installer
      NodeRetirement  with the removal of one node, by the same main thread
        NodeEnrollmentProofs  theorems: types, the one INSTALL, verdicts, credentials
          NodeRetirementProofs  theorems: what a DELETE removes
    ConsoleAuth     logins, sessions, limits
      ConsoleControl  commands, broker, revisions, cached snapshot
    ConsolePages    lists and logs page by page
      MCConsole     ConsoleControl and ConsolePages for TLC
      ConsoleProofs  theorems about ConsoleAuth, ConsoleControl and ConsolePages

`FleetStore`, `FleetTick` and `FleetHeartbeat` have no variables: like the Go
code, which mutates a `*state.State` inside `Update`, they describe a
transaction as a function from store to store. `FleetManager` has two
variables. `store` is the row; every action that changes it is one committed
transaction (a rolled-back transaction changes nothing and has no action).
`ctl[c]` is where controller `c` stands between two transactions, and its
worker. `PROJECT.json` maps each definition to its lines.

| code | model |
|---|---|
| `Allocate`, `Create`, `Cancel`, `Join`, `Update`, `Drain`, `Delete`, `RetryCreation`, `UpdatePolicy` | actions of the same names (`CreateWithUsers` for initial players) |
| `bootstrapHTTP`, `heartbeatHTTP` | `Bootstrap`, `Heartbeat` |
| `Tick`: lease and `maintain` transaction | `Tick` = `Maintained`, `Placements`, `ScaleUps`, `ScaleDowns` |
| choice of the due worker, `renewLease` | `Pick`, `PickNothing` |
| `start` | `Start`, then `Created` or `CreateFailed` |
| `reconcileUnknown` | `Recreate`, then `Adopted` or `NotAdopted` |
| `poll` | `Polled`, `PollGone`, `PollMismatch`, `PollFailed` |
| `stop` | `Stop`, `Deleted` or `DeleteFailed`, `Confirmed` or `Unconfirmed` |
| context ends, process ends, process dies | `Abort`, `Shutdown`, `Crash` |
| the clock | `Elapse`, one second |

`AgonesClient` looks at one worker and one name, at the grain of single
Kubernetes requests. `worker` is the manager's record, `call` the provider call
under way and the request it sends next, `game` and `secret` the two objects
the client keeps in the cluster, `late` the creates that were sent and not
answered, `conf` the configuration of the running process. Each action is one
request with its answer; the request names of the code (`secret_create`,
`start`, `create_reconcile`, ...) are the values of `call.at`. The cluster's
own steps (a create that takes effect late, a change of status, finalizers,
garbage collection, an operator's delete) are actions marked external.

| code | model |
|---|---|
| `Start` | `SecretCreated`, `SecretNotCreated`, `SecretReconcile`, `SecretOwnerCheck`, `GameCreated`, `GameNotCreated`, `CreateReconcile`, `FailedCreateCheck`, `FailedCreateCleanup`, `SecretOwner` |
| `List`, `Get` | `List`, `Get` |
| `Stop`, `cleanupAbsentSecret` | `StopGet`, `StopDelete`, `SecretCleanupGet`, `SecretCleanup` |
| `start`, `reconcileUnknown`, `poll`, `stop` around the calls | `BeginStart`, `BeginReconcile`, `BeginPoll`, `BeginStop`, `StopConfirm`, `Record` |
| the second look of `stop()` before it calls Stop | `StopRefused`, a guard of `BeginStop` |
| heartbeats, `HeartbeatTimeout`, `LostTimeout` | `Report`, `Stale`, `Silent` |
| `Tick`: drained or not launched in time; interrupted creates; one call a tick, the oldest first | `Retire`; `Interrupted`; `worker.waits`, `GiveWay` |

`stop()` looks again before it deletes a drained worker and refuses unless a
recent heartbeat says that nothing is left to do; a refusal changes nothing, not
even `NextCheckAt`. `worker.drain` is what it would find, and a refused stop is a
tick without effect. Since a tick serves the worker that is due first, a refused
one also keeps the others waiting: `worker.waits` says that there is one before
ours, which may be so whenever our `NextCheckAt` is set anew, and `GiveWay` that it
is out of the way. Of `Draining` and `DrainAck` before "stopping" the
client's module keeps nothing (`FleetManager` does): `Retire` is the tick that has
seen them.

It makes three assumptions that the code's timing supports and nothing in the
code enforces. A create that was not answered takes effect, if at all, before
the next create of the same object is sent (calls last at most 5 seconds and
are repeated a second or more later): so none lands between the look and the
deletion of a cleanup. Calls of two replicas for one worker do
not overlap (the lease is renewed for 30 seconds before a call). An update or a
delete without an answer has taken effect or never will.

`AlertEngine` is the alert engine of the console. Every variable but `message`,
`now` and `past` is a part of the file `operationsState` is saved to: `Evaluate`
is one evaluation up to its save and the call of `Send`, `Accept` the bot that
takes the message, `Sent` what `evaluate` does with the answer, `Update` an
administrator's change. A save that fails before its rename changes nothing and
has no action; one that fails after it is `Evaluate` with `synced = FALSE`, or
`Sent` with `saved = TRUE`, which ignores the error. What a snapshot says of a
key is one of four samples: which heartbeat, window and threshold made it so is
abstracted. `past` is a history variable for the properties: the code's own
record of a key is lost when the alert is dropped, `past` is not. The clock is
assumed not to go back; losing power between rename and sync is not modelled.

`NodeEnrollment` follows one resource. `task` is the resource with its version,
`op[o]` a console request with the copy it read, `ctl[c]` the main thread of a
controller with its copy, `queue[c]` the versions its watch has still to
deliver, `inst[c]` its installer thread, `secret` the uid of the credential.
Every step is one request to the API or to the host. A write is accepted if
the version of its copy is the current one; a request may be lost, or take
effect without an answer, as often as `MaxFaults` allows.

| code | model |
|---|---|
| scan (POST) | `SubmitScan` |
| `submitPreflight` | `ReadScan`, `CreateSecret` or `SecretNotCreated`, `PatchPreflight` or `PatchRefused`, `UndoSecret` |
| `submitJoin` | `ReadPlan`, `PatchJoin` |
| `main`, `cycle`, `cleanup` | `Start`, `Crash`, `CleanupList`, `CleanupDelete`, `List`, `Event`, `WatchFails` |
| `reconcile` | `AlreadyTerminal`, `Reject`, `Busy`, `Interrupted`, `PreflightInterrupted`, `Scan`, `Scanned`, `Preflight`, `PreflightRefused`, `Probed`, `HostFails`, `Join`, `JoinRefused`, `PlanExpired`, `ScanExpired`, `StillWaiting`, `InvalidTransition`, `Refetch`, `FailFresh`, `CleanSecret`, `Spawn` |
| the installer thread | `BeginInstall`, `SendInstall`, `Installed`, `NodeReady`, `InstallFails`, `InstallBroken` |
| `CheckNodeRetirement`, submission (`NodeRetirement`) | `Look`, `Confirm`, `Inventory`, `SubmitRetirement` |
| `retire` | `TakeRetirement`, `RetireDone`, `RetireInterrupted`, `BeginRetire`, `RetireNode`, `RetireFails`, `RetireInventory`, `RetireAgain`, `RetireDelete`, `RetireWrite`, `RetireError` |
| the node, the scheduler, an unanswered DELETE (external) | `NodeFlips`, `NodeMoves`, `NodeRegistersAnew`, `Work`, `LateDelete` |

The lease itself is not a variable: a controller may start while another one is
still alive, and `overlap` records that this happened, since the code's own
checks of the lease are between requests. The properties that hold only of one
controller at a time say `~overlap`; `InstalledOnce` does not. What a host
answers is one outcome per conversation. A resource is not deleted; the code
does that seven days after its end.

`ConsoleAuth` has one variable per table of `auth`; a request is a goroutine
whose position is `at[o]`. `ConsoleControl` adds commands and snapshots of the
same goroutines: `broker` holds the requests in a slot, `flight` the commands
the manager has received or will receive, which stay there after everybody has
given up, `revision` the capacity policy's; `applied` and `told` are what was
done and what operators were told. `cache`, `mu` and `file` are the data source
(`invalidateSnapshot`, the lock held through a collection, the exported file).
Ages count from the moment the file was written. `ConsolePages` is one
client that reads a list or a log. The console keeps nothing between two pages,
so the state is the client's (`list` and `reader`: cursor, what it has got) and
that of what it reads: `rows`, the nodes or rooms there are, which come and go
between two pages, and `log`, to which entries are added late while `clock` goes
on. Each page of a list is cut from a snapshot of its own (`RegionSnapshots`,
`FleetSnapshot`), in which other reads fail; the client stops when it is refused
or warned.

| code | model |
|---|---|
| `login`, `allowLogin`, `createSession`, `requestSession`, `expireSessions` | `Attempt`, `RateLimited`, `TakeSlot`, `WrongPassword`, `Login`, `Unauthenticated`, `Logout`, `ExpireSessions` |
| a command from the browser to the broker | `Submit`, `Enter` or `NotSent`, `Reply`, `BrokerGivesUp`, `ClientGivesUp`, `Invalidate` |
| the manager's endpoints (`policy.go`) | `Apply`, `Refuse` |
| `Snapshot` | `AskSnapshot`, `ServeCached`, `Collect`, `Collected`, `Served` |
| a page of a list (`versionedAPI`) | `ReadPage` with `RegionSnapshot`, `Refused`, `SnapshotWarnings`, `Filtered`, `Page` |
| a page of a log (`Logs`, mode history) | `ReadLogPage` with `BadCursor`, `End`, `LogPage` |

Abstractions of the fleet modules, and why they lose nothing the properties tell apart:

- Instants are ages (of `LastHeartbeat`, `CreatedAt`, ...) and remaining times
  (to `ExpiresAt`, `LeaseUntil`, ...). An age saturates one past the largest
  limit it is compared with, a remaining time stops at 0. Clocks of different
  replicas do not differ.
- Commands that are done are removed: the code keeps them only to answer a
  repeated result.
- `Pick` takes any due worker; the code takes the one due for longest. Every
  order of the code is an order of the model. Starvation is therefore not
  checked here.
- A provider answers anything its interface allows at any time. `Crash`
  replaces the process by one with a new owner id: nobody owns the old lease,
  which runs out.
- Metrics are reduced to "pending work" and "overloaded"; build hash and
  region are constant (`New` refuses a namespace with another).
- Random ids are never reused while anything mentions them; the finite sets of
  ids bound how many are in use at a time, not how many are used.
- One boot id per process; tokens are not modelled; a heartbeat with an old
  sequence number changes nothing and has no action.
- A record that another replica pruned during a provider call is a nil
  dereference in `start`, `poll` and `stop`: that controller can only abort or
  crash.

## 3. What TLC checks

The `fleet_` runs use module `MCFleet`. Timers are 1 or 2 seconds, which is enough for
every comparison to be true and false and for every pair of timers to expire in
either order; one worker unless the property is about several.

| run | instance | properties |
|---|---|---|
| `fleet_rooms` | 1 room, every room report; 2 controllers, lease of 1 s | `TypeOK`, `NoRoomWhileDeleting`, `CommandsMatchRooms`, `AbsenceIsTimed` |
| `fleet_provider` | every provider answer, lifetimes, a stalled process (unready, overloaded, busy), operators, abort, shutdown, crash | `PlacedOnServingWorker`, `SeatsWhereAdmitted`, `OutcomeIsFinal`, `NoReturnToService` |
| `fleet_requests` | 3 requests, neighbours share a player, 1 room per worker | `OneLiveAllocationPerUser`, `CapacityRespected` |
| `fleet_limit` | 2 worker ids, at most 1 instance, no create back-off, crashes | `InstanceLimit` |
| `fleet_scale_down` | 2 workers, minimum 1 | `ScaleDownKeepsMinimum` |
| `fleet_liveness` | aborts and crashes, fair ticks | `RequestsAreDecided` |
| `fleet_abandoned_create` | a create without an answer | `NoAbandonedCreate` (violated) |
| `agones_client` | 2 configurations, 6 objects, fair | `InstanceIsCounted`, `CredentialsAreKept`, `KeepsSlot`, `EndIsNoticed`, `CredentialsAreRemoved` |
| `alerts` | 1 alert, two hold periods, long enough to be dropped and fire again | `HistoryAlternates`, `AttemptsAreSpaced`, `CooldownIsKept`, `HoldIsRespected`, `StateReopens` |
| `alerts_recovery` | as `alerts` | `RecoveryFollowsDelivery` (violated) |
| `nodes` | 1 enrollment or 1 retirement, 2 operators, 1 controller, 2 faults, 2 changes of the node | `TypeOK`, `InstalledOnce`, `FailedMeansUntouched`, `PlanKeepsCredential`, `VerdictStays`, `CredentialsGo`, `OnlyConfirmedNodeRemoved`, `DeletedMeansGone`, `TasksEnd` |
| `console` | 2 browsers, 3 peers, 1 slot, 3 commands or snapshots; pages of up to 3 of 3 rooms, 4 nodes or 4 log entries, 1 row that comes or goes | `PeerTableBounded`, `SessionsEndForAReason`, `AnswersAreDefinite`, `RefreshedAfterCommand`, `SnapshotAgeBounded`, `RequestsEnd`, `ListsAreComplete`, `OnlyTiesAreSkipped` |

Two live requests suffice for the properties about pairs of allocations (the
three of `fleet_requests` make a pair that shares a player and a pair that does
not), two controllers for those about a stale controller: a third is symmetric
to one of the two. `fleet_provider` has one controller: that an outcome stays final
and a worker out of service when a stale controller commits late is left to the
theorems `Finality` and `NoRevival`. Two worker ids with `MaxInstances = 1` let
a replacement be requested while the first instance is lost or its create is unresolved.

Outside `fleet_rooms`, whose host reports anything, rooms are reported closed or
played by both players, and in `fleet_requests` only closed: which players are
present, and whether a live room is `assigned` or `active`, matters to no other
property. `fleet_requests` is checked up to reading the chain of its requests
from the other end.
`fleet_rooms` is checked up to a permutation of the two players and of the two
controllers, which no definition tells apart.

The six objects of `agones_client` are three generations of a Secret and a
GameServer, so that a create can be repeated after the object of an earlier one
was removed and collected; two configurations are what it takes for an object
to differ from what the process wants.

In the `alerts` runs `Gap`, `Retry` and the shorter hold are 1, cooldown and
retention 2: the order of the code's 20, 30, 60 and 86400 seconds where it
matters (`Retry` and the cooldown do not exceed the retention), and the smallest
values for which an interval can be too short, just long enough and longer.
Alerts do not affect each other except through the batch, the common history
and the limit on their number. The history of 2 is cut in the middle of the
events of one alert; two alerts in one batch and more alerts than the limit
(where an evaluation changes nothing) are not run. The runs do not check for
deadlock: with the monitor disabled, the clock and the revisions at their
bounds, there is nothing left to do.

In `nodes` two faults are enough for a lost answer followed by the failure of
what repairs it, or by a crash; two credentials for one that is left behind and
one that is used; two operators for a request that loses the race. The credential
lives longer than the scan and the plan by one unit, so that each of them can
expire first. A process that dies is replaced by another one; two at the same
time are left to the theorem of section 4. An enrollment and a retirement only
share the main thread, so a behaviour has one or the other.

In `console` logins and commands are in separate behaviours (`MaxBeside = 0`):
they share the session table, which a command reads once. One slot and two
browsers fill the broker, three calls are a command, another one in its way and
the page that must show it. `FileTTL = 0` and the other limits of 1 make every
age reach its limit. Pages are read before there is any other request, since they
touch none of its state; which reads fail is chosen anew for every page, one row
comes or goes at any point of a list (theorem `ListsComplete` is about any
number of them), and a list of 4 rows in pages of 1 passes `MaxOffset = 2`.
4 log entries with 3 times and pages of up to 3 make ties at, before and behind
a page's end, and the clock goes on until every cursor is too old.

`fleet_liveness` assumes weak fairness of `Elapse` (time passes), of `TickStep`
and of `AdvanceStep` (`Run` ticks on a ticker; provider calls and transactions
have a 5 s context, so a tick comes to its end). Nothing is assumed of clients,
processes or the provider. `agones_client` assumes that the cluster finishes
deletions and collects orphans (`Finalize`, `Collect`), that the manager takes
up due work whose turn it is and that it does not refuse, and records outcomes
(weak fairness of `BeginPoll`, `BeginStop`, `Record`: its ticker), and strong
fairness of the answers: a request that is repeated for ever is answered again
and again, and the process does not die every time before it records the answer.
A worker whose GameServer is gone has nobody who reports for it, and every tick
compares its silence with `LostTimeout` before it makes a call: hence strong
fairness of `game = None /\ Silent`, which is what ends the wait of a worker
whose stop is refused. `GiveWay` is weakly fair: the controller does its part
(a silent worker is lost after `LostTimeout`, and its poll moves `NextCheckAt`);
the other part is an assumption about the processes, namely that a drained one
does not report unfinished work for ever. One that did would keep every other
worker from being polled: nothing in the code bounds that, and without either
of these two assumptions TLC finds `EndIsNoticed` violated. Nothing is
assumed of the creates.
`nodes` assumes that time passes, that a controller that is down is started
again (Kubernetes restarts its Pod), and that a running one goes on: its loop,
its main thread and its installer thread take their next step (every request
and every SSH conversation has a timeout). `console` assumes that the
goroutines of a request go on, and that the broker gives up after its four
seconds; nothing of the manager or of the clients.

`fleet_abandoned_create` shows a disagreement between comment and code.
`lifecycle.go:22` says "Ambiguous creates are reconciled, never blindly
retried." A worker whose create was not answered is "unknown" without a
provider id. Its instance may exist, bootstrap and report, and then fall
silent; `lifecycle.go:47` then declares it lost, and a lost worker is polled
only if it has a provider id. Neither `poll` nor `reconcileUnknown` looks at it
again, and `liveCount` counts it for ever.

`alerts_recovery` shows another. `docs/console-capacity-alerts.md:74` says
"Recovery messages are sent only for incidents previously delivered." An
incident that begins within the cooldown of an earlier message is not sent, but
`LastNotifiedAt` still holds the time of that message, and `alerts.go:323` takes
it for a delivery of the new incident: its recovery is sent.

## 4. What is proved

Each theorem is about every value of the constants that satisfies the named
assumptions, where a run of section 3 is about one instance.

**The fleet.** `IdAssumption` (ids are finite in number and distinct from
`None`), `ConfigAssumption` (what `Config.Validate` enforces) and
`InputAssumption` (what the two-player request type enforces).

| theorem | property |
|---|---|
| `TypeCorrect`, `OneAllocation`, `Finality` (`FleetManagerProofs`) | `TypeOK`, `OneLiveAllocationPerUser`, `OutcomeIsFinal` |
| `RoomsAreServed`, `DeletionIsSafe`, `Capacity`, `Instances`, `NoRevival` (`FleetSafetyProofs`) | `PlacedOnServingWorker`, `NoRoomWhileDeleting`, `CapacityRespected`, `InstanceLimit`, `NoReturnToService` |
| `CommandsMatch`, `AbsencesAreTimed`, `SeatsAreAdmitted`, `MinimumIsKept` (`FleetCommandProofs`) | `CommandsMatchRooms`, `AbsenceIsTimed`, `SeatsWhereAdmitted`, `ScaleDownKeepsMinimum` |

A tick is a composition of passes over the store, and so is every other
transaction. Instead of proving an invariant of every pass, a relation between
two stores is defined that every pass satisfies and that composes; the
elementary changes (`CancelAll`, `CloseWorkers`, `BeginDrain`, `Place`,
`HeartbeatIn`, ...) have one lemma each, and each action is a chain of them.
There are three such relations.

- `Evolves`: the new store is well formed, no allocation that is over or absent
  becomes live, and the players of a live one do not change. Only
  `allocation()` adds a live record, under `Admissible`.
  `TypeOK /\ OneLiveAllocationPerUser` is then inductive: without `TypeOK` an
  update of a function or a record says nothing.
- `Tame`: a pass moves no room, takes no worker with a room out of service,
  revives no worker, and lets none stop draining except by giving it up. The
  two passes that are not tame place rooms and create workers, and are shown by
  counting to keep within `maxRooms` and `MaxInstances`. The invariant of the
  store is `Sound`: rooms are `Placed` on workers that serve, `Fitting`, the
  workers `Limited`, and every record `WorkerOK` (a draining worker serves no
  one new). It is not enough for `NoRoomWhileDeleting` and `NoReturnToService`,
  which are about a decision taken in one transaction and used after it:
  `CallsHeld` says that while a controller still leads, the worker it called
  about is as it was when it called, and `DeletesGone` that a worker whose
  instance is being deleted stays given up, whoever leads.
  `SafetyInv == TypeOK /\ Sound(store) /\ CallsHeld /\ DeletesGone` is inductive.
- `Heeds`: a pass keeps commands `Matched` to rooms and sessions `Timed`, and
  seats no one. `CommandsMatchRooms` says that a room that waits for its host
  has a command; what is inductive is that it has exactly one, because one
  answer must settle the room. Within a heartbeat both halves are broken for the
  rooms whose commands were just answered, so `Asks` carries the set of rooms
  that are exempt, and the passes that follow empty it. `SeatsAreAdmitted` is an
  action property: the passes that grant seats do so on workers that the passes
  after them leave serving. `MinimumIsKept` counts what one tick drains.

**The Agones client.** `AgonesClientProofs`, for every number of objects and
every set of configurations (`ProfileAssumption`, `UidAssumption`,
`NoneAssumption`: `None` is none of them).

- `Counted`: `Spec => []InstanceIsCounted`.
- `SlotKept`: `Spec => KeepsSlot`, the refinement of `InstanceSlot` under
  `held <- worker.state \notin {"stopped", "failed"}`, `exists <- game # None`.
- `KeepsCredentials`: `Spec => CredentialsAreKept`.

`InstanceIsCounted` is not inductive: whether a worker that is recorded as
failed can still get an instance depends on where its create is. `Account`
follows the create through the call: until the first create is sent there is no
GameServer and none on its way (`Absent`); afterwards the call is in doubt and
cannot end in "failed" (`FirstCreate`); no create is on its way once there is an
instance or a ProviderID (`NothingLate`); a call fits the state of its worker
(`CallFitsWorker`) and a ProviderID the worker's history (`IdIsOfInstance`).
The refinement then needs one more fact about steps (`WorkerSteps`): no step
changes both the worker's record and the existence of the GameServer, and none
changes a closed record. A Secret is only deleted by calls that have seen that
its GameServer is missing; between that look and the delete no instance appears,
because by then no create is on its way (`Cleared`).

**Alerts.** `AlertEngineProofs`, for every set of alerts, every period and every
limit (`KeyAssumption`; `SettingAssumption` and `RetentionAssumption`: what
`AlertConfig.valid` accepts; `LimitAssumption`; `TimeAssumption`: the clock
shows Unix time, so that a time of 0 is older than any period):
`AttemptsHaveDistance`, `CooldownHolds`, `HoldHolds`, `SavedStateReopens`,
`HistoryIsTrue` (`AttemptsAreSpaced`, `CooldownIsKept`, `HoldIsRespected`,
`StateReopens`, `HistoryAlternates`).

The first three compare what the engine does with `past`, which it cannot read.
`AlertInv` is what an alert remembers of it: a streak of observations is as long
as the alert says and without a gap (`Streaks`); the latest attempt and the
latest delivered message are in the alert, or further back than the interval
that asks for them (`Remembers`); and a key without an alert has only a past
that is further back (`LongPast`), which is why an alert may be forgotten after
the retention. The message under way is about observations that were recorded
when it was made (`UnderWay`), so that its answer, which comes later, is recorded
of the same alerts. `HistoryIsTrue` follows the history event by event: the
events of a key are in turn and its last one says whether it fires (`Tells`),
which appending the events of one evaluation keeps and cutting the front cannot
break. The order in which a message takes the due alerts is the one without
inversions, whose existence is proved too (`WFMin`: a smallest set of keys
without an order has none).

**Enrollment.** `NodeEnrollmentProofs` and `NodeRetirementProofs`, for every
number of operators and controllers, every bound and every lifetime
(`EnrollmentConstants`, `RetirementConstants`).

- `NodeTypes`: `NodeSpec => []TypeOK`.
- `SingleInstall`: `NodeSpec => []InstalledOnce`, controllers that overlap
  included.
- `FailedUntouched`, `VerdictKept`, `CredentialKept`: `NodeSpec` implies
  `[]FailedMeansUntouched`, `VerdictStays` and `[]PlanKeepsCredential`.
- `OnlyTheConfirmedNode`: `NodeSpec => []OnlyConfirmedNodeRemoved`.
- `DeletedIsGone`: `NodeSpec => []DeletedMeansGone`.

`InstalledOnce` is not inductive: whether INSTALL is sent again depends on who
still may send it. `Once` says that at most one controller is entitled to (it is
about to start its installer thread, or the thread has not sent yet), that
nobody is before the resource reached Installing, and that nobody is after
INSTALL was sent. A controller becomes entitled only by the write of `join`, so
what is needed is that this write succeeds once, and that is the
compare-and-swap: `Copies` says that a copy (of a console request, of a
controller, in a watch queue) with the current version is the current resource,
except after an error, when it is read anew before it is used. A write then
never takes the resource from Installing or later back before it; `Places` says
which phase the copy of a controller in the middle of a scan or a preflight has.
Every step but two is shown to be `Good` (it writes over the current version,
takes its copies from somewhere right and entitles nobody), and `GoodKeeps` shows
once that such steps keep the invariant.

The next three are promises of one controller at a time (`~overlap` in the
properties), and `OneInv` is the invariant they need besides `Inv`. The danger is
a controller that works on old versions. `Ordered` says that its watch delivers
versions in the order they were written, after the one in hand; so a copy in
hand that is still current has nothing behind it in the queue
(`NothingBehind`). The write to Installing is made on such a copy: from then on
every version still to come was written later, and at no point of its code will
the controller write another verdict than NeedsReview (`Settled`). That is
`FailedMeansUntouched`: Failed and Expired are only written where nothing is
`Touched`. `VerdictStays` follows from the same: a final phase is written over
only after an error, by the refetch that found nothing touched, or by the
installer, which has. `PlanKeepsCredential` adds that credentials are numbered
and each belongs to one request (`Fresh`), so that no request undoes another's;
that a sweep that found no enrollment has missed none (`Sweeping`); that only
finished enrollments are cleaned after (`Finishing`); and that a plan lasts no
longer than the credential it was made with (`Backed`). `NextKinds` reduces
every step to one of a few `StepKinds` (a request of the console, time, a
controller that proceeds, writes or installs), so that each part of `OneInv` is
shown over these kinds and not action by action.

A retirement is safe because of the two preconditions of its DELETE. The uid
names a node for good, since a node that registers anew gets a uid newer than
every version seen before (`NodeKnown`); the resourceVersion names its state,
since whatever changes readiness or address raises it. `Targets` says that every
copy a controller holds of the retirement names the confirmed node, `Deletes`
that a DELETE that is about to be sent or is still on its way either fits that
node, offline and at its address, or takes nothing, and `Removed` that nobody is
about to write Deleted while the node is there. `RetireInv` is inductive together
with the types of `NodeEnrollmentProofs`.

**The console.** `ConsoleProofs`, for every number of browsers and peers and
every limit (`AuthConstants`, `ControlConstants`): `AnswersHold`,
`PagesAreRefreshed`, `PagesAreRecent`, `PeersAreBounded`, `SessionsEndWithReason`
(`AnswersAreDefinite`, `RefreshedAfterCommand`, `SnapshotAgeBounded`,
`PeerTableBounded`, `SessionsEndForAReason`); and for every page size, any number
of rows, changes and entries (`PageConstants`): `ListsComplete` and
`HistoryComplete` (`ListsAreComplete`, `OnlyTiesAreSkipped`).

- What an operator was told stays true because a command is sent once under a
  number that is its own (`Numbered`, `Untried`) and because every answer on its
  way is true of its command (`TrueReplies`): a manager that has answered no will
  not apply it later.
- A page is fresh because whoever collects holds the lock and reads the file
  after everything that was acknowledged by then, and an acknowledgement empties
  the cache before the operator hears of it (`Refreshed`). Its age is the sum of
  the three limits because each part grows only while its limit is not reached
  (`Aged`).
- The table of peers is bounded by counting: a peer whose window began within the
  common one is one of its attempts, the others are left of the common window
  before, and they are dropped when a third one begins (`LoginsCounted`).
- A login always finds an unused token, since tokens and logins under way are
  fewer than requests (`SessionsHeld`), so a session can only end as the property
  says.
- A list is complete because a row's place is the number of rows ahead of it.
  Without a warning the snapshot of a page shows what there is (`SnapshotIsTrue`),
  in an order in which each place is taken by one row (`EveryPlaceIsTaken`, since
  an injection between finite sets of one size is onto). A row the client still
  lacks has at least as many rows ahead of it as the client's offset (`StillAhead`):
  new rows only add to them, and the page either contains it or ends before it.
  While nothing changes, the client has exactly the rows of the first places
  (`InFront`).
- A history is complete because what the client has not seen is older than its
  cursor, older than its interval, or of the time of one of its cursors, and what
  it has seen is not older than the cursor (`Traced`): so no page repeats an entry,
  and a full page leaves out nothing newer than its oldest (`AnswerIsLatest`).

**Only model-checked.** Liveness under fairness is out of the prover's reach:
`RequestsAreDecided`, `EndIsNoticed`, `CredentialsAreRemoved`, `CredentialsGo`,
`TasksEnd`, `RequestsEnd`. The two properties that the code violates have no theorem. Every other safety
property a run checks is proved.

## 5. Not modelled

Of the fleet: read-only operations (Get, List, Assignment); notifications and
callbacks; token checks; SQL, JSON and HTTP encoding. Of the console: live logs,
the overview and capacity projections, static assets, the page script, parsing
of configurations. Of the enrollment controller: the renewal of its lease, the
deletion of finished resources after seven days, the contents of its SSH
conversations. Not yet: the room host, `k3s_node.py`, the synchronisation of
credentials. Developer scripts and exporters are one-shot projections.

Some behaviours the models or the code show are no violation of anything checked
here. Create callbacks live in the memory of the process that served Create. A
room the host forgets without closing it stays active. A message of the alert
engine takes the first 20 due alerts in key order, so with many alerts and a bot
that fails the last ones may never be attempted.
Between the inventory of a retirement and its second look at the node, the node
may come back, take work and go offline again (`node_enrollment_controller.py:671`);
its DELETE is then sent with the new resourceVersion. If recording an ambiguous
DELETE fails too, the retirement stays in Checking, and the next cycle checks the
node again and may send another DELETE, with new preconditions (`:691`). With two
controllers, one that lost its lease may fail an enrollment the other is
installing (`:481`). A snapshot collected for a client that goes away is cached
with its failed reads (`source.go:247`).

An instance that becomes unhealthy after its agent has been silent for
`LostTimeout` is never deleted by the manager: `poll` makes the lost worker
"stopping" (`lifecycle.go:513`), the next tick finds it silent and lost again
(`:47`) before it can call `stop`, and the next poll starts over. The worker
keeps its slot until somebody else deletes the GameServer, which is then
noticed (`EndIsNoticed`). The test of the reaping (`agones_lifecycle_test.go:57`)
has an agent that has just reported. The enrollment controller checks region and
protected hosts before it looks whether it was interrupted
(`node_enrollment_controller.py:446`): restarted with another configuration,
which the model excludes, it would call an `Installing` enrollment `Failed`
rather than `NeedsReview`.

A create that the API server refuses with another status than 400, 403 or 422
leaves the Secret of a failed worker behind: `AgonesClient` shows it (such a
call ends without `FailedCreateCleanup`), and no property is stated, since no
comment or doc promises the contrary.

## 6. Plan

Done: the fleet modules, the Agones client, alerts, enrollment and retirement,
the console. Next, in this order:

1. `RoomHost`: the process of `server.py` composed with the manager: sequence
   numbers, repeated and late heartbeats, tombstones; a cancelled room ends at
   both sides; admission tickets are used once.
2. `Notify`: revisions, notification and callbacks across crashes; the queue of
   the tick with several workers, in place of `worker.waits`.
3. `TokenSync`, `NodeSetup`.
4. Proofs: the invariants of those modules, and that an enrollment refines the
   life of its machine (untouched, being installed, done).
