---------------------------- MODULE FleetManager ----------------------------
(***************************************************************************)
(* The fleet manager (pkg/fleetmanager): the requests of clients, the      *)
(* requests of game processes and the controllers' ticks, all working on   *)
(* one durable store.                                                      *)
(*                                                                         *)
(* store is the row of state.Store; an action that changes it is one       *)
(* committed transaction of store.Update.  ctl[c] is where controller c    *)
(* stands between two transactions of Manager.Tick, and the worker its     *)
(* provider call is about: only there does the code keep state outside     *)
(* the store.  The provider (Agones through Kubernetes) is the             *)
(* environment: a call returns any of the results its interface allows.    *)
(***************************************************************************)
EXTENDS FleetTick, FleetHeartbeat

\* Inputs: what the environment may say.  TLC runs narrow them, the proofs
\* do not.
CONSTANTS
  Readings,        \* [ready, pending, overloaded] a process may report
  RoomReports,     \* what it may say of a room, a subset of RoomReport
  Statuses,        \* what a provider may say of an instance
  CreateSizes,     \* rooms a caller of Create may ask for
  PlayerCounts,    \* player counts a caller of Update may report
  Faults           \* subset of {"abort", "shutdown", "crash"}

ASSUME InputAssumption ==
  /\ Readings \subseteq [ready : BOOLEAN, pending : BOOLEAN,
                         overloaded : BOOLEAN]
  /\ RoomReports \subseteq RoomReport
  /\ Statuses \subseteq {"launching", "running", "badport", "unhealthy",
                         "stopped", "gone", "mismatch", "error"}
  /\ CreateSizes \subseteq Nat \ {0} /\ PlayerCounts \subseteq Nat

VARIABLES store, ctl

vars == <<store, ctl>>

\* pick: the tick's first transaction is done.  CallOp: the tick is about to
\* start or to stop its worker, or a call to the provider about it is under
\* way (create it, list before creating it again, create it again, read it,
\* delete it, read it after the delete).
CallOp == {"start", "create", "list", "recreate", "poll", "stop", "delete",
           "confirm"}
CtlRecord == [op : {"idle", "pick"}, w : {None}] \cup [op : CallOp, w : Worker]
Idle == [op |-> "idle", w |-> None]

\* The store has its shape, and a controller between two transactions about
\* a worker remembers which one.
TypeOK ==
  /\ store \in Store
  /\ ctl \in [Controller -> CtlRecord]

Init ==
  /\ store = NewStore
  /\ ctl = [c \in Controller |-> Idle]

\* Worker ids that nothing mentions, a tick under way included.
UnusedWorkers(s) == FreshWorker(s) \ {ctl[c].w : c \in Controller}

-----------------------------------------------------------------------------
(* Requests of clients and operators.  A refused request, and a repeated one *)
(* that finds its effect in place, changes nothing and has no action.        *)

Allocate(r) ==
  /\ Admissible(store, r.key, r.users)
  /\ \E a \in FreshAllocation(store) :
        store' = NewAllocationIn(store, a, r.key, r.users, None)
  /\ UNCHANGED ctl

\* maxPlayers = 2 * rooms.  Initial users are the pair of some request.
MayCreate(rooms) ==
  /\ rooms <= store.rooms
  /\ Cardinality(LiveWorkers(store)) < MaxInstances /\ ~store.blocked
Create(rooms) ==
  /\ MayCreate(rooms)
  /\ \E w \in UnusedWorkers(store) : store' = NewWorkerIn(store, w, rooms)
  /\ UNCHANGED ctl
CreateWithUsers(rooms, users) ==
  /\ MayCreate(rooms)
  /\ \E w \in UnusedWorkers(store), a \in FreshAllocation(store) :
        /\ Admissible(store, w, users)
        /\ store' = NewAllocationIn(NewWorkerIn(store, w, rooms), a, w, users, w)
  /\ UNCHANGED ctl

Cancel(u, x) ==
  /\ u \in store.allocs[x].users
  /\ Cancellable(store.allocs[x]) /\ store.allocs[x].state # "active"
  /\ store' = CancelAll(store, {x}, "cancelled")
  /\ UNCHANGED ctl

\* reserve() of an assigned or active room finds the seats in place.
Join(x) ==
  LET a == store.allocs[x] IN
  /\ a.state = "prepared" /\ a.worker # None
  /\ Eligible(store.workers[a.worker])
  /\ store' = [store EXCEPT !.allocs[x] = Reserved(a)]
  /\ UNCHANGED ctl

Update(w, playerCount) ==
  /\ store.workers[w].state # "none"
  /\ playerCount <= 2 * store.workers[w].maxRooms
  /\ store' = [store EXCEPT !.workers[w].players = playerCount]
  /\ UNCHANGED ctl

Drain(w) ==
  /\ Drainable(store.workers[w]) /\ ~store.workers[w].draining
  /\ store' = BeginDrain(store, {w})
  /\ UNCHANGED ctl

\* Delete drains only an empty worker.
Delete(w) ==
  /\ LiveOn(store, w) = {} /\ store.workers[w].players = 0
  /\ ~store.workers[w].pending
  /\ Drain(w)

RetryCreation ==
  /\ store' = [store EXCEPT !.blocked = FALSE, !.nextCreate = 0]
  /\ UNCHANGED ctl

UpdatePolicy(rooms) ==
  /\ store' = [store EXCEPT !.rooms = rooms]
  /\ UNCHANGED ctl

-----------------------------------------------------------------------------
(* Requests of game processes.  A process exists once a create was issued: *)
(* its tokens are in the create request.                                   *)

Bootstrap(w, b) ==
  LET r == store.workers[w] IN
  /\ r.state \notin {"none", "requested", "stopped", "failed", "lost"}
  /\ r.boot = None /\ r.born <= LaunchTimeout
  /\ store' = [store EXCEPT !.workers[w].boot = b]
  /\ UNCHANGED ctl

Reports(s, w) ==
  {[ready |-> m.ready, pending |-> m.pending, overloaded |-> m.overloaded,
    rooms |-> rooms, results |-> results] :
     m \in Readings,
     rooms \in UNION {[X -> RoomReports] :
                        X \in SUBSET {x \in Allocation : s.allocs[x].worker = w}},
     results \in UNION {[C -> {"success", "failure"}] :
                          C \in SUBSET DueCommands(s, w)}}

Heartbeat(w) ==
  /\ store.workers[w].boot # None
  /\ store.workers[w].state \notin {"stopped", "lost", "failed"}
  /\ \E report \in Reports(store, w) :
        /\ ValidReport(store, w, report)
        /\ store' = HeartbeatIn(store, w, report)
  /\ UNCHANGED ctl

-----------------------------------------------------------------------------
(* The tick *)

HoldsLease(c) == store.leader = c /\ store.lease > 0
Leads(s, c) == [s EXCEPT !.leader = c, !.lease = LeaseSeconds]
Goto(c, op, w) == ctl' = [ctl EXCEPT ![c] = [op |-> op, w |-> w]]

Tick(c) ==
  /\ ctl[c].op = "idle"
  /\ store.leader = c \/ store.lease = 0
  /\ LET s == Maintained(Leads(store, c)) IN
     \E P \in Placements(s) :
       \E t \in ScaleUps(Place(s, P), UnusedWorkers(Place(s, P))) :
         store' \in ScaleDowns(t)
  /\ Goto(c, "pick", None)

\* The operation a worker is due for.  The code takes the oldest due worker;
\* the model takes any.
DueOp(r) ==
  CASE r.state = "requested" -> "start"
    [] r.state = "unknown" /\ r.nextCheck = 0 -> "list"
    [] r.state = "stopping" /\ r.nextCheck = 0 -> "stop"
    [] /\ r.state \in {"launching", "bootstrapping", "ready", "suspect",
                       "draining", "lost"}
       /\ r.providerID /\ r.nextCheck = 0 -> "poll"
    [] OTHER -> "idle"

\* renewLease, then the operation; without the lease the tick is over.
Pick(c) ==
  /\ ctl[c].op = "pick"
  /\ HoldsLease(c)
  /\ \E w \in Worker :
        /\ DueOp(store.workers[w]) # "idle"
        /\ Goto(c, DueOp(store.workers[w]), w)
  /\ store' = Leads(store, c)

PickNothing(c) ==
  /\ ctl[c].op = "pick"
  /\ \/ ~HoldsLease(c)
     \/ \A w \in Worker : DueOp(store.workers[w]) = "idle"
  /\ Goto(c, "idle", None)
  /\ UNCHANGED store

\* The store or the process's context failed: the tick returns an error.
Abort(c) ==
  /\ "abort" \in Faults
  /\ ctl[c].op # "idle"
  /\ Goto(c, "idle", None)
  /\ UNCHANGED store

-----------------------------------------------------------------------------
(* start *)

MayStart(c) ==
  HoldsLease(c) /\ store.workers[ctl[c].w].state = "requested"
Start(c) ==
  LET w == ctl[c].w IN
  /\ ctl[c].op = "start"
  /\ MayStart(c)
  /\ store' = [store EXCEPT !.workers[w].state = "starting",
                            !.workers[w].updated = 0]
  /\ Goto(c, "create", w)

\* The transaction after a provider call.  It is skipped when another
\* controller has become the leader.  For the leader a record that was pruned
\* during the call is a nil dereference, except in reconcileUnknown: then only
\* Crash and Abort are left.
Commit(c, op, change(_)) ==
  LET w == ctl[c].w IN
  /\ ctl[c].op = op
  /\ store.leader = c /\ op \notin {"list", "recreate"} =>
       store.workers[w].state # "none"
  /\ store' = IF store.leader = c THEN change(w) ELSE store
  /\ Goto(c, "idle", None)

CreatedWorker(s, w, ttl) ==
  ProviderLifetime([s EXCEPT !.workers[w].providerID = TRUE,
                             !.workers[w].state = "launching",
                             !.workers[w].nextCheck = 0], w, ttl)
Created(c, ttl) ==
  Commit(c, "create", LAMBDA w :
    CreatedWorker([store EXCEPT !.workers[w].updated = 0], w, ttl))

\* state: "unknown" when the outcome is not known or the name is taken,
\* "failed" when the provider refused.  review: the answer says that the
\* configuration is wrong, a taken name included.
NotCreated(r, state) ==
  [r EXCEPT !.updated = 0, !.state = state,
            !.nextCheck = IF state = "unknown" THEN 1 ELSE r.nextCheck]
CreateFailed(c, state, review) ==
  Commit(c, "create", LAMBDA w :
    [store EXCEPT !.workers[w] = NotCreated(store.workers[w], state),
                  !.blocked = @ \/ review, !.nextCreate = CreateBackoff])

-----------------------------------------------------------------------------
(* reconcileUnknown *)

\* At most one instance carries the worker's identity: create it again under
\* the same name, unless the lease is lost.
Recreate(c) ==
  /\ ctl[c].op = "list"
  /\ HoldsLease(c)
  /\ store' = Leads(store, c)
  /\ Goto(c, "recreate", ctl[c].w)

StillUnknown(w, t) == IF store.workers[w].state # "unknown" THEN store ELSE t
Adopted(c, ttl) ==
  Commit(c, "recreate", LAMBDA w :
    StillUnknown(w, CreatedWorker(store, w, ttl)))

\* The list or the create failed, or several instances match (list only).
NotAdopted(c, review) ==
  \E op \in {"list", "recreate"} :
    Commit(c, op, LAMBDA w :
      StillUnknown(w,
        [store EXCEPT !.workers[w].nextCheck = ProviderPollSeconds,
                      !.blocked = @ \/ review]))

-----------------------------------------------------------------------------
(* poll *)

Rechecked(w) ==
  [store EXCEPT !.workers[w].nextCheck = ProviderPollSeconds]

\* No instance in the answer: 404, or the resource's identity does not match,
\* or no answer at all.
PollGone(c) ==
  /\ "gone" \in Statuses
  /\ Commit(c, "poll", LAMBDA w : Stopped(Rechecked(w), {w}))
PollMismatch(c) ==
  /\ "mismatch" \in Statuses
  /\ Commit(c, "poll", LAMBDA w : Lost(Rechecked(w), {w}))
PollFailed(c) ==
  /\ "error" \in Statuses
  /\ Commit(c, "poll", Rechecked)

\* Status "unhealthy": the rooms end and the instance is deleted.
Unhealthy(s, w) ==
  LET t == Lost(s, {w}) IN
  [t EXCEPT !.workers[w].state = "stopping", !.workers[w].draining = FALSE,
            !.workers[w].nextCheck = 0]

\* No address: status "launching", or no usable port.
Unaddressed(r) ==
  [r EXCEPT !.providerReady = FALSE,
            !.state = IF r.state = "ready" THEN "suspect" ELSE r.state]

\* Mutant: a healthy worker is ready even if it drains.
RunningIgnoringDrain(r) ==
  [r EXCEPT
     !.providerReady = TRUE,
     !.state = IF r.ready /\ r.boot # None /\ Fresh(r) THEN "ready"
               ELSE IF r.state \in {"launching", "bootstrapping"}
                 THEN "bootstrapping"
               ELSE IF ~r.draining THEN "suspect" ELSE r.state]

\* Status "running" with a valid game port.
Running(r) ==
  [r EXCEPT
     !.providerReady = TRUE,
     !.state = IF r.ready /\ r.boot # None /\ Fresh(r)
                 THEN IF r.draining THEN "draining" ELSE "ready"
               ELSE IF r.state \in {"launching", "bootstrapping"}
                 THEN "bootstrapping"
               ELSE IF ~r.draining THEN "suspect" ELSE r.state]

LaunchTimedOut(r) ==
  r.born >= LaunchTimeout /\ r.state \in {"launching", "bootstrapping"}

\* A status that is neither unhealthy nor stopped: "launching", "running",
\* or "badport", which is running without a usable game port.
Checked(r, status) ==
  IF r.state = "lost" THEN r
  ELSE IF LaunchTimedOut(r) THEN [r EXCEPT !.state = "stopping", !.nextCheck = 0]
  ELSE IF status = "running" THEN Running(r) ELSE Unaddressed(r)

Observed(s, w, status) ==
  LET r == s.workers[w]
      t == IF status \in {"running", "badport"} THEN s
           ELSE [s EXCEPT !.workers[w] = Unaddressed(r)]
  IN
  IF r.state = "stopping" THEN s
  ELSE IF status = "unhealthy" THEN Unhealthy(s, w)
  ELSE IF status = "stopped" THEN Stopped(t, {w})
  ELSE [t EXCEPT !.workers[w] = Checked(t.workers[w], status)]
Polled(c, status, ttl) ==
  Commit(c, "poll", LAMBDA w :
    Observed(ProviderLifetime(Rechecked(w), w, ttl), w, status))

-----------------------------------------------------------------------------
(* stop *)

\* Recheck after the snapshot: a heartbeat may have revealed pending work.
MayStop(c) ==
  LET w == ctl[c].w IN
  /\ HoldsLease(c) /\ store.workers[w].state = "stopping"
  /\ store.workers[w].draining => DrainedEmpty(store, w)
Stop(c) ==
  /\ ctl[c].op = "stop"
  /\ MayStop(c)
  /\ Goto(c, "delete", ctl[c].w)
  /\ UNCHANGED store

\* The check before an operation fails (errLease, ErrBusy).
Refused(c) ==
  /\ \/ ctl[c].op = "start" /\ ~MayStart(c)
     \/ ctl[c].op = "list" /\ ~HoldsLease(c)
     \/ ctl[c].op = "stop" /\ ~MayStop(c)
  /\ Goto(c, "idle", None)
  /\ UNCHANGED store

DeleteFailed(c) == Commit(c, "delete", Rechecked)

Deleted(c) ==
  /\ ctl[c].op = "delete"
  /\ Goto(c, "confirm", ctl[c].w)
  /\ UNCHANGED store

Confirmed(c) == Commit(c, "confirm", LAMBDA w : Stopped(Rechecked(w), {w}))
Unconfirmed(c) == Commit(c, "confirm", Rechecked)

-----------------------------------------------------------------------------
(* Processes and time *)

\* Run ends: the lease is given up.
Shutdown(c) ==
  /\ "shutdown" \in Faults
  /\ ctl[c].op = "idle" /\ store.leader = c
  /\ store' = [store EXCEPT !.leader = None, !.lease = 0]
  /\ UNCHANGED ctl

\* A process dies and a new one, with a new owner id, replaces it: nobody
\* owns the lease it held.
Crash(c) ==
  /\ "crash" \in Faults
  /\ store' = [store EXCEPT !.leader = IF @ = c THEN None ELSE @]
  /\ Goto(c, "idle", None)

Elapse ==
  /\ store' = Aged(store)
  /\ UNCHANGED ctl

-----------------------------------------------------------------------------
Client ==
  \/ \E r \in Request : Allocate(r)
  \/ \E rooms \in CreateSizes : Create(rooms)
  \/ \E rooms \in CreateSizes, r \in Request : CreateWithUsers(rooms, r.users)
  \/ \E u \in User, x \in Allocation : Cancel(u, x)
  \/ \E x \in Allocation : Join(x)
  \/ \E w \in Worker, n \in PlayerCounts : Update(w, n)
  \/ \E w \in Worker : Drain(w)
  \/ \E w \in Worker : Delete(w)
  \/ RetryCreation
  \/ \E rooms \in RoomsChoice : UpdatePolicy(rooms)

Process ==
  \/ \E w \in Worker, b \in Boot : Bootstrap(w, b)
  \/ \E w \in Worker : Heartbeat(w)

Provider(c) ==
  \/ \E ttl \in TTLs : Created(c, ttl)
  \/ \E review \in BOOLEAN, state \in {"unknown", "failed"} :
        CreateFailed(c, state, review)
  \/ Recreate(c)
  \/ \E ttl \in TTLs : Adopted(c, ttl)
  \/ \E review \in BOOLEAN : NotAdopted(c, review)
  \/ PollGone(c)
  \/ PollMismatch(c)
  \/ PollFailed(c)
  \/ \E status \in Statuses \ {"gone", "mismatch", "error"}, ttl \in TTLs :
        Polled(c, status, ttl)
  \/ DeleteFailed(c)
  \/ Deleted(c)
  \/ Confirmed(c)
  \/ Unconfirmed(c)

\* The rest of a tick under way.
Advance(c) ==
  \/ Pick(c)
  \/ PickNothing(c)
  \/ Start(c)
  \/ Stop(c)
  \/ Refused(c)
  \/ Provider(c)

Control(c) ==
  \/ Tick(c)
  \/ Advance(c)
  \/ Abort(c)
  \/ Shutdown(c)
  \/ Crash(c)

Next ==
  \/ Client
  \/ Process
  \/ \E c \in Controller : Control(c)
  \/ Elapse

Spec == Init /\ [][Next]_vars

\* Run ticks for ever (time.Ticker), a provider call ends within its 5 seconds
\* (context.WithTimeout), and time passes.  Nothing is assumed of clients,
\* game processes or the answers of the provider.  The two fair steps are
\* named by what they do to ctl: only Tick moves a controller from idle to
\* pick, and only the end of a transaction or a call moves it from elsewhere.
TickStep(c) ==
  /\ ctl[c].op = "idle" /\ (store.leader = c \/ store.lease = 0)
  /\ Goto(c, "pick", None)
AdvanceStep(c) ==
  /\ ctl[c].op # "idle"
  /\ \E next \in CtlRecord :
        next.op # ctl[c].op /\ Goto(c, next.op, next.w)
Fairness ==
  /\ WF_vars(Elapse)
  /\ \A c \in Controller : WF_ctl(TickStep(c)) /\ WF_ctl(AdvanceStep(c))
FairSpec == Spec /\ Fairness

-----------------------------------------------------------------------------
(* Properties *)

\* No player is in two live allocations, whatever the interleaving of
\* Allocate and Create with cancellations and with rooms that end
\* (allocation(), manager.go:173-179, is the only guard).
OneLiveAllocationPerUser ==
  \A x, y \in Allocation :
    /\ x # y
    /\ Live(store.allocs[x]) /\ Live(store.allocs[y])
    => store.allocs[x].users \cap store.allocs[y].users = {}

\* A worker never holds more rooms than MaxRooms, although one tick places
\* many requests and rooms being cancelled still count (lifecycle.go:129-152).
CapacityRespected ==
  \A w \in Worker : Occupied(store, w) <= store.workers[w].maxRooms

\* A room that is not over is on a worker that still serves it: deleting,
\* losing, stopping or forgetting a worker ends its rooms or waits for them.
PlacedOnServingWorker ==
  \A x \in Allocation :
    LET a == store.allocs[x] IN
    Live(a) /\ a.worker # None =>
      store.workers[a.worker].state \in {"ready", "suspect", "draining"}

\* A room waits for its host exactly as long as a command asks the host for
\* it: no preparation or cancellation is forgotten, and no withdrawn
\* preparation or answered cancellation is delivered again.
CommandsMatchRooms ==
  \A x \in Allocation :
    LET a == store.allocs[x]
        Asked(type) == \E c \in store.commands :
                         c.type = type /\ c.alloc = x /\ c.worker = a.worker
    IN  /\ a.state = "preparing" <=> Asked("prepare_room")
        /\ a.state = "cancelling" <=> Asked("cancel_room")

\* A room both players have joined is never left without a clock: each
\* player is connected or has a running deadline to come back, so an
\* abandoned room is cancelled in the end (http.go:319-335).
AbsenceIsTimed ==
  \A x \in Allocation :
    store.allocs[x].state = "active" =>
      \A u \in store.allocs[x].users :
        LET e == store.allocs[x].sessions[u] IN
        e.ever /\ (e.connected <=> e.reconnect = Never)

\* While any controller is deleting an instance, even one that has lost its
\* lease during the call, no live room is on it.
NoRoomWhileDeleting ==
  \A c \in Controller :
    ctl[c].op = "delete" => LiveOn(store, ctl[c].w) = {}

\* At most MaxInstances instances can exist at the provider, those whose
\* creation or deletion is unresolved included.
InstanceLimit ==
  Cardinality({w \in Worker : store.workers[w].state \notin
                 {"none", "requested", "stopped", "failed"}}) <= MaxInstances

\* The outcome of every create is known before a worker is given up: an
\* instance that may exist is never out of the reach of poll and
\* reconcileUnknown.
NoAbandonedCreate ==
  \A w \in Worker :
    store.workers[w].state = "lost" => store.workers[w].providerID

\* What ended has ended: the outcome of an allocation never changes until its
\* record is pruned.
OutcomeIsFinal ==
  [][\A x \in Allocation :
       store.allocs[x].state \in Terminal =>
         store'.allocs[x].state \in {store.allocs[x].state, "none"}]_vars

\* A worker that began to drain, was given up or is being deleted never
\* admits again, whatever its process and the provider say later.
NoReturnToService ==
  [][\A w \in Worker :
       /\ \/ store.workers[w].draining
          \/ store.workers[w].state \in {"stopping", "lost", "stopped", "failed"}
       => store'.workers[w].state \notin {"ready", "suspect"}]_vars

\* Seats are granted only on a worker that, in the state the transaction
\* leaves, may admit players: a tick that seats players does not drain their
\* worker, and the worker lives long enough.
SeatsWhereAdmitted ==
  [][\A x \in Allocation :
       /\ store.allocs[x].state \notin {"assigned", "active"}
       /\ store'.allocs[x].state = "assigned"
       => LET r == store'.workers[store'.allocs[x].worker] IN
          /\ r.state = "ready" /\ ~r.draining /\ Fresh(r)
          /\ r.life # Never => r.life > MinLifetimeForAdmission]_vars

\* A tick that drains workers because they are idle leaves MinInstances
\* ready ones, however many became idle together.
ScaleDownKeepsMinimum ==
  [][(\E c \in Controller, w \in Worker :
        /\ ctl[c].op = "idle" /\ ctl'[c].op = "pick"
        /\ ~store.workers[w].draining /\ store'.workers[w].draining
        /\ store.workers[w].life = Never)
     => Cardinality(ReadyWorkers(store')) >= MinInstances]_vars

\* Every request is decided: it becomes a room both players have joined, or
\* it is being cancelled, or it is over.  No request waits for ever, even
\* when the provider creates nothing, the process never answers and
\* controllers crash.
RequestsAreDecided ==
  \A x \in Allocation :
    store.allocs[x].state \in {Waiting, "preparing", "prepared", "assigned"}
      ~> store.allocs[x].state \notin {Waiting, "preparing", "prepared",
                                       "assigned"}
=============================================================================
