----------------------------- MODULE FleetStore -----------------------------
(***************************************************************************)
(* The durable control-plane state of one fleet namespace                  *)
(* (internal/state/state.go) and the pure functions that transactions of   *)
(* pkg/fleetmanager apply to it.  A transaction of the code is             *)
(* store.Update(func(s *State) error): here it is an operator from a store *)
(* record s to a new one, and FleetManager turns the operators into        *)
(* actions.                                                                *)
(*                                                                         *)
(* Time.  The code stores Unix seconds and only ever compares them with    *)
(* now.  The model stores the difference instead: an age (now - t) that    *)
(* saturates just past the largest threshold it is compared with, or a     *)
(* remaining time (t - now) that stops at 0.  Aged(s) is the passing of    *)
(* one second.  A stamp of 0, "never" in the code, is Never.               *)
(*                                                                         *)
(* Commands.  A command that is Done has no further effect (a repeated     *)
(* result is skipped, http.go:257), so s.commands holds the commands that  *)
(* are not Done, and setting Done removes one.                             *)
(***************************************************************************)
EXTENDS Integers, FiniteSets

CONSTANTS
  Worker,          \* worker ids: compared with < when two workers tie
  Allocation,      \* allocation ids: compared with < when two requests tie
  User,            \* Nakama user ids
  Request,         \* the allocation requests: [key |-> ..., users |-> pair]
  Controller,      \* Nakama processes running Manager.Run
  Boot,            \* boot ids of game processes
  None             \* the empty string of an id field

\* Config (config.go) and the literals of lifecycle.go, in seconds.
CONSTANTS
  MinInstances, MaxInstances,
  RoomsChoice,     \* values RoomsPerInstance takes; MaxRooms is the first
  MaxRooms,
  HeartbeatTimeout, LostTimeout, LaunchTimeout, AllocationTimeout,
  PrepareTimeout, ReservationTTL, ReconnectSeconds, IdleSeconds,
  ProviderPollSeconds, MinLifetimeForAdmission,
  LeaseSeconds,    \* 30
  InterruptedAfter,\* 15: a "starting" worker older than this was interrupted
  CreateBackoff,   \* 15: pause after a failed create
  CreateSpacing,   \* 1: pause after a create
  History,         \* 86400: terminal records older than this are pruned
  MaxTries,        \* 4: retries of a command after which the backoff is constant
  RetryDelay,      \* backoff of the n-th retry of a command: 2 << n
  TTLs             \* lifetimes a provider may report; 0 is "no expiry"

ASSUME IdAssumption ==
  /\ Worker \subseteq Int /\ Allocation \subseteq Int
  /\ IsFiniteSet(Worker) /\ IsFiniteSet(Allocation) /\ IsFiniteSet(User)
  /\ None \notin Worker \cup Allocation \cup Boot \cup Controller
  /\ \A r \in Request : /\ r.users \in SUBSET User
                         /\ Cardinality(r.users) = 2
                         /\ r.key \notin Worker \cup {None}

ASSUME ConfigAssumption ==
  /\ MinInstances \in Nat /\ MaxInstances \in Nat \ {0}
  /\ MinInstances <= MaxInstances
  /\ RoomsChoice \subseteq Nat \ {0} /\ MaxRooms \in RoomsChoice
  /\ HeartbeatTimeout \in Nat \ {0} /\ LostTimeout \in Nat
  /\ LostTimeout > HeartbeatTimeout
  /\ LaunchTimeout \in Nat \ {0} /\ AllocationTimeout \in Nat \ {0}
  /\ PrepareTimeout \in Nat \ {0} /\ ReservationTTL \in Nat \ {0}
  /\ ReconnectSeconds \in Nat \ {0} /\ IdleSeconds \in Nat \ {0}
  /\ ProviderPollSeconds \in Nat \ {0} /\ MinLifetimeForAdmission \in Nat
  /\ LeaseSeconds \in Nat \ {0} /\ InterruptedAfter \in Nat
  /\ CreateBackoff \in Nat /\ CreateSpacing \in Nat /\ History \in Nat
  /\ MaxTries \in Nat \ {0} /\ RetryDelay \in [1..MaxTries -> Nat]
  /\ TTLs \subseteq Nat

Never == -1

-----------------------------------------------------------------------------
(* Records *)

WorkerState ==
  {"none", "requested", "starting", "unknown", "launching", "bootstrapping",
   "ready", "suspect", "draining", "stopping", "stopped", "lost", "failed"}

\* "none": the id is not a key of s.Workers.
WorkerRecord ==
  [state         : WorkerState,
   providerID    : BOOLEAN,                 \* ProviderID # ""
   providerReady : BOOLEAN,                 \* and Host # "": set together
   boot          : Boot \cup {None},
   ready         : BOOLEAN,
   draining      : BOOLEAN,
   drainAck      : BOOLEAN,
   heartbeat     : {Never} \cup Nat,        \* age of LastHeartbeat
   born          : Nat,                     \* age of CreatedAt
   updated       : Nat,                     \* age of UpdatedAt
   nextCheck     : Nat,                     \* time to NextCheckAt
   idle          : {Never} \cup Nat,        \* age of IdleSince
   life          : {Never} \cup Nat,        \* time to ProviderExpiresAt
   players       : Nat,
   pending       : BOOLEAN,                 \* ~workFinished(Metrics)
   overloaded    : BOOLEAN,                 \* queue age or frame p99 too high
   maxRooms      : Nat]

NoWorker ==
  [state |-> "none", providerID |-> FALSE, providerReady |-> FALSE,
   boot |-> None, ready |-> FALSE, draining |-> FALSE, drainAck |-> FALSE,
   heartbeat |-> Never, born |-> 0, updated |-> 0, nextCheck |-> 0,
   idle |-> Never, life |-> Never, players |-> 0, pending |-> FALSE,
   overloaded |-> FALSE, maxRooms |-> 0]

Terminal == {"completed", "cancelled", "expired", "failed"}
Waiting == "waiting_capacity"
AllocationState ==
  {"none", Waiting, "preparing", "prepared", "assigned", "active",
   "cancelling"} \cup Terminal

Session ==
  [connected : BOOLEAN, ever : BOOLEAN, reconnect : {Never} \cup Nat]
NoSession == [connected |-> FALSE, ever |-> FALSE, reconnect |-> Never]

Reason == {"", "cancelled", "other"}      \* Error: only "cancelled" is tested

AllocationRecord ==
  [state    : AllocationState,
   key      : {r.key : r \in Request} \cup Worker \cup {None},
   users    : SUBSET User,
   worker   : Worker \cup {None},
   pref     : Worker \cup {None},         \* PreferredWorkerID
   ttl      : Nat,                        \* time to ExpiresAt
   sessions : [User -> Session],
   reason   : Reason,
   ended    : Nat]                        \* age of TerminalAt

NoAllocation ==
  [state |-> "none", key |-> None, users |-> {}, worker |-> None,
   pref |-> None, ttl |-> 0, sessions |-> [u \in User |-> NoSession],
   reason |-> "", ended |-> 0]

Command ==
  [type   : {"prepare_room", "cancel_room", "drain"},
   worker : Worker, alloc : Allocation \cup {None},
   ttl    : Nat,                          \* time to ExpiresAt (prepare_room)
   tries  : 0..MaxTries,                  \* min(Attempts, MaxTries)
   wait   : Nat]                          \* time to NotBefore

Store ==
  [workers : [Worker -> WorkerRecord],
   allocs  : [Allocation -> AllocationRecord],
   commands : SUBSET Command,
   leader  : Controller \cup {None},
   lease   : Nat,                         \* time to LeaseUntil
   nextCreate : Nat,
   blocked : BOOLEAN,                     \* CreationBlockedReason # ""
   rooms   : RoomsChoice]                 \* CapacityPolicy.RoomsPerInstance

\* state.New() followed by the first Manager New(): an empty fleet with the
\* deployment's capacity policy.
NewStore ==
  [workers |-> [w \in Worker |-> NoWorker],
   allocs |-> [a \in Allocation |-> NoAllocation],
   commands |-> {}, leader |-> None, lease |-> 0, nextCreate |-> 0,
   blocked |-> FALSE, rooms |-> MaxRooms]

-----------------------------------------------------------------------------
(* Queries *)

\* An allocation that still holds its players and, once placed, a room.
Live(a) == a.state \notin Terminal \cup {"none"}

LiveOn(s, w) == {x \in Allocation : Live(s.allocs[x]) /\ s.allocs[x].worker = w}
Occupied(s, w) == Cardinality(LiveOn(s, w))

Fresh(w) == w.heartbeat # Never /\ w.heartbeat <= HeartbeatTimeout

\* Mutant: the provider's expiry is not looked at.
EligibleIgnoringLifetime(w) ==
  /\ w.state = "ready" /\ w.providerReady /\ ~w.draining /\ w.ready
  /\ w.boot # None /\ Fresh(w) /\ ~w.overloaded

\* BuildHash and Region are equal to the configuration for every worker:
\* New() refuses a namespace with any other (manager.go:67-71).
Eligible(w) ==
  /\ w.state = "ready" /\ w.providerReady /\ ~w.draining /\ w.ready
  /\ w.boot # None /\ Fresh(w) /\ ~w.overloaded
  /\ w.life = Never \/ w.life > MinLifetimeForAdmission

\* Mutant: counts as state.LiveWorker does, which leaves out lost workers.
LiveWorkersUnlessLost(s) ==
  {w \in Worker :
     s.workers[w].state \notin {"none", "stopped", "failed", "lost"}}

LiveWorkers(s) ==
  {w \in Worker :
     /\ s.workers[w].state \notin {"none", "stopped"}
     /\ ~(s.workers[w].state = "failed" /\ ~s.workers[w].providerID)}

Drainable(w) == w.state \in {"ready", "suspect", "draining"}

\* Mutant: players that are not connected do not hold a worker.
DrainedOfPlayers(s, w) ==
  LET r == s.workers[w] IN
  r.drainAck /\ r.players = 0 /\ ~r.pending /\ Fresh(r)

\* A drained worker with nothing left to do, confirmed by a fresh heartbeat.
DrainedEmpty(s, w) ==
  LET r == s.workers[w] IN
  /\ r.drainAck /\ LiveOn(s, w) = {} /\ r.players = 0 /\ ~r.pending
  /\ Fresh(r)

\* Random 128-bit ids never collide: an id is fresh when nothing mentions it.
FreshWorker(s) ==
  {w \in Worker :
     /\ s.workers[w].state = "none"
     /\ \A a \in Allocation : w \notin {s.allocs[a].worker, s.allocs[a].pref,
                                        s.allocs[a].key}}
FreshAllocation(s) ==
  {a \in Allocation : /\ s.allocs[a].state = "none"
                      /\ \A c \in s.commands : c.alloc # a}

PrepareCommand(a, w) ==
  [type |-> "prepare_room", worker |-> w, alloc |-> a, ttl |-> PrepareTimeout,
   tries |-> 0, wait |-> 0]
CancelCommand(a, w) ==
  [type |-> "cancel_room", worker |-> w, alloc |-> a, ttl |-> 0,
   tries |-> 0, wait |-> 0]
DrainCommand(w) ==
  [type |-> "drain", worker |-> w, alloc |-> None, ttl |-> 0,
   tries |-> 0, wait |-> 0]
\* A failed cancel or drain is executed again under a new id after a backoff.
RetryOf(c) ==
  LET n == IF c.tries < MaxTries THEN c.tries + 1 ELSE MaxTries
  IN  [c EXCEPT !.tries = n, !.wait = RetryDelay[n]]

-----------------------------------------------------------------------------
(* Changes *)

Finish(a, phase, reason) ==
  [a EXCEPT !.state = phase, !.reason = reason, !.ended = 0]

\* Manager.cancel on one record: an unplaced request ends at once, a placed
\* one waits for its host to acknowledge a cancel_room.
Cancelled(a, reason) ==
  IF a.worker = None
    THEN Finish(a, IF reason = "cancelled" THEN "cancelled" ELSE "expired",
                reason)
    ELSE [a EXCEPT !.state = "cancelling", !.reason = reason]

Cancellable(a) == Live(a) /\ a.state # "cancelling"

\* Mutant: the preparation is not withdrawn.
CancelAllKeepingPrepare(s, X, reason) ==
  LET Y == {x \in X : Cancellable(s.allocs[x])} IN
  [s EXCEPT
     !.allocs = [x \in Allocation |->
                   IF x \in Y THEN Cancelled(s.allocs[x], reason)
                              ELSE s.allocs[x]],
     !.commands = s.commands \cup
        {CancelCommand(x, s.allocs[x].worker) :
           x \in {y \in Y : s.allocs[y].worker # None}}]

\* Manager.cancel for every allocation of X.
CancelAll(s, X, reason) ==
  LET Y == {x \in X : Cancellable(s.allocs[x])} IN
  [s EXCEPT
     !.allocs = [x \in Allocation |->
                   IF x \in Y THEN Cancelled(s.allocs[x], reason)
                              ELSE s.allocs[x]],
     !.commands =
       {c \in s.commands : ~(c.type = "prepare_room" /\ c.alloc \in Y)}
         \cup {CancelCommand(x, s.allocs[x].worker) :
                 x \in {y \in Y : s.allocs[y].worker # None}}]

\* Mutant: rooms that are over fail as well.
EndAllRooms(s, W) ==
  [s EXCEPT
     !.allocs = [x \in Allocation |->
                   IF s.allocs[x].worker \in W
                     THEN Finish(s.allocs[x], "failed", "other")
                     ELSE s.allocs[x]],
     !.commands = {c \in s.commands : c.worker \notin W}]

\* The allocation part of stopped() and lost() for every worker of W: their
\* rooms fail and their commands are withdrawn.
EndRooms(s, W) ==
  [s EXCEPT
     !.allocs = [x \in Allocation |->
                   IF Live(s.allocs[x]) /\ s.allocs[x].worker \in W
                     THEN Finish(s.allocs[x], "failed", "other")
                     ELSE s.allocs[x]],
     !.commands = {c \in s.commands : c.worker \notin W}]

CloseWorkers(s, W, state) ==
  LET t == EndRooms(s, W) IN
  [t EXCEPT !.workers = [w \in Worker |->
     IF w \in W
       THEN [t.workers[w] EXCEPT !.state = state, !.ready = FALSE,
                                 !.providerReady = FALSE, !.updated = 0]
       ELSE t.workers[w]]]
Lost(s, W) == CloseWorkers(s, W, "lost")
Stopped(s, W) == CloseWorkers(s, W, "stopped")

\* beginDrain for every worker of W; a worker already draining is left alone.
BeginDrain(s, W) ==
  LET D == {w \in W : ~s.workers[w].draining} IN
  [s EXCEPT
     !.workers = [w \in Worker |->
        IF w \in D
          THEN [s.workers[w] EXCEPT !.draining = TRUE, !.state = "draining",
                                    !.updated = 0]
          ELSE s.workers[w]],
     !.commands = s.commands \cup {DrainCommand(w) : w \in D}]

NewWorkerIn(s, w, rooms) ==
  [s EXCEPT !.workers[w] =
     [NoWorker EXCEPT !.state = "requested", !.maxRooms = rooms]]

\* reserve: both players get a seat until ReservationTTL.
Reserved(a) ==
  [a EXCEPT !.state = "assigned", !.ttl = ReservationTTL,
            !.sessions = [u \in User |-> NoSession]]

\* allocation(): the record a new request creates.
NewAllocationIn(s, a, key, users, pref) ==
  [s EXCEPT !.allocs[a] =
     [NoAllocation EXCEPT !.state = Waiting, !.key = key, !.users = users,
                          !.pref = pref, !.ttl = AllocationTimeout]]

\* Mutant: only a request that still waits keeps its players busy.
AdmissibleOncePlaced(s, key, users) ==
  \A x \in Allocation :
     /\ s.allocs[x].key # key \/ s.allocs[x].state = "none"
     /\ s.allocs[x].state = Waiting => s.allocs[x].users \cap users = {}

\* allocation(): no record has the key, and no player is in a live one.
Admissible(s, key, users) ==
  \A x \in Allocation :
     /\ s.allocs[x].key # key \/ s.allocs[x].state = "none"
     /\ Live(s.allocs[x]) => s.allocs[x].users \cap users = {}

\* providerLifetime: the expiry a provider reports, counted from CreatedAt
\* and the same in every report, and the creation block when no room could
\* ever be admitted before it.
ProviderLifetime(s, w, ttl) ==
  LET r == s.workers[w]
      short == ttl <= MinLifetimeForAdmission + LaunchTimeout
      stop == short /\ r.state \in {"launching", "bootstrapping"}
  IN  IF ttl <= 0 THEN s ELSE
      [s EXCEPT
         !.blocked = @ \/ short,
         !.workers[w] =
           [r EXCEPT !.life = IF r.life # Never THEN r.life
                              ELSE IF ttl > r.born THEN ttl - r.born ELSE 0,
                     !.state = IF stop THEN "stopping" ELSE r.state,
                     !.nextCheck = IF stop THEN 0 ELSE r.nextCheck]]

-----------------------------------------------------------------------------
(* One second passes.  Ages saturate where no comparison can tell any more,
   remaining times stop at 0. *)

\* Mutant: a remaining time runs below 0.
LeftBelowZero(t) == t - 1
Left(t) == IF t > 0 THEN t - 1 ELSE t
Older(age, limit) == IF age # Never /\ age <= limit THEN age + 1 ELSE age

\* CreatedAt is read until the worker is ready, UpdatedAt of a starting or
\* an ended worker only: elsewhere these two ages stand still.
AgedWorker(r) ==
  IF r.state = "none" THEN r ELSE
  [r EXCEPT
     !.heartbeat = Older(@, LostTimeout),
     !.born = IF r.boot = None \/ r.state \in {"starting", "unknown",
                                               "launching", "bootstrapping"}
                THEN Older(@, LaunchTimeout) ELSE @,
     !.updated = CASE r.state = "starting" -> Older(@, InterruptedAfter)
                   [] r.state \in {"stopped", "failed"} -> Older(@, History)
                   [] OTHER -> @,
     !.nextCheck = Left(@),
     !.idle = Older(@, IdleSeconds - 1),
     !.life = Left(@)]

AgedSession(e) == [e EXCEPT !.reconnect = Left(@)]
AgedAllocation(a) ==
  [a EXCEPT
     !.ttl = Left(@),
     !.sessions = [u \in User |-> AgedSession(a.sessions[u])],
     !.ended = IF a.state \in Terminal THEN Older(@, History) ELSE @]

Aged(s) ==
  [s EXCEPT
     !.workers = [w \in Worker |-> AgedWorker(s.workers[w])],
     !.allocs = [x \in Allocation |-> AgedAllocation(s.allocs[x])],
     !.commands = {[c EXCEPT !.ttl = Left(@), !.wait = Left(@)] :
                     c \in s.commands},
     !.lease = Left(@),
     !.nextCreate = Left(@)]
=============================================================================
