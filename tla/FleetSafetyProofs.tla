------------------------- MODULE FleetSafetyProofs -------------------------
(***************************************************************************)
(* Rooms, workers and capacity: what FleetManager guarantees about where   *)
(* rooms are, how many there are, and what becomes of a worker, for every  *)
(* configuration and every number of workers, players and controllers.     *)
(*                                                                         *)
(* A pass of a transaction is Tame when it moves no room, takes no room's  *)
(* worker out of service and revives no worker.  Tame composes, every pass *)
(* but the two that place rooms and create workers is tame, and those two  *)
(* are shown to keep the store Sound by the counting they do.  What the    *)
(* manager remembers between two transactions, ctl, is tied to the store   *)
(* by CallsHeld and DeletesGone.                                           *)
(***************************************************************************)
EXTENDS FleetManagerProofs

Serving == {"ready", "suspect", "draining"}
Up == {"launching", "bootstrapping"} \cup Serving
Gone == {"stopping", "lost", "stopped", "failed"}

\* How one pass may change an allocation: it gains no worker.
Keeps(a, b) == Live(b) /\ b.worker # None => Live(a) /\ a.worker = b.worker

\* How a pass may change a worker that has rooms: it still serves them.
Stays(r, q) ==
  /\ q.maxRooms = r.maxRooms
  /\ r.state \in Serving => q.state \in Serving

\* A worker that counts against MaxInstances.
Counted(r) ==
  /\ r.state \notin {"none", "stopped"}
  /\ ~(r.state = "failed" /\ ~r.providerID)

\* A draining worker serves no one new, and no process runs without a record.
WorkerOK(r) ==
  /\ r.draining => r.state \in {"draining"} \cup Gone
  /\ r.state = "none" => r.boot = None

\* How a pass may change any worker: it is not revived, and it does not stop
\* draining except by being given up.
Moves(r, q) ==
  WorkerOK(r) =>
    /\ WorkerOK(q)
    /\ Counted(q) => Counted(r)
    /\ r.state \in Gone \cup {"none"} => q.state \in Gone \cup {"none"}
    /\ r.draining => q.draining \/ q.state \in Gone \cup {"none"}

Tame(s, t) ==
  /\ t.leader = s.leader
  /\ \A x \in Allocation : Keeps(s.allocs[x], t.allocs[x])
  /\ \A w \in Worker : Stays(s.workers[w], t.workers[w]) \/ LiveOn(t, w) = {}
  /\ \A w \in Worker : Moves(s.workers[w], t.workers[w])

\* The invariant of the store.
Placed(s) ==
  \A x \in Allocation : Live(s.allocs[x]) /\ s.allocs[x].worker # None =>
     s.workers[s.allocs[x].worker].state \in Serving
Fitting(s) == \A w \in Worker : Occupied(s, w) <= s.workers[w].maxRooms
Limited(s) == Cardinality(LiveWorkers(s)) <= MaxInstances
Sound(s) ==
  /\ Placed(s)
  /\ Fitting(s)
  /\ Limited(s)
  /\ \A w \in Worker : WorkerOK(s.workers[w])

-----------------------------------------------------------------------------
(* Composition *)

\* A worker whose state, draining mark, boot id, instance and capacity are as
\* they were.
LEMMA SameWorker ==
  ASSUME NEW r, NEW q, q.state = r.state, q.draining = r.draining,
         q.boot = r.boot, q.providerID = r.providerID, q.maxRooms = r.maxRooms
  PROVE  Stays(r, q) /\ Moves(r, q)
BY DEF Stays, Moves, WorkerOK, Counted, Gone

\* An allocation that keeps its worker and is not revived.
LEMMA KeepsSame ==
  ASSUME NEW a, NEW b, b.worker = a.worker, Live(b) => Live(a)
  PROVE  Keeps(a, b)
BY DEF Keeps

\* The worker part of two passes composes.
LEMMA MovesTrans ==
  ASSUME NEW p, NEW q, NEW r, Moves(p, q), Moves(q, r)
  PROVE  Moves(p, r)
BY DEF Moves

\* A pass that gives no room a worker takes rooms from workers only.
LEMMA KeepsRooms ==
  ASSUME NEW s, NEW t, NEW w \in Worker,
         \A x \in Allocation : Keeps(s.allocs[x], t.allocs[x])
  PROVE  LiveOn(t, w) \subseteq LiveOn(s, w)
<1>1. w # None
  BY IdAssumption
<1> QED BY <1>1 DEF LiveOn, Keeps

\* The passes of a transaction compose.
LEMMA TameTrans ==
  ASSUME NEW s, NEW t, NEW u, Tame(s, t), Tame(t, u)
  PROVE  Tame(s, u)
<1>1. u.leader = s.leader
  BY DEF Tame
<1>2. \A x \in Allocation : Keeps(s.allocs[x], u.allocs[x])
  BY DEF Tame, Keeps
<1>3. \A w \in Worker : Moves(s.workers[w], u.workers[w])
  BY MovesTrans DEF Tame
<1>4. ASSUME NEW w \in Worker
      PROVE  Stays(s.workers[w], u.workers[w]) \/ LiveOn(u, w) = {}
  <2>1. LiveOn(u, w) \subseteq LiveOn(t, w)
    BY KeepsRooms DEF Tame
  <2>2. CASE Stays(s.workers[w], t.workers[w]) /\ Stays(t.workers[w], u.workers[w])
    BY <2>2 DEF Stays
  <2> QED BY <2>1, <2>2 DEF Tame
<1> QED BY <1>1, <1>2, <1>3, <1>4 DEF Tame

\* A pass that changes neither workers nor the leader.
LEMMA TameAllocs ==
  ASSUME NEW s, NEW t, t.leader = s.leader, t.workers = s.workers,
         \A x \in Allocation : Keeps(s.allocs[x], t.allocs[x])
  PROVE  Tame(s, t)
BY SameWorker DEF Tame

\* A pass that changes neither allocations nor the leader.
LEMMA TameWorkers ==
  ASSUME NEW s, NEW t, t.leader = s.leader, t.allocs = s.allocs,
         \A w \in Worker : /\ Stays(s.workers[w], t.workers[w]) \/ LiveOn(s, w) = {}
                           /\ Moves(s.workers[w], t.workers[w])
  PROVE  Tame(s, t)
<1>1. \A w \in Worker : LiveOn(t, w) = LiveOn(s, w)
  BY DEF LiveOn
<1> QED BY <1>1, KeepsSame DEF Tame

\* A pass that replaces one worker's record.
LEMMA TameWorker ==
  ASSUME NEW s \in Store, NEW w \in Worker, NEW q,
         Stays(s.workers[w], q), Moves(s.workers[w], q)
  PROVE  Tame(s, [s EXCEPT !.workers[w] = q])
<1> DEFINE t == [s EXCEPT !.workers[w] = q]
<1>1. t.leader = s.leader /\ t.allocs = s.allocs
  BY DEF Store
<1>2. \A v \in Worker : t.workers[v] = IF v = w THEN q ELSE s.workers[v]
  BY StoreParts DEF Store
<1> HIDE DEF t
<1>3. \A v \in Worker : /\ Stays(s.workers[v], t.workers[v])
                        /\ Moves(s.workers[v], t.workers[v])
  BY <1>2, SameWorker
<1>4. Tame(s, t)
  BY <1>1, <1>3, TameWorkers
<1> QED BY <1>4 DEF t

\* No change is tame.
LEMMA TameSame ==
  ASSUME NEW s
  PROVE  Tame(s, s)
BY TameAllocs, KeepsSame

\* What a tame pass keeps: rooms stay on workers that serve them, workers
\* that lose rooms stay within their capacity, and no instance more exists.
LEMMA TameSound ==
  ASSUME NEW s \in Store, NEW t \in Store, Tame(s, t), Sound(s)
  PROVE  Sound(t)
<1>1. Placed(t)
  <2> SUFFICES ASSUME NEW x \in Allocation, Live(t.allocs[x]),
                      t.allocs[x].worker # None
               PROVE  t.workers[t.allocs[x].worker].state \in Serving
    BY DEF Placed
  <2> DEFINE w == t.allocs[x].worker
  <2>1. w \in Worker
    BY StoreParts DEF AllocationRecord
  <2>2. Live(s.allocs[x]) /\ s.allocs[x].worker = w
    BY DEF Tame, Keeps
  <2>3. s.workers[w].state \in Serving
    BY <2>2 DEF Sound, Placed
  <2>4. x \in LiveOn(t, w)
    BY DEF LiveOn
  <2> QED BY <2>1, <2>3, <2>4 DEF Tame, Stays
<1>2. Fitting(t)
  <2> SUFFICES ASSUME NEW w \in Worker
               PROVE  Occupied(t, w) <= t.workers[w].maxRooms
    BY DEF Fitting
  <2>1. LiveOn(t, w) \subseteq LiveOn(s, w)
    BY KeepsRooms DEF Tame
  <2>2. IsFiniteSet(LiveOn(s, w))
    BY IdAssumption, FS_Subset DEF LiveOn
  <2>3. /\ Cardinality(LiveOn(t, w)) <= Cardinality(LiveOn(s, w))
        /\ IsFiniteSet(LiveOn(t, w))
    BY <2>1, <2>2, FS_Subset
  <2>4. Cardinality(LiveOn(t, w)) \in Nat /\ Cardinality(LiveOn(s, w)) \in Nat
    BY <2>2, <2>3, FS_CardinalityType
  <2>5. t.workers[w].maxRooms \in Nat /\ s.workers[w].maxRooms \in Nat
    BY StoreParts DEF WorkerRecord
  <2>6. Cardinality(LiveOn(s, w)) <= s.workers[w].maxRooms
    BY DEF Sound, Fitting, Occupied
  <2>7. CASE Stays(s.workers[w], t.workers[w])
    BY <2>3, <2>4, <2>5, <2>6, <2>7 DEF Stays, Occupied
  <2>8. CASE LiveOn(t, w) = {}
    <3>1. Cardinality(LiveOn(t, w)) = 0
      BY <2>8, FS_EmptySet
    <3> QED BY <2>5, <3>1 DEF Occupied
  <2> QED BY <2>7, <2>8 DEF Tame
<1>3. Limited(t)
  <2>1. LiveWorkers(t) \subseteq LiveWorkers(s)
    BY DEF Tame, Sound, Moves, Counted, LiveWorkers
  <2>2. IsFiniteSet(LiveWorkers(s))
    BY IdAssumption, FS_Subset DEF LiveWorkers
  <2>3. /\ Cardinality(LiveWorkers(t)) <= Cardinality(LiveWorkers(s))
        /\ IsFiniteSet(LiveWorkers(t))
    BY <2>1, <2>2, FS_Subset
  <2>4. Cardinality(LiveWorkers(t)) \in Nat /\ Cardinality(LiveWorkers(s)) \in Nat
    BY <2>2, <2>3, FS_CardinalityType
  <2> QED BY <2>3, <2>4, ConfigAssumption DEF Sound, Limited
<1>4. \A w \in Worker : WorkerOK(t.workers[w])
  BY DEF Sound, Tame, Moves
<1> QED BY <1>1, <1>2, <1>3, <1>4 DEF Sound

-----------------------------------------------------------------------------
(* What the changes shared by the transactions write *)

\* The records that cancel, lost, stopped and beginDrain write.
Closed(r, state) ==
  [r EXCEPT !.state = state, !.ready = FALSE, !.providerReady = FALSE,
            !.updated = 0]
Draining(r) == [r EXCEPT !.draining = TRUE, !.state = "draining", !.updated = 0]

\* cancel writes allocations and commands.
LEMMA CancelAllShape ==
  ASSUME NEW s \in Store, NEW X, NEW reason
  PROVE  /\ CancelAll(s, X, reason).leader = s.leader
         /\ CancelAll(s, X, reason).workers = s.workers
         /\ \A x \in Allocation :
              CancelAll(s, X, reason).allocs[x] =
                IF x \in X /\ Cancellable(s.allocs[x])
                  THEN Cancelled(s.allocs[x], reason) ELSE s.allocs[x]
<1> DEFINE Y == {x \in X : Cancellable(s.allocs[x])}
           A == [x \in Allocation |->
                   IF x \in Y THEN Cancelled(s.allocs[x], reason)
                              ELSE s.allocs[x]]
           C == {c \in s.commands : ~(c.type = "prepare_room" /\ c.alloc \in Y)}
                  \cup {CancelCommand(x, s.allocs[x].worker) :
                          x \in {y \in Y : s.allocs[y].worker # None}}
           t == [s EXCEPT !.allocs = A, !.commands = C]
<1>1. CancelAll(s, X, reason) = t
  BY DEF CancelAll
<1>2. \A x \in Allocation :
         A[x] = IF x \in X /\ Cancellable(s.allocs[x])
                  THEN Cancelled(s.allocs[x], reason) ELSE s.allocs[x]
  OBVIOUS
<1> HIDE DEF A, C
<1>3. t.leader = s.leader /\ t.workers = s.workers /\ t.allocs = A
  BY DEF Store
<1> QED BY <1>1, <1>2, <1>3

\* The closing of workers writes them, their rooms and their commands.
LEMMA CloseWorkersShape ==
  ASSUME NEW s \in Store, NEW W \in SUBSET Worker, NEW state
  PROVE  /\ CloseWorkers(s, W, state).leader = s.leader
         /\ \A w \in Worker :
              CloseWorkers(s, W, state).workers[w] =
                IF w \in W THEN Closed(s.workers[w], state) ELSE s.workers[w]
         /\ \A x \in Allocation :
              CloseWorkers(s, W, state).allocs[x] =
                IF Live(s.allocs[x]) /\ s.allocs[x].worker \in W
                  THEN Finish(s.allocs[x], "failed", "other")
                  ELSE s.allocs[x]
         /\ CloseWorkers(s, W, state).commands =
              {c \in s.commands : c.worker \notin W}
<1> DEFINE A == [x \in Allocation |->
                   IF Live(s.allocs[x]) /\ s.allocs[x].worker \in W
                     THEN Finish(s.allocs[x], "failed", "other")
                     ELSE s.allocs[x]]
           C == {c \in s.commands : c.worker \notin W}
           V == [w \in Worker |->
                   IF w \in W THEN Closed(s.workers[w], state)
                              ELSE s.workers[w]]
           u == [s EXCEPT !.allocs = A, !.commands = C]
           t == [u EXCEPT !.workers = V]
<1>1. EndRooms(s, W) = u
  BY DEF EndRooms
<1>2. \A x \in Allocation :
         A[x] = IF Live(s.allocs[x]) /\ s.allocs[x].worker \in W
                  THEN Finish(s.allocs[x], "failed", "other")
                  ELSE s.allocs[x]
  OBVIOUS
<1>3. \A w \in Worker :
         V[w] = IF w \in W THEN Closed(s.workers[w], state) ELSE s.workers[w]
  OBVIOUS
<1> HIDE DEF A, C
<1>4. u.workers = s.workers
  BY DEF Store
<1>5. CloseWorkers(s, W, state) = t
  BY <1>1, <1>4 DEF CloseWorkers, Closed
<1> HIDE DEF V
<1>6. /\ t.leader = s.leader /\ t.workers = V
      /\ t.allocs = A /\ t.commands = C
  BY DEF Store
<1> QED BY <1>2, <1>3, <1>5, <1>6 DEF C

\* beginDrain writes workers and commands.
LEMMA BeginDrainShape ==
  ASSUME NEW s \in Store, NEW W \in SUBSET Worker
  PROVE  /\ BeginDrain(s, W).leader = s.leader
         /\ BeginDrain(s, W).allocs = s.allocs
         /\ \A w \in Worker :
              BeginDrain(s, W).workers[w] =
                IF w \in W /\ ~s.workers[w].draining
                  THEN Draining(s.workers[w]) ELSE s.workers[w]
         /\ \A c \in BeginDrain(s, W).commands \ s.commands : c.type = "drain"
         /\ s.commands \subseteq BeginDrain(s, W).commands
<1> DEFINE D == {w \in W : ~s.workers[w].draining}
           V == [w \in Worker |->
                   IF w \in D THEN Draining(s.workers[w]) ELSE s.workers[w]]
           C == s.commands \cup {DrainCommand(w) : w \in D}
           t == [s EXCEPT !.workers = V, !.commands = C]
<1>1. BeginDrain(s, W) = t
  BY DEF BeginDrain, Draining
<1>2. \A w \in Worker :
         V[w] = IF w \in W /\ ~s.workers[w].draining
                  THEN Draining(s.workers[w]) ELSE s.workers[w]
  OBVIOUS
<1>3. \A c \in C \ s.commands : c.type = "drain"
  BY DEF DrainCommand
<1>4. s.commands \subseteq C
  OBVIOUS
<1> HIDE DEF V, C
<1>5. /\ t.leader = s.leader /\ t.allocs = s.allocs
      /\ t.workers = V /\ t.commands = C
  BY DEF Store
<1> QED BY <1>1, <1>2, <1>3, <1>4, <1>5

\* What those records hold.
LEMMA ClosedFields ==
  ASSUME NEW r \in WorkerRecord, NEW state
  PROVE  /\ Closed(r, state).state = state
         /\ Closed(r, state).draining = r.draining
         /\ Closed(r, state).boot = r.boot
         /\ Closed(r, state).maxRooms = r.maxRooms
         /\ Draining(r).state = "draining" /\ Draining(r).draining
         /\ Draining(r).maxRooms = r.maxRooms
BY DEF WorkerRecord, Closed, Draining

\* A cancelled or finished allocation keeps its worker.
LEMMA CancelledKeeps ==
  ASSUME NEW a \in AllocationRecord, NEW reason
  PROVE  /\ Cancelled(a, reason).worker = a.worker
         /\ \A phase \in Terminal :
              /\ Finish(a, phase, reason).worker = a.worker
              /\ Finish(a, phase, reason).state = phase
              /\ ~Live(Finish(a, phase, reason))
         /\ Reserved(a).worker = a.worker
<1>1. \A phase : /\ Finish(a, phase, reason).worker = a.worker
                 /\ Finish(a, phase, reason).state = phase
  BY DEF Finish, AllocationRecord
<1>2. Reserved(a).worker = a.worker
  BY DEF Reserved, AllocationRecord
<1>3. [a EXCEPT !.state = "cancelling", !.reason = reason].worker = a.worker
  BY DEF AllocationRecord
<1> HIDE DEF Finish, Reserved
<1>4. Cancelled(a, reason).worker = a.worker
  BY <1>1, <1>3 DEF Cancelled
<1> QED BY <1>1, <1>2, <1>4 DEF Live

\* cancel moves no room.
LEMMA CancelAllTame ==
  ASSUME NEW s \in Store, NEW X, NEW reason
  PROVE  Tame(s, CancelAll(s, X, reason))
<1> DEFINE t == CancelAll(s, X, reason)
<1>1. \A x \in Allocation :
         \/ t.allocs[x] = s.allocs[x]
         \/ Live(s.allocs[x]) /\ t.allocs[x] = Cancelled(s.allocs[x], reason)
  <2> TAKE x \in Allocation
  <2>1. t.allocs[x] = IF x \in X /\ Cancellable(s.allocs[x])
                        THEN Cancelled(s.allocs[x], reason) ELSE s.allocs[x]
    BY CancelAllShape
  <2> HIDE DEF t
  <2>2. Cancellable(s.allocs[x]) => Live(s.allocs[x])
    BY DEF Cancellable
  <2> QED BY <2>1, <2>2
<1>2. t.leader = s.leader /\ t.workers = s.workers
  BY CancelAllShape
<1> HIDE DEF t
<1>3. \A x \in Allocation : Keeps(s.allocs[x], t.allocs[x])
  BY <1>1, StoreParts, CancelledKeeps, KeepsSame
<1>4. Tame(s, t)
  BY <1>2, <1>3, TameAllocs
<1> QED BY <1>4 DEF t

\* Closing workers ends their rooms: to "stopped" from any state, to "lost"
\* only while the worker counts.
LEMMA CloseWorkersTame ==
  ASSUME NEW s \in Store, NEW W \in SUBSET Worker, NEW state \in {"lost", "stopped"},
         state = "lost" =>
           \A w \in W : s.workers[w].state \notin {"none", "stopped", "failed"}
  PROVE  Tame(s, CloseWorkers(s, W, state))
<1> DEFINE t == CloseWorkers(s, W, state)
<1>1. /\ t.leader = s.leader
      /\ \A w \in Worker :
           t.workers[w] = IF w \in W THEN Closed(s.workers[w], state)
                                     ELSE s.workers[w]
      /\ \A x \in Allocation :
           t.allocs[x] = IF Live(s.allocs[x]) /\ s.allocs[x].worker \in W
                           THEN Finish(s.allocs[x], "failed", "other")
                           ELSE s.allocs[x]
  BY CloseWorkersShape
<1> HIDE DEF t
<1>2. \A x \in Allocation :
         Live(t.allocs[x]) =>
           t.allocs[x] = s.allocs[x] /\ s.allocs[x].worker \notin W
  <2> SUFFICES ASSUME NEW x \in Allocation, Live(t.allocs[x])
               PROVE  t.allocs[x] = s.allocs[x] /\ s.allocs[x].worker \notin W
    OBVIOUS
  <2>1. s.allocs[x] \in AllocationRecord /\ "failed" \in Terminal
    BY StoreParts DEF Terminal
  <2>2. ~Live(Finish(s.allocs[x], "failed", "other"))
    BY <2>1, CancelledKeeps
  <2> QED BY <1>1, <2>2
<1>3. \A x \in Allocation : Keeps(s.allocs[x], t.allocs[x])
  BY <1>2 DEF Keeps
<1>4. ASSUME NEW w \in W
      PROVE  LiveOn(t, w) = {}
  BY <1>2 DEF LiveOn
<1>5. ASSUME NEW w \in W
      PROVE  Moves(s.workers[w], t.workers[w])
  <2>1. s.workers[w] \in WorkerRecord
    BY StoreParts
  <2>2. /\ t.workers[w].state = state
        /\ t.workers[w].draining = s.workers[w].draining
        /\ t.workers[w].boot = s.workers[w].boot
    BY <1>1, <2>1, ClosedFields
  <2> QED BY <2>2 DEF Moves, WorkerOK, Counted, Gone
<1>6. \A w \in Worker \ W : /\ Stays(s.workers[w], t.workers[w])
                            /\ Moves(s.workers[w], t.workers[w])
  BY <1>1, SameWorker
<1>7. Tame(s, t)
  BY <1>1, <1>3, <1>4, <1>5, <1>6 DEF Tame
<1> QED BY <1>7 DEF t

\* beginDrain, of workers that serve.
LEMMA BeginDrainTame ==
  ASSUME NEW s \in Store, NEW W \in SUBSET Worker,
         \A w \in W : s.workers[w].state \in Serving
  PROVE  Tame(s, BeginDrain(s, W))
<1> DEFINE t == BeginDrain(s, W)
<1>1. /\ t.leader = s.leader /\ t.allocs = s.allocs
      /\ \A w \in Worker :
           \/ t.workers[w] = s.workers[w]
           \/ w \in W /\ t.workers[w] = Draining(s.workers[w])
  BY BeginDrainShape
<1> HIDE DEF t
<1>2. ASSUME NEW w \in Worker
      PROVE  Stays(s.workers[w], t.workers[w]) /\ Moves(s.workers[w], t.workers[w])
  <2>1. CASE t.workers[w] = s.workers[w]
    BY <2>1, SameWorker
  <2>2. CASE w \in W /\ t.workers[w] = Draining(s.workers[w])
    <3>1. s.workers[w] \in WorkerRecord /\ s.workers[w].state \in Serving
      BY <2>2, StoreParts
    <3>2. /\ t.workers[w].state = "draining" /\ t.workers[w].draining
          /\ t.workers[w].maxRooms = s.workers[w].maxRooms
      BY <2>2, <3>1, ClosedFields
    <3> QED BY <3>1, <3>2 DEF Stays, Moves, WorkerOK, Counted, Serving, Gone
  <2> QED BY <1>1, <2>1, <2>2
<1>3. Tame(s, t)
  BY <1>1, <1>2, TameWorkers
<1> QED BY <1>3 DEF t

-----------------------------------------------------------------------------
(* The passes of a tick *)

\* The record of a worker whose clocks are checked stays or moves.
LEMMA CheckedWorkerMoves ==
  ASSUME NEW r \in WorkerRecord
  PROVE  /\ Stays(r, CheckedWorker(r)) /\ Moves(r, CheckedWorker(r))
         /\ CheckedWorker(r) \in WorkerRecord
<1>1. CASE r.state = "starting" /\ r.updated > InterruptedAfter
  <2> DEFINE q == [r EXCEPT !.state = "unknown"]
  <2>1. CheckedWorker(r) = q
    BY <1>1 DEF CheckedWorker
  <2>2. /\ q \in WorkerRecord /\ q.state = "unknown" /\ q.draining = r.draining
        /\ q.maxRooms = r.maxRooms
    BY DEF WorkerRecord, WorkerState
  <2> HIDE DEF q
  <2> QED BY <1>1, <2>1, <2>2
          DEF Stays, Moves, WorkerOK, Counted, Serving, Gone
<1>2. CASE ~(r.state = "starting") /\ r.state = "ready" /\ ~Fresh(r)
  <2> DEFINE q == [r EXCEPT !.state = "suspect"]
  <2>1. CheckedWorker(r) = q
    BY <1>2 DEF CheckedWorker
  <2>2. /\ q \in WorkerRecord /\ q.state = "suspect" /\ q.draining = r.draining
        /\ q.maxRooms = r.maxRooms
    BY DEF WorkerRecord, WorkerState
  <2> HIDE DEF q
  <2> QED BY <1>2, <2>1, <2>2
          DEF Stays, Moves, WorkerOK, Counted, Serving, Gone
<1>3. CASE /\ ~(r.state = "starting" /\ r.updated > InterruptedAfter)
           /\ ~(r.state = "ready" /\ ~Fresh(r))
  <2>1. CheckedWorker(r) = r
    BY <1>3 DEF CheckedWorker
  <2> QED BY <2>1, SameWorker
<1> QED BY <1>1, <1>2, <1>3

\* The pass over the workers' clocks: what it drains is ready, and what it
\* gives up counts.
LEMMA CheckWorkersTame ==
  ASSUME NEW s \in Store
  PROVE  Tame(s, CheckWorkers(s))
<1> DEFINE ending == {w \in Worker :
                        /\ s.workers[w].state = "ready"
                        /\ s.workers[w].life # Never
                        /\ s.workers[w].life <= MinLifetimeForAdmission}
           t == BeginDrain(s, ending)
           V == [w \in Worker |-> CheckedWorker(t.workers[w])]
           u == [t EXCEPT !.workers = V]
           silent == {w \in Worker : Silent(u.workers[w])}
<1>1. t \in Store
  BY BeginDrainEvolves DEF Evolves
<1>2. Tame(s, t)
  BY BeginDrainTame DEF Serving
<1>3. CheckWorkers(s) = CloseWorkers(u, silent, "lost")
  BY DEF CheckWorkers, Lost
<1> HIDE DEF t
<1>4. V \in [Worker -> WorkerRecord]
  BY <1>1, StoreParts, CheckedWorkerMoves
<1>5. \A w \in Worker : V[w] = CheckedWorker(t.workers[w])
  OBVIOUS
<1> HIDE DEF V
<1>6. /\ u \in Store /\ u.allocs = t.allocs /\ u.leader = t.leader
      /\ u.workers = V
  BY <1>1, <1>4 DEF Store
<1>7. Tame(t, u)
  <2>1. ASSUME NEW w \in Worker
        PROVE  /\ Stays(t.workers[w], u.workers[w])
               /\ Moves(t.workers[w], u.workers[w])
    <3>1. t.workers[w] \in WorkerRecord
      BY <1>1, StoreParts
    <3> QED BY <1>5, <1>6, <3>1, CheckedWorkerMoves
  <2> QED BY <1>6, <2>1, TameWorkers
<1> HIDE DEF u
<1>8. Tame(u, CloseWorkers(u, silent, "lost"))
  BY <1>6, CloseWorkersTame DEF Silent
<1> QED BY <1>2, <1>3, <1>7, <1>8, TameTrans

\* Old outcomes are pruned: they hold no room.
LEMMA PruneAllocationsTame ==
  ASSUME NEW s \in Store
  PROVE  Tame(s, PruneAllocations(s))
<1> DEFINE A == [x \in Allocation |->
                   IF s.allocs[x].state \in Terminal /\ s.allocs[x].ended > History
                     THEN NoAllocation ELSE s.allocs[x]]
           t == [s EXCEPT !.allocs = A]
<1>1. PruneAllocations(s) = t
  BY DEF PruneAllocations
<1>2. \A x \in Allocation : A[x] = NoAllocation \/ A[x] = s.allocs[x]
  OBVIOUS
<1> HIDE DEF A
<1>3. t.leader = s.leader /\ t.workers = s.workers /\ t.allocs = A
  BY DEF Store
<1>4. ~Live(NoAllocation)
  BY DEF Live, NoAllocation
<1>5. \A x \in Allocation : Keeps(s.allocs[x], t.allocs[x])
  BY <1>2, <1>3, <1>4 DEF Keeps
<1> QED BY <1>1, <1>3, <1>5, TameAllocs

\* A worker that is forgotten counts no more and has no live room.
LEMMA PruneWorkersTame ==
  ASSUME NEW s \in Store
  PROVE  Tame(s, PruneWorkers(s))
<1> DEFINE W == PrunableWorkers(s)
           V == [w \in Worker |-> IF w \in W THEN NoWorker ELSE s.workers[w]]
           C == {c \in s.commands : c.worker \notin W}
           t == [s EXCEPT !.workers = V, !.commands = C]
<1>1. PruneWorkers(s) = t
  BY DEF PruneWorkers
<1>2. \A w \in Worker : V[w] = IF w \in W THEN NoWorker ELSE s.workers[w]
  OBVIOUS
<1>3. ASSUME NEW w \in W
      PROVE  LiveOn(s, w) = {} /\ Moves(s.workers[w], NoWorker)
  <2>1. LiveOn(s, w) = {}
    BY DEF PrunableWorkers, LiveOn
  <2>2. /\ NoWorker.state = "none" /\ NoWorker.boot = None
        /\ ~NoWorker.draining
    BY DEF NoWorker
  <2> QED BY <2>1, <2>2 DEF Moves, WorkerOK, Counted
<1> HIDE DEF V, C, W
<1>4. t.leader = s.leader /\ t.allocs = s.allocs /\ t.workers = V
  BY DEF Store
<1>5. \A w \in Worker : /\ Stays(s.workers[w], V[w]) \/ LiveOn(s, w) = {}
                        /\ Moves(s.workers[w], V[w])
  BY <1>2, <1>3, SameWorker
<1>6. Tame(s, t)
  BY <1>4, <1>5, TameWorkers
<1> QED BY <1>1, <1>6

\* The pass over prepared rooms gives out seats in them.
LEMMA ReservePreparedShape ==
  ASSUME NEW s \in Store
  PROVE  /\ ReservePrepared(s).leader = s.leader
         /\ ReservePrepared(s).workers = s.workers
         /\ ReservePrepared(s).commands = s.commands
         /\ \A x \in Allocation :
              ReservePrepared(s).allocs[x] =
                IF /\ s.allocs[x].state = "prepared" /\ s.allocs[x].worker # None
                   /\ Eligible(s.workers[s.allocs[x].worker])
                  THEN Reserved(s.allocs[x]) ELSE s.allocs[x]
<1> DEFINE A == [x \in Allocation |->
                   IF /\ s.allocs[x].state = "prepared"
                      /\ s.allocs[x].worker # None
                      /\ Eligible(s.workers[s.allocs[x].worker])
                     THEN Reserved(s.allocs[x]) ELSE s.allocs[x]]
           t == [s EXCEPT !.allocs = A]
<1>1. ReservePrepared(s) = t
  BY DEF ReservePrepared
<1>2. \A x \in Allocation :
         A[x] = IF /\ s.allocs[x].state = "prepared"
                   /\ s.allocs[x].worker # None
                   /\ Eligible(s.workers[s.allocs[x].worker])
                  THEN Reserved(s.allocs[x]) ELSE s.allocs[x]
  OBVIOUS
<1> HIDE DEF A
<1>3. /\ t.leader = s.leader /\ t.workers = s.workers
      /\ t.commands = s.commands /\ t.allocs = A
  BY DEF Store
<1> QED BY <1>1, <1>2, <1>3

\* Seats are given out in rooms that exist.
LEMMA ReservePreparedTame ==
  ASSUME NEW s \in Store
  PROVE  Tame(s, ReservePrepared(s))
<1> DEFINE t == ReservePrepared(s)
<1>1. t.leader = s.leader /\ t.workers = s.workers
  BY ReservePreparedShape
<1>2. ASSUME NEW x \in Allocation
      PROVE  Keeps(s.allocs[x], t.allocs[x])
  <2>1. \/ t.allocs[x] = s.allocs[x]
        \/ s.allocs[x].state = "prepared" /\ t.allocs[x] = Reserved(s.allocs[x])
    BY ReservePreparedShape
  <2> HIDE DEF t
  <2>2. s.allocs[x] \in AllocationRecord
    BY StoreParts
  <2>3. s.allocs[x].state = "prepared" => Live(s.allocs[x])
    BY DEF Live, Terminal
  <2> QED BY <2>1, <2>2, <2>3, CancelledKeeps, KeepsSame
<1> HIDE DEF t
<1>3. Tame(s, t)
  BY <1>1, <1>2, TameAllocs
<1> QED BY <1>3 DEF t

\* The passes that maintain the store, chained.
LEMMA MaintainedTame ==
  ASSUME NEW s \in Store
  PROVE  Tame(s, Maintained(s))
<1> DEFINE a == CheckWorkers(s)
           b == ExpireAllocations(a)
           c == PruneAllocations(b)
           d == PruneWorkers(c)
           e == ReservePrepared(d)
<1>1. a \in Store /\ Tame(s, a)
  BY CheckWorkersEvolves, CheckWorkersTame DEF Evolves
<1>2. b \in Store /\ Tame(a, b)
  BY <1>1, ExpireAllocationsEvolves, CancelAllTame DEF Evolves, ExpireAllocations
<1>3. c \in Store /\ Tame(b, c)
  BY <1>2, PruneAllocationsEvolves, PruneAllocationsTame DEF Evolves
<1>4. d \in Store /\ Tame(c, d)
  BY <1>3, PruneWorkersEvolves, PruneWorkersTame DEF Evolves
<1>5. Tame(d, e)
  BY <1>4, ReservePreparedTame
<1>6. Maintained(s) = e
  BY DEF Maintained
<1> HIDE DEF a, b, c, d, e
<1>7. Tame(s, c)
  BY <1>1, <1>2, <1>3, TameTrans
<1>8. Tame(s, d)
  BY <1>4, <1>7, TameTrans
<1> QED BY <1>5, <1>6, <1>8, TameTrans

-----------------------------------------------------------------------------
(* Placing the waiting requests *)

\* The order of placement is total.
LEMMA BeforeOrders ==
  ASSUME NEW s \in Store
  PROVE  /\ \A x \in Allocation : ~Before(s, x, x)
         /\ \A x, y \in Allocation : x # y => Before(s, x, y) \/ Before(s, y, x)
         /\ \A x, y, z \in Allocation :
              Before(s, x, y) /\ Before(s, y, z) => Before(s, x, z)
<1>1. \A x \in Allocation : s.allocs[x].ttl \in Int /\ x \in Int
  BY StoreParts, IdAssumption DEF AllocationRecord
<1> QED BY <1>1 DEF Before

\* Some request of a set is placed after all others.
LEMMA LastRequest ==
  ASSUME NEW s \in Store, NEW Q \in SUBSET Allocation, Q # {}
  PROVE  \E x \in Q : \A y \in Q \ {x} : Before(s, y, x)
<1> DEFINE After(x) == {y \in Q : Before(s, x, y)}
           Afters == {After(x) : x \in Q}
           R == StrictSubsetOrdering(Q)
<1>1. IsFiniteSet(Q)
  BY IdAssumption, FS_Subset
<1>2. IsWellFoundedOn(R, SUBSET Q)
  BY <1>1, FS_StrictSubsetOrderingWellFounded, FS_FiniteSubsetsOfFinite
<1>3. Afters \subseteq SUBSET Q /\ Afters # {}
  OBVIOUS
<1>4. PICK A \in Afters : \A B \in Afters : ~(<<B, A>> \in R)
  <2> HIDE DEF Afters, R
  <2> QED BY <1>2, <1>3, WFMin
<1>5. PICK x \in Q : A = After(x)
  BY <1>4
<1>6. ASSUME NEW y \in Q, Before(s, x, y)
      PROVE  FALSE
  <2>1. After(y) \subseteq After(x)
    BY <1>6, BeforeOrders
  <2>2. y \in After(x) /\ y \notin After(y)
    BY <1>6, BeforeOrders
  <2>3. After(y) \in SUBSET Q /\ After(x) \in SUBSET Q /\ After(y) # After(x)
    BY <2>2
  <2>4. After(y) \in Afters
    OBVIOUS
  <2> HIDE DEF After, Afters
  <2>5. <<After(y), After(x)>> \in R
    BY <2>1, <2>3 DEF StrictSubsetOrdering
  <2> QED BY <1>4, <1>5, <2>4, <2>5
<1> QED BY <1>6, BeforeOrders

\* What placing writes.
LEMMA PlaceShape ==
  ASSUME NEW s \in Store, NEW P \in Placements(s)
  PROVE  /\ Place(s, P).leader = s.leader
         /\ \A w \in Worker :
              \/ Place(s, P).workers[w] = s.workers[w]
              \/ Place(s, P).workers[w] = [s.workers[w] EXCEPT !.idle = Never]
         /\ \A x \in Allocation :
              Place(s, P).allocs[x] =
                IF x \in WaitingRequests(s) /\ P[x] # None
                  THEN [s.allocs[x] EXCEPT !.worker = P[x], !.state = "preparing",
                                           !.ttl = PrepareTimeout]
                  ELSE s.allocs[x]
         /\ Place(s, P).commands =
              s.commands \cup {PrepareCommand(x, P[x]) :
                                 x \in {y \in WaitingRequests(s) : P[y] # None}}
<1> DEFINE placed == {x \in WaitingRequests(s) : P[x] # None}
           A == [x \in Allocation |->
                   IF x \in placed
                     THEN [s.allocs[x] EXCEPT !.worker = P[x],
                                              !.state = "preparing",
                                              !.ttl = PrepareTimeout]
                     ELSE s.allocs[x]]
           V == [w \in Worker |->
                   IF \E x \in placed : P[x] = w
                     THEN [s.workers[w] EXCEPT !.idle = Never]
                     ELSE s.workers[w]]
           C == s.commands \cup {PrepareCommand(x, P[x]) : x \in placed}
           t == [s EXCEPT !.allocs = A, !.workers = V, !.commands = C]
<1>1. Place(s, P) = t
  BY DEF Place
<1>2. \A x \in Allocation :
         A[x] = IF x \in WaitingRequests(s) /\ P[x] # None
                  THEN [s.allocs[x] EXCEPT !.worker = P[x], !.state = "preparing",
                                           !.ttl = PrepareTimeout]
                  ELSE s.allocs[x]
  OBVIOUS
<1>3. \A w \in Worker : \/ V[w] = s.workers[w]
                        \/ V[w] = [s.workers[w] EXCEPT !.idle = Never]
  OBVIOUS
<1> HIDE DEF A, V, C
<1>4. t.leader = s.leader /\ t.allocs = A /\ t.workers = V /\ t.commands = C
  BY DEF Store
<1> QED BY <1>1, <1>2, <1>3, <1>4 DEF C

\* Placing changes a worker's idle clock only.
LEMMA PlaceWorkers ==
  ASSUME NEW s \in Store, NEW P \in Placements(s), NEW w \in Worker
  PROVE  /\ Place(s, P).workers[w].state = s.workers[w].state
         /\ Place(s, P).workers[w].draining = s.workers[w].draining
         /\ Place(s, P).workers[w].boot = s.workers[w].boot
         /\ Place(s, P).workers[w].providerID = s.workers[w].providerID
         /\ Place(s, P).workers[w].maxRooms = s.workers[w].maxRooms
<1> DEFINE q == Place(s, P).workers[w]
<1>1. q = s.workers[w] \/ q = [s.workers[w] EXCEPT !.idle = Never]
  BY PlaceShape
<1> HIDE DEF q
<1>2. s.workers[w] \in WorkerRecord
  BY StoreParts
<1>3. /\ q.state = s.workers[w].state /\ q.draining = s.workers[w].draining
      /\ q.boot = s.workers[w].boot /\ q.providerID = s.workers[w].providerID
      /\ q.maxRooms = s.workers[w].maxRooms
  BY <1>1, <1>2 DEF WorkerRecord
<1> QED BY <1>3 DEF q

\* A request that is placed gets an eligible worker with a room to spare,
\* counting the requests placed before it.
LEMMA PlacedFits ==
  ASSUME NEW s \in Store, NEW P \in Placements(s),
         NEW x \in WaitingRequests(s), P[x] # None
  PROVE  /\ P[x] \in Worker /\ Eligible(s.workers[P[x]])
         /\ LoadBefore(s, P, x, P[x]) < s.workers[P[x]].maxRooms
         /\ x \in Allocation /\ s.allocs[x].state = Waiting
<1>1. P[x] \in Fits(s, P, x)
  BY DEF Placements
<1> QED BY <1>1 DEF Fits, WaitingRequests

\* An allocation that is placed is live and on the worker it was given.
LEMMA PlacedRoom ==
  ASSUME NEW s \in Store, NEW P \in Placements(s), NEW x \in Allocation
  PROVE  \/ /\ x \in WaitingRequests(s) /\ P[x] # None
            /\ Place(s, P).allocs[x].state = "preparing"
            /\ Place(s, P).allocs[x].worker = P[x]
         \/ /\ ~(x \in WaitingRequests(s) /\ P[x] # None)
            /\ Place(s, P).allocs[x] = s.allocs[x]
<1> DEFINE b == Place(s, P).allocs[x]
<1>1. b = IF x \in WaitingRequests(s) /\ P[x] # None
            THEN [s.allocs[x] EXCEPT !.worker = P[x], !.state = "preparing",
                                     !.ttl = PrepareTimeout]
            ELSE s.allocs[x]
  BY PlaceShape
<1> HIDE DEF b
<1>2. s.allocs[x] \in AllocationRecord
  BY StoreParts
<1>3. CASE x \in WaitingRequests(s) /\ P[x] # None
  <2>1. b.state = "preparing" /\ b.worker = P[x]
    BY <1>1, <1>2, <1>3 DEF AllocationRecord
  <2> QED BY <1>3, <2>1 DEF b
<1>4. CASE ~(x \in WaitingRequests(s) /\ P[x] # None)
  BY <1>1, <1>4 DEF b
<1> QED BY <1>3, <1>4

\* The rooms placed in one tick on one worker fit: the request placed last on
\* it found a room to spare after counting all the others.
LEMMA PlaceFits ==
  ASSUME NEW s \in Store, NEW P \in Placements(s), Fitting(s)
  PROVE  Fitting(Place(s, P))
<1> SUFFICES ASSUME NEW w \in Worker
             PROVE  Cardinality(LiveOn(Place(s, P), w)) <= s.workers[w].maxRooms
  BY PlaceWorkers DEF Fitting, Occupied
<1> DEFINE Q == {x \in WaitingRequests(s) : P[x] = w}
           L == LiveOn(s, w)
           M == LiveOn(Place(s, P), w)
<1>0. w # None
  BY IdAssumption
<1>1. M \subseteq L \cup Q
  <2> SUFFICES ASSUME NEW x \in Allocation, Live(Place(s, P).allocs[x]),
                      Place(s, P).allocs[x].worker = w, x \notin Q
               PROVE  x \in L
    BY DEF LiveOn
  <2>1. Place(s, P).allocs[x] = s.allocs[x]
    BY PlacedRoom
  <2> QED BY <2>1 DEF LiveOn
<1>2. /\ IsFiniteSet(L) /\ IsFiniteSet(Q) /\ Q \in SUBSET Allocation
      /\ IsFiniteSet(WaitingRequests(s))
  BY IdAssumption, FS_Subset DEF LiveOn, WaitingRequests
<1>3. Cardinality(L) \in Nat /\ Cardinality(Q) \in Nat
  BY <1>2, FS_CardinalityType
<1>4. /\ IsFiniteSet(L \cup Q)
      /\ Cardinality(L \cup Q) <= Cardinality(L) + Cardinality(Q)
  <2>1. /\ IsFiniteSet(L \cup Q) /\ IsFiniteSet(L \cap Q)
        /\ Cardinality(L \cup Q) =
             Cardinality(L) + Cardinality(Q) - Cardinality(L \cap Q)
    BY <1>2, FS_Union, FS_Intersection
  <2>2. Cardinality(L \cap Q) \in Nat
    BY <2>1, FS_CardinalityType
  <2> HIDE DEF L, Q
  <2> QED BY <1>3, <2>1, <2>2
<1>5. /\ Cardinality(M) \in Nat /\ Cardinality(L \cup Q) \in Nat
      /\ Cardinality(M) <= Cardinality(L \cup Q)
  BY <1>1, <1>4, FS_Subset, FS_CardinalityType
<1>6. s.workers[w].maxRooms \in Nat
  BY StoreParts DEF WorkerRecord
<1>7. CASE Q = {}
  <2>1. Cardinality(Q) = 0
    BY <1>7, FS_EmptySet
  <2>2. Cardinality(L) <= s.workers[w].maxRooms
    BY DEF Fitting, Occupied
  <2> HIDE DEF L, Q, M
  <2> QED BY <1>3, <1>4, <1>5, <1>6, <2>1, <2>2 DEF M
<1>8. CASE Q # {}
  <2>1. PICK x \in Q : \A y \in Q \ {x} : Before(s, y, x)
    BY <1>2, <1>8, LastRequest
  <2> DEFINE B == {y \in WaitingRequests(s) : Before(s, y, x) /\ P[y] = w}
  <2>2. x \in WaitingRequests(s) /\ P[x] = w
    BY <2>1
  <2>3. Cardinality(L) + Cardinality(B) < s.workers[w].maxRooms
    BY <1>0, <2>2, PlacedFits DEF LoadBefore, Occupied
  <2>4. Q \ {x} \subseteq B /\ IsFiniteSet(B)
    BY <1>2, <2>1, FS_Subset
  <2>5. /\ Cardinality(Q \ {x}) <= Cardinality(B)
        /\ Cardinality(B) \in Nat
    BY <2>4, FS_Subset, FS_CardinalityType
  <2>6. Cardinality(Q \ {x}) = Cardinality(Q) - 1
    BY <1>2, <2>1, FS_RemoveElement
  <2> HIDE DEF L, Q, M, B
  <2> QED BY <1>3, <1>4, <1>5, <1>6, <2>3, <2>5, <2>6 DEF M
<1> QED BY <1>7, <1>8

\* Placing keeps the store sound.
LEMMA PlaceSound ==
  ASSUME NEW s \in Store, NEW P \in Placements(s), Sound(s)
  PROVE  Sound(Place(s, P))
<1> DEFINE t == Place(s, P)
<1>1. \A w \in Worker : /\ t.workers[w].state = s.workers[w].state
                        /\ t.workers[w].draining = s.workers[w].draining
                        /\ t.workers[w].boot = s.workers[w].boot
                        /\ t.workers[w].providerID = s.workers[w].providerID
  BY PlaceWorkers
<1>2. Fitting(t)
  BY PlaceFits DEF Sound
<1>3. ASSUME NEW x \in Allocation, Live(t.allocs[x]), t.allocs[x].worker # None
      PROVE  t.workers[t.allocs[x].worker].state \in Serving
  <2>1. CASE x \in WaitingRequests(s) /\ P[x] # None
    <3>1. t.allocs[x].worker = P[x]
      BY <2>1, PlacedRoom
    <3>2. P[x] \in Worker /\ Eligible(s.workers[P[x]])
      BY <2>1, PlacedFits
    <3> HIDE DEF t
    <3> QED BY <1>1, <3>1, <3>2 DEF Eligible, Serving
  <2>2. CASE ~(x \in WaitingRequests(s) /\ P[x] # None)
    <3>1. t.allocs[x] = s.allocs[x]
      BY <2>2, PlacedRoom
    <3> HIDE DEF t
    <3>2. s.workers[s.allocs[x].worker].state \in Serving
      BY <1>3, <3>1 DEF Sound, Placed
    <3>3. s.allocs[x].worker \in Worker
      BY <1>3, <3>1, StoreParts DEF AllocationRecord
    <3> QED BY <1>1, <3>1, <3>2, <3>3
  <2> QED BY <2>1, <2>2
<1> HIDE DEF t
<1>4. Limited(t)
  <2>1. LiveWorkers(t) = LiveWorkers(s)
    BY <1>1 DEF LiveWorkers
  <2> QED BY <2>1 DEF Sound, Limited
<1>5. \A w \in Worker : WorkerOK(t.workers[w])
  BY <1>1 DEF Sound, WorkerOK
<1>6. Sound(t)
  BY <1>2, <1>3, <1>4, <1>5 DEF Sound, Placed
<1> QED BY <1>6 DEF t

-----------------------------------------------------------------------------
(* Creating and retiring workers *)

\* A new worker is the only record that changes.
LEMMA NewWorkerShape ==
  ASSUME NEW s \in Store, NEW w \in Worker, NEW rooms \in Nat
  PROVE  /\ NewWorkerIn(s, w, rooms).leader = s.leader
         /\ NewWorkerIn(s, w, rooms).allocs = s.allocs
         /\ NewWorkerIn(s, w, rooms).commands = s.commands
         /\ \A v \in Worker \ {w} :
              NewWorkerIn(s, w, rooms).workers[v] = s.workers[v]
         /\ NewWorkerIn(s, w, rooms).workers[w].state = "requested"
         /\ ~NewWorkerIn(s, w, rooms).workers[w].draining
         /\ NewWorkerIn(s, w, rooms).workers[w].maxRooms = rooms
<1> DEFINE q == [NoWorker EXCEPT !.state = "requested", !.maxRooms = rooms]
           t == [s EXCEPT !.workers[w] = q]
<1>1. NewWorkerIn(s, w, rooms) = t
  BY DEF NewWorkerIn
<1>2. q.state = "requested" /\ ~q.draining /\ q.maxRooms = rooms
  BY DEF NoWorker
<1> HIDE DEF q
<1>3. /\ t.leader = s.leader /\ t.allocs = s.allocs /\ t.commands = s.commands
      /\ t.workers[w] = q
      /\ \A v \in Worker \ {w} : t.workers[v] = s.workers[v]
  BY StoreParts DEF Store
<1> HIDE DEF t
<1> QED BY <1>1, <1>2, <1>3

\* A worker created below the limit under an unused id keeps the store sound.
LEMMA NewWorkerSound ==
  ASSUME NEW s \in Store, NEW w \in FreshWorker(s), NEW rooms \in Nat,
         Cardinality(LiveWorkers(s)) < MaxInstances, Sound(s)
  PROVE  Sound(NewWorkerIn(s, w, rooms))
<1> DEFINE t == NewWorkerIn(s, w, rooms)
<1>1. /\ w \in Worker /\ s.workers[w].state = "none"
      /\ \A x \in Allocation : s.allocs[x].worker # w
  BY DEF FreshWorker
<1>2. /\ t.allocs = s.allocs
      /\ \A v \in Worker \ {w} : t.workers[v] = s.workers[v]
      /\ t.workers[w].state = "requested" /\ ~t.workers[w].draining
      /\ t.workers[w].maxRooms = rooms
  BY <1>1, NewWorkerShape
<1> HIDE DEF t
<1>3. Placed(t)
  <2> SUFFICES ASSUME NEW x \in Allocation, Live(s.allocs[x]),
                      s.allocs[x].worker # None
               PROVE  t.workers[s.allocs[x].worker].state \in Serving
    BY <1>2 DEF Placed
  <2>1. s.allocs[x].worker \in Worker \ {w}
    BY <1>1, StoreParts DEF AllocationRecord
  <2> QED BY <1>2, <2>1 DEF Sound, Placed
<1>4. Fitting(t)
  <2> SUFFICES ASSUME NEW v \in Worker
               PROVE  Occupied(t, v) <= t.workers[v].maxRooms
    BY DEF Fitting
  <2>1. LiveOn(t, v) = LiveOn(s, v)
    BY <1>2 DEF LiveOn
  <2>2. CASE v # w
    BY <1>2, <2>1, <2>2 DEF Sound, Fitting, Occupied
  <2>3. CASE v = w
    <3>1. LiveOn(s, v) = {}
      BY <1>1, <2>3 DEF LiveOn
    <3>2. Occupied(t, v) = 0
      BY <2>1, <3>1, FS_EmptySet DEF Occupied
    <3> QED BY <1>2, <2>3, <3>2
  <2> QED BY <2>2, <2>3
<1>5. Limited(t)
  <2>1. LiveWorkers(t) \subseteq LiveWorkers(s) \cup {w}
    BY <1>1, <1>2 DEF LiveWorkers
  <2>2. IsFiniteSet(LiveWorkers(s)) /\ w \notin LiveWorkers(s)
    BY <1>1, IdAssumption, FS_Subset DEF LiveWorkers
  <2>3. /\ IsFiniteSet(LiveWorkers(s) \cup {w})
        /\ Cardinality(LiveWorkers(s) \cup {w}) = Cardinality(LiveWorkers(s)) + 1
    BY <2>2, FS_AddElement
  <2>4. /\ IsFiniteSet(LiveWorkers(t))
        /\ Cardinality(LiveWorkers(t)) <= Cardinality(LiveWorkers(s) \cup {w})
    BY <2>1, <2>3, FS_Subset
  <2>5. Cardinality(LiveWorkers(t)) \in Nat /\ Cardinality(LiveWorkers(s)) \in Nat
    BY <2>2, <2>4, FS_CardinalityType
  <2> QED BY <2>3, <2>4, <2>5, ConfigAssumption DEF Limited
<1>6. \A v \in Worker : WorkerOK(t.workers[v])
  BY <1>2 DEF Sound, WorkerOK
<1>7. Sound(t)
  BY <1>3, <1>4, <1>5, <1>6 DEF Sound
<1> QED BY <1>7 DEF t

\* Soundness is about workers and allocations.
LEMMA SoundSame ==
  ASSUME NEW s, NEW t, Sound(s), t.workers = s.workers, t.allocs = s.allocs
  PROVE  Sound(t)
<1>1. Placed(t)
  BY DEF Sound, Placed
<1>2. Fitting(t) /\ Limited(t)
  BY DEF Sound, Fitting, Limited, Occupied, LiveOn, LiveWorkers
<1> QED BY <1>1, <1>2 DEF Sound

\* The tick creates at most one worker, when the limit and the ids allow it.
LEMMA ScaleUpsSound ==
  ASSUME NEW s \in Store, NEW ids \in SUBSET FreshWorker(s),
         NEW t \in ScaleUps(s, ids), Sound(s)
  PROVE  /\ Sound(t) /\ t.leader = s.leader /\ t.allocs = s.allocs
         /\ t.commands = s.commands
         /\ \A v \in Worker :
              \/ t.workers[v] = s.workers[v]
              \/ /\ v \in ids /\ s.workers[v].state = "none"
                 /\ t.workers[v].state = "requested" /\ ~t.workers[v].draining
<1>1. CASE t = s
  BY <1>1
<1>2. ASSUME NEW w \in ids, WantsWorker(s),
             t = [NewWorkerIn(s, w, s.rooms) EXCEPT !.nextCreate = CreateSpacing]
      PROVE  /\ Sound(t) /\ t.leader = s.leader /\ t.allocs = s.allocs
             /\ t.commands = s.commands
             /\ \A v \in Worker :
                  \/ t.workers[v] = s.workers[v]
                  \/ /\ v \in ids /\ s.workers[v].state = "none"
                     /\ t.workers[v].state = "requested"
                     /\ ~t.workers[v].draining
  <2> DEFINE n == NewWorkerIn(s, w, s.rooms)
  <2>0. s.rooms \in Nat /\ w \in Worker /\ s.workers[w].state = "none"
    BY StoreParts, ConfigAssumption DEF FreshWorker
  <2>1. n \in Store
    BY <2>0, NewWorkerEvolves DEF Evolves
  <2>2. Sound(n)
    BY <1>2, <2>0, NewWorkerSound DEF WantsWorker
  <2>3. /\ n.leader = s.leader /\ n.allocs = s.allocs
        /\ n.commands = s.commands
        /\ \A v \in Worker \ {w} : n.workers[v] = s.workers[v]
        /\ n.workers[w].state = "requested" /\ ~n.workers[w].draining
    BY <2>0, NewWorkerShape
  <2> HIDE DEF n
  <2>4. /\ t.leader = n.leader /\ t.allocs = n.allocs
        /\ t.workers = n.workers /\ t.commands = n.commands
    BY <1>2, <2>1 DEF Store, n
  <2> QED BY <2>0, <2>2, <2>3, <2>4, SoundSame
<1> QED BY <1>1, <1>2 DEF ScaleUps

\* The idle clock is all that changes before the surplus is drained.
LEMMA IdleClockFields ==
  ASSUME NEW s \in Store, NEW w \in Worker
  PROVE  /\ IdleClock(s, w).state = s.workers[w].state
         /\ IdleClock(s, w).draining = s.workers[w].draining
         /\ IdleClock(s, w).drainAck = s.workers[w].drainAck
         /\ IdleClock(s, w).boot = s.workers[w].boot
         /\ IdleClock(s, w).providerID = s.workers[w].providerID
         /\ IdleClock(s, w).maxRooms = s.workers[w].maxRooms
         /\ IdleClock(s, w).heartbeat = s.workers[w].heartbeat
         /\ IdleClock(s, w).life = s.workers[w].life
         /\ IdleClock(s, w) \in WorkerRecord
<1> DEFINE r == s.workers[w]
<1>1. r \in WorkerRecord
  BY StoreParts
<1>2. \E i \in {Never, 0, r.idle} : IdleClock(s, w) \in {r, [r EXCEPT !.idle = i]}
  BY DEF IdleClock
<1> HIDE DEF r
<1>3. IdleClock(s, w) \in WorkerRecord
      /\ \E i : IdleClock(s, w) \in {r, [r EXCEPT !.idle = i]}
  BY <1>1, <1>2 DEF WorkerRecord
<1> QED BY <1>1, <1>3 DEF r, WorkerRecord

\* A drained worker without rooms is handed to deletion.
LEMMA StopDrainedShape ==
  ASSUME NEW s \in Store
  PROVE  /\ StopDrained(s).leader = s.leader
         /\ StopDrained(s).allocs = s.allocs
         /\ StopDrained(s).commands = s.commands
         /\ \A w \in Worker :
              StopDrained(s).workers[w] =
                IF s.workers[w].state = "draining" /\ DrainedEmpty(s, w)
                  THEN [s.workers[w] EXCEPT !.state = "stopping", !.nextCheck = 0]
                  ELSE s.workers[w]
<1> DEFINE V == [w \in Worker |->
                   IF s.workers[w].state = "draining" /\ DrainedEmpty(s, w)
                     THEN [s.workers[w] EXCEPT !.state = "stopping",
                                               !.nextCheck = 0]
                     ELSE s.workers[w]]
           t == [s EXCEPT !.workers = V]
<1>1. StopDrained(s) = t
  BY DEF StopDrained
<1>2. \A w \in Worker :
         V[w] = IF s.workers[w].state = "draining" /\ DrainedEmpty(s, w)
                  THEN [s.workers[w] EXCEPT !.state = "stopping", !.nextCheck = 0]
                  ELSE s.workers[w]
  OBVIOUS
<1> HIDE DEF V
<1>3. /\ t.leader = s.leader /\ t.allocs = s.allocs
      /\ t.commands = s.commands /\ t.workers = V
  BY DEF Store
<1> QED BY <1>1, <1>2, <1>3

\* Handing a drained worker to deletion ends no room.
LEMMA StopDrainedTame ==
  ASSUME NEW s \in Store
  PROVE  Tame(s, StopDrained(s))
<1> DEFINE t == StopDrained(s)
<1>1. t.leader = s.leader /\ t.allocs = s.allocs
  BY StopDrainedShape
<1>2. ASSUME NEW w \in Worker
      PROVE  /\ Stays(s.workers[w], t.workers[w]) \/ LiveOn(s, w) = {}
             /\ Moves(s.workers[w], t.workers[w])
  <2> DEFINE q == t.workers[w]
  <2>1. q = IF s.workers[w].state = "draining" /\ DrainedEmpty(s, w)
              THEN [s.workers[w] EXCEPT !.state = "stopping", !.nextCheck = 0]
              ELSE s.workers[w]
    BY StopDrainedShape
  <2> HIDE DEF q
  <2>2. CASE s.workers[w].state = "draining" /\ DrainedEmpty(s, w)
    <3>1. s.workers[w] \in WorkerRecord
      BY StoreParts
    <3>2. q.state = "stopping"
      BY <2>1, <2>2, <3>1 DEF WorkerRecord
    <3>3. LiveOn(s, w) = {}
      BY <2>2 DEF DrainedEmpty
    <3>4. Moves(s.workers[w], q)
      BY <2>2, <3>2 DEF Moves, WorkerOK, Counted, Gone
    <3> QED BY <3>3, <3>4 DEF q
  <2>3. CASE ~(s.workers[w].state = "draining" /\ DrainedEmpty(s, w))
    BY <2>1, <2>3, SameWorker DEF q
  <2> QED BY <2>2, <2>3
<1> HIDE DEF t
<1>3. Tame(s, t)
  BY <1>1, <1>2, TameWorkers
<1> QED BY <1>3 DEF t

\* Draining the surplus and stopping the drained, chained.  None of them
\* makes a worker ready or suspect.
LEMMA ScaleDownsTame ==
  ASSUME NEW s \in Store, NEW u \in ScaleDowns(s)
  PROVE  /\ Tame(s, u)
         /\ \A w \in Worker :
              u.workers[w].state \in {s.workers[w].state, "draining", "stopping"}
<1> DEFINE V == [w \in Worker |-> IdleClock(s, w)]
           t == [s EXCEPT !.workers = V]
<1>1. PICK D \in DrainChoices(t) : u = StopDrained(BeginDrain(t, D))
  BY DEF ScaleDowns
<1>2. V \in [Worker -> WorkerRecord] /\ \A w \in Worker : V[w] = IdleClock(s, w)
  BY IdleClockFields
<1> HIDE DEF V
<1>3. /\ t \in Store /\ t.leader = s.leader /\ t.allocs = s.allocs
      /\ t.workers = V
  BY <1>2 DEF Store
<1> HIDE DEF t
<1>4. \A w \in Worker : /\ Stays(s.workers[w], t.workers[w])
                        /\ Moves(s.workers[w], t.workers[w])
                        /\ t.workers[w].state = s.workers[w].state
  BY <1>2, <1>3, IdleClockFields, SameWorker
<1>5. Tame(s, t)
  BY <1>3, <1>4, TameWorkers
<1>6. D \in SUBSET Worker /\ \A w \in D : t.workers[w].state \in Serving
  BY <1>1 DEF DrainChoices, SurplusWorkers, ReadyWorkers, Serving
<1> DEFINE v == BeginDrain(t, D)
<1>7. v \in Store /\ Tame(t, v)
  BY <1>3, <1>6, BeginDrainEvolves, BeginDrainTame DEF Evolves
<1>8. \A w \in Worker : v.workers[w].state \in {t.workers[w].state, "draining"}
  <2> TAKE w \in Worker
  <2>1. v.workers[w] \in {Draining(t.workers[w]), t.workers[w]}
    BY <1>3, <1>6, BeginDrainShape
  <2> HIDE DEF v
  <2> QED BY <1>3, <2>1, StoreParts, ClosedFields
<1>9. u = StopDrained(v)
  BY <1>1
<1> HIDE DEF v
<1>10. Tame(v, u)
  BY <1>7, <1>9, StopDrainedTame
<1>11. \A w \in Worker : u.workers[w].state \in {v.workers[w].state, "stopping"}
  <2> TAKE w \in Worker
  <2>1. \/ u.workers[w] = v.workers[w]
        \/ u.workers[w] = [v.workers[w] EXCEPT !.state = "stopping", !.nextCheck = 0]
    BY <1>7, <1>9, StopDrainedShape
  <2>2. v.workers[w] \in WorkerRecord
    BY <1>7, StoreParts
  <2> QED BY <2>1, <2>2 DEF WorkerRecord
<1> QED BY <1>4, <1>5, <1>7, <1>8, <1>10, <1>11, TameTrans

-----------------------------------------------------------------------------
(* The passes of a heartbeat *)

\* What a client, a process or time may do to a worker's state: a worker that
\* serves or is about to goes on doing so.
Calm(r, q) ==
  q.state = r.state \/ r.state = "none" \/ (r.state \in Up /\ q.state \in Up)

\* The worker that a heartbeat reports of.
LEMMA ObserveShape ==
  ASSUME NEW s \in Store, NEW w \in Worker, NEW report
  PROVE  LET r == s.workers[w]
             q == Observe(s, w, report).workers[w]
         IN  /\ Observe(s, w, report).leader = s.leader
             /\ Observe(s, w, report).allocs = s.allocs
             /\ Observe(s, w, report).commands = s.commands
             /\ \A v \in Worker \ {w} :
                  Observe(s, w, report).workers[v] = s.workers[v]
             /\ q.draining = r.draining /\ q.boot = r.boot
             /\ q.maxRooms = r.maxRooms /\ q.providerID = r.providerID
             /\ q.life = r.life
             /\ \/ q.state = r.state
                \/ /\ r.state \notin {"stopping", "unknown", "requested", "starting"}
                   /\ q.state = IF r.draining THEN "draining" ELSE "ready"
<1> DEFINE r == s.workers[w]
           serving == /\ r.providerReady /\ report.ready
                      /\ r.state \notin {"stopping", "unknown", "requested",
                                         "starting"}
           state == IF ~serving THEN r.state
                    ELSE IF r.draining THEN "draining" ELSE "ready"
           q == [r EXCEPT !.heartbeat = 0, !.ready = report.ready,
                          !.pending = report.pending,
                          !.overloaded = report.overloaded, !.state = state]
           t == [s EXCEPT !.workers[w] = q]
<1>1. Observe(s, w, report) = t
  BY DEF Observe
<1>2. \/ state = r.state
      \/ /\ r.state \notin {"stopping", "unknown", "requested", "starting"}
         /\ state = IF r.draining THEN "draining" ELSE "ready"
  OBVIOUS
<1>3. r \in WorkerRecord
  BY StoreParts
<1> HIDE DEF state
<1>4. /\ q.state = state /\ q.draining = r.draining /\ q.boot = r.boot
      /\ q.maxRooms = r.maxRooms /\ q.providerID = r.providerID
      /\ q.life = r.life
  BY <1>3 DEF WorkerRecord
<1> HIDE DEF q
<1>5. /\ t.leader = s.leader /\ t.allocs = s.allocs /\ t.commands = s.commands
      /\ t.workers[w] = q /\ \A v \in Worker \ {w} : t.workers[v] = s.workers[v]
  BY StoreParts DEF Store
<1> HIDE DEF t
<1> QED BY <1>1, <1>2, <1>4, <1>5

\* A process that was admitted keeps its worker in service.
LEMMA ObserveTame ==
  ASSUME NEW s \in Store, NEW w \in Worker, NEW report,
         s.workers[w].boot # None,
         s.workers[w].state \notin {"stopped", "lost", "failed"}
  PROVE  /\ Tame(s, Observe(s, w, report))
         /\ \A v \in Worker :
              Calm(s.workers[v], Observe(s, w, report).workers[v])
<1> DEFINE t == Observe(s, w, report)
           r == s.workers[w]
           q == t.workers[w]
<1>1. /\ t.leader = s.leader /\ t.allocs = s.allocs
      /\ \A v \in Worker \ {w} : t.workers[v] = s.workers[v]
      /\ q.draining = r.draining /\ q.boot = r.boot
      /\ q.maxRooms = r.maxRooms /\ q.providerID = r.providerID
      /\ \/ q.state = r.state
         \/ /\ r.state \notin {"stopping", "unknown", "requested", "starting"}
            /\ q.state = IF r.draining THEN "draining" ELSE "ready"
  BY ObserveShape
<1> HIDE DEF t
<1>2. r.state \in WorkerState
  BY StoreParts DEF WorkerRecord
<1>3. Stays(r, q) /\ Moves(r, q) /\ Calm(r, q)
  <2>1. CASE q.state = r.state
    BY <1>1, <2>1, SameWorker DEF Calm
  <2>2. CASE /\ r.state \notin {"stopping", "unknown", "requested", "starting"}
             /\ q.state = IF r.draining THEN "draining" ELSE "ready"
    <3>1. r.state \in Up \cup {"none"}
      BY <1>2, <2>2 DEF WorkerState, Up, Serving
    <3>2. q.state \in Serving
      BY <2>2 DEF Serving
    <3>3. Stays(r, q) /\ Calm(r, q)
      BY <1>1, <3>1, <3>2 DEF Stays, Calm, Up
    <3>4. Moves(r, q)
      BY <1>1, <2>2, <3>1 DEF Moves, WorkerOK, Counted, Up, Serving, Gone
    <3> QED BY <3>3, <3>4
  <2> QED BY <1>1, <2>1, <2>2
<1>4. \A v \in Worker : /\ Stays(s.workers[v], t.workers[v])
                        /\ Moves(s.workers[v], t.workers[v])
                        /\ Calm(s.workers[v], t.workers[v])
  BY <1>1, <1>3, SameWorker DEF Calm
<1>5. Tame(s, t)
  BY <1>1, <1>4, TameWorkers
<1> QED BY <1>4, <1>5 DEF t

\* The results of commands change commands and a drain acknowledgement.
LEMMA ApplyDoneShape ==
  ASSUME NEW s \in Store, NEW w \in Worker, NEW report
  PROVE  /\ ApplyDone(s, w, report).leader = s.leader
         /\ ApplyDone(s, w, report).allocs = s.allocs
         /\ \A v \in Worker \ {w} :
              ApplyDone(s, w, report).workers[v] = s.workers[v]
         /\ \E ack \in BOOLEAN :
              ApplyDone(s, w, report).workers[w] =
                [s.workers[w] EXCEPT !.drainAck = ack]
<1> DEFINE C == (s.commands \ DOMAIN report.results)
                  \cup {RetryOf(c) : c \in Answered(report, "cancel_room", "failure")
                                             \cup Answered(report, "drain", "failure")}
           ack == s.workers[w].drainAck \/ Answered(report, "drain", "success") # {}
           q == [s.workers[w] EXCEPT !.drainAck = ack]
           t == [s EXCEPT !.commands = C, !.workers[w] = q]
<1>1. ApplyDone(s, w, report) = t
  BY StoreParts DEF ApplyDone, Store
<1>2. ack \in BOOLEAN
  OBVIOUS
<1> HIDE DEF C, ack
<1>3. \E a \in BOOLEAN : q = [s.workers[w] EXCEPT !.drainAck = a]
  BY <1>2
<1> HIDE DEF q
<1>4. /\ t.leader = s.leader /\ t.allocs = s.allocs
      /\ t.workers[w] = q /\ \A v \in Worker \ {w} : t.workers[v] = s.workers[v]
  BY StoreParts DEF Store
<1> HIDE DEF t
<1> QED BY <1>1, <1>3, <1>4

\* ApplyDone leaves every worker's state alone.
LEMMA ApplyDoneTame ==
  ASSUME NEW s \in Store, NEW w \in Worker, NEW report
  PROVE  /\ Tame(s, ApplyDone(s, w, report))
         /\ \A v \in Worker :
              ApplyDone(s, w, report).workers[v].state = s.workers[v].state
<1> DEFINE t == ApplyDone(s, w, report)
<1>1. /\ t.leader = s.leader /\ t.allocs = s.allocs
      /\ \A v \in Worker \ {w} : t.workers[v] = s.workers[v]
      /\ \E ack \in BOOLEAN :
           t.workers[w] = [s.workers[w] EXCEPT !.drainAck = ack]
  BY ApplyDoneShape
<1> HIDE DEF t
<1>2. s.workers[w] \in WorkerRecord
  BY StoreParts
<1>3. /\ t.workers[w].state = s.workers[w].state
      /\ t.workers[w].draining = s.workers[w].draining
      /\ t.workers[w].boot = s.workers[w].boot
      /\ t.workers[w].providerID = s.workers[w].providerID
      /\ t.workers[w].maxRooms = s.workers[w].maxRooms
  BY <1>1, <1>2 DEF WorkerRecord
<1>4. \A v \in Worker : /\ Stays(s.workers[v], t.workers[v])
                        /\ Moves(s.workers[v], t.workers[v])
                        /\ t.workers[v].state = s.workers[v].state
  BY <1>1, <1>3, SameWorker
<1>5. Tame(s, t)
  BY <1>1, <1>4, TameWorkers
<1> QED BY <1>4, <1>5 DEF t

\* What an answer to prepare_room or to cancel_room makes of its allocation.
PreparedOn(r, a) ==
  IF Eligible(r) THEN Reserved(a) ELSE [a EXCEPT !.state = "prepared"]
CancelledByHost(a) ==
  Finish(a, IF a.reason = "cancelled" THEN "cancelled" ELSE "expired", a.reason)

\* The answers to prepare_room change their allocations.
LEMMA ApplyPreparedShape ==
  ASSUME NEW s \in Store, NEW w \in Worker, NEW X
  PROVE  /\ ApplyPrepared(s, w, X).leader = s.leader
         /\ ApplyPrepared(s, w, X).workers = s.workers
         /\ ApplyPrepared(s, w, X).commands = s.commands
         /\ \A x \in Allocation :
              ApplyPrepared(s, w, X).allocs[x] =
                IF x \in X /\ s.allocs[x].state = "preparing"
                  THEN PreparedOn(s.workers[w], s.allocs[x]) ELSE s.allocs[x]
<1> DEFINE A == [x \in Allocation |->
                   IF x \in X /\ s.allocs[x].state = "preparing"
                     THEN PreparedOn(s.workers[w], s.allocs[x])
                     ELSE s.allocs[x]]
           t == [s EXCEPT !.allocs = A]
<1>1. ApplyPrepared(s, w, X) = t
  BY DEF ApplyPrepared, PreparedOn
<1>2. \A x \in Allocation :
         A[x] = IF x \in X /\ s.allocs[x].state = "preparing"
                  THEN PreparedOn(s.workers[w], s.allocs[x]) ELSE s.allocs[x]
  OBVIOUS
<1> HIDE DEF A
<1>3. /\ t.leader = s.leader /\ t.workers = s.workers
      /\ t.commands = s.commands /\ t.allocs = A
  BY DEF Store
<1> QED BY <1>1, <1>2, <1>3

\* The answers to cancel_room change their allocations.
LEMMA ApplyCancelledShape ==
  ASSUME NEW s \in Store, NEW X
  PROVE  /\ ApplyCancelled(s, X).leader = s.leader
         /\ ApplyCancelled(s, X).workers = s.workers
         /\ ApplyCancelled(s, X).commands = s.commands
         /\ \A x \in Allocation :
              ApplyCancelled(s, X).allocs[x] =
                IF x \in X /\ s.allocs[x].state = "cancelling"
                  THEN CancelledByHost(s.allocs[x]) ELSE s.allocs[x]
<1> DEFINE A == [x \in Allocation |->
                   IF x \in X /\ s.allocs[x].state = "cancelling"
                     THEN CancelledByHost(s.allocs[x]) ELSE s.allocs[x]]
           t == [s EXCEPT !.allocs = A]
<1>1. ApplyCancelled(s, X) = t
  BY DEF ApplyCancelled, CancelledByHost
<1>2. \A x \in Allocation :
         A[x] = IF x \in X /\ s.allocs[x].state = "cancelling"
                  THEN CancelledByHost(s.allocs[x]) ELSE s.allocs[x]
  OBVIOUS
<1> HIDE DEF A
<1>3. /\ t.leader = s.leader /\ t.workers = s.workers
      /\ t.commands = s.commands /\ t.allocs = A
  BY DEF Store
<1> QED BY <1>1, <1>2, <1>3

\* Such an allocation keeps its worker.
LEMMA AnsweredFields ==
  ASSUME NEW r, NEW a \in AllocationRecord
  PROVE  /\ PreparedOn(r, a).worker = a.worker
         /\ PreparedOn(r, a).state =
              IF Eligible(r) THEN "assigned" ELSE "prepared"
         /\ CancelledByHost(a).worker = a.worker
         /\ CancelledByHost(a).state \in Terminal
<1>1. /\ [a EXCEPT !.state = "prepared"].worker = a.worker
      /\ [a EXCEPT !.state = "prepared"].state = "prepared"
  BY DEF AllocationRecord
<1>2. Reserved(a).worker = a.worker /\ Reserved(a).state = "assigned"
  BY DEF Reserved, AllocationRecord
<1>3. \A phase \in Terminal : /\ Finish(a, phase, a.reason).worker = a.worker
                              /\ Finish(a, phase, a.reason).state = phase
  BY CancelledKeeps
<1>4. (IF a.reason = "cancelled" THEN "cancelled" ELSE "expired") \in Terminal
  BY DEF Terminal
<1> QED BY <1>1, <1>2, <1>3, <1>4 DEF PreparedOn, CancelledByHost

\* The answers to prepare_room move no room.
LEMMA ApplyPreparedTame ==
  ASSUME NEW s \in Store, NEW w \in Worker, NEW X
  PROVE  Tame(s, ApplyPrepared(s, w, X))
<1> DEFINE t == ApplyPrepared(s, w, X)
<1>1. /\ t.leader = s.leader /\ t.workers = s.workers
      /\ \A x \in Allocation :
           t.allocs[x] = IF x \in X /\ s.allocs[x].state = "preparing"
                           THEN PreparedOn(s.workers[w], s.allocs[x])
                           ELSE s.allocs[x]
  BY ApplyPreparedShape
<1> HIDE DEF t
<1>2. ASSUME NEW x \in Allocation
      PROVE  Keeps(s.allocs[x], t.allocs[x])
  <2>1. s.allocs[x] \in AllocationRecord
    BY StoreParts
  <2>2. s.allocs[x].state = "preparing" => Live(s.allocs[x])
    BY DEF Live, Terminal
  <2>3. t.allocs[x].worker = s.allocs[x].worker
    BY <1>1, <2>1, AnsweredFields
  <2> QED BY <1>1, <2>2, <2>3, KeepsSame
<1>3. Tame(s, t)
  BY <1>1, <1>2, TameAllocs
<1> QED BY <1>3 DEF t

\* The answers to cancel_room end rooms.
LEMMA ApplyCancelledTame ==
  ASSUME NEW s \in Store, NEW X
  PROVE  Tame(s, ApplyCancelled(s, X))
<1> DEFINE t == ApplyCancelled(s, X)
<1>1. /\ t.leader = s.leader /\ t.workers = s.workers
      /\ \A x \in Allocation :
           t.allocs[x] = IF x \in X /\ s.allocs[x].state = "cancelling"
                           THEN CancelledByHost(s.allocs[x])
                           ELSE s.allocs[x]
  BY ApplyCancelledShape
<1> HIDE DEF t
<1>2. ASSUME NEW x \in Allocation
      PROVE  Keeps(s.allocs[x], t.allocs[x])
  <2>1. s.allocs[x] \in AllocationRecord
    BY StoreParts
  <2>2. ~Live(CancelledByHost(s.allocs[x]))
    BY <2>1, AnsweredFields DEF Live
  <2> QED BY <1>1, <2>2, KeepsSame DEF Keeps
<1>3. Tame(s, t)
  BY <1>1, <1>2, TameAllocs
<1> QED BY <1>3 DEF t

\* The command results of a heartbeat, chained; no worker's state changes.
LEMMA ApplyResultsTame ==
  ASSUME NEW s \in Store, NEW w \in Worker, NEW report,
         DOMAIN report.results \subseteq s.commands
  PROVE  /\ Tame(s, ApplyResults(s, w, report))
         /\ \A v \in Worker :
              ApplyResults(s, w, report).workers[v].state = s.workers[v].state
<1> DEFINE t == ApplyDone(s, w, report)
           X == Preparing(t, PreparedLate(t, w, report) \cup PrepareFailed(report))
           u == CancelAll(t, X, "other")
           v == ApplyPrepared(u, w, Prepared(t, w, report))
           z == ApplyCancelled(v, RoomCancelled(report))
<1>1. t \in Store /\ Tame(s, t)
      /\ \A i \in Worker : t.workers[i].state = s.workers[i].state
  BY ApplyDoneEvolves, ApplyDoneTame DEF Evolves
<1>2. X \in SUBSET Allocation /\ "other" \in Reason
  BY DEF Preparing, Reason
<1>3. ApplyResults(s, w, report) = z
  BY DEF ApplyResults
<1> HIDE DEF t, X
<1>4. u \in Store /\ Tame(t, u) /\ u.workers = t.workers
  BY <1>1, <1>2, CancelAllEvolves, CancelAllTame, CancelAllShape DEF Evolves
<1> HIDE DEF u
<1>5. v \in Store /\ Tame(u, v) /\ v.workers = u.workers
  BY <1>4, ApplyPreparedEvolves, ApplyPreparedTame, ApplyPreparedShape DEF Evolves
<1> HIDE DEF v
<1>6. Tame(v, z) /\ z.workers = v.workers
  BY <1>5, ApplyCancelledTame, ApplyCancelledShape
<1> HIDE DEF z
<1>7. Tame(s, v)
  BY <1>1, <1>4, <1>5, TameTrans
<1>8. Tame(s, z)
  BY <1>6, <1>7, TameTrans
<1> QED BY <1>1, <1>3, <1>4, <1>5, <1>6, <1>8

\* A room snapshot keeps the room's worker and revives nothing.
LEMMA SeenRoomFields ==
  ASSUME NEW a \in AllocationRecord, NEW room
  PROVE  /\ SeenRoom(a, room).worker = a.worker
         /\ SeenRoom(a, room).state \in
              {a.state} \cup IF a.state \in {"assigned", "active"}
                               THEN {"active", "completed"} ELSE {}
<1> DEFINE S == [u \in User |->
                   IF u \in a.users THEN SeenSession(a.sessions[u], u \in room.users)
                                    ELSE a.sessions[u]]
           state == IF room.state = "playing" /\ room.users = a.users
                      THEN "active" ELSE a.state
           b == [a EXCEPT !.sessions = S, !.state = state]
<1>1. CASE a.state \notin {"assigned", "active"}
  BY <1>1 DEF SeenRoom
<1>2. CASE a.state \in {"assigned", "active"} /\ room.state = "closed"
  <2>1. SeenRoom(a, room) = Finish(a, "completed", "") /\ "completed" \in Terminal
    BY <1>2 DEF SeenRoom, Terminal
  <2> DEFINE f == Finish(a, "completed", "")
  <2>2. f.worker = a.worker /\ f.state = "completed"
    BY <2>1, CancelledKeeps
  <2> HIDE DEF f
  <2>3. SeenRoom(a, room) = f
    BY <2>1 DEF f
  <2> QED BY <1>2, <2>2, <2>3
<1>3. CASE a.state \in {"assigned", "active"} /\ room.state # "closed"
  <2>1. SeenRoom(a, room) = b
    BY <1>3 DEF SeenRoom
  <2>2. state \in {"active", a.state}
    OBVIOUS
  <2> HIDE DEF S, state
  <2>3. b.worker = a.worker /\ b.state = state
    BY DEF AllocationRecord
  <2> QED BY <1>3, <2>1, <2>2, <2>3
<1> QED BY <1>1, <1>2, <1>3

\* The room snapshots change allocations and a player count.
LEMMA ApplyRoomsShape ==
  ASSUME NEW s \in Store, NEW w \in Worker, NEW report
  PROVE  /\ ApplyRooms(s, w, report).leader = s.leader
         /\ ApplyRooms(s, w, report).commands = s.commands
         /\ \A v \in Worker \ {w} :
              ApplyRooms(s, w, report).workers[v] = s.workers[v]
         /\ ApplyRooms(s, w, report).workers[w] =
              [s.workers[w] EXCEPT !.players = PlayersSeen(s, report)]
         /\ \A x \in Allocation :
              ApplyRooms(s, w, report).allocs[x] =
                IF x \in DOMAIN report.rooms
                  THEN SeenRoom(s.allocs[x], report.rooms[x]) ELSE s.allocs[x]
<1> DEFINE A == [x \in Allocation |->
                   IF x \in DOMAIN report.rooms
                     THEN SeenRoom(s.allocs[x], report.rooms[x])
                     ELSE s.allocs[x]]
           q == [s.workers[w] EXCEPT !.players = PlayersSeen(s, report)]
           t == [s EXCEPT !.allocs = A, !.workers[w] = q]
<1>1. ApplyRooms(s, w, report) = t
  BY StoreParts DEF ApplyRooms, Store
<1>2. \A x \in Allocation :
         A[x] = IF x \in DOMAIN report.rooms
                  THEN SeenRoom(s.allocs[x], report.rooms[x]) ELSE s.allocs[x]
  OBVIOUS
<1> HIDE DEF A, q
<1>3. /\ t.leader = s.leader /\ t.commands = s.commands /\ t.allocs = A
      /\ t.workers[w] = q /\ \A v \in Worker \ {w} : t.workers[v] = s.workers[v]
  BY StoreParts DEF Store
<1> HIDE DEF t
<1> QED BY <1>1, <1>2, <1>3 DEF q

\* The room snapshots end rooms and open none.
LEMMA ApplyRoomsTame ==
  ASSUME NEW s \in Store, NEW w \in Worker, NEW report
  PROVE  /\ Tame(s, ApplyRooms(s, w, report))
         /\ \A v \in Worker :
              ApplyRooms(s, w, report).workers[v].state = s.workers[v].state
<1> DEFINE t == ApplyRooms(s, w, report)
<1>1. /\ t.leader = s.leader
      /\ \A v \in Worker \ {w} : t.workers[v] = s.workers[v]
      /\ t.workers[w] = [s.workers[w] EXCEPT !.players = PlayersSeen(s, report)]
      /\ \A x \in Allocation : \/ t.allocs[x] = s.allocs[x]
                               \/ t.allocs[x] = SeenRoom(s.allocs[x], report.rooms[x])
  BY ApplyRoomsShape
<1> HIDE DEF t
<1>2. s.workers[w] \in WorkerRecord
  BY StoreParts
<1>3. /\ t.workers[w].state = s.workers[w].state
      /\ t.workers[w].draining = s.workers[w].draining
      /\ t.workers[w].boot = s.workers[w].boot
      /\ t.workers[w].providerID = s.workers[w].providerID
      /\ t.workers[w].maxRooms = s.workers[w].maxRooms
  BY <1>1, <1>2 DEF WorkerRecord
<1>4. \A v \in Worker : /\ Stays(s.workers[v], t.workers[v])
                        /\ Moves(s.workers[v], t.workers[v])
                        /\ t.workers[v].state = s.workers[v].state
  BY <1>1, <1>3, SameWorker
<1>5. ASSUME NEW x \in Allocation
      PROVE  Keeps(s.allocs[x], t.allocs[x])
  <2>1. s.allocs[x] \in AllocationRecord
    BY StoreParts
  <2>2. t.allocs[x].worker = s.allocs[x].worker
    BY <1>1, <2>1, SeenRoomFields
  <2>3. Live(t.allocs[x]) => Live(s.allocs[x])
    BY <1>1, <2>1, SeenRoomLegal DEF Legal
  <2> QED BY <2>2, <2>3, KeepsSame
<1>6. Tame(s, t)
  BY <1>1, <1>4, <1>5 DEF Tame
<1> QED BY <1>4, <1>6 DEF t

\* heartbeatHTTP, its parts chained.
LEMMA HeartbeatTame ==
  ASSUME NEW s \in Store, NEW w \in Worker, NEW report \in Reports(s, w),
         s.workers[w].boot # None,
         s.workers[w].state \notin {"stopped", "lost", "failed"}
  PROVE  /\ Tame(s, HeartbeatIn(s, w, report))
         /\ \A v \in Worker :
              Calm(s.workers[v], HeartbeatIn(s, w, report).workers[v])
<1> DEFINE t == Observe(s, w, report)
           u == ApplyResults(t, w, report)
           z == ApplyRooms(u, w, report)
<1>1. /\ t \in Store /\ Tame(s, t)
      /\ \A v \in Worker : Calm(s.workers[v], t.workers[v])
  BY ObserveEvolves, ObserveTame DEF Evolves
<1>2. t.commands = s.commands
  BY ObserveShape
<1>3. HeartbeatIn(s, w, report) = z
  BY DEF HeartbeatIn
<1> HIDE DEF t
<1>4. DOMAIN report.results \subseteq t.commands
  BY <1>2, ReportParts
<1>5. /\ u \in Store /\ Tame(t, u)
      /\ \A v \in Worker : u.workers[v].state = t.workers[v].state
  BY <1>1, <1>4, ApplyResultsEvolves, ApplyResultsTame DEF Evolves
<1> HIDE DEF u
<1>6. /\ Tame(u, z)
      /\ \A v \in Worker : z.workers[v].state = u.workers[v].state
  BY <1>5, ApplyRoomsTame
<1> HIDE DEF z
<1> QED BY <1>1, <1>3, <1>5, <1>6, TameTrans DEF Calm

-----------------------------------------------------------------------------
(* Time and the provider's answers *)

\* Time changes clocks only.
LEMMA AgedShape ==
  ASSUME NEW s \in Store
  PROVE  /\ Aged(s).leader = s.leader
         /\ \A w \in Worker : Aged(s).workers[w] = AgedWorker(s.workers[w])
         /\ \A x \in Allocation : Aged(s).allocs[x] = AgedAllocation(s.allocs[x])
         /\ Aged(s).commands =
              {[c EXCEPT !.ttl = Left(@), !.wait = Left(@)] : c \in s.commands}
<1> DEFINE V == [w \in Worker |-> AgedWorker(s.workers[w])]
           A == [x \in Allocation |-> AgedAllocation(s.allocs[x])]
           C == {[c EXCEPT !.ttl = Left(@), !.wait = Left(@)] : c \in s.commands}
           t == [s EXCEPT !.workers = V, !.allocs = A, !.commands = C,
                          !.lease = Left(s.lease),
                          !.nextCreate = Left(s.nextCreate)]
<1>1. Aged(s) = t
  BY DEF Aged, Store
<1>2. /\ \A w \in Worker : V[w] = AgedWorker(s.workers[w])
      /\ \A x \in Allocation : A[x] = AgedAllocation(s.allocs[x])
  OBVIOUS
<1> HIDE DEF V, A, C
<1>3. /\ t.leader = s.leader /\ t.workers = V /\ t.allocs = A /\ t.commands = C
  BY DEF Store
<1> QED BY <1>1, <1>2, <1>3 DEF C

\* What time leaves alone in a worker and in an allocation.
LEMMA AgedFields ==
  /\ \A r \in WorkerRecord :
       /\ AgedWorker(r).state = r.state /\ AgedWorker(r).draining = r.draining
       /\ AgedWorker(r).boot = r.boot /\ AgedWorker(r).providerID = r.providerID
       /\ AgedWorker(r).maxRooms = r.maxRooms
  /\ \A a \in AllocationRecord :
       /\ AgedAllocation(a).state = a.state /\ AgedAllocation(a).worker = a.worker
       /\ AgedAllocation(a).users = a.users
<1>1. ASSUME NEW r \in WorkerRecord
      PROVE  /\ AgedWorker(r).state = r.state
             /\ AgedWorker(r).draining = r.draining
             /\ AgedWorker(r).boot = r.boot
             /\ AgedWorker(r).providerID = r.providerID
             /\ AgedWorker(r).maxRooms = r.maxRooms
  BY DEF AgedWorker, WorkerRecord
<1>2. ASSUME NEW a \in AllocationRecord
      PROVE  /\ AgedAllocation(a).state = a.state
             /\ AgedAllocation(a).worker = a.worker
             /\ AgedAllocation(a).users = a.users
  BY DEF AgedAllocation, AllocationRecord
<1> QED BY <1>1, <1>2

\* Time ends no room.
LEMMA AgedTame ==
  ASSUME NEW s \in Store
  PROVE  /\ Tame(s, Aged(s))
         /\ \A w \in Worker : Aged(s).workers[w].state = s.workers[w].state
<1> DEFINE t == Aged(s)
<1>1. /\ t.leader = s.leader
      /\ \A w \in Worker : t.workers[w] = AgedWorker(s.workers[w])
      /\ \A x \in Allocation : t.allocs[x] = AgedAllocation(s.allocs[x])
  BY AgedShape
<1> HIDE DEF t
<1>2. ASSUME NEW w \in Worker
      PROVE  /\ Stays(s.workers[w], t.workers[w])
             /\ Moves(s.workers[w], t.workers[w])
             /\ t.workers[w].state = s.workers[w].state
  <2>1. s.workers[w] \in WorkerRecord
    BY StoreParts
  <2> QED BY <1>1, <2>1, AgedFields, SameWorker
<1>3. ASSUME NEW x \in Allocation
      PROVE  Keeps(s.allocs[x], t.allocs[x])
  <2>1. s.allocs[x] \in AllocationRecord
    BY StoreParts
  <2> QED BY <1>1, <2>1, AgedFields, KeepsSame DEF Live
<1>4. Tame(s, t)
  BY <1>1, <1>2, <1>3 DEF Tame
<1> QED BY <1>2, <1>4 DEF t

\* The reported lifetime may hand a worker that is booting to deletion.
LEMMA ProviderLifetimeShape ==
  ASSUME NEW s \in Store, NEW w \in Worker, NEW ttl \in Nat
  PROVE  LET t == ProviderLifetime(s, w, ttl)
             r == s.workers[w]
             q == t.workers[w]
         IN  /\ t.leader = s.leader /\ t.allocs = s.allocs
             /\ t.commands = s.commands
             /\ \A v \in Worker \ {w} : t.workers[v] = s.workers[v]
             /\ q.draining = r.draining /\ q.boot = r.boot
             /\ q.providerID = r.providerID /\ q.maxRooms = r.maxRooms
             /\ \/ q.state = r.state
                \/ r.state \in {"launching", "bootstrapping"} /\ q.state = "stopping"
<1> DEFINE r == s.workers[w]
           short == ttl <= MinLifetimeForAdmission + LaunchTimeout
           stop == short /\ r.state \in {"launching", "bootstrapping"}
           life == IF r.life # Never THEN r.life
                   ELSE IF ttl > r.born THEN ttl - r.born ELSE 0
           state == IF stop THEN "stopping" ELSE r.state
           check == IF stop THEN 0 ELSE r.nextCheck
           q == [r EXCEPT !.life = life, !.state = state, !.nextCheck = check]
           b == s.blocked \/ short
           t == [s EXCEPT !.blocked = b, !.workers[w] = q]
<1>1. ProviderLifetime(s, w, ttl) = IF ttl <= 0 THEN s ELSE t
  BY DEF ProviderLifetime, Store
<1>2. \/ state = r.state
      \/ r.state \in {"launching", "bootstrapping"} /\ state = "stopping"
  OBVIOUS
<1>3. r \in WorkerRecord
  BY StoreParts
<1> HIDE DEF b, state, life, check
<1>4. /\ q.draining = r.draining /\ q.boot = r.boot /\ q.state = state
      /\ q.providerID = r.providerID /\ q.maxRooms = r.maxRooms
  BY <1>3 DEF WorkerRecord
<1> HIDE DEF q
<1>5. /\ t.leader = s.leader /\ t.allocs = s.allocs /\ t.commands = s.commands
      /\ t.workers[w] = q /\ \A v \in Worker \ {w} : t.workers[v] = s.workers[v]
  BY StoreParts DEF Store
<1> HIDE DEF t
<1> QED BY <1>1, <1>2, <1>4, <1>5

\* A lifetime that is too short stops a worker that has no rooms yet.
LEMMA ProviderLifetimeTame ==
  ASSUME NEW s \in Store, NEW w \in Worker, NEW ttl \in Nat
  PROVE  /\ Tame(s, ProviderLifetime(s, w, ttl))
         /\ ProviderLifetime(s, w, ttl).workers[w].state
              \in {s.workers[w].state, "stopping"}
<1> DEFINE t == ProviderLifetime(s, w, ttl)
           r == s.workers[w]
           q == t.workers[w]
<1>1. /\ t.leader = s.leader /\ t.allocs = s.allocs
      /\ \A v \in Worker \ {w} : t.workers[v] = s.workers[v]
      /\ q.draining = r.draining /\ q.boot = r.boot
      /\ q.providerID = r.providerID /\ q.maxRooms = r.maxRooms
      /\ \/ q.state = r.state
         \/ r.state \in {"launching", "bootstrapping"} /\ q.state = "stopping"
  BY ProviderLifetimeShape
<1> HIDE DEF t
<1>2. Stays(r, q) /\ Moves(r, q)
  <2>1. CASE q.state = r.state
    BY <1>1, <2>1, SameWorker
  <2>2. CASE r.state \in {"launching", "bootstrapping"} /\ q.state = "stopping"
    BY <1>1, <2>2 DEF Stays, Moves, WorkerOK, Counted, Serving, Gone
  <2> QED BY <1>1, <2>1, <2>2
<1>3. \A v \in Worker : /\ Stays(s.workers[v], t.workers[v])
                        /\ Moves(s.workers[v], t.workers[v])
  BY <1>1, <1>2, SameWorker
<1>4. Tame(s, t)
  BY <1>1, <1>3, TameWorkers
<1> QED BY <1>1, <1>4 DEF t

\* An instance that was created, of a worker whose outcome was not known.
LEMMA CreatedWorkerTame ==
  ASSUME NEW s \in Store, NEW w \in Worker, NEW ttl \in Nat,
         s.workers[w].state \in {"starting", "unknown"}
  PROVE  Tame(s, CreatedWorker(s, w, ttl))
<1> DEFINE r == s.workers[w]
           q == [r EXCEPT !.providerID = TRUE, !.state = "launching",
                          !.nextCheck = 0]
           t == [s EXCEPT !.workers[w] = q]
<1>1. r \in WorkerRecord
  BY StoreParts
<1>2. q \in WorkerRecord /\ q.state = "launching" /\ q.draining = r.draining
      /\ q.maxRooms = r.maxRooms
  BY <1>1 DEF WorkerRecord, WorkerState
<1>3. CreatedWorker(s, w, ttl) = ProviderLifetime(t, w, ttl)
  BY StoreParts DEF CreatedWorker, Store
<1> HIDE DEF q
<1>4. Stays(r, q) /\ Moves(r, q)
  BY <1>2 DEF Stays, Moves, WorkerOK, Counted, Serving, Gone
<1>5. t \in Store /\ Tame(s, t)
  BY <1>2, <1>4, SetOneWorker, TameWorker DEF Evolves
<1> HIDE DEF t
<1> QED BY <1>3, <1>5, ProviderLifetimeTame, TameTrans

\* What poll makes of a worker that is up or lost.
LEMMA CheckedMoves ==
  ASSUME NEW r \in WorkerRecord, NEW status
  PROVE  /\ Stays(r, Unaddressed(r)) /\ Moves(r, Unaddressed(r))
         /\ Unaddressed(r).state \in {r.state, "suspect"}
         /\ Unaddressed(r).state = "suspect" => r.state \in {"ready", "suspect"}
         /\ r.state \in Up \cup {"lost"} =>
              Stays(r, Checked(r, status)) /\ Moves(r, Checked(r, status))
<1>1. /\ Stays(r, Unaddressed(r)) /\ Moves(r, Unaddressed(r))
      /\ Unaddressed(r).state \in {r.state, "suspect"}
      /\ Unaddressed(r).state = "suspect" => r.state \in {"ready", "suspect"}
  <2> DEFINE state == IF r.state = "ready" THEN "suspect" ELSE r.state
             q == [r EXCEPT !.providerReady = FALSE, !.state = state]
  <2>1. Unaddressed(r) = q
    BY DEF Unaddressed
  <2>2. state = r.state \/ (r.state = "ready" /\ state = "suspect")
    OBVIOUS
  <2> HIDE DEF state
  <2>3. /\ q.state = state /\ q.draining = r.draining /\ q.boot = r.boot
        /\ q.providerID = r.providerID /\ q.maxRooms = r.maxRooms
    BY DEF WorkerRecord
  <2> HIDE DEF q
  <2>4. CASE state = r.state
    BY <2>1, <2>3, <2>4, SameWorker
  <2>5. CASE r.state = "ready" /\ state = "suspect"
    BY <2>1, <2>3, <2>5 DEF Stays, Moves, WorkerOK, Counted, Serving, Gone
  <2> QED BY <2>2, <2>4, <2>5
<1>2. ASSUME r.state \in Up
      PROVE  Stays(r, Running(r)) /\ Moves(r, Running(r))
  <2> DEFINE state == IF r.ready /\ r.boot # None /\ Fresh(r)
                        THEN IF r.draining THEN "draining" ELSE "ready"
                      ELSE IF r.state \in {"launching", "bootstrapping"}
                        THEN "bootstrapping"
                      ELSE IF ~r.draining THEN "suspect" ELSE r.state
             q == [r EXCEPT !.providerReady = TRUE, !.state = state]
  <2>1. Running(r) = q
    BY DEF Running
  <2>2. /\ state \in Up
        /\ r.state \in Serving => state \in Serving
        /\ r.draining /\ r.state = "draining" => state = "draining"
    BY <1>2 DEF Up, Serving
  <2> HIDE DEF state
  <2>3. /\ q.state = state /\ q.draining = r.draining
        /\ q.maxRooms = r.maxRooms
    BY DEF WorkerRecord
  <2> HIDE DEF q
  <2> QED BY <1>2, <2>1, <2>2, <2>3
          DEF Stays, Moves, WorkerOK, Counted, Up, Serving, Gone
<1>3. ASSUME LaunchTimedOut(r)
      PROVE  LET q == [r EXCEPT !.state = "stopping", !.nextCheck = 0]
             IN  Stays(r, q) /\ Moves(r, q)
  <2> DEFINE q == [r EXCEPT !.state = "stopping", !.nextCheck = 0]
  <2>1. /\ q.state = "stopping" /\ q.draining = r.draining
        /\ q.maxRooms = r.maxRooms
    BY DEF WorkerRecord
  <2>2. r.state \in {"launching", "bootstrapping"}
    BY <1>3 DEF LaunchTimedOut
  <2> HIDE DEF q
  <2>3. Stays(r, q) /\ Moves(r, q)
    BY <2>1, <2>2 DEF Stays, Moves, WorkerOK, Counted, Serving, Gone
  <2> QED BY <2>3 DEF q
<1>4. ASSUME r.state \in Up \cup {"lost"}
      PROVE  Stays(r, Checked(r, status)) /\ Moves(r, Checked(r, status))
  <2>1. CASE r.state = "lost"
    BY <2>1, SameWorker DEF Checked
  <2>2. CASE r.state # "lost" /\ LaunchTimedOut(r)
    BY <1>3, <2>2 DEF Checked
  <2>3. CASE r.state # "lost" /\ ~LaunchTimedOut(r)
    BY <1>1, <1>2, <1>4, <2>3 DEF Checked
  <2> QED BY <2>1, <2>2, <2>3
<1> QED BY <1>1, <1>4

\* A worker that poll finds unhealthy loses its rooms and is deleted.
LEMMA UnhealthyTame ==
  ASSUME NEW s \in Store, NEW w \in Worker,
         s.workers[w].state \notin {"none", "stopped", "failed"}
  PROVE  Tame(s, Unhealthy(s, w))
<1> DEFINE t == Lost(s, {w})
           q == [t.workers[w] EXCEPT !.state = "stopping", !.draining = FALSE,
                                     !.nextCheck = 0]
<1>1. t \in Store /\ Tame(s, t)
  BY CloseWorkersEvolves, CloseWorkersTame DEF Lost, Evolves, WorkerState
<1>2. t.workers[w].state = "lost"
  <2>1. t.workers[w] = Closed(s.workers[w], "lost")
    BY CloseWorkersShape DEF Lost
  <2> HIDE DEF t
  <2> QED BY <2>1, StoreParts, ClosedFields
<1>3. Unhealthy(s, w) = [t EXCEPT !.workers[w] = q]
  BY <1>1, StoreParts DEF Unhealthy, Store
<1> HIDE DEF t
<1>4. t.workers[w] \in WorkerRecord
  BY <1>1, StoreParts
<1>5. /\ q.state = "stopping" /\ ~q.draining
      /\ q.maxRooms = t.workers[w].maxRooms
  BY <1>4 DEF WorkerRecord
<1> HIDE DEF q
<1>6. Stays(t.workers[w], q) /\ Moves(t.workers[w], q)
  BY <1>2, <1>5 DEF Stays, Moves, WorkerOK, Counted, Serving, Gone
<1> QED BY <1>1, <1>3, <1>6, TameWorker, TameTrans

\* The answer to a poll, of a worker that is up, lost or already being
\* deleted.
LEMMA ObservedTame ==
  ASSUME NEW s \in Store, NEW w \in Worker, NEW status,
         s.workers[w].state \in Up \cup {"lost", "stopping"}
  PROVE  Tame(s, Observed(s, w, status))
<1> DEFINE r == s.workers[w]
           t == IF status \in {"running", "badport"} THEN s
                ELSE [s EXCEPT !.workers[w] = Unaddressed(r)]
<1>1. r \in WorkerRecord
  BY StoreParts
<1>2. t \in Store /\ Tame(s, t)
  BY <1>1, CheckedType, CheckedMoves, SetOneWorker, TameWorker, TameSame DEF Evolves
<1>3. t.workers[w] \in {r, Unaddressed(r)}
  BY StoreParts DEF Store
<1>4. Observed(s, w, status) =
        IF r.state = "stopping" THEN s
        ELSE IF status = "unhealthy" THEN Unhealthy(s, w)
        ELSE IF status = "stopped" THEN Stopped(t, {w})
        ELSE [t EXCEPT !.workers[w] = Checked(t.workers[w], status)]
  BY DEF Observed
<1> HIDE DEF t
<1>5. CASE r.state = "stopping"
  BY <1>4, <1>5, TameSame
<1>6. CASE r.state # "stopping" /\ status = "unhealthy"
  BY <1>4, <1>6, UnhealthyTame DEF Up, Serving
<1>7. CASE r.state # "stopping" /\ status = "stopped"
  BY <1>2, <1>4, <1>7, CloseWorkersTame, TameTrans DEF Stopped
<1>8. CASE r.state # "stopping" /\ status \notin {"unhealthy", "stopped"}
  <2>1. t.workers[w] \in WorkerRecord
    BY <1>2, StoreParts
  <2>2. t.workers[w].state \in Up \cup {"lost"}
    BY <1>1, <1>3, <1>8, CheckedMoves DEF Up, Serving
  <2>3. Tame(t, [t EXCEPT !.workers[w] = Checked(t.workers[w], status)])
    BY <1>2, <2>1, <2>2, CheckedMoves, TameWorker
  <2> QED BY <1>2, <1>4, <1>8, <2>3, TameTrans
<1> QED BY <1>5, <1>6, <1>7, <1>8

-----------------------------------------------------------------------------
(* Clients, processes and time *)

\* While a controller leads, the worker its create or poll is about stays
\* what it was when the call began, or was given up: only the leader starts,
\* stops and forgets workers.
CallsHeld ==
  \A c \in Controller : store.leader = c =>
    /\ ctl[c].op = "create" => store.workers[ctl[c].w].state = "starting"
    /\ ctl[c].op = "poll" => store.workers[ctl[c].w].state \in Up \cup {"lost"}

\* A worker whose instance is being deleted stays given up.
DeletesGone ==
  \A c \in Controller : ctl[c].op = "delete" =>
    store.workers[ctl[c].w].state \in Gone \cup {"none"}

SafetyInv ==
  /\ TypeOK
  /\ Sound(store)
  /\ CallsHeld
  /\ DeletesGone

\* What a step may do to one worker: it moves on, or its record is new and no
\* call is about it.
Renews(w) ==
  \/ Moves(store.workers[w], store'.workers[w])
  \/ /\ w \notin {ctl[c].w : c \in Controller}
     /\ store'.workers[w].state \notin {"ready", "suspect"}

\* What a step that no controller takes may do.
QuietStep ==
  /\ ctl' = ctl /\ store'.leader = store.leader
  /\ Sound(store')
  /\ \A w \in Worker : Renews(w) /\ Calm(store.workers[w], store'.workers[w])

\* A tame and calm transaction is a quiet step.
LEMMA QuietTame ==
  ASSUME SafetyInv, store' \in Store, ctl' = ctl, Tame(store, store'),
         \A w \in Worker : Calm(store.workers[w], store'.workers[w])
  PROVE  QuietStep
<1>1. Sound(store')
  BY TameSound DEF SafetyInv, TypeOK
<1> QED BY <1>1 DEF QuietStep, Renews, Tame

\* A new request holds no room.
LEMMA NewAllocationTame ==
  ASSUME NEW s \in Store, NEW a \in Allocation, NEW key, NEW users, NEW pref
  PROVE  /\ Tame(s, NewAllocationIn(s, a, key, users, pref))
         /\ NewAllocationIn(s, a, key, users, pref).workers = s.workers
         /\ NewAllocationIn(s, a, key, users, pref).commands = s.commands
         /\ \A x \in Allocation \ {a} :
              NewAllocationIn(s, a, key, users, pref).allocs[x] = s.allocs[x]
         /\ NewAllocationIn(s, a, key, users, pref).allocs[a].state = Waiting
         /\ NewAllocationIn(s, a, key, users, pref).allocs[a].worker = None
<1> DEFINE n == [NoAllocation EXCEPT !.state = Waiting, !.key = key,
                                     !.users = users, !.pref = pref,
                                     !.ttl = AllocationTimeout]
           t == [s EXCEPT !.allocs[a] = n]
<1>1. NewAllocationIn(s, a, key, users, pref) = t
  BY DEF NewAllocationIn
<1>2. n.worker = None /\ n.state = Waiting
  BY DEF NoAllocation
<1> HIDE DEF n
<1>3. /\ t.leader = s.leader /\ t.workers = s.workers
      /\ t.commands = s.commands /\ t.allocs[a] = n
      /\ \A x \in Allocation \ {a} : t.allocs[x] = s.allocs[x]
  BY StoreParts DEF Store
<1> HIDE DEF t
<1>4. \A x \in Allocation : Keeps(s.allocs[x], t.allocs[x])
  BY <1>2, <1>3 DEF Keeps
<1> QED BY <1>1, <1>2, <1>3, <1>4, TameAllocs

\* The requests of clients.
LEMMA ClientQuiet ==
  ASSUME SafetyInv, Client
  PROVE  QuietStep
<1> USE DEF TypeOK
<1>0. store \in Store /\ store' \in Store /\ Sound(store) /\ ctl' = ctl
  BY ClientStep DEF SafetyInv, Evolves, Adds
<1>1. ASSUME Tame(store, store'), store'.workers = store.workers
      PROVE  QuietStep
  BY <1>0, <1>1, QuietTame DEF Calm
<1>2. ASSUME NEW r \in Request, Allocate(r)
      PROVE  QuietStep
  BY <1>0, <1>1, <1>2, NewAllocationTame DEF Allocate, FreshAllocation
<1>3. ASSUME NEW rooms \in CreateSizes, NEW w \in UnusedWorkers(store),
             MayCreate(rooms)
      PROVE  LET n == NewWorkerIn(store, w, rooms) IN
             /\ n \in Store /\ Sound(n) /\ n.leader = store.leader
             /\ \A v \in Worker :
                  /\ \/ Moves(store.workers[v], n.workers[v])
                     \/ /\ v \notin {ctl[c].w : c \in Controller}
                        /\ n.workers[v].state \notin {"ready", "suspect"}
                  /\ Calm(store.workers[v], n.workers[v])
  <2> DEFINE n == NewWorkerIn(store, w, rooms)
  <2>1. /\ rooms \in Nat /\ w \in FreshWorker(store) /\ w \in Worker
        /\ w \notin {ctl[c].w : c \in Controller}
        /\ store.workers[w].state = "none"
    BY InputAssumption DEF UnusedWorkers, FreshWorker
  <2>2. n \in Store /\ Sound(n)
    BY <1>0, <1>3, <2>1, NewWorkerEvolves, NewWorkerSound DEF MayCreate, Evolves
  <2>3. /\ n.leader = store.leader
        /\ \A v \in Worker \ {w} : n.workers[v] = store.workers[v]
        /\ n.workers[w].state = "requested"
    BY <1>0, <2>1, NewWorkerShape
  <2> HIDE DEF n
  <2>4. \A v \in Worker :
          /\ \/ Moves(store.workers[v], n.workers[v])
             \/ /\ v \notin {ctl[c].w : c \in Controller}
                /\ n.workers[v].state \notin {"ready", "suspect"}
          /\ Calm(store.workers[v], n.workers[v])
    BY <2>1, <2>3, SameWorker DEF Calm
  <2> QED BY <2>2, <2>3, <2>4 DEF n
<1>4. ASSUME NEW rooms \in CreateSizes, Create(rooms)
      PROVE  QuietStep
  <2>1. PICK w \in UnusedWorkers(store) : store' = NewWorkerIn(store, w, rooms)
    BY <1>4 DEF Create
  <2> QED BY <1>0, <1>3, <1>4, <2>1 DEF Create, QuietStep, Renews
<1>5. ASSUME NEW rooms \in CreateSizes, NEW r \in Request,
             CreateWithUsers(rooms, r.users)
      PROVE  QuietStep
  <2>1. PICK w \in UnusedWorkers(store), a \in FreshAllocation(store) :
          store' = NewAllocationIn(NewWorkerIn(store, w, rooms), a, w,
                                   r.users, w)
    BY <1>5 DEF CreateWithUsers
  <2> DEFINE n == NewWorkerIn(store, w, rooms)
  <2>2. /\ n \in Store /\ Sound(n) /\ n.leader = store.leader
        /\ \A v \in Worker :
             /\ \/ Moves(store.workers[v], n.workers[v])
                \/ /\ v \notin {ctl[c].w : c \in Controller}
                   /\ n.workers[v].state \notin {"ready", "suspect"}
             /\ Calm(store.workers[v], n.workers[v])
    BY <1>3, <1>5 DEF CreateWithUsers
  <2>3. store' = NewAllocationIn(n, a, w, r.users, w) /\ a \in Allocation
    BY <2>1 DEF FreshAllocation
  <2> HIDE DEF n
  <2>4. Tame(n, store') /\ store'.workers = n.workers
    BY <2>2, <2>3, NewAllocationTame
  <2>5. Sound(store')
    BY <1>0, <2>2, <2>4, TameSound
  <2> QED BY <1>0, <2>2, <2>4, <2>5 DEF QuietStep, Renews, Tame
<1>6. ASSUME NEW u \in User, NEW x \in Allocation, Cancel(u, x)
      PROVE  QuietStep
  BY <1>0, <1>1, <1>6, CancelAllTame, CancelAllShape DEF Cancel
<1>7. ASSUME NEW x \in Allocation, Join(x)
      PROVE  QuietStep
  <2> DEFINE q == Reserved(store.allocs[x])
  <2>1. /\ store' = [store EXCEPT !.allocs[x] = q]
        /\ store.allocs[x].state = "prepared"
    BY <1>7 DEF Join
  <2>2. q.worker = store.allocs[x].worker /\ Live(store.allocs[x])
    BY <1>0, <2>1, StoreParts, CancelledKeeps DEF Live, Terminal
  <2> HIDE DEF q
  <2>3. /\ store'.leader = store.leader /\ store'.workers = store.workers
        /\ store'.allocs[x] = q
        /\ \A y \in Allocation \ {x} : store'.allocs[y] = store.allocs[y]
    BY <1>0, <2>1, StoreParts DEF Store
  <2>4. \A y \in Allocation : Keeps(store.allocs[y], store'.allocs[y])
    BY <2>2, <2>3, KeepsSame
  <2> QED BY <1>1, <2>3, <2>4, TameAllocs
<1>8. ASSUME NEW w \in Worker, NEW n \in PlayerCounts, Update(w, n)
      PROVE  QuietStep
  <2> DEFINE q == [store.workers[w] EXCEPT !.players = n]
  <2>1. store' = [store EXCEPT !.workers[w] = q]
    BY <1>0, <1>8, StoreParts DEF Update, Store
  <2>2. /\ q.state = store.workers[w].state
        /\ q.draining = store.workers[w].draining
        /\ q.boot = store.workers[w].boot
        /\ q.providerID = store.workers[w].providerID
        /\ q.maxRooms = store.workers[w].maxRooms
    BY <1>0, StoreParts DEF WorkerRecord
  <2> HIDE DEF q
  <2>3. Tame(store, store')
    BY <1>0, <2>1, <2>2, SameWorker, TameWorker
  <2>4. \A v \in Worker : store'.workers[v].state = store.workers[v].state
    BY <1>0, <2>1, <2>2, StoreParts DEF Store
  <2> QED BY <1>0, <2>3, <2>4, QuietTame DEF Calm
<1>9. ASSUME NEW w \in Worker, Drain(w) \/ Delete(w)
      PROVE  QuietStep
  <2>1. store' = BeginDrain(store, {w}) /\ store.workers[w].state \in Serving
    BY <1>9 DEF Drain, Delete, Drainable, Serving
  <2>2. Tame(store, store')
    BY <1>0, <2>1, BeginDrainTame
  <2>3. ASSUME NEW v \in Worker
        PROVE  Calm(store.workers[v], store'.workers[v])
    <3>1. /\ store'.workers[v] \in {store.workers[v], Draining(store.workers[v])}
          /\ v # w => store'.workers[v] = store.workers[v]
      BY <1>0, <2>1, BeginDrainShape
    <3>2. Draining(store.workers[v]).state = "draining"
      BY <1>0, StoreParts, ClosedFields
    <3> QED BY <2>1, <3>1, <3>2 DEF Calm, Up, Serving
  <2> QED BY <1>0, <2>2, <2>3, QuietTame
<1>10. ASSUME RetryCreation \/ \E rooms \in RoomsChoice : UpdatePolicy(rooms)
       PROVE  QuietStep
  <2>1. /\ store'.leader = store.leader /\ store'.workers = store.workers
        /\ store'.allocs = store.allocs
    BY <1>0, <1>10 DEF RetryCreation, UpdatePolicy, Store
  <2> QED BY <1>1, <2>1, TameAllocs, KeepsSame
<1> QED BY <1>2, <1>4, <1>5, <1>6, <1>7, <1>8, <1>9, <1>10 DEF Client

\* The requests of game processes.
LEMMA ProcessQuiet ==
  ASSUME SafetyInv, Process
  PROVE  QuietStep
<1>0. store \in Store /\ store' \in Store /\ ctl' = ctl
  BY ProcessStep DEF SafetyInv, TypeOK, Evolves
<1>1. ASSUME NEW w \in Worker, NEW b \in Boot, Bootstrap(w, b)
      PROVE  QuietStep
  <2> DEFINE q == [store.workers[w] EXCEPT !.boot = b]
  <2>1. /\ store' = [store EXCEPT !.workers[w] = q]
        /\ store.workers[w].state # "none"
    BY <1>0, <1>1, StoreParts DEF Bootstrap, Store
  <2>2. /\ q.state = store.workers[w].state
        /\ q.draining = store.workers[w].draining
        /\ q.providerID = store.workers[w].providerID
        /\ q.maxRooms = store.workers[w].maxRooms
    BY <1>0, StoreParts DEF WorkerRecord
  <2> HIDE DEF q
  <2>3. Stays(store.workers[w], q) /\ Moves(store.workers[w], q)
    BY <2>1, <2>2 DEF Stays, Moves, WorkerOK, Counted
  <2>4. Tame(store, store')
    BY <1>0, <2>1, <2>3, TameWorker
  <2>5. \A v \in Worker : store'.workers[v].state = store.workers[v].state
    BY <1>0, <2>1, <2>2, StoreParts DEF Store
  <2> QED BY <1>0, <2>4, <2>5, QuietTame DEF Calm
<1>2. ASSUME NEW w \in Worker, Heartbeat(w)
      PROVE  QuietStep
  <2>1. PICK report \in Reports(store, w) : store' = HeartbeatIn(store, w, report)
    BY <1>2 DEF Heartbeat
  <2>2. /\ Tame(store, store')
        /\ \A v \in Worker : Calm(store.workers[v], store'.workers[v])
    BY <1>0, <1>2, <2>1, HeartbeatTame DEF Heartbeat
  <2> QED BY <1>0, <2>2, QuietTame
<1> QED BY <1>1, <1>2 DEF Process

\* Time passes.
LEMMA ElapseQuiet ==
  ASSUME SafetyInv, Elapse
  PROVE  QuietStep
<1>1. store \in Store /\ store' = Aged(store) /\ ctl' = ctl
  BY DEF SafetyInv, TypeOK, Elapse
<1>2. store' \in Store
  BY <1>1, AgedEvolves DEF Evolves
<1> QED BY <1>1, <1>2, AgedTame, QuietTame DEF Calm

-----------------------------------------------------------------------------
(* Controllers *)

\* What a controller's call says of its worker when the call begins.
CallBegins(s, p) ==
  /\ p.op = "create" => s.workers[p.w].state = "starting"
  /\ p.op = "poll" => s.workers[p.w].state \in Up \cup {"lost"}
  /\ p.op = "delete" => s.workers[p.w].state \in Gone \cup {"none"}

\* What a step of controller c may do: only the leader, or who becomes it,
\* touches a worker.
LeadStep(c) ==
  /\ Sound(store')
  /\ \A w \in Worker : Renews(w)
  /\ \/ store'.leader \in {c, None}
     \/ store'.leader = store.leader /\ store'.workers = store.workers
  /\ \A d \in Controller \ {c} : ctl'[d] = ctl[d]
  /\ CallBegins(store', ctl'[c])

\* Where a controller stands after a step.
LEMMA GotoShape ==
  ASSUME TypeOK, NEW c \in Controller, NEW op, NEW w, Goto(c, op, w)
  PROVE  /\ ctl'[c] = [op |-> op, w |-> w]
         /\ \A d \in Controller \ {c} : ctl'[d] = ctl[d]
BY DEF TypeOK, Goto

\* A step that leaves workers and rooms alone.
LEMMA LeadSame ==
  ASSUME SafetyInv, NEW c \in Controller, NEW op, NEW w, Goto(c, op, w),
         store'.workers = store.workers, store'.allocs = store.allocs,
         store'.leader \in {c, None, store.leader},
         CallBegins(store, [op |-> op, w |-> w])
  PROVE  LeadStep(c)
<1>1. Sound(store')
  BY SoundSame DEF SafetyInv
<1>2. \A v \in Worker : Renews(v)
  BY SameWorker DEF Renews
<1>3. /\ ctl'[c] = [op |-> op, w |-> w]
      /\ \A d \in Controller \ {c} : ctl'[d] = ctl[d]
  BY GotoShape DEF SafetyInv
<1>4. \A p : CallBegins(store, p) => CallBegins(store', p)
  BY DEF CallBegins
<1>5. CallBegins(store', ctl'[c])
  BY <1>3, <1>4
<1> QED BY <1>1, <1>2, <1>3, <1>5 DEF LeadStep

\* A tame transaction of the leader.
LEMMA LeadTame ==
  ASSUME SafetyInv, NEW c \in Controller, NEW op, NEW w, Goto(c, op, w),
         store' \in Store, store.leader = c, Tame(store, store'),
         CallBegins(store', [op |-> op, w |-> w])
  PROVE  LeadStep(c)
<1>1. Sound(store') /\ store'.leader = c
  BY TameSound DEF SafetyInv, TypeOK, Tame
<1>2. \A v \in Worker : Renews(v)
  BY DEF Renews, Tame
<1> QED BY <1>1, <1>2, GotoShape DEF LeadStep, SafetyInv

\* A transaction after a provider call that is tame when its controller still
\* leads.
LEMMA CommitSafe ==
  ASSUME SafetyInv, NEW c \in Controller, NEW t, store' \in Store,
         store' = IF store.leader = c THEN t ELSE store,
         Goto(c, "idle", None), store.leader = c => Tame(store, t)
  PROVE  LeadStep(c)
<1>1. \A s : CallBegins(s, [op |-> "idle", w |-> None])
  BY DEF CallBegins
<1>2. CASE store.leader = c
  BY <1>1, <1>2, LeadTame
<1>3. CASE store.leader # c
  BY <1>1, <1>3, LeadSame
<1> QED BY <1>2, <1>3

\* A worker that is due again later is what it was.
LEMMA RecheckedTame ==
  ASSUME TypeOK, NEW w \in Worker
  PROVE  /\ Rechecked(w) \in Store /\ Tame(store, Rechecked(w))
         /\ Rechecked(w).workers[w].state = store.workers[w].state
<1> USE DEF TypeOK
<1> DEFINE q == [store.workers[w] EXCEPT !.nextCheck = ProviderPollSeconds]
<1>1. Rechecked(w) \in Store
  BY RecheckedEvolves DEF Evolves
<1>2. Rechecked(w) = [store EXCEPT !.workers[w] = q]
  BY StoreParts DEF Rechecked, Store
<1>3. /\ q.state = store.workers[w].state
      /\ q.draining = store.workers[w].draining
      /\ q.boot = store.workers[w].boot
      /\ q.providerID = store.workers[w].providerID
      /\ q.maxRooms = store.workers[w].maxRooms
  BY StoreParts DEF WorkerRecord
<1> HIDE DEF q
<1>4. Stays(store.workers[w], q) /\ Moves(store.workers[w], q)
  BY <1>3, SameWorker
<1>5. Tame(store, Rechecked(w))
  BY <1>2, <1>4, TameWorker
<1>6. Rechecked(w).workers[w] = q
  BY <1>2, StoreParts DEF Store
<1> QED BY <1>1, <1>3, <1>5, <1>6

\* The answers to a create.
LEMMA CreateSafe ==
  ASSUME SafetyInv, NEW c \in Controller,
         \/ \E ttl \in TTLs : Created(c, ttl)
         \/ \E review \in BOOLEAN, state \in {"unknown", "failed"} :
               CreateFailed(c, state, review)
  PROVE  LeadStep(c)
<1> USE DEF TypeOK
<1> DEFINE w == ctl[c].w
<1>0. TypeOK /\ store \in Store /\ store' \in Store
  BY CreateStep DEF SafetyInv, Evolves
<1>1. w \in Worker
  BY <1>0, CallWorker DEF Created, CreateFailed, Commit, CallOp
<1>2. store.leader = c => store.workers[w].state = "starting"
  BY DEF SafetyInv, CallsHeld, Created, CreateFailed, Commit
<1>3. store.workers[w] \in WorkerRecord
  BY <1>0, <1>1, StoreParts
<1>4. ASSUME NEW ttl \in TTLs, Created(c, ttl)
      PROVE  LeadStep(c)
  <2> DEFINE q == [store.workers[w] EXCEPT !.updated = 0]
             t == [store EXCEPT !.workers[w] = q]
             u == CreatedWorker(t, w, ttl)
  <2>1. [store EXCEPT !.workers[w].updated = 0] = t
    BY <1>0, <1>1, StoreParts DEF Store
  <2>2. /\ store' = IF store.leader = c THEN u ELSE store
        /\ Goto(c, "idle", None)
    BY <1>4, <2>1 DEF Created, Commit
  <2>3. /\ q \in WorkerRecord /\ q.state = store.workers[w].state
        /\ q.draining = store.workers[w].draining
        /\ q.boot = store.workers[w].boot
        /\ q.providerID = store.workers[w].providerID
        /\ q.maxRooms = store.workers[w].maxRooms
    BY <1>3 DEF WorkerRecord
  <2> HIDE DEF q
  <2>4. t \in Store /\ Tame(store, t) /\ t.workers[w] = q
    <3>1. Stays(store.workers[w], q) /\ Moves(store.workers[w], q)
      BY <2>3, SameWorker
    <3>2. t.workers[w] = q
      BY <1>0, <1>1, StoreParts DEF Store
    <3> QED BY <1>0, <1>1, <2>3, <3>1, <3>2, SetOneWorker, TameWorker DEF Evolves
  <2> HIDE DEF t
  <2>5. store.leader = c => Tame(t, u)
    BY <1>1, <1>2, <2>3, <2>4, CreatedWorkerTame, ConfigAssumption
  <2> HIDE DEF u
  <2> QED BY <1>0, <2>2, <2>4, <2>5, TameTrans, CommitSafe
<1>5. ASSUME NEW review \in BOOLEAN, NEW state \in {"unknown", "failed"},
             CreateFailed(c, state, review)
      PROVE  LeadStep(c)
  <2> DEFINE q == NotCreated(store.workers[w], state)
             V == [store.workers EXCEPT ![w] = q]
             b == store.blocked \/ review
             t == [store EXCEPT !.workers = V, !.blocked = b,
                                !.nextCreate = CreateBackoff]
  <2>1. [store EXCEPT !.workers[w] = q,
                      !.blocked = @ \/ review, !.nextCreate = CreateBackoff] = t
    BY <1>0 DEF Store
  <2>2. /\ store' = IF store.leader = c THEN t ELSE store
        /\ Goto(c, "idle", None)
    BY <1>5, <2>1 DEF CreateFailed, Commit
  <2>3. /\ q.state = state /\ q.draining = store.workers[w].draining
        /\ q.boot = store.workers[w].boot
        /\ q.maxRooms = store.workers[w].maxRooms
    <3> DEFINE check == IF state = "unknown" THEN 1
                        ELSE store.workers[w].nextCheck
    <3>1. q = [store.workers[w] EXCEPT !.updated = 0, !.state = state,
                                       !.nextCheck = check]
      BY DEF NotCreated
    <3> HIDE DEF check, q
    <3> QED BY <1>3, <3>1 DEF WorkerRecord
  <2> HIDE DEF q, b
  <2>4. \A v \in Worker : V[v] = IF v = w THEN q ELSE store.workers[v]
    BY <1>0, StoreParts
  <2> HIDE DEF V
  <2>5. t.leader = store.leader /\ t.allocs = store.allocs /\ t.workers = V
    BY <1>0 DEF Store
  <2> HIDE DEF t
  <2>6. ASSUME store.leader = c
        PROVE  Tame(store, t)
    <3>1. Stays(store.workers[w], q) /\ Moves(store.workers[w], q)
      BY <1>2, <2>3, <2>6 DEF Stays, Moves, WorkerOK, Counted, Serving, Gone
    <3>2. \A v \in Worker : /\ Stays(store.workers[v], t.workers[v])
                            /\ Moves(store.workers[v], t.workers[v])
      BY <2>4, <2>5, <3>1, SameWorker
    <3> QED BY <2>5, <3>2, TameWorkers
  <2> QED BY <1>0, <2>2, <2>6, CommitSafe
<1> QED BY <1>4, <1>5

\* The steps of reconcileUnknown.
LEMMA AdoptSafe ==
  ASSUME SafetyInv, NEW c \in Controller,
         \/ Recreate(c)
         \/ \E ttl \in TTLs : Adopted(c, ttl)
         \/ \E review \in BOOLEAN : NotAdopted(c, review)
  PROVE  LeadStep(c)
<1> DEFINE w == ctl[c].w
<1>0. TypeOK /\ store \in Store /\ store' \in Store
  BY AdoptStep DEF SafetyInv, Evolves, TypeOK
<1>1. w \in Worker
  BY <1>0, CallWorker DEF Recreate, Adopted, NotAdopted, Commit, CallOp
<1>2. CASE Recreate(c)
  <2>1. /\ store'.workers = store.workers /\ store'.allocs = store.allocs
        /\ store'.leader = c
    BY <1>0, <1>2 DEF Recreate, Leads, Store
  <2>2. Goto(c, "recreate", w) /\ CallBegins(store, [op |-> "recreate", w |-> w])
    BY <1>2 DEF Recreate, CallBegins
  <2> QED BY <2>1, <2>2, LeadSame
<1>3. ASSUME NEW ttl \in TTLs, Adopted(c, ttl)
      PROVE  LeadStep(c)
  <2> DEFINE t == StillUnknown(w, CreatedWorker(store, w, ttl))
  <2>1. /\ store' = IF store.leader = c THEN t ELSE store
        /\ Goto(c, "idle", None)
    BY <1>3 DEF Adopted, Commit
  <2>2. Tame(store, t)
    BY <1>0, <1>1, CreatedWorkerTame, TameSame, ConfigAssumption
       DEF StillUnknown
  <2> HIDE DEF t
  <2> QED BY <1>0, <2>1, <2>2, CommitSafe
<1>4. ASSUME NEW review \in BOOLEAN, NotAdopted(c, review)
      PROVE  LeadStep(c)
  <2> DEFINE s == Rechecked(w)
             b == store.blocked \/ review
             q == [s EXCEPT !.blocked = b]
             t == StillUnknown(w, q)
  <2>1. [store EXCEPT !.workers[w].nextCheck = ProviderPollSeconds,
                      !.blocked = @ \/ review] = q
    BY <1>0, <1>1, StoreParts DEF Rechecked, Store
  <2>2. /\ store' = IF store.leader = c THEN t ELSE store
        /\ Goto(c, "idle", None)
    BY <1>4, <2>1 DEF NotAdopted, Commit
  <2>3. s \in Store /\ Tame(store, s)
    BY <1>0, <1>1, RecheckedTame
  <2> HIDE DEF s, b
  <2>4. q.leader = s.leader /\ q.workers = s.workers /\ q.allocs = s.allocs
    BY <2>3 DEF Store
  <2> HIDE DEF q
  <2>5. Tame(s, q)
    BY <2>4, TameAllocs, KeepsSame
  <2>6. Tame(store, t)
    BY <2>3, <2>5, TameTrans, TameSame DEF StillUnknown
  <2> HIDE DEF t
  <2> QED BY <1>0, <2>2, <2>6, CommitSafe
<1> QED BY <1>2, <1>3, <1>4

\* The answers to a poll.
LEMMA PollSafe ==
  ASSUME SafetyInv, NEW c \in Controller,
         \/ PollGone(c) \/ PollMismatch(c) \/ PollFailed(c)
         \/ \E status \in Statuses, ttl \in TTLs : Polled(c, status, ttl)
  PROVE  LeadStep(c)
<1> DEFINE w == ctl[c].w
           r == Rechecked(w)
<1>0. TypeOK /\ store \in Store /\ store' \in Store
  BY PollStep DEF SafetyInv, Evolves, TypeOK
<1>1. w \in Worker
  BY <1>0, CallWorker
     DEF PollGone, PollMismatch, PollFailed, Polled, Commit, CallOp
<1>2. store.leader = c => store.workers[w].state \in Up \cup {"lost"}
  BY DEF SafetyInv, CallsHeld, PollGone, PollMismatch, PollFailed, Polled, Commit
<1>3. /\ r \in Store /\ Tame(store, r)
      /\ r.workers[w].state = store.workers[w].state
  BY <1>0, <1>1, RecheckedTame
<1>4. CASE PollGone(c) \/ PollMismatch(c) \/ PollFailed(c)
  <2>1. PICK t \in {Stopped(r, {w}), Lost(r, {w}), r} :
          /\ store' = IF store.leader = c THEN t ELSE store
          /\ Goto(c, "idle", None)
    BY <1>4 DEF PollGone, PollMismatch, PollFailed, Commit
  <2> HIDE DEF r
  <2>2. ASSUME store.leader = c
        PROVE  Tame(r, t)
    <3>1. r.workers[w].state \notin {"none", "stopped", "failed"}
      BY <1>2, <1>3, <2>2 DEF Up, Serving
    <3>2. Tame(r, Stopped(r, {w})) /\ Tame(r, Lost(r, {w})) /\ Tame(r, r)
      BY <1>1, <1>3, <3>1, CloseWorkersTame, TameSame DEF Stopped, Lost
    <3> QED BY <2>1, <3>2
  <2> QED BY <1>0, <1>3, <2>1, <2>2, TameTrans, CommitSafe
<1>5. ASSUME NEW status \in Statuses, NEW ttl \in TTLs, Polled(c, status, ttl)
      PROVE  LeadStep(c)
  <2> DEFINE t == ProviderLifetime(r, w, ttl)
             u == Observed(t, w, status)
  <2>1. /\ store' = IF store.leader = c THEN u ELSE store
        /\ Goto(c, "idle", None)
    BY <1>5 DEF Polled, Commit
  <2> HIDE DEF r
  <2>2. /\ t \in Store /\ Tame(r, t)
        /\ t.workers[w].state \in {r.workers[w].state, "stopping"}
    BY <1>1, <1>3, ProviderLifetimeEvolves, ProviderLifetimeTame,
       ConfigAssumption DEF Evolves
  <2> HIDE DEF t
  <2>3. store.leader = c => Tame(t, u)
    BY <1>1, <1>2, <1>3, <2>2, ObservedTame
  <2> HIDE DEF u
  <2>4. store.leader = c => Tame(store, u)
    BY <1>3, <2>2, <2>3, TameTrans
  <2> QED BY <1>0, <2>1, <2>4, CommitSafe
<1> QED BY <1>4, <1>5

\* The steps of stop after the delete was sent.
LEMMA DeleteSafe ==
  ASSUME SafetyInv, NEW c \in Controller,
         DeleteFailed(c) \/ Deleted(c) \/ Confirmed(c) \/ Unconfirmed(c)
  PROVE  LeadStep(c)
<1> DEFINE w == ctl[c].w
           r == Rechecked(w)
<1>0. TypeOK /\ store \in Store /\ store' \in Store
  BY DeleteStep DEF SafetyInv, Evolves, TypeOK
<1>1. w \in Worker
  BY <1>0, CallWorker
     DEF DeleteFailed, Deleted, Confirmed, Unconfirmed, Commit, CallOp
<1>2. CASE Deleted(c)
  <2>1. /\ store' = store /\ Goto(c, "confirm", w)
        /\ CallBegins(store, [op |-> "confirm", w |-> w])
    BY <1>2 DEF Deleted, CallBegins
  <2> QED BY <2>1, LeadSame
<1>3. CASE DeleteFailed(c) \/ Confirmed(c) \/ Unconfirmed(c)
  <2>1. PICK t \in {Stopped(r, {w}), r} :
          /\ store' = IF store.leader = c THEN t ELSE store
          /\ Goto(c, "idle", None)
    BY <1>3 DEF DeleteFailed, Confirmed, Unconfirmed, Commit
  <2>2. r \in Store /\ Tame(store, r)
    BY <1>0, <1>1, RecheckedTame
  <2> HIDE DEF r
  <2>3. Tame(r, Stopped(r, {w})) /\ Tame(r, r)
    BY <1>1, <2>2, CloseWorkersTame, TameSame DEF Stopped
  <2>4. Tame(store, t)
    BY <2>1, <2>2, <2>3, TameTrans
  <2> QED BY <1>0, <2>1, <2>4, CommitSafe
<1> QED BY <1>2, <1>3

\* The first transaction of a tick, chained: what it does to workers it has
\* not just created is what its tame passes do.
LEMMA TickSafe ==
  ASSUME SafetyInv, NEW c \in Controller, Tick(c)
  PROVE  LeadStep(c)
<1> DEFINE r == Leads(store, c)
           s == Maintained(r)
<1>1. PICK P \in Placements(s) :
        \E t \in ScaleUps(Place(s, P), UnusedWorkers(Place(s, P))) :
          store' \in ScaleDowns(t)
  BY DEF Tick
<1> DEFINE q == Place(s, P)
<1>2. PICK t \in ScaleUps(q, UnusedWorkers(q)) : store' \in ScaleDowns(t)
  BY <1>1
<1>3. /\ r \in Store /\ r.leader = c
      /\ r.workers = store.workers /\ r.allocs = store.allocs
  BY LeadsEvolves DEF SafetyInv, TypeOK, Evolves, Leads, Store
<1> HIDE DEF r
<1>4. Sound(r)
  BY <1>3, SoundSame DEF SafetyInv
<1>5. s \in Store /\ Tame(r, s)
  BY <1>3, MaintainedEvolves, MaintainedTame DEF Evolves
<1> HIDE DEF s
<1>6. Sound(s) /\ s.leader = c
  BY <1>3, <1>4, <1>5, TameSound DEF Tame
<1>7. /\ q \in Store /\ Sound(q) /\ q.leader = c
      /\ \A v \in Worker : Moves(s.workers[v], q.workers[v])
  <2>1. q \in Store /\ Sound(q) /\ q.leader = c
    BY <1>5, <1>6, PlaceEvolves, PlaceSound, PlaceShape DEF Evolves
  <2>2. ASSUME NEW v \in Worker
        PROVE  Moves(s.workers[v], q.workers[v])
    BY <1>5, PlaceWorkers, SameWorker
  <2> QED BY <2>1, <2>2
<1> HIDE DEF q
<1>8. UnusedWorkers(q) \in SUBSET FreshWorker(q)
  BY DEF UnusedWorkers
<1>9. /\ Sound(t) /\ t.leader = c
      /\ \A v \in Worker :
           \/ t.workers[v] = q.workers[v]
           \/ v \in UnusedWorkers(q) /\ t.workers[v].state = "requested"
  BY <1>7, <1>8, ScaleUpsSound
<1>10. t \in Store
  BY <1>2, <1>7, <1>8, ScaleUpsEvolve DEF Evolves, FreshWorker
<1>11. /\ Tame(t, store')
       /\ \A v \in Worker :
            store'.workers[v].state \in {t.workers[v].state, "draining",
                                         "stopping"}
  BY <1>2, <1>10, ScaleDownsTame
<1>12. store' \in Store
  BY <1>2, <1>10, ScaleDownsEvolve DEF Evolves
<1>13. Sound(store') /\ store'.leader = c
  BY <1>9, <1>10, <1>11, <1>12, TameSound DEF Tame
<1>14. ASSUME NEW v \in Worker
       PROVE  Renews(v)
  <2>1. Moves(store.workers[v], q.workers[v])
    BY <1>3, <1>5, <1>7, MovesTrans DEF Tame
  <2>2. CASE t.workers[v] = q.workers[v]
    BY <1>11, <2>1, <2>2, MovesTrans DEF Tame, Renews
  <2>3. CASE v \in UnusedWorkers(q) /\ t.workers[v].state = "requested"
    BY <1>11, <2>3 DEF UnusedWorkers, Renews
  <2> QED BY <1>9, <2>2, <2>3
<1>15. /\ ctl'[c] = [op |-> "pick", w |-> None]
       /\ \A d \in Controller \ {c} : ctl'[d] = ctl[d]
  BY GotoShape DEF Tick, SafetyInv
<1> QED BY <1>13, <1>14, <1>15 DEF LeadStep, CallBegins

\* Every step of a controller.
LEMMA ControlSafe ==
  ASSUME SafetyInv, NEW c \in Controller, Control(c)
  PROVE  LeadStep(c)
<1>0. TypeOK /\ store \in Store /\ store' \in Store
  BY ControlStep DEF SafetyInv, Evolves, TypeOK
<1>1. CASE Tick(c)
  BY <1>1, TickSafe
<1>2. CASE Pick(c)
  <2>1. PICK w \in Worker : Goto(c, DueOp(store.workers[w]), w)
    BY <1>2 DEF Pick
  <2>2. /\ store'.workers = store.workers /\ store'.allocs = store.allocs
        /\ store'.leader = c
    BY <1>0, <1>2 DEF Pick, Leads, Store
  <2>3. CallBegins(store, [op |-> DueOp(store.workers[w]), w |-> w])
    BY DEF CallBegins, DueOp, Up, Serving
  <2> QED BY <2>1, <2>2, <2>3, LeadSame
<1>3. CASE PickNothing(c) \/ Refused(c) \/ Abort(c)
  <2>1. /\ store' = store /\ Goto(c, "idle", None)
        /\ CallBegins(store, [op |-> "idle", w |-> None])
    BY <1>3 DEF PickNothing, Refused, Abort, CallBegins
  <2> QED BY <2>1, LeadSame
<1>4. CASE Start(c)
  <2> DEFINE w == ctl[c].w
             q == [store.workers[w] EXCEPT !.state = "starting", !.updated = 0]
  <2>1. w \in Worker
    BY <1>0, <1>4, CallWorker DEF Start, CallOp
  <2>2. /\ store' = [store EXCEPT !.workers[w] = q]
        /\ store.leader = c /\ store.workers[w].state = "requested"
        /\ Goto(c, "create", w)
    <3>1. store' = [store EXCEPT !.workers[w] = q]
      BY <1>0, <1>4, <2>1, StoreParts DEF Start, Store
    <3> QED BY <1>4, <3>1 DEF Start, MayStart, HoldsLease
  <2>3. /\ q.state = "starting" /\ q.draining = store.workers[w].draining
        /\ q.maxRooms = store.workers[w].maxRooms
    BY <1>0, <2>1, StoreParts DEF WorkerRecord
  <2> HIDE DEF q
  <2>4. Stays(store.workers[w], q) /\ Moves(store.workers[w], q)
    BY <2>2, <2>3 DEF Stays, Moves, WorkerOK, Counted, Serving, Gone
  <2>5. Tame(store, store')
    BY <1>0, <2>1, <2>2, <2>4, TameWorker
  <2>6. store'.workers[w] = q
    BY <1>0, <2>1, <2>2, StoreParts DEF Store
  <2>7. CallBegins(store', [op |-> "create", w |-> w])
    BY <2>3, <2>6 DEF CallBegins
  <2> QED BY <1>0, <2>2, <2>5, <2>7, LeadTame
<1>5. CASE Stop(c)
  <2> DEFINE w == ctl[c].w
  <2>1. /\ store' = store /\ Goto(c, "delete", w)
        /\ CallBegins(store, [op |-> "delete", w |-> w])
    BY <1>5 DEF Stop, MayStop, CallBegins, Gone
  <2> QED BY <2>1, LeadSame
<1>6. CASE Provider(c)
  BY <1>6, CreateSafe, AdoptSafe, PollSafe, DeleteSafe DEF Provider
<1>7. CASE Shutdown(c)
  <2>1. /\ store'.workers = store.workers /\ store'.allocs = store.allocs
        /\ store'.leader = None /\ ctl' = ctl /\ ctl[c].op = "idle"
    BY <1>0, <1>7 DEF Shutdown, Store
  <2>2. Sound(store')
    BY <2>1, SoundSame DEF SafetyInv
  <2>3. \A v \in Worker : Renews(v)
    BY <2>1, SameWorker DEF Renews
  <2> QED BY <2>1, <2>2, <2>3 DEF LeadStep, CallBegins
<1>8. CASE Crash(c)
  <2>1. /\ store'.workers = store.workers /\ store'.allocs = store.allocs
        /\ store'.leader \in {None, store.leader} /\ Goto(c, "idle", None)
        /\ CallBegins(store, [op |-> "idle", w |-> None])
    BY <1>0, <1>8 DEF Crash, Store, CallBegins
  <2> QED BY <2>1, LeadSame
<1> QED BY <1>1, <1>2, <1>3, <1>4, <1>5, <1>6, <1>7, <1>8
        DEF Control, Advance

-----------------------------------------------------------------------------
(* The inductive invariant *)

\* An empty fleet is safe.
LEMMA InitSafe ==
  ASSUME Init
  PROVE  SafetyInv
<1>1. TypeOK
  BY InitType
<1>2. /\ \A w \in Worker : store.workers[w] = NoWorker
      /\ \A x \in Allocation : store.allocs[x] = NoAllocation
      /\ \A c \in Controller : ctl[c] = Idle
  BY DEF Init, NewStore
<1>3. \A x \in Allocation : ~Live(store.allocs[x])
  <2>1. NoAllocation.state = "none"
    BY DEF NoAllocation
  <2> QED BY <1>2, <2>1 DEF Live
<1>4. Fitting(store)
  <2> SUFFICES ASSUME NEW w \in Worker
               PROVE  Occupied(store, w) <= store.workers[w].maxRooms
    BY DEF Fitting
  <2>1. LiveOn(store, w) = {}
    BY <1>3 DEF LiveOn
  <2>2. Occupied(store, w) = 0 /\ store.workers[w].maxRooms = 0
    BY <1>2, <2>1, FS_EmptySet DEF Occupied, NoWorker
  <2> QED BY <2>2
<1>5. Limited(store)
  <2>1. LiveWorkers(store) = {}
    BY <1>2 DEF LiveWorkers, NoWorker
  <2> QED BY <2>1, FS_EmptySet, ConfigAssumption DEF Limited
<1>6. \A w \in Worker : WorkerOK(store.workers[w])
  BY <1>2 DEF WorkerOK, NoWorker
<1>7. CallsHeld /\ DeletesGone
  BY <1>2 DEF CallsHeld, DeletesGone, Idle
<1> QED BY <1>1, <1>3, <1>4, <1>5, <1>6, <1>7 DEF SafetyInv, Sound, Placed

\* A worker whose instance is being deleted does not come back in a step that
\* renews it.
LEMMA RenewedGone ==
  ASSUME SafetyInv, NEW c \in Controller, ctl[c].op = "delete",
         \A w \in Worker : Renews(w)
  PROVE  store'.workers[ctl[c].w].state \in Gone \cup {"none"}
<1> DEFINE w == ctl[c].w
<1>1. w \in Worker
  BY CallWorker DEF SafetyInv, CallOp
<1>2. store.workers[w].state \in Gone \cup {"none"} /\ WorkerOK(store.workers[w])
  BY <1>1 DEF SafetyInv, DeletesGone, Sound
<1>3. w \in {ctl[d].w : d \in Controller}
  OBVIOUS
<1> QED BY <1>1, <1>2, <1>3 DEF Renews, Moves

\* Every step keeps the fleet safe and renews its workers.
LEMMA SafeStep ==
  ASSUME SafetyInv, [Next]_vars
  PROVE  SafetyInv' /\ \A w \in Worker : Renews(w)
<1>1. TypeOK'
  BY NextStep DEF SafetyInv, TypeOK, Evolves, Adds
<1>2. ASSUME QuietStep
      PROVE  SafetyInv' /\ \A w \in Worker : Renews(w)
  <2>1. CallsHeld'
    <3> SUFFICES ASSUME NEW c \in Controller, store'.leader = c
                 PROVE  /\ ctl[c].op = "create" =>
                             store'.workers[ctl[c].w].state = "starting"
                        /\ ctl[c].op = "poll" =>
                             store'.workers[ctl[c].w].state \in Up \cup {"lost"}
      BY <1>2 DEF QuietStep, CallsHeld
    <3>1. ctl[c].op \in {"create", "poll"} => ctl[c].w \in Worker
      BY CallWorker DEF SafetyInv, CallOp
    <3>2. /\ ctl[c].op = "create" => store.workers[ctl[c].w].state = "starting"
          /\ ctl[c].op = "poll" =>
               store.workers[ctl[c].w].state \in Up \cup {"lost"}
      BY <1>2 DEF SafetyInv, CallsHeld, QuietStep
    <3>3. \A w \in Worker : Calm(store.workers[w], store'.workers[w])
      BY <1>2 DEF QuietStep
    <3> QED BY <3>1, <3>2, <3>3 DEF Calm, Up, Serving
  <2>2. DeletesGone'
    BY <1>2, RenewedGone DEF QuietStep, DeletesGone
  <2> QED BY <1>1, <1>2, <2>1, <2>2 DEF SafetyInv, QuietStep
<1>3. ASSUME NEW c \in Controller, LeadStep(c)
      PROVE  SafetyInv' /\ \A w \in Worker : Renews(w)
  <2>1. CallsHeld'
    <3> SUFFICES ASSUME NEW d \in Controller, store'.leader = d
                 PROVE  /\ ctl'[d].op = "create" =>
                             store'.workers[ctl'[d].w].state = "starting"
                        /\ ctl'[d].op = "poll" =>
                             store'.workers[ctl'[d].w].state \in Up \cup {"lost"}
      BY DEF CallsHeld
    <3>1. CASE d = c
      BY <1>3, <3>1 DEF LeadStep, CallBegins
    <3>2. CASE d # c
      <4>1. /\ store.leader = d /\ store'.workers = store.workers
            /\ ctl'[d] = ctl[d]
        BY <1>3, <3>2, IdAssumption DEF LeadStep
      <4> QED BY <4>1 DEF SafetyInv, CallsHeld
    <3> QED BY <3>1, <3>2
  <2>2. DeletesGone'
    <3> SUFFICES ASSUME NEW d \in Controller, ctl'[d].op = "delete"
                 PROVE  store'.workers[ctl'[d].w].state \in Gone \cup {"none"}
      BY DEF DeletesGone
    <3>1. CASE d = c
      BY <1>3, <3>1 DEF LeadStep, CallBegins
    <3>2. CASE d # c
      BY <1>3, <3>2, RenewedGone DEF LeadStep
    <3> QED BY <3>1, <3>2
  <2> QED BY <1>1, <1>3, <2>1, <2>2 DEF SafetyInv, LeadStep
<1>4. CASE Client \/ Process \/ Elapse
  BY <1>2, <1>4, ClientQuiet, ProcessQuiet, ElapseQuiet
<1>5. CASE \E c \in Controller : Control(c)
  BY <1>3, <1>5, ControlSafe
<1>6. CASE UNCHANGED vars
  <2>1. QuietStep
    BY <1>6, SameWorker DEF vars, QuietStep, SafetyInv, Renews, Calm
  <2> QED BY <1>2, <2>1
<1> QED BY <1>4, <1>5, <1>6 DEF Next

\* The inductive invariant holds in every reachable state.
LEMMA FleetSafe == Spec => []SafetyInv
<1>1. Init => SafetyInv
  BY InitSafe
<1>2. SafetyInv /\ [Next]_vars => SafetyInv'
  BY SafeStep
<1> QED BY <1>1, <1>2, PTL DEF Spec

-----------------------------------------------------------------------------
(* Theorems *)

\* Whatever the order of ticks, heartbeats, provider answers, crashes and lost
\* leases, a room that is not over is on a worker that is ready, suspect or
\* draining: lost(), stopped() and the deletion of a worker end its rooms in
\* the same transaction or wait for them (lifecycle.go:36-50, 175-194).
THEOREM RoomsAreServed == Spec => []PlacedOnServingWorker
<1>1. SafetyInv => PlacedOnServingWorker
  BY DEF SafetyInv, Sound, Placed, PlacedOnServingWorker, Serving
<1> QED BY <1>1, FleetSafe, PTL

\* stop() checks the worker in a transaction and deletes its instance outside
\* of one, and the lease may be lost and taken by another process in between:
\* no room is ever placed on the worker again, whoever leads.
THEOREM DeletionIsSafe == Spec => []NoRoomWhileDeleting
<1>1. ASSUME SafetyInv
      PROVE  NoRoomWhileDeleting
  <2> SUFFICES ASSUME NEW c \in Controller, ctl[c].op = "delete",
                      NEW x \in LiveOn(store, ctl[c].w)
               PROVE  FALSE
    BY DEF NoRoomWhileDeleting
  <2>1. ctl[c].w \in Worker
    BY <1>1, CallWorker DEF SafetyInv, CallOp
  <2>2. store.workers[ctl[c].w].state \in Serving
    BY <1>1, <2>1, IdAssumption DEF SafetyInv, Sound, Placed, LiveOn
  <2> QED BY <1>1, <2>2 DEF SafetyInv, DeletesGone, Serving, Gone
<1> QED BY <1>1, FleetSafe, PTL

\* One tick places any number of requests, counting those it has just placed
\* and the rooms being cancelled, so that no worker ever holds more rooms than
\* the MaxRooms it was created with (lifecycle.go:129-152).
THEOREM Capacity == Spec => []CapacityRespected
<1>1. SafetyInv => CapacityRespected
  BY DEF SafetyInv, Sound, Fitting, CapacityRespected
<1> QED BY <1>1, FleetSafe, PTL

\* Workers whose creation or deletion is unresolved, failed ones with an
\* instance and lost ones count against MaxInstances until their instance is
\* known to be gone (manager.go, liveWorkers; lifecycle.go:153-174).
THEOREM Instances == Spec => []InstanceLimit
<1>1. ASSUME SafetyInv
      PROVE  InstanceLimit
  <2> DEFINE W == {w \in Worker : store.workers[w].state \notin
                     {"none", "requested", "stopped", "failed"}}
  <2>1. W \subseteq LiveWorkers(store)
    BY DEF LiveWorkers
  <2>2. IsFiniteSet(LiveWorkers(store))
    BY IdAssumption, FS_Subset DEF LiveWorkers
  <2>3. IsFiniteSet(W) /\ Cardinality(W) <= Cardinality(LiveWorkers(store))
    BY <2>1, <2>2, FS_Subset
  <2>4. Cardinality(W) \in Nat /\ Cardinality(LiveWorkers(store)) \in Nat
    BY <2>2, <2>3, FS_CardinalityType
  <2>5. Cardinality(LiveWorkers(store)) <= MaxInstances
    BY <1>1 DEF SafetyInv, Sound, Limited
  <2>6. Cardinality(W) <= MaxInstances
    BY <2>3, <2>4, <2>5, ConfigAssumption
  <2> QED BY <2>6 DEF InstanceLimit
<1> QED BY <1>1, FleetSafe, PTL

\* No heartbeat, poll answer, late create answer or tick makes a worker ready
\* or suspect again that began to drain, was lost, stopped or failed, or is
\* being deleted.
THEOREM NoRevival == Spec => NoReturnToService
<1> DEFINE Stay == \A w \in Worker :
                     /\ \/ store.workers[w].draining
                        \/ store.workers[w].state \in {"stopping", "lost",
                                                       "stopped", "failed"}
                     => store'.workers[w].state \notin {"ready", "suspect"}
<1>1. SafetyInv /\ [Next]_vars => [Stay]_vars
  <2> SUFFICES ASSUME SafetyInv, [Next]_vars, NEW w \in Worker
               PROVE  /\ \/ store.workers[w].draining
                         \/ store.workers[w].state \in {"stopping", "lost",
                                                        "stopped", "failed"}
                      => store'.workers[w].state \notin {"ready", "suspect"}
    OBVIOUS
  <2>1. Renews(w) /\ WorkerOK(store.workers[w])
    BY SafeStep DEF SafetyInv, Sound
  <2> QED BY <2>1 DEF Renews, Moves, WorkerOK, Gone
<1> QED BY <1>1, FleetSafe, PTL DEF Spec, NoReturnToService

=============================================================================
