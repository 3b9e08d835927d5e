------------------------- MODULE FleetManagerProofs -------------------------
(***************************************************************************)
(* What FleetManager guarantees for every number of workers, allocations,  *)
(* players and controllers and for every configuration.                    *)
(*                                                                         *)
(* Each pass of a transaction is shown to map a store to a store and to    *)
(* let every allocation evolve legally (Evolves, below); both facts        *)
(* compose, so the passes are treated one by one and the transactions by   *)
(* chaining them.                                                          *)
(***************************************************************************)
EXTENDS FleetManager, FiniteSetTheorems, TLAPS

\* How one transaction may change an allocation that it does not create: a
\* live one keeps its players, one that is over keeps its outcome or is
\* pruned, and nothing is revived.
Legal(a, b) ==
  /\ Live(b) => Live(a) /\ b.users = a.users
  /\ a.state \in Terminal => b.state \in {a.state, "none"}
  /\ a.state = "none" => b.state = "none"

Evolves(s, t) ==
  /\ t \in Store
  /\ \A x \in Allocation : Legal(s.allocs[x], t.allocs[x])

-----------------------------------------------------------------------------
(* Composition *)

\* An allocation that keeps its state and players changes legally.
LEMMA LegalSame ==
  ASSUME NEW a, NEW b, b.state = a.state, b.users = a.users
  PROVE  Legal(a, b)
BY DEF Legal, Live, Terminal

\* Two legal changes make one.
LEMMA LegalTrans ==
  ASSUME NEW a, NEW b, NEW c, Legal(a, b), Legal(b, c)
  PROVE  Legal(a, c)
BY DEF Legal, Live, Terminal

\* The passes of a transaction compose.
LEMMA EvolvesTrans ==
  ASSUME NEW s, NEW t, NEW u, Evolves(s, t), Evolves(t, u)
  PROVE  Evolves(s, u)
BY LegalTrans DEF Evolves

\* A change that leaves the allocations alone.
LEMMA EvolvesSame ==
  ASSUME NEW s, NEW t \in Store, t.allocs = s.allocs
  PROVE  Evolves(s, t)
BY LegalSame DEF Evolves

-----------------------------------------------------------------------------
(* Components of a store *)

\* The types of a store's components.
LEMMA StoreParts ==
  ASSUME NEW s \in Store
  PROVE  /\ s.workers \in [Worker -> WorkerRecord]
         /\ s.allocs \in [Allocation -> AllocationRecord]
         /\ s.commands \in SUBSET Command
         /\ s.leader \in Controller \cup {None}
         /\ s.lease \in Nat /\ s.nextCreate \in Nat
         /\ s.blocked \in BOOLEAN /\ s.rooms \in RoomsChoice
BY DEF Store

\* New worker records, the rest of the store as it was.
LEMMA SetWorkers ==
  ASSUME NEW s \in Store, NEW W \in [Worker -> WorkerRecord]
  PROVE  /\ [s EXCEPT !.workers = W] \in Store
         /\ [s EXCEPT !.workers = W].allocs = s.allocs
BY DEF Store

\* New allocation records that evolve legally from the old ones.
LEMMA SetAllocs ==
  ASSUME NEW s \in Store, NEW A \in [Allocation -> AllocationRecord],
         \A x \in Allocation : Legal(s.allocs[x], A[x])
  PROVE  Evolves(s, [s EXCEPT !.allocs = A])
BY DEF Store, Evolves

\* New commands, the rest of the store as it was.
LEMMA SetCommands ==
  ASSUME NEW s \in Store, NEW C \in SUBSET Command
  PROVE  Evolves(s, [s EXCEPT !.commands = C])
<1>1. [s EXCEPT !.commands = C] \in Store
  BY DEF Store
<1>2. [s EXCEPT !.commands = C].allocs = s.allocs
  BY DEF Store
<1> QED BY <1>1, <1>2, EvolvesSame

\* New allocations and commands together.
LEMMA SetAllocsCommands ==
  ASSUME NEW s \in Store, NEW A \in [Allocation -> AllocationRecord],
         NEW C \in SUBSET Command,
         \A x \in Allocation : Legal(s.allocs[x], A[x])
  PROVE  Evolves(s, [s EXCEPT !.allocs = A, !.commands = C])
BY DEF Store, Evolves

\* New workers and commands together.
LEMMA SetWorkersCommands ==
  ASSUME NEW s \in Store, NEW W \in [Worker -> WorkerRecord],
         NEW C \in SUBSET Command
  PROVE  Evolves(s, [s EXCEPT !.workers = W, !.commands = C])
<1>1. [s EXCEPT !.workers = W, !.commands = C] \in Store
  BY DEF Store
<1>2. [s EXCEPT !.workers = W, !.commands = C].allocs = s.allocs
  BY DEF Store
<1> QED BY <1>1, <1>2, EvolvesSame

\* One worker's record is replaced.
LEMMA SetOneWorker ==
  ASSUME NEW s \in Store, NEW w \in Worker, NEW r \in WorkerRecord
  PROVE  Evolves(s, [s EXCEPT !.workers[w] = r])
<1> DEFINE W == [s.workers EXCEPT ![w] = r]
<1>1. W \in [Worker -> WorkerRecord]
  BY StoreParts
<1>2. [s EXCEPT !.workers[w] = r] = [s EXCEPT !.workers = W]
  BY DEF Store
<1> QED BY <1>1, <1>2, SetWorkers, EvolvesSame

\* One allocation's record is replaced by a legal successor.
LEMMA SetOneAllocation ==
  ASSUME NEW s \in Store, NEW x \in Allocation, NEW a \in AllocationRecord,
         Legal(s.allocs[x], a)
  PROVE  Evolves(s, [s EXCEPT !.allocs[x] = a])
<1> DEFINE A == [s.allocs EXCEPT ![x] = a]
<1>1. A \in [Allocation -> AllocationRecord]
  BY StoreParts
<1>2. \A y \in Allocation : Legal(s.allocs[y], A[y])
  BY StoreParts, LegalSame
<1>3. [s EXCEPT !.allocs[x] = a] = [s EXCEPT !.allocs = A]
  BY DEF Store
<1> HIDE DEF A
<1> QED BY <1>1, <1>2, <1>3, SetAllocs

-----------------------------------------------------------------------------
(* Records *)

\* The records of unused identifiers have their types.
LEMMA EmptyRecords ==
  /\ NoWorker \in WorkerRecord
  /\ NoAllocation \in AllocationRecord
  /\ NoSession \in Session
<1>1. NoSession \in Session
  BY DEF NoSession, Session, Never
<1>2. NoWorker \in WorkerRecord
  BY DEF NoWorker, WorkerRecord, WorkerState, Never
<1>3. NoAllocation \in AllocationRecord
  BY <1>1 DEF NoAllocation, AllocationRecord, AllocationState, Reason, Waiting, Terminal
<1> QED BY <1>1, <1>2, <1>3

\* The updates of a worker that several transactions make.
LEMMA ClosedWorker ==
  ASSUME NEW r \in WorkerRecord, NEW state \in WorkerState
  PROVE  [r EXCEPT !.state = state, !.ready = FALSE, !.providerReady = FALSE,
                   !.updated = 0] \in WorkerRecord
BY DEF WorkerRecord

\* A worker that begins to drain is a worker record.
LEMMA DrainingWorker ==
  ASSUME NEW r \in WorkerRecord
  PROVE  [r EXCEPT !.draining = TRUE, !.state = "draining", !.updated = 0]
           \in WorkerRecord
BY DEF WorkerRecord, WorkerState

\* A worker that is handed to deletion is a worker record.
LEMMA StoppingWorker ==
  ASSUME NEW r \in WorkerRecord
  PROVE  [r EXCEPT !.state = "stopping", !.nextCheck = 0] \in WorkerRecord
BY DEF WorkerRecord, WorkerState

\* finish: a live allocation may end.
LEMMA FinishLegal ==
  ASSUME NEW a \in AllocationRecord, NEW phase \in Terminal,
         NEW reason \in Reason, Live(a)
  PROVE  /\ Finish(a, phase, reason) \in AllocationRecord
         /\ Legal(a, Finish(a, phase, reason))
<1>1. Finish(a, phase, reason) \in AllocationRecord
  BY DEF Finish, AllocationRecord, AllocationState, Terminal
<1>2. /\ Finish(a, phase, reason).state = phase
      /\ Finish(a, phase, reason).users = a.users
  BY DEF Finish, AllocationRecord
<1> HIDE DEF Finish
<1> QED BY <1>1, <1>2 DEF Legal, Live, Terminal

\* cancel: an allocation ends or waits for its host.
LEMMA CancelledLegal ==
  ASSUME NEW a \in AllocationRecord, NEW reason \in Reason, Cancellable(a)
  PROVE  /\ Cancelled(a, reason) \in AllocationRecord
         /\ Legal(a, Cancelled(a, reason))
<1>1. Live(a)
  BY DEF Cancellable
<1>2. CASE a.worker = None
  BY <1>1, <1>2, FinishLegal DEF Cancelled, Terminal
<1>3. CASE a.worker # None
  <2> DEFINE b == [a EXCEPT !.state = "cancelling", !.reason = reason]
  <2>1. b \in AllocationRecord
    BY DEF AllocationRecord, AllocationState
  <2>2. b.state = "cancelling" /\ b.users = a.users
    BY DEF AllocationRecord
  <2>3. Cancelled(a, reason) = b
    BY <1>3 DEF Cancelled
  <2> HIDE DEF b
  <2> QED BY <1>1, <2>1, <2>2, <2>3 DEF Legal, Live, Terminal
<1> QED BY <1>2, <1>3

\* reserve: seats for the players of a prepared room.
LEMMA ReservedLegal ==
  ASSUME NEW a \in AllocationRecord, Live(a)
  PROVE  /\ Reserved(a) \in AllocationRecord
         /\ Legal(a, Reserved(a))
<1>1. Reserved(a) \in AllocationRecord
  BY EmptyRecords, ConfigAssumption DEF Reserved, AllocationRecord, AllocationState
<1>2. Reserved(a).state = "assigned" /\ Reserved(a).users = a.users
  BY DEF Reserved, AllocationRecord
<1> HIDE DEF Reserved
<1> QED BY <1>1, <1>2 DEF Legal, Live, Terminal

\* The commands of the manager have their type.
LEMMA CommandTypes ==
  /\ \A x \in Allocation, w \in Worker : /\ PrepareCommand(x, w) \in Command
                                         /\ CancelCommand(x, w) \in Command
  /\ \A w \in Worker : DrainCommand(w) \in Command
  /\ \A c \in Command : RetryOf(c) \in Command
<1>1. \A x \in Allocation, w \in Worker : /\ PrepareCommand(x, w) \in Command
                                          /\ CancelCommand(x, w) \in Command
  BY ConfigAssumption DEF PrepareCommand, CancelCommand, Command
<1>2. \A w \in Worker : DrainCommand(w) \in Command
  BY ConfigAssumption DEF DrainCommand, Command
<1>3. ASSUME NEW c \in Command PROVE RetryOf(c) \in Command
  <2> DEFINE n == IF c.tries < MaxTries THEN c.tries + 1 ELSE MaxTries
  <2>1. n \in 1..MaxTries
    BY ConfigAssumption DEF Command
  <2>2. RetryDelay[n] \in Nat
    BY <2>1, ConfigAssumption
  <2>3. RetryOf(c) = [c EXCEPT !.tries = n, !.wait = RetryDelay[n]]
    BY DEF RetryOf
  <2> HIDE DEF n
  <2>4. n \in 0..MaxTries
    BY <2>1, ConfigAssumption
  <2> QED BY <2>2, <2>3, <2>4 DEF Command
<1> QED BY <1>1, <1>2, <1>3

-----------------------------------------------------------------------------
(* Changes shared by the transactions *)

\* cancel, for a set of allocations.
LEMMA CancelAllEvolves ==
  ASSUME NEW s \in Store, NEW X \in SUBSET Allocation, NEW reason \in Reason
  PROVE  Evolves(s, CancelAll(s, X, reason))
<1> DEFINE Y == {x \in X : Cancellable(s.allocs[x])}
           A == [x \in Allocation |->
                   IF x \in Y THEN Cancelled(s.allocs[x], reason)
                              ELSE s.allocs[x]]
           C == {c \in s.commands : ~(c.type = "prepare_room" /\ c.alloc \in Y)}
                  \cup {CancelCommand(x, s.allocs[x].worker) :
                          x \in {y \in Y : s.allocs[y].worker # None}}
<1>1. \A x \in Allocation : A[x] \in AllocationRecord /\ Legal(s.allocs[x], A[x])
  <2> TAKE x \in Allocation
  <2>1. s.allocs[x] \in AllocationRecord
    BY StoreParts
  <2>2. CASE x \in Y
    BY <2>1, <2>2, CancelledLegal
  <2>3. CASE x \notin Y
    BY <2>1, <2>3, LegalSame
  <2> QED BY <2>2, <2>3
<1>2. C \in SUBSET Command
  <2>1. \A x \in Allocation : s.allocs[x].worker # None =>
           CancelCommand(x, s.allocs[x].worker) \in Command
    BY StoreParts, CommandTypes DEF AllocationRecord
  <2> QED BY <2>1, StoreParts
<1>3. CancelAll(s, X, reason) = [s EXCEPT !.allocs = A, !.commands = C]
  BY DEF CancelAll
<1>4. A \in [Allocation -> AllocationRecord]
  BY <1>1
<1> HIDE DEF Y, A, C
<1>5. Evolves(s, [s EXCEPT !.allocs = A, !.commands = C])
  BY <1>1, <1>2, <1>4, SetAllocsCommands
<1> QED BY <1>3, <1>5

\* lost and stopped end the rooms of a worker.
LEMMA EndRoomsEvolves ==
  ASSUME NEW s \in Store, NEW W \in SUBSET Worker
  PROVE  Evolves(s, EndRooms(s, W))
<1> DEFINE A == [x \in Allocation |->
                   IF Live(s.allocs[x]) /\ s.allocs[x].worker \in W
                     THEN Finish(s.allocs[x], "failed", "other")
                     ELSE s.allocs[x]]
           C == {c \in s.commands : c.worker \notin W}
<1>1. \A x \in Allocation : A[x] \in AllocationRecord /\ Legal(s.allocs[x], A[x])
  <2> TAKE x \in Allocation
  <2>1. s.allocs[x] \in AllocationRecord
    BY StoreParts
  <2>2. "failed" \in Terminal /\ "other" \in Reason
    BY DEF Terminal, Reason
  <2>3. CASE Live(s.allocs[x]) /\ s.allocs[x].worker \in W
    BY <2>1, <2>2, <2>3, FinishLegal
  <2>4. CASE ~(Live(s.allocs[x]) /\ s.allocs[x].worker \in W)
    BY <2>1, <2>4, LegalSame
  <2> QED BY <2>3, <2>4
<1>2. C \in SUBSET Command
  BY StoreParts
<1>3. EndRooms(s, W) = [s EXCEPT !.allocs = A, !.commands = C]
  BY DEF EndRooms
<1> HIDE DEF C
<1>4. A \in [Allocation -> AllocationRecord]
  BY <1>1
<1>5. \A x \in Allocation : Legal(s.allocs[x], A[x])
  BY <1>1
<1> HIDE DEF A
<1>6. Evolves(s, [s EXCEPT !.allocs = A, !.commands = C])
  BY <1>2, <1>4, <1>5, SetAllocsCommands
<1> QED BY <1>3, <1>6

\* lost and stopped, for a set of workers.
LEMMA CloseWorkersEvolves ==
  ASSUME NEW s \in Store, NEW W \in SUBSET Worker, NEW state \in WorkerState
  PROVE  Evolves(s, CloseWorkers(s, W, state))
<1> DEFINE t == EndRooms(s, W)
           V == [w \in Worker |->
                   IF w \in W
                     THEN [t.workers[w] EXCEPT !.state = state, !.ready = FALSE,
                                               !.providerReady = FALSE,
                                               !.updated = 0]
                     ELSE t.workers[w]]
<1>1. Evolves(s, t)
  BY EndRoomsEvolves
<1>2. t \in Store
  BY <1>1 DEF Evolves
<1>3. CloseWorkers(s, W, state) = [t EXCEPT !.workers = V]
  BY DEF CloseWorkers
<1> HIDE DEF t
<1>4. V \in [Worker -> WorkerRecord]
  <2> SUFFICES ASSUME NEW w \in Worker
               PROVE  V[w] \in WorkerRecord
    OBVIOUS
  <2>1. t.workers[w] \in WorkerRecord
    BY <1>2, StoreParts
  <2> QED BY <2>1, ClosedWorker
<1> HIDE DEF V
<1>5. Evolves(t, [t EXCEPT !.workers = V])
  BY <1>2, <1>4, SetWorkers, EvolvesSame
<1> QED BY <1>1, <1>3, <1>5, EvolvesTrans

\* beginDrain cancels what was not started.
LEMMA BeginDrainEvolves ==
  ASSUME NEW s \in Store, NEW W \in SUBSET Worker
  PROVE  Evolves(s, BeginDrain(s, W))
<1> DEFINE D == {w \in W : ~s.workers[w].draining}
           V == [w \in Worker |->
                   IF w \in D
                     THEN [s.workers[w] EXCEPT !.draining = TRUE,
                                               !.state = "draining",
                                               !.updated = 0]
                     ELSE s.workers[w]]
           C == s.commands \cup {DrainCommand(w) : w \in D}
<1>1. V \in [Worker -> WorkerRecord]
  <2> SUFFICES ASSUME NEW w \in Worker
               PROVE  V[w] \in WorkerRecord
    OBVIOUS
  <2>1. s.workers[w] \in WorkerRecord
    BY StoreParts
  <2> QED BY <2>1, DrainingWorker
<1>2. C \in SUBSET Command
  BY StoreParts, CommandTypes
<1>3. BeginDrain(s, W) = [s EXCEPT !.workers = V, !.commands = C]
  BY DEF BeginDrain
<1> HIDE DEF V, C
<1>4. Evolves(s, [s EXCEPT !.workers = V, !.commands = C])
  BY <1>1, <1>2, SetWorkersCommands
<1> QED BY <1>3, <1>4
-----------------------------------------------------------------------------
(* The passes of a tick *)

\* The pass of the tick over the workers' clocks.
LEMMA CheckWorkersEvolves ==
  ASSUME NEW s \in Store
  PROVE  Evolves(s, CheckWorkers(s))
<1> DEFINE ending == {w \in Worker :
                        /\ s.workers[w].state = "ready"
                        /\ s.workers[w].life # Never
                        /\ s.workers[w].life <= MinLifetimeForAdmission}
           t == BeginDrain(s, ending)
           V == [w \in Worker |-> CheckedWorker(t.workers[w])]
           u == [t EXCEPT !.workers = V]
           silent == {w \in Worker : Silent(u.workers[w])}
<1>1. Evolves(s, t)
  BY BeginDrainEvolves
<1>2. CheckWorkers(s) = CloseWorkers(u, silent, "lost")
  BY DEF CheckWorkers, Lost
<1> HIDE DEF t
<1>3. t \in Store
  BY <1>1 DEF Evolves
<1>4. \A r \in WorkerRecord : CheckedWorker(r) \in WorkerRecord
  <2> TAKE r \in WorkerRecord
  <2>1. /\ [r EXCEPT !.state = "unknown"] \in WorkerRecord
        /\ [r EXCEPT !.state = "suspect"] \in WorkerRecord
    BY DEF WorkerRecord, WorkerState
  <2> QED BY <2>1 DEF CheckedWorker
<1>5. V \in [Worker -> WorkerRecord]
  BY <1>3, <1>4, StoreParts
<1> HIDE DEF V
<1>6. Evolves(t, u) /\ u \in Store
  BY <1>3, <1>5, SetWorkers, EvolvesSame
<1> HIDE DEF u
<1>7. Evolves(u, CloseWorkers(u, silent, "lost"))
  BY <1>6, CloseWorkersEvolves DEF WorkerState
<1> QED BY <1>1, <1>2, <1>6, <1>7, EvolvesTrans

\* The pass of the tick over the allocations' deadlines.
LEMMA ExpireAllocationsEvolves ==
  ASSUME NEW s \in Store
  PROVE  Evolves(s, ExpireAllocations(s))
<1> DEFINE X == {x \in Allocation :
                   LET a == s.allocs[x] IN
                   /\ Cancellable(a)
                   /\ \/ HopelessPreference(s, a)
                      \/ ReconnectExpired(a)
                      \/ Overdue(a)}
<1>1. ExpireAllocations(s) = CancelAll(s, X, "other")
  BY DEF ExpireAllocations
<1>2. X \in SUBSET Allocation /\ "other" \in Reason
  BY DEF Reason
<1> HIDE DEF X
<1> QED BY <1>1, <1>2, CancelAllEvolves

\* Old outcomes are pruned.
LEMMA PruneAllocationsEvolves ==
  ASSUME NEW s \in Store
  PROVE  Evolves(s, PruneAllocations(s))
<1> DEFINE A == [x \in Allocation |->
                   IF s.allocs[x].state \in Terminal /\ s.allocs[x].ended > History
                     THEN NoAllocation ELSE s.allocs[x]]
<1>1. \A x \in Allocation : A[x] \in AllocationRecord /\ Legal(s.allocs[x], A[x])
  <2> TAKE x \in Allocation
  <2>1. s.allocs[x] \in AllocationRecord
    BY StoreParts
  <2>2. NoAllocation.state = "none"
    BY DEF NoAllocation
  <2>3. s.allocs[x].state \in Terminal => Legal(s.allocs[x], NoAllocation)
    BY <2>2 DEF Legal, Live, Terminal
  <2>4. Legal(s.allocs[x], s.allocs[x])
    BY LegalSame
  <2> QED BY <2>1, <2>3, <2>4, EmptyRecords
<1>2. PruneAllocations(s) = [s EXCEPT !.allocs = A]
  BY DEF PruneAllocations
<1>3. A \in [Allocation -> AllocationRecord]
  BY <1>1
<1> HIDE DEF A
<1> QED BY <1>1, <1>2, <1>3, SetAllocs

\* Old worker records are pruned.
LEMMA PruneWorkersEvolves ==
  ASSUME NEW s \in Store
  PROVE  Evolves(s, PruneWorkers(s))
<1> DEFINE W == PrunableWorkers(s)
           V == [w \in Worker |-> IF w \in W THEN NoWorker ELSE s.workers[w]]
           C == {c \in s.commands : c.worker \notin W}
<1>1. V \in [Worker -> WorkerRecord]
  BY StoreParts, EmptyRecords
<1>2. C \in SUBSET Command
  BY StoreParts
<1>3. PruneWorkers(s) = [s EXCEPT !.workers = V, !.commands = C]
  BY DEF PruneWorkers
<1> HIDE DEF W, V, C
<1>4. Evolves(s, [s EXCEPT !.workers = V, !.commands = C])
  BY <1>1, <1>2, SetWorkersCommands
<1> QED BY <1>3, <1>4

\* Prepared rooms whose worker is eligible get their seats.
LEMMA ReservePreparedEvolves ==
  ASSUME NEW s \in Store
  PROVE  Evolves(s, ReservePrepared(s))
<1> DEFINE Seat(a) == /\ a.state = "prepared" /\ a.worker # None
                      /\ Eligible(s.workers[a.worker])
           A == [x \in Allocation |->
                   IF Seat(s.allocs[x]) THEN Reserved(s.allocs[x])
                                        ELSE s.allocs[x]]
<1>1. \A x \in Allocation : A[x] \in AllocationRecord /\ Legal(s.allocs[x], A[x])
  <2> TAKE x \in Allocation
  <2>1. s.allocs[x] \in AllocationRecord
    BY StoreParts
  <2>2. Seat(s.allocs[x]) => Live(s.allocs[x])
    BY DEF Live, Terminal
  <2> HIDE DEF Seat
  <2>3. Legal(s.allocs[x], s.allocs[x])
    BY LegalSame
  <2> QED BY <2>1, <2>2, <2>3, ReservedLegal
<1>2. ReservePrepared(s) = [s EXCEPT !.allocs = A]
  BY DEF ReservePrepared
<1>3. A \in [Allocation -> AllocationRecord]
  BY <1>1
<1> HIDE DEF A
<1> QED BY <1>1, <1>2, <1>3, SetAllocs

\* The first passes of the tick, chained.
LEMMA MaintainedEvolves ==
  ASSUME NEW s \in Store
  PROVE  Evolves(s, Maintained(s))
<1> DEFINE a == CheckWorkers(s)
           b == ExpireAllocations(a)
           c == PruneAllocations(b)
           d == PruneWorkers(c)
           e == ReservePrepared(d)
<1>1. Evolves(s, a)
  BY CheckWorkersEvolves
<1>2. Evolves(a, b)
  BY <1>1, ExpireAllocationsEvolves DEF Evolves
<1>3. Evolves(b, c)
  BY <1>2, PruneAllocationsEvolves DEF Evolves
<1>4. Evolves(c, d)
  BY <1>3, PruneWorkersEvolves DEF Evolves
<1>5. Evolves(d, e)
  BY <1>4, ReservePreparedEvolves DEF Evolves
<1>6. Maintained(s) = e
  BY DEF Maintained
<1> HIDE DEF a, b, c, d, e
<1>7. Evolves(s, c)
  BY <1>1, <1>2, <1>3, EvolvesTrans
<1>8. Evolves(s, d)
  BY <1>4, <1>7, EvolvesTrans
<1> QED BY <1>5, <1>6, <1>8, EvolvesTrans

\* Waiting requests are placed on workers.
LEMMA PlaceEvolves ==
  ASSUME NEW s \in Store, NEW P \in Placements(s)
  PROVE  Evolves(s, Place(s, P))
<1> DEFINE placed == {x \in WaitingRequests(s) : P[x] # None}
           A == [x \in Allocation |->
                   IF x \in placed
                     THEN [s.allocs[x] EXCEPT !.worker = P[x],
                                              !.state = "preparing",
                                              !.ttl = PrepareTimeout]
                     ELSE s.allocs[x]]
           V == [w \in Worker |->
                   IF \E x \in placed : P[x] = w
                     THEN [s.workers[w] EXCEPT !.idle = Never]
                     ELSE s.workers[w]]
           C == s.commands \cup {PrepareCommand(x, P[x]) : x \in placed}
<1>1. \A x \in placed : x \in Allocation /\ s.allocs[x].state = Waiting /\ P[x] \in Worker
  BY DEF Placements, WaitingRequests
<1>2. \A x \in Allocation : A[x] \in AllocationRecord /\ Legal(s.allocs[x], A[x])
  <2> TAKE x \in Allocation
  <2>1. s.allocs[x] \in AllocationRecord
    BY StoreParts
  <2>2. CASE x \in placed
    <3> DEFINE b == [s.allocs[x] EXCEPT !.worker = P[x], !.state = "preparing",
                                        !.ttl = PrepareTimeout]
    <3>1. b \in AllocationRecord
      BY <1>1, <2>1, <2>2, ConfigAssumption DEF AllocationRecord, AllocationState
    <3>2. b.state = "preparing" /\ b.users = s.allocs[x].users
      BY <2>1 DEF AllocationRecord
    <3>3. A[x] = b
      BY <2>2
    <3>4. Live(s.allocs[x])
      BY <1>1, <2>2 DEF Live, Waiting, Terminal
    <3> HIDE DEF b, A
    <3> QED BY <3>1, <3>2, <3>3, <3>4 DEF Legal, Live, Terminal
  <2>3. CASE x \notin placed
    BY <2>1, <2>3, LegalSame
  <2> QED BY <2>2, <2>3
<1>3. V \in [Worker -> WorkerRecord]
  <2>1. \A r \in WorkerRecord : [r EXCEPT !.idle = Never] \in WorkerRecord
    BY DEF WorkerRecord
  <2> QED BY <2>1, StoreParts
<1>4. C \in SUBSET Command
  BY <1>1, StoreParts, CommandTypes
<1>5. Place(s, P) = [s EXCEPT !.allocs = A, !.workers = V, !.commands = C]
  BY DEF Place
<1>6. A \in [Allocation -> AllocationRecord]
  BY <1>2
<1> HIDE DEF placed, A, V, C
<1>7. /\ [s EXCEPT !.allocs = A, !.workers = V, !.commands = C] \in Store
      /\ [s EXCEPT !.allocs = A, !.workers = V, !.commands = C].allocs = A
  BY <1>3, <1>4, <1>6 DEF Store
<1> QED BY <1>2, <1>5, <1>7 DEF Evolves

\* A new worker is requested.
LEMMA NewWorkerEvolves ==
  ASSUME NEW s \in Store, NEW w \in Worker, NEW rooms \in Nat
  PROVE  Evolves(s, NewWorkerIn(s, w, rooms))
<1> DEFINE r == [NoWorker EXCEPT !.state = "requested", !.maxRooms = rooms]
<1>1. r \in WorkerRecord
  BY EmptyRecords DEF WorkerRecord, WorkerState
<1>2. NewWorkerIn(s, w, rooms) = [s EXCEPT !.workers[w] = r]
  BY DEF NewWorkerIn
<1> HIDE DEF r
<1> QED BY <1>1, <1>2, SetOneWorker

\* The tick requests workers for waiting requests.
LEMMA ScaleUpsEvolve ==
  ASSUME NEW s \in Store, NEW ids \in SUBSET Worker, NEW t \in ScaleUps(s, ids)
  PROVE  Evolves(s, t)
<1>1. CASE t = s
  BY <1>1, EvolvesSame
<1>2. ASSUME NEW w \in ids,
             t = [NewWorkerIn(s, w, s.rooms) EXCEPT !.nextCreate = CreateSpacing]
      PROVE  Evolves(s, t)
  <2> DEFINE n == NewWorkerIn(s, w, s.rooms)
  <2>1. Evolves(s, n)
    BY StoreParts, ConfigAssumption, NewWorkerEvolves
  <2>2. n \in Store
    BY <2>1 DEF Evolves
  <2> HIDE DEF n
  <2>3. /\ [n EXCEPT !.nextCreate = CreateSpacing] \in Store
        /\ [n EXCEPT !.nextCreate = CreateSpacing].allocs = n.allocs
    BY <2>2, ConfigAssumption DEF Store
  <2>4. Evolves(n, t)
    BY <1>2, <2>3, EvolvesSame DEF n
  <2> QED BY <2>1, <2>4, EvolvesTrans
<1> QED BY <1>1, <1>2 DEF ScaleUps

\* The tick drains idle workers.
LEMMA ScaleDownsEvolve ==
  ASSUME NEW s \in Store, NEW u \in ScaleDowns(s)
  PROVE  Evolves(s, u)
<1> DEFINE V == [w \in Worker |-> IdleClock(s, w)]
           t == [s EXCEPT !.workers = V]
<1>1. PICK D \in DrainChoices(t) : u = StopDrained(BeginDrain(t, D))
  BY DEF ScaleDowns
<1>2. V \in [Worker -> WorkerRecord]
  <2>1. ASSUME NEW r \in WorkerRecord, NEW i \in {Never, 0, r.idle}
        PROVE  [r EXCEPT !.idle = i] \in WorkerRecord
    BY DEF WorkerRecord
  <2> QED BY <2>1, StoreParts DEF IdleClock
<1>3. D \in SUBSET Worker
  BY <1>1 DEF DrainChoices, SurplusWorkers, ReadyWorkers
<1> HIDE DEF V
<1>4. Evolves(s, t) /\ t \in Store
  BY <1>2, SetWorkers, EvolvesSame
<1> HIDE DEF t
<1> DEFINE v == BeginDrain(t, D)
           U == [w \in Worker |->
                   IF v.workers[w].state = "draining" /\ DrainedEmpty(v, w)
                     THEN [v.workers[w] EXCEPT !.state = "stopping",
                                               !.nextCheck = 0]
                     ELSE v.workers[w]]
<1>5. Evolves(t, v)
  BY <1>3, <1>4, BeginDrainEvolves
<1>6. u = [v EXCEPT !.workers = U]
  BY <1>1 DEF StopDrained
<1> HIDE DEF v
<1>7. v \in Store
  BY <1>5 DEF Evolves
<1>8. U \in [Worker -> WorkerRecord]
  <2> SUFFICES ASSUME NEW w \in Worker
               PROVE  U[w] \in WorkerRecord
    OBVIOUS
  <2>1. v.workers[w] \in WorkerRecord
    BY <1>7, StoreParts
  <2> QED BY <2>1, StoppingWorker
<1> HIDE DEF U
<1>9. Evolves(v, u)
  BY <1>6, <1>7, <1>8, SetWorkers, EvolvesSame
<1> QED BY <1>4, <1>5, <1>9, EvolvesTrans
-----------------------------------------------------------------------------
(* The passes of a heartbeat *)

\* The parts of a heartbeat have their types.
LEMMA ReportParts ==
  ASSUME NEW s \in Store, NEW w \in Worker, NEW report \in Reports(s, w)
  PROVE  /\ report.ready \in BOOLEAN /\ report.pending \in BOOLEAN
         /\ report.overloaded \in BOOLEAN
         /\ DOMAIN report.rooms \subseteq Allocation
         /\ \A x \in DOMAIN report.rooms : report.rooms[x].state \in RoomState
         /\ DOMAIN report.results \subseteq s.commands
<1>1. PICK m \in Readings,
           rooms \in UNION {[X -> RoomReports] :
              X \in SUBSET {x \in Allocation : s.allocs[x].worker = w}},
           results \in UNION {[C -> {"success", "failure"}] :
                                C \in SUBSET DueCommands(s, w)} :
        report = [ready |-> m.ready, pending |-> m.pending,
                  overloaded |-> m.overloaded, rooms |-> rooms,
                  results |-> results]
  BY DEF Reports
<1>2. /\ report.ready = m.ready /\ report.pending = m.pending
      /\ report.overloaded = m.overloaded
      /\ report.rooms = rooms /\ report.results = results
  BY <1>1
<1>3. m.ready \in BOOLEAN /\ m.pending \in BOOLEAN /\ m.overloaded \in BOOLEAN
  BY InputAssumption
<1>4. PICK X \in SUBSET Allocation : rooms \in [X -> RoomReports]
  BY <1>1
<1>5. PICK C \in SUBSET DueCommands(s, w) : results \in [C -> {"success", "failure"}]
  BY <1>1
<1>6. C \subseteq s.commands
  BY <1>5 DEF DueCommands
<1>7. \A x \in X : rooms[x].state \in RoomState
  BY <1>4, InputAssumption DEF RoomReport
<1> QED BY <1>2, <1>3, <1>4, <1>5, <1>6, <1>7

\* A heartbeat is recorded in its worker.
LEMMA ObserveEvolves ==
  ASSUME NEW s \in Store, NEW w \in Worker, NEW report \in Reports(s, w)
  PROVE  Evolves(s, Observe(s, w, report))
<1> DEFINE r == s.workers[w]
           serving == /\ r.providerReady /\ report.ready
                      /\ r.state \notin {"stopping", "unknown", "requested",
                                         "starting"}
           state == IF ~serving THEN r.state
                    ELSE IF r.draining THEN "draining" ELSE "ready"
           q == [r EXCEPT !.heartbeat = 0, !.ready = report.ready,
                          !.pending = report.pending,
                          !.overloaded = report.overloaded, !.state = state]
<1>1. r \in WorkerRecord
  BY StoreParts
<1>2. state \in WorkerState
  BY <1>1 DEF WorkerRecord, WorkerState
<1>3. Observe(s, w, report) = [s EXCEPT !.workers[w] = q]
  BY DEF Observe
<1> HIDE DEF r, state
<1>4. q \in WorkerRecord
  BY <1>1, <1>2, ReportParts DEF WorkerRecord
<1> HIDE DEF q
<1> QED BY <1>3, <1>4, SetOneWorker

\* Acknowledged commands are removed.
LEMMA ApplyDoneEvolves ==
  ASSUME NEW s \in Store, NEW w \in Worker, NEW report,
         DOMAIN report.results \subseteq s.commands
  PROVE  Evolves(s, ApplyDone(s, w, report))
<1> DEFINE again == Answered(report, "cancel_room", "failure")
                      \cup Answered(report, "drain", "failure")
           C == (s.commands \ DOMAIN report.results)
                  \cup {RetryOf(c) : c \in again}
           ack == s.workers[w].drainAck \/ Answered(report, "drain", "success") # {}
           V == [s.workers EXCEPT ![w].drainAck = ack]
<1>1. again \subseteq Command
  BY StoreParts DEF Answered
<1>2. C \in SUBSET Command
  BY <1>1, StoreParts, CommandTypes
<1>3. V \in [Worker -> WorkerRecord]
  <2>1. s.workers[w] \in WorkerRecord
    BY StoreParts
  <2>2. ack \in BOOLEAN
    OBVIOUS
  <2> HIDE DEF ack
  <2>3. \A r \in WorkerRecord : [r EXCEPT !.drainAck = ack] \in WorkerRecord
    BY <2>2 DEF WorkerRecord
  <2> QED BY <2>1, <2>3, StoreParts
<1>4. ApplyDone(s, w, report) = [s EXCEPT !.commands = C, !.workers = V]
  BY DEF ApplyDone, Store
<1> HIDE DEF again, C, V
<1>5. /\ [s EXCEPT !.commands = C, !.workers = V] \in Store
      /\ [s EXCEPT !.commands = C, !.workers = V].allocs = s.allocs
  BY <1>2, <1>3 DEF Store
<1> QED BY <1>4, <1>5, EvolvesSame

\* Acknowledged prepare commands give out seats or cancel.
LEMMA ApplyPreparedEvolves ==
  ASSUME NEW s \in Store, NEW w \in Worker, NEW X
  PROVE  Evolves(s, ApplyPrepared(s, w, X))
<1> DEFINE F(a) == IF Eligible(s.workers[w]) THEN Reserved(a)
                   ELSE [a EXCEPT !.state = "prepared"]
           A == [x \in Allocation |->
                   IF x \in X /\ s.allocs[x].state = "preparing"
                     THEN F(s.allocs[x]) ELSE s.allocs[x]]
<1>1. ASSUME NEW a \in AllocationRecord, a.state = "preparing"
      PROVE  F(a) \in AllocationRecord /\ Legal(a, F(a))
  <2> DEFINE b == [a EXCEPT !.state = "prepared"]
  <2>1. Live(a)
    BY <1>1 DEF Live, Terminal
  <2>2. b \in AllocationRecord
    BY DEF AllocationRecord, AllocationState
  <2>3. b.state = "prepared" /\ b.users = a.users
    BY DEF AllocationRecord
  <2> HIDE DEF b
  <2>4. Legal(a, b)
    BY <2>1, <2>3 DEF Legal, Live, Terminal
  <2> QED BY <2>1, <2>2, <2>4, ReservedLegal DEF b
<1> HIDE DEF F
<1>2. \A x \in Allocation : A[x] \in AllocationRecord /\ Legal(s.allocs[x], A[x])
  BY <1>1, StoreParts, LegalSame
<1>3. ApplyPrepared(s, w, X) = [s EXCEPT !.allocs = A]
  BY DEF ApplyPrepared, F
<1>4. A \in [Allocation -> AllocationRecord]
  BY <1>2
<1> HIDE DEF A
<1> QED BY <1>2, <1>3, <1>4, SetAllocs

\* Acknowledged cancel commands end their rooms.
LEMMA ApplyCancelledEvolves ==
  ASSUME NEW s \in Store, NEW X
  PROVE  Evolves(s, ApplyCancelled(s, X))
<1> DEFINE F(a) == Finish(a, IF a.reason = "cancelled" THEN "cancelled"
                             ELSE "expired", a.reason)
           A == [x \in Allocation |->
                   IF x \in X /\ s.allocs[x].state = "cancelling"
                     THEN F(s.allocs[x]) ELSE s.allocs[x]]
<1>1. ASSUME NEW a \in AllocationRecord, a.state = "cancelling"
      PROVE  F(a) \in AllocationRecord /\ Legal(a, F(a))
  <2>1. Live(a) /\ a.reason \in Reason
    BY <1>1 DEF Live, Terminal, AllocationRecord
  <2>2. {"cancelled", "expired"} \subseteq Terminal
    BY DEF Terminal
  <2> QED BY <2>1, <2>2, FinishLegal
<1> HIDE DEF F
<1>2. \A x \in Allocation : A[x] \in AllocationRecord /\ Legal(s.allocs[x], A[x])
  BY <1>1, StoreParts, LegalSame
<1>3. ApplyCancelled(s, X) = [s EXCEPT !.allocs = A]
  BY DEF ApplyCancelled, F
<1>4. A \in [Allocation -> AllocationRecord]
  BY <1>2
<1> HIDE DEF A
<1> QED BY <1>2, <1>3, <1>4, SetAllocs

\* The command results of a heartbeat, chained.
LEMMA ApplyResultsEvolves ==
  ASSUME NEW s \in Store, NEW w \in Worker, NEW report,
         DOMAIN report.results \subseteq s.commands
  PROVE  Evolves(s, ApplyResults(s, w, report))
<1> DEFINE t == ApplyDone(s, w, report)
           X == Preparing(t, PreparedLate(t, w, report) \cup PrepareFailed(report))
           u == CancelAll(t, X, "other")
           v == ApplyPrepared(u, w, Prepared(t, w, report))
           z == ApplyCancelled(v, RoomCancelled(report))
<1>1. Evolves(s, t)
  BY ApplyDoneEvolves
<1>2. X \in SUBSET Allocation /\ "other" \in Reason
  BY DEF Preparing, Reason
<1>3. ApplyResults(s, w, report) = z
  BY DEF ApplyResults
<1> HIDE DEF t, X
<1>4. Evolves(t, u)
  BY <1>1, <1>2, CancelAllEvolves DEF Evolves
<1> HIDE DEF u
<1>5. Evolves(u, v)
  BY <1>4, ApplyPreparedEvolves DEF Evolves
<1> HIDE DEF v
<1>6. Evolves(v, z)
  BY <1>5, ApplyCancelledEvolves DEF Evolves
<1> HIDE DEF z
<1>7. Evolves(s, v)
  BY <1>1, <1>4, <1>5, EvolvesTrans
<1> QED BY <1>3, <1>6, <1>7, EvolvesTrans

\* A room snapshot changes its allocation legally.
LEMMA SeenRoomLegal ==
  ASSUME NEW a \in AllocationRecord, NEW room
  PROVE  SeenRoom(a, room) \in AllocationRecord /\ Legal(a, SeenRoom(a, room))
<1> DEFINE S == [u \in User |->
                   IF u \in a.users THEN SeenSession(a.sessions[u], u \in room.users)
                                    ELSE a.sessions[u]]
           state == IF room.state = "playing" /\ room.users = a.users
                      THEN "active" ELSE a.state
           b == [a EXCEPT !.sessions = S, !.state = state]
           seated == a.state \in {"assigned", "active"}
<1>1. CASE ~seated
  <2>1. SeenRoom(a, room) = a
    BY <1>1 DEF SeenRoom
  <2> QED BY <2>1, LegalSame
<1>2. CASE seated /\ room.state = "closed"
  <2>1. SeenRoom(a, room) = Finish(a, "completed", "")
    BY <1>2 DEF SeenRoom
  <2>2. "completed" \in Terminal /\ "" \in Reason /\ Live(a)
    BY <1>2 DEF Terminal, Reason, Live
  <2> QED BY <2>1, <2>2, FinishLegal
<1>3. CASE seated /\ room.state # "closed"
  <2>1. SeenRoom(a, room) = b
    BY <1>3 DEF SeenRoom
  <2>2. a.sessions \in [User -> Session]
    BY DEF AllocationRecord
  <2>3. \A e \in Session, here \in BOOLEAN : SeenSession(e, here) \in Session
    BY ConfigAssumption DEF SeenSession, Session, Never
  <2>4. S \in [User -> Session]
    <3> SUFFICES ASSUME NEW u \in User PROVE S[u] \in Session
      OBVIOUS
    <3> DEFINE here == u \in room.users
    <3>1. here \in BOOLEAN
      OBVIOUS
    <3>2. S[u] \in {SeenSession(a.sessions[u], here), a.sessions[u]}
      OBVIOUS
    <3> HIDE DEF here, S
    <3> QED BY <2>2, <2>3, <3>1, <3>2
  <2>5. state \in AllocationState /\ state \in {"assigned", "active"}
    BY <1>3 DEF AllocationState
  <2> HIDE DEF S, state
  <2>6. b \in AllocationRecord
    BY <2>4, <2>5 DEF AllocationRecord
  <2>7. b.state = state /\ b.users = a.users
    BY DEF AllocationRecord
  <2> HIDE DEF b
  <2>8. Legal(a, b)
    BY <1>3, <2>5, <2>7 DEF Legal, Live, Terminal
  <2> QED BY <2>1, <2>6, <2>8
<1> QED BY <1>1, <1>2, <1>3

\* The product of finite sets is finite.
LEMMA ProductFinite ==
  ASSUME NEW S, NEW T, IsFiniteSet(S), IsFiniteSet(T)
  PROVE  IsFiniteSet(S \X T)
BY FS_Product

\* The number of players a heartbeat shows is a number.
LEMMA PlayersSeenType ==
  ASSUME NEW s, NEW report
  PROVE  PlayersSeen(s, report) \in Nat
<1> DEFINE seen == {p \in Allocation \X User :
                      /\ p[1] \in DOMAIN report.rooms
                      /\ Live(s.allocs[p[1]])
                      /\ report.rooms[p[1]].state # "closed"
                      /\ p[2] \in report.rooms[p[1]].users}
<1>1. IsFiniteSet(Allocation) /\ IsFiniteSet(User)
  BY IdAssumption
<1>2. IsFiniteSet(Allocation \X User)
  BY <1>1, ProductFinite
<1>3. seen \in SUBSET (Allocation \X User)
  BY Zenon
<1>4. PlayersSeen(s, report) = Cardinality(seen)
  BY DEF PlayersSeen
<1> HIDE DEF seen
<1>5. IsFiniteSet(seen)
  BY <1>2, <1>3, FS_Subset, Zenon
<1> QED BY <1>4, <1>5, FS_CardinalityType

\* The room snapshots of a heartbeat.
LEMMA ApplyRoomsEvolves ==
  ASSUME NEW s \in Store, NEW w \in Worker, NEW report
  PROVE  Evolves(s, ApplyRooms(s, w, report))
<1> DEFINE A == [x \in Allocation |->
                   IF x \in DOMAIN report.rooms
                     THEN SeenRoom(s.allocs[x], report.rooms[x])
                     ELSE s.allocs[x]]
           n == PlayersSeen(s, report)
           V == [s.workers EXCEPT ![w].players = n]
<1>1. \A x \in Allocation : A[x] \in AllocationRecord /\ Legal(s.allocs[x], A[x])
  BY StoreParts, SeenRoomLegal, LegalSame
<1>2. n \in Nat
  BY PlayersSeenType
<1>3. ApplyRooms(s, w, report) = [s EXCEPT !.allocs = A, !.workers = V]
  BY DEF ApplyRooms, Store
<1> HIDE DEF n
<1>4. V \in [Worker -> WorkerRecord]
  <2>1. \A r \in WorkerRecord : [r EXCEPT !.players = n] \in WorkerRecord
    BY <1>2 DEF WorkerRecord
  <2> QED BY <2>1, StoreParts
<1>5. A \in [Allocation -> AllocationRecord]
  BY <1>1
<1> HIDE DEF A, V
<1>6. /\ [s EXCEPT !.allocs = A, !.workers = V] \in Store
      /\ [s EXCEPT !.allocs = A, !.workers = V].allocs = A
  BY <1>4, <1>5 DEF Store
<1> QED BY <1>1, <1>3, <1>6 DEF Evolves

\* heartbeatHTTP, its parts chained.
LEMMA HeartbeatEvolves ==
  ASSUME NEW s \in Store, NEW w \in Worker, NEW report \in Reports(s, w)
  PROVE  Evolves(s, HeartbeatIn(s, w, report))
<1> DEFINE t == Observe(s, w, report)
           u == ApplyResults(t, w, report)
           v == ApplyRooms(u, w, report)
<1>1. Evolves(s, t)
  BY ObserveEvolves
<1>2. t \in Store
  BY <1>1 DEF Evolves
<1>3. t.commands = s.commands
  BY DEF Observe, Store
<1>4. HeartbeatIn(s, w, report) = v
  BY DEF HeartbeatIn
<1> HIDE DEF t
<1>5. Evolves(t, u)
  BY <1>2, <1>3, ReportParts, ApplyResultsEvolves
<1> HIDE DEF u
<1>6. Evolves(u, v)
  BY <1>5, ApplyRoomsEvolves DEF Evolves
<1> HIDE DEF v
<1> QED BY <1>1, <1>4, <1>5, <1>6, EvolvesTrans
-----------------------------------------------------------------------------
(* Time and the provider's answers *)

\* The passing of a second.
LEMMA AgedEvolves ==
  ASSUME NEW s \in Store
  PROVE  Evolves(s, Aged(s))
<1> DEFINE V == [w \in Worker |-> AgedWorker(s.workers[w])]
           A == [x \in Allocation |-> AgedAllocation(s.allocs[x])]
           C == {[c EXCEPT !.ttl = Left(@), !.wait = Left(@)] : c \in s.commands}
<1>1. /\ \A n \in Nat : Left(n) \in Nat
      /\ \A n \in {Never} \cup Nat : Left(n) \in {Never} \cup Nat
      /\ \A n, m \in Nat : Older(n, m) \in Nat
      /\ \A n \in {Never} \cup Nat, m \in Nat : Older(n, m) \in {Never} \cup Nat
  BY DEF Left, Older, Never
<1>2. V \in [Worker -> WorkerRecord]
  <2>1. \A r \in WorkerRecord : AgedWorker(r) \in WorkerRecord
    <3> TAKE r \in WorkerRecord
    <3> DEFINE born == IF r.boot = None \/ r.state \in {"starting", "unknown",
                                                 "launching", "bootstrapping"}
                         THEN Older(r.born, LaunchTimeout) ELSE r.born
               updated == CASE r.state = "starting" ->
                                 Older(r.updated, InterruptedAfter)
                            [] r.state \in {"stopped", "failed"} ->
                                 Older(r.updated, History)
                            [] OTHER -> r.updated
    <3>1. Older(r.heartbeat, LostTimeout) \in {Never} \cup Nat
      BY <1>1, ConfigAssumption DEF WorkerRecord
    <3>2. born \in Nat
      BY <1>1, ConfigAssumption DEF WorkerRecord
    <3>3. updated \in Nat
      BY <1>1, ConfigAssumption DEF WorkerRecord
    <3>4. Left(r.nextCheck) \in Nat /\ Left(r.life) \in {Never} \cup Nat
      BY <1>1 DEF WorkerRecord
    <3>5. Older(r.idle, IdleSeconds - 1) \in {Never} \cup Nat
      <4>1. IdleSeconds - 1 \in Nat /\ r.idle \in {Never} \cup Nat
        BY ConfigAssumption DEF WorkerRecord
      <4> QED BY <1>1, <4>1
    <3>6. AgedWorker(r) =
            IF r.state = "none" THEN r ELSE
            [r EXCEPT !.heartbeat = Older(r.heartbeat, LostTimeout),
                      !.born = born, !.updated = updated,
                      !.nextCheck = Left(r.nextCheck),
                      !.idle = Older(r.idle, IdleSeconds - 1),
                      !.life = Left(r.life)]
      BY DEF AgedWorker, WorkerRecord
    <3> HIDE DEF born, updated
    <3>7. ASSUME NEW h \in {Never} \cup Nat, NEW b \in Nat, NEW u \in Nat,
                 NEW n \in Nat, NEW i \in {Never} \cup Nat,
                 NEW l \in {Never} \cup Nat
          PROVE  [r EXCEPT !.heartbeat = h, !.born = b, !.updated = u,
                           !.nextCheck = n, !.idle = i, !.life = l]
                   \in WorkerRecord
      BY DEF WorkerRecord
    <3>8. [r EXCEPT !.heartbeat = Older(r.heartbeat, LostTimeout),
                    !.born = born, !.updated = updated,
                    !.nextCheck = Left(r.nextCheck),
                    !.idle = Older(r.idle, IdleSeconds - 1),
                    !.life = Left(r.life)] \in WorkerRecord
      BY <3>1, <3>2, <3>3, <3>4, <3>5, <3>7
    <3> QED BY <3>6, <3>8
  <2> QED BY <2>1, StoreParts
<1>3. \A x \in Allocation : A[x] \in AllocationRecord /\ Legal(s.allocs[x], A[x])
  <2> SUFFICES ASSUME NEW a \in AllocationRecord
               PROVE  AgedAllocation(a) \in AllocationRecord /\ Legal(a, AgedAllocation(a))
    BY StoreParts
  <2> DEFINE S == [u \in User |-> AgedSession(a.sessions[u])]
             ended == IF a.state \in Terminal THEN Older(a.ended, History)
                                              ELSE a.ended
  <2>1. AgedAllocation(a) = [a EXCEPT !.ttl = Left(a.ttl), !.sessions = S,
                                      !.ended = ended]
    BY DEF AgedAllocation, AllocationRecord
  <2>2. S \in [User -> Session]
    <3>1. a.sessions \in [User -> Session]
      BY DEF AllocationRecord
    <3>2. \A e \in Session : AgedSession(e) \in Session
      BY <1>1 DEF Session, AgedSession
    <3> QED BY <3>1, <3>2
  <2>3. ended \in Nat /\ Left(a.ttl) \in Nat
    BY <1>1, ConfigAssumption DEF AllocationRecord
  <2> HIDE DEF S, ended
  <2>4. AgedAllocation(a) \in AllocationRecord
    BY <2>1, <2>2, <2>3 DEF AllocationRecord
  <2>5. AgedAllocation(a).state = a.state /\ AgedAllocation(a).users = a.users
    BY <2>1 DEF AllocationRecord
  <2> QED BY <2>4, <2>5, LegalSame
<1>4. C \in SUBSET Command
  <2>1. \A c \in Command : [c EXCEPT !.ttl = Left(@), !.wait = Left(@)] \in Command
    BY <1>1 DEF Command
  <2> QED BY <2>1, StoreParts
<1>5. Aged(s) = [s EXCEPT !.workers = V, !.allocs = A, !.commands = C,
                          !.lease = Left(s.lease),
                          !.nextCreate = Left(s.nextCreate)]
  BY DEF Aged, Store
<1>6. A \in [Allocation -> AllocationRecord]
  BY <1>3
<1>7. Left(s.lease) \in Nat /\ Left(s.nextCreate) \in Nat
  BY <1>1, StoreParts
<1> HIDE DEF V, A, C
<1>8. Aged(s) \in Store /\ Aged(s).allocs = A
  BY <1>2, <1>4, <1>5, <1>6, <1>7 DEF Store
<1> QED BY <1>3, <1>8 DEF Evolves

\* providerLifetime: an instance that expires soon is drained.
LEMMA ProviderLifetimeEvolves ==
  ASSUME NEW s \in Store, NEW w \in Worker, NEW ttl \in Nat
  PROVE  Evolves(s, ProviderLifetime(s, w, ttl))
<1> DEFINE r == s.workers[w]
           short == ttl <= MinLifetimeForAdmission + LaunchTimeout
           stop == short /\ r.state \in {"launching", "bootstrapping"}
           life == IF r.life # Never THEN r.life
                   ELSE IF ttl > r.born THEN ttl - r.born ELSE 0
           state == IF stop THEN "stopping" ELSE r.state
           check == IF stop THEN 0 ELSE r.nextCheck
           q == [r EXCEPT !.life = life, !.state = state, !.nextCheck = check]
           b == s.blocked \/ short
           V == [s.workers EXCEPT ![w] = q]
<1>1. r \in WorkerRecord
  BY StoreParts
<1>2. /\ life \in {Never} \cup Nat /\ state \in WorkerState /\ check \in Nat
  BY <1>1 DEF WorkerRecord, WorkerState
<1>3. b \in BOOLEAN
  OBVIOUS
<1>4. ProviderLifetime(s, w, ttl) =
        IF ttl <= 0 THEN s ELSE [s EXCEPT !.blocked = b, !.workers = V]
  BY DEF ProviderLifetime, Store
<1> HIDE DEF r, life, state, check, b
<1>5. q \in WorkerRecord
  BY <1>1, <1>2 DEF WorkerRecord
<1> HIDE DEF q
<1>6. V \in [Worker -> WorkerRecord]
  BY <1>5, StoreParts
<1> HIDE DEF V
<1>7. /\ [s EXCEPT !.blocked = b, !.workers = V] \in Store
      /\ [s EXCEPT !.blocked = b, !.workers = V].allocs = s.allocs
  BY <1>3, <1>6 DEF Store
<1> QED BY <1>4, <1>7, EvolvesSame

\* The answer to a create is recorded.
LEMMA CreatedWorkerEvolves ==
  ASSUME NEW s \in Store, NEW w \in Worker, NEW ttl \in Nat
  PROVE  Evolves(s, CreatedWorker(s, w, ttl))
<1> DEFINE q == [s.workers[w] EXCEPT !.providerID = TRUE, !.state = "launching",
                                     !.nextCheck = 0]
           t == [s EXCEPT !.workers[w] = q]
<1>1. q \in WorkerRecord
  <2>1. s.workers[w] \in WorkerRecord
    BY StoreParts
  <2> QED BY <2>1 DEF WorkerRecord, WorkerState
<1>2. CreatedWorker(s, w, ttl) = ProviderLifetime(t, w, ttl)
  BY StoreParts DEF CreatedWorker, Store
<1> HIDE DEF q
<1>3. Evolves(s, t)
  BY <1>1, SetOneWorker
<1> HIDE DEF t
<1>4. Evolves(t, ProviderLifetime(t, w, ttl))
  BY <1>3, ProviderLifetimeEvolves DEF Evolves
<1> QED BY <1>2, <1>3, <1>4, EvolvesTrans

\* What poll writes into a worker has its type.
LEMMA CheckedType ==
  ASSUME NEW r \in WorkerRecord, NEW status
  PROVE  /\ Checked(r, status) \in WorkerRecord
         /\ Unaddressed(r) \in WorkerRecord
<1>1. ASSUME NEW p \in BOOLEAN, NEW state \in WorkerState
      PROVE  [r EXCEPT !.providerReady = p, !.state = state] \in WorkerRecord
  BY DEF WorkerRecord
<1>2. [r EXCEPT !.state = "stopping", !.nextCheck = 0] \in WorkerRecord
  BY StoppingWorker
<1>3. r.state \in WorkerState
  BY DEF WorkerRecord
<1>4. Unaddressed(r) \in WorkerRecord
  <2> DEFINE state == IF r.state = "ready" THEN "suspect" ELSE r.state
  <2>1. state \in WorkerState
    BY <1>3 DEF WorkerState
  <2>2. Unaddressed(r) = [r EXCEPT !.providerReady = FALSE, !.state = state]
    BY DEF Unaddressed
  <2> HIDE DEF state
  <2>3. [r EXCEPT !.providerReady = FALSE, !.state = state] \in WorkerRecord
    BY <1>1, <2>1
  <2> QED BY <2>2, <2>3
<1>5. Running(r) \in WorkerRecord
  <2> DEFINE state == IF r.ready /\ r.boot # None /\ Fresh(r)
                        THEN IF r.draining THEN "draining" ELSE "ready"
                      ELSE IF r.state \in {"launching", "bootstrapping"}
                        THEN "bootstrapping"
                      ELSE IF ~r.draining THEN "suspect" ELSE r.state
  <2>1. state \in WorkerState
    BY <1>3 DEF WorkerState
  <2>2. Running(r) = [r EXCEPT !.providerReady = TRUE, !.state = state]
    BY DEF Running
  <2> HIDE DEF state
  <2>3. [r EXCEPT !.providerReady = TRUE, !.state = state] \in WorkerRecord
    BY <1>1, <2>1
  <2> QED BY <2>2, <2>3
<1> QED BY <1>2, <1>4, <1>5, Zenon DEF Checked

\* The answer to a poll is recorded.
LEMMA ObservedEvolves ==
  ASSUME NEW s \in Store, NEW w \in Worker, NEW status
  PROVE  Evolves(s, Observed(s, w, status))
<1> DEFINE r == s.workers[w]
           t == IF status \in {"running", "badport"} THEN s
                ELSE [s EXCEPT !.workers[w] = Unaddressed(r)]
           u == Lost(s, {w})
           q == [u.workers[w] EXCEPT !.state = "stopping", !.draining = FALSE,
                                     !.nextCheck = 0]
<1>1. r \in WorkerRecord
  BY StoreParts
<1>2. Evolves(s, s)
  BY EvolvesSame
<1>3. Evolves(s, t)
  BY <1>1, <1>2, CheckedType, SetOneWorker
<1>4. t \in Store
  BY <1>3 DEF Evolves
<1>5. Evolves(s, Unhealthy(s, w))
  <2>1. Evolves(s, u)
    BY CloseWorkersEvolves DEF Lost, WorkerState
  <2>2. u \in Store
    BY <2>1 DEF Evolves
  <2>3. Unhealthy(s, w) = [u EXCEPT !.workers[w] = q]
    BY <2>2, StoreParts DEF Unhealthy, Store
  <2> HIDE DEF u
  <2>4. u.workers[w] \in WorkerRecord
    BY <2>2, StoreParts
  <2>5. q \in WorkerRecord
    BY <2>4 DEF WorkerRecord, WorkerState
  <2> HIDE DEF q
  <2>6. Evolves(u, [u EXCEPT !.workers[w] = q])
    BY <2>2, <2>5, SetOneWorker
  <2> QED BY <2>1, <2>3, <2>6, EvolvesTrans
<1>6. Evolves(s, Stopped(t, {w}))
  <2>1. Evolves(t, Stopped(t, {w}))
    BY <1>4, CloseWorkersEvolves DEF Stopped, WorkerState
  <2> QED BY <1>3, <2>1, EvolvesTrans
<1>7. Evolves(s, [t EXCEPT !.workers[w] = Checked(t.workers[w], status)])
  <2>1. Checked(t.workers[w], status) \in WorkerRecord
    BY <1>4, StoreParts, CheckedType
  <2>2. Evolves(t, [t EXCEPT !.workers[w] = Checked(t.workers[w], status)])
    BY <1>4, <2>1, SetOneWorker
  <2> QED BY <1>3, <2>2, EvolvesTrans
<1> QED BY <1>2, <1>5, <1>6, <1>7 DEF Observed

-----------------------------------------------------------------------------
(* Actions *)

\* What the only operation that creates an allocation guarantees: the id was
\* free, and its players are in no live allocation.
Adds(s, t) ==
  /\ t \in Store
  /\ \E a \in Allocation :
       /\ s.allocs[a].state = "none"
       /\ \A x \in Allocation \ {a} :
            /\ Legal(s.allocs[x], t.allocs[x])
            /\ Live(s.allocs[x]) =>
                 s.allocs[x].users \cap t.allocs[a].users = {}

\* An admissible request becomes an allocation.
LEMMA NewAllocationAdds ==
  ASSUME NEW s \in Store, NEW a \in FreshAllocation(s),
         NEW key \in {r.key : r \in Request} \cup Worker, NEW users \in SUBSET User,
         NEW pref \in Worker \cup {None}, Admissible(s, key, users)
  PROVE  Adds(s, NewAllocationIn(s, a, key, users, pref))
<1> DEFINE n == [NoAllocation EXCEPT !.state = Waiting, !.key = key,
                                     !.users = users, !.pref = pref,
                                     !.ttl = AllocationTimeout]
           A == [s.allocs EXCEPT ![a] = n]
           t == [s EXCEPT !.allocs = A]
<1>1. a \in Allocation /\ s.allocs[a].state = "none"
  BY DEF FreshAllocation
<1>2. n \in AllocationRecord /\ n.users = users
  BY EmptyRecords, ConfigAssumption
  DEF AllocationRecord, AllocationState, Waiting, NoAllocation
<1>3. NewAllocationIn(s, a, key, users, pref) = t
  BY DEF NewAllocationIn, Store
<1> HIDE DEF n
<1>4. A \in [Allocation -> AllocationRecord] /\ A[a] = n
      /\ \A x \in Allocation \ {a} : A[x] = s.allocs[x]
  BY <1>1, <1>2, StoreParts
<1>5. \A x \in Allocation \ {a} :
         /\ Legal(s.allocs[x], A[x])
         /\ Live(s.allocs[x]) => s.allocs[x].users \cap A[a].users = {}
  BY <1>2, <1>4, LegalSame DEF Admissible
<1> HIDE DEF A
<1>6. t \in Store /\ t.allocs = A
  BY <1>4 DEF Store
<1> HIDE DEF t
<1> QED BY <1>1, <1>3, <1>5, <1>6 DEF Adds

\* What the callers of the API may change.
LEMMA ClientStep ==
  ASSUME TypeOK, Client
  PROVE  (Evolves(store, store') \/ Adds(store, store')) /\ ctl' = ctl
<1> USE DEF TypeOK
<1>1. ASSUME NEW r \in Request, Allocate(r)
      PROVE  Adds(store, store') /\ ctl' = ctl
  <2>1. r.users \in SUBSET User
    BY IdAssumption
  <2> QED BY <1>1, <2>1, NewAllocationAdds DEF Allocate
<1>2. ASSUME NEW rooms \in CreateSizes, NEW w \in UnusedWorkers(store)
      PROVE  /\ w \in Worker
             /\ Evolves(store, NewWorkerIn(store, w, rooms))
             /\ NewWorkerIn(store, w, rooms).allocs = store.allocs
  <2>1. rooms \in Nat /\ w \in Worker
    BY InputAssumption DEF UnusedWorkers, FreshWorker
  <2> QED BY <2>1, NewWorkerEvolves DEF NewWorkerIn, Store
<1>3. ASSUME NEW rooms \in CreateSizes, Create(rooms)
      PROVE  Evolves(store, store') /\ ctl' = ctl
  BY <1>2, <1>3 DEF Create
<1>4. ASSUME NEW rooms \in CreateSizes, NEW r \in Request,
             CreateWithUsers(rooms, r.users)
      PROVE  Adds(store, store') /\ ctl' = ctl
  <2>1. PICK w \in UnusedWorkers(store), a \in FreshAllocation(store) :
          /\ Admissible(store, w, r.users)
          /\ store' = NewAllocationIn(NewWorkerIn(store, w, rooms), a, w,
                                      r.users, w)
    BY <1>4 DEF CreateWithUsers
  <2> DEFINE t == NewWorkerIn(store, w, rooms)
  <2>2. t \in Store /\ t.allocs = store.allocs /\ w \in Worker
    BY <1>2 DEF Evolves
  <2>3. t.commands = store.commands
    BY DEF NewWorkerIn, Store
  <2> HIDE DEF t
  <2>4. a \in FreshAllocation(t) /\ Admissible(t, w, r.users)
    BY <2>1, <2>2, <2>3 DEF FreshAllocation, Admissible
  <2>5. r.users \in SUBSET User
    BY IdAssumption
  <2>6. Adds(t, store')
    BY <2>1, <2>2, <2>4, <2>5, NewAllocationAdds DEF t
  <2> QED BY <1>4, <2>2, <2>6 DEF Adds, CreateWithUsers
<1>5. ASSUME NEW u \in User, NEW x \in Allocation, Cancel(u, x)
      PROVE  Evolves(store, store') /\ ctl' = ctl
  <2>1. "cancelled" \in Reason /\ {x} \in SUBSET Allocation
    BY DEF Reason
  <2> QED BY <1>5, <2>1, CancelAllEvolves DEF Cancel
<1>6. ASSUME NEW x \in Allocation, Join(x)
      PROVE  Evolves(store, store') /\ ctl' = ctl
  <2>1. store.allocs[x] \in AllocationRecord
    BY StoreParts
  <2>2. Live(store.allocs[x])
    BY <1>6 DEF Join, Live, Terminal
  <2>3. Evolves(store, [store EXCEPT !.allocs[x] = Reserved(store.allocs[x])])
    BY <2>1, <2>2, ReservedLegal, SetOneAllocation
  <2> QED BY <1>6, <2>3 DEF Join
<1>7. ASSUME NEW w \in Worker, NEW n \in PlayerCounts, Update(w, n)
      PROVE  Evolves(store, store') /\ ctl' = ctl
  <2> DEFINE q == [store.workers[w] EXCEPT !.players = n]
  <2>1. q \in WorkerRecord
    <3>1. store.workers[w] \in WorkerRecord /\ n \in Nat
      BY StoreParts, InputAssumption
    <3> QED BY <3>1 DEF WorkerRecord
  <2>2. store' = [store EXCEPT !.workers[w] = q]
    BY <1>7, StoreParts DEF Update, Store
  <2> HIDE DEF q
  <2>3. Evolves(store, [store EXCEPT !.workers[w] = q])
    BY <2>1, SetOneWorker
  <2> QED BY <1>7, <2>2, <2>3 DEF Update
<1>8. ASSUME NEW w \in Worker, Drain(w) \/ Delete(w)
      PROVE  Evolves(store, store') /\ ctl' = ctl
  BY <1>8, BeginDrainEvolves DEF Drain, Delete
<1>9. ASSUME RetryCreation
      PROVE  Evolves(store, store') /\ ctl' = ctl
  <2>1. store' \in Store /\ store'.allocs = store.allocs
    BY <1>9 DEF RetryCreation, Store
  <2> QED BY <1>9, <2>1, EvolvesSame DEF RetryCreation
<1>10. ASSUME NEW rooms \in RoomsChoice, UpdatePolicy(rooms)
       PROVE  Evolves(store, store') /\ ctl' = ctl
  <2>1. store' \in Store /\ store'.allocs = store.allocs
    BY <1>10 DEF UpdatePolicy, Store
  <2> QED BY <1>10, <2>1, EvolvesSame DEF UpdatePolicy
<1> QED BY <1>1, <1>3, <1>4, <1>5, <1>6, <1>7, <1>8, <1>9, <1>10 DEF Client

\* What the game processes may change.
LEMMA ProcessStep ==
  ASSUME TypeOK, Process
  PROVE  Evolves(store, store') /\ ctl' = ctl
<1> USE DEF TypeOK
<1>1. ASSUME NEW w \in Worker, NEW b \in Boot, Bootstrap(w, b)
      PROVE  Evolves(store, store') /\ ctl' = ctl
  <2> DEFINE q == [store.workers[w] EXCEPT !.boot = b]
  <2>1. q \in WorkerRecord
    <3>1. store.workers[w] \in WorkerRecord
      BY StoreParts
    <3> QED BY <3>1 DEF WorkerRecord
  <2>2. store' = [store EXCEPT !.workers[w] = q]
    BY <1>1, StoreParts DEF Bootstrap, Store
  <2> HIDE DEF q
  <2>3. Evolves(store, [store EXCEPT !.workers[w] = q])
    BY <2>1, SetOneWorker
  <2> QED BY <1>1, <2>2, <2>3 DEF Bootstrap
<1>2. ASSUME NEW w \in Worker, Heartbeat(w)
      PROVE  Evolves(store, store') /\ ctl' = ctl
  BY <1>2, HeartbeatEvolves DEF Heartbeat
<1> QED BY <1>1, <1>2 DEF Process

\* A controller's place in its tick keeps its type.
LEMMA GotoType ==
  ASSUME TypeOK, NEW c \in Controller, NEW op, NEW w,
         [op |-> op, w |-> w] \in CtlRecord, Goto(c, op, w)
  PROVE  ctl' \in [Controller -> CtlRecord]
BY DEF TypeOK, Goto

\* The program counters of a controller have their type.
LEMMA IdleTypes ==
  /\ [op |-> "idle", w |-> None] \in CtlRecord
  /\ [op |-> "pick", w |-> None] \in CtlRecord
  /\ \A op \in CallOp, w \in Worker : [op |-> op, w |-> w] \in CtlRecord
BY DEF CtlRecord, CallOp

\* A controller with a call under way remembers its worker.
LEMMA CallWorker ==
  ASSUME TypeOK, NEW c \in Controller, ctl[c].op \in CallOp
  PROVE  ctl[c].w \in Worker
<1>1. ctl[c] \in CtlRecord
  BY DEF TypeOK
<1> QED BY <1>1 DEF CtlRecord, CallOp

\* Taking or renewing the lease.
LEMMA LeadsEvolves ==
  ASSUME NEW s \in Store, NEW c \in Controller
  PROVE  Evolves(s, Leads(s, c))
<1>1. Leads(s, c) \in Store /\ Leads(s, c).allocs = s.allocs
  BY ConfigAssumption DEF Leads, Store
<1> QED BY <1>1, EvolvesSame

\* The maintenance transaction of a tick, chained.
LEMMA TickStepEvolves ==
  ASSUME TypeOK, NEW c \in Controller, Tick(c)
  PROVE  Evolves(store, store') /\ ctl' \in [Controller -> CtlRecord]
<1> DEFINE r == Leads(store, c)
           s == Maintained(r)
<1>1. PICK P \in Placements(s) :
        \E t \in ScaleUps(Place(s, P), UnusedWorkers(Place(s, P))) :
          store' \in ScaleDowns(t)
  BY DEF Tick
<1> DEFINE q == Place(s, P)
<1>2. PICK t \in ScaleUps(q, UnusedWorkers(q)) : store' \in ScaleDowns(t)
  BY <1>1
<1>3. Evolves(store, r)
  BY LeadsEvolves DEF TypeOK
<1> HIDE DEF r
<1>4. Evolves(r, s)
  BY <1>3, MaintainedEvolves DEF Evolves
<1> HIDE DEF s
<1>5. Evolves(s, q)
  BY <1>4, PlaceEvolves DEF Evolves
<1> HIDE DEF q
<1>6. Evolves(q, t)
  <2>1. UnusedWorkers(q) \in SUBSET Worker
    BY DEF UnusedWorkers, FreshWorker
  <2>2. q \in Store
    BY <1>5 DEF Evolves
  <2> QED BY <2>1, <2>2, ScaleUpsEvolve
<1>7. Evolves(t, store')
  BY <1>2, <1>6, ScaleDownsEvolve DEF Evolves
<1>8. Evolves(store, store')
  BY <1>3, <1>4, <1>5, <1>6, <1>7, EvolvesTrans
<1> QED BY <1>8, IdleTypes, GotoType DEF Tick

\* A transaction after a provider call, given what it does when its
\* controller still leads.
LEMMA CommitStep ==
  ASSUME TypeOK, NEW c \in Controller, NEW t,
         Evolves(store, t),
         store' = IF store.leader = c THEN t ELSE store,
         Goto(c, "idle", None)
  PROVE  Evolves(store, store') /\ ctl' \in [Controller -> CtlRecord]
<1>1. Evolves(store, store)
  BY EvolvesSame DEF TypeOK
<1> QED BY <1>1, IdleTypes, GotoType

\* A worker is due again later.
LEMMA RecheckedEvolves ==
  ASSUME TypeOK, NEW w \in Worker
  PROVE  Evolves(store, Rechecked(w))
<1> DEFINE q == [store.workers[w] EXCEPT !.nextCheck = ProviderPollSeconds]
<1>1. q \in WorkerRecord
  <2>1. store.workers[w] \in WorkerRecord
    BY StoreParts DEF TypeOK
  <2> QED BY <2>1, ConfigAssumption DEF WorkerRecord
<1>2. Rechecked(w) = [store EXCEPT !.workers[w] = q]
  BY StoreParts DEF Rechecked, Store, TypeOK
<1> HIDE DEF q
<1> QED BY <1>1, <1>2, SetOneWorker DEF TypeOK

\* The steps of start.
LEMMA CreateStep ==
  ASSUME TypeOK, NEW c \in Controller,
         \/ \E ttl \in TTLs : Created(c, ttl)
         \/ \E review \in BOOLEAN, state \in {"unknown", "failed"} :
               CreateFailed(c, state, review)
  PROVE  Evolves(store, store') /\ ctl' \in [Controller -> CtlRecord]
<1> USE DEF TypeOK
<1> DEFINE w == ctl[c].w
<1>1. w \in Worker
  BY CallWorker DEF Created, CreateFailed, Commit, CallOp
<1>2. store.workers[w] \in WorkerRecord
  BY <1>1, StoreParts
<1>3. CASE \E ttl \in TTLs : Created(c, ttl)
  <2>1. PICK ttl \in TTLs : Created(c, ttl)
    BY <1>3
  <2> DEFINE q == [store.workers[w] EXCEPT !.updated = 0]
             t == [store EXCEPT !.workers[w] = q]
             u == CreatedWorker(t, w, ttl)
  <2>2. q \in WorkerRecord
    BY <1>2 DEF WorkerRecord
  <2>3. [store EXCEPT !.workers[w].updated = 0] = t
    BY <1>1, StoreParts DEF Store
  <2>4. /\ store' = IF store.leader = c THEN u ELSE store
        /\ Goto(c, "idle", None)
    BY <2>1, <2>3 DEF Created, Commit
  <2> HIDE DEF q
  <2>5. Evolves(store, t)
    BY <1>1, <2>2, SetOneWorker
  <2> HIDE DEF t
  <2>6. Evolves(t, u)
    BY <1>1, <2>5, CreatedWorkerEvolves, ConfigAssumption DEF Evolves
  <2> HIDE DEF u
  <2>7. Evolves(store, u)
    BY <2>5, <2>6, EvolvesTrans
  <2> QED BY <2>4, <2>7, CommitStep
<1>4. CASE \E review \in BOOLEAN, state \in {"unknown", "failed"} :
              CreateFailed(c, state, review)
  <2>1. PICK review \in BOOLEAN, state \in {"unknown", "failed"} :
          CreateFailed(c, state, review)
    BY <1>4
  <2> DEFINE q == NotCreated(store.workers[w], state)
             V == [store.workers EXCEPT ![w] = q]
             b == store.blocked \/ review
             t == [store EXCEPT !.workers = V, !.blocked = b,
                                !.nextCreate = CreateBackoff]
  <2>2. b \in BOOLEAN
    OBVIOUS
  <2>3. [store EXCEPT !.workers[w] = q,
                      !.blocked = @ \/ review, !.nextCreate = CreateBackoff] = t
    BY DEF Store
  <2>4. /\ store' = IF store.leader = c THEN t ELSE store
        /\ Goto(c, "idle", None)
    BY <2>1, <2>3 DEF CreateFailed, Commit
  <2> HIDE DEF b
  <2>5. q \in WorkerRecord
    <3>1. ASSUME NEW r \in WorkerRecord
          PROVE  NotCreated(r, state) \in WorkerRecord
      <4> DEFINE check == IF state = "unknown" THEN 1 ELSE r.nextCheck
      <4>1. check \in Nat /\ state \in WorkerState
        BY DEF WorkerRecord, WorkerState
      <4> HIDE DEF check
      <4>2. [r EXCEPT !.updated = 0, !.state = state, !.nextCheck = check]
              \in WorkerRecord
        BY <4>1 DEF WorkerRecord
      <4> QED BY <4>2 DEF NotCreated, check
    <3> QED BY <1>2, <3>1
  <2> HIDE DEF q
  <2>6. V \in [Worker -> WorkerRecord]
    BY <2>5, StoreParts
  <2> HIDE DEF V
  <2>7. t \in Store /\ t.allocs = store.allocs
    BY <2>2, <2>6, ConfigAssumption DEF Store
  <2> HIDE DEF t
  <2>8. Evolves(store, t)
    BY <2>7, EvolvesSame
  <2> QED BY <2>4, <2>8, CommitStep
<1> QED BY <1>3, <1>4

\* The steps of reconcileUnknown.
LEMMA AdoptStep ==
  ASSUME TypeOK, NEW c \in Controller,
         \/ Recreate(c)
         \/ \E ttl \in TTLs : Adopted(c, ttl)
         \/ \E review \in BOOLEAN : NotAdopted(c, review)
  PROVE  Evolves(store, store') /\ ctl' \in [Controller -> CtlRecord]
<1> USE DEF TypeOK
<1> DEFINE w == ctl[c].w
<1>1. w \in Worker
  BY CallWorker DEF Recreate, Adopted, NotAdopted, Commit, CallOp
<1>2. Evolves(store, store)
  BY EvolvesSame
<1>3. CASE Recreate(c)
  <2>1. Evolves(store, store')
    BY <1>3, LeadsEvolves DEF Recreate
  <2>2. [op |-> "recreate", w |-> w] \in CtlRecord
    BY <1>1, IdleTypes DEF CallOp
  <2> QED BY <1>3, <2>1, <2>2, GotoType DEF Recreate
<1>4. CASE \E ttl \in TTLs : Adopted(c, ttl)
  <2>1. PICK ttl \in TTLs : Adopted(c, ttl)
    BY <1>4
  <2> DEFINE t == StillUnknown(w, CreatedWorker(store, w, ttl))
  <2>2. /\ store' = IF store.leader = c THEN t ELSE store
        /\ Goto(c, "idle", None)
    BY <2>1 DEF Adopted, Commit
  <2>3. Evolves(store, CreatedWorker(store, w, ttl))
    BY <1>1, CreatedWorkerEvolves, ConfigAssumption
  <2>4. Evolves(store, t)
    BY <1>2, <2>3 DEF StillUnknown
  <2> HIDE DEF t
  <2> QED BY <2>2, <2>4, CommitStep
<1>5. CASE \E review \in BOOLEAN : NotAdopted(c, review)
  <2>1. PICK review \in BOOLEAN : NotAdopted(c, review)
    BY <1>5
  <2> DEFINE s == Rechecked(w)
             b == store.blocked \/ review
             q == [s EXCEPT !.blocked = b]
             t == StillUnknown(w, q)
  <2>2. Evolves(store, s) /\ b \in BOOLEAN
    BY <1>1, RecheckedEvolves
  <2>3. [store EXCEPT !.workers[w].nextCheck = ProviderPollSeconds,
                      !.blocked = @ \/ review] = q
    BY <1>1, StoreParts DEF Rechecked, Store
  <2>4. /\ store' = IF store.leader = c THEN t ELSE store
        /\ Goto(c, "idle", None)
    BY <2>1, <2>3 DEF NotAdopted, Commit
  <2> HIDE DEF s, b
  <2>5. q \in Store /\ q.allocs = s.allocs
    BY <2>2 DEF Evolves, Store
  <2> HIDE DEF q
  <2>6. Evolves(store, q)
    BY <2>2, <2>5, EvolvesSame, EvolvesTrans
  <2>7. Evolves(store, t)
    BY <1>2, <2>6 DEF StillUnknown
  <2> HIDE DEF t
  <2> QED BY <2>4, <2>7, CommitStep
<1> QED BY <1>3, <1>4, <1>5

\* The steps of poll.
LEMMA PollStep ==
  ASSUME TypeOK, NEW c \in Controller,
         \/ PollGone(c) \/ PollMismatch(c) \/ PollFailed(c)
         \/ \E status \in Statuses, ttl \in TTLs : Polled(c, status, ttl)
  PROVE  Evolves(store, store') /\ ctl' \in [Controller -> CtlRecord]
<1> DEFINE w == ctl[c].w
           r == Rechecked(w)
<1>1. w \in Worker
  BY CallWorker DEF PollGone, PollMismatch, PollFailed, Polled, Commit, CallOp
<1>2. Evolves(store, r)
  BY <1>1, RecheckedEvolves
<1>3. r \in Store
  BY <1>2 DEF Evolves
<1>4. CASE PollGone(c) \/ PollMismatch(c) \/ PollFailed(c)
  <2>1. PICK t \in {Stopped(r, {w}), Lost(r, {w}), r} :
          /\ store' = IF store.leader = c THEN t ELSE store
          /\ Goto(c, "idle", None)
    BY <1>4 DEF PollGone, PollMismatch, PollFailed, Commit
  <2> HIDE DEF r
  <2>2. Evolves(r, Stopped(r, {w})) /\ Evolves(r, Lost(r, {w})) /\ Evolves(r, r)
    BY <1>1, <1>3, CloseWorkersEvolves, EvolvesSame
    DEF Stopped, Lost, WorkerState
  <2>3. Evolves(store, t)
    BY <1>2, <2>1, <2>2, EvolvesTrans
  <2> QED BY <2>1, <2>3, CommitStep
<1>5. CASE \E status \in Statuses, ttl \in TTLs : Polled(c, status, ttl)
  <2>1. PICK status \in Statuses, ttl \in TTLs : Polled(c, status, ttl)
    BY <1>5
  <2> DEFINE t == ProviderLifetime(r, w, ttl)
             u == Observed(t, w, status)
  <2>2. /\ store' = IF store.leader = c THEN u ELSE store
        /\ Goto(c, "idle", None)
    BY <2>1 DEF Polled, Commit
  <2> HIDE DEF r
  <2>3. Evolves(r, t)
    BY <1>1, <1>3, ProviderLifetimeEvolves, ConfigAssumption
  <2> HIDE DEF t
  <2>4. Evolves(t, u)
    BY <1>1, <2>3, ObservedEvolves DEF Evolves
  <2> HIDE DEF u
  <2>5. Evolves(store, u)
    BY <1>2, <2>3, <2>4, EvolvesTrans
  <2> QED BY <2>2, <2>5, CommitStep
<1> QED BY <1>4, <1>5

\* The steps of stop.
LEMMA DeleteStep ==
  ASSUME TypeOK, NEW c \in Controller,
         DeleteFailed(c) \/ Deleted(c) \/ Confirmed(c) \/ Unconfirmed(c)
  PROVE  Evolves(store, store') /\ ctl' \in [Controller -> CtlRecord]
<1> DEFINE w == ctl[c].w
           r == Rechecked(w)
<1>1. w \in Worker
  BY CallWorker DEF DeleteFailed, Deleted, Confirmed, Unconfirmed, Commit, CallOp
<1>2. CASE Deleted(c)
  <2>1. Evolves(store, store')
    BY <1>2, EvolvesSame DEF Deleted, TypeOK
  <2>2. [op |-> "confirm", w |-> w] \in CtlRecord
    BY <1>1, IdleTypes DEF CallOp
  <2> QED BY <1>2, <2>1, <2>2, GotoType DEF Deleted
<1>3. CASE DeleteFailed(c) \/ Confirmed(c) \/ Unconfirmed(c)
  <2>1. Evolves(store, r)
    BY <1>1, RecheckedEvolves
  <2>2. PICK t \in {Stopped(r, {w}), r} :
          /\ store' = IF store.leader = c THEN t ELSE store
          /\ Goto(c, "idle", None)
    BY <1>3 DEF DeleteFailed, Confirmed, Unconfirmed, Commit
  <2> HIDE DEF r
  <2>3. Evolves(r, Stopped(r, {w}))
    BY <1>1, <2>1, CloseWorkersEvolves DEF Evolves, Stopped, WorkerState
  <2>4. Evolves(store, t)
    BY <2>1, <2>2, <2>3, EvolvesTrans
  <2> QED BY <2>2, <2>4, CommitStep
<1> QED BY <1>2, <1>3

\* What the controllers may change.
LEMMA ControlStep ==
  ASSUME TypeOK, NEW c \in Controller, Control(c)
  PROVE  Evolves(store, store') /\ ctl' \in [Controller -> CtlRecord]
<1>0. Evolves(store, store)
  BY EvolvesSame DEF TypeOK
<1>1. CASE Tick(c)
  BY <1>1, TickStepEvolves
<1>2. CASE Pick(c)
  <2>1. PICK w \in Worker : /\ DueOp(store.workers[w]) # "idle"
                            /\ Goto(c, DueOp(store.workers[w]), w)
    BY <1>2, Zenon DEF Pick
  <2>2. DueOp(store.workers[w]) \in CallOp
    BY <2>1 DEF DueOp, CallOp
  <2>3. [op |-> DueOp(store.workers[w]), w |-> w] \in CtlRecord
    BY <2>2, IdleTypes
  <2>4. Evolves(store, store')
    BY <1>2, LeadsEvolves DEF Pick, TypeOK
  <2> QED BY <2>1, <2>3, <2>4, GotoType
<1>3. CASE PickNothing(c) \/ Refused(c) \/ Abort(c)
  <2>1. store' = store /\ Goto(c, "idle", None)
    BY <1>3 DEF PickNothing, Refused, Abort
  <2> QED BY <1>0, <2>1, IdleTypes, GotoType
<1>4. CASE Start(c)
  <2> DEFINE w == ctl[c].w
             q == [store.workers[w] EXCEPT !.state = "starting", !.updated = 0]
  <2>1. w \in Worker
    BY <1>4, CallWorker DEF Start, CallOp
  <2>2. q \in WorkerRecord
    <3>1. store.workers[w] \in WorkerRecord
      BY <2>1, StoreParts DEF TypeOK
    <3> QED BY <3>1 DEF WorkerRecord, WorkerState
  <2>3. store' = [store EXCEPT !.workers[w] = q]
    BY <1>4, <2>1, StoreParts DEF Start, Store, TypeOK
  <2> HIDE DEF q
  <2>4. Evolves(store, [store EXCEPT !.workers[w] = q])
    BY <2>1, <2>2, SetOneWorker DEF TypeOK
  <2>5. [op |-> "create", w |-> w] \in CtlRecord
    BY <2>1, IdleTypes DEF CallOp
  <2> QED BY <1>4, <2>3, <2>4, <2>5, GotoType DEF Start
<1>5. CASE Stop(c)
  <2>1. ctl[c].w \in Worker
    BY <1>5, CallWorker DEF Stop, CallOp
  <2>2. [op |-> "delete", w |-> ctl[c].w] \in CtlRecord
    BY <2>1, IdleTypes DEF CallOp
  <2> QED BY <1>0, <1>5, <2>2, GotoType DEF Stop
<1>6. CASE Provider(c)
  BY <1>6, CreateStep, AdoptStep, PollStep, DeleteStep DEF Provider
<1>7. CASE Shutdown(c)
  <2>1. store' \in Store /\ store'.allocs = store.allocs
    BY <1>7 DEF Shutdown, TypeOK, Store
  <2> QED BY <1>7, <2>1, EvolvesSame DEF Shutdown, TypeOK
<1>8. CASE Crash(c)
  <2> DEFINE l == IF store.leader = c THEN None ELSE store.leader
  <2>1. l \in Controller \cup {None}
    BY StoreParts DEF TypeOK
  <2>2. store' = [store EXCEPT !.leader = l]
    BY <1>8 DEF Crash
  <2> HIDE DEF l
  <2>3. store' \in Store /\ store'.allocs = store.allocs
    BY <2>1, <2>2 DEF TypeOK, Store
  <2>4. Evolves(store, store')
    BY <2>3, EvolvesSame
  <2> QED BY <1>8, <2>4, IdleTypes, GotoType DEF Crash
<1> QED BY <1>1, <1>2, <1>3, <1>4, <1>5, <1>6, <1>7, <1>8
        DEF Control, Advance

\* Every step of the system lets allocations evolve legally or adds one whose
\* players are free.
LEMMA NextStep ==
  ASSUME TypeOK, [Next]_vars
  PROVE  /\ Evolves(store, store') \/ Adds(store, store')
         /\ ctl' \in [Controller -> CtlRecord]
<1>1. CASE Client
  BY <1>1, ClientStep DEF TypeOK
<1>2. CASE Process
  BY <1>2, ProcessStep DEF TypeOK
<1>3. CASE \E c \in Controller : Control(c)
  BY <1>3, ControlStep
<1>4. CASE Elapse
  BY <1>4, AgedEvolves DEF Elapse, TypeOK
<1>5. CASE UNCHANGED vars
  BY <1>5, EvolvesSame DEF vars, TypeOK
<1> QED BY <1>1, <1>2, <1>3, <1>4, <1>5 DEF Next

-----------------------------------------------------------------------------
(* Theorems *)

\* The initial states are well formed.
LEMMA InitType ==
  ASSUME Init
  PROVE  TypeOK
<1>1. NewStore \in Store
  BY EmptyRecords, ConfigAssumption DEF NewStore, Store
<1>2. Idle \in CtlRecord
  BY IdleTypes DEF Idle
<1> QED BY <1>1, <1>2 DEF Init, TypeOK

\* Every transaction writes a well-formed store, and a controller that is
\* between two transactions about a worker knows which worker
\* (state.State.Validate, Manager.Tick).
THEOREM TypeCorrect == Spec => []TypeOK
<1>1. Init => TypeOK
  BY InitType
<1>2. TypeOK /\ [Next]_vars => TypeOK'
  BY NextStep DEF TypeOK, Evolves, Adds
<1> QED BY <1>1, <1>2, PTL DEF Spec

\* No player is ever in two live allocations, for every number of requests,
\* players and controllers.  Inductive together with TypeOK: a step revives
\* no allocation and changes no player of a live one, and allocation() admits
\* only free players.
THEOREM OneAllocation == Spec => []OneLiveAllocationPerUser
<1> DEFINE Inv == TypeOK /\ OneLiveAllocationPerUser
<1>1. Init => Inv
  <2>1. ASSUME Init PROVE OneLiveAllocationPerUser
    BY <2>1 DEF Init, NewStore, NoAllocation, OneLiveAllocationPerUser, Live
  <2> QED BY <2>1, InitType
<1>2. Inv /\ [Next]_vars => Inv'
  <2> SUFFICES ASSUME Inv, [Next]_vars PROVE Inv'
    OBVIOUS
  <2>1. TypeOK'
    BY NextStep DEF TypeOK, Evolves, Adds
  <2>2. CASE Evolves(store, store')
    <3>1. OneLiveAllocationPerUser'
      BY <2>2 DEF Evolves, Legal, OneLiveAllocationPerUser
    <3> QED BY <2>1, <3>1
  <2>3. CASE Adds(store, store')
    <3>1. PICK a \in Allocation :
            /\ store.allocs[a].state = "none"
            /\ \A x \in Allocation \ {a} :
                 /\ Legal(store.allocs[x], store'.allocs[x])
                 /\ Live(store.allocs[x]) =>
                      store.allocs[x].users \cap store'.allocs[a].users = {}
      BY <2>3 DEF Adds
    <3>2. ASSUME NEW x \in Allocation, NEW y \in Allocation, x # y,
                 Live(store'.allocs[x]), Live(store'.allocs[y])
          PROVE  store'.allocs[x].users \cap store'.allocs[y].users = {}
      <4>1. CASE x # a /\ y # a
        BY <3>1, <3>2, <4>1 DEF Legal, OneLiveAllocationPerUser
      <4>2. CASE x = a
        BY <3>1, <3>2, <4>2 DEF Legal
      <4>3. CASE y = a
        BY <3>1, <3>2, <4>3 DEF Legal
      <4> QED BY <4>1, <4>2, <4>3
    <3>3. OneLiveAllocationPerUser'
      BY <3>2 DEF OneLiveAllocationPerUser
    <3> QED BY <2>1, <3>3
  <2> QED BY <2>2, <2>3, NextStep
<1> QED BY <1>1, <1>2, PTL DEF Spec

\* The outcome of an allocation never changes until its record is pruned,
\* whatever late heartbeats, provider answers and other controllers do.
THEOREM Finality == Spec => OutcomeIsFinal
<1> DEFINE Final == \A x \in Allocation :
                      store.allocs[x].state \in Terminal =>
                        store'.allocs[x].state \in {store.allocs[x].state, "none"}
<1>1. TypeOK /\ [Next]_vars => [Final]_vars
  <2> SUFFICES ASSUME TypeOK, [Next]_vars PROVE Final
    OBVIOUS
  <2>1. CASE Evolves(store, store')
    BY <2>1 DEF Evolves, Legal
  <2>2. CASE Adds(store, store')
    BY <2>2 DEF Adds, Legal, Terminal
  <2> QED BY <2>1, <2>2, NextStep
<1> QED BY <1>1, TypeCorrect, PTL DEF Spec, OutcomeIsFinal
=============================================================================
