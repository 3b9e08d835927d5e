------------------------------ MODULE FleetTick ------------------------------
(***************************************************************************)
(* The leader's transaction at the start of Manager.Tick                   *)
(* (pkg/fleetmanager/lifecycle.go:30-196), one operator per loop of the    *)
(* code, in the code's order.  Loops whose iterations do not affect each   *)
(* other are written as one simultaneous update; the two that do (placing  *)
(* the waiting requests, draining idle workers) are written as the set of  *)
(* results that the order of iteration can produce.                        *)
(***************************************************************************)
EXTENDS FleetStore

Sets == INSTANCE FiniteSetsExt

\* Lines 36-50: drain a worker near its provider expiry, give up waiting for
\* an interrupted create, suspect a silent worker, then declare it lost.
CheckedWorker(r) ==
  CASE r.state = "starting" /\ r.updated > InterruptedAfter ->
         [r EXCEPT !.state = "unknown"]
    [] r.state = "ready" /\ ~Fresh(r) -> [r EXCEPT !.state = "suspect"]
    [] OTHER -> r

Silent(r) ==
  /\ r.heartbeat # Never /\ r.heartbeat > LostTimeout
  /\ r.state \notin {"none", "stopped", "failed", "lost"}

CheckWorkers(s) ==
  LET ending == {w \in Worker : /\ s.workers[w].state = "ready"
                                /\ s.workers[w].life # Never
                                /\ s.workers[w].life <= MinLifetimeForAdmission}
      t == BeginDrain(s, ending)
      u == [t EXCEPT !.workers =
              [w \in Worker |-> CheckedWorker(t.workers[w])]]
  IN  Lost(u, {w \in Worker : Silent(u.workers[w])})

\* Lines 51-74: the requests this tick gives up.
HopelessPreference(s, a) ==
  /\ a.pref # None
  /\ s.workers[a.pref].state \in {"failed", "lost", "stopped"}
ReconnectExpired(a) ==
  a.state = "active" /\ \E u \in a.users : a.sessions[u].reconnect = 0
\* Mutant: a prepared room is not overdue.
OverdueUnlessPrepared(a) == a.state \notin {"active", "prepared"} /\ a.ttl = 0
Overdue(a) == a.state # "active" /\ a.ttl = 0
ExpireAllocations(s) ==
  CancelAll(s, {x \in Allocation :
                  LET a == s.allocs[x] IN
                  /\ Cancellable(a)
                  /\ \/ HopelessPreference(s, a)
                     \/ ReconnectExpired(a)
                     \/ Overdue(a)}, "other")

\* Lines 76-103: forget old terminal allocations, then old ended workers that
\* no live allocation refers to, with their commands.
PruneAllocations(s) ==
  [s EXCEPT !.allocs = [x \in Allocation |->
     IF s.allocs[x].state \in Terminal /\ s.allocs[x].ended > History
       THEN NoAllocation ELSE s.allocs[x]]]

PrunableWorkers(s) ==
  {w \in Worker :
     /\ \/ s.workers[w].state = "stopped"
        \/ s.workers[w].state = "failed" /\ ~s.workers[w].providerID
     /\ s.workers[w].updated > History
     /\ \A x \in Allocation : Live(s.allocs[x]) =>
           w \notin {s.allocs[x].worker, s.allocs[x].pref}}
PruneWorkers(s) ==
  LET W == PrunableWorkers(s) IN
  [s EXCEPT
     !.workers = [w \in Worker |-> IF w \in W THEN NoWorker ELSE s.workers[w]],
     !.commands = {c \in s.commands : c.worker \notin W}]

\* Lines 104-113: seat the players of prepared rooms on admitting workers.
ReservePrepared(s) ==
  [s EXCEPT !.allocs = [x \in Allocation |->
     LET a == s.allocs[x] IN
     IF a.state = "prepared" /\ a.worker # None /\ Eligible(s.workers[a.worker])
       THEN Reserved(a) ELSE a]]

\* Lines 114-128: the order in which waiting requests are placed.  ExpiresAt
\* of a waiting request is CreatedAt + AllocationTimeout, so the request with
\* the least time left is the oldest.
WaitingRequests(s) == {x \in Allocation : s.allocs[x].state = Waiting}
Before(s, x, y) ==
  LET a == s.allocs[x]
      b == s.allocs[y]
  IN  IF (a.pref # None) # (b.pref # None) THEN a.pref # None
      ELSE \/ a.ttl < b.ttl
           \/ a.ttl = b.ttl /\ x < y

\* Lines 129-141: P[x] is the fullest eligible worker with a room to spare,
\* counting the requests placed before x.
LoadBefore(s, P, x, w) ==
  Occupied(s, w) +
  Cardinality({y \in WaitingRequests(s) : Before(s, y, x) /\ P[y] = w})
\* Mutant: the requests placed earlier in the same tick are not counted.
FitsBeforeTick(s, P, x) ==
  {w \in Worker : /\ Eligible(s.workers[w])
                  /\ s.allocs[x].pref \in {None, w}
                  /\ Occupied(s, w) < s.workers[w].maxRooms}
Fits(s, P, x) ==
  {w \in Worker : /\ Eligible(s.workers[w])
                  /\ s.allocs[x].pref \in {None, w}
                  /\ LoadBefore(s, P, x, w) < s.workers[w].maxRooms}
Placements(s) ==
  {P \in [WaitingRequests(s) -> Worker \cup {None}] :
     \A x \in WaitingRequests(s) :
        IF Fits(s, P, x) = {} THEN P[x] = None
        ELSE /\ P[x] \in Fits(s, P, x)
             /\ \A w \in Fits(s, P, x) :
                  \/ LoadBefore(s, P, x, w) < LoadBefore(s, P, x, P[x])
                  \/ /\ LoadBefore(s, P, x, w) = LoadBefore(s, P, x, P[x])
                     /\ P[x] <= w}

\* Lines 142-152.
Place(s, P) ==
  LET placed == {x \in WaitingRequests(s) : P[x] # None} IN
  [s EXCEPT
     !.allocs = [x \in Allocation |->
        IF x \in placed
          THEN [s.allocs[x] EXCEPT !.worker = P[x], !.state = "preparing",
                                   !.ttl = PrepareTimeout]
          ELSE s.allocs[x]],
     !.workers = [w \in Worker |->
        IF \E x \in placed : P[x] = w
          THEN [s.workers[w] EXCEPT !.idle = Never] ELSE s.workers[w]],
     !.commands = s.commands \cup {PrepareCommand(x, P[x]) : x \in placed}]

\* Lines 153-174: one new worker when the queue outgrows the workers that are
\* still booting, or when fewer than MinInstances are ready and none boots.
Queued(s) == {x \in WaitingRequests(s) : s.allocs[x].pref = None}
ReadyWorkers(s) ==
  {w \in Worker : s.workers[w].state = "ready" /\ ~s.workers[w].draining}
BootCapacity(s) ==
  Sets!MapThenSumSet(LAMBDA w : s.workers[w].maxRooms,
    {w \in Worker : /\ s.workers[w].state \in {"requested", "starting",
                                               "launching", "bootstrapping"}
                    /\ s.workers[w].born < LaunchTimeout})
WantsWorker(s) ==
  /\ ~s.blocked /\ s.nextCreate = 0
  /\ Cardinality(LiveWorkers(s)) < MaxInstances
  /\ \/ Cardinality(Queued(s)) > BootCapacity(s)
     \/ Cardinality(ReadyWorkers(s)) < MinInstances /\ BootCapacity(s) = 0
\* The id sets are finite in a model: with no unused id left nothing is
\* created.
ScaleUps(s, unused) ==
  IF WantsWorker(s) /\ unused # {}
    THEN {[NewWorkerIn(s, w, s.rooms) EXCEPT !.nextCreate = CreateSpacing] :
            w \in unused}
    ELSE {s}

\* Lines 175-194: start the idle clock of empty workers; while nothing is
\* queued drain those idle for IdleSeconds, down to MinInstances; hand a
\* drained and empty worker over to deletion.
IdleClock(s, w) ==
  LET r == s.workers[w] IN
  IF r.state = "ready" /\ ~r.draining
    THEN [r EXCEPT !.idle = IF LiveOn(s, w) # {} THEN Never
                            ELSE IF r.idle = Never THEN 0 ELSE r.idle]
    ELSE r
SurplusWorkers(s) ==
  {w \in ReadyWorkers(s) : LiveOn(s, w) = {} /\ s.workers[w].idle >= IdleSeconds}
\* Mutant: one worker too many.
DrainChoicesOffByOne(s) ==
  IF Queued(s) # {} THEN {{}}
  ELSE LET spare == Cardinality(ReadyWorkers(s)) - MinInstances + 1 IN
       {D \in SUBSET SurplusWorkers(s) :
          /\ Cardinality(D) <= spare \/ D = {}
          /\ Cardinality(D) >= spare \/ D = SurplusWorkers(s)}
DrainChoices(s) ==
  IF Queued(s) # {} THEN {{}}
  ELSE LET spare == Cardinality(ReadyWorkers(s)) - MinInstances IN
       {D \in SUBSET SurplusWorkers(s) :
          /\ Cardinality(D) <= spare \/ D = {}
          /\ Cardinality(D) >= spare \/ D = SurplusWorkers(s)}
StopDrained(s) ==
  [s EXCEPT !.workers = [w \in Worker |->
     IF s.workers[w].state = "draining" /\ DrainedEmpty(s, w)
       THEN [s.workers[w] EXCEPT !.state = "stopping", !.nextCheck = 0]
       ELSE s.workers[w]]]
ScaleDowns(s) ==
  LET t == [s EXCEPT !.workers = [w \in Worker |-> IdleClock(s, w)]]
  IN  {StopDrained(BeginDrain(t, D)) : D \in DrainChoices(t)}

\* The passes before the two that have several outcomes.
Maintained(s) ==
  ReservePrepared(PruneWorkers(PruneAllocations(
    ExpireAllocations(CheckWorkers(s)))))
=============================================================================
