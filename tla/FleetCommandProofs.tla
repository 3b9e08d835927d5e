-------------------------- MODULE FleetCommandProofs --------------------------
(***************************************************************************)
(* Commands, seats, sessions and scaling down: what FleetManager           *)
(* guarantees to the host of a room and to the two players in it, for      *)
(* every configuration and every number of workers, players and            *)
(* controllers, and how many ready workers a tick leaves.                  *)
(*                                                                         *)
(* The commands of a store are Matched to its rooms when exactly one       *)
(* prepare_room exists for every room being prepared, exactly one          *)
(* cancel_room for every room being cancelled, and none for other rooms.   *)
(* Uniqueness is what makes it inductive: one answer must settle a room.   *)
(* Inside the transaction of a heartbeat the two halves are broken for the *)
(* rooms whose commands were just answered and restored by the passes that *)
(* follow, so Asks carries the set of rooms that are exempt.               *)
(***************************************************************************)
EXTENDS FleetSafetyProofs

Asks(s, type, state, exempt) ==
  /\ \A c \in s.commands : c.type = type =>
       /\ c.alloc \in Allocation \ exempt
       /\ s.allocs[c.alloc].state = state
       /\ s.allocs[c.alloc].worker = c.worker
  /\ \A c, d \in s.commands :
       c.type = type /\ d.type = type /\ c.alloc = d.alloc => c = d
  /\ \A x \in Allocation \ exempt : s.allocs[x].state = state =>
       \E c \in s.commands : c.type = type /\ c.alloc = x

Matched(s) ==
  /\ Asks(s, "prepare_room", "preparing", {})
  /\ Asks(s, "cancel_room", "cancelling", {})

\* Each player of an active room is connected or has a deadline.
Timed(a) ==
  a.state = "active" =>
    \A u \in a.users : /\ a.sessions[u].ever
                       /\ a.sessions[u].connected <=> a.sessions[u].reconnect = Never

\* How a pass that grants no seat may change an allocation.
Settles(a, b) ==
  /\ Timed(a) => Timed(b)
  /\ b.state = "assigned" => a.state = "assigned"

\* A pass that grants no seat and keeps commands matched.
Heeds(s, t) ==
  /\ Matched(s) => Matched(t)
  /\ \A x \in Allocation : Settles(s.allocs[x], t.allocs[x])

-----------------------------------------------------------------------------
(* Composition *)

\* An allocation that is as it was, or that is neither assigned nor active
\* now.
LEMMA SettlesState ==
  ASSUME NEW a, NEW b, b = a \/ b.state \notin {"assigned", "active"}
  PROVE  Settles(a, b)
BY DEF Settles, Timed

\* The passes of a transaction compose.
LEMMA HeedsTrans ==
  ASSUME NEW s, NEW t, NEW u, Heeds(s, t), Heeds(t, u)
  PROVE  Heeds(s, u)
BY DEF Heeds, Settles

\* A pass that changes workers only.
LEMMA HeedsWorkers ==
  ASSUME NEW s, NEW t, t.allocs = s.allocs, t.commands = s.commands
  PROVE  Heeds(s, t)
<1>1. \A x \in Allocation : Settles(s.allocs[x], t.allocs[x])
  BY SettlesState
<1>2. Matched(s) => Matched(t)
  BY DEF Matched, Asks
<1> QED BY <1>1, <1>2 DEF Heeds

\* A state in which a room waits for its host.
Pending == {"preparing", "cancelling"}

\* A pass that leaves the commands for rooms, and the rooms that wait for
\* their host, as they are.
LEMMA MatchedSame ==
  ASSUME NEW s, NEW t, Matched(s),
         \A c \in s.commands : c.type # "drain" => c \in t.commands,
         \A c \in t.commands : c.type # "drain" => c \in s.commands,
         \A x \in Allocation :
           \/ /\ t.allocs[x].state = s.allocs[x].state
              /\ t.allocs[x].worker = s.allocs[x].worker
           \/ /\ s.allocs[x].state \notin Pending
              /\ t.allocs[x].state \notin Pending
  PROVE  Matched(t)
<1>1. ASSUME NEW type \in {"prepare_room", "cancel_room"}, NEW state \in Pending,
             Asks(s, type, state, {})
      PROVE  Asks(t, type, state, {})
  <2>1. ASSUME NEW c \in t.commands, c.type = type
        PROVE  /\ c.alloc \in Allocation
               /\ t.allocs[c.alloc].state = state
               /\ t.allocs[c.alloc].worker = c.worker
    <3>1. c \in s.commands
      BY <1>1, <2>1
    <3>2. /\ c.alloc \in Allocation /\ s.allocs[c.alloc].state = state
          /\ s.allocs[c.alloc].worker = c.worker
      BY <1>1, <2>1, <3>1 DEF Asks
    <3> QED BY <1>1, <3>2
  <2>2. ASSUME NEW c \in t.commands, NEW d \in t.commands,
               c.type = type, d.type = type, c.alloc = d.alloc
        PROVE  c = d
    <3>1. c \in s.commands /\ d \in s.commands
      BY <1>1, <2>2
    <3> QED BY <1>1, <2>2, <3>1 DEF Asks
  <2>3. ASSUME NEW x \in Allocation, t.allocs[x].state = state
        PROVE  \E c \in t.commands : c.type = type /\ c.alloc = x
    <3>1. s.allocs[x].state = state
      BY <1>1, <2>3
    <3>2. PICK c \in s.commands : c.type = type /\ c.alloc = x
      BY <1>1, <3>1 DEF Asks
    <3> QED BY <1>1, <3>2
  <2> QED BY <2>1, <2>2, <2>3 DEF Asks
<1> QED BY <1>1 DEF Matched, Pending

-----------------------------------------------------------------------------
(* The passes that withdraw commands *)

\* The record of a cancelled allocation: with a host it waits for the host.
LEMMA CancelledState ==
  ASSUME NEW a \in AllocationRecord, NEW reason
  PROVE  /\ Cancelled(a, reason).worker = a.worker
         /\ a.worker # None => Cancelled(a, reason).state = "cancelling"
         /\ a.worker = None => Cancelled(a, reason).state \in Terminal
BY DEF Cancelled, Finish, AllocationRecord, Terminal

\* The commands that cancelling leaves: preparations of the cancelled rooms
\* are withdrawn, a cancellation is added for each that has a host.
LEMMA CancelAllCommands ==
  ASSUME NEW s \in Store, NEW X \in SUBSET Allocation, NEW reason
  PROVE  LET t == CancelAll(s, X, reason) IN
         /\ \A c \in t.commands :
              \/ /\ c \in s.commands
                 /\ ~(/\ c.type = "prepare_room" /\ c.alloc \in X
                      /\ Cancellable(s.allocs[c.alloc]))
              \/ \E x \in X : /\ Cancellable(s.allocs[x])
                              /\ s.allocs[x].worker # None
                              /\ c = CancelCommand(x, s.allocs[x].worker)
         /\ \A c \in s.commands :
              \/ c \in t.commands
              \/ /\ c.type = "prepare_room" /\ c.alloc \in X
                 /\ Cancellable(s.allocs[c.alloc])
         /\ \A x \in X : Cancellable(s.allocs[x]) /\ s.allocs[x].worker # None =>
              CancelCommand(x, s.allocs[x].worker) \in t.commands
<1> DEFINE Y == {x \in X : Cancellable(s.allocs[x])}
           A == [x \in Allocation |->
                   IF x \in Y THEN Cancelled(s.allocs[x], reason)
                              ELSE s.allocs[x]]
           C == {c \in s.commands : ~(c.type = "prepare_room" /\ c.alloc \in Y)}
                  \cup {CancelCommand(x, s.allocs[x].worker) :
                          x \in {y \in Y : s.allocs[y].worker # None}}
           t == [s EXCEPT !.allocs = A, !.commands = C]
<1>1. CancelAll(s, X, reason) = t
  BY DEF CancelAll
<1>2. /\ \A c \in C :
           \/ /\ c \in s.commands
              /\ ~(/\ c.type = "prepare_room" /\ c.alloc \in X
                   /\ Cancellable(s.allocs[c.alloc]))
           \/ \E x \in X : /\ Cancellable(s.allocs[x])
                           /\ s.allocs[x].worker # None
                           /\ c = CancelCommand(x, s.allocs[x].worker)
      /\ \A c \in s.commands :
           \/ c \in C
           \/ /\ c.type = "prepare_room" /\ c.alloc \in X
              /\ Cancellable(s.allocs[c.alloc])
      /\ \A x \in X : Cancellable(s.allocs[x]) /\ s.allocs[x].worker # None =>
           CancelCommand(x, s.allocs[x].worker) \in C
  OBVIOUS
<1> HIDE DEF A, C
<1>3. t.commands = C
  BY DEF Store
<1> QED BY <1>1, <1>2, <1>3

\* Cancelling keeps commands matched, rooms whose cancellation was just
\* answered staying exempt.
LEMMA CancelAllAsks ==
  ASSUME NEW s \in Store, NEW X \in SUBSET Allocation, NEW reason,
         NEW E, NEW F,
         Asks(s, "prepare_room", "preparing", E),
         Asks(s, "cancel_room", "cancelling", F),
         \A x \in X : Cancellable(s.allocs[x]) => x \notin F
  PROVE  /\ Asks(CancelAll(s, X, reason), "prepare_room", "preparing", E)
         /\ Asks(CancelAll(s, X, reason), "cancel_room", "cancelling", F)
<1> DEFINE t == CancelAll(s, X, reason)
<1>1. /\ \A c \in t.commands :
           \/ /\ c \in s.commands
              /\ ~(/\ c.type = "prepare_room" /\ c.alloc \in X
                   /\ Cancellable(s.allocs[c.alloc]))
           \/ \E x \in X : /\ Cancellable(s.allocs[x])
                           /\ s.allocs[x].worker # None
                           /\ c = CancelCommand(x, s.allocs[x].worker)
      /\ \A c \in s.commands :
           \/ c \in t.commands
           \/ /\ c.type = "prepare_room" /\ c.alloc \in X
              /\ Cancellable(s.allocs[c.alloc])
      /\ \A x \in X : Cancellable(s.allocs[x]) /\ s.allocs[x].worker # None =>
           CancelCommand(x, s.allocs[x].worker) \in t.commands
  BY CancelAllCommands
<1>2. \A x \in Allocation :
         t.allocs[x] = IF x \in X /\ Cancellable(s.allocs[x])
                         THEN Cancelled(s.allocs[x], reason) ELSE s.allocs[x]
  BY CancelAllShape
<1> HIDE DEF t
<1>3. \A x \in Allocation : x \in X /\ Cancellable(s.allocs[x]) =>
         /\ t.allocs[x].state # "preparing"
         /\ t.allocs[x].worker = s.allocs[x].worker
         /\ t.allocs[x].worker # None <=> t.allocs[x].state = "cancelling"
  BY <1>2, CancelledState, StoreParts DEF Terminal
<1>4. \A x \in Allocation : ~(x \in X /\ Cancellable(s.allocs[x])) =>
         t.allocs[x] = s.allocs[x]
  BY <1>2
<1>5. \A x, v : /\ CancelCommand(x, v).type = "cancel_room"
                /\ CancelCommand(x, v).alloc = x
                /\ CancelCommand(x, v).worker = v
  BY DEF CancelCommand
<1>6. \A x : s.allocs[x].state = "cancelling" => ~Cancellable(s.allocs[x])
  BY DEF Cancellable
<1>7. Asks(t, "prepare_room", "preparing", E)
  <2>1. \A c \in t.commands : c.type = "prepare_room" =>
          /\ c \in s.commands
          /\ ~(c.alloc \in X /\ Cancellable(s.allocs[c.alloc]))
    BY <1>1, <1>5
  <2>2. ASSUME NEW c \in t.commands, c.type = "prepare_room"
        PROVE  /\ c.alloc \in Allocation \ E
               /\ t.allocs[c.alloc].state = "preparing"
               /\ t.allocs[c.alloc].worker = c.worker
    BY <1>4, <2>1, <2>2 DEF Asks
  <2>3. ASSUME NEW x \in Allocation \ E, t.allocs[x].state = "preparing"
        PROVE  \E c \in t.commands : c.type = "prepare_room" /\ c.alloc = x
    <3>1. ~(x \in X /\ Cancellable(s.allocs[x])) /\ s.allocs[x].state = "preparing"
      BY <1>3, <1>4, <2>3
    <3>2. PICK c \in s.commands : c.type = "prepare_room" /\ c.alloc = x
      BY <3>1 DEF Asks
    <3> QED BY <1>1, <3>1, <3>2
  <2>4. ASSUME NEW c \in t.commands, NEW d \in t.commands, c.alloc = d.alloc,
               c.type = "prepare_room", d.type = "prepare_room"
        PROVE  c = d
    BY <2>1, <2>4 DEF Asks
  <2> QED BY <2>2, <2>3, <2>4 DEF Asks
<1>8. Asks(t, "cancel_room", "cancelling", F)
  <2>1. ASSUME NEW c \in t.commands, c.type = "cancel_room"
        PROVE  \/ /\ c \in s.commands
                  /\ ~(c.alloc \in X /\ Cancellable(s.allocs[c.alloc]))
               \/ /\ c.alloc \in X /\ Cancellable(s.allocs[c.alloc])
                  /\ s.allocs[c.alloc].worker # None
                  /\ c = CancelCommand(c.alloc, s.allocs[c.alloc].worker)
    <3>1. CASE c \in s.commands
      BY <1>6, <2>1, <3>1 DEF Asks
    <3>2. CASE c \notin s.commands
      BY <1>1, <1>5, <3>2
    <3> QED BY <3>1, <3>2
  <2>2. ASSUME NEW c \in t.commands, c.type = "cancel_room"
        PROVE  /\ c.alloc \in Allocation \ F
               /\ t.allocs[c.alloc].state = "cancelling"
               /\ t.allocs[c.alloc].worker = c.worker
    <3>1. CASE /\ c \in s.commands
               /\ ~(c.alloc \in X /\ Cancellable(s.allocs[c.alloc]))
      BY <1>4, <2>2, <3>1 DEF Asks
    <3>2. CASE /\ c.alloc \in X /\ Cancellable(s.allocs[c.alloc])
               /\ s.allocs[c.alloc].worker # None
               /\ c = CancelCommand(c.alloc, s.allocs[c.alloc].worker)
      <4>1. c.worker = s.allocs[c.alloc].worker
        BY <1>5, <3>2
      <4> QED BY <1>3, <3>2, <4>1
    <3> QED BY <2>1, <2>2, <3>1, <3>2
  <2>3. ASSUME NEW x \in Allocation \ F, t.allocs[x].state = "cancelling"
        PROVE  \E c \in t.commands : c.type = "cancel_room" /\ c.alloc = x
    <3>1. CASE x \in X /\ Cancellable(s.allocs[x])
      BY <1>1, <1>3, <1>5, <2>3, <3>1
    <3>2. CASE ~(x \in X /\ Cancellable(s.allocs[x]))
      <4>1. PICK c \in s.commands : c.type = "cancel_room" /\ c.alloc = x
        BY <1>4, <2>3, <3>2 DEF Asks
      <4> QED BY <1>1, <4>1
    <3> QED BY <3>1, <3>2
  <2>4. ASSUME NEW c \in t.commands, NEW d \in t.commands, c.alloc = d.alloc,
               c.type = "cancel_room", d.type = "cancel_room"
        PROVE  c = d
    BY <2>1, <2>4 DEF Asks
  <2> QED BY <2>2, <2>3, <2>4 DEF Asks
<1> QED BY <1>7, <1>8 DEF t

\* Cancelling heeds its rooms.
LEMMA CancelAllHeeds ==
  ASSUME NEW s \in Store, NEW X \in SUBSET Allocation, NEW reason
  PROVE  Heeds(s, CancelAll(s, X, reason))
<1> DEFINE t == CancelAll(s, X, reason)
<1>1. Matched(s) => Matched(t)
  BY CancelAllAsks DEF Matched
<1>2. \A x \in Allocation :
         t.allocs[x] = IF x \in X /\ Cancellable(s.allocs[x])
                         THEN Cancelled(s.allocs[x], reason) ELSE s.allocs[x]
  BY CancelAllShape
<1> HIDE DEF t
<1>3. ASSUME NEW x \in Allocation
      PROVE  t.allocs[x] = s.allocs[x]
             \/ t.allocs[x].state \notin {"assigned", "active"}
  BY <1>2, CancelledState, StoreParts DEF Terminal
<1>4. Heeds(s, t)
  BY <1>1, <1>3, SettlesState DEF Heeds
<1> QED BY <1>4 DEF t

\* Closing workers ends their rooms and withdraws their commands.
LEMMA CloseWorkersHeeds ==
  ASSUME NEW s \in Store, NEW W \in SUBSET Worker, NEW state
  PROVE  Heeds(s, CloseWorkers(s, W, state))
<1> DEFINE t == CloseWorkers(s, W, state)
           Ends(x) == Live(s.allocs[x]) /\ s.allocs[x].worker \in W
<1>1. /\ \A x \in Allocation :
           t.allocs[x] = IF Ends(x) THEN Finish(s.allocs[x], "failed", "other")
                         ELSE s.allocs[x]
      /\ t.commands = {c \in s.commands : c.worker \notin W}
  BY CloseWorkersShape
<1> HIDE DEF t
<1>2. \A x \in Allocation : Ends(x) => t.allocs[x].state = "failed"
  <2> SUFFICES ASSUME NEW x \in Allocation, Ends(x)
               PROVE  t.allocs[x].state = "failed"
    OBVIOUS
  <2>1. "failed" \in Terminal /\ s.allocs[x] \in AllocationRecord
    BY StoreParts DEF Terminal
  <2>2. Finish(s.allocs[x], "failed", "other").state = "failed"
    BY <2>1, CancelledKeeps
  <2> QED BY <1>1, <2>2
<1>3. \A x \in Allocation : ~Ends(x) => t.allocs[x] = s.allocs[x]
  BY <1>1
<1>4. ASSUME NEW type, NEW phase \in Pending, Asks(s, type, phase, {})
      PROVE  Asks(t, type, phase, {})
  <2>1. ASSUME NEW c \in t.commands, c.type = type
        PROVE  /\ c.alloc \in Allocation
               /\ t.allocs[c.alloc].state = phase
               /\ t.allocs[c.alloc].worker = c.worker
    <3>1. c \in s.commands /\ c.worker \notin W
      BY <1>1
    <3>2. /\ c.alloc \in Allocation /\ s.allocs[c.alloc].state = phase
          /\ s.allocs[c.alloc].worker = c.worker
      BY <1>4, <2>1, <3>1 DEF Asks
    <3> QED BY <1>3, <3>1, <3>2
  <2>2. ASSUME NEW x \in Allocation, t.allocs[x].state = phase
        PROVE  \E c \in t.commands : c.type = type /\ c.alloc = x
    <3>1. ~Ends(x) /\ s.allocs[x].state = phase
      BY <1>2, <1>3, <2>2 DEF Pending
    <3>2. s.allocs[x].worker \notin W
      BY <3>1 DEF Pending, Live, Terminal
    <3>3. PICK c \in s.commands : c.type = type /\ c.alloc = x
      BY <1>4, <3>1 DEF Asks
    <3>4. c.worker = s.allocs[x].worker
      BY <1>4, <3>3 DEF Asks
    <3> QED BY <1>1, <3>2, <3>3, <3>4
  <2>3. \A c, d \in t.commands :
           c.type = type /\ d.type = type /\ c.alloc = d.alloc => c = d
    BY <1>1, <1>4 DEF Asks
  <2> QED BY <2>1, <2>2, <2>3 DEF Asks
<1>5. Matched(s) => Matched(t)
  BY <1>4 DEF Matched, Pending
<1>6. Heeds(s, t)
  BY <1>2, <1>3, <1>5, SettlesState DEF Heeds
<1> QED BY <1>6 DEF t

\* Draining adds commands for workers only.
LEMMA BeginDrainHeeds ==
  ASSUME NEW s \in Store, NEW W \in SUBSET Worker
  PROVE  Heeds(s, BeginDrain(s, W))
<1> DEFINE t == BeginDrain(s, W)
<1>1. /\ t.allocs = s.allocs /\ s.commands \subseteq t.commands
      /\ \A c \in t.commands \ s.commands : c.type = "drain"
  BY BeginDrainShape
<1> HIDE DEF t
<1>2. Matched(s) => Matched(t)
  BY <1>1, MatchedSame
<1>3. Heeds(s, t)
  BY <1>1, <1>2, SettlesState DEF Heeds
<1> QED BY <1>3 DEF t

-----------------------------------------------------------------------------
(* Seats *)

\* What the property asks of a worker on which seats are granted.
Admits(r) ==
  /\ r.state = "ready" /\ ~r.draining /\ Fresh(r)
  /\ r.life # Never => r.life > MinLifetimeForAdmission

\* Seats are granted only where the worker admits players.
SeatsOK(s, t) ==
  \A x \in Allocation :
    t.allocs[x].state = "assigned" /\ s.allocs[x].state # "assigned" =>
      t.allocs[x].worker \in Worker /\ Admits(t.workers[t.allocs[x].worker])

\* A whole transaction: commands stay matched, absences timed, and seats are
\* granted where they may be.
Serves(s, t) ==
  /\ Matched(s) => Matched(t)
  /\ \A x \in Allocation : Timed(s.allocs[x]) => Timed(t.allocs[x])
  /\ SeatsOK(s, t)

\* A later pass leaves seats, and the workers of live rooms that admit
\* players, as they are.
SparesSeats(s, t) ==
  /\ \A x \in Allocation : t.allocs[x].state = "assigned" =>
       t.allocs[x].worker = s.allocs[x].worker
  /\ \A w \in Worker : Admits(s.workers[w]) /\ LiveOn(s, w) # {} =>
       Admits(t.workers[w])

\* An eligible worker admits players.
LEMMA EligibleAdmits ==
  ASSUME NEW r, Eligible(r)
  PROVE  Admits(r)
BY DEF Eligible, Admits

\* A transaction that grants no seat.
LEMMA HeedsServes ==
  ASSUME NEW s, NEW t, Heeds(s, t)
  PROVE  Serves(s, t)
BY DEF Heeds, Settles, Serves, SeatsOK

\* Passes before the one that grants seats.
LEMMA ServesAfter ==
  ASSUME NEW s, NEW t, NEW u, Heeds(s, t), Serves(t, u)
  PROVE  Serves(s, u)
BY DEF Heeds, Settles, Serves, SeatsOK

\* Passes after the one that grants seats.
LEMMA ServesBefore ==
  ASSUME NEW s, NEW t, NEW u, Serves(s, t), Heeds(t, u), SparesSeats(t, u)
  PROVE  Serves(s, u)
<1>1. SeatsOK(s, u)
  <2> SUFFICES ASSUME NEW x \in Allocation, u.allocs[x].state = "assigned",
                      s.allocs[x].state # "assigned"
               PROVE  /\ u.allocs[x].worker \in Worker
                      /\ Admits(u.workers[u.allocs[x].worker])
    BY DEF SeatsOK
  <2> DEFINE w == t.allocs[x].worker
  <2>1. t.allocs[x].state = "assigned" /\ u.allocs[x].worker = w
    BY DEF Heeds, Settles, SparesSeats
  <2>2. w \in Worker /\ Admits(t.workers[w])
    BY <2>1 DEF Serves, SeatsOK
  <2>3. x \in LiveOn(t, w)
    BY <2>1 DEF LiveOn, Live, Terminal
  <2> QED BY <2>1, <2>2, <2>3 DEF SparesSeats
<1> QED BY <1>1 DEF Serves, Heeds, Settles

-----------------------------------------------------------------------------
(* The passes of a tick *)

\* CheckWorkers drains and closes workers.
LEMMA CheckWorkersHeeds ==
  ASSUME NEW s \in Store
  PROVE  Heeds(s, CheckWorkers(s))
<1> DEFINE ending == {w \in Worker :
                        /\ s.workers[w].state = "ready"
                        /\ s.workers[w].life # Never
                        /\ s.workers[w].life <= MinLifetimeForAdmission}
           t == BeginDrain(s, ending)
           V == [w \in Worker |-> CheckedWorker(t.workers[w])]
           u == [t EXCEPT !.workers = V]
           silent == {w \in Worker : Silent(u.workers[w])}
<1>1. t \in Store /\ Heeds(s, t)
  BY BeginDrainEvolves, BeginDrainHeeds DEF Evolves
<1>2. CheckWorkers(s) = CloseWorkers(u, silent, "lost")
  BY DEF CheckWorkers, Lost
<1> HIDE DEF t
<1>3. V \in [Worker -> WorkerRecord]
  BY <1>1, StoreParts, CheckedWorkerMoves
<1> HIDE DEF V
<1>4. u \in Store /\ u.allocs = t.allocs /\ u.commands = t.commands
  BY <1>1, <1>3 DEF Store
<1> HIDE DEF u
<1>5. Heeds(t, u)
  BY <1>4, HeedsWorkers
<1>6. Heeds(u, CloseWorkers(u, silent, "lost"))
  BY <1>4, CloseWorkersHeeds
<1> QED BY <1>1, <1>2, <1>5, <1>6, HeedsTrans

\* Forgetting old allocations.
LEMMA PruneAllocationsHeeds ==
  ASSUME NEW s \in Store
  PROVE  Heeds(s, PruneAllocations(s))
<1> DEFINE A == [x \in Allocation |->
                   IF s.allocs[x].state \in Terminal /\ s.allocs[x].ended > History
                     THEN NoAllocation ELSE s.allocs[x]]
           t == [s EXCEPT !.allocs = A]
<1>1. PruneAllocations(s) = t
  BY DEF PruneAllocations
<1>2. \A x \in Allocation :
         \/ A[x] = s.allocs[x]
         \/ A[x] = NoAllocation /\ s.allocs[x].state \in Terminal
  OBVIOUS
<1> HIDE DEF A
<1>3. t.commands = s.commands /\ t.allocs = A
  BY DEF Store
<1>4. NoAllocation.state = "none"
  BY DEF NoAllocation
<1> HIDE DEF t
<1>5. \A x \in Allocation : \/ t.allocs[x] = s.allocs[x]
                            \/ /\ t.allocs[x].state = "none"
                               /\ s.allocs[x].state \in Terminal
  BY <1>2, <1>3, <1>4
<1>6. Matched(s) => Matched(t)
  BY <1>3, <1>5, MatchedSame DEF Pending, Terminal
<1>7. Heeds(s, t)
  BY <1>5, <1>6, SettlesState DEF Heeds
<1> QED BY <1>1, <1>7

\* Forgetting old workers withdraws no command for a room: a worker with a
\* room that is not over is kept.
LEMMA PruneWorkersHeeds ==
  ASSUME NEW s \in Store
  PROVE  Heeds(s, PruneWorkers(s))
<1> DEFINE W == PrunableWorkers(s)
           V == [w \in Worker |-> IF w \in W THEN NoWorker ELSE s.workers[w]]
           C == {c \in s.commands : c.worker \notin W}
           t == [s EXCEPT !.workers = V, !.commands = C]
<1>1. PruneWorkers(s) = t
  BY DEF PruneWorkers
<1>2. \A w \in W, x \in Allocation : Live(s.allocs[x]) => s.allocs[x].worker # w
  BY DEF PrunableWorkers
<1> HIDE DEF V, W
<1>3. t.allocs = s.allocs /\ t.commands = C
  BY DEF Store
<1>4. ASSUME Matched(s)
      PROVE  Matched(t)
  <2>1. \A c \in s.commands : c.type # "drain" => c \in t.commands
    <3> SUFFICES ASSUME NEW c \in s.commands, c.type # "drain"
                 PROVE  c.worker \notin W
      BY <1>3
    <3>1. c.type \in {"prepare_room", "cancel_room"}
      BY StoreParts DEF Command
    <3>2. /\ c.alloc \in Allocation /\ s.allocs[c.alloc].worker = c.worker
          /\ s.allocs[c.alloc].state \in Pending
      BY <1>4, <3>1 DEF Matched, Asks, Pending
    <3>3. Live(s.allocs[c.alloc])
      BY <3>2 DEF Pending, Live, Terminal
    <3> QED BY <1>2, <3>2, <3>3
  <2>2. \A c \in t.commands : c \in s.commands
    BY <1>3
  <2> HIDE DEF t
  <2> QED BY <1>3, <1>4, <2>1, <2>2, MatchedSame
<1> HIDE DEF t
<1>5. Heeds(s, t)
  BY <1>3, <1>4, SettlesState DEF Heeds
<1> QED BY <1>1, <1>5

\* What a seat's record holds.
LEMMA ReservedFields ==
  ASSUME NEW a \in AllocationRecord
  PROVE  Reserved(a).state = "assigned" /\ Reserved(a).worker = a.worker
BY DEF Reserved, AllocationRecord

\* Seats are granted on eligible workers.
LEMMA ReservePreparedServes ==
  ASSUME NEW s \in Store
  PROVE  Serves(s, ReservePrepared(s))
<1> DEFINE t == ReservePrepared(s)
           Sits(x) == /\ s.allocs[x].state = "prepared" /\ s.allocs[x].worker # None
                      /\ Eligible(s.workers[s.allocs[x].worker])
<1>1. /\ t.workers = s.workers /\ t.commands = s.commands
      /\ \A x \in Allocation : t.allocs[x] = IF Sits(x) THEN Reserved(s.allocs[x])
                                             ELSE s.allocs[x]
  BY ReservePreparedShape
<1> HIDE DEF t
<1>2. \A x \in Allocation :
         /\ ~Sits(x) => t.allocs[x] = s.allocs[x]
         /\ Sits(x) => /\ t.allocs[x].state = "assigned"
                       /\ t.allocs[x].worker = s.allocs[x].worker
  BY <1>1, ReservedFields, StoreParts
<1>3. Matched(s) => Matched(t)
  BY <1>1, <1>2, MatchedSame DEF Pending
<1>4. SeatsOK(s, t)
  <2> SUFFICES ASSUME NEW x \in Allocation, Sits(x)
               PROVE  /\ s.allocs[x].worker \in Worker
                      /\ Admits(s.workers[s.allocs[x].worker])
    BY <1>1, <1>2 DEF SeatsOK
  <2> QED BY StoreParts, EligibleAdmits DEF AllocationRecord
<1>5. \A x \in Allocation : Timed(s.allocs[x]) => Timed(t.allocs[x])
  BY <1>2 DEF Timed
<1>6. Serves(s, t)
  BY <1>3, <1>4, <1>5 DEF Serves
<1> QED BY <1>6 DEF t

\* The passes that maintain the store, chained.
LEMMA MaintainedServes ==
  ASSUME NEW s \in Store
  PROVE  Serves(s, Maintained(s))
<1> DEFINE a == CheckWorkers(s)
           b == ExpireAllocations(a)
           c == PruneAllocations(b)
           d == PruneWorkers(c)
           e == ReservePrepared(d)
<1>1. a \in Store /\ Heeds(s, a)
  BY CheckWorkersEvolves, CheckWorkersHeeds DEF Evolves
<1>2. b \in Store /\ Heeds(a, b)
  BY <1>1, ExpireAllocationsEvolves, CancelAllHeeds DEF Evolves, ExpireAllocations
<1>3. c \in Store /\ Heeds(b, c)
  BY <1>2, PruneAllocationsEvolves, PruneAllocationsHeeds DEF Evolves
<1>4. d \in Store /\ Heeds(c, d)
  BY <1>3, PruneWorkersEvolves, PruneWorkersHeeds DEF Evolves
<1>5. Serves(d, e)
  BY <1>4, ReservePreparedServes
<1>6. Maintained(s) = e
  BY DEF Maintained
<1> HIDE DEF a, b, c, d, e
<1>7. Heeds(s, b)
  BY <1>1, <1>2, HeedsTrans
<1>8. Heeds(b, d)
  BY <1>3, <1>4, HeedsTrans
<1> QED BY <1>5, <1>6, <1>7, <1>8, HeedsTrans, ServesAfter

\* Placing gives every room it places its one command.
LEMMA PlaceMatched ==
  ASSUME NEW s \in Store, NEW P \in Placements(s), Matched(s)
  PROVE  Matched(Place(s, P))
<1> DEFINE t == Place(s, P)
           Put(x) == x \in WaitingRequests(s) /\ P[x] # None
<1>1. t.commands = s.commands \cup {PrepareCommand(x, P[x]) :
                                      x \in {y \in WaitingRequests(s) : P[y] # None}}
  BY PlaceShape
<1>2. /\ \A c \in t.commands : \/ c \in s.commands
                               \/ \E x \in Allocation :
                                    Put(x) /\ c = PrepareCommand(x, P[x])
      /\ \A c \in s.commands : c \in t.commands
      /\ \A x \in Allocation : Put(x) => PrepareCommand(x, P[x]) \in t.commands
  BY <1>1 DEF WaitingRequests
<1>3. \A x \in Allocation :
         /\ Put(x) => /\ s.allocs[x].state = Waiting
                      /\ t.allocs[x].state = "preparing"
                      /\ t.allocs[x].worker = P[x]
         /\ ~Put(x) => t.allocs[x] = s.allocs[x]
  BY PlacedRoom DEF WaitingRequests
<1> HIDE DEF t, Put
<1>4. \A x, w : /\ PrepareCommand(x, w).type = "prepare_room"
                /\ PrepareCommand(x, w).alloc = x
                /\ PrepareCommand(x, w).worker = w
  BY DEF PrepareCommand
<1>5. Asks(t, "prepare_room", "preparing", {})
  <2>0. Asks(s, "prepare_room", "preparing", {})
    BY DEF Matched
  <2>1. ASSUME NEW c \in t.commands, c.type = "prepare_room"
        PROVE  \/ /\ c \in s.commands /\ c.alloc \in Allocation
                  /\ s.allocs[c.alloc].state = "preparing"
                  /\ s.allocs[c.alloc].worker = c.worker
                  /\ ~Put(c.alloc)
               \/ /\ c.alloc \in Allocation /\ Put(c.alloc)
                  /\ c = PrepareCommand(c.alloc, P[c.alloc])
    <3>1. CASE c \in s.commands
      <4>1. /\ c.alloc \in Allocation /\ s.allocs[c.alloc].state = "preparing"
            /\ s.allocs[c.alloc].worker = c.worker
        BY <2>0, <2>1, <3>1 DEF Asks
      <4>2. ~Put(c.alloc)
        BY <1>3, <4>1 DEF Waiting
      <4> QED BY <3>1, <4>1, <4>2
    <3>2. CASE c \notin s.commands
      BY <1>2, <1>4, <3>2
    <3> QED BY <3>1, <3>2
  <2>2. ASSUME NEW c \in t.commands, c.type = "prepare_room"
        PROVE  /\ c.alloc \in Allocation
               /\ t.allocs[c.alloc].state = "preparing"
               /\ t.allocs[c.alloc].worker = c.worker
    <3>1. CASE c.alloc \in Allocation /\ ~Put(c.alloc)
      BY <1>3, <2>1, <2>2, <3>1
    <3>2. CASE c.alloc \in Allocation /\ Put(c.alloc)
      BY <1>3, <1>4, <2>1, <2>2, <3>2
    <3> QED BY <2>1, <2>2, <3>1, <3>2
  <2>3. ASSUME NEW x \in Allocation, t.allocs[x].state = "preparing"
        PROVE  \E c \in t.commands : c.type = "prepare_room" /\ c.alloc = x
    <3>1. CASE Put(x)
      BY <1>2, <1>4, <3>1
    <3>2. CASE ~Put(x)
      BY <1>2, <1>3, <2>0, <2>3, <3>2 DEF Asks
    <3> QED BY <3>1, <3>2
  <2>4. ASSUME NEW c \in t.commands, NEW d \in t.commands, c.alloc = d.alloc,
               c.type = "prepare_room", d.type = "prepare_room"
        PROVE  c = d
    <3>1. CASE Put(c.alloc)
      BY <2>1, <2>4, <3>1
    <3>2. CASE ~Put(c.alloc)
      BY <2>0, <2>1, <2>4, <3>2 DEF Asks
    <3> QED BY <3>1, <3>2
  <2> QED BY <2>2, <2>3, <2>4 DEF Asks
<1>6. Asks(t, "cancel_room", "cancelling", {})
  <2>0. Asks(s, "cancel_room", "cancelling", {})
    BY DEF Matched
  <2>1. \A c \in t.commands : c.type = "cancel_room" => c \in s.commands
    BY <1>2, <1>4
  <2>2. ASSUME NEW c \in t.commands, c.type = "cancel_room"
        PROVE  /\ c.alloc \in Allocation
               /\ t.allocs[c.alloc].state = "cancelling"
               /\ t.allocs[c.alloc].worker = c.worker
    <3>1. /\ c.alloc \in Allocation /\ s.allocs[c.alloc].state = "cancelling"
          /\ s.allocs[c.alloc].worker = c.worker
      BY <2>0, <2>1, <2>2 DEF Asks
    <3> QED BY <1>3, <3>1 DEF Waiting
  <2>3. ASSUME NEW x \in Allocation, t.allocs[x].state = "cancelling"
        PROVE  \E c \in t.commands : c.type = "cancel_room" /\ c.alloc = x
    <3>1. s.allocs[x].state = "cancelling"
      BY <1>3, <2>3
    <3> QED BY <1>2, <2>0, <3>1 DEF Asks
  <2>4. \A c, d \in t.commands :
           c.type = "cancel_room" /\ d.type = "cancel_room" /\ c.alloc = d.alloc
             => c = d
    BY <2>0, <2>1 DEF Asks
  <2> QED BY <2>2, <2>3, <2>4 DEF Asks
<1> QED BY <1>5, <1>6 DEF Matched, t

\* Placing grants no seat and spares those that were granted.
LEMMA PlaceHeeds ==
  ASSUME NEW s \in Store, NEW P \in Placements(s)
  PROVE  Heeds(s, Place(s, P)) /\ SparesSeats(s, Place(s, P))
<1> DEFINE t == Place(s, P)
<1>1. \A x \in Allocation : t.allocs[x] = s.allocs[x]
                            \/ t.allocs[x].state = "preparing"
  BY PlacedRoom
<1>2. Matched(s) => Matched(t)
  BY PlaceMatched
<1>3. ASSUME NEW w \in Worker, Admits(s.workers[w])
      PROVE  Admits(t.workers[w])
  <2> DEFINE r == s.workers[w]
             q == t.workers[w]
  <2>1. q = r \/ q = [r EXCEPT !.idle = Never]
    BY PlaceShape
  <2> HIDE DEF q, t
  <2>2. /\ q.state = r.state /\ q.draining = r.draining
        /\ q.heartbeat = r.heartbeat /\ q.life = r.life
    BY <2>1, StoreParts DEF WorkerRecord
  <2>3. Admits(q)
    BY <1>3, <2>2 DEF Admits, Fresh
  <2> QED BY <2>3 DEF q
<1> HIDE DEF t
<1>4. Heeds(s, t) /\ SparesSeats(s, t)
  BY <1>1, <1>2, <1>3, SettlesState DEF Heeds, SparesSeats
<1> QED BY <1>4 DEF t

\* A new worker has no rooms and no commands.
LEMMA ScaleUpsHeed ==
  ASSUME NEW s \in Store, NEW ids \in SUBSET FreshWorker(s),
         NEW t \in ScaleUps(s, ids), Sound(s)
  PROVE  Heeds(s, t) /\ SparesSeats(s, t)
<1>1. /\ t.allocs = s.allocs /\ t.commands = s.commands
      /\ \A v \in Worker : \/ t.workers[v] = s.workers[v]
                           \/ s.workers[v].state = "none"
  BY ScaleUpsSound
<1> QED BY <1>1, HeedsWorkers DEF SparesSeats, Admits

\* Draining the surplus takes no worker with a live room out of service.
LEMMA ScaleDownsHeed ==
  ASSUME NEW s \in Store, NEW u \in ScaleDowns(s)
  PROVE  Heeds(s, u) /\ SparesSeats(s, u)
<1> DEFINE V == [w \in Worker |-> IdleClock(s, w)]
           t == [s EXCEPT !.workers = V]
<1>1. PICK D \in DrainChoices(t) : u = StopDrained(BeginDrain(t, D))
  BY DEF ScaleDowns
<1>2. V \in [Worker -> WorkerRecord] /\ \A w \in Worker : V[w] = IdleClock(s, w)
  BY IdleClockFields
<1> HIDE DEF V
<1>3. /\ t \in Store /\ t.allocs = s.allocs /\ t.commands = s.commands
      /\ t.workers = V
  BY <1>2 DEF Store
<1> HIDE DEF t
<1>4. D \in SUBSET Worker /\ \A w \in D : LiveOn(t, w) = {}
  BY <1>1 DEF DrainChoices, SurplusWorkers, ReadyWorkers
<1> DEFINE v == BeginDrain(t, D)
<1>5. /\ v \in Store /\ Heeds(t, v) /\ v.allocs = t.allocs
      /\ \A w \in Worker \ D : v.workers[w] = t.workers[w]
  BY <1>3, <1>4, BeginDrainEvolves, BeginDrainHeeds, BeginDrainShape DEF Evolves
<1>6. u = StopDrained(v)
  BY <1>1
<1> HIDE DEF v
<1>7. /\ u.allocs = v.allocs /\ u.commands = v.commands
      /\ \A w \in Worker : v.workers[w].state # "draining" =>
                             u.workers[w] = v.workers[w]
  BY <1>5, <1>6, StopDrainedShape
<1>8. Heeds(s, u)
  <2>1. Heeds(s, t) /\ Heeds(v, u)
    BY <1>3, <1>7, HeedsWorkers
  <2> QED BY <1>5, <2>1, HeedsTrans
<1>9. ASSUME NEW w \in Worker, Admits(s.workers[w]), LiveOn(s, w) # {}
      PROVE  Admits(u.workers[w])
  <2>1. LiveOn(t, w) = LiveOn(s, w)
    BY <1>3 DEF LiveOn
  <2>2. v.workers[w] = IdleClock(s, w)
    BY <1>2, <1>3, <1>4, <1>5, <1>9, <2>1
  <2>3. Admits(IdleClock(s, w))
    BY <1>9, IdleClockFields DEF Admits, Fresh
  <2> QED BY <1>7, <2>2, <2>3 DEF Admits
<1> QED BY <1>3, <1>5, <1>7, <1>8, <1>9 DEF SparesSeats

\* The first transaction of a tick, chained.
LEMMA TickServes ==
  ASSUME SafetyInv, NEW c \in Controller, Tick(c)
  PROVE  Serves(store, store')
<1> DEFINE r == Leads(store, c)
           s == Maintained(r)
<1>1. PICK P \in Placements(s) :
        \E t \in ScaleUps(Place(s, P), UnusedWorkers(Place(s, P))) :
          store' \in ScaleDowns(t)
  BY DEF Tick
<1> DEFINE q == Place(s, P)
<1>2. PICK t \in ScaleUps(q, UnusedWorkers(q)) : store' \in ScaleDowns(t)
  BY <1>1
<1>3. /\ r \in Store /\ r.workers = store.workers /\ r.allocs = store.allocs
      /\ r.commands = store.commands
  BY LeadsEvolves DEF SafetyInv, TypeOK, Evolves, Leads, Store
<1> HIDE DEF r
<1>4. Sound(r) /\ Heeds(store, r)
  BY <1>3, SoundSame, HeedsWorkers DEF SafetyInv
<1>5. s \in Store /\ Tame(r, s) /\ Serves(r, s)
  BY <1>3, MaintainedEvolves, MaintainedTame, MaintainedServes DEF Evolves
<1> HIDE DEF s
<1>6. Sound(s)
  BY <1>3, <1>4, <1>5, TameSound
<1>7. q \in Store /\ Sound(q) /\ Heeds(s, q) /\ SparesSeats(s, q)
  BY <1>5, <1>6, PlaceEvolves, PlaceSound, PlaceHeeds DEF Evolves
<1> HIDE DEF q
<1>8. UnusedWorkers(q) \in SUBSET FreshWorker(q)
  BY DEF UnusedWorkers
<1>9. t \in Store /\ Heeds(q, t) /\ SparesSeats(q, t)
  BY <1>2, <1>7, <1>8, ScaleUpsEvolve, ScaleUpsHeed DEF Evolves, FreshWorker
<1>10. Heeds(t, store') /\ SparesSeats(t, store')
  BY <1>2, <1>9, ScaleDownsHeed
<1>11. Serves(store, s)
  BY <1>4, <1>5, ServesAfter
<1>12. Serves(store, q)
  BY <1>7, <1>11, ServesBefore
<1>13. Serves(store, t)
  BY <1>9, <1>12, ServesBefore
<1> QED BY <1>10, <1>13, ServesBefore

-----------------------------------------------------------------------------
(* The passes of a heartbeat *)

\* Every answer says success or failure.
LEMMA Answers ==
  ASSUME NEW s \in Store, NEW w \in Worker, NEW report \in Reports(s, w)
  PROVE  \A c \in DOMAIN report.results :
           /\ report.results[c] \in {"success", "failure"}
           /\ c \in s.commands /\ c.worker = w
<1>1. PICK m \in Readings,
           rooms \in UNION {[X -> RoomReports] :
              X \in SUBSET {x \in Allocation : s.allocs[x].worker = w}},
           results \in UNION {[C -> {"success", "failure"}] :
                                C \in SUBSET DueCommands(s, w)} :
        report = [ready |-> m.ready, pending |-> m.pending,
                  overloaded |-> m.overloaded, rooms |-> rooms,
                  results |-> results]
  BY DEF Reports
<1>2. report.results = results
  BY <1>1
<1>3. PICK C \in SUBSET DueCommands(s, w) : results \in [C -> {"success", "failure"}]
  BY <1>1
<1> QED BY <1>2, <1>3 DEF DueCommands

\* What a room's command was answered with.
AnsweredRooms(report, type) ==
  {c.alloc : c \in {d \in DOMAIN report.results : d.type = type}}

\* The commands that answers leave: failed cancellations are asked again,
\* everything else that was answered is done.
LEMMA ApplyDoneCommands ==
  ASSUME NEW s \in Store, NEW w \in Worker, NEW report
  PROVE  ApplyDone(s, w, report).commands =
           (s.commands \ DOMAIN report.results)
             \cup {RetryOf(c) : c \in Answered(report, "cancel_room", "failure")
                                        \cup Answered(report, "drain", "failure")}
<1> DEFINE C == (s.commands \ DOMAIN report.results)
                  \cup {RetryOf(c) : c \in Answered(report, "cancel_room", "failure")
                                             \cup Answered(report, "drain", "failure")}
           ack == s.workers[w].drainAck \/ Answered(report, "drain", "success") # {}
           t == [s EXCEPT !.commands = C, !.workers[w].drainAck = ack]
<1>1. ApplyDone(s, w, report) = t
  BY DEF ApplyDone
<1> HIDE DEF C, ack
<1>2. t.commands = C
  BY DEF Store
<1> QED BY <1>1, <1>2 DEF C

\* After the answers are taken, the rooms they are about are exempt.
LEMMA ApplyDoneAsks ==
  ASSUME NEW s \in Store, NEW w \in Worker, NEW report,
         \A c \in DOMAIN report.results :
           c \in s.commands /\ report.results[c] \in {"success", "failure"},
         Matched(s)
  PROVE  LET t == ApplyDone(s, w, report) IN
         /\ Asks(t, "prepare_room", "preparing",
                 AnsweredRooms(report, "prepare_room"))
         /\ Asks(t, "cancel_room", "cancelling", RoomCancelled(report))
<1> DEFINE t == ApplyDone(s, w, report)
           Again == Answered(report, "cancel_room", "failure")
                      \cup Answered(report, "drain", "failure")
           Done == DOMAIN report.results
           E == AnsweredRooms(report, "prepare_room")
           F == RoomCancelled(report)
<1>1. t.commands = (s.commands \ Done) \cup {RetryOf(c) : c \in Again}
  BY ApplyDoneCommands
<1>2. t.allocs = s.allocs
  BY ApplyDoneShape
<1> HIDE DEF t
<1>3. \A c \in Command : /\ RetryOf(c).type = c.type
                         /\ RetryOf(c).alloc = c.alloc
                         /\ RetryOf(c).worker = c.worker
  <2> TAKE c \in Command
  <2> DEFINE n == IF c.tries < MaxTries THEN c.tries + 1 ELSE MaxTries
             delay == RetryDelay[n]
  <2>1. RetryOf(c) = [c EXCEPT !.tries = n, !.wait = delay]
    BY DEF RetryOf
  <2> HIDE DEF n, delay
  <2> QED BY <2>1 DEF Command
<1>4. /\ Done \subseteq s.commands /\ s.commands \subseteq Command
      /\ \A c \in Again : /\ c \in Done /\ report.results[c] = "failure"
                          /\ c.type \in {"cancel_room", "drain"}
      /\ \A c \in Done : /\ c.type = "cancel_room" /\ report.results[c] = "failure"
                           => c \in Again
                         /\ c.type = "cancel_room" /\ report.results[c] # "failure"
                           => c.alloc \in F
                         /\ c.type = "prepare_room" => c.alloc \in E
      /\ \A x \in E : \E c \in Done : c.type = "prepare_room" /\ c.alloc = x
      /\ \A x \in F : \E c \in Done : /\ c.type = "cancel_room" /\ c.alloc = x
                                      /\ report.results[c] = "success"
  BY StoreParts DEF Answered, RoomCancelled, AnsweredRooms
<1> HIDE DEF Again, Done, E, F
<1>5. \A c \in t.commands :
         \/ c \in s.commands \ Done
         \/ \E d \in Again : /\ c = RetryOf(d) /\ c.type = d.type
                             /\ c.alloc = d.alloc /\ c.worker = d.worker
  BY <1>1, <1>3, <1>4
<1>6. Asks(t, "prepare_room", "preparing", E)
  <2>0. Asks(s, "prepare_room", "preparing", {})
    BY DEF Matched
  <2>1. \A c \in t.commands : c.type = "prepare_room" => c \in s.commands \ Done
    BY <1>4, <1>5
  <2>2. ASSUME NEW c \in t.commands, c.type = "prepare_room"
        PROVE  /\ c.alloc \in Allocation \ E
               /\ t.allocs[c.alloc].state = "preparing"
               /\ t.allocs[c.alloc].worker = c.worker
    <3>1. /\ c.alloc \in Allocation /\ s.allocs[c.alloc].state = "preparing"
          /\ s.allocs[c.alloc].worker = c.worker
      BY <2>0, <2>1, <2>2 DEF Asks
    <3>2. c.alloc \notin E
      BY <1>4, <2>0, <2>1, <2>2 DEF Asks
    <3> QED BY <1>2, <3>1, <3>2
  <2>3. ASSUME NEW x \in Allocation \ E, t.allocs[x].state = "preparing"
        PROVE  \E c \in t.commands : c.type = "prepare_room" /\ c.alloc = x
    <3>1. PICK c \in s.commands : c.type = "prepare_room" /\ c.alloc = x
      BY <1>2, <2>0, <2>3 DEF Asks
    <3>2. c \notin Done
      BY <1>4, <3>1
    <3> QED BY <1>1, <3>1, <3>2
  <2>4. \A c, d \in t.commands :
           c.type = "prepare_room" /\ d.type = "prepare_room" /\ c.alloc = d.alloc
             => c = d
    BY <2>0, <2>1 DEF Asks
  <2> QED BY <2>2, <2>3, <2>4 DEF Asks
<1>7. Asks(t, "cancel_room", "cancelling", F)
  <2>0. Asks(s, "cancel_room", "cancelling", {})
    BY DEF Matched
  <2>1. ASSUME NEW c \in t.commands, c.type = "cancel_room"
        PROVE  \E d \in s.commands :
                 /\ d.type = "cancel_room" /\ d.alloc = c.alloc
                 /\ d.worker = c.worker
                 /\ \/ c = d /\ d \notin Done
                    \/ c = RetryOf(d) /\ d \in Again
    BY <1>4, <1>5, <2>1
  <2>2. ASSUME NEW c \in t.commands, c.type = "cancel_room"
        PROVE  /\ c.alloc \in Allocation \ F
               /\ t.allocs[c.alloc].state = "cancelling"
               /\ t.allocs[c.alloc].worker = c.worker
    <3>1. PICK d \in s.commands :
                 /\ d.type = "cancel_room" /\ d.alloc = c.alloc
                 /\ d.worker = c.worker
                 /\ \/ c = d /\ d \notin Done
                    \/ c = RetryOf(d) /\ d \in Again
      BY <2>1, <2>2
    <3>2. /\ c.alloc \in Allocation /\ s.allocs[c.alloc].state = "cancelling"
          /\ s.allocs[c.alloc].worker = c.worker
      BY <2>0, <3>1 DEF Asks
    <3>3. ASSUME c.alloc \in F
          PROVE  FALSE
      <4>1. PICK e \in Done : /\ e.type = "cancel_room" /\ e.alloc = c.alloc
                              /\ report.results[e] = "success"
        BY <1>4, <3>3
      <4>2. e = d
        BY <1>4, <2>0, <3>1, <4>1 DEF Asks
      <4> QED BY <1>4, <3>1, <4>1, <4>2
    <3> QED BY <1>2, <3>2, <3>3
  <2>3. ASSUME NEW x \in Allocation \ F, t.allocs[x].state = "cancelling"
        PROVE  \E c \in t.commands : c.type = "cancel_room" /\ c.alloc = x
    <3>1. PICK c \in s.commands : c.type = "cancel_room" /\ c.alloc = x
      BY <1>2, <2>0, <2>3 DEF Asks
    <3>2. CASE c \notin Done
      BY <1>1, <3>1, <3>2
    <3>3. CASE c \in Done
      <4>1. c \in Again
        BY <1>4, <3>1, <3>3
      <4>2. RetryOf(c) \in t.commands
        BY <1>1, <4>1
      <4> QED BY <1>3, <1>4, <3>1, <4>2
    <3> QED BY <3>2, <3>3
  <2>4. ASSUME NEW c \in t.commands, NEW d \in t.commands, c.alloc = d.alloc,
               c.type = "cancel_room", d.type = "cancel_room"
        PROVE  c = d
    <3>1. PICK e \in s.commands :
                 /\ e.type = "cancel_room" /\ e.alloc = c.alloc
                 /\ \/ c = e /\ e \notin Done
                    \/ c = RetryOf(e) /\ e \in Again
      BY <2>1, <2>4
    <3>2. PICK f \in s.commands :
                 /\ f.type = "cancel_room" /\ f.alloc = d.alloc
                 /\ \/ d = f /\ f \notin Done
                    \/ d = RetryOf(f) /\ f \in Again
      BY <2>1, <2>4
    <3>3. e = f
      BY <2>0, <2>4, <3>1, <3>2 DEF Asks
    <3> QED BY <1>4, <3>1, <3>2, <3>3
  <2> QED BY <2>2, <2>3, <2>4 DEF Asks
<1> QED BY <1>6, <1>7 DEF t, E, F

\* A pass that leaves commands, and the rooms that are not exempt, as they
\* are.
LEMMA AsksSame ==
  ASSUME NEW s, NEW t, NEW type, NEW state, NEW E, Asks(s, type, state, E),
         t.commands = s.commands,
         \A x \in Allocation \ E :
           \/ /\ t.allocs[x].state = s.allocs[x].state
              /\ t.allocs[x].worker = s.allocs[x].worker
           \/ s.allocs[x].state # state /\ t.allocs[x].state # state
  PROVE  Asks(t, type, state, E)
BY DEF Asks

\* The exempt rooms are settled: no room is exempt any more.
LEMMA AsksSettled ==
  ASSUME NEW s, NEW type, NEW state, NEW E, Asks(s, type, state, E),
         \A x \in E \cap Allocation : s.allocs[x].state # state
  PROVE  Asks(s, type, state, {})
BY DEF Asks

\* Answers settle the rooms they are about and grant seats on the worker that
\* gave them.
LEMMA ApplyResultsServes ==
  ASSUME NEW s \in Store, NEW w \in Worker, NEW report,
         \A c \in DOMAIN report.results :
           /\ c \in s.commands /\ c.worker = w
           /\ report.results[c] \in {"success", "failure"},
         Matched(s)
  PROVE  Serves(s, ApplyResults(s, w, report))
<1> DEFINE E == AnsweredRooms(report, "prepare_room")
           F == RoomCancelled(report)
           t == ApplyDone(s, w, report)
           late == PreparedLate(t, w, report)
           failed == PrepareFailed(report)
           done == Prepared(t, w, report)
           X == Preparing(t, late \cup failed)
           u == CancelAll(t, X, "other")
           v == ApplyPrepared(u, w, done)
           z == ApplyCancelled(v, F)
<1>1. ApplyResults(s, w, report) = z
  BY DEF ApplyResults
<1>2. /\ t \in Store /\ t.allocs = s.allocs
      /\ Asks(t, "prepare_room", "preparing", E)
      /\ Asks(t, "cancel_room", "cancelling", F)
  BY ApplyDoneEvolves, ApplyDoneShape, ApplyDoneAsks DEF Evolves
<1>3. /\ E \subseteq late \cup failed \cup done /\ done \subseteq E
  BY DEF AnsweredRooms, PrepareFailed, Prepared, PreparedLate, Answered
<1>4. /\ \A x \in E : /\ x \in Allocation /\ s.allocs[x].state = "preparing"
                      /\ s.allocs[x].worker = w
      /\ \A x \in F : x \in Allocation /\ s.allocs[x].state = "cancelling"
  BY DEF Matched, Asks, AnsweredRooms, RoomCancelled, Answered
<1> HIDE DEF E, F, t, late, failed, done
<1>5. /\ X \in SUBSET Allocation
      /\ \A x \in Allocation :
           x \in X <=> x \in late \cup failed /\ t.allocs[x].state = "preparing"
  BY DEF Preparing
<1> HIDE DEF X
<1>6. u \in Store /\ u.workers = t.workers
  <2>1. "other" \in Reason
    BY DEF Reason
  <2>2. Evolves(t, u)
    BY <1>2, <1>5, <2>1, CancelAllEvolves
  <2> QED BY <1>2, <2>2, CancelAllShape DEF Evolves
<1>7. /\ Asks(u, "prepare_room", "preparing", E)
      /\ Asks(u, "cancel_room", "cancelling", F)
  BY <1>2, <1>4, <1>5, CancelAllAsks
<1>8. \A x \in Allocation :
         /\ u.allocs[x] = t.allocs[x] \/ u.allocs[x].state = "cancelling"
                                      \/ u.allocs[x].state \in Terminal
         /\ x \in X => u.allocs[x].state # "preparing"
  <2> TAKE x \in Allocation
  <2>1. u.allocs[x] = IF x \in X /\ Cancellable(t.allocs[x])
                        THEN Cancelled(t.allocs[x], "other") ELSE t.allocs[x]
    BY <1>2, CancelAllShape
  <2>2. t.allocs[x] \in AllocationRecord
    BY <1>2, StoreParts
  <2>3. x \in X => Cancellable(t.allocs[x])
    BY <1>5 DEF Cancellable, Live, Terminal
  <2> HIDE DEF u
  <2> QED BY <2>1, <2>2, <2>3, CancelledState DEF Terminal
<1> HIDE DEF u
<1>9. /\ v.workers = u.workers /\ v.commands = u.commands
      /\ \A x \in Allocation :
           v.allocs[x] = IF x \in done /\ u.allocs[x].state = "preparing"
                           THEN PreparedOn(u.workers[w], u.allocs[x])
                           ELSE u.allocs[x]
  BY <1>6, ApplyPreparedShape
<1>10. v \in Store
  BY <1>6, ApplyPreparedEvolves DEF Evolves
<1> HIDE DEF v
<1>11. \A x \in Allocation :
          \/ v.allocs[x] = u.allocs[x]
             /\ ~(x \in done /\ u.allocs[x].state = "preparing")
          \/ /\ x \in done /\ u.allocs[x].state = "preparing"
             /\ v.allocs[x].worker = u.allocs[x].worker
             /\ \/ v.allocs[x].state = "assigned" /\ Eligible(u.workers[w])
                \/ v.allocs[x].state = "prepared"
  BY <1>6, <1>9, AnsweredFields, StoreParts
<1>12. \A x \in E : v.allocs[x].state # "preparing"
  <2> TAKE x \in E
  <2>1. CASE x \in X
    BY <1>4, <1>8, <1>11, <2>1
  <2>2. CASE x \notin X
    <3>1. x \in done
      BY <1>2, <1>3, <1>4, <1>5, <2>2
    <3> QED BY <1>4, <1>11, <3>1
  <2> QED BY <2>1, <2>2
<1>13. Asks(v, "prepare_room", "preparing", {})
  <2>1. Asks(v, "prepare_room", "preparing", E)
    BY <1>3, <1>7, <1>9, <1>11, AsksSame
  <2> QED BY <1>12, <2>1, AsksSettled
<1>14. Asks(v, "cancel_room", "cancelling", F)
  BY <1>7, <1>9, <1>11, AsksSame
<1>15. /\ z.workers = v.workers /\ z.commands = v.commands
       /\ \A x \in Allocation :
            z.allocs[x] = IF x \in F /\ v.allocs[x].state = "cancelling"
                            THEN CancelledByHost(v.allocs[x]) ELSE v.allocs[x]
  BY <1>10, ApplyCancelledShape
<1> HIDE DEF z
<1>16. \A x \in Allocation :
          \/ z.allocs[x] = v.allocs[x]
             /\ ~(x \in F /\ v.allocs[x].state = "cancelling")
          \/ /\ x \in F /\ v.allocs[x].state = "cancelling"
             /\ z.allocs[x].state \in Terminal
  BY <1>10, <1>15, AnsweredFields, StoreParts
<1>17. Matched(z)
  <2>1. Asks(z, "prepare_room", "preparing", {})
    BY <1>13, <1>15, <1>16, AsksSame DEF Terminal
  <2>2. Asks(z, "cancel_room", "cancelling", F)
    BY <1>14, <1>15, <1>16, AsksSame
  <2>3. \A x \in F \cap Allocation : z.allocs[x].state # "cancelling"
    BY <1>16 DEF Terminal
  <2> QED BY <2>1, <2>2, <2>3, AsksSettled DEF Matched
<1>18. \A x \in Allocation : Timed(s.allocs[x]) => Timed(z.allocs[x])
  BY <1>2, <1>8, <1>11, <1>16 DEF Timed, Terminal
<1>19. SeatsOK(s, z)
  <2> SUFFICES ASSUME NEW x \in Allocation, z.allocs[x].state = "assigned",
                      s.allocs[x].state # "assigned"
               PROVE  /\ z.allocs[x].worker \in Worker
                      /\ Admits(z.workers[z.allocs[x].worker])
    BY DEF SeatsOK
  <2>1. z.allocs[x] = v.allocs[x] /\ v.allocs[x].state = "assigned"
    BY <1>16 DEF Terminal
  <2>2. CASE v.allocs[x] = u.allocs[x]
    BY <1>2, <1>8, <2>1, <2>2 DEF Terminal
  <2>3. CASE /\ x \in done /\ u.allocs[x].state = "preparing"
             /\ v.allocs[x].worker = u.allocs[x].worker
             /\ Eligible(u.workers[w])
    <3>1. u.allocs[x] = s.allocs[x]
      BY <1>2, <1>8, <2>3 DEF Terminal
    <3>2. z.allocs[x].worker = w
      BY <1>3, <1>4, <2>1, <2>3, <3>1
    <3> QED BY <1>9, <1>15, <2>3, <3>2, EligibleAdmits
  <2> QED BY <1>11, <2>1, <2>2, <2>3
<1> QED BY <1>1, <1>17, <1>18, <1>19 DEF Serves

\* A room snapshot gives every player of an active room a deadline or none.
LEMMA SeenRoomTimed ==
  ASSUME NEW a \in AllocationRecord, NEW room
  PROVE  /\ Timed(a) => Timed(SeenRoom(a, room))
         /\ SeenRoom(a, room).state = "assigned" => a.state = "assigned"
<1> DEFINE S == [u \in User |->
                   IF u \in a.users THEN SeenSession(a.sessions[u], u \in room.users)
                                    ELSE a.sessions[u]]
           state == IF room.state = "playing" /\ room.users = a.users
                      THEN "active" ELSE a.state
           b == [a EXCEPT !.sessions = S, !.state = state]
           seated == a.state \in {"assigned", "active"}
<1>1. CASE ~seated
  <2>1. SeenRoom(a, room) = a
    BY <1>1 DEF SeenRoom
  <2> QED BY <2>1
<1>2. CASE seated /\ room.state = "closed"
  <2>1. SeenRoom(a, room) = Finish(a, "completed", "")
    BY <1>2 DEF SeenRoom
  <2>2. Finish(a, "completed", "").state = "completed"
    BY CancelledKeeps DEF Terminal
  <2> QED BY <2>1, <2>2 DEF Timed
<1>3. CASE seated /\ room.state # "closed"
  <2>1. SeenRoom(a, room) = b
    BY <1>3 DEF SeenRoom
  <2>2. state = "active" \/ state = a.state
    OBVIOUS
  <2>3. \A u \in a.users : S[u] = SeenSession(a.sessions[u], u \in room.users)
    BY DEF AllocationRecord
  <2>4. state = "active" => a.state = "active" \/ room.users = a.users
    OBVIOUS
  <2>5. b.state = state /\ b.users = a.users /\ b.sessions = S
    BY DEF AllocationRecord
  <2> HIDE DEF S, state, b
  <2>6. ReconnectSeconds # Never
    BY ConfigAssumption DEF Never
  <2>7. \A e : /\ SeenSession(e, TRUE).ever /\ SeenSession(e, TRUE).connected
               /\ SeenSession(e, TRUE).reconnect = Never
               /\ ~SeenSession(e, FALSE).connected
               /\ e.ever => SeenSession(e, FALSE).ever
               /\ (e.connected <=> e.reconnect = Never) =>
                    SeenSession(e, FALSE).reconnect # Never
    BY <2>6 DEF SeenSession
  <2>8. ASSUME Timed(a), state = "active", NEW u \in a.users
        PROVE  /\ S[u].ever
               /\ S[u].connected <=> S[u].reconnect = Never
    <3>1. CASE u \in room.users
      <4>1. S[u] = SeenSession(a.sessions[u], TRUE)
        BY <2>3, <3>1
      <4> QED BY <2>7, <4>1
    <3>2. CASE u \notin room.users
      <4>1. /\ a.sessions[u].ever
            /\ a.sessions[u].connected <=> a.sessions[u].reconnect = Never
        BY <2>4, <2>8, <3>2 DEF Timed
      <4>2. (u \in room.users) = FALSE
        BY <3>2
      <4>3. S[u] = SeenSession(a.sessions[u], FALSE)
        BY <2>3, <4>2, Zenon
      <4> QED BY <2>7, <4>1, <4>3
    <3> QED BY <3>1, <3>2
  <2>9. Timed(a) => Timed(b)
    BY <2>5, <2>8 DEF Timed
  <2> QED BY <2>1, <2>2, <2>5, <2>9
<1> QED BY <1>1, <1>2, <1>3

\* The room snapshot grants no seat.
LEMMA ApplyRoomsHeeds ==
  ASSUME NEW s \in Store, NEW w \in Worker, NEW report
  PROVE  Heeds(s, ApplyRooms(s, w, report)) /\ SparesSeats(s, ApplyRooms(s, w, report))
<1> DEFINE t == ApplyRooms(s, w, report)
<1>1. /\ t.commands = s.commands
      /\ \A v \in Worker \ {w} : t.workers[v] = s.workers[v]
      /\ t.workers[w] = [s.workers[w] EXCEPT !.players = PlayersSeen(s, report)]
      /\ \A x \in Allocation : \/ t.allocs[x] = s.allocs[x]
                               \/ t.allocs[x] = SeenRoom(s.allocs[x], report.rooms[x])
  BY ApplyRoomsShape
<1> HIDE DEF t
<1>2. ASSUME NEW x \in Allocation
      PROVE  /\ Settles(s.allocs[x], t.allocs[x])
             /\ t.allocs[x].worker = s.allocs[x].worker
             /\ \/ t.allocs[x].state = s.allocs[x].state
                \/ /\ s.allocs[x].state \notin Pending
                   /\ t.allocs[x].state \notin Pending
  <2>1. s.allocs[x] \in AllocationRecord
    BY StoreParts
  <2>2. CASE t.allocs[x] = SeenRoom(s.allocs[x], report.rooms[x])
    BY <1>1, <2>1, <2>2, SeenRoomFields, SeenRoomTimed DEF Settles, Pending
  <2>3. CASE t.allocs[x] = s.allocs[x]
    BY <2>3, SettlesState
  <2> QED BY <1>1, <2>2, <2>3
<1>3. Matched(s) => Matched(t)
  BY <1>1, <1>2, MatchedSame
<1>4. ASSUME NEW v \in Worker, Admits(s.workers[v])
      PROVE  Admits(t.workers[v])
  <2> DEFINE q == t.workers[v]
  <2>1. /\ q.state = s.workers[v].state /\ q.draining = s.workers[v].draining
        /\ q.heartbeat = s.workers[v].heartbeat /\ q.life = s.workers[v].life
    BY <1>1, StoreParts DEF WorkerRecord
  <2> HIDE DEF q
  <2>2. Admits(q)
    BY <1>4, <2>1 DEF Admits, Fresh
  <2> QED BY <2>2 DEF q
<1> QED BY <1>2, <1>3, <1>4 DEF Heeds, SparesSeats, t

\* The transaction of a heartbeat, chained.
LEMMA HeartbeatServes ==
  ASSUME NEW s \in Store, NEW w \in Worker, NEW report \in Reports(s, w),
         Matched(s)
  PROVE  Serves(s, HeartbeatIn(s, w, report))
<1> DEFINE t == Observe(s, w, report)
           u == ApplyResults(t, w, report)
           z == ApplyRooms(u, w, report)
<1>1. t \in Store /\ t.allocs = s.allocs /\ t.commands = s.commands
  BY ObserveEvolves, ObserveShape DEF Evolves
<1>2. HeartbeatIn(s, w, report) = z
  BY DEF HeartbeatIn
<1> HIDE DEF t
<1>3. Heeds(s, t) /\ Matched(t)
  BY <1>1, HeedsWorkers DEF Heeds
<1>4. \A c \in DOMAIN report.results :
         /\ c \in t.commands /\ c.worker = w
         /\ report.results[c] \in {"success", "failure"}
  BY <1>1, Answers
<1>5. u \in Store /\ Serves(t, u)
  BY <1>1, <1>3, <1>4, ApplyResultsEvolves, ApplyResultsServes DEF Evolves
<1> HIDE DEF u
<1>6. Heeds(u, z) /\ SparesSeats(u, z)
  BY <1>5, ApplyRoomsHeeds
<1> HIDE DEF z
<1> QED BY <1>2, <1>3, <1>5, <1>6, ServesAfter, ServesBefore

-----------------------------------------------------------------------------
(* Time *)

\* A second does not start or end an absence.
LEMMA AgedTimed ==
  ASSUME NEW a \in AllocationRecord
  PROVE  Timed(a) => Timed(AgedAllocation(a))
<1> DEFINE b == AgedAllocation(a)
           S == [u \in User |-> AgedSession(a.sessions[u])]
           ended == IF a.state \in Terminal THEN Older(a.ended, History) ELSE a.ended
           ttl == Left(a.ttl)
<1>1. b = [a EXCEPT !.ttl = ttl, !.sessions = S, !.ended = ended]
  BY DEF AgedAllocation
<1>2. \A u \in User : S[u] = AgedSession(a.sessions[u])
  OBVIOUS
<1> HIDE DEF S, ttl, ended, b
<1>3. b.state = a.state /\ b.users = a.users /\ b.sessions = S
  BY <1>1 DEF AllocationRecord
<1>4. a.users \subseteq User /\ \A u \in User : a.sessions[u] \in Session
  BY DEF AllocationRecord
<1>5. ASSUME NEW e \in Session
      PROVE  /\ AgedSession(e).connected = e.connected
             /\ AgedSession(e).ever = e.ever
             /\ AgedSession(e).reconnect = Never <=> e.reconnect = Never
  BY DEF AgedSession, Session, Left, Never
<1>6. ASSUME Timed(a), b.state = "active", NEW u \in b.users
      PROVE  /\ b.sessions[u].ever
             /\ b.sessions[u].connected <=> b.sessions[u].reconnect = Never
  <2>1. u \in User /\ u \in a.users /\ a.sessions[u] \in Session
    BY <1>3, <1>4, <1>6
  <2>2. b.sessions[u] = AgedSession(a.sessions[u])
    BY <1>2, <1>3, <2>1
  <2>3. /\ a.sessions[u].ever
        /\ a.sessions[u].connected <=> a.sessions[u].reconnect = Never
    BY <1>3, <1>6, <2>1 DEF Timed
  <2>4. b.sessions[u].ever
    BY <1>5, <2>1, <2>2, <2>3
  <2>5. b.sessions[u].connected <=> b.sessions[u].reconnect = Never
    BY <1>5, <2>1, <2>2, <2>3
  <2> QED BY <2>4, <2>5
<1> QED BY <1>6 DEF Timed, b

\* A command after a second.
AgedCommand(c) == [c EXCEPT !.ttl = Left(@), !.wait = Left(@)]

\* A second changes when a command is sent or late, not what it asks for.
LEMMA AgedCommands ==
  ASSUME NEW s \in Store
  PROVE  /\ Aged(s).commands = {AgedCommand(c) : c \in s.commands}
         /\ \A c \in s.commands : /\ AgedCommand(c).type = c.type
                                  /\ AgedCommand(c).alloc = c.alloc
                                  /\ AgedCommand(c).worker = c.worker
<1>1. \A c \in Command : /\ AgedCommand(c).type = c.type
                         /\ AgedCommand(c).alloc = c.alloc
                         /\ AgedCommand(c).worker = c.worker
  BY DEF AgedCommand, Command
<1>2. Aged(s).commands = {AgedCommand(c) : c \in s.commands}
  BY AgedShape DEF AgedCommand
<1> QED BY <1>1, <1>2, StoreParts

\* Commands keep asking for the same rooms.
LEMMA AgedAsks ==
  ASSUME NEW s \in Store, NEW type, NEW state, Asks(s, type, state, {})
  PROVE  Asks(Aged(s), type, state, {})
<1> DEFINE t == Aged(s)
<1>1. t.commands = {AgedCommand(c) : c \in s.commands}
  BY AgedCommands
<1>2. \A c \in s.commands : /\ AgedCommand(c).type = c.type
                            /\ AgedCommand(c).alloc = c.alloc
                            /\ AgedCommand(c).worker = c.worker
  BY AgedCommands
<1>3. \A x \in Allocation : /\ t.allocs[x].state = s.allocs[x].state
                            /\ t.allocs[x].worker = s.allocs[x].worker
  BY AgedShape, AgedFields, StoreParts
<1> HIDE DEF t
<1>4. ASSUME NEW d \in t.commands, d.type = type
      PROVE  /\ d.alloc \in Allocation
             /\ t.allocs[d.alloc].state = state
             /\ t.allocs[d.alloc].worker = d.worker
  <2>1. PICK c \in s.commands : d = AgedCommand(c)
    BY <1>1
  <2>2. d.type = c.type /\ d.alloc = c.alloc /\ d.worker = c.worker
    BY <1>2, <2>1
  <2>3. /\ c.alloc \in Allocation /\ s.allocs[c.alloc].state = state
        /\ s.allocs[c.alloc].worker = c.worker
    BY <1>4, <2>2 DEF Asks
  <2> QED BY <1>3, <2>2, <2>3
<1>5. ASSUME NEW d \in t.commands, NEW e \in t.commands,
             d.type = type, e.type = type, d.alloc = e.alloc
      PROVE  d = e
  <2>1. PICK c \in s.commands : d = AgedCommand(c)
    BY <1>1
  <2>2. PICK f \in s.commands : e = AgedCommand(f)
    BY <1>1
  <2>3. c.type = type /\ f.type = type /\ c.alloc = f.alloc
    BY <1>2, <1>5, <2>1, <2>2
  <2>4. c = f
    BY <2>3 DEF Asks
  <2> QED BY <2>1, <2>2, <2>4
<1>6. ASSUME NEW x \in Allocation, t.allocs[x].state = state
      PROVE  \E d \in t.commands : d.type = type /\ d.alloc = x
  <2>1. PICK c \in s.commands : c.type = type /\ c.alloc = x
    BY <1>3, <1>6 DEF Asks
  <2>2. AgedCommand(c) \in t.commands
    BY <1>1
  <2> QED BY <1>2, <2>1, <2>2
<1>7. Asks(t, type, state, {})
  BY <1>4, <1>5, <1>6 DEF Asks
<1> QED BY <1>7 DEF t

\* The passing of time grants no seat and forgets no command.
LEMMA AgedHeeds ==
  ASSUME NEW s \in Store
  PROVE  Heeds(s, Aged(s))
<1>1. Matched(s) => Matched(Aged(s))
  BY AgedAsks DEF Matched
<1>2. ASSUME NEW x \in Allocation
      PROVE  Settles(s.allocs[x], Aged(s).allocs[x])
  <2>1. s.allocs[x] \in AllocationRecord
    BY StoreParts
  <2>2. Aged(s).allocs[x] = AgedAllocation(s.allocs[x])
    BY AgedShape
  <2>3. AgedAllocation(s.allocs[x]).state = s.allocs[x].state
    BY <2>1, AgedFields
  <2> QED BY <2>1, <2>2, <2>3, AgedTimed DEF Settles
<1> QED BY <1>1, <1>2 DEF Heeds

-----------------------------------------------------------------------------
(* Provider calls: they change workers, or end rooms with their commands *)

\* A change of one worker's record.
LEMMA HeedsWorker ==
  ASSUME NEW s \in Store, NEW w, NEW q
  PROVE  Heeds(s, [s EXCEPT !.workers[w] = q])
<1>1. /\ [s EXCEPT !.workers[w] = q].allocs = s.allocs
      /\ [s EXCEPT !.workers[w] = q].commands = s.commands
  BY DEF Store
<1> QED BY <1>1, HeedsWorkers

\* Recording that an instance exists.
LEMMA CreatedWorkerHeeds ==
  ASSUME NEW s \in Store, NEW w \in Worker, NEW ttl \in Nat
  PROVE  Heeds(s, CreatedWorker(s, w, ttl))
<1> DEFINE q == [s.workers[w] EXCEPT !.providerID = TRUE, !.state = "launching",
                                     !.nextCheck = 0]
           t == [s EXCEPT !.workers[w] = q]
<1>1. CreatedWorker(s, w, ttl) = ProviderLifetime(t, w, ttl)
  BY StoreParts DEF CreatedWorker, Store
<1>2. q \in WorkerRecord
  <2>1. s.workers[w] \in WorkerRecord
    BY StoreParts
  <2> QED BY <2>1 DEF WorkerRecord, WorkerState
<1> HIDE DEF q
<1>3. t \in Store /\ t.allocs = s.allocs /\ t.commands = s.commands
  BY <1>2, SetOneWorker DEF Evolves, Store
<1> HIDE DEF t
<1>4. /\ ProviderLifetime(t, w, ttl).allocs = t.allocs
      /\ ProviderLifetime(t, w, ttl).commands = t.commands
  BY <1>3, ProviderLifetimeShape
<1> QED BY <1>1, <1>3, <1>4, HeedsWorkers

\* The answer to a poll.
LEMMA ObservedHeeds ==
  ASSUME NEW s \in Store, NEW w \in Worker, NEW status
  PROVE  Heeds(s, Observed(s, w, status))
<1> DEFINE r == s.workers[w]
           t == IF status \in {"running", "badport"} THEN s
                ELSE [s EXCEPT !.workers[w] = Unaddressed(r)]
<1>1. t \in Store /\ Heeds(s, t)
  <2>1. r \in WorkerRecord
    BY StoreParts
  <2> QED BY <2>1, CheckedType, SetOneWorker, HeedsWorker, HeedsWorkers DEF Evolves
<1>2. Observed(s, w, status) =
        IF r.state = "stopping" THEN s
        ELSE IF status = "unhealthy" THEN Unhealthy(s, w)
        ELSE IF status = "stopped" THEN Stopped(t, {w})
        ELSE [t EXCEPT !.workers[w] = Checked(t.workers[w], status)]
  BY DEF Observed
<1> HIDE DEF t
<1>3. Heeds(s, Unhealthy(s, w))
  <2> DEFINE v == Lost(s, {w})
             q == [v.workers[w] EXCEPT !.state = "stopping", !.draining = FALSE,
                                       !.nextCheck = 0]
  <2>1. v \in Store /\ Heeds(s, v)
    BY CloseWorkersEvolves, CloseWorkersHeeds DEF Lost, Evolves, WorkerState
  <2>2. Unhealthy(s, w) = [v EXCEPT !.workers[w] = q]
    BY <2>1, StoreParts DEF Unhealthy, Store
  <2> HIDE DEF v, q
  <2> QED BY <2>1, <2>2, HeedsWorker, HeedsTrans
<1>4. Heeds(s, Stopped(t, {w}))
  BY <1>1, CloseWorkersHeeds, HeedsTrans DEF Stopped
<1>5. Heeds(s, [t EXCEPT !.workers[w] = Checked(t.workers[w], status)])
  BY <1>1, HeedsWorker, HeedsTrans
<1>6. Heeds(s, s)
  BY HeedsWorkers
<1> QED BY <1>2, <1>3, <1>4, <1>5, <1>6

\* A controller's transaction after a call, or none.
LEMMA CommitHeeds ==
  ASSUME NEW c, NEW t, store' = IF store.leader = c THEN t ELSE store,
         Heeds(store, t)
  PROVE  Heeds(store, store')
<1>1. Heeds(store, store)
  BY HeedsWorkers
<1> QED BY <1>1

\* The provider calls of a tick: create, reconcileUnknown, poll and stop.
LEMMA ProviderHeeds ==
  ASSUME SafetyInv, NEW c \in Controller, Provider(c)
  PROVE  Heeds(store, store')
<1> DEFINE w == ctl[c].w
           r == Rechecked(w)
<1>0. TypeOK /\ store \in Store
  BY DEF SafetyInv, TypeOK
<1>1. w \in Worker
  BY <1>0, CallWorker
     DEF Provider, Created, CreateFailed, Recreate, Adopted, NotAdopted, PollGone,
         PollMismatch, PollFailed, Polled, DeleteFailed, Deleted, Confirmed,
         Unconfirmed, Commit, CallOp
<1>2. r \in Store /\ Heeds(store, r)
  <2>1. r \in Store
    BY <1>0, <1>1, RecheckedTame
  <2>2. r.allocs = store.allocs /\ r.commands = store.commands
    BY <1>0 DEF Rechecked, Store
  <2> QED BY <2>1, <2>2, HeedsWorkers
<1>3. Heeds(store, store)
  BY HeedsWorkers
<1>4. ASSUME NEW ttl \in TTLs, Created(c, ttl)
      PROVE  Heeds(store, store')
  <2> DEFINE q == [store.workers[w] EXCEPT !.updated = 0]
             t == [store EXCEPT !.workers[w] = q]
             u == CreatedWorker(t, w, ttl)
  <2>1. [store EXCEPT !.workers[w].updated = 0] = t
    BY <1>0, <1>1, StoreParts DEF Store
  <2>2. store' = IF store.leader = c THEN u ELSE store
    BY <1>4, <2>1 DEF Created, Commit
  <2>3. q \in WorkerRecord
    BY <1>0, <1>1, StoreParts DEF WorkerRecord
  <2> HIDE DEF q
  <2>4. t \in Store /\ Heeds(store, t)
    BY <1>0, <1>1, <2>3, SetOneWorker, HeedsWorker DEF Evolves
  <2> HIDE DEF t
  <2>5. Heeds(t, u)
    BY <1>1, <2>4, CreatedWorkerHeeds, ConfigAssumption
  <2> HIDE DEF u
  <2> QED BY <2>2, <2>4, <2>5, HeedsTrans, CommitHeeds
<1>5. ASSUME NEW review \in BOOLEAN, NEW state \in {"unknown", "failed"},
             CreateFailed(c, state, review)
      PROVE  Heeds(store, store')
  <2> DEFINE t == [store EXCEPT !.workers[w] = NotCreated(store.workers[w], state),
                                !.blocked = @ \/ review,
                                !.nextCreate = CreateBackoff]
  <2>1. t.allocs = store.allocs /\ t.commands = store.commands
    BY <1>0 DEF Store
  <2>2. store' = IF store.leader = c THEN t ELSE store
    BY <1>5 DEF CreateFailed, Commit
  <2> HIDE DEF t
  <2> QED BY <2>1, <2>2, HeedsWorkers, CommitHeeds
<1>6. CASE Recreate(c)
  <2>1. store'.allocs = store.allocs /\ store'.commands = store.commands
    BY <1>0, <1>6 DEF Recreate, Leads, Store
  <2> QED BY <2>1, HeedsWorkers
<1>7. ASSUME NEW ttl \in TTLs, Adopted(c, ttl)
      PROVE  Heeds(store, store')
  <2> DEFINE t == StillUnknown(w, CreatedWorker(store, w, ttl))
  <2>1. store' = IF store.leader = c THEN t ELSE store
    BY <1>7 DEF Adopted, Commit
  <2>2. Heeds(store, CreatedWorker(store, w, ttl))
    BY <1>0, <1>1, CreatedWorkerHeeds, ConfigAssumption
  <2>3. Heeds(store, t)
    BY <1>3, <2>2 DEF StillUnknown
  <2> HIDE DEF t
  <2> QED BY <2>1, <2>3, CommitHeeds
<1>8. ASSUME NEW review \in BOOLEAN, NotAdopted(c, review)
      PROVE  Heeds(store, store')
  <2> DEFINE u == [store EXCEPT !.workers[w].nextCheck = ProviderPollSeconds,
                                !.blocked = @ \/ review]
             t == StillUnknown(w, u)
  <2>1. store' = IF store.leader = c THEN t ELSE store
    BY <1>8 DEF NotAdopted, Commit
  <2>2. u.allocs = store.allocs /\ u.commands = store.commands
    BY <1>0 DEF Store
  <2> HIDE DEF u
  <2>3. Heeds(store, t)
    BY <1>3, <2>2, HeedsWorkers DEF StillUnknown
  <2> HIDE DEF t
  <2> QED BY <2>1, <2>3, CommitHeeds
<1>9. CASE \/ PollGone(c) \/ PollMismatch(c) \/ PollFailed(c)
           \/ DeleteFailed(c) \/ Confirmed(c) \/ Unconfirmed(c)
  <2>1. PICK t \in {Stopped(r, {w}), Lost(r, {w}), r} :
          store' = IF store.leader = c THEN t ELSE store
    BY <1>9 DEF PollGone, PollMismatch, PollFailed, DeleteFailed, Confirmed,
                Unconfirmed, Commit
  <2> HIDE DEF r
  <2>2. Heeds(r, Stopped(r, {w})) /\ Heeds(r, Lost(r, {w})) /\ Heeds(r, r)
    BY <1>1, <1>2, CloseWorkersHeeds, HeedsWorkers DEF Stopped, Lost
  <2>3. Heeds(store, t)
    BY <1>2, <2>2, HeedsTrans
  <2> QED BY <2>1, <2>3, CommitHeeds
<1>10. ASSUME NEW status \in Statuses, NEW ttl \in TTLs, Polled(c, status, ttl)
       PROVE  Heeds(store, store')
  <2> DEFINE t == ProviderLifetime(r, w, ttl)
             u == Observed(t, w, status)
  <2>1. store' = IF store.leader = c THEN u ELSE store
    BY <1>10 DEF Polled, Commit
  <2> HIDE DEF r
  <2>2. t \in Store /\ t.allocs = r.allocs /\ t.commands = r.commands
    BY <1>1, <1>2, ProviderLifetimeEvolves, ProviderLifetimeShape, ConfigAssumption
       DEF Evolves
  <2> HIDE DEF t
  <2>3. Heeds(t, u)
    BY <1>1, <2>2, ObservedHeeds
  <2> HIDE DEF u
  <2> QED BY <1>2, <2>1, <2>2, <2>3, HeedsWorkers, HeedsTrans, CommitHeeds
<1>11. CASE Deleted(c)
  BY <1>3, <1>11 DEF Deleted
<1> QED BY <1>4, <1>5, <1>6, <1>7, <1>8, <1>9, <1>10, <1>11 DEF Provider

-----------------------------------------------------------------------------
(* Every step *)

\* A new request has no room yet.
LEMMA NewAllocationHeeds ==
  ASSUME NEW s \in Store, NEW a \in FreshAllocation(s), NEW key, NEW users,
         NEW pref
  PROVE  Heeds(s, NewAllocationIn(s, a, key, users, pref))
<1> DEFINE t == NewAllocationIn(s, a, key, users, pref)
<1>1. a \in Allocation /\ s.allocs[a].state = "none"
  BY DEF FreshAllocation
<1>2. /\ t.commands = s.commands
      /\ \A x \in Allocation \ {a} : t.allocs[x] = s.allocs[x]
      /\ t.allocs[a].state = Waiting
  BY <1>1, NewAllocationTame
<1> HIDE DEF t
<1>3. Matched(s) => Matched(t)
  BY <1>1, <1>2, MatchedSame DEF Pending, Waiting
<1>4. ASSUME NEW x \in Allocation
      PROVE  Settles(s.allocs[x], t.allocs[x])
  <2>1. CASE x = a
    BY <1>2, <2>1, SettlesState DEF Waiting
  <2>2. CASE x # a
    BY <1>2, <2>2, SettlesState
  <2> QED BY <2>1, <2>2
<1>5. Heeds(s, t)
  BY <1>3, <1>4 DEF Heeds
<1> QED BY <1>5 DEF t

\* A player who joins a prepared room seats both of them on a worker that
\* admits players.
LEMMA JoinServes ==
  ASSUME TypeOK, NEW x \in Allocation, Join(x)
  PROVE  Serves(store, store')
<1> DEFINE a == store.allocs[x]
           q == Reserved(a)
<1>1. /\ store \in Store /\ a \in AllocationRecord
      /\ store' = [store EXCEPT !.allocs[x] = q]
      /\ a.state = "prepared" /\ a.worker # None
      /\ Eligible(store.workers[a.worker])
  BY StoreParts DEF TypeOK, Join
<1>2. q.state = "assigned" /\ q.worker = a.worker
  BY <1>1, ReservedFields
<1> HIDE DEF q
<1>3. /\ store'.workers = store.workers /\ store'.commands = store.commands
      /\ store'.allocs = [store.allocs EXCEPT ![x] = q]
  BY <1>1 DEF Store
<1>4. /\ store'.allocs[x] = q
      /\ \A y \in Allocation \ {x} : store'.allocs[y] = store.allocs[y]
  BY <1>1, <1>3, StoreParts
<1>5. Matched(store) => Matched(store')
  <2>1. \A y \in Allocation :
          \/ /\ store'.allocs[y].state = store.allocs[y].state
             /\ store'.allocs[y].worker = store.allocs[y].worker
          \/ /\ store.allocs[y].state \notin Pending
             /\ store'.allocs[y].state \notin Pending
    BY <1>1, <1>2, <1>4 DEF Pending
  <2>2. \A s, t : s = store /\ t = store' /\ Matched(s) => Matched(t)
    BY <1>3, <2>1, MatchedSame
  <2> QED BY <2>2
<1>6. \A y \in Allocation : Timed(store.allocs[y]) => Timed(store'.allocs[y])
  BY <1>2, <1>4 DEF Timed
<1>7. a.worker \in Worker
  BY <1>1 DEF AllocationRecord
<1>8. Admits(store'.workers[a.worker])
  BY <1>1, <1>3, EligibleAdmits
<1>9. SeatsOK(store, store')
  BY <1>2, <1>4, <1>7, <1>8 DEF SeatsOK
<1> QED BY <1>5, <1>6, <1>9 DEF Serves

\* The requests of clients and operators.
LEMMA ClientServes ==
  ASSUME SafetyInv, Client
  PROVE  Serves(store, store')
<1>0. TypeOK /\ store \in Store /\ Sound(store)
  BY DEF SafetyInv, TypeOK
<1>1. ASSUME store'.allocs = store.allocs, store'.commands = store.commands
      PROVE  Serves(store, store')
  BY <1>1, HeedsWorkers, HeedsServes
<1>2. ASSUME NEW r \in Request, Allocate(r)
      PROVE  Serves(store, store')
  BY <1>0, <1>2, NewAllocationHeeds, HeedsServes DEF Allocate
<1>3. ASSUME NEW rooms \in CreateSizes, NEW w \in UnusedWorkers(store)
      PROVE  /\ NewWorkerIn(store, w, rooms) \in Store
             /\ NewWorkerIn(store, w, rooms).allocs = store.allocs
             /\ NewWorkerIn(store, w, rooms).commands = store.commands
  <2>1. rooms \in Nat /\ w \in Worker
    BY InputAssumption DEF UnusedWorkers, FreshWorker
  <2> QED BY <1>0, <2>1, NewWorkerShape, NewWorkerEvolves DEF Evolves
<1>4. ASSUME NEW rooms \in CreateSizes, Create(rooms)
      PROVE  Serves(store, store')
  BY <1>1, <1>3, <1>4 DEF Create
<1>5. ASSUME NEW rooms \in CreateSizes, NEW r \in Request,
             CreateWithUsers(rooms, r.users)
      PROVE  Serves(store, store')
  <2>1. PICK w \in UnusedWorkers(store), a \in FreshAllocation(store) :
          store' = NewAllocationIn(NewWorkerIn(store, w, rooms), a, w,
                                   r.users, w)
    BY <1>5 DEF CreateWithUsers
  <2> DEFINE n == NewWorkerIn(store, w, rooms)
  <2>2. n \in Store /\ n.allocs = store.allocs /\ n.commands = store.commands
    BY <1>3
  <2>3. store' = NewAllocationIn(n, a, w, r.users, w)
    BY <2>1
  <2> HIDE DEF n
  <2>4. a \in FreshAllocation(n)
    BY <2>2 DEF FreshAllocation
  <2>5. Heeds(n, store')
    BY <2>2, <2>3, <2>4, NewAllocationHeeds
  <2> QED BY <2>2, <2>5, HeedsWorkers, HeedsTrans, HeedsServes
<1>6. ASSUME NEW u \in User, NEW x \in Allocation, Cancel(u, x)
      PROVE  Serves(store, store')
  BY <1>0, <1>6, CancelAllHeeds, HeedsServes DEF Cancel
<1>7. ASSUME NEW x \in Allocation, Join(x)
      PROVE  Serves(store, store')
  BY <1>0, <1>7, JoinServes
<1>8. ASSUME NEW w \in Worker, NEW n \in PlayerCounts, Update(w, n)
      PROVE  Serves(store, store')
  BY <1>0, <1>1, <1>8 DEF Update, Store
<1>9. ASSUME NEW w \in Worker, Drain(w)
      PROVE  Serves(store, store')
  BY <1>0, <1>9, BeginDrainHeeds, HeedsServes DEF Drain
<1>10. CASE RetryCreation
  BY <1>0, <1>1, <1>10 DEF RetryCreation, Store
<1>11. ASSUME NEW rooms \in RoomsChoice, UpdatePolicy(rooms)
       PROVE  Serves(store, store')
  BY <1>0, <1>1, <1>11 DEF UpdatePolicy, Store
<1> QED BY <1>2, <1>4, <1>5, <1>6, <1>7, <1>8, <1>9, <1>10, <1>11
        DEF Client, Delete

\* The requests of game processes.
LEMMA ProcessServes ==
  ASSUME SafetyInv, Matched(store), Process
  PROVE  Serves(store, store')
<1>0. store \in Store
  BY DEF SafetyInv, TypeOK
<1>1. ASSUME NEW w \in Worker, NEW b \in Boot, Bootstrap(w, b)
      PROVE  Serves(store, store')
  <2>1. store'.allocs = store.allocs /\ store'.commands = store.commands
    BY <1>0, <1>1 DEF Bootstrap, Store
  <2> QED BY <2>1, HeedsWorkers, HeedsServes
<1>2. ASSUME NEW w \in Worker, Heartbeat(w)
      PROVE  Serves(store, store')
  BY <1>0, <1>2, HeartbeatServes DEF Heartbeat
<1> QED BY <1>1, <1>2 DEF Process

\* The controllers.
LEMMA ControlServes ==
  ASSUME SafetyInv, NEW c \in Controller, Control(c)
  PROVE  Serves(store, store')
<1>0. store \in Store
  BY DEF SafetyInv, TypeOK
<1>1. CASE Tick(c)
  BY <1>1, TickServes
<1>2. CASE Provider(c)
  BY <1>2, ProviderHeeds, HeedsServes
<1>3. CASE \/ Pick(c) \/ PickNothing(c) \/ Start(c) \/ Stop(c) \/ Refused(c)
           \/ Abort(c) \/ Shutdown(c) \/ Crash(c)
  <2>1. store'.allocs = store.allocs /\ store'.commands = store.commands
    BY <1>0, <1>3 DEF Pick, PickNothing, Start, Stop, Refused, Abort, Shutdown,
                      Crash, Leads, Store
  <2> QED BY <2>1, HeedsWorkers, HeedsServes
<1> QED BY <1>1, <1>2, <1>3 DEF Control, Advance

CommandInv ==
  /\ SafetyInv
  /\ Matched(store)
  /\ \A x \in Allocation : Timed(store.allocs[x])

\* Every step keeps the invariant and seats players where they are admitted.
LEMMA CommandStep ==
  ASSUME CommandInv, [Next]_vars
  PROVE  CommandInv' /\ SeatsOK(store, store')
<1>1. Serves(store, store')
  <2>1. CASE Client
    BY <2>1, ClientServes DEF CommandInv
  <2>2. CASE Process
    BY <2>2, ProcessServes DEF CommandInv
  <2>3. CASE \E c \in Controller : Control(c)
    BY <2>3, ControlServes DEF CommandInv
  <2>4. CASE Elapse
    BY <2>4, AgedHeeds, HeedsServes DEF CommandInv, SafetyInv, TypeOK, Elapse
  <2>5. CASE UNCHANGED vars
    BY <2>5, HeedsWorkers, HeedsServes DEF vars
  <2> QED BY <2>1, <2>2, <2>3, <2>4, <2>5 DEF Next
<1>2. SafetyInv'
  BY SafeStep DEF CommandInv
<1> QED BY <1>1, <1>2 DEF CommandInv, Serves

\* A fleet starts with no commands and no rooms.
LEMMA InitCommands ==
  ASSUME Init
  PROVE  CommandInv
<1>1. store.commands = {}
  BY DEF Init, NewStore
<1>2. \A x \in Allocation : store.allocs[x].state = "none"
  <2>1. NoAllocation.state = "none"
    BY DEF NoAllocation
  <2>2. \A x \in Allocation : store.allocs[x] = NoAllocation
    BY DEF Init, NewStore
  <2> QED BY <2>1, <2>2
<1>3. Matched(store)
  BY <1>1, <1>2 DEF Matched, Asks
<1>4. \A x \in Allocation : Timed(store.allocs[x])
  BY <1>2 DEF Timed
<1> QED BY <1>3, <1>4, InitSafe DEF CommandInv

\* The invariant holds in every reachable state.
LEMMA CommandsSafe == Spec => []CommandInv
<1>1. Init => CommandInv
  BY InitCommands
<1>2. CommandInv /\ [Next]_vars => CommandInv'
  BY CommandStep
<1> QED BY <1>1, <1>2, PTL DEF Spec

-----------------------------------------------------------------------------
(* Theorems *)

\* A room is being prepared exactly while a prepare_room for it is queued for
\* its worker, and being cancelled exactly while a cancel_room is: cancel,
\* stopped, lost and the heartbeat's results withdraw and renew commands
\* together with the states of the rooms.
THEOREM CommandsMatch == Spec => []CommandsMatchRooms
<1>1. CommandInv => CommandsMatchRooms
  BY DEF CommandInv, Matched, Asks, CommandsMatchRooms
<1> QED BY <1>1, CommandsSafe, PTL

\* Both players of an active room have been seen, and each is connected or
\* has a deadline to come back (the room snapshot of heartbeatHTTP): no room
\* waits for an absent player for ever.
THEOREM AbsencesAreTimed == Spec => []AbsenceIsTimed
<1>1. CommandInv => AbsenceIsTimed
  BY DEF CommandInv, Timed, AbsenceIsTimed
<1> QED BY <1>1, CommandsSafe, PTL

\* reserve, whether called by join, by the answer to prepare_room or by the
\* tick, seats players only on a worker that admits players in the state the
\* transaction leaves: the later passes of a tick do not drain it.
THEOREM SeatsAreAdmitted == Spec => SeatsWhereAdmitted
<1> DEFINE Seat == \A x \in Allocation :
             /\ store.allocs[x].state \notin {"assigned", "active"}
             /\ store'.allocs[x].state = "assigned"
             => LET r == store'.workers[store'.allocs[x].worker] IN
                /\ r.state = "ready" /\ ~r.draining /\ Fresh(r)
                /\ r.life # Never => r.life > MinLifetimeForAdmission
<1>1. CommandInv /\ [Next]_vars => [Seat]_vars
  BY CommandStep DEF SeatsOK, Admits
<1> QED BY <1>1, CommandsSafe, PTL DEF Spec, SeatsWhereAdmitted

-----------------------------------------------------------------------------
(* Scaling down *)

\* A pass that begins no drain.
DrainsNone(s, t) ==
  \A w \in Worker : ~s.workers[w].draining => ~t.workers[w].draining

\* The first pass drains only workers whose provider will expire.
LEMMA CheckWorkersDrains ==
  ASSUME NEW s \in Store, NEW w \in Worker, ~s.workers[w].draining,
         s.workers[w].life = Never
  PROVE  ~CheckWorkers(s).workers[w].draining
<1> DEFINE ending == {v \in Worker :
                        /\ s.workers[v].state = "ready"
                        /\ s.workers[v].life # Never
                        /\ s.workers[v].life <= MinLifetimeForAdmission}
           t == BeginDrain(s, ending)
           V == [v \in Worker |-> CheckedWorker(t.workers[v])]
           u == [t EXCEPT !.workers = V]
           silent == {v \in Worker : Silent(u.workers[v])}
<1>1. t \in Store /\ t.workers[w] = s.workers[w]
  BY BeginDrainEvolves, BeginDrainShape DEF Evolves
<1>2. CheckWorkers(s) = CloseWorkers(u, silent, "lost")
  BY DEF CheckWorkers, Lost
<1> HIDE DEF t
<1>3. V \in [Worker -> WorkerRecord] /\ V[w] = CheckedWorker(t.workers[w])
  BY <1>1, StoreParts, CheckedWorkerMoves
<1> HIDE DEF V
<1>4. u \in Store /\ u.workers = V
  BY <1>1, <1>3 DEF Store
<1> HIDE DEF u
<1>5. ~V[w].draining /\ V[w] \in WorkerRecord
  <2>1. s.workers[w] \in WorkerRecord
    BY StoreParts
  <2>2. CheckedWorker(s.workers[w]).draining = s.workers[w].draining
    BY <2>1 DEF CheckedWorker, WorkerRecord
  <2> QED BY <1>1, <1>3, <2>2
<1>6. CloseWorkers(u, silent, "lost").workers[w] =
        IF w \in silent THEN Closed(u.workers[w], "lost") ELSE u.workers[w]
  <2>1. silent \in SUBSET Worker
    OBVIOUS
  <2> HIDE DEF silent
  <2> QED BY <1>4, <2>1, CloseWorkersShape
<1>7. ~Closed(V[w], "lost").draining
  BY <1>5, ClosedFields
<1> QED BY <1>2, <1>4, <1>5, <1>6, <1>7

\* The other passes before the scaling drain no worker.
LEMMA MaintainedDrains ==
  ASSUME NEW s \in Store, NEW w \in Worker, ~s.workers[w].draining,
         s.workers[w].life = Never
  PROVE  ~Maintained(s).workers[w].draining
<1> DEFINE t == CheckWorkers(s)
           u == ExpireAllocations(t)
           v == PruneAllocations(u)
           z == PruneWorkers(v)
<1>1. t \in Store /\ ~t.workers[w].draining
  BY CheckWorkersEvolves, CheckWorkersDrains DEF Evolves
<1>2. Maintained(s) = ReservePrepared(z)
  BY DEF Maintained
<1> HIDE DEF t
<1>3. u \in Store /\ u.workers = t.workers
  BY <1>1, ExpireAllocationsEvolves, CancelAllShape DEF Evolves, ExpireAllocations
<1> HIDE DEF u
<1>4. v \in Store /\ v.workers = u.workers
  BY <1>3, PruneAllocationsEvolves DEF Evolves, PruneAllocations, Store
<1> HIDE DEF v
<1>5. z \in Store /\ z.workers[w] \in {NoWorker, v.workers[w]}
  <2> DEFINE W == PrunableWorkers(v)
             V == [x \in Worker |-> IF x \in W THEN NoWorker ELSE v.workers[x]]
  <2>1. z.workers = V
    BY <1>4 DEF PruneWorkers, Store
  <2> QED BY <1>4, <2>1, PruneWorkersEvolves DEF Evolves
<1>6. ~NoWorker.draining
  BY DEF NoWorker
<1> HIDE DEF z
<1>7. ReservePrepared(z).workers = z.workers
  BY <1>5, ReservePreparedShape
<1> QED BY <1>1, <1>2, <1>3, <1>4, <1>5, <1>6, <1>7

\* Idle workers are drained only down to MinInstances.
LEMMA ScaleDownsLeave ==
  ASSUME NEW s \in Store, NEW u \in ScaleDowns(s), NEW w \in Worker,
         ~s.workers[w].draining, u.workers[w].draining
  PROVE  Cardinality(ReadyWorkers(u)) >= MinInstances
<1> DEFINE V == [v \in Worker |-> IdleClock(s, v)]
           t == [s EXCEPT !.workers = V]
<1>1. PICK D \in DrainChoices(t) : u = StopDrained(BeginDrain(t, D))
  BY DEF ScaleDowns
<1>2. V \in [Worker -> WorkerRecord] /\ \A v \in Worker : V[v] = IdleClock(s, v)
  BY IdleClockFields
<1> HIDE DEF V
<1>3. t \in Store /\ t.workers = V
  BY <1>2 DEF Store
<1> HIDE DEF t
<1>4. D \in SUBSET ReadyWorkers(t) /\ D \in SUBSET Worker
  BY <1>1 DEF DrainChoices, SurplusWorkers, ReadyWorkers
<1> DEFINE b == BeginDrain(t, D)
<1>5. /\ b \in Store
      /\ \A v \in Worker :
           b.workers[v] = IF v \in D /\ ~t.workers[v].draining
                            THEN Draining(t.workers[v]) ELSE t.workers[v]
  BY <1>3, <1>4, BeginDrainEvolves, BeginDrainShape DEF Evolves
<1>6. u = StopDrained(b)
  BY <1>1
<1> HIDE DEF b
<1>7. /\ \A v \in Worker : b.workers[v].state # "draining" =>
                             u.workers[v] = b.workers[v]
      /\ \A v \in Worker : u.workers[v].draining = b.workers[v].draining
  <2>1. \A v \in Worker :
          u.workers[v] = IF b.workers[v].state = "draining" /\ DrainedEmpty(b, v)
                           THEN [b.workers[v] EXCEPT !.state = "stopping",
                                                     !.nextCheck = 0]
                           ELSE b.workers[v]
    BY <1>5, <1>6, StopDrainedShape
  <2>2. \A v \in Worker : b.workers[v] \in WorkerRecord
    BY <1>5, StoreParts
  <2>3. \A r \in WorkerRecord :
          [r EXCEPT !.state = "stopping", !.nextCheck = 0].draining = r.draining
    BY DEF WorkerRecord
  <2> QED BY <2>1, <2>2, <2>3
<1>8. \A v \in ReadyWorkers(t) \ D : v \in ReadyWorkers(u)
  BY <1>5, <1>7 DEF ReadyWorkers
<1>9. D # {}
  <2>1. ~t.workers[w].draining
    BY <1>2, <1>3, IdleClockFields
  <2> QED BY <1>5, <1>7, <2>1
<1> DEFINE R == ReadyWorkers(t)
           Q == ReadyWorkers(u)
<1>10. Cardinality(D) <= Cardinality(R) - MinInstances
  BY <1>1, <1>9 DEF DrainChoices
<1>11. IsFiniteSet(R) /\ IsFiniteSet(Q) /\ IsFiniteSet(D)
  BY <1>4, FS_Subset, IdAssumption DEF ReadyWorkers
<1> HIDE DEF R, Q
<1>12. /\ Cardinality(R \ D) = Cardinality(R) - Cardinality(R \cap D)
       /\ R \cap D = D
  BY <1>4, <1>11, FS_Difference DEF R
<1>13. R \ D \in SUBSET Q
  BY <1>8 DEF R, Q
<1>14. Cardinality(R \ D) <= Cardinality(Q)
  BY <1>11, <1>13, FS_Subset
<1>15. /\ Cardinality(R) \in Nat /\ Cardinality(Q) \in Nat
       /\ Cardinality(D) \in Nat
  BY <1>11, FS_CardinalityType
<1>16. Cardinality(Q) >= MinInstances
  <2>1. MinInstances \in Nat
    BY ConfigAssumption
  <2>2. Cardinality(R \ D) = Cardinality(R) - Cardinality(D)
    BY <1>12
  <2> DEFINE m == Cardinality(D)
             n == Cardinality(R)
             k == Cardinality(Q)
             j == Cardinality(R \ D)
  <2>3. /\ m \in Nat /\ n \in Nat /\ k \in Nat
        /\ m <= n - MinInstances /\ j = n - m /\ j <= k
    BY <1>10, <1>14, <1>15, <2>2
  <2> HIDE DEF m, n, k, j
  <2>4. k >= MinInstances
    BY <2>1, <2>3
  <2> QED BY <2>4 DEF k
<1> QED BY <1>16 DEF Q

\* A tick that drains a worker the provider will keep leaves the minimum.
LEMMA TickLeaves ==
  ASSUME SafetyInv, NEW c \in Controller, Tick(c), NEW w \in Worker,
         ~store.workers[w].draining, store'.workers[w].draining,
         store.workers[w].life = Never
  PROVE  Cardinality(ReadyWorkers(store')) >= MinInstances
<1> DEFINE r == Leads(store, c)
           s == Maintained(r)
<1>1. PICK P \in Placements(s) :
        \E t \in ScaleUps(Place(s, P), UnusedWorkers(Place(s, P))) :
          store' \in ScaleDowns(t)
  BY DEF Tick
<1> DEFINE q == Place(s, P)
<1>2. PICK t \in ScaleUps(q, UnusedWorkers(q)) : store' \in ScaleDowns(t)
  BY <1>1
<1>3. /\ r \in Store /\ r.workers = store.workers /\ r.allocs = store.allocs
  BY LeadsEvolves DEF SafetyInv, TypeOK, Evolves, Leads, Store
<1> HIDE DEF r
<1>4. Sound(r)
  BY <1>3, SoundSame DEF SafetyInv
<1>5. s \in Store /\ Tame(r, s) /\ ~s.workers[w].draining
  BY <1>3, MaintainedEvolves, MaintainedTame, MaintainedDrains DEF Evolves
<1> HIDE DEF s
<1>6. Sound(s)
  BY <1>3, <1>4, <1>5, TameSound
<1>7. q \in Store /\ Sound(q) /\ ~q.workers[w].draining
  BY <1>5, <1>6, PlaceEvolves, PlaceSound, PlaceWorkers DEF Evolves
<1> HIDE DEF q
<1>8. UnusedWorkers(q) \in SUBSET FreshWorker(q)
  BY DEF UnusedWorkers
<1>9. t \in Store /\ ~t.workers[w].draining
  BY <1>2, <1>7, <1>8, ScaleUpsEvolve, ScaleUpsSound DEF Evolves, FreshWorker
<1> QED BY <1>2, <1>9, ScaleDownsLeave

\* Only a tick takes a controller from idle to pick.
LEMMA OnlyTickPicks ==
  ASSUME TypeOK, [Next]_vars, NEW c \in Controller,
         ctl[c].op = "idle", ctl'[c].op = "pick"
  PROVE  Tick(c)
<1>1. ctl' # ctl
  OBVIOUS
<1>2. PICK d \in Controller : Control(d)
  <2>1. ~Client
    BY <1>1 DEF Client, Allocate, Create, CreateWithUsers, Cancel, Join, Update,
                Drain, Delete, RetryCreation, UpdatePolicy
  <2>2. ~Process /\ ~Elapse /\ ~UNCHANGED vars
    BY <1>1 DEF Process, Bootstrap, Heartbeat, Elapse, vars
  <2> QED BY <2>1, <2>2 DEF Next
<1>3. ASSUME NEW op, NEW w, Goto(d, op, w), op # "pick"
      PROVE  FALSE
  <2>1. /\ ctl'[d] = [op |-> op, w |-> w]
        /\ \A e \in Controller \ {d} : ctl'[e] = ctl[e]
    BY <1>3, GotoShape
  <2>2. c = d
    BY <2>1
  <2>3. ctl'[d].op = op
    BY <2>1
  <2> QED BY <1>3, <2>2, <2>3
<1>4. CASE Tick(d)
  <2>1. d = c
    BY <1>4, GotoShape DEF Tick
  <2> QED BY <1>4, <2>1
<1>5. CASE Abort(d) \/ Crash(d)
  BY <1>3, <1>5 DEF Abort, Crash
<1>6. CASE Shutdown(d)
  BY <1>1, <1>6 DEF Shutdown
<1>7. CASE Pick(d)
  <2>1. PICK w \in Worker : /\ DueOp(store.workers[w]) # "idle"
                            /\ Goto(d, DueOp(store.workers[w]), w)
    BY <1>7 DEF Pick
  <2>2. DueOp(store.workers[w]) # "pick"
    BY DEF DueOp
  <2> QED BY <1>3, <2>1, <2>2
<1>8. CASE PickNothing(d) \/ Start(d) \/ Stop(d) \/ Refused(d)
  BY <1>3, <1>8 DEF PickNothing, Start, Stop, Refused
<1>9. CASE Provider(d)
  BY <1>3, <1>9
     DEF Provider, Created, CreateFailed, Recreate, Adopted, NotAdopted, PollGone,
         PollMismatch, PollFailed, Polled, DeleteFailed, Deleted, Confirmed,
         Unconfirmed, Commit
<1> QED BY <1>2, <1>4, <1>5, <1>6, <1>7, <1>8, <1>9 DEF Control, Advance

\* The loop over idle workers (lifecycle.go:175-189) recounts what it drains:
\* a tick that drains workers because they are idle leaves MinInstances ready
\* ones, however many became idle together.
THEOREM MinimumIsKept == Spec => ScaleDownKeepsMinimum
<1>1. SafetyInv /\ [Next]_vars => 
        [(\E c \in Controller, w \in Worker :
            /\ ctl[c].op = "idle" /\ ctl'[c].op = "pick"
            /\ ~store.workers[w].draining /\ store'.workers[w].draining
            /\ store.workers[w].life = Never)
         => Cardinality(ReadyWorkers(store')) >= MinInstances]_vars
  BY OnlyTickPicks, TickLeaves DEF SafetyInv
<1> QED BY <1>1, FleetSafe, PTL DEF Spec, ScaleDownKeepsMinimum

=============================================================================
