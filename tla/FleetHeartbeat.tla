---------------------------- MODULE FleetHeartbeat ----------------------------
(***************************************************************************)
(* The transaction of heartbeatHTTP (pkg/fleetmanager/http.go:201-353) for *)
(* a report with a new sequence number: observe the process, apply command *)
(* results, then apply the room snapshot.  A report the handler refuses    *)
(* rolls back and a replayed sequence number changes nothing, so neither   *)
(* has an operator here.                                                   *)
(*                                                                         *)
(* A report is [ready, pending, overloaded, rooms, results]: rooms maps    *)
(* the allocations whose room the process lists to what it says of them,   *)
(* results maps the commands it answers to "success" or "failure".         *)
(***************************************************************************)
EXTENDS FleetStore

\* "closed", "playing", or one of the other three accepted room states
\* (waiting_players, between_rounds, closing), which are treated alike.
RoomState == {"closed", "playing", "other"}
RoomReport == [state : RoomState, users : SUBSET User]

\* Lines 340-351: the commands the response carries (the limit of 64 is not
\* reached by the models' few allocations).
DueCommands(s, w) == {c \in s.commands : c.worker = w /\ c.wait = 0}

\* The checks that refuse a report: unknown rooms and users, too many rooms,
\* results for commands of another worker.  A process answers commands it has
\* been sent; answering one that is already Done is skipped.
ValidReport(s, w, report) ==
  /\ Cardinality(DOMAIN report.rooms) <= s.workers[w].maxRooms
  /\ \A x \in DOMAIN report.rooms :
        /\ s.allocs[x].worker = w
        /\ report.rooms[x].users \subseteq s.allocs[x].users
  /\ \A c \in DOMAIN report.results : c \in DueCommands(s, w)

\* Mutant: a worker being deleted is promoted as well.
ObserveWhileStopping(s, w, report) ==
  LET r == s.workers[w]
      serving == /\ r.providerReady /\ report.ready
                 /\ r.state \notin {"unknown", "requested", "starting"}
  IN  [s EXCEPT !.workers[w] =
        [r EXCEPT !.heartbeat = 0, !.ready = report.ready,
                  !.pending = report.pending,
                  !.overloaded = report.overloaded,
                  !.state = IF ~serving THEN r.state
                            ELSE IF r.draining THEN "draining" ELSE "ready"]]

\* Lines 241-251.  A report of readiness promotes the worker once its
\* provider has confirmed an address.
Observe(s, w, report) ==
  LET r == s.workers[w]
      serving == /\ r.providerReady /\ report.ready
                 /\ r.state \notin {"stopping", "unknown", "requested",
                                    "starting"}
  IN  [s EXCEPT !.workers[w] =
        [r EXCEPT !.heartbeat = 0, !.ready = report.ready,
                  !.pending = report.pending,
                  !.overloaded = report.overloaded,
                  !.state = IF ~serving THEN r.state
                            ELSE IF r.draining THEN "draining" ELSE "ready"]]

\* Lines 252-306: what an answer to a prepare_room or cancel_room means for
\* its allocation.
Answered(report, type, answer) ==
  {c \in DOMAIN report.results : c.type = type /\ report.results[c] = answer}
PreparedLate(s, w, report) ==
  {c.alloc : c \in {d \in Answered(report, "prepare_room", "success") :
                      d.ttl = 0 \/ s.workers[w].draining}}
PrepareFailed(report) ==
  {c.alloc : c \in Answered(report, "prepare_room", "failure")}
Prepared(s, w, report) ==
  {c.alloc : c \in Answered(report, "prepare_room", "success")}
    \ PreparedLate(s, w, report)
RoomCancelled(report) ==
  {c.alloc : c \in Answered(report, "cancel_room", "success")}

ApplyPrepared(s, w, X) ==
  [s EXCEPT !.allocs = [x \in Allocation |->
     LET a == s.allocs[x] IN
     CASE x \in X /\ a.state = "preparing" ->
            IF Eligible(s.workers[w]) THEN Reserved(a)
            ELSE [a EXCEPT !.state = "prepared"]
       [] OTHER -> a]]
ApplyCancelled(s, X) ==
  [s EXCEPT !.allocs = [x \in Allocation |->
     LET a == s.allocs[x] IN
     IF x \in X /\ a.state = "cancelling"
       THEN Finish(a, IF a.reason = "cancelled" THEN "cancelled" ELSE "expired",
                   a.reason)
       ELSE a]]
\* Answered commands are Done; a failed cancel or drain is issued again.
ApplyDone(s, w, report) ==
  [s EXCEPT
     !.commands = (s.commands \ DOMAIN report.results)
        \cup {RetryOf(c) : c \in Answered(report, "cancel_room", "failure")
                             \cup Answered(report, "drain", "failure")},
     !.workers[w].drainAck = @ \/ Answered(report, "drain", "success") # {}]

Preparing(s, X) == {x \in X \cap Allocation : s.allocs[x].state = "preparing"}
ApplyResults(s, w, report) ==
  LET t == ApplyDone(s, w, report)
      u == CancelAll(t, Preparing(t, PreparedLate(t, w, report)
                                       \cup PrepareFailed(report)), "other")
      v == ApplyPrepared(u, w, Prepared(t, w, report))
  IN  ApplyCancelled(v, RoomCancelled(report))

\* Mutant: Connected is updated before it is tested.
SeenSessionTooEarly(e, here) ==
  [connected |-> here,
   ever |-> e.ever \/ here,
   reconnect |-> IF here THEN Never
                 ELSE IF here /\ e.reconnect = Never
                   THEN ReconnectSeconds ELSE e.reconnect]

\* Lines 307-338: the room snapshot.  A player who leaves gets a deadline to
\* come back, a player who is present has none.
SeenSession(e, here) ==
  [connected |-> here,
   ever |-> e.ever \/ here,
   reconnect |-> IF here THEN Never
                 ELSE IF e.connected /\ e.reconnect = Never
                   THEN ReconnectSeconds ELSE e.reconnect]
SeenRoom(a, room) ==
  IF a.state \notin {"assigned", "active"} THEN a
  ELSE IF room.state = "closed" THEN Finish(a, "completed", "")
  ELSE [a EXCEPT
          !.sessions = [u \in User |->
             IF u \in a.users THEN SeenSession(a.sessions[u], u \in room.users)
                              ELSE a.sessions[u]],
          !.state = IF room.state = "playing" /\ room.users = a.users
                      THEN "active" ELSE a.state]
PlayersSeen(s, report) ==
  Cardinality({p \in Allocation \X User :
    /\ p[1] \in DOMAIN report.rooms
    /\ Live(s.allocs[p[1]])
    /\ report.rooms[p[1]].state # "closed"
    /\ p[2] \in report.rooms[p[1]].users})
ApplyRooms(s, w, report) ==
  [s EXCEPT
     !.allocs = [x \in Allocation |->
        IF x \in DOMAIN report.rooms
          THEN SeenRoom(s.allocs[x], report.rooms[x]) ELSE s.allocs[x]],
     !.workers[w].players = PlayersSeen(s, report)]

HeartbeatIn(s, w, report) ==
  ApplyRooms(ApplyResults(Observe(s, w, report), w, report), w, report)
=============================================================================
