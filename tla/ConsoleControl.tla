--------------------------- MODULE ConsoleControl ---------------------------
(***************************************************************************)
(* Commands and snapshots of the console, on top of its sessions: the data *)
(* source with its cached snapshot (internal/console/source.go, policy.go, *)
(* api_v1.go), the control broker behind a Unix socket with two slots      *)
(* (control.go), and the fleet manager's administration endpoints          *)
(* (pkg/fleetmanager/policy.go).  A command that is given up may still be  *)
(* carried out.                                                            *)
(***************************************************************************)
EXTENDS ConsoleAuth

CONSTANTS
  Slots,        \* broker requests at a time (2)
  FileTTL,      \* greatest age of the exported fleet file (20 s)
  CollectTTL,   \* longest collection of a snapshot (8 s)
  CacheTTL,     \* life of the cached snapshot (3 s)
  MaxCalls,     \* bound: commands and snapshots in a behaviour
  MaxBeside     \* bound: login requests and ticks of the expiry beside commands and snapshots

ASSUME ControlConstants ==
  /\ {Slots, CacheTTL} \subseteq Nat \ {0}
  /\ {FileTTL, CollectTTL, MaxCalls, MaxBeside} \subseteq Nat

VARIABLES
  req,       \* req[o]: the request of browser o
  broker,    \* requests that hold a slot of the broker
  flight,    \* commands sent to the fleet manager and not taken back
  revision,  \* revision of the capacity policy
  applied,   \* history: requests whose command took effect
  told,      \* history: requests answered as done, and as not done
  file,      \* age of the exported fleet file
  cache,     \* the cached snapshot
  mu,        \* holder of the data source's lock
  saw,       \* saw[o]: the snapshot last served to browser o
  calls      \* number of commands and snapshots asked for

control == <<broker, flight, revision, applied, told>>
source == <<file, cache, mu, saw>>
consoleVars == <<authVars, req, control, source, calls>>

(* The lifecycle commands are drain and retry-creation.                    *)
Kinds == {"policy", "lifecycle"}
NoRequest == [id |-> 0, kind |-> "none", base |-> 0]

(* A snapshot: whether the file was fit to use, its age, the age of the    *)
(* cache entry, the commands acknowledged before the file was read, and    *)
(* those acknowledged before the request it answers.                       *)
NoSnapshot == [ok |-> FALSE, age |-> 0, cached |-> CacheTTL, after |-> {}, asked |-> {}]

ControlInit ==
  /\ req = [o \in Operator |-> NoRequest]
  /\ broker = {} /\ flight = {} /\ revision = 1
  /\ applied = {} /\ told = [yes |-> {}, no |-> {}]
  /\ file = 0 /\ cache = NoSnapshot /\ mu = {} /\ calls = 0
  /\ saw = [o \in Operator |-> NoSnapshot]

(* Every answer says whether the command is done, except control_           *)
(* unavailable and control_invalid_response (both "unavailable" here).      *)
Answer(o, result) ==
  told' = CASE result = "ok" -> [told EXCEPT !.yes = @ \cup {req[o].id}]
            [] result = "unavailable" -> told
            [] OTHER -> [told EXCEPT !.no = @ \cup {req[o].id}]
Call(o) == Begin(o) /\ calls < MaxCalls /\ asked - calls <= MaxBeside /\ calls' = calls + 1
Done(o) == Goto(o, "idle") /\ req' = [req EXCEPT ![o] = NoRequest]

-----------------------------------------------------------------------------
(* Commands.  The operator bases a policy on a revision seen earlier.      *)

Submit(o, kind, base) ==
  /\ Call(o) /\ (\E s \in cookies : Session(s)) /\ Goto(o, "send")
  /\ base \in IF kind = "policy" THEN 1..revision ELSE {0}
  /\ req' = [req EXCEPT ![o] = [id |-> calls + 1, kind |-> kind, base |-> base]]
  /\ UNCHANGED <<tables, cookies, control, source>>

Command(o) == [id |-> req[o].id, kind |-> req[o].kind, base |-> req[o].base, reply |-> "none"]

(* ControlServer.ServeHTTP takes a slot and upstream sends the command.    *)
Enter(o) ==
  /\ at[o] = "send" /\ Cardinality(broker) < Slots
  /\ broker' = broker \cup {req[o].id} /\ flight' = flight \cup {Command(o)}
  /\ Goto(o, "wait")
  /\ UNCHANGED <<tables, cookies, asked, req, revision, applied, told, source, calls>>

(* No slot is free, the input is refused, or the credential or the socket  *)
(* cannot be used: nothing is sent.                                        *)
NotSent(o, result) ==
  /\ at[o] = "send"
  /\ result = "busy" => Cardinality(broker) >= Slots
  /\ Answer(o, result) /\ Done(o)
  /\ UNCHANGED <<tables, cookies, asked, broker, flight, revision, applied, source, calls>>

(* The fleet manager: the update is one transaction, the policy it answers *)
(* with is read by a second one.                                           *)
Conflicts(cmd) == cmd.kind = "policy" /\ cmd.base # revision

Awaited(cmd) == cmd.id \in broker /\ \E o \in Operator : at[o] = "wait" /\ req[o].id = cmd.id
Handled(cmd, reply) ==
  flight' = (flight \ {cmd}) \cup
              (IF Awaited(cmd) THEN {[cmd EXCEPT !.reply = reply]} ELSE {})

Apply(cmd, reply) ==
  /\ cmd.reply = "none" /\ ~Conflicts(cmd)
  /\ reply = "unavailable" => cmd.kind = "policy" /\ Awaited(cmd)
  /\ applied' = applied \cup {cmd.id}
  /\ revision' = IF cmd.kind = "policy" THEN revision + 1 ELSE revision
  /\ Handled(cmd, reply)
  /\ UNCHANGED <<authVars, req, broker, told, source, calls>>

(* A drain may be refused.  A transaction that fails, or whose context is  *)
(* cancelled, leaves nothing behind.                                       *)
Refuse(cmd) ==
  /\ cmd.reply = "none"
  /\ \E reply \in {"conflict", "refused", "unavailable"} :
       /\ reply = "conflict" => Conflicts(cmd)
       /\ reply = "refused" => cmd.kind = "lifecycle"
       /\ Handled(cmd, reply)
  /\ UNCHANGED <<authVars, req, broker, revision, applied, told, source, calls>>

(* The broker passes the answer on; what it accepted is acknowledged once  *)
(* the cached snapshot is dropped.                                         *)
Reply(o, cmd) ==
  /\ at[o] = "wait" /\ cmd.id = req[o].id /\ cmd.id \in broker /\ cmd.reply # "none"
  /\ broker' = broker \ {cmd.id} /\ flight' = flight \ {cmd}
  /\ IF cmd.reply = "ok" THEN Goto(o, "invalidate") /\ UNCHANGED <<req, told>>
     ELSE Answer(o, cmd.reply) /\ Done(o)
  /\ UNCHANGED <<tables, cookies, asked, revision, applied, source, calls>>

(* The reply to a request that is over is thrown away.                     *)
Unread(i) == {cmd \in flight : cmd.id # i \/ cmd.reply = "none"}

\* Mutant: a command without an answer is sent once more.
BrokerGivesUpRetrying(i) ==
  /\ i \in broker
  /\ IF \E o \in Operator : at[o] = "wait" /\ req[o].id = i
     THEN \E o \in Operator : /\ at[o] = "wait" /\ req[o].id = i
                              /\ flight' = Unread(i) \cup {Command(o)}
                              /\ UNCHANGED broker
     ELSE broker' = broker \ {i} /\ flight' = Unread(i)
  /\ UNCHANGED <<authVars, req, revision, applied, told, source, calls>>
\* Mutant: the slot comes back only while its client is there.
BrokerGivesUpAnswering(i) ==
  /\ i \in broker /\ broker' = broker \ {i}
  /\ \E o \in Operator :
       /\ req[o].id = i
       /\ IF at[o] = "wait" THEN Answer(o, "unavailable") /\ Done(o)
          ELSE UNCHANGED <<at, req, told>>
  /\ flight' = Unread(i)
  /\ UNCHANGED <<tables, cookies, asked, revision, applied, source, calls>>
(* Four seconds are over, the connection broke or its client has gone; the *)
(* command itself may be under way.  A question for the capabilities only  *)
(* gives its slot back.                                                    *)
BrokerGivesUp(i) ==
  /\ i \in broker /\ broker' = broker \ {i}
  /\ IF \E o \in Operator : at[o] = "wait" /\ req[o].id = i
     THEN \E o \in Operator : /\ at[o] = "wait" /\ req[o].id = i
                              /\ Answer(o, "unavailable") /\ Done(o)
     ELSE UNCHANGED <<at, req, told>>
  /\ flight' = Unread(i)
  /\ UNCHANGED <<tables, cookies, asked, revision, applied, source, calls>>

ClientGivesUp(o) ==
  /\ at[o] = "wait" /\ Answer(o, "unavailable") /\ Done(o)
  /\ flight' = Unread(req[o].id)
  /\ UNCHANGED <<tables, cookies, asked, broker, revision, applied, source, calls>>

\* Mutant: the cache is cleared without its lock.
InvalidateUnlocked(o) ==
  /\ at[o] = "invalidate"
  /\ cache' = NoSnapshot /\ Answer(o, "ok") /\ Done(o)
  /\ UNCHANGED <<tables, cookies, asked, broker, flight, revision, applied, file, mu, saw, calls>>
Invalidate(o) ==
  /\ at[o] = "invalidate" /\ mu = {}
  /\ cache' = NoSnapshot /\ Answer(o, "ok") /\ Done(o)
  /\ UNCHANGED <<tables, cookies, asked, broker, flight, revision, applied, file, mu, saw, calls>>

-----------------------------------------------------------------------------
(* Snapshots, for a session or a read token.                               *)

AskSnapshot(o) ==
  /\ Call(o) /\ Goto(o, "lock")
  /\ req' = [req EXCEPT ![o] = [NoRequest EXCEPT !.id = calls + 1]]
  /\ saw' = [saw EXCEPT ![o] = [NoSnapshot EXCEPT !.asked = told.yes]]
  /\ UNCHANGED <<tables, cookies, control, file, cache, mu>>

\* Mutant: an entry is used a moment too long.
FreshToTheEnd(snapshot) == snapshot # NoSnapshot /\ snapshot.cached <= CacheTTL
Fresh(snapshot) == snapshot # NoSnapshot /\ snapshot.cached < CacheTTL

ServeCached(o) ==
  /\ at[o] = "lock" /\ mu = {} /\ Fresh(cache)
  /\ saw' = [saw EXCEPT ![o] = [cache EXCEPT !.asked = saw[o].asked]] /\ Goto(o, "served")
  /\ UNCHANGED <<tables, cookies, asked, req, control, file, cache, mu, calls>>

(* readFleetSnapshot: a file that is too old is an error.                  *)
ReadFile(snapshot) ==
  [snapshot EXCEPT !.ok = file <= FileTTL, !.age = file, !.cached = 0, !.after = told.yes]

(* The lock is held until every read has ended, the question for the       *)
(* broker's capabilities among them.                                       *)
Collect(o) ==
  /\ at[o] = "lock" /\ mu = {} /\ ~Fresh(cache)
  /\ mu' = {o} /\ Goto(o, "collect")
  /\ saw' = [saw EXCEPT ![o] = ReadFile(@)]
  /\ broker' = IF Cardinality(broker) < Slots THEN broker \cup {req[o].id} ELSE broker
  /\ UNCHANGED <<tables, cookies, asked, req, flight, revision, applied, told, file, cache, calls>>

Collected(o) ==
  /\ at[o] = "collect" /\ req[o].id \notin broker
  /\ cache' = [saw[o] EXCEPT !.cached = 0, !.asked = {}] /\ mu' = {}
  /\ Goto(o, "served")
  /\ UNCHANGED <<tables, cookies, asked, req, control, file, saw, calls>>

(* The snapshot is projected and written to the client.                    *)
Served(o) ==
  /\ at[o] = "served" /\ Done(o)
  /\ saw' = [saw EXCEPT ![o] = NoSnapshot]
  /\ UNCHANGED <<tables, cookies, asked, control, file, cache, mu, calls>>

(* The exporter writes the file again (external).                          *)
Export ==
  /\ file > 0 /\ file' = 0
  /\ UNCHANGED <<authVars, req, control, cache, mu, saw, calls>>

-----------------------------------------------------------------------------
Older(snapshot, limit) ==
  IF snapshot = NoSnapshot THEN snapshot
  ELSE [snapshot EXCEPT !.age = @ + 1, !.cached = IF @ < limit THEN @ + 1 ELSE @]

(* The context of a collection ends it after CollectTTL.                   *)
ControlElapse ==
  /\ AuthElapse
  /\ \A o \in Operator : at[o] = "collect" => saw[o].cached < CollectTTL
  /\ file' = IF file > FileTTL THEN file ELSE file + 1
  /\ cache' = IF cache.cached < CacheTTL THEN Older(cache, CacheTTL) ELSE NoSnapshot
  /\ saw' = [o \in Operator |-> IF at[o] = "collect" THEN Older(saw[o], CollectTTL) ELSE saw[o]]
  /\ UNCHANGED <<req, control, mu, calls>>

Beside == calls = 0 \/ asked - calls < MaxBeside
Authenticate(o) ==
  /\ AuthStep(o) \/ (Beside /\ AuthRequest(o))
  /\ UNCHANGED <<req, control, source, calls>>
AuthTicker == Beside /\ ExpireSessions /\ UNCHANGED <<req, control, source, calls>>

Ask(o) ==
  \/ \E kind \in Kinds, base \in 0..revision : Submit(o, kind, base)
  \/ AskSnapshot(o)

Work(o) ==
  \/ Enter(o) \/ (\E result \in {"busy", "refused", "unavailable"} : NotSent(o, result))
  \/ (\E cmd \in flight : Reply(o, cmd)) \/ ClientGivesUp(o) \/ Invalidate(o)
  \/ ServeCached(o) \/ Collect(o) \/ Collected(o) \/ Served(o)

Manage ==
  \E cmd \in flight :
    (\E reply \in {"ok", "unavailable"} : Apply(cmd, reply)) \/ Refuse(cmd)

Proceed(o) == Work(o) \/ (AuthStep(o) /\ UNCHANGED <<req, control, source, calls>>)
Deadline == \E i \in broker : BrokerGivesUp(i)

Init == AuthInit /\ ControlInit
Next ==
  \/ \E o \in Operator : Authenticate(o) \/ Ask(o) \/ Work(o)
  \/ Deadline \/ Manage \/ Export \/ AuthTicker \/ ControlElapse

Spec == Init /\ [][Next]_consoleVars

(* The goroutines of a request go on, and every call has a deadline.       *)
Fairness ==
  /\ WF_consoleVars(Deadline)
  /\ \A o \in Operator : WF_consoleVars(Proceed(o))
FairSpec == Spec /\ Fairness

-----------------------------------------------------------------------------
(* Properties.                                                             *)

(* What the operator is told of a command is true then and later: ok means *)
(* that it took effect; a conflict, a refusal or a busy broker means that  *)
(* it never will.  Only an unavailable control leaves it open.             *)
AnswersAreDefinite ==
  /\ told.yes \subseteq applied
  /\ told.no \cap (applied \cup {cmd.id : cmd \in flight}) = {}

(* A page loaded after a command was acknowledged shows a snapshot that    *)
(* was collected after it, even if another one was being collected then.   *)
RefreshedAfterCommand ==
  \A o \in Operator : at[o] = "served" => saw[o].asked \subseteq saw[o].after

(* The fleet data on a page is no older than the limits add up to.         *)
SnapshotAgeBounded ==
  \A o \in Operator : at[o] = "served" /\ saw[o].ok
    => saw[o].age <= FileTTL + CollectTTL + CacheTTL - 1

(* Every request is answered, and the slots of the broker come back, also  *)
(* those of requests whose clients have gone.                              *)
RequestsEnd ==
  (broker # {} \/ \E o \in Operator : at[o] # "idle")
    ~> (broker = {} /\ \A o \in Operator : at[o] = "idle")
=============================================================================
