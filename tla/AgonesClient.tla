---------------------------- MODULE AgonesClient ----------------------------
(***************************************************************************)
(* The Agones client (internal/agones/client.go) at the grain of single    *)
(* Kubernetes requests, for one worker: its credential Secret, its         *)
(* GameServer, and the calls start, reconcileUnknown, poll and stop of the *)
(* manager (lifecycle.go) that use the client.                             *)
(*                                                                         *)
(* A request may be refused, may be answered, or may get no answer.  A     *)
(* create without an answer may still take effect later, but not after     *)
(* the next create of the same object was sent: a call ends within 5       *)
(* seconds and is repeated a second later at the earliest.  A create that  *)
(* finds the object in place has no effect.  An update or a delete without *)
(* an answer took effect at once or never does: it names the version or    *)
(* the uid of its object.  The process may die between any two requests    *)
(* and come back with another configuration.  Calls of two processes do    *)
(* not overlap: the lease is renewed for 30 seconds before a call of at    *)
(* most 5.                                                                 *)
(*                                                                         *)
(* Of the other workers one thing matters: a tick makes one call, for the  *)
(* worker that is due first, and a stop that is refused leaves its worker  *)
(* where it was in that order.                                             *)
(***************************************************************************)
EXTENDS Naturals

CONSTANTS
  Profile,   \* launch configurations (the keyed fingerprint and the spec)
  MaxUid,    \* bound: objects the API server creates
  None

ASSUME ProfileAssumption == None \notin Profile /\ None \notin 0..MaxUid
ASSUME UidAssumption == MaxUid \in Nat

VARIABLES
  worker,  \* the manager's record
  call,    \* the provider call under way
  conf,    \* the configuration of the running process
  game,    \* the GameServer of the worker's name
  secret,  \* the Secret of the worker's name
  late,    \* creates that were not answered and may still take effect
  uids     \* objects created so far

vars == <<worker, call, conf, game, secret, late, uids>>

Uid == 1..MaxUid
Secret == [uid : Uid, profile : Profile, owner : Uid \cup {None}]
\* status "healthy" stands for launching and running; "deleting": the
\* deletionTimestamp is set, and the status no longer matters.
Game == [uid : Uid, profile : Profile,
         status : {"healthy", "unhealthy", "deleting"}]
ASSUME NoneAssumption == None \notin Game \cup Secret
Late == [game : Profile \cup {None}, secret : Profile \cup {None}]

\* "placed" stands for launching, bootstrapping, ready, suspect and draining:
\* the worker has a ProviderID and is polled.
WorkerState == {"requested", "starting", "unknown", "placed", "stopping",
                "lost", "stopped", "failed"}
\* id: the ProviderID.  reported: LastHeartbeat > 0.  drain: how stop() would
\* find a worker in "stopping": not Draining, or drained and its last heartbeat
\* recent and without work, players or a missing DrainAck ("quiet"), or else
\* ("other").  waits: the worker's turn (NextCheckAt) comes after that of
\* another worker whose stop is refused.
WorkerRecord == [state : WorkerState, id : Uid \cup {None},
                 reported : BOOLEAN, drain : {"no", "quiet", "other"},
                 waits : BOOLEAN]
Step == {"idle", "secret_create", "secret_reconcile", "secret_owner_check",
         "start", "create_reconcile", "failed_create_check",
         "failed_create_cleanup", "secret_owner", "list", "get", "stop_get",
         "stop", "secret_cleanup_get", "secret_cleanup", "stop_confirm",
         "record"}
Result == {"none", "instance", "failed", "unknown", "conflict", "gone",
           "mismatch", "unhealthy", "alive", "retry"}
\* op: the manager's call.  at: the request it sends next.  seen: the Secret
\* it holds a copy of.  inst: the GameServer it works on.  doubt: the create
\* it reconciles got no answer.
Op == {"none", "start", "reconcile", "poll", "stop"}
Call == [op : Op, at : Step,
         seen : Secret \cup {None}, inst : Uid \cup {None}, doubt : BOOLEAN,
         result : Result]
NoCall == [op |-> "none", at |-> "idle", seen |-> None, inst |-> None,
           doubt |-> FALSE, result |-> "none"]

\* The records have their shape.
TypeOK ==
  /\ worker \in WorkerRecord
  /\ call \in Call
  /\ conf \in Profile
  /\ game \in Game \cup {None}
  /\ secret \in Secret \cup {None}
  /\ late \in Late
  /\ uids \in 0..MaxUid

Init ==
  /\ \E waits \in BOOLEAN :
       worker = [state |-> "requested", id |-> None, reported |-> FALSE,
                 drain |-> "no", waits |-> waits]
  /\ call = NoCall
  /\ conf \in Profile
  /\ game = None /\ secret = None
  /\ late = [game |-> None, secret |-> None]
  /\ uids = 0

-----------------------------------------------------------------------------
(* The cluster *)

NewSecret(profile) == [uid |-> uids + 1, profile |-> profile, owner |-> None]
NewGame(profile) == [uid |-> uids + 1, profile |-> profile, status |-> "healthy"]

\* A create that got no answer takes effect.
LandSecret ==
  /\ late.secret # None /\ secret = None /\ uids < MaxUid
  /\ secret' = NewSecret(late.secret) /\ uids' = uids + 1
  /\ late' = [late EXCEPT !.secret = None]
  /\ UNCHANGED <<worker, call, conf, game>>
LandGame ==
  /\ late.game # None /\ game = None /\ uids < MaxUid
  /\ game' = NewGame(late.game) /\ uids' = uids + 1
  /\ late' = [late EXCEPT !.game = None]
  /\ UNCHANGED <<worker, call, conf, secret>>

\* Agones reports another status of the instance.
ChangeStatus(status) ==
  /\ game # None /\ game.status # "deleting"
  /\ game' = [game EXCEPT !.status = status]
  /\ UNCHANGED <<worker, call, conf, secret, late, uids>>

\* An operator deletes the GameServer.
OperatorDelete ==
  /\ game # None
  /\ game' = [game EXCEPT !.status = "deleting"]
  /\ UNCHANGED <<worker, call, conf, secret, late, uids>>

\* The finalizers of a deleted GameServer are done: the object is gone.
Finalize ==
  /\ game # None /\ game.status = "deleting"
  /\ game' = None
  /\ UNCHANGED <<worker, call, conf, secret, late, uids>>

\* The garbage collector removes a Secret whose owner is being deleted or gone.
Collect ==
  /\ secret # None /\ secret.owner # None
  /\ game # None => game.uid # secret.owner \/ game.status = "deleting"
  /\ secret' = None
  /\ UNCHANGED <<worker, call, conf, game, late, uids>>

-----------------------------------------------------------------------------
(* Steps of a call *)

Goto(at) == call' = [call EXCEPT !.at = at]
Return(result) == call' = [call EXCEPT !.at = "record", !.result = result]
cluster == <<game, secret, late, uids>>

\* ownedSecret and the comparison of the data, of a Secret the call has read.
SameSecret(x) == x.profile = conf
\* sameGame: identity and launch settings, and not being deleted.
SameGame(g) == g.profile = conf /\ g.status # "deleting"

\* Look what became of a create; doubt: it got no answer.
Reconcile(at, doubt) == call' = [call EXCEPT !.at = at, !.doubt = doubt]

\* Start goes on with the Secret x: a Secret with an owner must belong to the
\* GameServer that exists.
UseSecret(x) ==
  \/ ~SameSecret(x) /\ Return("conflict")
  \/ /\ SameSecret(x)
     /\ call' = [call EXCEPT !.seen = x, !.at = IF x.owner = None
                                  THEN "start" ELSE "secret_owner_check"]

\* ensureSecretOwner with the Secret the call knows: when that belongs to
\* another GameServer the call ends, and its outcome is unknown.
UseGame(g) ==
  \/ ~SameGame(g) /\ Return("conflict")
  \/ /\ SameGame(g) /\ call.seen.owner = None
     /\ call' = [call EXCEPT !.at = "secret_owner", !.inst = g.uid]
  \/ /\ SameGame(g) /\ call.seen.owner = g.uid
     /\ call' = [call EXCEPT !.at = "record", !.inst = g.uid,
                             !.result = "instance"]
  \/ /\ SameGame(g) /\ call.seen.owner \notin {None, g.uid}
     /\ Return("unknown")

-----------------------------------------------------------------------------
(* Start *)

\* POST of the Secret: created, taken (409), not answered, or refused.
SecretCreated ==
  /\ call.at = "secret_create"
  /\ secret = None /\ uids < MaxUid
  /\ secret' = NewSecret(conf) /\ uids' = uids + 1
  /\ late' = [late EXCEPT !.secret = None]
  /\ UseSecret(NewSecret(conf))
  /\ UNCHANGED <<worker, conf, game>>
SecretNotCreated ==
  /\ call.at = "secret_create"
  /\ \/ /\ secret # None
        /\ late' = [late EXCEPT !.secret = None]
        /\ Reconcile("secret_reconcile", FALSE)
     \/ /\ late' = [late EXCEPT !.secret = IF secret = None THEN conf ELSE None]
        /\ Reconcile("secret_reconcile", TRUE)
     \/ late' = [late EXCEPT !.secret = None] /\ Return("failed")
  /\ UNCHANGED <<worker, conf, game, secret, uids>>

SecretReconcile ==
  /\ call.at = "secret_reconcile"
  /\ \/ secret # None /\ UseSecret(secret)
     \/ Return(IF call.doubt THEN "unknown" ELSE "failed")
  /\ UNCHANGED <<worker, conf>> /\ UNCHANGED cluster

SecretOwnerCheck ==
  /\ call.at = "secret_owner_check"
  /\ \/ game = None /\ Return("conflict")
     \/ /\ game # None
        /\ IF game.uid = call.seen.owner /\ SameGame(game)
             THEN Goto("start") ELSE Return("conflict")
     \/ Return("failed")
  /\ UNCHANGED <<worker, conf>> /\ UNCHANGED cluster

\* POST of the GameServer.  A refusal with 400, 403 or 422 is final: the
\* call looks whether the Secret can go.
GameCreated ==
  /\ call.at = "start"
  /\ game = None /\ uids < MaxUid
  /\ game' = NewGame(conf) /\ uids' = uids + 1
  /\ late' = [late EXCEPT !.game = None]
  /\ UseGame(NewGame(conf))
  /\ UNCHANGED <<worker, conf, secret>>
GameNotCreated ==
  /\ call.at = "start"
  /\ \/ /\ game # None
        /\ late' = [late EXCEPT !.game = None]
        /\ Reconcile("create_reconcile", FALSE)
     \/ /\ late' = [late EXCEPT !.game = IF game = None THEN conf ELSE None]
        /\ Reconcile("create_reconcile", TRUE)
     \/ /\ late' = [late EXCEPT !.game = None]
        /\ Return("failed") \/ Goto("failed_create_check")
  /\ UNCHANGED <<worker, conf, game, secret, uids>>

\* Mutant: a create without an answer that is not found is a failure.
CreateReconcileTrustingAbsence ==
  /\ call.at = "create_reconcile"
  /\ \/ game # None /\ UseGame(game)
     \/ Return("failed")
  /\ UNCHANGED <<worker, conf>> /\ UNCHANGED cluster

CreateReconcile ==
  /\ call.at = "create_reconcile"
  /\ \/ game # None /\ UseGame(game)
     \/ call.doubt /\ Return("unknown")
     \/ ~call.doubt /\ (Return("failed") \/ Goto("failed_create_check"))
  /\ UNCHANGED <<worker, conf>> /\ UNCHANGED cluster

\* Mutant: the Secret of a refused create is deleted without a look.
FailedCreateCheckSkipped ==
  /\ call.at = "failed_create_check"
  /\ Goto("failed_create_cleanup")
  /\ UNCHANGED <<worker, conf>> /\ UNCHANGED cluster

FailedCreateCheck ==
  /\ call.at = "failed_create_check"
  /\ \/ game = None /\ Goto("failed_create_cleanup")
     \/ Return("failed")
  /\ UNCHANGED <<worker, conf>> /\ UNCHANGED cluster

\* deleteSecret: only the Secret of that uid.
DeleteSecret ==
  secret' = IF secret # None /\ secret.uid = call.seen.uid THEN None ELSE secret

FailedCreateCleanup ==
  /\ call.at = "failed_create_cleanup"
  /\ Return("failed")
  /\ DeleteSecret \/ UNCHANGED secret
  /\ UNCHANGED <<worker, conf, game, late, uids>>

\* The update carries the resource version of the copy: it fails when the
\* Secret was replaced or changed.
Owns(x) == secret # None /\ secret.uid = x.uid /\ secret.owner = x.owner

\* Mutant: the owner reference is not written.
SecretOwnerSkipped ==
  /\ call.at = "secret_owner"
  /\ Return("instance")
  /\ UNCHANGED <<worker, conf>> /\ UNCHANGED cluster

SecretOwner ==
  /\ call.at = "secret_owner"
  /\ \/ /\ Owns(call.seen)
        /\ secret' = [secret EXCEPT !.owner = call.inst]
        /\ Return("instance") \/ Return("unknown")
     \/ Return("unknown") /\ UNCHANGED secret
  /\ UNCHANGED <<worker, conf, game, late, uids>>

-----------------------------------------------------------------------------
(* List, Get and Stop *)

\* At most one GameServer has the name; reconcileUnknown then calls Start.
List ==
  /\ call.at = "list"
  /\ Goto("secret_create") \/ Return("unknown")
  /\ UNCHANGED <<worker, conf>> /\ UNCHANGED cluster

\* get and instance(): what the manager learns of its ProviderID.
Reading ==
  IF game = None THEN "gone"
  ELSE IF game.uid # worker.id THEN "mismatch"
  ELSE IF game.status # "healthy" THEN "unhealthy"
  ELSE "alive"

\* poll takes an instance of another build, that is of another
\* configuration, for a foreign one.
Get ==
  /\ call.at = "get"
  /\ \/ Return(Reading) \/ Return("retry")
     \/ game # None /\ game.profile # conf /\ Return("mismatch")
  /\ UNCHANGED <<worker, conf>> /\ UNCHANGED cluster

StopGet ==
  /\ call.at = "stop_get"
  /\ \/ Reading = "gone" /\ Goto("secret_cleanup_get")
     \/ Reading \in {"alive", "unhealthy"} /\ Goto("stop")
     \/ Return("retry")
  /\ UNCHANGED <<worker, conf>> /\ UNCHANGED cluster

\* DELETE with the uid as a precondition, answered or not.
StopDelete ==
  /\ call.at = "stop"
  /\ \/ /\ game # None /\ game.uid = worker.id
        /\ game' = [game EXCEPT !.status = "deleting"]
        /\ Goto("stop_confirm") \/ Return("retry")
     \/ game = None /\ Goto("secret_cleanup_get") /\ UNCHANGED game
     \/ Return("retry") /\ UNCHANGED game
  /\ UNCHANGED <<worker, conf, secret, late, uids>>

SecretCleanupGet ==
  /\ call.at = "secret_cleanup_get"
  /\ \/ secret = None /\ Goto("stop_confirm")
     \/ /\ secret # None /\ secret.owner = worker.id
        /\ call' = [call EXCEPT !.at = "secret_cleanup", !.seen = secret]
     \/ Return("retry")
  /\ UNCHANGED <<worker, conf>> /\ UNCHANGED cluster

SecretCleanup ==
  /\ call.at = "secret_cleanup"
  /\ \/ DeleteSecret /\ (Goto("stop_confirm") \/ Return("retry"))
     \/ Return("retry") /\ UNCHANGED secret
  /\ UNCHANGED <<worker, conf, game, late, uids>>

\* The read after a DELETE: only a missing GameServer confirms it.
StopConfirm ==
  /\ call.at = "stop_confirm"
  /\ \/ game = None /\ Return("gone")
     \/ Return("retry")
  /\ UNCHANGED <<worker, conf>> /\ UNCHANGED cluster

-----------------------------------------------------------------------------
(* The manager's side of the calls (lifecycle.go) *)

\* One call in a tick, for the worker that is due first.
Begin(op, at) ==
  /\ call = NoCall /\ ~worker.waits
  /\ call' = [NoCall EXCEPT !.op = op, !.at = at]
  /\ UNCHANGED conf /\ UNCHANGED cluster
BeginStart ==
  /\ worker.state = "requested"
  /\ worker' = [worker EXCEPT !.state = "starting"]
  /\ Begin("start", "secret_create")
BeginReconcile ==
  worker.state = "unknown" /\ Begin("reconcile", "list") /\ UNCHANGED worker

\* Mutant: a lost worker is not looked at again.
BeginPollUnlessLost ==
  /\ worker.state = "placed" /\ worker.id # None
  /\ Begin("poll", "get") /\ UNCHANGED worker

BeginPoll ==
  /\ worker.state \in {"placed", "lost"} /\ worker.id # None
  /\ Begin("poll", "get") /\ UNCHANGED worker

\* stop() looks again before it calls Stop: a drained worker must have told
\* lately that it has nothing left to do.  A tick with a refused stop changes
\* nothing.
StopRefused == worker.drain = "other"
BeginStop ==
  /\ worker.state = "stopping" /\ ~StopRefused
  /\ Begin("stop", "stop_get") /\ UNCHANGED worker

\* The transactions that record the outcome of a call.
RecordedStart(w) ==
  CASE call.result = "instance" -> [w EXCEPT !.state = "placed", !.id = call.inst]
    [] call.result \in {"unknown", "conflict"} -> [w EXCEPT !.state = "unknown"]
    [] OTHER -> [w EXCEPT !.state = "failed"]
RecordedReconcile(w) ==
  IF w.state = "unknown" /\ call.result = "instance"
    THEN [w EXCEPT !.state = "placed", !.id = call.inst] ELSE w
RecordedPoll(w) ==
  CASE call.result = "gone" -> [w EXCEPT !.state = "stopped"]
    [] call.result = "mismatch" -> [w EXCEPT !.state = "lost"]
    [] call.result = "unhealthy" -> [w EXCEPT !.state = "stopping",
                                              !.drain = "no"]
    [] OTHER -> w

\* Mutant: an accepted DELETE closes the record without the read.
RecordedStopUnconfirmed(w) == [w EXCEPT !.state = "stopped"]
RecordedStop(w) ==
  IF call.result = "gone" THEN [w EXCEPT !.state = "stopped"] ELSE w

Recorded(w) ==
  CASE call.op = "start" -> RecordedStart(w)
    [] call.op = "reconcile" -> RecordedReconcile(w)
    [] call.op = "poll" -> RecordedPoll(w)
    [] OTHER -> RecordedStop(w)

\* The outcome is recorded with a new NextCheckAt.
Record ==
  /\ call.at = "record"
  /\ \E waits \in BOOLEAN : worker' = [Recorded(worker) EXCEPT !.waits = waits]
  /\ call' = NoCall
  /\ UNCHANGED conf /\ UNCHANGED cluster

\* A create that was interrupted is unknown.
Interrupted ==
  /\ worker.state = "starting" /\ call = NoCall
  /\ worker' = [worker EXCEPT !.state = "unknown"]
  /\ UNCHANGED <<call, conf>> /\ UNCHANGED cluster

\* Delete the worker: it is drained, and its last heartbeat says so, or it
\* did not launch in time or will not live long enough.
Retire ==
  /\ worker.state = "placed" /\ call = NoCall
  /\ \E drain \in {"no", "quiet"}, waits \in BOOLEAN :
       /\ drain = "quiet" => worker.reported
       /\ worker' = [worker EXCEPT !.state = "stopping", !.drain = drain,
                                   !.waits = waits]
  /\ UNCHANGED <<call, conf>> /\ UNCHANGED cluster

\* The process in the instance, which has its credentials, reports.
Report ==
  /\ game # None /\ secret # None
  /\ worker.state \in {"starting", "unknown", "placed", "stopping"}
  /\ \E drain \in {"no", "quiet", "other"} :
       /\ drain = "no" <=> worker.drain = "no"
       /\ worker' = [worker EXCEPT !.reported = TRUE, !.drain = drain]
  /\ UNCHANGED <<call, conf>> /\ UNCHANGED cluster

\* HeartbeatTimeout has passed since the last heartbeat of a drained worker.
Stale ==
  /\ worker.state = "stopping" /\ worker.drain = "quiet"
  /\ worker' = [worker EXCEPT !.drain = "other"]
  /\ UNCHANGED <<call, conf>> /\ UNCHANGED cluster

\* LostTimeout has passed: a tick finds the worker lost, before it makes a call.
Silent ==
  /\ worker.state \in {"starting", "unknown", "placed", "stopping"}
  /\ worker.reported /\ call = NoCall
  /\ worker' = [worker EXCEPT !.state = "lost", !.drain = "no"]
  /\ UNCHANGED <<call, conf>> /\ UNCHANGED cluster

\* The worker whose stop was refused is out of the way: its process reported
\* that its work is done, and the stop went through, or it fell silent and the
\* worker is lost and was polled.
GiveWay ==
  /\ worker.waits /\ worker.state \notin {"stopped", "failed"}
  /\ worker' = [worker EXCEPT !.waits = FALSE]
  /\ UNCHANGED <<call, conf>> /\ UNCHANGED cluster

\* The process dies, a create it has sent may still take effect, and a new
\* one starts, perhaps with another configuration.
Crash(profile) ==
  /\ call' = NoCall
  /\ conf' = profile
  /\ late' \in {late,
       [late EXCEPT
          !.game = IF call.at = "start" /\ game = None THEN conf ELSE @,
          !.secret = IF call.at = "secret_create" /\ secret = None
                       THEN conf ELSE @]}
  /\ UNCHANGED <<worker, game, secret, uids>>

-----------------------------------------------------------------------------
Start ==
  \/ SecretCreated \/ SecretNotCreated \/ SecretReconcile \/ SecretOwnerCheck
  \/ GameCreated \/ GameNotCreated \/ CreateReconcile \/ FailedCreateCheck
  \/ FailedCreateCleanup \/ SecretOwner
Stop == StopGet \/ StopDelete \/ SecretCleanupGet \/ SecretCleanup \/ StopConfirm
Request == Start \/ List \/ Get \/ Stop
Manager ==
  \/ BeginStart \/ BeginReconcile \/ BeginPoll \/ BeginStop \/ Record
  \/ Interrupted \/ Retire \/ Report \/ Stale \/ Silent \/ GiveWay
  \/ \E profile \in Profile : Crash(profile)
Kubernetes ==
  \/ LandSecret \/ LandGame \/ OperatorDelete \/ Finalize \/ Collect
  \/ \E status \in {"healthy", "unhealthy"} : ChangeStatus(status)

Next == Request \/ Manager \/ Kubernetes
Spec == Init /\ [][Next]_vars

\* Fairness: deleted objects go and are collected; the manager takes up the
\* work it does not refuse when its turn comes; a request that is sent again
\* and again is answered, and its outcome recorded, again and again.  A worker
\* whose GameServer is gone does not report, and every tick, so one between any
\* two calls, looks for how long it has been silent.  A drained process ends
\* its work or falls silent: it does not keep the others waiting for ever.
Answered(A) == A /\ call'.result # "retry"
Fairness ==
  /\ WF_vars(Finalize) /\ WF_vars(Collect)
  /\ WF_vars(BeginPoll) /\ WF_vars(BeginStop) /\ WF_vars(Record)
  /\ SF_vars(game = None /\ Silent) /\ WF_vars(GiveWay)
  /\ SF_vars(Answered(Get)) /\ SF_vars(Answered(StopGet))
  /\ SF_vars(Answered(StopDelete)) /\ SF_vars(Answered(SecretCleanupGet))
  /\ SF_vars(Answered(SecretCleanup)) /\ SF_vars(Answered(StopConfirm))
  /\ SF_vars(Record /\ call.result # "retry")
FairSpec == Spec /\ Fairness

-----------------------------------------------------------------------------
(* Properties *)

\* An instance that exists is one the manager counts: whatever answers got
\* lost, a worker is "failed" or "stopped", and its slot free for another,
\* only when it has no GameServer (start and stop in lifecycle.go rely on it).
InstanceIsCounted ==
  game # None => worker.state \notin {"requested", "stopped", "failed"}

\* The worker keeps the promise of InstanceSlot: its instance comes and goes
\* while the slot is held, and the slot is given up once, when there is no
\* instance, and for good.
Slot == INSTANCE InstanceSlot WITH
          held <- worker.state \notin {"stopped", "failed"},
          exists <- game # None
KeepsSlot == Slot!Spec

\* The client never deletes the credentials of an instance that exists
\* (client.go:308: "never delete credentials from a possibly live pod").
CredentialsAreKept ==
  [][secret # None /\ secret' = None /\ call' # call => game = None]_vars

\* However an instance ends, deleted by the manager or by an operator, its
\* worker is closed and its slot is free again: also when the worker was about
\* to be deleted and stop() refuses that, since nobody reports any more, and
\* when other workers are stuck like that before it.
EndIsNoticed ==
  (worker.id # None /\ (game = None \/ game.status = "deleting"))
    ~> worker.state = "stopped"

\* A stopped worker leaves no credentials behind.
CredentialsAreRemoved == worker.state = "stopped" ~> secret = None
=============================================================================
