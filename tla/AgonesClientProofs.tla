------------------------- MODULE AgonesClientProofs -------------------------
(***************************************************************************)
(* For every number of objects the API server creates and every set of     *)
(* configurations: no instance outlives the record that counts it, and     *)
(* none is left without its credentials by the client.                     *)
(*                                                                         *)
(* The invariant follows the create through its requests.  What makes it   *)
(* hold is that a call that has sent a create never ends in "failed"       *)
(* unless the API server refused that create, and that no create is under  *)
(* way once the worker has a ProviderID.                                   *)
(***************************************************************************)
EXTENDS AgonesClient, TLAPS

StartStep == {"secret_create", "secret_reconcile", "secret_owner_check",
              "start", "create_reconcile", "failed_create_check",
              "failed_create_cleanup", "secret_owner"}
StopStep == {"get", "stop_get", "stop", "secret_cleanup_get",
             "secret_cleanup", "stop_confirm"}

\* There is no GameServer and none is on its way.
Absent == game = None /\ late.game = None

\* The call under way fits the worker's record.
CallFitsWorker ==
  /\ call.op = "none" => call = NoCall
  /\ call.op = "start" => /\ worker.state = "starting"
                          /\ call.at \in StartStep \cup {"record"}
  /\ call.op = "reconcile" => /\ worker.state = "unknown"
                              /\ call.at \in StartStep \cup {"list", "record"}
  /\ call.op \in {"poll", "stop"} => /\ worker.id # None
                                     /\ call.at \in StopStep \cup {"record"}
  /\ call.op = "poll" => worker.state \in {"placed", "lost"}
  /\ call.op = "stop" => worker.state = "stopping"

\* Only a worker whose instance is known has a ProviderID.
IdIsOfInstance ==
  /\ worker.state \in {"requested", "starting", "unknown", "failed"} =>
       worker.id = None
  /\ worker.state \in {"placed", "stopping"} => worker.id # None

\* No create is under way once there is an instance, or was one.
NothingLate ==
  /\ game # None => late.game = None
  /\ worker.id # None => late.game = None
  /\ \/ call.at = "secret_owner"
     \/ call.at = "record" /\ call.result = "instance"
     => late.game = None /\ call.inst # None

\* The first call of Start: until its create is sent there is no instance,
\* from then on the call is in doubt or was refused.
FirstCreate ==
  call.op = "start" =>
    /\ call.at \in StartStep \ {"create_reconcile", "secret_owner"} => Absent
    /\ call.at = "create_reconcile" => call.doubt
    /\ call.at = "record"
         /\ call.result \notin {"instance", "unknown", "conflict"} => Absent

Closed ==
  /\ worker.state \in {"requested", "stopped", "failed"} => Absent
  /\ call.op \in {"poll", "stop"} /\ call.at = "record"
       /\ call.result = "gone" => game = None

Account ==
  /\ CallFitsWorker /\ IdIsOfInstance /\ NothingLate /\ FirstCreate /\ Closed

-----------------------------------------------------------------------------
USE ProfileAssumption, UidAssumption, NoneAssumption

(* What the steps of a call leave in its record *)

\* The call ends with the result r.
LEMMA ReturnCall ==
  call \in Call =>
    \A r \in Result : Return(r) =>
      /\ call' \in Call /\ call'.op = call.op
      /\ call'.at = "record" /\ call'.result = r
BY DEF Call, Step, Return

\* The call goes on to another request.
LEMMA GotoCall ==
  call \in Call =>
    \A at \in Step : Goto(at) =>
      /\ call' \in Call /\ call'.op = call.op /\ call'.at = at
BY DEF Call, Goto

\* The call goes on to look what became of a create.
LEMMA ReconcileCall ==
  call \in Call =>
    \A at \in Step, d \in BOOLEAN : Reconcile(at, d) =>
      /\ call' \in Call /\ call'.op = call.op
      /\ call'.at = at /\ call'.doubt = d
BY DEF Call, Reconcile

\* What Start does with the Secret it found or created.
LEMMA UseSecretCall ==
  ASSUME call \in Call, NEW x \in Secret, UseSecret(x)
  PROVE  /\ call' \in Call /\ call'.op = call.op
         /\ \/ call'.at \in {"start", "secret_owner_check"}
            \/ call'.at = "record" /\ call'.result = "conflict"
<1>1. CASE Return("conflict")
  BY <1>1, ReturnCall DEF Result
<1>2. CASE \E at \in {"start", "secret_owner_check"} :
             call' = [call EXCEPT !.seen = x, !.at = at]
  BY <1>2 DEF Call, Step
<1> QED BY <1>1, <1>2 DEF UseSecret

\* What Start does with the GameServer it found or created.
LEMMA UseGameCall ==
  ASSUME call \in Call, NEW g \in Game, UseGame(g)
  PROVE  /\ call' \in Call /\ call'.op = call.op
         /\ \/ call'.at = "secret_owner" /\ call'.inst = g.uid
            \/ call'.at = "record" /\ call'.result = "instance" /\ call'.inst = g.uid
            \/ call'.at = "record" /\ call'.result \in {"conflict", "unknown"}
<1>0. g.uid \in Uid
  BY DEF Game
<1>1. CASE Return("conflict") \/ Return("unknown")
  BY <1>1, ReturnCall DEF Result
<1>2. CASE call' = [call EXCEPT !.at = "secret_owner", !.inst = g.uid]
  BY <1>0, <1>2 DEF Call, Step
<1>3. CASE call' = [call EXCEPT !.at = "record", !.inst = g.uid,
                                !.result = "instance"]
  BY <1>0, <1>3 DEF Call, Step, Result
<1> QED BY <1>1, <1>2, <1>3 DEF UseGame

\* Objects the API server creates.
LEMMA NewObjects ==
  ASSUME uids \in 0..MaxUid, uids < MaxUid, NEW p \in Profile
  PROVE  /\ NewSecret(p) \in Secret /\ NewGame(p) \in Game
         /\ NewGame(p).uid # None /\ uids + 1 \in 0..MaxUid
<1>1. uids + 1 \in Uid /\ uids + 1 # None /\ uids + 1 \in 0..MaxUid
  BY DEF Uid
<1> QED BY <1>1 DEF NewSecret, NewGame, Secret, Game

\* The account holds before the first call.
LEMMA InitAccount == Init => TypeOK /\ Account
<1> SUFFICES ASSUME Init PROVE TypeOK /\ Account
  OBVIOUS
<1>1. TypeOK
  BY DEF Init, TypeOK, NoCall, Call, Op, Step, Result, WorkerRecord,
         WorkerState, Uid, Late
<1>2. Account
  BY DEF Init, Account, CallFitsWorker, IdIsOfInstance, NothingLate,
         FirstCreate, Closed, Absent, NoCall
<1> QED BY <1>1, <1>2

\* What is written with the outcome of a call: a new record in the state and
\* with the ProviderID that the outcome calls for.
LEMMA RecordedWorker ==
  ASSUME TypeOK, Record
  PROVE  /\ worker' \in WorkerRecord
         /\ worker'.state = Recorded(worker).state
         /\ worker'.id = Recorded(worker).id
<1>1. PICK waits \in BOOLEAN : worker' = [Recorded(worker) EXCEPT !.waits = waits]
  BY DEF Record
<1>2. Recorded(worker) \in WorkerRecord
  BY DEF TypeOK, Recorded, RecordedStart, RecordedReconcile, RecordedPoll,
         RecordedStop, WorkerRecord, WorkerState, Call
<1> QED BY <1>1, <1>2 DEF WorkerRecord

\* The records keep their shape.
LEMMA NextType == TypeOK /\ [Next]_vars => TypeOK'
<1> SUFFICES ASSUME TypeOK, [Next]_vars PROVE TypeOK'
  OBVIOUS
<1>1. CASE UNCHANGED vars
  BY <1>1 DEF vars, TypeOK
<1>2. CASE Request
  <2>1. CASE SecretCreated
    <3>1. call' \in Call
      BY <2>1, UseSecretCall, NewObjects DEF TypeOK, SecretCreated
    <3>2. secret' \in Secret \cup {None}
      BY <2>1, NewObjects DEF TypeOK, SecretCreated
    <3>3. late' \in Late
      BY <2>1 DEF TypeOK, SecretCreated, Late
    <3>4. uids' \in 0..MaxUid
      BY <2>1, NewObjects DEF TypeOK, SecretCreated
    <3> QED BY <2>1, <3>1, <3>2, <3>3, <3>4 DEF TypeOK, SecretCreated, cluster
  <2>2. CASE SecretNotCreated
    <3>1. call' \in Call
      BY <2>2, ReturnCall, ReconcileCall DEF TypeOK, SecretNotCreated, Step,
         Result
    <3>2. late' \in Late
      BY <2>2 DEF TypeOK, SecretNotCreated, Late
    <3> QED BY <2>2, <3>1, <3>2 DEF TypeOK, SecretNotCreated, cluster
  <2>3. CASE SecretReconcile
    <3>1. call' \in Call
      BY <2>3, UseSecretCall, ReturnCall DEF TypeOK, SecretReconcile, Step,
         Result
    <3> QED BY <2>3, <3>1 DEF TypeOK, SecretReconcile, cluster
  <2>4. CASE SecretOwnerCheck
    <3>1. call' \in Call
      BY <2>4, ReturnCall, GotoCall DEF TypeOK, SecretOwnerCheck, Step, Result
    <3> QED BY <2>4, <3>1 DEF TypeOK, SecretOwnerCheck, cluster
  <2>5. CASE GameCreated
    <3>1. call' \in Call
      BY <2>5, UseGameCall, NewObjects DEF TypeOK, GameCreated
    <3>2. game' \in Game \cup {None}
      BY <2>5, NewObjects DEF TypeOK, GameCreated
    <3>3. late' \in Late
      BY <2>5 DEF TypeOK, GameCreated, Late
    <3>4. uids' \in 0..MaxUid
      BY <2>5, NewObjects DEF TypeOK, GameCreated
    <3> QED BY <2>5, <3>1, <3>2, <3>3, <3>4 DEF TypeOK, GameCreated, cluster
  <2>6. CASE GameNotCreated
    <3>1. call' \in Call
      BY <2>6, ReturnCall, GotoCall, ReconcileCall DEF TypeOK, GameNotCreated,
         Step, Result
    <3>2. late' \in Late
      BY <2>6 DEF TypeOK, GameNotCreated, Late
    <3> QED BY <2>6, <3>1, <3>2 DEF TypeOK, GameNotCreated, cluster
  <2>7. CASE CreateReconcile
    <3>1. call' \in Call
      BY <2>7, UseGameCall, ReturnCall, GotoCall DEF TypeOK, CreateReconcile,
         Step, Result
    <3> QED BY <2>7, <3>1 DEF TypeOK, CreateReconcile, cluster
  <2>8. CASE FailedCreateCheck
    <3>1. call' \in Call
      BY <2>8, ReturnCall, GotoCall DEF TypeOK, FailedCreateCheck, Step,
         Result
    <3> QED BY <2>8, <3>1 DEF TypeOK, FailedCreateCheck, cluster
  <2>9. CASE FailedCreateCleanup
    <3>1. call' \in Call
      BY <2>9, ReturnCall DEF TypeOK, FailedCreateCleanup, Step, Result
    <3>2. secret' \in Secret \cup {None}
      BY <2>9 DEF TypeOK, FailedCreateCleanup, DeleteSecret
    <3> QED BY <2>9, <3>1, <3>2 DEF TypeOK, FailedCreateCleanup, cluster
  <2>10. CASE SecretOwner
    <3>1. call' \in Call
      BY <2>10, ReturnCall DEF TypeOK, SecretOwner, Step, Result
    <3>2. secret' \in Secret \cup {None}
      BY <2>10 DEF TypeOK, SecretOwner, Owns, Secret, Call
    <3> QED BY <2>10, <3>1, <3>2 DEF TypeOK, SecretOwner, cluster
  <2>11. CASE List
    <3>1. call' \in Call
      BY <2>11, ReturnCall, GotoCall DEF TypeOK, List, Step, Result
    <3> QED BY <2>11, <3>1 DEF TypeOK, List, cluster
  <2>12. CASE Get
    <3>1. call' \in Call
      BY <2>12, ReturnCall DEF TypeOK, Get, Reading, Step, Result
    <3> QED BY <2>12, <3>1 DEF TypeOK, Get, cluster
  <2>13. CASE StopGet
    <3>1. call' \in Call
      BY <2>13, ReturnCall, GotoCall DEF TypeOK, StopGet, Reading, Step,
         Result
    <3> QED BY <2>13, <3>1 DEF TypeOK, StopGet, cluster
  <2>14. CASE StopDelete
    <3>1. call' \in Call
      BY <2>14, ReturnCall, GotoCall DEF TypeOK, StopDelete, Step, Result
    <3>2. game' \in Game \cup {None}
      BY <2>14 DEF TypeOK, StopDelete, Game
    <3> QED BY <2>14, <3>1, <3>2 DEF TypeOK, StopDelete, cluster
  <2>15. CASE SecretCleanupGet
    <3>1. call' \in Call
      BY <2>15, ReturnCall, GotoCall DEF TypeOK, SecretCleanupGet, Step,
         Result, Call
    <3> QED BY <2>15, <3>1 DEF TypeOK, SecretCleanupGet, cluster
  <2>16. CASE SecretCleanup
    <3>1. call' \in Call
      BY <2>16, ReturnCall, GotoCall DEF TypeOK, SecretCleanup, Step, Result
    <3>2. secret' \in Secret \cup {None}
      BY <2>16 DEF TypeOK, SecretCleanup, DeleteSecret
    <3> QED BY <2>16, <3>1, <3>2 DEF TypeOK, SecretCleanup, cluster
  <2>17. CASE StopConfirm
    <3>1. call' \in Call
      BY <2>17, ReturnCall DEF TypeOK, StopConfirm, Step, Result
    <3> QED BY <2>17, <3>1 DEF TypeOK, StopConfirm, cluster
  <2> QED BY <1>2, <2>1, <2>2, <2>3, <2>4, <2>5, <2>6, <2>7, <2>8, <2>9,
             <2>10, <2>11, <2>12, <2>13, <2>14, <2>15, <2>16, <2>17
          DEF Request, Start, Stop
<1>3. CASE Manager
  <2>1. CASE BeginStart
    <3>1. call' \in Call
      BY <2>1 DEF TypeOK, BeginStart, Begin, NoCall, Call, Op, Step, Result
    <3>2. worker' \in WorkerRecord
      BY <2>1 DEF TypeOK, BeginStart, WorkerRecord, WorkerState
    <3> QED BY <2>1, <3>1, <3>2 DEF TypeOK, BeginStart, Begin, cluster
  <2>2. CASE BeginReconcile
    <3>1. call' \in Call
      BY <2>2 DEF TypeOK, BeginReconcile, Begin, NoCall, Call, Op, Step,
         Result
    <3> QED BY <2>2, <3>1 DEF TypeOK, BeginReconcile, Begin, cluster
  <2>3. CASE BeginPoll
    <3>1. call' \in Call
      BY <2>3 DEF TypeOK, BeginPoll, Begin, NoCall, Call, Op, Step, Result
    <3> QED BY <2>3, <3>1 DEF TypeOK, BeginPoll, Begin, cluster
  <2>4. CASE BeginStop
    <3>1. call' \in Call
      BY <2>4 DEF TypeOK, BeginStop, Begin, NoCall, Call, Op, Step, Result
    <3> QED BY <2>4, <3>1 DEF TypeOK, BeginStop, Begin, cluster
  <2>5. CASE Record
    <3>1. call' \in Call
      BY <2>5 DEF TypeOK, Record, NoCall, Call, Op, Step, Result
    <3>2. worker' \in WorkerRecord
      BY <2>5, RecordedWorker
    <3> QED BY <2>5, <3>1, <3>2 DEF TypeOK, Record, cluster
  <2>6. CASE Interrupted
    <3>1. worker' \in WorkerRecord
      BY <2>6 DEF TypeOK, Interrupted, WorkerRecord, WorkerState
    <3> QED BY <2>6, <3>1 DEF TypeOK, Interrupted, cluster
  <2>7. CASE Retire
    <3>1. worker' \in WorkerRecord
      BY <2>7 DEF TypeOK, Retire, WorkerRecord, WorkerState
    <3> QED BY <2>7, <3>1 DEF TypeOK, Retire, cluster
  <2>8. CASE Report
    <3>1. worker' \in WorkerRecord
      BY <2>8 DEF TypeOK, Report, WorkerRecord, WorkerState
    <3> QED BY <2>8, <3>1 DEF TypeOK, Report, cluster
  <2>9. CASE Silent
    <3>1. worker' \in WorkerRecord
      BY <2>9 DEF TypeOK, Silent, WorkerRecord, WorkerState
    <3> QED BY <2>9, <3>1 DEF TypeOK, Silent, cluster
  <2>10. CASE Stale \/ GiveWay
    <3>1. worker' \in WorkerRecord
      BY <2>10 DEF TypeOK, Stale, GiveWay, WorkerRecord
    <3> QED BY <2>10, <3>1 DEF TypeOK, Stale, GiveWay, cluster
  <2>11. ASSUME NEW p \in Profile, Crash(p) PROVE TypeOK'
    <3>1. call' \in Call
      BY <2>11 DEF TypeOK, Crash, NoCall, Call, Op, Step, Result
    <3>2. late' \in Late
      BY <2>11 DEF TypeOK, Crash, Late
    <3> QED BY <2>11, <3>1, <3>2 DEF TypeOK, Crash, cluster
  <2> QED BY <1>3, <2>1, <2>2, <2>3, <2>4, <2>5, <2>6, <2>7, <2>8, <2>9,
             <2>10, <2>11
          DEF Manager
<1>4. CASE Kubernetes
  <2>1. CASE LandSecret
    <3>1. late.secret \in Profile
      BY <2>1 DEF TypeOK, LandSecret, Late
    <3>2. secret' \in Secret \cup {None}
      BY <2>1, <3>1, NewObjects DEF TypeOK, LandSecret
    <3>3. late' \in Late
      BY <2>1 DEF TypeOK, LandSecret, Late
    <3>4. uids' \in 0..MaxUid
      BY <2>1, <3>1, NewObjects DEF TypeOK, LandSecret
    <3> QED BY <2>1, <3>1, <3>2, <3>3, <3>4 DEF TypeOK, LandSecret, cluster
  <2>2. CASE LandGame
    <3>1. late.game \in Profile
      BY <2>2 DEF TypeOK, LandGame, Late
    <3>2. game' \in Game \cup {None}
      BY <2>2, <3>1, NewObjects DEF TypeOK, LandGame
    <3>3. late' \in Late
      BY <2>2 DEF TypeOK, LandGame, Late
    <3>4. uids' \in 0..MaxUid
      BY <2>2, <3>1, NewObjects DEF TypeOK, LandGame
    <3> QED BY <2>2, <3>1, <3>2, <3>3, <3>4 DEF TypeOK, LandGame, cluster
  <2>3. CASE OperatorDelete
    <3>1. game' \in Game \cup {None}
      BY <2>3 DEF TypeOK, OperatorDelete, Game
    <3> QED BY <2>3, <3>1 DEF TypeOK, OperatorDelete, cluster
  <2>4. CASE Finalize
    BY <2>4 DEF TypeOK, Finalize, cluster
  <2>5. CASE Collect
    BY <2>5 DEF TypeOK, Collect, cluster
  <2>6. ASSUME NEW s \in {"healthy", "unhealthy"}, ChangeStatus(s) PROVE TypeOK'
    <3>1. game' \in Game \cup {None}
      BY <2>6 DEF TypeOK, ChangeStatus, Game
    <3> QED BY <2>6, <3>1 DEF TypeOK, ChangeStatus, cluster
  <2> QED BY <1>4, <2>1, <2>2, <2>3, <2>4, <2>5, <2>6
          DEF Kubernetes
<1> QED BY <1>1, <1>2, <1>3, <1>4 DEF Next

\* The operation of a call, from the request it is about to send.
LEMMA CallOf ==
  ASSUME TypeOK, Account
  PROVE  /\ call \in Call /\ late \in Late
         /\ call.at \in StartStep => call.op \in {"start", "reconcile"}
         /\ call.at = "list" => call.op = "reconcile"
         /\ call.at \in StopStep => call.op \in {"poll", "stop"}
BY DEF TypeOK, Account, CallFitsWorker, StartStep, StopStep, Call, Op, NoCall

\* A request after which the call ends without an instance.
LEMMA ReturnKeeps ==
  ASSUME TypeOK, Account, call.op # "none",
         NEW r \in Result \ {"instance"},
         call'.op = call.op, call'.at = "record", call'.result = r,
         worker' = worker, game' = None <=> game = None,
         late'.game \in {None, late.game},
         r \notin {"unknown", "conflict"} /\ call.op = "start"
           => game = None /\ late'.game = None,
         r = "gone" => game = None
  PROVE  Account'
<1>1. call.op \in Op
  BY DEF TypeOK, Call
<1>2. CallFitsWorker'
  BY <1>1 DEF Account, CallFitsWorker, Op
<1>3. IdIsOfInstance' /\ NothingLate'
  BY DEF Account, IdIsOfInstance, NothingLate
<1>4. FirstCreate' /\ Closed'
  BY DEF Account, FirstCreate, Closed, Absent, StartStep
<1> QED BY <1>2, <1>3, <1>4 DEF Account

\* A request after which the call goes on to another that needs no instance.
LEMMA GotoKeeps ==
  ASSUME TypeOK, Account,
         NEW at \in (StartStep \ {"create_reconcile", "secret_owner"})
                      \cup StopStep,
         call'.op = call.op, call'.at = at,
         at \in StartStep => call.op \in {"start", "reconcile"},
         at \in StopStep => call.op \in {"poll", "stop"},
         worker' = worker, game' = None <=> game = None,
         late'.game \in {None, late.game},
         call.op = "start" => game = None /\ late'.game = None
  PROVE  Account'
<1>1. at \in StartStep \/ at \in StopStep
  OBVIOUS
<1>2. CallFitsWorker'
  BY <1>1 DEF Account, CallFitsWorker, StartStep, StopStep
<1>3. IdIsOfInstance' /\ NothingLate'
  BY DEF Account, IdIsOfInstance, NothingLate, StartStep, StopStep
<1>4. FirstCreate' /\ Closed'
  BY DEF Account, FirstCreate, Closed, Absent, StartStep, StopStep
<1> QED BY <1>2, <1>3, <1>4 DEF Account

\* The GameServer g is there: the call goes on to its owner reference or ends.
LEMMA UseGameKeeps ==
  ASSUME TypeOK, Account, call.op \in {"start", "reconcile"},
         NEW g \in Game, g.uid # None, UseGame(g), worker' = worker,
         game' # None, late'.game = None
  PROVE  Account'
<1>1. /\ call'.op = call.op
      /\ \/ call'.at = "secret_owner" /\ call'.inst = g.uid
         \/ call'.at = "record" /\ call'.result = "instance" /\ call'.inst = g.uid
         \/ call'.at = "record" /\ call'.result \in {"conflict", "unknown"}
  BY UseGameCall DEF TypeOK
<1>2. CallFitsWorker'
  BY <1>1 DEF Account, CallFitsWorker, StartStep
<1>3. IdIsOfInstance' /\ NothingLate'
  BY <1>1 DEF Account, IdIsOfInstance, NothingLate
<1>4. worker.state \in {"starting", "unknown"}
  BY DEF Account, CallFitsWorker
<1>5. FirstCreate' /\ Closed'
  BY <1>1, <1>4 DEF FirstCreate, Closed, StartStep
<1> QED BY <1>2, <1>3, <1>5 DEF Account

\* Every request, record and event keeps the account.
LEMMA NextAccount == TypeOK /\ Account /\ [Next]_vars => Account'
<1> SUFFICES ASSUME TypeOK, Account, [Next]_vars PROVE Account'
  OBVIOUS
<1>0. /\ call \in Call /\ worker \in WorkerRecord /\ late \in Late
      /\ conf \in Profile /\ uids \in 0..MaxUid
      /\ game \in Game \cup {None} /\ secret \in Secret \cup {None}
  BY DEF TypeOK
<1>1. CASE UNCHANGED vars
  BY <1>1 DEF vars, Account, CallFitsWorker, IdIsOfInstance, NothingLate,
              FirstCreate, Closed, Absent
<1>2. CASE Request
  <2>1. CASE SecretCreated
    <3>1. /\ worker' = worker /\ game' = game /\ late'.game = late.game
          /\ call.op \in {"start", "reconcile"}
      BY <1>0, <2>1, CallOf DEF SecretCreated, StartStep, Late
    <3>2. call.op = "start" => game = None /\ late.game = None
      BY <2>1 DEF SecretCreated, Account, FirstCreate, Absent, StartStep
    <3>3. NewSecret(conf) \in Secret /\ UseSecret(NewSecret(conf))
      BY <1>0, <2>1, NewObjects DEF SecretCreated
    <3> QED BY <1>0, <3>1, <3>2, <3>3, UseSecretCall, ReturnKeeps, GotoKeeps
            DEF Result, StartStep, StopStep
  <2>2. CASE SecretNotCreated
    <3>1. /\ worker' = worker /\ game' = game /\ late'.game = late.game
          /\ call.op \in {"start", "reconcile"}
      BY <1>0, <2>2, CallOf DEF SecretNotCreated, StartStep, Late
    <3>2. call.op = "start" => game = None /\ late.game = None
      BY <2>2 DEF SecretNotCreated, Account, FirstCreate, Absent, StartStep
    <3>3. CASE \E d \in BOOLEAN : Reconcile("secret_reconcile", d)
      BY <1>0, <3>1, <3>2, <3>3, ReconcileCall, GotoKeeps
         DEF Step, StartStep, StopStep
    <3>4. CASE Return("failed")
      BY <1>0, <3>1, <3>2, <3>4, ReturnCall, ReturnKeeps DEF Result
    <3> QED BY <2>2, <3>3, <3>4 DEF SecretNotCreated
  <2>3. CASE SecretReconcile
    <3>1. /\ worker' = worker /\ game' = game /\ late' = late
          /\ call.op \in {"start", "reconcile"}
      BY <2>3, CallOf DEF SecretReconcile, cluster, StartStep
    <3>2. call.op = "start" => game = None /\ late.game = None
      BY <2>3 DEF SecretReconcile, Account, FirstCreate, Absent, StartStep
    <3>3. CASE secret # None /\ UseSecret(secret)
      BY <1>0, <3>1, <3>2, <3>3, UseSecretCall, ReturnKeeps, GotoKeeps DEF
         Result, StartStep, StopStep
    <3>4. CASE Return("unknown")
      BY <1>0, <3>1, <3>2, <3>4, ReturnCall, ReturnKeeps DEF Result
    <3>5. CASE Return("failed")
      BY <1>0, <3>1, <3>2, <3>5, ReturnCall, ReturnKeeps DEF Result
    <3> QED BY <2>3, <3>3, <3>4, <3>5 DEF SecretReconcile
  <2>4. CASE SecretOwnerCheck
    <3>1. /\ worker' = worker /\ game' = game /\ late' = late
          /\ call.op \in {"start", "reconcile"}
      BY <2>4, CallOf DEF SecretOwnerCheck, cluster, StartStep
    <3>2. call.op = "start" => game = None /\ late.game = None
      BY <2>4 DEF SecretOwnerCheck, Account, FirstCreate, Absent, StartStep
    <3>3. CASE Return("conflict")
      BY <1>0, <3>1, <3>2, <3>3, ReturnCall, ReturnKeeps DEF Result
    <3>4. CASE game # None /\ Goto("start")
      BY <1>0, <3>1, <3>2, <3>4, GotoCall, GotoKeeps DEF Step, StartStep,
         StopStep
    <3>5. CASE Return("failed")
      BY <1>0, <3>1, <3>2, <3>5, ReturnCall, ReturnKeeps DEF Result
    <3> QED BY <2>4, <3>3, <3>4, <3>5 DEF SecretOwnerCheck
  <2>5. CASE GameCreated
    <3>1. /\ worker' = worker /\ call.op \in {"start", "reconcile"}
          /\ late'.game = None
      BY <1>0, <2>5, CallOf DEF GameCreated, StartStep, Late
    <3>2. /\ NewGame(conf) \in Game /\ NewGame(conf).uid # None
          /\ game' = NewGame(conf) /\ UseGame(NewGame(conf))
      BY <1>0, <2>5, NewObjects DEF GameCreated
    <3>3. game' # None
      BY <3>2
    <3> QED BY <3>1, <3>2, <3>3, UseGameKeeps
  <2>6. CASE GameNotCreated
    <3>1. /\ worker' = worker /\ game' = game
          /\ call.op \in {"start", "reconcile"}
      BY <2>6, CallOf DEF GameNotCreated, StartStep
    <3>2. call.op = "start" => game = None /\ late.game = None
      BY <2>6 DEF GameNotCreated, Account, FirstCreate, Absent, StartStep
    <3>3. worker.id = None /\ worker.state \in {"starting", "unknown"}
      BY <3>1 DEF Account, CallFitsWorker, IdIsOfInstance
    <3>4. CASE /\ game # None /\ late' = [late EXCEPT !.game = None]
               /\ Reconcile("create_reconcile", FALSE)
      <4>1. call'.op = "reconcile" /\ call'.at = "create_reconcile"
        BY <1>0, <3>1, <3>2, <3>4, ReconcileCall DEF Step
      <4>2. late'.game = None
        BY <1>0, <3>4 DEF Late
      <4> QED BY <3>1, <3>2, <3>3, <3>4, <4>1, <4>2
              DEF Account, CallFitsWorker, IdIsOfInstance, NothingLate,
                  FirstCreate, Closed, StartStep
    <3>5. CASE /\ late' = [late EXCEPT !.game = IF game = None THEN conf ELSE None]
               /\ Reconcile("create_reconcile", TRUE)
      <4>1. /\ call'.op = call.op /\ call'.at = "create_reconcile"
            /\ call'.doubt
        BY <1>0, <3>5, ReconcileCall DEF Step
      <4>2. game # None => late'.game = None
        BY <1>0, <3>5 DEF Late
      <4> QED BY <3>1, <3>3, <4>1, <4>2
              DEF Account, CallFitsWorker, IdIsOfInstance, NothingLate,
                  FirstCreate, Closed, StartStep
    <3>6. CASE late' = [late EXCEPT !.game = None] /\ Return("failed")
      <4>1. late'.game = None
        BY <1>0, <3>6 DEF Late
      <4> QED BY <1>0, <3>1, <3>2, <3>6, <4>1, ReturnCall, ReturnKeeps DEF Result
    <3>7. CASE late' = [late EXCEPT !.game = None] /\ Goto("failed_create_check")
      <4>1. late'.game = None
        BY <1>0, <3>7 DEF Late
      <4> QED BY <1>0, <3>1, <3>2, <3>7, <4>1, GotoCall, GotoKeeps
              DEF Step, StartStep, StopStep
    <3> QED BY <2>6, <3>4, <3>5, <3>6, <3>7 DEF GameNotCreated
  <2>7. CASE CreateReconcile
    <3>1. /\ worker' = worker /\ game' = game /\ late' = late
          /\ call.op \in {"start", "reconcile"}
      BY <2>7, CallOf DEF CreateReconcile, cluster, StartStep
    <3>2. call.op = "start" => call.doubt
      BY <2>7 DEF CreateReconcile, Account, FirstCreate
    <3>3. CASE game # None /\ UseGame(game)
      <4>1. game \in Game /\ game.uid # None
        BY <1>0, <3>3 DEF Game, Uid
      <4>2. late.game = None
        BY <3>3 DEF Account, NothingLate
      <4> QED BY <3>1, <3>3, <4>1, <4>2, UseGameKeeps
    <3>4. CASE call.doubt /\ Return("unknown")
      BY <1>0, <3>1, <3>4, ReturnCall, ReturnKeeps DEF Result
    <3>5. CASE ~call.doubt /\ Return("failed")
      BY <1>0, <3>1, <3>2, <3>5, ReturnCall, ReturnKeeps DEF Result
    <3>6. CASE ~call.doubt /\ Goto("failed_create_check")
      BY <1>0, <3>1, <3>2, <3>6, GotoCall, GotoKeeps DEF Step, StartStep, StopStep
    <3> QED BY <2>7, <3>3, <3>4, <3>5, <3>6 DEF CreateReconcile
  <2>8. CASE FailedCreateCheck
    <3>1. /\ worker' = worker /\ game' = game /\ late' = late
          /\ call.op \in {"start", "reconcile"}
      BY <2>8, CallOf DEF FailedCreateCheck, cluster, StartStep
    <3>2. call.op = "start" => game = None /\ late.game = None
      BY <2>8 DEF FailedCreateCheck, Account, FirstCreate, Absent, StartStep
    <3>3. CASE Goto("failed_create_cleanup")
      BY <1>0, <3>1, <3>2, <3>3, GotoCall, GotoKeeps DEF Step, StartStep,
         StopStep
    <3>4. CASE Return("failed")
      BY <1>0, <3>1, <3>2, <3>4, ReturnCall, ReturnKeeps DEF Result
    <3> QED BY <2>8, <3>3, <3>4 DEF FailedCreateCheck
  <2>9. CASE FailedCreateCleanup
    <3>1. /\ worker' = worker /\ game' = game /\ late' = late
          /\ call.op \in {"start", "reconcile"}
      BY <2>9, CallOf DEF FailedCreateCleanup, cluster, StartStep
    <3>2. call.op = "start" => game = None /\ late.game = None
      BY <2>9 DEF FailedCreateCleanup, Account, FirstCreate, Absent, StartStep
    <3>3. CASE Return("failed")
      BY <1>0, <3>1, <3>2, <3>3, ReturnCall, ReturnKeeps DEF Result
    <3> QED BY <2>9, <3>3 DEF FailedCreateCleanup
  <2>10. CASE SecretOwner
    <3>1. /\ worker' = worker /\ game' = game /\ late' = late
          /\ call.op \in {"start", "reconcile"} /\ call.at = "secret_owner"
      BY <2>10, CallOf DEF SecretOwner, StartStep
    <3>2. CASE Return("unknown")
      BY <1>0, <3>1, <3>2, ReturnCall, ReturnKeeps DEF Result
    <3>3. CASE Return("instance")
      <4>1. /\ call'.op = call.op /\ call'.at = "record"
            /\ call'.result = "instance" /\ call'.inst = call.inst
        BY <1>0, <3>3 DEF Return, Call
      <4>2. worker.state \in {"starting", "unknown"}
        BY <3>1 DEF Account, CallFitsWorker
      <4> QED BY <3>1, <4>1, <4>2
              DEF Account, CallFitsWorker, IdIsOfInstance, NothingLate,
                  FirstCreate, Closed, StartStep, Absent
    <3> QED BY <2>10, <3>2, <3>3 DEF SecretOwner
  <2>11. CASE List
    <3>1. /\ worker' = worker /\ game' = game /\ late' = late
          /\ call.op = "reconcile"
      BY <2>11, CallOf DEF List, cluster
    <3>2. CASE Goto("secret_create")
      BY <1>0, <3>1, <3>2, GotoCall, GotoKeeps DEF Step, StartStep, StopStep
    <3>3. CASE Return("unknown")
      BY <1>0, <3>1, <3>3, ReturnCall, ReturnKeeps DEF Result
    <3> QED BY <2>11, <3>2, <3>3 DEF List
  <2>12. CASE Get
    <3>1. /\ worker' = worker /\ game' = game /\ late' = late
          /\ call.op \in {"poll", "stop"}
      BY <2>12, CallOf DEF Get, cluster, StopStep
    <3>2. CASE Return(Reading)
      BY <1>0, <3>1, <3>2, ReturnCall, ReturnKeeps DEF Result, Reading
    <3>3. CASE Return("retry") \/ Return("mismatch")
      BY <1>0, <3>1, <3>3, ReturnCall, ReturnKeeps DEF Result
    <3> QED BY <2>12, <3>2, <3>3 DEF Get
  <2>13. CASE StopGet
    <3>1. /\ worker' = worker /\ game' = game /\ late' = late
          /\ call.op \in {"poll", "stop"}
      BY <2>13, CallOf DEF StopGet, cluster, StopStep
    <3>2. CASE Goto("secret_cleanup_get")
      BY <1>0, <3>1, <3>2, GotoCall, GotoKeeps DEF Step, StartStep, StopStep
    <3>3. CASE Goto("stop")
      BY <1>0, <3>1, <3>3, GotoCall, GotoKeeps DEF Step, StartStep, StopStep
    <3>4. CASE Return("retry")
      BY <1>0, <3>1, <3>4, ReturnCall, ReturnKeeps DEF Result
    <3> QED BY <2>13, <3>2, <3>3, <3>4 DEF StopGet
  <2>14. CASE StopDelete
    <3>1. /\ worker' = worker /\ late' = late
          /\ call.op \in {"poll", "stop"}
      BY <2>14, CallOf DEF StopDelete, StopStep
    <3>2. game' = None <=> game = None
      <4>1. CASE game' = game
        BY <4>1
      <4>2. CASE game # None /\ game' = [game EXCEPT !.status = "deleting"]
        <5>1. game' \in Game
          BY <1>0, <4>2 DEF Game
        <5> QED BY <4>2, <5>1
      <4> QED BY <2>14, <4>1, <4>2 DEF StopDelete
    <3>3. CASE Goto("stop_confirm") \/ Goto("secret_cleanup_get")
      BY <1>0, <3>1, <3>2, <3>3, GotoCall, GotoKeeps DEF Step, StartStep, StopStep
    <3>4. CASE Return("retry")
      BY <1>0, <3>1, <3>2, <3>4, ReturnCall, ReturnKeeps DEF Result
    <3> QED BY <2>14, <3>3, <3>4 DEF StopDelete
  <2>15. CASE SecretCleanupGet
    <3>1. /\ worker' = worker /\ game' = game /\ late' = late
          /\ call.op \in {"poll", "stop"}
      BY <2>15, CallOf DEF SecretCleanupGet, cluster, StopStep
    <3>2. CASE Goto("stop_confirm")
      BY <1>0, <3>1, <3>2, GotoCall, GotoKeeps DEF Step, StartStep, StopStep
    <3>3. CASE call' = [call EXCEPT !.at = "secret_cleanup", !.seen = secret]
      <4>1. call'.op = call.op /\ call'.at = "secret_cleanup"
        BY <1>0, <3>3 DEF Call
      <4> QED BY <3>1, <4>1, GotoKeeps DEF StartStep, StopStep
    <3>4. CASE Return("retry")
      BY <1>0, <3>1, <3>4, ReturnCall, ReturnKeeps DEF Result
    <3> QED BY <2>15, <3>2, <3>3, <3>4 DEF SecretCleanupGet
  <2>16. CASE SecretCleanup
    <3>1. /\ worker' = worker /\ game' = game /\ late' = late
          /\ call.op \in {"poll", "stop"}
      BY <2>16, CallOf DEF SecretCleanup, cluster, StopStep
    <3>2. CASE Goto("stop_confirm")
      BY <1>0, <3>1, <3>2, GotoCall, GotoKeeps DEF Step, StartStep, StopStep
    <3>3. CASE Return("retry")
      BY <1>0, <3>1, <3>3, ReturnCall, ReturnKeeps DEF Result
    <3> QED BY <2>16, <3>2, <3>3 DEF SecretCleanup
  <2>17. CASE StopConfirm
    <3>1. /\ worker' = worker /\ game' = game /\ late' = late
          /\ call.op \in {"poll", "stop"}
      BY <2>17, CallOf DEF StopConfirm, cluster, StopStep
    <3>2. CASE game = None /\ Return("gone")
      BY <1>0, <3>1, <3>2, ReturnCall, ReturnKeeps DEF Result
    <3>3. CASE Return("retry")
      BY <1>0, <3>1, <3>3, ReturnCall, ReturnKeeps DEF Result
    <3> QED BY <2>17, <3>2, <3>3 DEF StopConfirm
  <2> QED BY <1>2, <2>1, <2>2, <2>3, <2>4, <2>5, <2>6, <2>7, <2>8, <2>9,
             <2>10, <2>11, <2>12, <2>13, <2>14, <2>15, <2>16, <2>17
          DEF Request, Start, Stop
<1>3. CASE Manager
  <2>1. CASE BeginStart
    BY <1>0, <2>1 DEF BeginStart, Begin, NoCall, WorkerRecord, cluster, Account,
       CallFitsWorker, IdIsOfInstance, NothingLate, FirstCreate, Closed, Absent,
       StartStep
  <2>2. CASE BeginReconcile
    BY <2>2 DEF BeginReconcile, Begin, NoCall, cluster, Account, CallFitsWorker,
       IdIsOfInstance, NothingLate, FirstCreate, Closed, Absent
  <2>3. CASE BeginPoll
    BY <2>3 DEF BeginPoll, Begin, NoCall, cluster, Account, CallFitsWorker,
       IdIsOfInstance, NothingLate, FirstCreate, Closed, Absent, StopStep
  <2>4. CASE BeginStop
    BY <2>4 DEF BeginStop, Begin, NoCall, cluster, Account, CallFitsWorker,
       IdIsOfInstance, NothingLate, FirstCreate, Closed, Absent, StopStep
  <2>5. CASE Record
    <3>1. /\ call' = NoCall /\ game' = game /\ late' = late
          /\ call.at = "record" /\ call.op \in Op \ {"none"}
      BY <1>0, <2>5 DEF Record, cluster, Call, Account, CallFitsWorker, NoCall
    <3>2. CASE call.op = "start"
      <4>1. /\ worker'.state = RecordedStart(worker).state
            /\ worker'.id = RecordedStart(worker).id /\ worker.id = None
        BY <1>0, <2>5, <3>2, RecordedWorker
           DEF Recorded, Account, CallFitsWorker, IdIsOfInstance
      <4>2. CASE call.result = "instance"
        <5>1. worker'.state = "placed" /\ worker'.id = call.inst
          BY <1>0, <4>1, <4>2 DEF RecordedStart, WorkerRecord
        <5> QED BY <3>1, <4>2, <5>1
                DEF Account, CallFitsWorker, IdIsOfInstance, NothingLate,
                    FirstCreate, Closed, Absent, NoCall
      <4>3. CASE call.result \in {"unknown", "conflict"}
        <5>1. worker'.state = "unknown" /\ worker'.id = None
          BY <1>0, <4>1, <4>3 DEF RecordedStart, WorkerRecord
        <5> QED BY <3>1, <5>1
                DEF Account, CallFitsWorker, IdIsOfInstance, NothingLate,
                    FirstCreate, Closed, Absent, NoCall
      <4>4. CASE call.result \notin {"instance", "unknown", "conflict"}
        <5>1. worker'.state = "failed" /\ worker'.id = None
          BY <1>0, <4>1, <4>4 DEF RecordedStart, WorkerRecord
        <5>2. game = None /\ late.game = None
          BY <3>1, <3>2, <4>4 DEF Account, FirstCreate, Absent
        <5> QED BY <3>1, <5>1, <5>2
                DEF Account, CallFitsWorker, IdIsOfInstance, NothingLate,
                    FirstCreate, Closed, Absent, NoCall
      <4> QED BY <4>2, <4>3, <4>4
    <3>3. CASE call.op = "reconcile"
      <4>1. /\ worker'.state = RecordedReconcile(worker).state
            /\ worker'.id = RecordedReconcile(worker).id
            /\ worker.state = "unknown"
        BY <1>0, <2>5, <3>3, RecordedWorker DEF Recorded, Account, CallFitsWorker
      <4>2. CASE call.result = "instance"
        <5>1. worker'.state = "placed" /\ worker'.id = call.inst
          BY <1>0, <4>1, <4>2 DEF RecordedReconcile, WorkerRecord
        <5> QED BY <3>1, <4>2, <5>1
                DEF Account, CallFitsWorker, IdIsOfInstance, NothingLate,
                    FirstCreate, Closed, Absent, NoCall
      <4>3. CASE call.result # "instance"
        <5>1. worker'.state = worker.state /\ worker'.id = worker.id
          BY <4>1, <4>3 DEF RecordedReconcile
        <5> QED BY <3>1, <5>1
                DEF Account, CallFitsWorker, IdIsOfInstance, NothingLate,
                    FirstCreate, Closed, Absent, NoCall
      <4> QED BY <4>2, <4>3
    <3>4. CASE call.op \in {"poll", "stop"}
      <4>1. /\ worker'.id = worker.id
            /\ worker'.state \in {worker.state, "lost", "stopping", "stopped"}
            /\ worker'.state = "stopped" =>
                 worker.state = "stopped" \/ call.result = "gone"
        BY <1>0, <2>5, <3>4, RecordedWorker
           DEF Recorded, RecordedPoll, RecordedStop, WorkerRecord
      <4>2. worker.id # None /\ late.game = None
        BY <3>4 DEF Account, CallFitsWorker, NothingLate
      <4>3. call.result = "gone" => game = None
        BY <3>1, <3>4 DEF Account, Closed
      <4> QED BY <3>1, <4>1, <4>2, <4>3
              DEF Account, CallFitsWorker, IdIsOfInstance, NothingLate,
                  FirstCreate, Closed, Absent, NoCall
    <3> QED BY <3>1, <3>2, <3>3, <3>4 DEF Op
  <2>6. CASE Interrupted
    BY <1>0, <2>6 DEF Interrupted, NoCall, WorkerRecord, cluster, Account,
       CallFitsWorker, IdIsOfInstance, NothingLate, FirstCreate, Closed, Absent
  <2>7. CASE Retire
    BY <1>0, <2>7 DEF Retire, NoCall, WorkerRecord, cluster, Account,
       CallFitsWorker, IdIsOfInstance, NothingLate, FirstCreate, Closed, Absent
  <2>8. CASE Report
    BY <1>0, <2>8 DEF Report, WorkerRecord, cluster, Account,
       CallFitsWorker, IdIsOfInstance, NothingLate, FirstCreate, Closed, Absent
  <2>9. CASE Silent
    BY <1>0, <2>9 DEF Silent, NoCall, WorkerRecord, cluster, Account,
       CallFitsWorker, IdIsOfInstance, NothingLate, FirstCreate, Closed, Absent
  <2>10. CASE Stale \/ GiveWay
    BY <1>0, <2>10 DEF Stale, GiveWay, WorkerRecord, cluster, Account,
       CallFitsWorker, IdIsOfInstance, NothingLate, FirstCreate, Closed, Absent
  <2>11. ASSUME NEW p \in Profile, Crash(p) PROVE Account'
    <3>1. worker' = worker /\ game' = game /\ call' = NoCall
      BY <2>11 DEF Crash
    <3>2. late'.game = late.game \/ (call.at = "start" /\ game = None)
      BY <1>0, <2>11 DEF Crash, Late
    <3>3. call.at = "start" => /\ worker.id = None
                               /\ worker.state \in {"starting", "unknown"}
      BY CallOf DEF Account, CallFitsWorker, IdIsOfInstance, StartStep
    <3> QED BY <3>1, <3>2, <3>3
            DEF Account, CallFitsWorker, IdIsOfInstance, NothingLate,
                FirstCreate, Closed, Absent, NoCall
  <2> QED BY <1>3, <2>1, <2>2, <2>3, <2>4, <2>5, <2>6, <2>7, <2>8, <2>9,
             <2>10, <2>11
          DEF Manager
<1>4. CASE Kubernetes
  <2>1. CASE LandSecret
    BY <1>0, <2>1 DEF LandSecret, Late, cluster, Account, CallFitsWorker,
       IdIsOfInstance, NothingLate, FirstCreate, Closed, Absent, StartStep,
       StopStep
  <2>2. CASE LandGame
    BY <1>0, <2>2 DEF LandGame, Late, Call, WorkerRecord, cluster, Account,
       CallFitsWorker, IdIsOfInstance, NothingLate, FirstCreate, Closed,
       Absent, StartStep, StopStep
  <2>3. CASE OperatorDelete
    BY <1>0, <2>3 DEF OperatorDelete, cluster, Account, CallFitsWorker,
       IdIsOfInstance, NothingLate, FirstCreate, Closed, Absent, StartStep,
       StopStep
  <2>4. CASE Finalize
    BY <1>0, <2>4 DEF Finalize, cluster, Account, CallFitsWorker,
       IdIsOfInstance, NothingLate, FirstCreate, Closed, Absent, StartStep,
       StopStep
  <2>5. CASE Collect
    BY <1>0, <2>5 DEF Collect, cluster, Account, CallFitsWorker,
       IdIsOfInstance, NothingLate, FirstCreate, Closed, Absent, StartStep,
       StopStep
  <2>6. ASSUME NEW s \in {"healthy", "unhealthy"}, ChangeStatus(s) PROVE Account'
    BY <1>0, <2>6 DEF ChangeStatus, cluster, Account, CallFitsWorker,
       IdIsOfInstance, NothingLate, FirstCreate, Closed, Absent, StartStep,
       StopStep
  <2> QED BY <1>4, <2>1, <2>2, <2>3, <2>4, <2>5, <2>6
          DEF Kubernetes
<1> QED BY <1>1, <1>2, <1>3, <1>4 DEF Next

\* The shape and the account hold always.
LEMMA Accounted == Spec => [](TypeOK /\ Account)
BY InitAccount, NextType, NextAccount, PTL DEF Spec

\* An instance that exists is counted, whatever requests and answers are lost
\* and wherever the process dies.
THEOREM Counted == Spec => []InstanceIsCounted
<1>1. Account => InstanceIsCounted
  BY DEF Account, Closed, Absent, InstanceIsCounted
<1> QED BY <1>1, Accounted, PTL

\* Who writes the worker's record: never a step that makes or removes the
\* GameServer, and never once the record is closed.
LEMMA WorkerSteps ==
  TypeOK /\ Account /\ [Next]_vars =>
    \/ worker' = worker
    \/ game' = game /\ worker.state \notin {"stopped", "failed"}
<1> SUFFICES ASSUME TypeOK, Account, [Next]_vars, worker' # worker
             PROVE  game' = game /\ worker.state \notin {"stopped", "failed"}
  OBVIOUS
<1>1. ~Request
  BY DEF Request, Start, Stop, SecretCreated, SecretNotCreated,
         SecretReconcile, SecretOwnerCheck, GameCreated, GameNotCreated,
         CreateReconcile, FailedCreateCheck, FailedCreateCleanup, SecretOwner,
         List, Get, StopGet, StopDelete, SecretCleanupGet, SecretCleanup,
         StopConfirm
<1>2. ~Kubernetes
  BY DEF Kubernetes, LandSecret, LandGame, OperatorDelete, Finalize, Collect,
         ChangeStatus
<1>3. Manager
  BY <1>1, <1>2 DEF Next, vars
<1>4. CASE Record
  <2>1. call.op \in Op \ {"none"}
    BY <1>4 DEF Record, TypeOK, Call, Account, CallFitsWorker, NoCall
  <2>2. worker.state \notin {"stopped", "failed"}
    BY <2>1 DEF Op, Account, CallFitsWorker
  <2> QED BY <1>4, <2>2 DEF Record, cluster
<1>5. CASE BeginStart \/ BeginReconcile \/ BeginPoll \/ BeginStop
  BY <1>5 DEF BeginStart, BeginReconcile, BeginPoll, BeginStop, Begin, cluster
<1>6. CASE Interrupted \/ Retire \/ Report \/ Stale \/ Silent \/ GiveWay
  BY <1>6 DEF Interrupted, Retire, Report, Stale, Silent, GiveWay, cluster
<1>7. ~ \E p \in Profile : Crash(p)
  BY DEF Crash
<1> QED BY <1>3, <1>4, <1>5, <1>6, <1>7 DEF Manager

\* The manager and the client implement InstanceSlot: a slot is given up only
\* when no instance is left, and never taken back.
THEOREM SlotKept == Spec => KeepsSlot
<1>1. Init => Slot!Init
  BY DEF Init, Slot!Init
<1>2. TypeOK /\ Account /\ Account' /\ [Next]_vars =>
        [Slot!Next]_<<worker.state \notin {"stopped", "failed"}, game # None>>
  <2> SUFFICES ASSUME TypeOK, Account, Account', [Next]_vars
               PROVE  [Slot!Next]_<<worker.state \notin {"stopped", "failed"},
                                    game # None>>
    OBVIOUS
  <2>1. CASE worker' = worker
    BY <2>1 DEF Account, Closed, Absent, Slot!Next, Slot!Appear, Slot!Vanish
  <2>2. CASE game' = game /\ worker.state \notin {"stopped", "failed"}
    BY <2>2 DEF Account, Closed, Absent, Slot!Next, Slot!GiveUp
  <2> QED BY <2>1, <2>2, WorkerSteps
<1> QED BY <1>1, <1>2, Accounted, PTL DEF Spec, KeepsSlot, Slot!Spec

\* The create was refused, or another one had been accepted before.
Refused ==
  \/ call.at \in {"failed_create_check", "failed_create_cleanup"}
  \/ call.at = "create_reconcile" /\ ~call.doubt
CleanupStep == {"failed_create_cleanup", "secret_cleanup_get", "secret_cleanup"}

\* A call that deletes the Secret has seen that there is no GameServer, and no
\* create of one is on its way.
Cleared ==
  /\ Refused \/ call.at \in CleanupStep => late.game = None
  /\ call.at \in CleanupStep => game = None

\* Every request of Start and Stop keeps that.
LEMMA RequestCleared ==
  ASSUME TypeOK, Account, Cleared, Request
  PROVE  Cleared'
<1>0. /\ call \in Call /\ late \in Late /\ conf \in Profile /\ uids \in 0..MaxUid
      /\ game \in Game \cup {None} /\ secret \in Secret \cup {None}
  BY DEF TypeOK
<1>1. ASSUME call'.at \in {"record", "start", "secret_owner_check", "secret_owner",
                           "secret_create", "secret_reconcile", "stop", "stop_confirm"}
      PROVE  Cleared'
  BY <1>1 DEF Cleared, Refused, CleanupStep
<1>2. \A r \in Result : Return(r) => Cleared'
  BY <1>0, <1>1, ReturnCall
<1>3. \A at \in {"start", "secret_create", "stop", "stop_confirm"} : Goto(at) => Cleared'
  BY <1>0, <1>1, GotoCall DEF Step
<1>4. \A x \in Secret : UseSecret(x) => Cleared'
  BY <1>0, <1>1, UseSecretCall
<1>5. \A g \in Game : UseGame(g) => Cleared'
  BY <1>0, <1>1, UseGameCall
<1>6. CASE SecretCreated \/ GameCreated
  BY <1>0, <1>4, <1>5, <1>6, NewObjects DEF SecretCreated, GameCreated
<1>7. CASE SecretNotCreated
  BY <1>0, <1>1, <1>2, <1>7, ReconcileCall DEF SecretNotCreated, Step, Result
<1>8. CASE SecretReconcile \/ SecretOwnerCheck
  BY <1>0, <1>2, <1>3, <1>4, <1>8 DEF SecretReconcile, SecretOwnerCheck, Result
<1>9. CASE GameNotCreated
  <2>1. CASE /\ late' = [late EXCEPT !.game = IF game = None THEN conf ELSE None]
             /\ Reconcile("create_reconcile", TRUE)
    <3>1. call'.at = "create_reconcile" /\ call'.doubt
      BY <1>0, <2>1, ReconcileCall DEF Step
    <3> QED BY <3>1 DEF Cleared, Refused, CleanupStep
  <2>2. CASE late' = [late EXCEPT !.game = None] /\ Reconcile("create_reconcile", FALSE)
    <3>1. call'.at = "create_reconcile" /\ late'.game = None
      BY <1>0, <2>2, ReconcileCall DEF Step, Late
    <3> QED BY <3>1 DEF Cleared, Refused, CleanupStep
  <2>3. CASE late' = [late EXCEPT !.game = None] /\ Goto("failed_create_check")
    <3>1. call'.at = "failed_create_check" /\ late'.game = None
      BY <1>0, <2>3, GotoCall DEF Step, Late
    <3> QED BY <3>1 DEF Cleared, Refused, CleanupStep
  <2> QED BY <1>2, <1>9, <2>1, <2>2, <2>3 DEF GameNotCreated, Result
<1>10. CASE CreateReconcile
  <2>1. CASE ~call.doubt /\ Goto("failed_create_check")
    <3>1. call'.at = "failed_create_check" /\ late' = late /\ late.game = None
      BY <1>0, <1>10, <2>1, GotoCall DEF CreateReconcile, cluster, Step, Cleared, Refused
    <3> QED BY <3>1 DEF Cleared, Refused, CleanupStep
  <2>2. CASE game # None /\ UseGame(game)
    BY <1>0, <1>5, <2>2
  <2> QED BY <1>2, <1>10, <2>1, <2>2 DEF CreateReconcile, Result
<1>11. CASE FailedCreateCheck
  <2>1. CASE game = None /\ Goto("failed_create_cleanup")
    <3>1. late' = late /\ game' = None /\ late.game = None
      BY <1>11, <2>1 DEF FailedCreateCheck, cluster, Cleared, Refused
    <3> QED BY <3>1 DEF Cleared
  <2> QED BY <1>2, <1>11, <2>1 DEF FailedCreateCheck, Result
<1>12. CASE StopGet
  <2>1. CASE Reading = "gone" /\ Goto("secret_cleanup_get")
    <3>1. late' = late /\ game' = game /\ game = None
      BY <1>12, <2>1 DEF StopGet, cluster, Reading
    <3>2. late.game = None
      BY <1>12, CallOf DEF StopGet, StopStep, Account, CallFitsWorker, NothingLate
    <3> QED BY <3>1, <3>2 DEF Cleared
  <2> QED BY <1>2, <1>3, <1>12, <2>1 DEF StopGet, Result
<1>13. CASE StopDelete
  <2>1. CASE game = None /\ Goto("secret_cleanup_get") /\ UNCHANGED game
    <3>1. late.game = None
      BY <1>13, CallOf DEF StopDelete, StopStep, Account, CallFitsWorker, NothingLate
    <3> QED BY <1>13, <2>1, <3>1 DEF StopDelete, Cleared
  <2> QED BY <1>2, <1>3, <1>13, <2>1 DEF StopDelete, Result
<1>14. CASE SecretCleanupGet
  <2>1. late.game = None /\ game = None /\ late' = late /\ game' = game
    BY <1>14 DEF SecretCleanupGet, Cleared, CleanupStep, cluster
  <2> QED BY <2>1 DEF Cleared
<1>15. CASE FailedCreateCleanup \/ SecretOwner \/ List \/ Get \/ SecretCleanup \/ StopConfirm
  BY <1>2, <1>3, <1>15 DEF FailedCreateCleanup, SecretOwner, List, Get, Reading, SecretCleanup,
                           StopConfirm, Result
<1> QED
  BY <1>6, <1>7, <1>8, <1>9, <1>10, <1>11, <1>12, <1>13, <1>14, <1>15
     DEF Request, Start, Stop

\* So does every other step.
LEMMA NextCleared == TypeOK /\ Account /\ Cleared /\ [Next]_vars => Cleared'
<1> SUFFICES ASSUME TypeOK, Account, Cleared, [Next]_vars PROVE Cleared'
  OBVIOUS
<1>1. CASE call' = call /\ game' = game /\ late'.game = late.game
  BY <1>1 DEF Cleared, Refused, CleanupStep
<1>2. CASE call'.at \in {"idle", "secret_create", "list", "get", "stop_get"}
  BY <1>2 DEF Cleared, Refused, CleanupStep
<1>3. CASE Manager
  <2>1. call' = NoCall => Cleared'
    BY <1>2 DEF NoCall
  <2>2. CASE BeginStart \/ BeginReconcile \/ BeginPoll \/ BeginStop
    BY <1>2, <2>2 DEF BeginStart, BeginReconcile, BeginPoll, BeginStop, Begin, NoCall
  <2>3. CASE Record \/ \E p \in Profile : Crash(p)
    BY <2>1, <2>3 DEF Record, Crash
  <2>4. CASE Interrupted \/ Retire \/ Report \/ Stale \/ Silent \/ GiveWay
    BY <1>1, <2>4 DEF Interrupted, Retire, Report, Stale, Silent, GiveWay, cluster
  <2> QED BY <1>3, <2>2, <2>3, <2>4 DEF Manager
<1>4. CASE Kubernetes
  <2>1. CASE LandSecret
    BY <1>1, <2>1 DEF LandSecret, TypeOK, Late
  <2>2. CASE LandGame
    BY <2>2 DEF LandGame, Cleared, Refused
  <2>3. CASE OperatorDelete \/ \E s \in {"healthy", "unhealthy"} : ChangeStatus(s)
    BY <2>3 DEF OperatorDelete, ChangeStatus, Cleared, Refused
  <2>4. CASE Finalize \/ Collect
    BY <2>4 DEF Finalize, Collect, Cleared, Refused
  <2> QED BY <1>4, <2>1, <2>2, <2>3, <2>4 DEF Kubernetes
<1> QED BY <1>1, <1>3, <1>4, RequestCleared DEF Next, vars

\* Whatever answers a call misses, and whatever lands while it works, it never
\* deletes the credentials of an instance that exists (client.go:308).
THEOREM KeepsCredentials == Spec => CredentialsAreKept
<1>1. Init => Cleared
  BY DEF Init, NoCall, Cleared, Refused, CleanupStep
<1>2. Spec => [](TypeOK /\ Account /\ Cleared)
  BY <1>1, InitAccount, NextType, NextAccount, NextCleared, PTL DEF Spec
<1>3. TypeOK /\ Account /\ Cleared /\ [Next]_vars =>
        [secret # None /\ secret' = None /\ call' # call => game = None]_vars
  <2> SUFFICES ASSUME TypeOK, Cleared, Next, secret # None, secret' = None, call' # call
               PROVE  game = None
    OBVIOUS
  <2>1. CASE FailedCreateCleanup \/ SecretCleanup
    BY <2>1 DEF FailedCreateCleanup, SecretCleanup, Cleared, CleanupStep
  <2>2. CASE SecretCreated
    BY <2>2, NewObjects DEF SecretCreated, NewSecret, TypeOK
  <2>3. CASE SecretOwner
    <3>1. secret \in Secret /\ secret' \in Secret
      BY <2>3 DEF SecretOwner, Owns, TypeOK, Secret, Call
    <3> QED BY <3>1
  <2>4. CASE secret' = secret \/ call' = call
    BY <2>4
  <2> QED
    BY <2>1, <2>2, <2>3, <2>4
       DEF Next, Request, Start, Stop, SecretNotCreated, SecretReconcile, SecretOwnerCheck,
           GameCreated, GameNotCreated, CreateReconcile, FailedCreateCheck, List, Get,
           StopGet, StopDelete, SecretCleanupGet, StopConfirm, cluster, Manager, BeginStart,
           BeginReconcile, BeginPoll, BeginStop, Begin, Record, Interrupted, Retire, Report,
           Stale, Silent, GiveWay, Crash, Kubernetes, LandSecret, LandGame, OperatorDelete, Finalize,
           Collect, ChangeStatus
<1> QED BY <1>2, <1>3, PTL DEF Spec, CredentialsAreKept

=============================================================================
