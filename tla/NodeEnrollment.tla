--------------------------- MODULE NodeEnrollment ---------------------------
(***************************************************************************)
(* One NodeEnrollment resource from the operator's scan to the end of its  *)
(* installation: the console requests that create and patch it             *)
(* (internal/console/onboarding.go), the Kubernetes API between them, and  *)
(* the controller that carries it out (scripts/node_enrollment_controller  *)
(* .py, its installer thread in scripts/node_onboarding.py).  Every read   *)
(* of the resource is a copy with its resourceVersion; every write is      *)
(* accepted only if that version is still the current one.                 *)
(***************************************************************************)
EXTENDS Integers, Sequences, FiniteSets

CONSTANTS
  Operator,     \* console requests that may be under way at the same time
  Controller,   \* controller processes
  ScanTTL,      \* life of a scan result (600 s)
  PlanTTL,      \* life of a preflight result (600 s)
  SecretTTL,    \* life of the SSH credential (600 s)
  MaxSecrets,   \* bound: credentials submitted in a behaviour
  MaxFaults     \* bound: crashes, lost answers and failed requests

ASSUME EnrollmentConstants ==
  /\ {ScanTTL, PlanTTL, SecretTTL, MaxSecrets} \subseteq Nat \ {0}
  /\ MaxFaults \in Nat

VARIABLES
  task,     \* the NodeEnrollment resource
  left,     \* time left before the scan and the preflight result expire
  secret,   \* uid of the Secret ssh-<id>, 0 if there is none
  life,     \* life[u]: time left before credential u expires
  made,     \* how many credentials were ever created
  op,       \* op[o]: the console request o and the copy it works on
  ctl,      \* ctl[c]: the main thread of controller c and its copy
  queue,    \* queue[c]: versions its watch has still to deliver
  inst,     \* inst[c]: the installer thread of controller c
  installs, \* history: how often the INSTALL command was sent to the host
  overlap,  \* history: two controllers were alive at the same time
  faults    \* how many faults happened

resource == <<task, left>>
credential == <<secret, life, made>>
process == <<ctl, queue, inst>>
history == <<installs, overlap>>
vars == <<task, left, secret, life, made, op, ctl, queue, inst,
          installs, overlap, faults>>

Terminal == {"Ready", "Failed", "NeedsReview", "Expired"}
Phases == Terminal \cup {"absent", "", "Scanning", "AwaitingPreflight",
          "Preflighting", "AwaitingApproval", "Installing", "Verifying"}
Uids == 1..MaxSecrets

(* spec.action, status.phase, whether status.observedGeneration is the     *)
(* generation, credentialSecretRef.uid, approvedPreflightDigest matching   *)
(* the digest, preflight.can_join, resourceVersion.                        *)
Task == [action : {"Scan", "Preflight", "Join"}, phase : Phases,
         observed : BOOLEAN, ref : 0..MaxSecrets, approved : BOOLEAN,
         canJoin : BOOLEAN, v : Nat]

NoTask == [action |-> "Scan", phase |-> "absent", observed |-> FALSE, ref |-> 0,
           approved |-> FALSE, canJoin |-> FALSE, v |-> 0]
IdleOp == [at |-> "idle", item |-> NoTask, uid |-> 0]
Down == [at |-> "down", item |-> NoTask, first |-> TRUE, startup |-> FALSE]

Init ==
  /\ task = NoTask
  /\ left = [scan |-> 0, plan |-> 0]
  /\ secret = 0 /\ made = 0
  /\ life = [u \in Uids |-> 0]
  /\ op = [o \in Operator |-> IdleOp]
  /\ ctl = [c \in Controller |-> Down]
  /\ queue = [c \in Controller |-> <<>>]
  /\ inst = [c \in Controller |-> "none"]
  /\ installs = 0 /\ overlap = FALSE /\ faults = 0

(* The phase the console shows and decides on: until the controller has    *)
(* observed a change of the spec, the phase that change asks for.          *)
EnrollmentPhase(t) ==
  IF t.observed THEN t.phase
  ELSE CASE t.action = "Scan" -> "Scanning"
         [] t.action = "Preflight" -> "Preflighting"
         [] OTHER -> "Installing"

(* Controllers whose watch is open hear of every version written.          *)
Watching(c) == ctl[c].at \notin {"down", "boot", "sweep", "list"}
Publish(t) ==
  /\ task' = t
  /\ queue' = [c \in Controller |->
                 IF Watching(c) THEN Append(queue[c], t) ELSE queue[c]]

Fault == faults < MaxFaults /\ faults' = faults + 1
\* Mutant: a write is accepted whatever version it was based on.
CurrentAlways(item) == item.v \in Nat
Current(item) == item.v = task.v

-----------------------------------------------------------------------------
(* The console.                                                            *)

(* POST .../scan creates the resource.                                     *)
SubmitScan ==
  /\ task = NoTask
  /\ Publish([NoTask EXCEPT !.phase = "", !.v = 1])
  /\ UNCHANGED <<left, credential, op, ctl, inst, history, faults>>

(* submitPreflight reads the resource and refuses an expired scan.         *)
ReadScan(o) ==
  /\ op[o].at = "idle"
  /\ task.action = "Scan" /\ task.phase # "absent"
  /\ EnrollmentPhase(task) = "AwaitingPreflight" /\ left.scan > 0
  /\ op' = [op EXCEPT ![o] = [at |-> "secret", item |-> task, uid |-> 0]]
  /\ UNCHANGED <<resource, credential, process, history, faults>>

(* It then creates the Secret; a name that exists, or no answer, ends the  *)
(* request.                                                                *)
CreateSecret(o) ==
  /\ op[o].at = "secret" /\ secret = 0 /\ made < MaxSecrets
  /\ secret' = made + 1 /\ made' = made + 1
  /\ life' = [life EXCEPT ![made + 1] = SecretTTL]
  /\ \/ /\ op' = [op EXCEPT ![o].at = "patch", ![o].uid = made + 1]
        /\ UNCHANGED faults
     \/ Fault /\ op' = [op EXCEPT ![o] = IdleOp]
  /\ UNCHANGED <<resource, process, history>>

SecretNotCreated(o) ==
  /\ op[o].at = "secret"
  /\ (secret # 0 /\ UNCHANGED faults) \/ Fault
  /\ op' = [op EXCEPT ![o] = IdleOp]
  /\ UNCHANGED <<resource, credential, process, history>>

(* The patch tests uid, resourceVersion and action.  What it does is the   *)
(* same whether or not its answer arrives; the console then only reports.  *)
PatchPreflight(o) ==
  /\ op[o].at = "patch" /\ Current(op[o].item)
  /\ Publish([op[o].item EXCEPT !.action = "Preflight", !.ref = op[o].uid,
                                !.observed = FALSE, !.v = @ + 1])
  /\ op' = [op EXCEPT ![o] = IdleOp]
  /\ UNCHANGED <<left, credential, ctl, inst, history, faults>>

(* A conflict is answered 409, and then the Secret is deleted by its uid;  *)
(* a failed test is answered 422 and a lost request not at all: the Secret *)
(* is left to the controller.                                              *)
PatchRefused(o) ==
  /\ op[o].at = "patch"
  /\ \/ /\ ~Current(op[o].item)
        /\ \E at \in {"undo", "idle"} :
             op' = [op EXCEPT ![o] = IF at = "undo" THEN [@ EXCEPT !.at = at] ELSE IdleOp]
        /\ UNCHANGED faults
     \/ Fault /\ op' = [op EXCEPT ![o] = IdleOp]
  /\ UNCHANGED <<resource, credential, process, history>>

UndoSecret(o) ==
  /\ op[o].at = "undo"
  /\ \/ secret' = (IF secret = op[o].uid THEN 0 ELSE secret) /\ UNCHANGED faults
     \/ Fault /\ UNCHANGED secret
  /\ op' = [op EXCEPT ![o] = IdleOp]
  /\ UNCHANGED <<resource, life, made, process, history>>

(* submitJoin: a resource that is already approved is only shown.          *)
ReadPlan(o) ==
  /\ op[o].at = "idle"
  /\ task.action = "Preflight" /\ EnrollmentPhase(task) = "AwaitingApproval"
  /\ task.canJoin /\ left.plan > 0
  /\ op' = [op EXCEPT ![o] = [at |-> "join", item |-> task, uid |-> 0]]
  /\ UNCHANGED <<resource, credential, process, history, faults>>

PatchJoin(o) ==
  /\ op[o].at = "join"
  /\ op' = [op EXCEPT ![o] = IdleOp]
  /\ \/ /\ Current(op[o].item)
        /\ Publish([op[o].item EXCEPT !.action = "Join", !.approved = TRUE,
                                      !.observed = FALSE, !.v = @ + 1])
        /\ UNCHANGED faults
     \/ ~Current(op[o].item) /\ UNCHANGED <<task, queue, faults>>
     \/ Fault /\ UNCHANGED <<task, queue>>
  /\ UNCHANGED <<left, credential, ctl, inst, history>>

-----------------------------------------------------------------------------
(* The controller's main loop.  at: "boot" cleanup before the first cycle, *)
(* "sweep" cleanup that has listed the resources, "list" before the list   *)
(* of a cycle, "watch" waiting for the next event, "handle" an object in   *)
(* hand, then the points of reconcile at which a request is outstanding.   *)

Up(c) == ctl[c].at # "down"

(* A process that holds the lease starts.  The lease lasts 30 seconds and  *)
(* a renewal may take longer, so its last holder may still be running.     *)
Start(c) ==
  /\ ctl[c].at = "down"
  /\ ctl' = [ctl EXCEPT ![c] = [Down EXCEPT !.at = "boot"]]
  /\ overlap' = (overlap \/ \E d \in Controller : Up(d))
  /\ UNCHANGED <<resource, credential, op, queue, inst, installs, faults>>

(* The process dies, or exits because it lost its lease.                   *)
Crash(c) ==
  /\ Up(c) /\ Fault
  /\ ctl' = [ctl EXCEPT ![c] = Down]
  /\ queue' = [queue EXCEPT ![c] = <<>>]
  /\ inst' = [inst EXCEPT ![c] = "none"]
  /\ UNCHANGED <<resource, credential, op, history>>

(* The objects of the first cycle's lists are handled with startup set.    *)
List(c) ==
  /\ ctl[c].at = "list"
  /\ ctl' = [ctl EXCEPT ![c].at = IF task = NoTask THEN "watch" ELSE "handle",
                        ![c].item = task, ![c].startup = ctl[c].first]
  /\ UNCHANGED <<resource, credential, op, queue, inst, history, faults>>

(* Versions are delivered in the order they were written, each one         *)
(* possibly long after it was overwritten.                                 *)
Event(c) ==
  /\ ctl[c].at = "watch" /\ queue[c] # <<>>
  /\ ctl' = [ctl EXCEPT ![c].at = "handle", ![c].item = Head(queue[c]),
                        ![c].startup = FALSE]
  /\ queue' = [queue EXCEPT ![c] = Tail(@)]
  /\ UNCHANGED <<resource, credential, op, inst, history, faults>>

(* The watch ends; a failed one starts a new cycle without cleanup.        *)
WatchFails(c) ==
  /\ ctl[c].at = "watch" /\ Fault
  /\ ctl' = [ctl EXCEPT ![c].at = "list", ![c].item = NoTask]
  /\ queue' = [queue EXCEPT ![c] = <<>>]
  /\ UNCHANGED <<resource, credential, op, inst, history>>

(* cleanup lists the enrollments, then the Secrets, and deletes a Secret   *)
(* that is too old or whose owner is gone or finished.  Before the first   *)
(* cycle its failure ends the process.                                     *)
CleanupList(c) ==
  /\ ctl[c].at \in {"boot", "watch"}
  /\ ctl' = [ctl EXCEPT ![c].at = "sweep", ![c].item = task,
                        ![c].first = @ /\ ctl[c].at = "boot"]
  /\ queue' = [queue EXCEPT ![c] = <<>>]
  /\ UNCHANGED <<resource, credential, op, inst, history, faults>>

\* Mutant: only the Secret its owner names is swept.
SweepableIfNamed(owner) == owner.ref = secret /\ (owner.phase \in Terminal \/ life[secret] = 0)
Sweepable(owner) == owner.phase \in Terminal \cup {"absent"} \/ life[secret] = 0

CleanupDelete(c) ==
  /\ ctl[c].at = "sweep"
  /\ \/ /\ secret' = IF secret # 0 /\ Sweepable(ctl[c].item) THEN 0 ELSE secret
        /\ UNCHANGED faults
     \/ Fault /\ ~ctl[c].first /\ UNCHANGED secret
  /\ ctl' = [ctl EXCEPT ![c].at = "list", ![c].item = NoTask]
  /\ UNCHANGED <<resource, life, made, op, queue, inst, history>>

-----------------------------------------------------------------------------
(* reconcile, one request at a time.                                       *)

Go(c, at, item) ==
  ctl' = [ctl EXCEPT ![c].at = at,
                     ![c].item = IF at = "watch" THEN NoTask ELSE item,
                     ![c].startup = FALSE]
Return(c) == Go(c, "watch", NoTask)

(* write: a status written with the resourceVersion of the copy.  next is  *)
(* where the controller is when it succeeds, error where an answer that is *)
(* no conflict leaves it (the write may have taken effect).                *)
Write(c, t, next, error) ==
  LET new == [t EXCEPT !.observed = TRUE, !.v = @ + 1]
  IN \/ Current(t) /\ Publish(new) /\ Go(c, next, new) /\ UNCHANGED faults
     \/ ~Current(t) /\ Return(c) /\ UNCHANGED <<task, queue, faults>>
     \/ /\ Fault /\ Go(c, error, t)
        /\ \/ UNCHANGED <<task, queue>>
           \/ Current(t) /\ Publish(new)

(* fail: a final phase is written, then the credential is cleaned.  Where  *)
(* reconcile catches errors, a failure of either is handled by a refetch.  *)
Fail(c, phase, error) ==
  /\ Write(c, [ctl[c].item EXCEPT !.phase = phase],
           IF error = "watch" THEN "clean" ELSE "clean or refetch", error)
  /\ UNCHANGED <<left, credential, op, inst, history>>

Handling(c) == ctl[c].at = "handle"
Item(c) == ctl[c].item
Pending(c) == Handling(c) /\ Item(c).phase \notin Terminal
Idle(c) == Pending(c) /\ inst[c] = "none"
Reached(c) == Idle(c) /\ Item(c).phase \notin {"Installing", "Verifying"}
              /\ ~(ctl[c].startup /\ Item(c).phase = "Preflighting")
Open(c, action, phase) == Reached(c) /\ Item(c).action = action /\ Item(c).phase = phase

AlreadyTerminal(c) ==
  /\ Handling(c) /\ Item(c).phase \in Terminal
  /\ Go(c, "clean", Item(c))
  /\ UNCHANGED <<resource, credential, op, queue, inst, history, faults>>

(* validate_enrollment: the target is one the controller protects.         *)
Reject(c) == Pending(c) /\ Item(c).phase = "" /\ Fail(c, "Failed", "watch")

(* An installation is under way in this process.                           *)
Busy(c) ==
  /\ Pending(c) /\ inst[c] # "none" /\ Return(c)
  /\ UNCHANGED <<resource, credential, op, queue, inst, history, faults>>

\* Mutant: an interrupted installation is simply started again.
InterruptedReplays(c) ==
  /\ Idle(c) /\ Item(c).phase \in {"Installing", "Verifying"}
  /\ Go(c, "spawn", Item(c))
  /\ UNCHANGED <<resource, credential, op, queue, inst, history, faults>>
\* Mutant: an interrupted installation is reported as an ordinary failure.
InterruptedFails(c) ==
  /\ Idle(c) /\ Item(c).phase \in {"Installing", "Verifying"}
  /\ Fail(c, "Failed", "watch")
Interrupted(c) ==
  /\ Idle(c) /\ Item(c).phase \in {"Installing", "Verifying"}
  /\ Fail(c, "NeedsReview", "watch")

PreflightInterrupted(c) ==
  /\ Idle(c) /\ ctl[c].startup /\ Item(c).phase = "Preflighting"
  /\ Fail(c, "Failed", "watch")

Scan(c) ==
  /\ Reached(c) /\ Item(c).action = "Scan" /\ Item(c).phase # "AwaitingPreflight"
  /\ Write(c, [Item(c) EXCEPT !.phase = "Scanning"], "scan", "refetch")
  /\ UNCHANGED <<left, credential, op, inst, history>>

Scanned(c) ==
  /\ ctl[c].at = "scan"
  /\ Write(c, [Item(c) EXCEPT !.phase = "AwaitingPreflight"], "watch", "refetch")
  /\ left' = IF task' # task THEN [left EXCEPT !.scan = ScanTTL] ELSE left
  /\ UNCHANGED <<credential, op, inst, history>>

(* secret(): the Secret the resource names, and not too old.               *)
CredentialOK(t) == secret # 0 /\ secret = t.ref /\ life[secret] > 0

Raise(c) ==
  /\ Go(c, "refetch", Item(c))
  /\ UNCHANGED <<resource, credential, op, queue, inst, history, faults>>

Preflight(c) ==
  /\ Open(c, "Preflight", "AwaitingPreflight")
  /\ left.scan > 0 /\ CredentialOK(Item(c))
  /\ Write(c, [Item(c) EXCEPT !.phase = "Preflighting"], "preflight", "refetch")
  /\ UNCHANGED <<left, credential, op, inst, history>>

PreflightRefused(c) ==
  /\ Open(c, "Preflight", "AwaitingPreflight")
  /\ left.scan = 0 \/ ~CredentialOK(Item(c))
  /\ Raise(c)

\* Mutant: the age of the credential is forgotten.
PlanLifeInFull(t) == IF t.ref = 0 THEN 0 ELSE PlanTTL
(* The preflight result is valid no longer than the credential.            *)
PlanLife(t) == IF life[t.ref] < PlanTTL THEN life[t.ref] ELSE PlanTTL

Probed(c, ok) ==
  /\ ctl[c].at = "preflight"
  /\ Write(c, [Item(c) EXCEPT !.phase = IF ok THEN "AwaitingApproval" ELSE "Failed",
                              !.canJoin = ok],
           IF ok THEN "watch" ELSE "clean or refetch", "refetch")
  /\ left' = IF task' = task THEN left
             ELSE [left EXCEPT !.plan = PlanLife(Item(c))]
  /\ UNCHANGED <<credential, op, inst, history>>

(* The scan or the probe of the host fails.                                *)
HostFails(c) == ctl[c].at \in {"scan", "preflight"} /\ Raise(c)

Approved(t) == t.canJoin /\ t.approved /\ left.plan > 0 /\ CredentialOK(t)

Join(c) ==
  /\ Open(c, "Join", "AwaitingApproval") /\ Approved(Item(c))
  /\ Write(c, [Item(c) EXCEPT !.phase = "Installing"], "spawn", "refetch")
  /\ UNCHANGED <<left, credential, op, inst, history>>

JoinRefused(c) ==
  /\ Open(c, "Join", "AwaitingApproval") /\ ~Approved(Item(c))
  /\ Raise(c)

PlanExpired(c) ==
  /\ Open(c, "Preflight", "AwaitingApproval") /\ left.plan = 0
  /\ Fail(c, "Expired", "refetch")

\* Mutant: only a scan the operator acted on expires.
ScanExpiredOnceUsed(c) ==
  /\ Open(c, "Preflight", "AwaitingPreflight") /\ left.scan = 0
  /\ Fail(c, "Expired", "refetch")
ScanExpired(c) ==
  /\ Open(c, "Scan", "AwaitingPreflight") /\ left.scan = 0
  /\ Fail(c, "Expired", "refetch")

StillWaiting(c) ==
  /\ \/ Open(c, "Preflight", "AwaitingApproval") /\ left.plan > 0
     \/ Open(c, "Scan", "AwaitingPreflight") /\ left.scan > 0
  /\ Return(c)
  /\ UNCHANGED <<resource, credential, op, queue, inst, history, faults>>

InvalidTransition(c) ==
  /\ Reached(c)
  /\ \/ Item(c).action = "Preflight"
        /\ Item(c).phase \notin {"AwaitingPreflight", "AwaitingApproval"}
     \/ Item(c).action = "Join" /\ Item(c).phase # "AwaitingApproval"
  /\ Fail(c, "Failed", "refetch")

(* After an error that is no conflict the resource is read again and       *)
(* failed, whatever its phase is by then.                                  *)
Refetch(c) ==
  /\ ctl[c].at = "refetch"
  /\ \/ Go(c, "fail", task) /\ UNCHANGED faults
     \/ Fault /\ Return(c)
  /\ UNCHANGED <<resource, credential, op, queue, inst, history>>

FailFresh(c) == ctl[c].at = "fail" /\ Fail(c, "Failed", "watch")

(* clean_secret deletes the Secret by uid, and only the one the resource   *)
(* names if it names one.                                                  *)
Cleaned(t) == IF t.ref \in {0, secret} THEN 0 ELSE secret

CleanSecret(c) ==
  /\ ctl[c].at \in {"clean", "clean or refetch"}
  /\ \/ secret' = Cleaned(Item(c)) /\ Return(c) /\ UNCHANGED faults
     \/ /\ Fault /\ secret' \in {secret, Cleaned(Item(c))}
        /\ IF ctl[c].at = "clean" THEN Return(c) ELSE Go(c, "refetch", Item(c))
  /\ UNCHANGED <<resource, life, made, op, queue, inst, history>>

(* join after its durable write: the credential goes first, then the       *)
(* thread starts.                                                          *)
Spawn(c) ==
  /\ ctl[c].at = "spawn"
  /\ \/ /\ secret' = Cleaned(Item(c)) /\ Return(c)
        /\ inst' = [inst EXCEPT ![c] = "begun"] /\ UNCHANGED faults
     \/ /\ Fault /\ secret' \in {secret, Cleaned(Item(c))}
        /\ \E at \in {"refetch", "watch"} : Go(c, at, Item(c))
        /\ UNCHANGED inst
  /\ UNCHANGED <<resource, life, made, op, queue, history>>

-----------------------------------------------------------------------------
(* The installer thread.  Its update reads the resource and writes it at   *)
(* once; a phase it does not expect, or a failed request, is an exception. *)

Mine == task.phase \in {"Installing", "Verifying"}
Report(phase) == Publish([task EXCEPT !.phase = phase, !.observed = TRUE, !.v = @ + 1])

(* The host is probed again, the stage is saved, then INSTALL is sent.     *)
BeginInstall(c) ==
  /\ inst[c] = "begun" /\ Mine
  /\ Report("Installing")
  /\ inst' = [inst EXCEPT ![c] = "send"]
  /\ UNCHANGED <<left, credential, op, ctl, history, faults>>

SendInstall(c) ==
  /\ inst[c] = "send"
  /\ inst' = [inst EXCEPT ![c] = "sent"] /\ installs' = installs + 1
  /\ UNCHANGED <<resource, credential, op, ctl, queue, overlap, faults>>

Installed(c) ==
  /\ inst[c] = "sent" /\ Mine
  /\ Report("Verifying")
  /\ inst' = [inst EXCEPT ![c] = "verify"]
  /\ UNCHANGED <<left, credential, op, ctl, history, faults>>

\* Mutant: the state of the job is written as the phase.
NodeReadyAsJob(c) ==
  /\ inst[c] = "verify" /\ Mine
  /\ Report("ready")
  /\ inst' = [inst EXCEPT ![c] = "none"]
  /\ UNCHANGED <<left, credential, op, ctl, history, faults>>
NodeReady(c) ==
  /\ inst[c] = "verify" /\ Mine
  /\ Report("Ready")
  /\ \/ inst' = [inst EXCEPT ![c] = "none"] /\ UNCHANGED faults
     \/ Fault /\ inst' = [inst EXCEPT ![c] = "broken"]
  /\ UNCHANGED <<left, credential, op, ctl, history>>

(* Any step fails: the failure is reported through update.                 *)
InstallFails(c) ==
  /\ inst[c] \in {"begun", "send", "sent", "verify"}
  /\ \/ /\ Mine /\ Report("NeedsReview")
        /\ inst' = [inst EXCEPT ![c] = "none"] /\ UNCHANGED faults
     \/ ~Mine /\ inst' = [inst EXCEPT ![c] = "broken"] /\ UNCHANGED <<task, queue, faults>>
     \/ Fault /\ inst' = [inst EXCEPT ![c] = "broken"] /\ UNCHANGED <<task, queue>>
  /\ UNCHANGED <<left, credential, op, ctl, history>>

(* update itself failed: NeedsReview is written over whatever is there.    *)
InstallBroken(c) ==
  /\ inst[c] = "broken"
  /\ inst' = [inst EXCEPT ![c] = "none"]
  /\ \/ Report("NeedsReview") /\ secret' = Cleaned(task) /\ UNCHANGED faults
     \/ Fault /\ UNCHANGED <<task, queue, secret>>
  /\ UNCHANGED <<left, life, made, op, ctl, history>>

-----------------------------------------------------------------------------
Less(n) == IF n = 0 THEN 0 ELSE n - 1

Elapse ==
  /\ left' = [scan |-> Less(left.scan), plan |-> Less(left.plan)]
  /\ life' = [u \in Uids |-> Less(life[u])]
  /\ UNCHANGED <<task, secret, made, op, process, history, faults>>

Console(o) ==
  \/ ReadScan(o) \/ CreateSecret(o) \/ SecretNotCreated(o) \/ PatchPreflight(o)
  \/ PatchRefused(o) \/ UndoSecret(o) \/ ReadPlan(o) \/ PatchJoin(o)

Reconcile(c) ==
  \/ AlreadyTerminal(c) \/ Reject(c) \/ Busy(c) \/ Interrupted(c)
  \/ PreflightInterrupted(c) \/ Scan(c) \/ Scanned(c) \/ Preflight(c)
  \/ PreflightRefused(c) \/ (\E ok \in BOOLEAN : Probed(c, ok)) \/ HostFails(c)
  \/ Join(c) \/ JoinRefused(c) \/ PlanExpired(c) \/ ScanExpired(c)
  \/ StillWaiting(c) \/ InvalidTransition(c) \/ Refetch(c) \/ FailFresh(c)
  \/ CleanSecret(c) \/ Spawn(c)

Loop(c) == List(c) \/ Event(c) \/ WatchFails(c) \/ CleanupList(c) \/ CleanupDelete(c)

Installer(c) ==
  \/ BeginInstall(c) \/ SendInstall(c) \/ Installed(c) \/ NodeReady(c)
  \/ InstallFails(c) \/ InstallBroken(c)

Next ==
  \/ SubmitScan \/ Elapse
  \/ \E o \in Operator : Console(o)
  \/ \E c \in Controller : Start(c) \/ Crash(c) \/ Loop(c) \/ Reconcile(c) \/ Installer(c)

Spec == Init /\ [][Next]_vars

-----------------------------------------------------------------------------
(* Properties.                                                             *)

ConsoleAt == {"idle", "secret", "patch", "undo", "join"}
ControllerAt == {"down", "boot", "sweep", "list", "watch", "handle", "scan",
                 "preflight", "spawn", "clean", "clean or refetch", "refetch", "fail",
                 "retire", "retire node", "retire inventory", "retire again",
                 "retire delete", "retire write", "retire error"}
InstallerAt == {"none", "begun", "send", "sent", "verify", "broken"}

(* Every variable has its type.                                            *)
TypeOK ==
  /\ task \in Task
  /\ left \in [scan : 0..ScanTTL, plan : 0..PlanTTL]
  /\ made \in 0..MaxSecrets /\ secret \in 0..made
  /\ life \in [Uids -> 0..SecretTTL]
  /\ op \in [Operator -> [at : ConsoleAt, item : Task, uid : 0..MaxSecrets]]
  /\ ctl \in [Controller -> [at : ControllerAt, item : Task,
                             first : BOOLEAN, startup : BOOLEAN]]
  /\ queue \in [Controller -> Seq(Task)]
  /\ inst \in [Controller -> InstallerAt]
  /\ installs \in Nat /\ overlap \in BOOLEAN /\ faults \in 0..MaxFaults

(* The machine is installed at most once per enrollment: neither a crash,  *)
(* a lost answer, an old watch event nor a second controller repeats it.   *)
InstalledOnce == installs <= 1

(* Failed and Expired tell the operator that the machine was left alone:   *)
(* no INSTALL was sent and no thread is about to send one.                 *)
FailedMeansUntouched ==
  ~overlap /\ task.phase \in {"Failed", "Expired"}
    => installs = 0 /\ \A c \in Controller : inst[c] \in {"none", "broken"}

(* As long as a plan may be approved, the credential to carry it out with  *)
(* exists: no cleaner and no other request takes it away.                  *)
PlanKeepsCredential ==
  ~overlap /\ task.phase = "AwaitingApproval" /\ left.plan > 0
    => secret = task.ref /\ life[secret] > 0

(* A finished enrollment keeps its verdict, whatever versions the console  *)
(* and the controller still hold.  A lost answer may only turn Expired     *)
(* into Failed and Ready into NeedsReview.                                 *)
VerdictStays ==
  [][~overlap /\ task.phase \in Terminal
       => <<task.phase, task'.phase>> \in {<<p, p>> : p \in Terminal}
            \cup {<<"Ready", "NeedsReview">>, <<"Expired", "Failed">>}]_vars

(* A password does not stay in the cluster, whoever submitted it and       *)
(* whatever failed after that.                                             *)
CredentialsGo == secret # 0 ~> secret = 0
=============================================================================
