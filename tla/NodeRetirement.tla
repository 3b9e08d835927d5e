--------------------------- MODULE NodeRetirement ---------------------------
(***************************************************************************)
(* Permanent retirement of an offline node, beside enrollment: the console *)
(* checks the node and submits a NodeRetirement resource                   *)
(* (internal/console/retirement.go), the controller's main thread checks   *)
(* again and deletes the Node object (scripts/node_enrollment_controller   *)
(* .py, retire).  The node lives on meanwhile: it may come back, take      *)
(* work, change its address or be registered anew.                         *)
(***************************************************************************)
EXTENDS NodeEnrollment

CONSTANTS
  MaxTasks,         \* bound: enrollments and retirements asked for
  MaxNodeChanges    \* bound: changes of the node

ASSUME RetirementConstants == MaxTasks \in Nat /\ MaxNodeChanges \in Nat

VARIABLES
  node,     \* the Node object of one name
  ret,      \* the NodeRetirement resource
  rop,      \* rop[o]: the retirement request of operator o
  rctl,     \* rctl[c]: the copies retire works on in controller c
  rqueue,   \* rqueue[c]: versions of ret its watch has still to deliver
  late,     \* DELETEs that were sent, not answered, and may still arrive
  killed    \* history: the nodes the controller's DELETEs removed

retired == <<node, ret, rop, rctl, rqueue, late, killed>>
nodeVars == <<vars, retired>>

Changes == 0..(MaxNodeChanges + 1)

(* uid 0 is no node; rv counts the changes of the object.                  *)
Node == [uid : Changes, rv : Changes, ready : BOOLEAN, ip : Changes, load : BOOLEAN]
NoNode == [uid |-> 0, rv |-> 0, ready |-> FALSE, ip |-> 0, load |-> FALSE]

RetireTerminal == {"Deleted", "Blocked", "NeedsReview"}
Retirement == [phase : RetireTerminal \cup {"absent", "", "Checking"},
               uid : Changes, ip : Changes, v : Nat]
NoRetirement == [phase |-> "absent", uid |-> 0, ip |-> 0, v |-> 0]

IdleRop == [at |-> "idle", seen |-> NoNode]
EndedRop == [IdleRop EXCEPT !.at = "ended"]
NoCopy == [item |-> NoRetirement, rv |-> 0, sent |-> FALSE, review |-> FALSE,
           listed |-> FALSE]

RetirementInit ==
  /\ node = [uid |-> 1, rv |-> 1, ready |-> FALSE, ip |-> 1, load |-> FALSE]
  /\ ret = NoRetirement
  /\ rop = [o \in Operator |-> IdleRop]
  /\ rctl = [c \in Controller |-> NoCopy]
  /\ rqueue = [c \in Controller |-> <<>>]
  /\ late = {} /\ killed = {}

Requested == Cardinality({o \in Operator : rop[o] # IdleRop})
Submitting == Requested + (IF task = NoTask THEN 0 ELSE 1) < MaxTasks

PublishRetirement(r) ==
  /\ ret' = r
  /\ rqueue' = [c \in Controller |->
                  IF Watching(c) THEN Append(rqueue[c], r) ELSE rqueue[c]]

-----------------------------------------------------------------------------
(* The node and the scheduler (external).                                  *)

NodeChange(n) ==
  /\ Requested > 0
  /\ node.rv <= MaxNodeChanges
  /\ node' = [n EXCEPT !.rv = node.rv + 1]
  /\ UNCHANGED <<vars, ret, rop, rctl, rqueue, late, killed>>

NodeFlips == node.uid # 0 /\ NodeChange([node EXCEPT !.ready = ~@])
NodeMoves == node.uid # 0 /\ NodeChange([node EXCEPT !.ip = @ + 1])
NodeRegistersAnew == NodeChange([node EXCEPT !.uid = node.rv + 1, !.load = FALSE])

(* Work comes only to a ready node, and leaves it at any time; the Node    *)
(* object does not change with it.                                         *)
Work ==
  /\ Requested > 0
  /\ node.uid # 0 /\ (node.ready \/ node.load)
  /\ node' = [node EXCEPT !.load = ~@]
  /\ UNCHANGED <<vars, ret, rop, rctl, rqueue, late, killed>>

-----------------------------------------------------------------------------
(* The console.  CheckNodeRetirement reads the node, then the Pods and     *)
(* GameServers on it and the fleet snapshot.                               *)

Offline(n) == n.uid # 0 /\ ~n.ready

(* The operator looks at the node: GET node-retirement.                    *)
Look(o) ==
  /\ rop[o].at = "idle" /\ Offline(node) /\ Submitting
  /\ rop' = [rop EXCEPT ![o] = [at |-> "confirm", seen |-> node]]
  /\ UNCHANGED <<vars, node, ret, rctl, rqueue, late, killed>>

(* POST node-retirement with what was seen: a fresh check must find the    *)
(* same uid, resourceVersion and address.                                  *)
Confirm(o) ==
  /\ rop[o].at = "confirm"
  /\ rop' = [rop EXCEPT ![o] =
               IF /\ Offline(node) /\ node.uid = @.seen.uid
                  /\ node.rv = @.seen.rv /\ node.ip = @.seen.ip
               THEN [@ EXCEPT !.at = "inventory"] ELSE EndedRop]
  /\ UNCHANGED <<vars, node, ret, rctl, rqueue, late, killed>>

Inventory(o) ==
  /\ rop[o].at = "inventory"
  /\ rop' = [rop EXCEPT ![o] = IF node.load THEN EndedRop ELSE [@ EXCEPT !.at = "post"]]
  /\ UNCHANGED <<vars, node, ret, rctl, rqueue, late, killed>>

SubmitRetirement(o) ==
  /\ rop[o].at = "post" /\ ret = NoRetirement
  /\ PublishRetirement([phase |-> "", uid |-> rop[o].seen.uid,
                        ip |-> rop[o].seen.ip, v |-> 1])
  /\ rop' = [rop EXCEPT ![o] = EndedRop]
  /\ UNCHANGED <<vars, node, rctl, late, killed>>

-----------------------------------------------------------------------------
(* retire, run by the main thread between two events.                      *)

Keep == UNCHANGED <<resource, credential, op, queue, inst, history>>
At(c, at) == ctl' = [ctl EXCEPT ![c].at = at]
Copy(c) == rctl[c].item

(* The second half of a cycle: when the watch of the enrollments ends, the *)
(* retirements are listed, with startup set in the first cycle, and their  *)
(* events are followed.                                                    *)
TakeRetirement(c) ==
  /\ ctl[c].at = "watch"
  /\ \/ /\ ret # NoRetirement /\ ~rctl[c].listed
        /\ ctl' = [ctl EXCEPT ![c].at = "retire", ![c].startup = ctl[c].first]
        /\ rctl' = [rctl EXCEPT ![c] = [NoCopy EXCEPT !.item = ret, !.listed = TRUE]]
        /\ rqueue' = [rqueue EXCEPT ![c] = <<>>] /\ queue' = [queue EXCEPT ![c] = <<>>]
     \/ /\ rqueue[c] # <<>> /\ rctl[c].listed
        /\ At(c, "retire")
        /\ rctl' = [rctl EXCEPT ![c] = [NoCopy EXCEPT !.item = Head(rqueue[c]), !.listed = TRUE]]
        /\ rqueue' = [rqueue EXCEPT ![c] = Tail(@)] /\ UNCHANGED queue
  /\ UNCHANGED <<resource, credential, op, inst, history, faults, node, ret, rop, late, killed>>

Leave(c) ==
  /\ ctl' = [ctl EXCEPT ![c].at = "watch", ![c].startup = FALSE]
  /\ rctl' = [rctl EXCEPT ![c] = [NoCopy EXCEPT !.listed = TRUE]]

Refuse(c, review) ==
  At(c, "retire error") /\ rctl' = [rctl EXCEPT ![c].review = review]

(* A status write of retire.  A conflict ends it, unless a DELETE was sent *)
(* before; a request without an answer asks for a review, a refused one    *)
(* does not.                                                               *)
WriteRetirement(c, phase, next) ==
  LET r == Copy(c)
      new == [r EXCEPT !.phase = phase, !.v = @ + 1]
  IN \/ /\ r.v = ret.v /\ PublishRetirement(new) /\ UNCHANGED faults
        /\ IF next = "watch" THEN Leave(c)
           ELSE At(c, next) /\ rctl' = [rctl EXCEPT ![c].item = new]
     \/ /\ r.v # ret.v /\ UNCHANGED <<ret, rqueue, faults>>
        /\ IF rctl[c].sent THEN Refuse(c, TRUE) ELSE Leave(c)
     \/ /\ Fault /\ \E review \in BOOLEAN : Refuse(c, review)
        /\ \/ UNCHANGED <<ret, rqueue>>
           \/ r.v = ret.v /\ PublishRetirement(new)

RetireDone(c) ==
  /\ ctl[c].at = "retire" /\ Copy(c).phase \in RetireTerminal
  /\ Leave(c) /\ Keep /\ UNCHANGED <<faults, node, ret, rop, rqueue, late, killed>>

(* The first cycle of a process finds a retirement that was being checked. *)
RetireInterrupted(c) ==
  /\ ctl[c].at = "retire" /\ ctl[c].startup /\ Copy(c).phase = "Checking"
  /\ WriteRetirement(c, "NeedsReview", "watch")
  /\ Keep /\ UNCHANGED <<node, rop, late, killed>>

BeginRetire(c) ==
  /\ ctl[c].at = "retire" /\ Copy(c).phase \notin RetireTerminal
  /\ ~(ctl[c].startup /\ Copy(c).phase = "Checking")
  /\ WriteRetirement(c, "Checking", "retire node")
  /\ Keep /\ UNCHANGED <<node, rop, late, killed>>

(* retirement_node: the confirmed node, offline, at its address.           *)
Retirable(r) == Offline(node) /\ node.uid = r.uid /\ node.ip = r.ip

RetireNode(c) ==
  /\ ctl[c].at = "retire node"
  /\ IF Retirable(Copy(c)) THEN At(c, "retire inventory") /\ UNCHANGED rctl
     ELSE Refuse(c, node.uid = 0)
  /\ Keep /\ UNCHANGED <<faults, node, ret, rop, rqueue, late, killed>>

(* A read fails, or the request is not authorised by the configuration.    *)
RetireFails(c) ==
  /\ \/ ctl[c].at \in {"retire node", "retire inventory", "retire again"} /\ Fault
        /\ \E review \in BOOLEAN : Refuse(c, review)
     \/ ctl[c].at = "retire" /\ Copy(c).phase = "" /\ Refuse(c, FALSE) /\ UNCHANGED faults
  /\ Keep /\ UNCHANGED <<node, ret, rop, rqueue, late, killed>>

RetireInventory(c) ==
  /\ ctl[c].at = "retire inventory"
  /\ \/ /\ node.load /\ WriteRetirement(c, "Blocked", "watch")
     \/ /\ ~node.load /\ At(c, "retire again")
        /\ UNCHANGED <<faults, ret, rctl, rqueue>>
  /\ Keep /\ UNCHANGED <<node, rop, late, killed>>

RetireAgain(c) ==
  /\ ctl[c].at = "retire again"
  /\ IF Retirable(Copy(c))
     THEN At(c, "retire delete") /\ rctl' = [rctl EXCEPT ![c].rv = node.rv]
     ELSE Refuse(c, node.uid = 0)
  /\ Keep /\ UNCHANGED <<faults, node, ret, rop, rqueue, late, killed>>

(* DELETE with the preconditions uid and resourceVersion.                  *)
\* Mutant: the precondition names the node's uid only.
MatchesUid(uid, rv) == node.uid # 0 /\ node.uid = uid /\ rv > 0
Matches(uid, rv) == node.uid # 0 /\ node.uid = uid /\ node.rv = rv
Kill == node' = [NoNode EXCEPT !.rv = node.rv] /\ killed' = killed \cup {node}

RetireDelete(c) ==
  /\ ctl[c].at = "retire delete"
  /\ \/ /\ IF Matches(Copy(c).uid, rctl[c].rv) THEN Kill ELSE UNCHANGED <<node, killed>>
        /\ IF Matches(Copy(c).uid, rctl[c].rv) \/ node.uid = 0
           THEN At(c, "retire write") /\ rctl' = [rctl EXCEPT ![c].sent = TRUE]
           ELSE At(c, "retire error")
                /\ rctl' = [rctl EXCEPT ![c].sent = TRUE, ![c].review = TRUE]
        /\ UNCHANGED <<faults, late>>
     \/ /\ Fault /\ late' = late \cup {<<Copy(c).uid, rctl[c].rv>>}
        /\ At(c, "retire error")
        /\ rctl' = [rctl EXCEPT ![c].sent = TRUE, ![c].review = TRUE]
        /\ UNCHANGED <<node, killed>>
  /\ Keep /\ UNCHANGED <<ret, rop, rqueue>>

(* An unanswered DELETE reaches the API, or never does (external).         *)
LateDelete ==
  /\ \E d \in late :
       /\ late' = late \ {d}
       /\ IF Matches(d[1], d[2]) THEN Kill ELSE UNCHANGED <<node, killed>>
  /\ UNCHANGED <<vars, ret, rop, rctl, rqueue>>

RetireWrite(c) ==
  /\ ctl[c].at = "retire write"
  /\ WriteRetirement(c, "Deleted", "watch")
  /\ Keep /\ UNCHANGED <<node, rop, late, killed>>

\* Mutant: a DELETE that was sent is taken for done.
VerdictOnceSent(c) == IF rctl[c].sent THEN "Deleted" ELSE "Blocked"
Verdict(c) == IF rctl[c].sent \/ rctl[c].review THEN "NeedsReview" ELSE "Blocked"

(* The error is recorded over a fresh copy, unless that is already final;  *)
(* a second failure leaves the resource in Checking.                       *)
RetireError(c) ==
  /\ ctl[c].at = "retire error" /\ Leave(c)
  /\ \/ /\ ret.phase \in RetireTerminal /\ UNCHANGED <<ret, rqueue, faults>>
     \/ /\ ret.phase \notin RetireTerminal /\ UNCHANGED faults
        /\ PublishRetirement([ret EXCEPT !.v = @ + 1, !.phase = Verdict(c)])
     \/ Fault /\ UNCHANGED <<ret, rqueue>>
  /\ Keep /\ UNCHANGED <<node, rop, late, killed>>

-----------------------------------------------------------------------------
Retire(c) ==
  \/ TakeRetirement(c) \/ RetireDone(c) \/ RetireInterrupted(c) \/ BeginRetire(c)
  \/ RetireNode(c) \/ RetireFails(c) \/ RetireInventory(c) \/ RetireAgain(c) \/ RetireDelete(c)
  \/ RetireWrite(c) \/ RetireError(c)

Operate(o) == Look(o) \/ Confirm(o) \/ Inventory(o) \/ SubmitRetirement(o)

(* What the two kinds of resource share: the process and its main thread.  *)
ProcessDies(c) ==
  /\ Crash(c)
  /\ rctl' = [rctl EXCEPT ![c] = NoCopy] /\ rqueue' = [rqueue EXCEPT ![c] = <<>>]
  /\ UNCHANGED <<node, ret, rop, late, killed>>
NewCycle(c) ==
  /\ \/ WatchFails(c)
     \/ CleanupList(c) /\ (ctl[c].at = "boot" \/ rctl[c].listed \/ ret = NoRetirement)
  /\ rctl' = [rctl EXCEPT ![c] = NoCopy] /\ rqueue' = [rqueue EXCEPT ![c] = <<>>]
  /\ UNCHANGED <<node, ret, rop, late, killed>>
EnrollmentLoop(c) ==
  /\ List(c) \/ (Event(c) /\ ~rctl[c].listed) \/ CleanupDelete(c)
  /\ UNCHANGED retired
NodeStart(c) == Start(c) /\ UNCHANGED retired
NodeReconcile(c) == Reconcile(c) /\ UNCHANGED retired
NodeInstaller(c) == Installer(c) /\ UNCHANGED retired
Enroll ==
  /\ (SubmitScan /\ Submitting) \/ \E o \in Operator : Console(o)
  /\ UNCHANGED retired
NodeElapse == Elapse /\ UNCHANGED retired

NodeInit == Init /\ RetirementInit
NodeNext ==
  \/ Enroll \/ NodeElapse
  \/ \E c \in Controller :
       \/ NodeStart(c) \/ ProcessDies(c) \/ EnrollmentLoop(c) \/ NewCycle(c)
       \/ NodeReconcile(c) \/ NodeInstaller(c) \/ Retire(c)
  \/ \E o \in Operator : Operate(o)
  \/ NodeFlips \/ NodeMoves \/ NodeRegistersAnew \/ Work \/ LateDelete

NodeSpec == NodeInit /\ [][NodeNext]_nodeVars

(* Time passes, a controller is started again, and a running one goes on.  *)
NodeFairSpec ==
  /\ NodeSpec /\ WF_nodeVars(NodeElapse)
  /\ \A c \in Controller :
       /\ WF_nodeVars(NodeStart(c)) /\ WF_nodeVars(EnrollmentLoop(c) \/ NewCycle(c))
       /\ WF_nodeVars(NodeReconcile(c)) /\ WF_nodeVars(NodeInstaller(c))
       /\ WF_nodeVars(Retire(c))

-----------------------------------------------------------------------------
(* What the console shows of a retirement.                                 *)
RetirementShown(r) == IF r.phase = "" THEN "Pending" ELSE r.phase

(* A node the controller removed is the one the operator confirmed; it was *)
(* offline and at the confirmed address when it went, even if the DELETE   *)
(* arrived long after it was sent.                                         *)
OnlyConfirmedNodeRemoved ==
  \A n \in killed : n.uid = ret.uid /\ ~n.ready /\ n.ip = ret.ip

(* A retirement shown as deleted left no node of that identity.            *)
DeletedMeansGone == RetirementShown(ret) = "Deleted" => node.uid # ret.uid

(* Every enrollment and every retirement gets a verdict, whatever was lost *)
(* on the way and however often the controller died.                       *)
TasksEnd ==
  /\ task.phase = "" ~> task.phase \in Terminal
  /\ ret.phase = "" ~> ret.phase \in RetireTerminal
=============================================================================
