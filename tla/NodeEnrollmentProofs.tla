------------------------ MODULE NodeEnrollmentProofs ------------------------
(***************************************************************************)
(* For every number of operators and controllers, however their lifetimes  *)
(* overlap, and whatever requests and answers are lost: an enrollment      *)
(* installs its machine at most once.                                      *)
(*                                                                         *)
(* The argument is the compare-and-swap.  A copy with the current version  *)
(* is the current resource, so a write never takes the resource back from  *)
(* Installing, and only the write to Installing makes a process entitled   *)
(* to send INSTALL.                                                        *)
(*                                                                         *)
(* While no two controllers were alive at once, moreover, a verdict is     *)
(* true of the machine, is not taken back, and a plan keeps the credential *)
(* it needs.  There the argument is what the one controller may still hold *)
(* in hand and in its watch: see OneInv.                                   *)
(***************************************************************************)
EXTENDS NodeRetirement, TLAPS

\* A copy that is up to date is right.
CopyOf(t) == t.v <= task.v /\ (t.v = task.v => t = task)

\* After an error the copy is not used again before it is read anew.
Copies ==
  /\ CopyOf(NoTask)
  /\ \A o \in Operator : CopyOf(op[o].item)
  /\ \A c \in Controller : ctl[c].at # "refetch" => CopyOf(ctl[c].item)
  /\ \A c \in Controller : \A i \in 1..Len(queue[c]) : CopyOf(queue[c][i])

\* What the controller knows of its copy between two requests.
PlaceOK(k, thread) ==
  /\ k.at = "scan" => k.item.phase = "Scanning"
  /\ k.at = "preflight" => k.item.phase = "Preflighting" /\ k.item.ref # 0
  /\ k.at = "spawn" => thread = "none"
Places == \A c \in Controller : PlaceOK(ctl[c], inst[c])

Early == {"absent", "", "Scanning", "AwaitingPreflight", "Preflighting", "AwaitingApproval"}
Late(t) == t.phase \notin Early

\* Controller c will send INSTALL, or start the thread that does.
Entitled(c) == ctl[c].at = "spawn" \/ inst[c] \in {"begun", "send"}

Once ==
  /\ installs <= 1
  /\ ~Late(task) => installs = 0
  /\ \A c \in Controller : Entitled(c) => Late(task) /\ installs = 0
  /\ \A c, d \in Controller : Entitled(c) /\ Entitled(d) => c = d

Inv == TypeOK /\ Copies /\ Places /\ Once

-----------------------------------------------------------------------------
(* What every step does, except the two that are about INSTALL.            *)

\* The resource is left alone, or written over its current version.
Moves == task' = task \/ (task'.v = task.v + 1 /\ (Late(task) => Late(task')))

\* A copy is kept, given up, or taken from the resource or from the watch.
OpFrom(o) == op'[o].item \in {op[o].item, task, NoTask}
CtlFrom(c) ==
  \/ ctl'[c].at = "refetch"
  \/ ctl'[c].item \in {task, task', NoTask}
  \/ ctl'[c].item = ctl[c].item /\ ctl[c].at # "refetch"
  \/ queue[c] # <<>> /\ ctl'[c].item = Head(queue[c])
QueueFrom(c) ==
  \/ queue'[c] \in {queue[c], <<>>, Append(queue[c], task')}
  \/ queue[c] # <<>> /\ queue'[c] = Tail(queue[c])
CopiesFrom ==
  /\ \A o \in Operator : OpFrom(o)
  /\ \A c \in Controller : CtlFrom(c) /\ QueueFrom(c)

\* Nobody becomes entitled to install, and nothing is installed.
NoNewRight == installs' = installs /\ \A c \in Controller : Entitled(c)' => Entitled(c)

Tidy == TypeOK' /\ Moves /\ CopiesFrom /\ Places'
Good == Tidy /\ NoNewRight

LEMMA NoTaskType == NoTask \in Task
BY EnrollmentConstants DEF NoTask, Task, Phases, Terminal

(* Copies survive such a step: a version that is overwritten is older.     *)
LEMMA CopiesKept ==
  ASSUME Inv, TypeOK', Moves, CopiesFrom
  PROVE Copies'
<1> DEFINE Then(t) == t.v <= task'.v /\ (t.v = task'.v => t = task')
<1>1. ASSUME NEW t \in Task, CopyOf(t) PROVE Then(t)
  BY <1>1 DEF Inv, TypeOK, Moves, CopyOf, Task
<1>2. Then(task')
  BY DEF TypeOK, Task
<1>3. Then(task)
  <2>1. task \in Task /\ CopyOf(task)
    BY DEF Inv, TypeOK, CopyOf, Task
  <2> QED BY <1>1, <2>1
<1>4. Then(NoTask)
  BY <1>1, NoTaskType DEF Inv, Copies
<1>5. ASSUME NEW o \in Operator PROVE Then(op'[o].item)
  <2>1. op[o].item \in Task /\ CopyOf(op[o].item)
    BY DEF Inv, TypeOK, Copies
  <2>2. Then(op[o].item)
    BY <1>1, <2>1
  <2> QED BY <1>3, <1>4, <2>2 DEF CopiesFrom, OpFrom
<1>6. ASSUME NEW c \in Controller, NEW i \in 1..Len(queue[c])
      PROVE Then(queue[c][i])
  <2>1. queue[c] \in Seq(Task) /\ CopyOf(queue[c][i])
    BY DEF Inv, TypeOK, Copies
  <2>2. queue[c][i] \in Task
    BY <2>1
  <2> QED BY <1>1, <2>1, <2>2
<1>7. ASSUME NEW c \in Controller, ctl'[c].at # "refetch"
      PROVE Then(ctl'[c].item)
  <2>1. ctl[c].item \in Task /\ queue[c] \in Seq(Task)
    BY DEF Inv, TypeOK
  <2>2. CASE ctl'[c].item \in {task, task', NoTask}
    BY <1>2, <1>3, <1>4, <2>2
  <2>3. CASE ctl'[c].item = ctl[c].item /\ ctl[c].at # "refetch"
    <3>1. CopyOf(ctl[c].item)
      BY <2>3 DEF Inv, Copies
    <3>2. Then(ctl[c].item)
      BY <1>1, <2>1, <3>1
    <3> QED BY <2>3, <3>2
  <2>4. CASE queue[c] # <<>> /\ ctl'[c].item = Head(queue[c])
    <3>1. 1 \in 1..Len(queue[c]) /\ Head(queue[c]) = queue[c][1]
      BY <2>1, <2>4
    <3>2. Then(queue[c][1])
      BY <1>6, <3>1
    <3> QED BY <2>4, <3>1, <3>2
  <2> QED BY <1>7, <2>2, <2>3, <2>4 DEF CopiesFrom, CtlFrom
<1>8. ASSUME NEW c \in Controller, NEW i \in 1..Len(queue'[c])
      PROVE Then(queue'[c][i])
  <2>1. queue[c] \in Seq(Task) /\ task' \in Task
    BY DEF Inv, TypeOK
  <2>2. CASE queue'[c] = queue[c]
    BY <1>6, <2>2
  <2>3. CASE queue'[c] = <<>>
    BY <2>3
  <2>4. CASE queue'[c] = Append(queue[c], task')
    <3>1. queue'[c][i] = task' \/ (i \in 1..Len(queue[c]) /\ queue'[c][i] = queue[c][i])
      BY <2>1, <2>4
    <3> QED BY <1>2, <1>6, <3>1
  <2>5. CASE queue[c] # <<>> /\ queue'[c] = Tail(queue[c])
    <3>1. i + 1 \in 1..Len(queue[c]) /\ queue'[c][i] = queue[c][i + 1]
      BY <2>1, <2>5
    <3>2. Then(queue[c][i + 1])
      BY <1>6, <3>1
    <3> QED BY <3>1, <3>2
  <2> QED BY <2>2, <2>3, <2>4, <2>5 DEF CopiesFrom, QueueFrom
<1> QED BY <1>4, <1>5, <1>7, <1>8 DEF Copies, CopyOf

(* Such a step keeps the invariant.                                        *)
LEMMA GoodKeeps ==
  ASSUME Inv, Good PROVE Inv'
<1>1. Copies'
  BY CopiesKept DEF Good, Tidy
<1>2. Late(task) => Late(task')
  BY DEF Good, Tidy, Moves
<1>3. Once'
  BY <1>2 DEF Inv, Good, NoNewRight, Once, Late
<1> QED BY <1>1, <1>3 DEF Inv, Good, Tidy

-----------------------------------------------------------------------------
(* The pieces steps are made of.                                           *)

CtlType == [at : ControllerAt, item : Task, first : BOOLEAN, startup : BOOLEAN]
\* The part of TypeOK that writes of the resource do not touch.
RestType ==
  /\ left \in [scan : 0..ScanTTL, plan : 0..PlanTTL]
  /\ made \in 0..MaxSecrets /\ secret \in 0..made
  /\ life \in [Uids -> 0..SecretTTL]
  /\ overlap \in BOOLEAN

LEMMA PublishEffect ==
  ASSUME TypeOK, NEW t \in Task, Publish(t)
  PROVE /\ task' = t
        /\ queue' \in [Controller -> Seq(Task)]
        /\ \A d \in Controller : QueueFrom(d)
BY DEF TypeOK, Publish, QueueFrom

LEMMA SameQueue ==
  ASSUME queue' = queue PROVE \A d \in Controller : QueueFrom(d)
BY DEF QueueFrom

LEMMA FaultType ==
  ASSUME TypeOK, Fault \/ faults' = faults PROVE faults' \in 0..MaxFaults
BY EnrollmentConstants DEF TypeOK, Fault

(* A step of one controller, from what it does to that controller.         *)
LEMMA ControllerTidy ==
  ASSUME Inv, NEW c \in Controller, NEW k \in CtlType,
         ctl' = [ctl EXCEPT ![c] = k], CtlFrom(c), PlaceOK(k, inst'[c]),
         \A d \in Controller \ {c} : inst'[d] = inst[d],
         inst' \in [Controller -> InstallerAt],
         task' \in Task, Moves, op' = op,
         queue' \in [Controller -> Seq(Task)], \A d \in Controller : QueueFrom(d),
         installs' = installs, faults' \in 0..MaxFaults, RestType'
  PROVE Tidy
<1>1. ctl \in [Controller -> CtlType]
  BY DEF Inv, TypeOK, CtlType
<1>2. ctl'[c] = k /\ \A d \in Controller \ {c} : ctl'[d] = ctl[d]
  BY <1>1
<1>3. TypeOK'
  BY <1>1 DEF Inv, TypeOK, RestType, CtlType
<1>4. CopiesFrom
  <2>1. \A o \in Operator : OpFrom(o)
    BY DEF OpFrom
  <2>2. ASSUME NEW d \in Controller \ {c} PROVE CtlFrom(d)
    BY <1>2 DEF CtlFrom
  <2> QED BY <2>1, <2>2 DEF CopiesFrom
<1>5. Places'
  <2>1. ASSUME NEW d \in Controller PROVE PlaceOK(ctl'[d], inst'[d])
    <3>1. CASE d = c
      BY <1>2, <3>1
    <3>2. CASE d # c
      BY <1>2, <3>2 DEF Inv, Places
    <3> QED BY <3>1, <3>2
  <2> QED BY <2>1 DEF Places, PlaceOK
<1> QED BY <1>3, <1>4, <1>5 DEF Tidy

LEMMA ControllerGood ==
  ASSUME Inv, NEW c \in Controller, NEW k \in CtlType,
         ctl' = [ctl EXCEPT ![c] = k], CtlFrom(c), PlaceOK(k, inst'[c]),
         k.at = "spawn" => Entitled(c),
         inst'[c] \in {"begun", "send"} => Entitled(c),
         \A d \in Controller \ {c} : inst'[d] = inst[d],
         inst' \in [Controller -> InstallerAt],
         task' \in Task, Moves, op' = op,
         queue' \in [Controller -> Seq(Task)], \A d \in Controller : QueueFrom(d),
         installs' = installs, faults' \in 0..MaxFaults, RestType'
  PROVE Good
<1>1. Tidy
  BY ControllerTidy
<1>2. ctl'[c] = k /\ \A d \in Controller \ {c} : ctl'[d] = ctl[d]
  BY DEF Inv, TypeOK
<1>3. NoNewRight
  BY <1>2 DEF NoNewRight, Entitled
<1> QED BY <1>1, <1>3 DEF Good

LEMMA GoEffect ==
  ASSUME Inv, NEW c \in Controller, NEW at \in ControllerAt, NEW item \in Task,
         Go(c, at, item)
  PROVE \E k \in CtlType :
          /\ ctl' = [ctl EXCEPT ![c] = k] /\ k.at = at
          /\ k.item = IF at = "watch" THEN NoTask ELSE item
<1>1. ctl \in [Controller -> CtlType]
  BY DEF Inv, TypeOK, CtlType
<1> DEFINE k == [ctl[c] EXCEPT !.at = at, !.item = IF at = "watch" THEN NoTask ELSE item,
                               !.startup = FALSE]
<1>2. k \in CtlType /\ k.at = at /\ k.item = IF at = "watch" THEN NoTask ELSE item
  BY <1>1, NoTaskType DEF CtlType
<1>3. ctl' = [ctl EXCEPT ![c] = k]
  BY <1>1 DEF Go, CtlType
<1> QED BY <1>2, <1>3

(* A step that only moves a controller.                                    *)
LEMMA GoGood ==
  ASSUME Inv, NEW c \in Controller, NEW at \in ControllerAt \ {"spawn"}, NEW item \in Task,
         Go(c, at, item), inst' = inst, task' = task, op' = op, queue' = queue,
         installs' = installs, faults' \in 0..MaxFaults, RestType',
         \/ at \in {"refetch", "watch"} \/ item = task
         \/ item = ctl[c].item /\ ctl[c].at # "refetch",
         at \notin {"scan", "preflight"}
  PROVE Good
<1>1. PICK k \in CtlType : /\ ctl' = [ctl EXCEPT ![c] = k] /\ k.at = at
                           /\ k.item = IF at = "watch" THEN NoTask ELSE item
  BY GoEffect
<1>2. ctl'[c] = k
  BY <1>1 DEF Inv, TypeOK
<1>3. CtlFrom(c)
  BY <1>1, <1>2 DEF CtlFrom
<1>4. PlaceOK(k, inst'[c])
  BY <1>1 DEF PlaceOK
<1>5. /\ inst' \in [Controller -> InstallerAt] /\ task' \in Task
      /\ queue' \in [Controller -> Seq(Task)]
  BY DEF Inv, TypeOK
<1>6. Moves
  BY DEF Moves
<1>7. inst'[c] \in {"begun", "send"} => Entitled(c)
  BY DEF Entitled
<1> QED BY <1>1, <1>3, <1>4, <1>5, <1>6, <1>7, SameQueue, ControllerGood

(* A write by a controller, with or without an answer.                     *)
LEMMA WriteTidy ==
  ASSUME Inv, NEW c \in Controller, NEW t \in Task,
         NEW next \in ControllerAt, NEW error \in {"refetch", "watch"},
         Write(c, t, next, error),
         ctl[c].at # "refetch", t.v = ctl[c].item.v,
         ctl[c].item = task /\ Late(task) => Late(t),
         next = "scan" => t.phase = "Scanning",
         next = "preflight" => t.phase = "Preflighting" /\ t.ref # 0,
         next = "spawn" => inst[c] = "none",
         UNCHANGED <<op, inst, installs>>, RestType'
  PROVE Tidy
<1> DEFINE new == [t EXCEPT !.observed = TRUE, !.v = @ + 1]
<1>1. new \in Task /\ new.v = t.v + 1 /\ new.phase = t.phase /\ new.ref = t.ref
  <2>1. t.v + 1 \in Nat
    BY DEF Task
  <2> QED BY <2>1 DEF Task
<1>2. Current(t) => ctl[c].item = task /\ new.v = task.v + 1
  BY <1>1 DEF Inv, Copies, CopyOf, Current
<1>3. /\ inst' \in [Controller -> InstallerAt] /\ task \in Task
      /\ queue \in [Controller -> Seq(Task)] /\ ctl \in [Controller -> CtlType]
      /\ installs' = installs /\ op' = op /\ inst' = inst
  BY DEF Inv, TypeOK, CtlType
<1>5. faults' \in 0..MaxFaults
  BY FaultType DEF Write, Inv
<1>6. CASE Current(t) /\ Publish(new) /\ \E at \in {next, error} :
             Go(c, at, new) \/ (at = error /\ Go(c, at, t))
  <2>1. PICK at \in {next, error} : Go(c, at, new) \/ (at = error /\ Go(c, at, t))
    BY <1>6
  <2>2. PICK item \in {new, t} : Go(c, at, item) /\ (item = new \/ at = error)
    BY <2>1
  <2>3. PICK k \in CtlType : /\ ctl' = [ctl EXCEPT ![c] = k] /\ k.at = at
                             /\ k.item = IF at = "watch" THEN NoTask ELSE item
    <3>1. at \in ControllerAt /\ item \in Task
      BY <1>1, <2>2 DEF ControllerAt
    <3> HIDE DEF new
    <3> QED BY <2>2, <3>1, GoEffect
  <2>4. task' = new /\ queue' \in [Controller -> Seq(Task)]
        /\ \A d \in Controller : QueueFrom(d)
    BY <1>1, <1>6, PublishEffect DEF Inv
  <2>5. ctl'[c] = k
    BY <1>3, <2>3
  <2>6. CtlFrom(c)
    BY <2>2, <2>3, <2>4, <2>5 DEF CtlFrom
  <2>7. PlaceOK(k, inst'[c])
    BY <1>1, <1>3, <2>2, <2>3 DEF PlaceOK
  <2>8. Moves
    BY <1>1, <1>2, <1>6, <2>4 DEF Moves, Late
  <2> QED BY <1>1, <1>3, <1>5, <2>2, <2>3, <2>4, <2>6, <2>7, <2>8, ControllerTidy
<1>7. CASE task' = task /\ queue' = queue /\ \E at \in {"watch", error} :
             \E item \in {NoTask, t} : Go(c, at, item)
  <2>1. PICK at \in {"watch", error}, item \in {NoTask, t} : Go(c, at, item)
    BY <1>7
  <2> QED BY <1>3, <1>5, <1>7, <2>1, GoGood, NoTaskType DEF ControllerAt, Good
<1> QED BY <1>3, <1>6, <1>7 DEF Write, Return

LEMMA WriteGood ==
  ASSUME Inv, NEW c \in Controller, NEW t \in Task,
         NEW next \in ControllerAt \ {"spawn"}, NEW error \in {"refetch", "watch"},
         Write(c, t, next, error),
         ctl[c].at # "refetch", t.v = ctl[c].item.v,
         ctl[c].item = task /\ Late(task) => Late(t),
         next = "scan" => t.phase = "Scanning",
         next = "preflight" => t.phase = "Preflighting" /\ t.ref # 0,
         UNCHANGED <<op, inst, installs>>, RestType'
  PROVE Good
<1>1. Tidy
  BY WriteTidy
<1>2. \E at \in {next, error, "watch"} : ctl'[c].at = at
      /\ \A d \in Controller \ {c} : ctl'[d] = ctl[d]
  BY DEF Write, Go, Return, Inv, TypeOK
<1>3. NoNewRight
  BY <1>2 DEF NoNewRight, Entitled
<1> QED BY <1>1, <1>3 DEF Good

LEMMA RestKept ==
  ASSUME Inv, UNCHANGED <<left, credential, overlap>> PROVE RestType'
BY DEF Inv, TypeOK, RestType, credential

LEMMA ItemType ==
  ASSUME Inv, NEW c \in Controller
  PROVE Item(c) \in Task /\ ctl[c].at \in ControllerAt /\ task \in Task
BY DEF Inv, TypeOK, Item

-----------------------------------------------------------------------------
(* reconcile, action by action.                                            *)

LEMMA PhaseType ==
  ASSUME NEW t \in Task, NEW phase \in Phases
  PROVE /\ [t EXCEPT !.phase = phase] \in Task
        /\ [t EXCEPT !.phase = phase].v = t.v
        /\ [t EXCEPT !.phase = phase].ref = t.ref
        /\ [t EXCEPT !.phase = phase].phase = phase
BY DEF Task

LEMMA FailGood ==
  ASSUME Inv, NEW c \in Controller, NEW phase \in Terminal,
         NEW error \in {"refetch", "watch"}, ctl[c].at # "refetch", Fail(c, phase, error)
  PROVE Good
<1> DEFINE t == [ctl[c].item EXCEPT !.phase = phase]
           next == IF error = "watch" THEN "clean" ELSE "clean or refetch"
<1>1. t \in Task /\ t.v = ctl[c].item.v /\ t.phase = phase
  BY ItemType, PhaseType DEF Phases, Item
<1>2. RestType' /\ UNCHANGED <<op, inst, installs>>
  BY RestKept DEF Fail, history
<1>3. Late(t)
  BY <1>1 DEF Late, Early, Terminal
<1>4. next \in ControllerAt \ {"spawn"} /\ next \notin {"scan", "preflight"}
  BY DEF ControllerAt
<1>5. Write(c, t, next, error)
  BY DEF Fail
<1> HIDE DEF t, next
<1> QED BY <1>1, <1>2, <1>3, <1>4, <1>5, WriteGood

LEMMA WriteActionsGood ==
  ASSUME Inv, NEW c \in Controller,
         \/ Reject(c) \/ Interrupted(c) \/ PreflightInterrupted(c) \/ PlanExpired(c)
         \/ ScanExpired(c) \/ InvalidTransition(c) \/ FailFresh(c)
  PROVE Good
<1>1. PICK phase \in Terminal, error \in {"refetch", "watch"} : Fail(c, phase, error)
  BY DEF Reject, Interrupted, PreflightInterrupted, PlanExpired, ScanExpired,
         InvalidTransition, FailFresh, Terminal
<1>2. ctl[c].at # "refetch"
  BY DEF Reject, Interrupted, PreflightInterrupted, PlanExpired, ScanExpired,
         InvalidTransition, FailFresh, Pending, Idle, Reached, Open, Handling
<1> QED BY <1>1, <1>2, FailGood

LEMMA ScanGood ==
  ASSUME Inv, NEW c \in Controller, Scan(c) PROVE Good
<1> DEFINE t == [ctl[c].item EXCEPT !.phase = "Scanning"]
<1>1. t \in Task /\ t.v = ctl[c].item.v /\ t.phase = "Scanning"
  BY ItemType, PhaseType DEF Phases, Item
<1>2. RestType' /\ UNCHANGED <<op, inst, installs>>
  BY RestKept DEF Scan, history
<1>3. ctl[c].at = "handle" /\ ~Late(ctl[c].item)
  BY ItemType DEF Scan, Reached, Idle, Pending, Handling, Item, Late, Early, Phases, Task
<1>4. Write(c, t, "scan", "refetch")
  BY DEF Scan, Item
<1>5. "scan" \in ControllerAt
  BY DEF ControllerAt
<1> HIDE DEF t
<1> QED BY <1>1, <1>2, <1>3, <1>4, <1>5, WriteGood

LEMMA ScannedGood ==
  ASSUME Inv, NEW c \in Controller, Scanned(c) PROVE Good
<1> DEFINE t == [ctl[c].item EXCEPT !.phase = "AwaitingPreflight"]
<1>1. t \in Task /\ t.v = ctl[c].item.v /\ t.phase = "AwaitingPreflight"
  BY ItemType, PhaseType DEF Phases, Item
<1>2. UNCHANGED <<op, inst, installs>>
  BY DEF Scanned, history
<1>3. RestType'
  <2>1. left' \in {left, [left EXCEPT !.scan = ScanTTL]}
        /\ UNCHANGED <<made, secret, life, overlap>>
    BY DEF Scanned, credential, history
  <2>2. ScanTTL \in 0..ScanTTL
    BY EnrollmentConstants
  <2> QED BY <2>1, <2>2 DEF Inv, TypeOK, RestType
<1>4. ctl[c].at = "scan" /\ ~Late(ctl[c].item)
  BY DEF Scanned, Inv, Places, PlaceOK, Late, Early
<1>5. Write(c, t, "watch", "refetch")
  BY DEF Scanned, Item
<1>6. "watch" \in ControllerAt
  BY DEF ControllerAt
<1> HIDE DEF t
<1> QED BY <1>1, <1>2, <1>3, <1>4, <1>5, <1>6, WriteGood

LEMMA PreflightGood ==
  ASSUME Inv, NEW c \in Controller, Preflight(c) PROVE Good
<1> DEFINE t == [ctl[c].item EXCEPT !.phase = "Preflighting"]
<1>1. /\ t \in Task /\ t.v = ctl[c].item.v
      /\ t.phase = "Preflighting" /\ t.ref = ctl[c].item.ref
  BY ItemType, PhaseType DEF Phases, Item
<1>2. RestType' /\ UNCHANGED <<op, inst, installs>>
  BY RestKept DEF Preflight, history
<1>3. ctl[c].at = "handle" /\ ~Late(ctl[c].item) /\ ctl[c].item.ref # 0
  BY DEF Preflight, Open, Reached, Idle, Pending, Handling, Item, Late, Early, CredentialOK
<1>4. Write(c, t, "preflight", "refetch")
  BY DEF Preflight, Item
<1>5. "preflight" \in ControllerAt
  BY DEF ControllerAt
<1> HIDE DEF t
<1> QED BY <1>1, <1>2, <1>3, <1>4, <1>5, WriteGood

LEMMA ProbedGood ==
  ASSUME Inv, NEW c \in Controller, NEW ok \in BOOLEAN, Probed(c, ok) PROVE Good
<1> DEFINE t == [ctl[c].item EXCEPT !.phase = IF ok THEN "AwaitingApproval" ELSE "Failed",
                                    !.canJoin = ok]
           next == IF ok THEN "watch" ELSE "clean or refetch"
<1>1. t \in Task /\ t.v = ctl[c].item.v
  BY ItemType DEF Phases, Terminal, Item, Task
<1>2. UNCHANGED <<op, inst, installs>>
  BY DEF Probed, history
<1>3. /\ ctl[c].at = "preflight" /\ ~Late(ctl[c].item)
      /\ Item(c).ref # 0
  BY DEF Probed, Inv, Places, PlaceOK, Late, Early, Item
<1>4. PlanLife(Item(c)) \in 0..PlanTTL
  <2>1. Item(c).ref \in Uids
    BY <1>3, ItemType, EnrollmentConstants DEF Task, Uids
  <2>2. life[Item(c).ref] \in 0..SecretTTL
    BY <2>1 DEF Inv, TypeOK
  <2> QED BY <2>2, EnrollmentConstants DEF PlanLife
<1>5. RestType'
  BY <1>4 DEF Probed, Inv, TypeOK, RestType, credential, history
<1>6. Write(c, t, next, "refetch")
  BY DEF Probed, Item
<1>7. next \in ControllerAt \ {"spawn"} /\ next \notin {"scan", "preflight"}
  BY DEF ControllerAt
<1> HIDE DEF t, next
<1> QED BY <1>1, <1>2, <1>3, <1>5, <1>6, <1>7, WriteGood

LEMMA MoveActionsGood ==
  ASSUME Inv, NEW c \in Controller,
         \/ AlreadyTerminal(c) \/ Busy(c) \/ PreflightRefused(c) \/ HostFails(c)
         \/ JoinRefused(c) \/ StillWaiting(c) \/ Refetch(c)
  PROVE Good
<1>1. PICK at \in {"clean", "watch", "refetch", "fail"}, item \in {Item(c), NoTask, task} :
        /\ Go(c, at, item)
        /\ at \in {"watch", "refetch"} \/ item = task \/ (item = Item(c) /\ ctl[c].at # "refetch")
  BY DEF AlreadyTerminal, Busy, PreflightRefused, HostFails, JoinRefused, StillWaiting,
         Refetch, Raise, Return, Handling
<1>2. /\ UNCHANGED <<left, credential, overlap>>
      /\ inst' = inst /\ task' = task /\ op' = op /\ queue' = queue /\ installs' = installs
      /\ Fault \/ faults' = faults
  BY DEF AlreadyTerminal, Busy, PreflightRefused, HostFails, JoinRefused, StillWaiting,
         Refetch, Raise, resource, credential, history
<1>3. item \in Task /\ at \in ControllerAt
  BY ItemType, NoTaskType DEF ControllerAt
<1> QED BY <1>1, <1>2, <1>3, GoGood, RestKept, FaultType DEF Inv, Item

LEMMA SecretKept ==
  ASSUME Inv, NEW t, secret' \in {secret, 0, Cleaned(t)}, UNCHANGED <<left, made, life, overlap>>
  PROVE RestType'
BY EnrollmentConstants DEF Inv, TypeOK, RestType, Cleaned

LEMMA CleanSecretGood ==
  ASSUME Inv, NEW c \in Controller, CleanSecret(c) PROVE Good
<1>1. PICK at \in {"watch", "refetch"}, item \in {Item(c), NoTask} : Go(c, at, item)
  BY DEF CleanSecret, Return
<1>2. /\ UNCHANGED <<left, made, life, overlap>> /\ secret' \in {secret, 0, Cleaned(Item(c))}
      /\ inst' = inst /\ task' = task /\ op' = op /\ queue' = queue /\ installs' = installs
      /\ Fault \/ faults' = faults
  BY DEF CleanSecret, resource, history
<1>3. item \in Task /\ at \in ControllerAt
  BY ItemType, NoTaskType DEF ControllerAt
<1> QED BY <1>1, <1>2, <1>3, GoGood, SecretKept, FaultType DEF Inv

(* The thread that starts replaces the right of its main thread.           *)
LEMMA SpawnGood ==
  ASSUME Inv, NEW c \in Controller, Spawn(c) PROVE Good
<1>1. /\ UNCHANGED <<left, made, life, overlap>> /\ secret' \in {secret, 0, Cleaned(Item(c))}
      /\ task' = task /\ op' = op /\ queue' = queue /\ installs' = installs
      /\ Fault \/ faults' = faults
  BY DEF Spawn, resource, history
<1>2. Entitled(c)
  BY DEF Spawn, Entitled
<1>3. RestType' /\ faults' \in 0..MaxFaults
  BY <1>1, SecretKept, FaultType DEF Inv
<1>4. CASE inst' = inst /\ \E at \in {"refetch", "watch"} : Go(c, at, Item(c))
  <2>1. PICK at \in {"refetch", "watch"} : Go(c, at, Item(c))
    BY <1>4
  <2> QED BY <1>1, <1>3, <1>4, <2>1, GoGood, ItemType DEF ControllerAt
<1>5. CASE Go(c, "watch", NoTask) /\ inst' = [inst EXCEPT ![c] = "begun"]
  <2>1. PICK k \in CtlType : /\ ctl' = [ctl EXCEPT ![c] = k] /\ k.at = "watch"
                             /\ k.item = NoTask
    <3>1. "watch" \in ControllerAt
      BY DEF ControllerAt
    <3> QED BY <1>5, <3>1, GoEffect, NoTaskType
  <2>2. ctl'[c] = k
    BY <2>1 DEF Inv, TypeOK
  <2>3. CtlFrom(c) /\ PlaceOK(k, inst'[c])
    BY <2>1, <2>2 DEF CtlFrom, PlaceOK
  <2>4. inst' \in [Controller -> InstallerAt] /\ \A d \in Controller \ {c} : inst'[d] = inst[d]
    BY <1>5 DEF Inv, TypeOK, InstallerAt
  <2>5. Moves /\ task' \in Task /\ queue' \in [Controller -> Seq(Task)]
    BY <1>1 DEF Moves, Inv, TypeOK
  <2> QED BY <1>1, <1>2, <1>3, <2>1, <2>3, <2>4, <2>5, SameQueue, ControllerGood
<1> QED BY <1>4, <1>5 DEF Spawn, Return

-----------------------------------------------------------------------------
(* The loop of the controller.                                             *)

(* A step that changes a controller and perhaps empties its queue.         *)
LEMMA LoopGood ==
  ASSUME Inv, NEW c \in Controller, NEW k \in CtlType, ctl' = [ctl EXCEPT ![c] = k],
         k.at \notin {"scan", "preflight", "spawn"},
         \/ k.item \in {task, NoTask} \/ (k.item = ctl[c].item /\ ctl[c].at # "refetch")
         \/ (queue[c] # <<>> /\ k.item = Head(queue[c])),
         \/ queue' = queue \/ queue' = [queue EXCEPT ![c] = <<>>]
         \/ (queue[c] # <<>> /\ queue' = [queue EXCEPT ![c] = Tail(@)]),
         inst' = inst \/ inst' = [inst EXCEPT ![c] = "none"],
         task' = task, op' = op, installs' = installs, Fault \/ faults' = faults, RestType'
  PROVE Good
<1>1. ctl'[c] = k /\ queue \in [Controller -> Seq(Task)] /\ inst \in [Controller -> InstallerAt]
  BY DEF Inv, TypeOK
<1>2. CtlFrom(c) /\ PlaceOK(k, inst'[c])
  BY <1>1 DEF CtlFrom, PlaceOK
<1>3. inst' \in [Controller -> InstallerAt] /\ \A d \in Controller \ {c} : inst'[d] = inst[d]
  BY <1>1 DEF InstallerAt
<1>4. inst'[c] \in {"begun", "send"} => Entitled(c)
  BY <1>1 DEF Entitled
<1>5. queue' \in [Controller -> Seq(Task)]
  <2>1. <<>> \in Seq(Task) /\ (queue[c] # <<>> => Tail(queue[c]) \in Seq(Task))
    BY <1>1
  <2> QED BY <1>1, <2>1
<1>6. \A d \in Controller : QueueFrom(d)
  BY <1>1 DEF QueueFrom
<1>7. Moves /\ task' \in Task /\ faults' \in 0..MaxFaults
  BY FaultType DEF Moves, Inv, TypeOK
<1> QED BY <1>2, <1>3, <1>4, <1>5, <1>6, <1>7, ControllerGood

LEMMA LoopActionsGood ==
  ASSUME Inv, NEW c \in Controller,
         \/ Start(c) \/ Crash(c) \/ List(c) \/ Event(c) \/ WatchFails(c)
         \/ CleanupList(c) \/ CleanupDelete(c)
  PROVE Good
<1>1. ctl \in [Controller -> CtlType] /\ task \in Task /\ queue[c] \in Seq(Task)
  BY DEF Inv, TypeOK, CtlType
<1>2. Down \in CtlType /\ [Down EXCEPT !.at = "boot"] \in CtlType
  BY NoTaskType DEF Down, CtlType, ControllerAt
<1>3. overlap \in BOOLEAN /\ (UNCHANGED <<left, credential, overlap>> => RestType')
  BY RestKept DEF Inv, TypeOK
<1>4. CASE Start(c)
  <2>1. RestType'
    <3>1. overlap' \in BOOLEAN
      BY <1>3, <1>4, Zenon DEF Start
    <3> QED BY <1>4, <3>1 DEF Start, Inv, TypeOK, RestType, resource, credential
  <2> QED BY <1>2, <1>4, <2>1, LoopGood DEF Start, Down, resource
<1>5. CASE Crash(c)
  BY <1>2, <1>3, <1>5, LoopGood DEF Crash, Down, resource, history
<1>6. CASE List(c)
  <2> DEFINE k == [ctl[c] EXCEPT !.at = IF task = NoTask THEN "watch" ELSE "handle",
                                 !.item = task, !.startup = ctl[c].first]
  <2>1. k \in CtlType /\ k.at \in {"watch", "handle"} /\ k.item = task
    BY <1>1 DEF CtlType, ControllerAt
  <2>2. ctl' = [ctl EXCEPT ![c] = k]
    BY <1>1, <1>6 DEF List, CtlType
  <2> HIDE DEF k
  <2> QED BY <1>3, <1>6, <2>1, <2>2, LoopGood DEF List, resource, history
<1>7. CASE Event(c)
  <2> DEFINE k == [ctl[c] EXCEPT !.at = "handle", !.item = Head(queue[c]), !.startup = FALSE]
  <2>1. queue[c] # <<>> /\ Head(queue[c]) \in Task
    BY <1>1, <1>7 DEF Event
  <2>2. k \in CtlType /\ k.at = "handle" /\ k.item = Head(queue[c])
    BY <1>1, <2>1 DEF CtlType, ControllerAt
  <2>3. ctl' = [ctl EXCEPT ![c] = k]
    BY <1>1, <1>7 DEF Event, CtlType
  <2>4. queue' = [queue EXCEPT ![c] = Tail(@)]
    BY <1>7 DEF Event
  <2> HIDE DEF k
  <2> QED BY <1>3, <1>7, <2>1, <2>2, <2>3, <2>4, LoopGood DEF Event, resource, history
<1>8. CASE WatchFails(c)
  <2> DEFINE k == [ctl[c] EXCEPT !.at = "list", !.item = NoTask]
  <2>1. k \in CtlType /\ k.at = "list" /\ k.item = NoTask
    BY <1>1, NoTaskType DEF CtlType, ControllerAt
  <2>2. ctl' = [ctl EXCEPT ![c] = k]
    BY <1>1, <1>8 DEF WatchFails, CtlType
  <2> HIDE DEF k
  <2> QED BY <1>3, <1>8, <2>1, <2>2, LoopGood DEF WatchFails, resource, history
<1>9. CASE CleanupList(c)
  <2> DEFINE k == [ctl[c] EXCEPT !.at = "sweep", !.item = task,
                                 !.first = @ /\ ctl[c].at = "boot"]
  <2>1. k \in CtlType /\ k.at = "sweep" /\ k.item = task
    BY <1>1 DEF CtlType, ControllerAt
  <2>2. ctl' = [ctl EXCEPT ![c] = k]
    BY <1>1, <1>9 DEF CleanupList, CtlType
  <2> HIDE DEF k
  <2> QED BY <1>3, <1>9, <2>1, <2>2, LoopGood DEF CleanupList, resource, history
<1>10. CASE CleanupDelete(c)
  <2> DEFINE k == [ctl[c] EXCEPT !.at = "list", !.item = NoTask]
  <2>1. k \in CtlType /\ k.at = "list" /\ k.item = NoTask
    BY <1>1, NoTaskType DEF CtlType, ControllerAt
  <2>2. ctl' = [ctl EXCEPT ![c] = k]
    BY <1>1, <1>10 DEF CleanupDelete, CtlType
  <2>3. RestType'
    BY <1>10, SecretKept DEF CleanupDelete, resource, history
  <2> HIDE DEF k
  <2> QED BY <1>10, <2>1, <2>2, <2>3, LoopGood DEF CleanupDelete, resource, history
<1> QED BY <1>4, <1>5, <1>6, <1>7, <1>8, <1>9, <1>10

-----------------------------------------------------------------------------
(* The installer.                                                          *)

LEMMA ReportEffect ==
  ASSUME Inv, NEW phase \in Phases \ Early, Report(phase)
  PROVE /\ task' \in Task /\ Moves
        /\ queue' \in [Controller -> Seq(Task)] /\ \A d \in Controller : QueueFrom(d)
<1> DEFINE t == [task EXCEPT !.phase = phase, !.observed = TRUE, !.v = @ + 1]
<1>1. task.v + 1 \in Nat /\ task \in Task
  BY DEF Inv, TypeOK, Task
<1>2. t \in Task /\ t.v = task.v + 1 /\ t.phase = phase
  BY <1>1 DEF Task
<1>3. Publish(t)
  BY DEF Report
<1> HIDE DEF t
<1> QED BY <1>2, <1>3, PublishEffect DEF Inv, Moves, Late

(* A step of the thread, which is never entitled anew.                     *)
LEMMA ThreadGood ==
  ASSUME Inv, NEW c \in Controller, NEW to \in InstallerAt,
         inst' = [inst EXCEPT ![c] = to], inst[c] # "none",
         to \in {"begun", "send"} => Entitled(c),
         UNCHANGED <<op, ctl, installs>>, task' \in Task, Moves,
         queue' \in [Controller -> Seq(Task)], \A d \in Controller : QueueFrom(d),
         Fault \/ faults' = faults, RestType'
  PROVE Good
<1>1. ctl \in [Controller -> CtlType] /\ inst \in [Controller -> InstallerAt]
  BY DEF Inv, TypeOK, CtlType
<1>2. ctl' = [ctl EXCEPT ![c] = ctl[c]] /\ ctl[c] \in CtlType
  BY <1>1
<1>3. CtlFrom(c)
  BY DEF CtlFrom
<1>4. PlaceOK(ctl[c], inst'[c]) /\ (ctl[c].at = "spawn" => Entitled(c))
  BY DEF Inv, Places, PlaceOK, Entitled
<1>5. inst' \in [Controller -> InstallerAt] /\ \A d \in Controller \ {c} : inst'[d] = inst[d]
  BY <1>1
<1>6. inst'[c] = to /\ faults' \in 0..MaxFaults
  BY <1>1, FaultType DEF Inv
<1> QED BY <1>2, <1>3, <1>4, <1>5, <1>6, ControllerGood

LEMMA InstallerGood ==
  ASSUME Inv, NEW c \in Controller,
         \/ BeginInstall(c) \/ Installed(c) \/ NodeReady(c) \/ InstallFails(c) \/ InstallBroken(c)
  PROVE Good
<1>1. PICK to \in {"send", "verify", "none", "broken"} : inst' = [inst EXCEPT ![c] = to]
  BY DEF BeginInstall, Installed, NodeReady, InstallFails, InstallBroken
<1>2. to \in InstallerAt
  BY DEF InstallerAt
<1>3. inst[c] # "none" /\ (to = "send" => Entitled(c))
  BY <1>1 DEF BeginInstall, Installed, NodeReady, InstallFails, InstallBroken, Entitled, Inv, TypeOK
<1>4. /\ UNCHANGED <<op, ctl, installs, left, made, life, overlap>>
      /\ Fault \/ faults' = faults
      /\ secret' \in {secret, 0, Cleaned(task)}
  BY DEF BeginInstall, Installed, NodeReady, InstallFails, InstallBroken, history, credential
<1>5. \/ UNCHANGED <<task, queue>>
      \/ \E phase \in {"Installing", "Verifying", "Ready", "NeedsReview"} : Report(phase)
  BY DEF BeginInstall, Installed, NodeReady, InstallFails, InstallBroken
<1>6. /\ task' \in Task /\ Moves
      /\ queue' \in [Controller -> Seq(Task)] /\ \A d \in Controller : QueueFrom(d)
  <2>1. CASE UNCHANGED <<task, queue>>
    BY <2>1, SameQueue DEF Moves, Inv, TypeOK
  <2>2. CASE \E phase \in {"Installing", "Verifying", "Ready", "NeedsReview"} : Report(phase)
    BY <2>2, ReportEffect DEF Phases, Terminal, Early
  <2> QED BY <1>5, <2>1, <2>2
<1>7. RestType'
  BY <1>4, SecretKept
<1> QED BY <1>1, <1>2, <1>3, <1>4, <1>6, <1>7, ThreadGood

-----------------------------------------------------------------------------
(* The console, and time.                                                  *)

OpType == [at : ConsoleAt, item : Task, uid : 0..MaxSecrets]

LEMMA OperatorGood ==
  ASSUME Inv, NEW o \in Operator, NEW r \in OpType, op' = [op EXCEPT ![o] = r],
         r.item \in {op[o].item, task, NoTask},
         UNCHANGED <<ctl, inst, installs>>, task' \in Task, Moves,
         queue' \in [Controller -> Seq(Task)], \A d \in Controller : QueueFrom(d),
         Fault \/ faults' = faults, RestType'
  PROVE Good
<1>1. op \in [Operator -> OpType]
  BY DEF Inv, TypeOK, OpType
<1>2. op'[o] = r /\ \A p \in Operator \ {o} : op'[p] = op[p]
  BY <1>1
<1>3. faults' \in 0..MaxFaults
  BY FaultType DEF Inv
<1>4. TypeOK'
  BY <1>1, <1>3 DEF Inv, TypeOK, RestType, OpType
<1>5. CopiesFrom
  <2>1. \A p \in Operator : OpFrom(p)
    BY <1>2 DEF OpFrom
  <2>2. \A c \in Controller : CtlFrom(c)
    BY DEF CtlFrom
  <2> QED BY <2>1, <2>2 DEF CopiesFrom
<1>6. Places' /\ NoNewRight
  BY DEF Inv, Places, PlaceOK, NoNewRight, Entitled
<1> QED BY <1>4, <1>5, <1>6 DEF Good, Tidy

LEMMA QuietResource ==
  ASSUME Inv, UNCHANGED <<task, queue>>
  PROVE /\ task' \in Task /\ Moves
        /\ queue' \in [Controller -> Seq(Task)] /\ \A d \in Controller : QueueFrom(d)
BY SameQueue DEF Moves, Inv, TypeOK

(* Requests of the console that do not write the resource.                 *)
LEMMA ConsoleReadsGood ==
  ASSUME Inv, NEW o \in Operator,
         \/ ReadScan(o) \/ CreateSecret(o) \/ SecretNotCreated(o) \/ PatchRefused(o)
         \/ UndoSecret(o) \/ ReadPlan(o)
  PROVE Good
<1>1. op \in [Operator -> OpType] /\ task \in Task /\ made \in Nat
  BY EnrollmentConstants DEF Inv, TypeOK, OpType
<1>2. IdleOp \in OpType /\ IdleOp.item = NoTask
  BY NoTaskType, EnrollmentConstants DEF IdleOp, OpType, ConsoleAt
<1>3. /\ UNCHANGED <<ctl, inst, installs, task, queue, left, overlap>>
      /\ Fault \/ faults' = faults
  BY DEF ReadScan, CreateSecret, SecretNotCreated, PatchRefused, UndoSecret, ReadPlan,
         resource, process, history
<1>4. \E r \in OpType : op' = [op EXCEPT ![o] = r] /\ r.item \in {op[o].item, task, NoTask}
  <2>1. CASE op' = [op EXCEPT ![o] = IdleOp]
    BY <1>2, <2>1
  <2>2. CASE ReadScan(o) \/ ReadPlan(o)
    <3>1. PICK at \in {"secret", "join"} :
            op' = [op EXCEPT ![o] = [at |-> at, item |-> task, uid |-> 0]]
      BY <2>2 DEF ReadScan, ReadPlan
    <3>2. [at |-> at, item |-> task, uid |-> 0] \in OpType
      BY <1>1, EnrollmentConstants DEF OpType, ConsoleAt
    <3> QED BY <3>1, <3>2
  <2>3. CASE CreateSecret(o) /\ op' = [op EXCEPT ![o].at = "patch", ![o].uid = made + 1]
    <3> DEFINE r == [op[o] EXCEPT !.at = "patch", !.uid = made + 1]
    <3>1. made + 1 \in 0..MaxSecrets
      BY <1>1, <2>3, EnrollmentConstants DEF CreateSecret
    <3>2. r \in OpType /\ r.item = op[o].item
      BY <1>1, <3>1 DEF OpType, ConsoleAt
    <3>3. op' = [op EXCEPT ![o] = r]
      BY <1>1, <2>3 DEF OpType
    <3> QED BY <3>2, <3>3
  <2>4. CASE PatchRefused(o) /\ op' = [op EXCEPT ![o] = [@ EXCEPT !.at = "undo"]]
    <3>1. [op[o] EXCEPT !.at = "undo"] \in OpType /\ [op[o] EXCEPT !.at = "undo"].item = op[o].item
      BY <1>1 DEF OpType, ConsoleAt
    <3> QED BY <2>4, <3>1
  <2> QED BY <2>1, <2>2, <2>3, <2>4 DEF CreateSecret, SecretNotCreated, PatchRefused, UndoSecret
<1>5. RestType'
  <2>1. CASE CreateSecret(o)
    <3>1. made + 1 \in Uids /\ SecretTTL \in 0..SecretTTL /\ made + 1 \in 0..MaxSecrets
      BY <1>1, <2>1, EnrollmentConstants DEF CreateSecret, Uids
    <3> QED BY <1>3, <2>1, <3>1 DEF CreateSecret, Inv, TypeOK, RestType
  <2>2. CASE ~CreateSecret(o)
    <3>1. UNCHANGED <<made, life>> /\ secret' \in {secret, 0}
      BY <2>2 DEF ReadScan, SecretNotCreated, PatchRefused, UndoSecret, ReadPlan, credential
    <3> QED BY <1>3, <3>1, SecretKept
  <2> QED BY <2>1, <2>2
<1> QED BY <1>3, <1>4, <1>5, QuietResource, OperatorGood

(* Its patches, accepted only over the version that was read.              *)
LEMMA PatchGood ==
  ASSUME Inv, NEW o \in Operator, PatchPreflight(o) \/ PatchJoin(o)
  PROVE Good
<1>1. op \in [Operator -> OpType] /\ op[o].item \in Task /\ op[o].uid \in 0..MaxSecrets
  BY DEF Inv, TypeOK, OpType
<1>2. IdleOp \in OpType /\ IdleOp.item = NoTask
  BY NoTaskType, EnrollmentConstants DEF IdleOp, OpType, ConsoleAt
<1>3. /\ UNCHANGED <<ctl, inst, installs>> /\ RestType'
      /\ Fault \/ faults' = faults
      /\ op' = [op EXCEPT ![o] = IdleOp]
  BY RestKept DEF PatchPreflight, PatchJoin, history
<1>4. Current(op[o].item) => op[o].item = task
  BY DEF Inv, Copies, CopyOf, Current
<1> DEFINE p == [op[o].item EXCEPT !.action = "Preflight", !.ref = op[o].uid,
                                   !.observed = FALSE, !.v = @ + 1]
           j == [op[o].item EXCEPT !.action = "Join", !.approved = TRUE,
                                   !.observed = FALSE, !.v = @ + 1]
<1>5. op[o].item.v + 1 \in Nat
  BY <1>1 DEF Task
<1>6. p \in Task /\ p.v = op[o].item.v + 1 /\ p.phase = op[o].item.phase
  BY <1>1, <1>5 DEF Task
<1>7. j \in Task /\ j.v = op[o].item.v + 1 /\ j.phase = op[o].item.phase
  BY <1>1, <1>5 DEF Task
<1>8. \/ UNCHANGED <<task, queue>>
      \/ Current(op[o].item) /\ \E t \in {p, j} : Publish(t)
  BY DEF PatchPreflight, PatchJoin
<1> HIDE DEF p, j
<1>9. /\ task' \in Task /\ Moves
      /\ queue' \in [Controller -> Seq(Task)] /\ \A d \in Controller : QueueFrom(d)
  <2>1. CASE UNCHANGED <<task, queue>>
    BY <2>1, QuietResource
  <2>2. CASE Current(op[o].item) /\ \E t \in {p, j} : Publish(t)
    <3>1. PICK t \in {p, j} : Publish(t)
      BY <2>2
    <3>2. t \in Task /\ t.v = task.v + 1 /\ t.phase = task.phase
      BY <1>4, <1>6, <1>7, <2>2
    <3> QED BY <3>1, <3>2, PublishEffect DEF Inv, Moves, Late
  <2> QED BY <1>8, <2>1, <2>2
<1> QED BY <1>2, <1>3, <1>9, OperatorGood

LEMMA SubmitGood ==
  ASSUME Inv, SubmitScan PROVE Good
<1> DEFINE t == [NoTask EXCEPT !.phase = "", !.v = 1]
<1>1. t \in Task /\ t.v = 1
  BY NoTaskType DEF NoTask, Task, Phases
<1>2. Publish(t) /\ task.v = 0 /\ ~Late(task)
  BY DEF SubmitScan, NoTask, Late, Early
<1> HIDE DEF t
<1>3. /\ task' = t /\ queue' \in [Controller -> Seq(Task)]
      /\ \A d \in Controller : QueueFrom(d)
  BY <1>1, <1>2, PublishEffect DEF Inv
<1>4. Moves
  BY <1>1, <1>2, <1>3 DEF Moves
<1>5. UNCHANGED <<op, ctl, inst, installs, faults>> /\ RestType'
  BY RestKept DEF SubmitScan, history
<1>6. TypeOK'
  BY <1>1, <1>3, <1>5 DEF Inv, TypeOK, RestType
<1>7. CopiesFrom
  BY <1>3, <1>5 DEF CopiesFrom, OpFrom, CtlFrom
<1>8. Places' /\ NoNewRight
  BY <1>5 DEF Inv, Places, PlaceOK, NoNewRight, Entitled
<1> QED BY <1>4, <1>6, <1>7, <1>8 DEF Good, Tidy

LEMMA ElapseGood ==
  ASSUME Inv, Elapse PROVE Good
<1>1. /\ UNCHANGED <<task, op, ctl, queue, inst, installs, overlap, faults, made, secret>>
      /\ task \in Task
  BY DEF Elapse, process, history, Inv, TypeOK
<1>2. ASSUME NEW m \in Nat, NEW n \in 0..m PROVE Less(n) \in 0..m
  BY DEF Less
<1>3. left' \in [scan : 0..ScanTTL, plan : 0..PlanTTL]
  <2>1. left.scan \in 0..ScanTTL /\ left.plan \in 0..PlanTTL
    BY DEF Inv, TypeOK
  <2>2. Less(left.scan) \in 0..ScanTTL /\ Less(left.plan) \in 0..PlanTTL
    BY <1>2, <2>1, EnrollmentConstants
  <2> QED BY <2>2 DEF Elapse
<1>4. life' \in [Uids -> 0..SecretTTL]
  <2>1. ASSUME NEW u \in Uids PROVE Less(life[u]) \in 0..SecretTTL
    <3>1. life[u] \in 0..SecretTTL
      BY DEF Inv, TypeOK
    <3> QED BY <1>2, <3>1, EnrollmentConstants
  <2> QED BY <2>1 DEF Elapse
<1>5. TypeOK'
  BY <1>1, <1>3, <1>4 DEF Inv, TypeOK
<1>6. Moves /\ CopiesFrom
  BY <1>1 DEF Moves, CopiesFrom, OpFrom, CtlFrom, QueueFrom
<1>7. Places' /\ NoNewRight
  BY <1>1 DEF Inv, Places, PlaceOK, NoNewRight, Entitled
<1> QED BY <1>5, <1>6, <1>7 DEF Good, Tidy

-----------------------------------------------------------------------------
(* The two steps about INSTALL.                                            *)

LEMMA JoinTidy ==
  ASSUME Inv, NEW c \in Controller, Join(c) PROVE Tidy
<1> DEFINE t == [ctl[c].item EXCEPT !.phase = "Installing"]
<1>1. t \in Task /\ t.v = ctl[c].item.v /\ t.phase = "Installing"
  BY ItemType, PhaseType DEF Phases, Item
<1>2. RestType' /\ UNCHANGED <<op, inst, installs>>
  BY RestKept DEF Join, history
<1>3. ctl[c].at = "handle" /\ inst[c] = "none"
  BY DEF Join, Open, Reached, Idle, Pending, Handling, Item
<1>4. Write(c, t, "spawn", "refetch")
  BY DEF Join, Item
<1>5. Late(t) /\ "spawn" \in ControllerAt
  BY <1>1 DEF Late, Early, ControllerAt
<1> HIDE DEF t
<1> QED BY <1>1, <1>2, <1>3, <1>4, <1>5, WriteTidy

(* join entitles its controller, and finds an enrollment nobody is         *)
(* entitled to install: the write is accepted only over AwaitingApproval.  *)
LEMMA JoinKeeps ==
  ASSUME Inv, NEW c \in Controller, Join(c) PROVE Inv'
<1> DEFINE t == [ctl[c].item EXCEPT !.phase = "Installing"]
           new == [t EXCEPT !.observed = TRUE, !.v = @ + 1]
<1>1. t \in Task /\ t.v = ctl[c].item.v /\ t.phase = "Installing"
  BY ItemType, PhaseType DEF Phases, Item
<1>2. new.phase = "Installing"
  BY <1>1 DEF Task
<1>3. RestType' /\ UNCHANGED <<op, inst, installs>>
  BY RestKept DEF Join, history
<1>4. /\ ctl[c].at = "handle" /\ ctl[c].item.phase = "AwaitingApproval"
      /\ inst[c] = "none"
  BY DEF Join, Open, Reached, Idle, Pending, Handling, Item
<1>5. Write(c, t, "spawn", "refetch")
  BY DEF Join, Item
<1>7. Tidy
  BY JoinTidy
<1>8. /\ \A d \in Controller \ {c} : ctl'[d] = ctl[d]
      /\ ctl'[c].at = "spawn" => Current(t) /\ task' = new
  BY <1>5 DEF Write, Go, Return, Publish, Inv, TypeOK
<1>9. CASE ctl'[c].at # "spawn"
  <2>1. NoNewRight
    BY <1>3, <1>8, <1>9 DEF NoNewRight, Entitled
  <2> QED BY <1>7, <2>1, GoodKeeps DEF Good
<1>10. CASE ctl'[c].at = "spawn"
  <2>1. ctl[c].item = task
    BY <1>1, <1>4, <1>8, <1>10 DEF Inv, Copies, CopyOf, Current
  <2>2. ~Late(task) /\ Late(task')
    BY <1>2, <1>4, <1>8, <1>10, <2>1 DEF Late, Early
  <2>3. installs' = 0 /\ \A d \in Controller : ~Entitled(d)
    BY <1>3, <2>2 DEF Inv, Once
  <2>4. \A d \in Controller : Entitled(d)' => d = c
    BY <1>3, <1>8, <2>3 DEF Entitled
  <2>5. Once'
    BY <2>2, <2>3, <2>4 DEF Once, Late
  <2>6. Copies'
    BY <1>7, CopiesKept DEF Tidy
  <2> QED BY <1>7, <2>5, <2>6 DEF Inv, Tidy
<1> QED BY <1>9, <1>10

LEMMA SendInstallTidy ==
  ASSUME Inv, NEW c \in Controller, SendInstall(c) PROVE Tidy
<1>1. /\ UNCHANGED <<task, op, ctl, queue, faults>> /\ RestType' /\ inst[c] = "send"
      /\ installs' = installs + 1 /\ inst' = [inst EXCEPT ![c] = "sent"]
  BY RestKept DEF SendInstall, resource
<1>2. TypeOK'
  BY <1>1 DEF Inv, TypeOK, RestType, InstallerAt
<1>3. CopiesFrom /\ Moves
  BY <1>1 DEF CopiesFrom, OpFrom, CtlFrom, QueueFrom, Moves
<1>4. /\ \A d \in Controller \ {c} : inst'[d] = inst[d]
      /\ ctl[c].at # "spawn"
  BY <1>1 DEF Inv, TypeOK, Places, PlaceOK
<1>5. Places'
  BY <1>1, <1>4 DEF Inv, Places, PlaceOK
<1> QED BY <1>2, <1>3, <1>5 DEF Tidy

(* Sending INSTALL uses the right up.                                      *)
LEMMA SendInstallKeeps ==
  ASSUME Inv, NEW c \in Controller, SendInstall(c) PROVE Inv'
<1>1. /\ UNCHANGED <<task, op, ctl, queue, faults>> /\ RestType' /\ inst[c] = "send"
      /\ installs' = installs + 1 /\ inst' = [inst EXCEPT ![c] = "sent"]
  BY RestKept DEF SendInstall, resource
<1>2. /\ inst \in [Controller -> InstallerAt] /\ inst'[c] = "sent"
      /\ \A d \in Controller \ {c} : inst'[d] = inst[d]
  BY <1>1 DEF Inv, TypeOK
<1>3. Entitled(c) /\ ctl[c].at # "spawn"
  BY <1>1 DEF Inv, Places, PlaceOK, Entitled
<1>4. installs = 0 /\ Late(task) /\ \A d \in Controller : Entitled(d) => d = c
  BY <1>3 DEF Inv, Once
<1>5. \A d \in Controller : ~Entitled(d)'
  BY <1>1, <1>2, <1>3, <1>4 DEF Entitled
<1>6. Once'
  BY <1>1, <1>4, <1>5 DEF Once, Late
<1>7. TypeOK'
  BY <1>1, <1>4 DEF Inv, TypeOK, RestType, InstallerAt
<1>8. Copies'
  BY <1>1 DEF Inv, Copies, CopyOf
<1>9. Places'
  BY <1>1, <1>2, <1>3 DEF Inv, Places, PlaceOK
<1> QED BY <1>6, <1>7, <1>8, <1>9 DEF Inv

-----------------------------------------------------------------------------
(* The main thread while it retires nodes.                                 *)

RetireAt == {"watch", "retire", "retire node", "retire inventory", "retire again",
             "retire delete", "retire write", "retire error"}

\* Only the position changes, and whether the object is one of a first list.
RetireMove(c) ==
  \E at \in RetireAt, startup \in {ctl[c].startup, ctl[c].first, FALSE} :
    ctl' = [ctl EXCEPT ![c] = [@ EXCEPT !.at = at, !.startup = startup]]

LEMMA AtMoves ==
  ASSUME Inv, NEW c \in Controller, NEW at \in RetireAt, At(c, at) PROVE RetireMove(c)
<1>1. ctl \in [Controller -> CtlType]
  BY DEF Inv, TypeOK, CtlType
<1>2. ctl' = [ctl EXCEPT ![c] = [@ EXCEPT !.at = at, !.startup = ctl[c].startup]]
  BY <1>1 DEF At, CtlType
<1> QED BY <1>2 DEF RetireMove

LEMMA LeaveMoves ==
  ASSUME Inv, NEW c \in Controller, Leave(c) PROVE RetireMove(c)
<1>1. ctl \in [Controller -> CtlType]
  BY DEF Inv, TypeOK, CtlType
<1>2. ctl' = [ctl EXCEPT ![c] = [@ EXCEPT !.at = "watch", !.startup = FALSE]]
  BY <1>1 DEF Leave, CtlType
<1> QED BY <1>2 DEF RetireMove, RetireAt

LEMMA WriteRetirementMoves ==
  ASSUME Inv, NEW c \in Controller, NEW phase, NEW next \in RetireAt,
         WriteRetirement(c, phase, next)
  PROVE RetireMove(c) /\ (Fault \/ faults' = faults)
<1>1. Leave(c) \/ At(c, next) \/ At(c, "retire error")
  BY DEF WriteRetirement, Refuse
<1>2. Fault \/ faults' = faults
  BY DEF WriteRetirement
<1>3. "retire error" \in RetireAt
  BY DEF RetireAt
<1> QED BY <1>1, <1>2, <1>3, AtMoves, LeaveMoves

(* A step of retire changes nothing of an enrollment.                      *)
LEMMA RetireSteps ==
  ASSUME Inv, NEW c \in Controller, Retire(c)
  PROVE /\ RetireMove(c)
        /\ queue' = queue \/ queue' = [queue EXCEPT ![c] = <<>>]
        /\ Fault \/ faults' = faults
        /\ UNCHANGED <<task, left, credential, op, inst, installs, overlap>>
<1>0. ctl \in [Controller -> CtlType]
  BY DEF Inv, TypeOK, CtlType
<1>1. CASE TakeRetirement(c)
  <2>1. CASE At(c, "retire")
    BY <1>1, <2>1, AtMoves DEF TakeRetirement, RetireAt, resource, history
  <2>2. CASE ctl' = [ctl EXCEPT ![c].at = "retire", ![c].startup = ctl[c].first]
    <3>1. ctl' = [ctl EXCEPT ![c] = [@ EXCEPT !.at = "retire", !.startup = ctl[c].first]]
      BY <1>0, <2>2 DEF CtlType
    <3>2. RetireMove(c)
      BY <3>1 DEF RetireMove, RetireAt
    <3> QED BY <1>1, <3>2 DEF TakeRetirement, resource, history
  <2> QED BY <1>1, <2>1, <2>2 DEF TakeRetirement
<1>2. CASE RetireDone(c) \/ RetireError(c)
  BY <1>2, LeaveMoves DEF RetireDone, RetireError, Keep, resource, history
<1>3. CASE \/ RetireInterrupted(c) \/ BeginRetire(c) \/ RetireWrite(c)
           \/ (RetireInventory(c) /\ WriteRetirement(c, "Blocked", "watch"))
  <2>1. PICK phase \in {"NeedsReview", "Checking", "Deleted", "Blocked"},
             next \in {"watch", "retire node"} : WriteRetirement(c, phase, next)
    BY <1>3 DEF RetireInterrupted, BeginRetire, RetireWrite
  <2>2. next \in RetireAt
    BY DEF RetireAt
  <2>3. RetireMove(c) /\ (Fault \/ faults' = faults)
    BY <2>1, <2>2, WriteRetirementMoves
  <2> QED BY <1>3, <2>3 DEF RetireInterrupted, BeginRetire, RetireWrite, RetireInventory,
                            Keep, resource, history
<1>4. CASE \/ RetireNode(c) \/ RetireFails(c) \/ RetireAgain(c) \/ RetireDelete(c)
           \/ (RetireInventory(c) /\ At(c, "retire again") /\ faults' = faults)
  <2>1. PICK at \in {"retire inventory", "retire again", "retire delete", "retire write",
                     "retire error"} : At(c, at)
    BY <1>4 DEF RetireNode, RetireFails, RetireAgain, RetireDelete, Refuse
  <2>2. RetireMove(c)
    BY <2>1, AtMoves DEF RetireAt
  <2>3. Fault \/ faults' = faults
    BY <1>4 DEF RetireNode, RetireFails, RetireAgain, RetireDelete
  <2> QED BY <1>4, <2>2, <2>3 DEF RetireNode, RetireFails, RetireAgain, RetireDelete,
                                  RetireInventory, Keep, resource, history
<1> QED BY <1>1, <1>2, <1>3, <1>4 DEF Retire, RetireInventory

LEMMA RetireGood ==
  ASSUME Inv, NEW c \in Controller, Retire(c) PROVE Good
<1>1. ctl \in [Controller -> CtlType]
  BY DEF Inv, TypeOK, CtlType
<1>2. ctl[c].at \in RetireAt
  BY DEF Retire, TakeRetirement, RetireDone, RetireInterrupted, BeginRetire, RetireNode,
         RetireFails, RetireInventory, RetireAgain, RetireDelete, RetireWrite, RetireError, RetireAt
<1>3. /\ RetireMove(c)
      /\ queue' = queue \/ queue' = [queue EXCEPT ![c] = <<>>]
      /\ Fault \/ faults' = faults
      /\ UNCHANGED <<task, left, credential, op, inst, installs, overlap>>
  BY RetireSteps
<1>4. PICK at \in RetireAt, startup \in {ctl[c].startup, ctl[c].first, FALSE} :
        ctl' = [ctl EXCEPT ![c] = [@ EXCEPT !.at = at, !.startup = startup]]
  BY <1>3 DEF RetireMove
<1> DEFINE k == [ctl[c] EXCEPT !.at = at, !.startup = startup]
<1>5. k \in CtlType /\ k.item = ctl[c].item /\ k.at = at
  BY <1>1 DEF CtlType, RetireAt, ControllerAt
<1>6. ctl' = [ctl EXCEPT ![c] = k]
  BY <1>4
<1>7. RestType'
  BY <1>3, RestKept
<1>8. at \notin {"scan", "preflight", "spawn"} /\ ctl[c].at # "refetch"
  BY <1>2 DEF RetireAt
<1> HIDE DEF k
<1> QED BY <1>3, <1>5, <1>6, <1>7, <1>8, LoopGood

-----------------------------------------------------------------------------
(* Putting it together.                                                    *)

LEMMA StutterGood ==
  ASSUME Inv, UNCHANGED vars PROVE Good
<1>1. UNCHANGED <<task, left, secret, life, made, op, ctl, queue, inst, installs, overlap, faults>>
  BY DEF vars
<1>2. TypeOK' /\ Places' /\ NoNewRight
  BY <1>1 DEF Inv, TypeOK, Places, PlaceOK, NoNewRight, Entitled
<1>3. Moves /\ CopiesFrom
  BY <1>1 DEF Moves, CopiesFrom, OpFrom, CtlFrom, QueueFrom
<1> QED BY <1>2, <1>3 DEF Good, Tidy

LEMMA NodeInitKeeps ==
  ASSUME NodeInit PROVE Inv
<1> USE NoTaskType, EnrollmentConstants DEF NodeInit, Init
<1>1. TypeOK
  <2>1. task \in Task /\ left \in [scan : 0..ScanTTL, plan : 0..PlanTTL]
    OBVIOUS
  <2>2. made \in 0..MaxSecrets /\ secret \in 0..made /\ life \in [Uids -> 0..SecretTTL]
    OBVIOUS
  <2>3. op \in [Operator -> [at : ConsoleAt, item : Task, uid : 0..MaxSecrets]]
    BY DEF IdleOp, ConsoleAt
  <2>4. ctl \in [Controller -> [at : ControllerAt, item : Task, first : BOOLEAN, startup : BOOLEAN]]
    BY DEF Down, ControllerAt
  <2>5. queue \in [Controller -> Seq(Task)] /\ inst \in [Controller -> InstallerAt]
    BY DEF InstallerAt
  <2>6. installs \in Nat /\ faults \in 0..MaxFaults
    OBVIOUS
  <2>7. overlap \in BOOLEAN
    BY Zenon
  <2> QED BY <2>1, <2>2, <2>3, <2>4, <2>5, <2>6, <2>7 DEF TypeOK
<1>2. Copies
  <2>1. CopyOf(NoTask)
    BY DEF CopyOf, NoTask
  <2>2. \A o \in Operator : op[o].item = NoTask
    BY DEF IdleOp
  <2>3. \A c \in Controller : ctl[c].item = NoTask /\ Len(queue[c]) = 0
    BY DEF Down
  <2> QED BY <2>1, <2>2, <2>3 DEF Copies
<1>3. Places
  BY DEF Places, PlaceOK, Down
<1>4. Once
  BY DEF Once, Entitled, Down, Late, Early, NoTask
<1> QED BY <1>1, <1>2, <1>3, <1>4 DEF Inv

LEMMA NodeNextGood ==
  ASSUME Inv, [NodeNext]_nodeVars, ~\E c \in Controller : Join(c) \/ SendInstall(c)
  PROVE Good
<1>1. CASE Enroll
  <2>1. CASE SubmitScan
    BY <2>1, SubmitGood
  <2>2. ASSUME NEW o \in Operator, Console(o) PROVE Good
    BY <2>2, ConsoleReadsGood, PatchGood DEF Console
  <2> QED BY <1>1, <2>1, <2>2 DEF Enroll
<1>2. CASE NodeElapse
  BY <1>2, ElapseGood DEF NodeElapse
<1>3. ASSUME NEW c \in Controller,
             NodeStart(c) \/ ProcessDies(c) \/ EnrollmentLoop(c) \/ NewCycle(c)
      PROVE Good
  BY <1>3, LoopActionsGood DEF NodeStart, ProcessDies, EnrollmentLoop, NewCycle
<1>4. ASSUME NEW c \in Controller, NodeReconcile(c) PROVE Good
  <2>1. CASE \E ok \in BOOLEAN : Probed(c, ok)
    BY <2>1, ProbedGood
  <2>2. CASE Scan(c) \/ Scanned(c) \/ Preflight(c) \/ CleanSecret(c) \/ Spawn(c)
    BY <2>2, ScanGood, ScannedGood, PreflightGood, CleanSecretGood, SpawnGood
  <2> QED BY <1>4, <2>1, <2>2, WriteActionsGood, MoveActionsGood DEF NodeReconcile, Reconcile
<1>5. ASSUME NEW c \in Controller, NodeInstaller(c) PROVE Good
  BY <1>5, InstallerGood DEF NodeInstaller, Installer
<1>6. ASSUME NEW c \in Controller, Retire(c) PROVE Good
  BY <1>6, RetireGood
<1>7. CASE \/ \E o \in Operator : Operate(o)
           \/ NodeFlips \/ NodeMoves \/ NodeRegistersAnew \/ Work \/ LateDelete
           \/ UNCHANGED nodeVars
  <2>1. UNCHANGED vars
    BY <1>7 DEF Operate, Look, Confirm, Inventory, SubmitRetirement, NodeFlips, NodeMoves,
                NodeRegistersAnew, NodeChange, Work, LateDelete, nodeVars
  <2> QED BY <2>1, StutterGood
<1> QED BY <1>1, <1>2, <1>3, <1>4, <1>5, <1>6, <1>7 DEF NodeNext

LEMMA NodeNextKeeps ==
  ASSUME Inv, [NodeNext]_nodeVars PROVE Inv'
<1>1. CASE \E c \in Controller : Join(c) \/ SendInstall(c)
  BY <1>1, JoinKeeps, SendInstallKeeps
<1>2. CASE ~\E c \in Controller : Join(c) \/ SendInstall(c)
  BY <1>2, NodeNextGood, GoodKeeps
<1> QED BY <1>1, <1>2

LEMMA NodeNextTidy ==
  ASSUME Inv, [NodeNext]_nodeVars PROVE Tidy
<1>1. CASE \E c \in Controller : Join(c) \/ SendInstall(c)
  BY <1>1, JoinTidy, SendInstallTidy
<1>2. CASE ~\E c \in Controller : Join(c) \/ SendInstall(c)
  BY <1>2, NodeNextGood DEF Good
<1> QED BY <1>1, <1>2

(* The records of console and controller keep their types: a write puts a  *)
(* well-formed resource into the API, for any number of processes.         *)
THEOREM NodeTypes == NodeSpec => []TypeOK
<1>1. NodeInit => Inv
  BY NodeInitKeeps
<1>2. Inv /\ [NodeNext]_nodeVars => Inv'
  BY NodeNextKeeps
<1>3. Inv => TypeOK
  BY DEF Inv
<1> QED BY <1>1, <1>2, <1>3, PTL DEF NodeSpec

(* An enrollment sends INSTALL at most once, whatever fails, however often *)
(* controllers die and start, and although two may hold the lease at once. *)
THEOREM SingleInstall == NodeSpec => []InstalledOnce
<1>1. NodeInit => Inv
  BY NodeInitKeeps
<1>2. Inv /\ [NodeNext]_nodeVars => Inv'
  BY NodeNextKeeps
<1>3. Inv => InstalledOnce
  BY DEF Inv, Once, InstalledOnce
<1> QED BY <1>1, <1>2, <1>3, PTL DEF NodeSpec

-----------------------------------------------------------------------------
(* What an enrollment promises while only one controller is alive.         *)
(*                                                                         *)
(* The watch delivers old versions, so a copy may be behind the resource.  *)
(* It is never behind by a phase that matters: once the machine is being   *)
(* touched, every version still to come was written after Installing, and  *)
(* the controller is at no request that would end in another verdict.      *)

Behind(t) == Late(t) => Late(task)

\* The console asks only what fits the phase it has read.
Asked ==
  \A o \in Operator :
    /\ op[o].at \in {"secret", "patch", "undo"} => op[o].item.phase = "AwaitingPreflight"
    /\ op[o].at = "join" => op[o].item.phase = "AwaitingApproval"

CleanAt == {"clean", "clean or refetch"}
\* No copy is ahead; only a finished enrollment is cleaned after.
Finishing ==
  \A c \in Controller :
    /\ ctl[c].at # "refetch" => Behind(ctl[c].item)
    /\ \A i \in 1..Len(queue[c]) : Behind(queue[c][i])
    /\ ctl[c].at \in CleanAt => Late(ctl[c].item)
    /\ inst[c] # "none" => Late(task)

Asleep(c) == ctl[c].at = "down" /\ inst[c] = "none" /\ queue[c] = <<>>
Alone ==
  ~overlap => \A c \in Controller : /\ ~Up(c) => Asleep(c)
                                    /\ Up(c) => \A d \in Controller \ {c} : Asleep(d)

\* The watch delivers versions in their order, after the one in hand.
Ordered(c) ==
  /\ \A i, j \in 1..Len(queue[c]) : i < j => queue[c][i].v < queue[c][j].v
  /\ ctl[c].at = "handle" => \A i \in 1..Len(queue[c]) : ctl[c].item.v < queue[c][i].v
  /\ ~Watching(c) => queue[c] = <<>>

\* Where a controller may come to write a phase other than NeedsReview.
Noisy == {"scan", "preflight", "spawn", "clean or refetch", "refetch", "fail"}
Working(c) == ctl[c].at \in Noisy \/ (ctl[c].at = "handle" /\ ~Late(ctl[c].item))

LateQueue(c) == \A i \in 1..Len(queue[c]) : Late(queue[c][i])
Touched(c) == task.phase \in {"Ready", "NeedsReview"} \/ installs > 0 \/ inst[c] # "none"
Settled(c) ==
  /\ ctl[c].at = "spawn" => task.phase = "Installing" /\ LateQueue(c)
  /\ Touched(c) => ~Working(c) /\ LateQueue(c)
  /\ task.phase \in {"Failed", "Expired"} => ~Touched(c)
Verdicts ==
  ~overlap => /\ \A c \in Controller : Settled(c)
              /\ task.phase \in {"Failed", "Expired"} => installs = 0

\* Credentials are numbered, and each belongs to one request.
Fresh ==
  /\ task.ref <= made
  /\ \A o \in Operator :
       op[o].at \in {"patch", "undo"} => op[o].uid \in 1..made /\ op[o].uid # task.ref
  /\ \A o, p \in Operator :
       op[o].at \in {"patch", "undo"} /\ op[p].at \in {"patch", "undo"} /\ op[o].uid = op[p].uid
         => o = p

\* A sweep that found no enrollment has not missed one.
Nascent(t) == t.phase \in {"absent", ""}
Sweeping ==
  \A c \in Controller : ctl[c].at = "sweep" /\ ctl[c].item.phase = "absent" => Nascent(task)

\* From its preflight to its approval the resource names the credential that
\* exists, and the plan lasts no longer than it.
Checked(t) == t.phase \in {"Preflighting", "AwaitingApproval"}
Backed ==
  Checked(task) =>
    /\ task.ref # 0 /\ (life[task.ref] > 0 => secret = task.ref)
    /\ task.phase = "AwaitingApproval" => left.plan <= life[task.ref]
Planned == ~overlap => Sweeping /\ Backed

\* The whole: what one controller at a time keeps.
OneInv ==
  /\ Inv /\ Asked /\ Finishing /\ Alone /\ Verdicts /\ Fresh /\ Planned
  /\ \A c \in Controller : Ordered(c)

-----------------------------------------------------------------------------
(* The kinds of steps.                                                     *)

\* What the watch of c has still to deliver.
Kept(c) ==
  /\ queue'[c] = queue[c] /\ (ctl'[c] = ctl[c] \/ Watching(c)' \/ ~Watching(c))
  /\ ctl'[c].at = "handle" => ctl'[c] = ctl[c] \/ ~Watching(c)
Dropped(c) == queue'[c] = <<>> /\ ctl'[c].at # "handle"
Heard(c) ==
  /\ queue'[c] = Append(queue[c], task') /\ task'.v = task.v + 1 /\ Watching(c)'
  /\ ctl'[c].at = "handle" => ctl'[c] = ctl[c]
Delivered(c) ==
  /\ queue[c] # <<>> /\ ctl[c].at = "watch" /\ ctl'[c].at = "handle"
  /\ queue'[c] = Tail(queue[c]) /\ ctl'[c].item = Head(queue[c])

\* A credential that goes, and why controller c may take it away.
Wipes(c) ==
  secret' # secret =>
    /\ secret' = 0
    /\ \/ ctl[c].at \in CleanAt \/ ctl[c].at = "spawn" \/ inst[c] # "none"
       \/ ctl[c].at = "sweep" /\ Sweepable(ctl[c].item)

\* The rest of a step of controller c.
OfController(c) ==
  /\ \A d \in Controller \ {c} :
       /\ ctl'[d] = ctl[d] /\ inst'[d] = inst[d]
       /\ Kept(d) \/ (Heard(d) /\ Watching(d))
  /\ UNCHANGED <<op, made, life>> /\ Wipes(c)

\* It starts, goes on, gives up or dies without a write.
Proceeds(c) ==
  /\ UNCHANGED <<task, left, installs>> /\ inst'[c] \in {inst[c], "none"}
  /\ Kept(c) \/ Dropped(c) \/ Delivered(c)
  /\ ctl'[c].at = "handle" => Delivered(c) \/ ctl'[c].item = task
  /\ ctl'[c].at \in Noisy => Working(c) /\ ctl'[c].at \in {"refetch", "fail"}
  /\ ctl'[c].at \in CleanAt => Late(ctl'[c].item)
  /\ ctl'[c].at = "sweep" => ctl'[c].item = task
  /\ ctl'[c].at = "down" => inst'[c] = "none" /\ queue'[c] = <<>>

\* It starts the thread of the installer.
Spawns(c) ==
  /\ UNCHANGED <<task, left, installs>> /\ Kept(c)
  /\ ctl[c].at = "spawn" /\ ctl'[c].at = "watch" /\ inst'[c] = "begun"

\* A write that is refused, or lost, or whose effect is seen.
WriteAt == {"watch", "refetch", "scan", "preflight", "spawn", "clean", "clean or refetch"}
Succeeds(c) ==
  /\ ctl[c].item = task /\ Heard(c) /\ task'.ref = task.ref
  /\ IF Working(c) THEN task'.phase \notin {"Ready", "NeedsReview"}
     ELSE ctl'[c].at \in {"watch", "clean"} /\ task'.phase = "NeedsReview"
  /\ task.phase \in Terminal => ctl[c].at = "fail" /\ task'.phase = "Failed"
  /\ ctl'[c].at = "spawn" => ctl[c].at = "handle" /\ task'.phase = "Installing"
  /\ ctl'[c].at \in CleanAt => Late(ctl'[c].item)
  /\ task'.phase = "Preflighting" => CredentialOK(task)
  /\ task'.phase = "AwaitingApproval" =>
       task.phase = "Preflighting" /\ left'.plan = PlanLife(task)
Writes(c) ==
  /\ UNCHANGED <<inst, installs, secret>>
  /\ ctl[c].at \in {"handle", "scan", "preflight", "fail"} /\ ctl'[c].at \in WriteAt
  /\ Working(c) \/ inst[c] = "none"
  /\ \/ Succeeds(c)
     \/ /\ UNCHANGED <<task, left>> /\ Kept(c) /\ ctl'[c].at \in {"watch", "refetch"}
        /\ ctl'[c].at = "refetch" => Working(c)

\* A step of its installer thread.
Installs(c) ==
  /\ inst[c] # "none" /\ UNCHANGED <<ctl, left>> /\ installs' \in {installs, installs + 1}
  /\ \/ task' = task /\ secret' = secret /\ Kept(c)
     \/ /\ task'.v = task.v + 1 /\ (Kept(c) \/ Heard(c)) /\ task'.ref = task.ref
        /\ Late(task') /\ task'.phase \notin {"Failed", "Expired"}
        /\ task.phase \in Terminal => task'.phase = "NeedsReview"

\* A step of controller c, in a process that is alive or starts now.
ControllerStep(c) ==
  /\ OfController(c)
  /\ \/ Spawns(c) /\ overlap' = overlap
     \/ Installs(c) /\ overlap' = overlap
     \/ Writes(c) /\ overlap' = overlap
     \/ Proceeds(c) /\ Up(c) /\ overlap' = overlap
     \/ Proceeds(c) /\ ~Up(c) /\ overlap' = (overlap \/ \E d \in Controller : Up(d))

\* A request of the console: it ends, reads, creates its credential, is told
\* of a conflict, or patches the resource it has read.
Ends(o) ==
  /\ op'[o].at = "idle" /\ UNCHANGED <<task, made, life>>
  /\ secret' # secret => secret' = 0 /\ op[o].at = "undo" /\ secret = op[o].uid
Reads(o) ==
  /\ op'[o].item = task /\ UNCHANGED <<task, credential>>
  /\ \/ op'[o].at = "secret" /\ task.phase = "AwaitingPreflight"
     \/ op'[o].at = "join" /\ task.phase = "AwaitingApproval"
Creates(o) ==
  /\ op[o].at = "secret" /\ secret = 0 /\ task' = task
  /\ secret' = made + 1 /\ made' = made + 1
  /\ life' = [life EXCEPT ![made + 1] = SecretTTL]
  /\ \/ op'[o].at = "idle"
     \/ op'[o].at = "patch" /\ op'[o].uid = made + 1 /\ op'[o].item = op[o].item
Conflicts(o) ==
  /\ op[o].at = "patch" /\ op'[o].at = "undo" /\ UNCHANGED <<task, credential>>
  /\ op'[o].uid = op[o].uid /\ op'[o].item = op[o].item
Patches(o) ==
  /\ op[o].at \in {"patch", "join"} /\ op[o].item = task /\ op'[o].at = "idle"
  /\ task'.v = task.v + 1 /\ task'.phase = task.phase /\ UNCHANGED credential
  /\ task'.ref = IF op[o].at = "patch" THEN op[o].uid ELSE task.ref
Asks(o) ==
  /\ \A p \in Operator \ {o} : op'[p] = op[p]
  /\ Ends(o) \/ Reads(o) \/ Creates(o) \/ Conflicts(o) \/ Patches(o)

Submits ==
  /\ task = NoTask /\ task'.phase = "" /\ task'.ref = 0 /\ task'.v = 1
  /\ UNCHANGED <<op, credential>>

ConsoleStep ==
  /\ UNCHANGED <<left, ctl, inst, installs, overlap>>
  /\ \A c \in Controller : Kept(c) \/ Heard(c)
  /\ Submits \/ \E o \in Operator : Asks(o)

Passes ==
  /\ UNCHANGED <<task, secret, made, op, ctl, queue, inst, installs, overlap>>
  /\ left'.plan = Less(left.plan) /\ \A u \in Uids : life'[u] = Less(life[u])

StepKinds ==
  ConsoleStep \/ Passes \/ (\E c \in Controller : ControllerStep(c)) \/ UNCHANGED vars
-----------------------------------------------------------------------------
(* Every step is of one of these kinds.                                    *)

LEMMA AtSets ==
  /\ \A at \in {"scan", "preflight", "spawn", "refetch", "fail"} : at \in Noisy /\ at \notin CleanAt
  /\ \A at \in {"down", "boot", "sweep", "list", "watch", "handle"} : at \notin Noisy \cup CleanAt
  /\ "clean" \notin Noisy /\ "clean" \in CleanAt
  /\ \A at \in CleanAt : at \in {"clean"} \cup Noisy
  /\ \A at \in WriteAt \ Noisy : at \in {"watch", "clean"}
  /\ \A at \in WriteAt : at \notin {"down", "boot", "sweep", "list", "handle"}
BY Zenon DEF Noisy, CleanAt, WriteAt

LEMMA SameKept ==
  ASSUME NEW c \in Controller, queue'[c] = queue[c], ctl'[c] = ctl[c] PROVE Kept(c)
BY DEF Kept

LEMMA PublishHears ==
  ASSUME TypeOK, NEW t \in Task, t.v = task.v + 1, Publish(t), NEW d \in Controller, ctl'[d] = ctl[d]
  PROVE task' = t /\ (Kept(d) \/ (Heard(d) /\ Watching(d)))
<1>1. task' = t /\ queue'[d] = IF Watching(d) THEN Append(queue[d], t) ELSE queue[d]
  BY DEF TypeOK, Publish
<1>2. CASE Watching(d)
  BY <1>1, <1>2 DEF Heard, Watching
<1>3. CASE ~Watching(d)
  BY <1>1, <1>3, SameKept
<1> QED BY <1>1, <1>2, <1>3

(* What Go does to the controller.                                         *)
LEMMA GoShape ==
  ASSUME Inv, NEW c \in Controller, NEW at \in ControllerAt, NEW item \in Task,
         Go(c, at, item)
  PROVE /\ ctl'[c].at = at /\ ctl'[c].item = IF at = "watch" THEN NoTask ELSE item
        /\ \A d \in Controller \ {c} : ctl'[d] = ctl[d]
<1>1. ctl \in [Controller -> CtlType]
  BY DEF Inv, TypeOK, CtlType
<1>2. PICK k \in CtlType : /\ ctl' = [ctl EXCEPT ![c] = k] /\ k.at = at
                           /\ k.item = IF at = "watch" THEN NoTask ELSE item
  BY GoEffect
<1> QED BY <1>1, <1>2

(* Steps that leave the queues alone or change only the one of c.          *)
LEMMA OthersKept ==
  ASSUME NEW c \in Controller,
         \A d \in Controller \ {c} : ctl'[d] = ctl[d] /\ inst'[d] = inst[d] /\ queue'[d] = queue[d],
         UNCHANGED <<op, made, life>>, Wipes(c)
  PROVE OfController(c)
BY SameKept DEF OfController

(* The actions that only move the controller.                              *)
LEMMA MoveKinds ==
  ASSUME Inv, NEW c \in Controller,
         \/ AlreadyTerminal(c) \/ Busy(c) \/ PreflightRefused(c) \/ HostFails(c)
         \/ JoinRefused(c) \/ StillWaiting(c) \/ Refetch(c)
  PROVE ControllerStep(c)
<1>1. PICK at \in {"clean", "watch", "refetch", "fail"}, item \in {Item(c), NoTask, task} :
        /\ Go(c, at, item)
        /\ at \in {"refetch", "fail"} => Working(c)
        /\ at = "clean" => Late(item)
        /\ Up(c) /\ Watching(c)
  <2>1. CASE AlreadyTerminal(c)
    BY <2>1 DEF AlreadyTerminal, Handling, Item, Terminal, Late, Early, Up, Watching
  <2>2. CASE Busy(c) \/ StillWaiting(c)
    BY <2>2 DEF Busy, StillWaiting, Open, Reached, Idle, Pending, Handling, Return, Up, Watching
  <2>3. CASE HostFails(c)
    BY <2>3 DEF HostFails, Raise, Working, Noisy, Up, Watching
  <2>4. CASE PreflightRefused(c) \/ JoinRefused(c)
    BY <2>4 DEF PreflightRefused, JoinRefused, Raise, Open, Reached, Idle, Pending, Handling,
                Item, Working, Late, Early, Up, Watching
  <2>5. CASE Refetch(c)
    BY <2>5 DEF Refetch, Return, Working, Noisy, Up, Watching
  <2> QED BY <2>1, <2>2, <2>3, <2>4, <2>5
<1>2. /\ UNCHANGED <<task, left, made, life, secret, inst, op, queue, installs, overlap>>
  BY DEF AlreadyTerminal, Busy, PreflightRefused, HostFails, JoinRefused, StillWaiting,
         Refetch, Raise, resource, credential, history
<1>3. /\ ctl'[c].at = at /\ ctl'[c].item = IF at = "watch" THEN NoTask ELSE item
      /\ \A d \in Controller \ {c} : ctl'[d] = ctl[d]
  <2>1. item \in Task /\ at \in ControllerAt
    BY ItemType, NoTaskType DEF ControllerAt
  <2> QED BY <1>1, <2>1, GoShape
<1>4. OfController(c)
  BY <1>2, <1>3, OthersKept DEF Wipes
<1>5. Kept(c)
  BY <1>2, <1>3 DEF Kept, Watching
<1>6. Proceeds(c)
  BY <1>1, <1>2, <1>3, <1>5, AtSets DEF Proceeds
<1> QED BY <1>1, <1>2, <1>4, <1>6 DEF ControllerStep

(* clean_secret, and join after its durable write.                         *)
LEMMA CleanKinds ==
  ASSUME Inv, NEW c \in Controller, CleanSecret(c) \/ Spawn(c)
  PROVE ControllerStep(c)
<1>1. PICK at \in {"watch", "refetch"}, item \in {Item(c), NoTask} : Go(c, at, item)
  BY DEF CleanSecret, Spawn, Return
<1>2. /\ ctl'[c].at = at /\ \A d \in Controller \ {c} : ctl'[d] = ctl[d]
  <2>1. item \in Task /\ at \in ControllerAt
    BY ItemType, NoTaskType DEF ControllerAt
  <2> QED BY <1>1, <2>1, GoShape
<1>3. /\ UNCHANGED <<task, left, made, life, op, queue, installs, overlap>>
      /\ secret' \in {secret, 0}
      /\ ctl[c].at \in CleanAt \cup {"spawn"}
      /\ inst' = inst \/ (inst' = [inst EXCEPT ![c] = "begun"] /\ ctl[c].at = "spawn" /\ Return(c))
      /\ ctl'[c].at = "refetch" => ctl[c].at \in Noisy
  <2>1. CASE CleanSecret(c)
    <3>1. ctl'[c].at = "refetch" => ctl[c].at # "clean"
      <4>1. CASE Return(c)
        <5>1. "watch" \in ControllerAt
          BY DEF ControllerAt
        <5> QED BY <4>1, <5>1, GoShape, NoTaskType DEF Return
      <4> QED BY <2>1, <4>1 DEF CleanSecret
    <3>2. ctl[c].at \in CleanAt /\ (ctl'[c].at = "refetch" => ctl[c].at \in Noisy)
      BY <2>1, <3>1, Zenon DEF CleanSecret, CleanAt, Noisy
    <3>3. inst' = inst /\ UNCHANGED <<task, left, made, life, op, queue, installs, overlap>>
      BY <2>1 DEF CleanSecret, resource, history
    <3>4. secret' \in {secret, Cleaned(Item(c))}
      BY <2>1, Zenon DEF CleanSecret
    <3> QED BY <3>2, <3>3, <3>4 DEF Cleaned
  <2>2. CASE Spawn(c)
    BY <2>2, AtSets DEF Spawn, Cleaned, resource, history
  <2> QED BY <2>1, <2>2
<1>4. inst \in [Controller -> InstallerAt]
  BY DEF Inv, TypeOK
<1>5. OfController(c)
  BY <1>2, <1>3, <1>4, OthersKept DEF Wipes
<1>6. Kept(c) /\ Up(c)
  BY <1>2, <1>3, AtSets DEF Kept, Watching, Up
<1>7. CASE inst' = inst
  BY <1>2, <1>3, <1>5, <1>6, <1>7, AtSets DEF Proceeds, Working, ControllerStep
<1>8. CASE inst' # inst
  <2>1. ctl'[c].at = "watch"
    <3>1. "watch" \in ControllerAt
      BY DEF ControllerAt
    <3> QED BY <1>3, <1>8, <3>1, GoShape, NoTaskType DEF Return
  <2> QED BY <1>3, <1>4, <1>5, <1>6, <1>8, <2>1 DEF Spawns, ControllerStep
<1> QED BY <1>7, <1>8

(* The loop of the controller.                                             *)
LEMMA LoopKinds ==
  ASSUME Inv, NEW c \in Controller,
         \/ Start(c) \/ Crash(c) \/ List(c) \/ Event(c) \/ WatchFails(c)
         \/ CleanupList(c) \/ CleanupDelete(c)
  PROVE ControllerStep(c)
<1>1. /\ ctl \in [Controller -> CtlType] /\ queue \in [Controller -> Seq(Task)]
      /\ inst \in [Controller -> InstallerAt]
  BY DEF Inv, TypeOK, CtlType
<1>2. /\ UNCHANGED <<task, left, made, life, op, installs>>
      /\ \A d \in Controller \ {c} : ctl'[d] = ctl[d] /\ inst'[d] = inst[d] /\ queue'[d] = queue[d]
  BY <1>1 DEF Start, Crash, List, Event, WatchFails, CleanupList, CleanupDelete,
              resource, credential, history
<1>3. OfController(c)
  <2>1. Wipes(c)
    BY DEF Start, Crash, List, Event, WatchFails, CleanupList, CleanupDelete, credential, Wipes
  <2> QED BY <1>2, <2>1, OthersKept
<1>4. CASE Start(c)
  <2>1. ctl'[c] = [Down EXCEPT !.at = "boot"] /\ ctl[c].at = "down" /\ queue' = queue /\ inst' = inst
        /\ overlap' = (overlap \/ \E d \in Controller : Up(d))
    BY <1>1, <1>4, Zenon DEF Start
  <2>2. ctl'[c].at = "boot"
    BY <2>1 DEF Down
  <2>3. Kept(c)
    BY <2>1, <2>2 DEF Kept, Watching
  <2>4. Proceeds(c) /\ ~Up(c)
    BY <1>2, <2>1, <2>2, <2>3, AtSets DEF Proceeds, Up
  <2> QED BY <1>3, <2>1, <2>4, Zenon DEF ControllerStep
<1>5. CASE Crash(c)
  <2>1. ctl'[c].at = "down" /\ queue'[c] = <<>> /\ inst'[c] = "none" /\ Up(c) /\ overlap' = overlap
    BY <1>1, <1>5 DEF Crash, Down, history
  <2>2. Proceeds(c)
    BY <1>2, <2>1, AtSets DEF Proceeds, Dropped
  <2> QED BY <1>3, <2>1, <2>2 DEF ControllerStep
<1>6. CASE List(c)
  <2>1. /\ ctl'[c].at \in {"watch", "handle"} /\ ctl'[c].item = task /\ queue' = queue
        /\ inst' = inst /\ ctl[c].at = "list" /\ overlap' = overlap
    BY <1>1, <1>6 DEF List, CtlType, history
  <2>2. Kept(c) /\ Up(c)
    BY <2>1 DEF Kept, Watching, Up
  <2>3. Proceeds(c)
    BY <1>2, <2>1, <2>2, AtSets DEF Proceeds
  <2> QED BY <1>3, <2>1, <2>2, <2>3 DEF ControllerStep
<1>7. CASE Event(c)
  <2>1. /\ ctl'[c].at = "handle" /\ ctl'[c].item = Head(queue[c]) /\ queue'[c] = Tail(queue[c])
        /\ inst' = inst /\ ctl[c].at = "watch" /\ queue[c] # <<>> /\ overlap' = overlap
    BY <1>1, <1>7 DEF Event, CtlType, history
  <2>2. Delivered(c) /\ Up(c)
    BY <2>1 DEF Delivered, Up
  <2>3. Proceeds(c)
    BY <1>2, <2>1, <2>2, AtSets DEF Proceeds
  <2> QED BY <1>3, <2>1, <2>2, <2>3 DEF ControllerStep
<1>8. CASE WatchFails(c) \/ CleanupList(c)
  <2>1. /\ ctl'[c].at \in {"list", "sweep"} /\ (ctl'[c].at = "sweep" => ctl'[c].item = task)
        /\ queue'[c] = <<>> /\ inst' = inst /\ Up(c) /\ overlap' = overlap
    BY <1>1, <1>8 DEF WatchFails, CleanupList, CtlType, Up, history
  <2>2. Proceeds(c)
    BY <1>2, <2>1, AtSets DEF Proceeds, Dropped
  <2> QED BY <1>3, <2>1, <2>2 DEF ControllerStep
<1>9. CASE CleanupDelete(c)
  <2>1. /\ ctl'[c].at = "list" /\ ctl[c].at = "sweep" /\ queue' = queue /\ inst' = inst
        /\ overlap' = overlap
    BY <1>1, <1>9 DEF CleanupDelete, CtlType, history
  <2>2. Kept(c) /\ Up(c)
    BY <2>1 DEF Kept, Watching, Up
  <2>3. Proceeds(c)
    BY <1>2, <2>1, <2>2, AtSets DEF Proceeds
  <2> QED BY <1>3, <2>1, <2>2, <2>3 DEF ControllerStep
<1> QED BY <1>4, <1>5, <1>6, <1>7, <1>8, <1>9

LEMMA RetireKinds ==
  ASSUME Inv, NEW c \in Controller, Retire(c) PROVE ControllerStep(c)
<1>1. ctl \in [Controller -> CtlType] /\ queue \in [Controller -> Seq(Task)]
  BY DEF Inv, TypeOK, CtlType
<1>2. ctl[c].at \in RetireAt
  BY DEF Retire, TakeRetirement, RetireDone, RetireInterrupted, BeginRetire, RetireNode,
         RetireFails, RetireInventory, RetireAgain, RetireDelete, RetireWrite, RetireError, RetireAt
<1>3. PICK at \in RetireAt, startup \in {ctl[c].startup, ctl[c].first, FALSE} :
        ctl' = [ctl EXCEPT ![c] = [@ EXCEPT !.at = at, !.startup = startup]]
  BY RetireSteps DEF RetireMove
<1>4. /\ queue' = queue \/ queue' = [queue EXCEPT ![c] = <<>>]
      /\ UNCHANGED <<task, left, secret, made, life, op, inst, installs, overlap>>
  BY RetireSteps DEF credential
<1>5. ctl'[c].at = at /\ \A d \in Controller \ {c} : ctl'[d] = ctl[d]
  BY <1>1, <1>3 DEF CtlType
<1>6. OfController(c)
  BY <1>1, <1>4, <1>5, OthersKept DEF Wipes
<1>7. at \in RetireAt /\ Up(c) /\ (Kept(c) \/ Dropped(c))
  BY <1>1, <1>2, <1>4, <1>5 DEF RetireAt, Kept, Dropped, Watching, Up
<1>8. at \notin Noisy \cup CleanAt \cup {"handle", "sweep", "down"}
  BY Zenon DEF RetireAt, Noisy, CleanAt
<1>9. Proceeds(c)
  BY <1>4, <1>5, <1>7, <1>8 DEF Proceeds
<1> QED BY <1>4, <1>6, <1>7, <1>9 DEF ControllerStep

(* A write: what it did, and where it leaves the controller.               *)
LEMMA WriteShape ==
  ASSUME Inv, NEW c \in Controller, NEW t \in Task,
         NEW next \in ControllerAt, NEW error \in {"refetch", "watch"},
         Write(c, t, next, error), ctl[c].at # "refetch", t.v = ctl[c].item.v
  PROVE /\ \A d \in Controller \ {c} : ctl'[d] = ctl[d]
        /\ \/ UNCHANGED <<task, queue>> /\ ctl'[c].at \in {"watch", error}
           \/ /\ ctl[c].item = task /\ task'.v = task.v + 1
              /\ task'.phase = t.phase /\ task'.ref = t.ref
              /\ \A d \in Controller :
                   queue'[d] = IF Watching(d) THEN Append(queue[d], task') ELSE queue[d]
              /\ ctl'[c].at \in {next, error}
              /\ ctl'[c].at \in CleanAt => ctl'[c].item.phase = t.phase
<1> DEFINE new == [t EXCEPT !.observed = TRUE, !.v = @ + 1]
<1>1. new \in Task /\ new.v = t.v + 1 /\ new.phase = t.phase /\ new.ref = t.ref
  <2>1. t.v + 1 \in Nat
    BY DEF Task
  <2> QED BY <2>1 DEF Task
<1>2. Current(t) => ctl[c].item = task /\ new.v = task.v + 1
  BY <1>1 DEF Inv, Copies, CopyOf, Current
<1>3. error \in ControllerAt /\ "watch" \in ControllerAt
  BY DEF ControllerAt
<1>4. \/ Current(t) /\ Publish(new) /\ Go(c, next, new)
      \/ UNCHANGED <<task, queue>> /\ Return(c)
      \/ UNCHANGED <<task, queue>> /\ Go(c, error, t)
      \/ Current(t) /\ Publish(new) /\ Go(c, error, t)
  BY DEF Write
<1> HIDE DEF new
<1>5. Publish(new) =>
        /\ task' = new
        /\ \A d \in Controller :
             queue'[d] = IF Watching(d) THEN Append(queue[d], task') ELSE queue[d]
  BY DEF Publish
<1>6. CASE Current(t) /\ Publish(new) /\ Go(c, next, new)
  <2>1. /\ ctl'[c].at = next /\ ctl'[c].item = IF next = "watch" THEN NoTask ELSE new
        /\ \A d \in Controller \ {c} : ctl'[d] = ctl[d]
    BY <1>1, <1>6, GoShape
  <2>2. ctl'[c].at \in CleanAt => next # "watch"
    BY <2>1, AtSets
  <2> QED BY <1>1, <1>2, <1>5, <1>6, <2>1, <2>2
<1>7. CASE UNCHANGED <<task, queue>> /\ Return(c)
  BY <1>3, <1>7, GoShape, NoTaskType DEF Return
<1>8. CASE UNCHANGED <<task, queue>> /\ Go(c, error, t)
  BY <1>3, <1>8, GoShape
<1>9. CASE Current(t) /\ Publish(new) /\ Go(c, error, t)
  <2>1. ctl'[c].at = error /\ \A d \in Controller \ {c} : ctl'[d] = ctl[d]
    BY <1>3, <1>9, GoShape
  <2>2. ctl'[c].at \notin CleanAt
    BY <2>1, AtSets
  <2> QED BY <1>1, <1>2, <1>5, <1>9, <2>1, <2>2
<1> QED BY <1>4, <1>6, <1>7, <1>8, <1>9

\* What controller c may write over its copy, and where it is then.
Writable(c, t, next, error) ==
  /\ IF Working(c) THEN t.phase \notin {"Ready", "NeedsReview"}
     ELSE inst[c] = "none" /\ next = "clean" /\ error = "watch" /\ t.phase = "NeedsReview"
  /\ ctl[c].item.phase \in Terminal => ctl[c].at = "fail" /\ t.phase = "Failed"
  /\ next = "spawn" => ctl[c].at = "handle" /\ t.phase = "Installing"
  /\ next \in CleanAt => Late(t)
  /\ t.phase = "Preflighting" => CredentialOK(ctl[c].item)
  /\ t.phase = "AwaitingApproval" =>
       /\ ctl[c].item.phase = "Preflighting"
       /\ task' # task => left'.plan = PlanLife(ctl[c].item)

LEMMA WriteKind ==
  ASSUME Inv, NEW c \in Controller, NEW t \in Task,
         NEW next \in WriteAt, NEW error \in {"refetch", "watch"},
         Write(c, t, next, error), t.v = ctl[c].item.v, t.ref = ctl[c].item.ref,
         ctl[c].at \in {"handle", "scan", "preflight", "fail"},
         UNCHANGED <<op, inst, installs, secret, made, life, overlap>>,
         task' = task => left' = left,
         Writable(c, t, next, error)
  PROVE ControllerStep(c)
<1>1. next \in ControllerAt /\ Watching(c) /\ Up(c) /\ ctl[c].at # "refetch"
  BY DEF WriteAt, ControllerAt, Watching, Up
<1>2. /\ \A d \in Controller \ {c} : ctl'[d] = ctl[d]
      /\ \/ UNCHANGED <<task, queue>> /\ ctl'[c].at \in {"watch", error}
         \/ /\ ctl[c].item = task /\ task'.v = task.v + 1
            /\ task'.phase = t.phase /\ task'.ref = t.ref
            /\ \A d \in Controller :
                 queue'[d] = IF Watching(d) THEN Append(queue[d], task') ELSE queue[d]
            /\ ctl'[c].at \in {next, error}
            /\ ctl'[c].at \in CleanAt => ctl'[c].item.phase = t.phase
  BY <1>1, WriteShape
<1>3. ctl'[c].at \in WriteAt
  BY <1>2 DEF WriteAt
<1>4. CASE UNCHANGED <<task, queue>> /\ ctl'[c].at \in {"watch", error}
  <2>1. OfController(c)
    BY <1>2, <1>4, OthersKept DEF Wipes
  <2>2. Kept(c)
    BY <1>4 DEF Kept, Watching
  <2>3. /\ ctl'[c].at = "refetch" => Working(c)
        /\ Working(c) \/ inst[c] = "none"
    BY <1>4, Zenon DEF Writable
  <2>4. Writes(c)
    BY <1>3, <1>4, <2>2, <2>3 DEF Writes
  <2> QED BY <2>1, <2>4 DEF ControllerStep
<1>5. CASE ~(UNCHANGED <<task, queue>> /\ ctl'[c].at \in {"watch", error})
  <2>1. /\ ctl[c].item = task /\ task'.v = task.v + 1
        /\ task'.phase = t.phase /\ task'.ref = t.ref
        /\ \A d \in Controller :
             queue'[d] = IF Watching(d) THEN Append(queue[d], task') ELSE queue[d]
        /\ ctl'[c].at \in {next, error}
        /\ ctl'[c].at \in CleanAt => ctl'[c].item.phase = t.phase
    BY <1>2, <1>5
  <2>2. task.v \in Nat
    BY DEF Inv, TypeOK, Task
  <2>3. task' # task
    BY <2>1, <2>2
  <2>4. ASSUME NEW d \in Controller \ {c} PROVE Kept(d) \/ (Heard(d) /\ Watching(d))
    BY <1>2, <2>1 DEF Kept, Heard, Watching
  <2>5. OfController(c)
    BY <1>2, <2>4 DEF OfController, Wipes
  <2>6. Heard(c)
    BY <1>1, <1>3, <2>1 DEF Heard, Watching, WriteAt
  <2>7. Succeeds(c)
    <3>1. IF Working(c) THEN task'.phase \notin {"Ready", "NeedsReview"}
          ELSE ctl'[c].at \in {"watch", "clean"} /\ task'.phase = "NeedsReview"
      BY <2>1, Zenon DEF Writable
    <3>2. task.phase \in Terminal => ctl[c].at = "fail" /\ task'.phase = "Failed"
      BY <2>1, Zenon DEF Writable
    <3>3. ctl'[c].at = "spawn" => ctl[c].at = "handle" /\ task'.phase = "Installing"
      BY <2>1, Zenon DEF Writable
    <3>4. ctl'[c].at \in CleanAt => Late(ctl'[c].item)
      <4>1. ctl'[c].at \in CleanAt => next \in CleanAt
        BY <2>1, AtSets
      <4> QED BY <2>1, <4>1, Zenon DEF Writable, Late
    <3>5. /\ task'.phase = "Preflighting" => CredentialOK(task)
          /\ task'.phase = "AwaitingApproval" =>
               task.phase = "Preflighting" /\ left'.plan = PlanLife(task)
      BY <2>1, <2>3, Zenon DEF Writable
    <3> QED BY <2>1, <2>6, <3>1, <3>2, <3>3, <3>4, <3>5, Zenon DEF Succeeds
  <2>8. Working(c) \/ inst[c] = "none"
    BY Zenon DEF Writable
  <2>9. Writes(c)
    BY <1>3, <2>7, <2>8 DEF Writes
  <2> QED BY <2>5, <2>9 DEF ControllerStep
<1> QED BY <1>4, <1>5

LEMMA FailKind ==
  ASSUME Inv, NEW c \in Controller, NEW phase \in {"Failed", "Expired", "NeedsReview"},
         NEW error \in {"refetch", "watch"}, Fail(c, phase, error),
         ctl[c].at \in {"handle", "fail"},
         Working(c) => phase \in {"Failed", "Expired"},
         ~Working(c) => inst[c] = "none" /\ error = "watch" /\ phase = "NeedsReview",
         ctl[c].item.phase \in Terminal => ctl[c].at = "fail" /\ phase = "Failed"
  PROVE ControllerStep(c)
<1> DEFINE t == [ctl[c].item EXCEPT !.phase = phase]
           next == IF error = "watch" THEN "clean" ELSE "clean or refetch"
<1>1. t \in Task /\ t.v = ctl[c].item.v /\ t.ref = ctl[c].item.ref /\ t.phase = phase
  <2>1. phase \in Phases
    BY Zenon DEF Phases, Terminal
  <2> QED BY <2>1, ItemType, PhaseType DEF Item
<1>2. next \in WriteAt /\ next \in CleanAt /\ (error = "watch" => next = "clean")
  BY Zenon DEF WriteAt, CleanAt
<1>3. /\ UNCHANGED <<op, inst, installs, secret, made, life, overlap>> /\ left' = left
      /\ ctl[c].at \in {"handle", "scan", "preflight", "fail"}
  BY DEF Fail, credential, history
<1>4. Write(c, t, next, error)
  BY DEF Fail
<1> HIDE DEF t, next
<1>5. Writable(c, t, next, error)
  <2>1. Late(t) /\ t.phase \notin {"Ready", "Preflighting", "AwaitingApproval"} /\ next # "spawn"
    BY <1>1, <1>2, AtSets DEF Late, Early
  <2>2. /\ Working(c) => t.phase \notin {"Ready", "NeedsReview"}
        /\ ~Working(c) => inst[c] = "none" /\ next = "clean" /\ error = "watch"
                          /\ t.phase = "NeedsReview"
    BY <1>1, <1>2
  <2>3. ctl[c].item.phase \in Terminal => ctl[c].at = "fail" /\ t.phase = "Failed"
    BY <1>1
  <2> QED BY <1>2, <2>1, <2>2, <2>3, Zenon DEF Writable
<1> QED BY <1>1, <1>2, <1>3, <1>4, <1>5, WriteKind

(* The actions that write a final phase.                                   *)
LEMMA FailKinds ==
  ASSUME Inv, NEW c \in Controller,
         \/ Reject(c) \/ Interrupted(c) \/ PreflightInterrupted(c) \/ PlanExpired(c)
         \/ ScanExpired(c) \/ InvalidTransition(c) \/ FailFresh(c)
  PROVE ControllerStep(c)
<1>1. CASE Interrupted(c)
  <2>1. /\ Fail(c, "NeedsReview", "watch") /\ ctl[c].at = "handle" /\ inst[c] = "none"
        /\ ctl[c].item.phase \in {"Installing", "Verifying"}
    BY <1>1 DEF Interrupted, Idle, Pending, Handling, Item
  <2>2. ~Working(c)
    BY <2>1, AtSets DEF Working, Late, Early
  <2>3. ctl[c].item.phase \notin Terminal
    BY <2>1 DEF Terminal
  <2> QED BY <2>1, <2>2, <2>3, FailKind
<1>2. CASE FailFresh(c)
  <2>1. Fail(c, "Failed", "watch") /\ ctl[c].at = "fail" /\ Working(c)
    BY <1>2, AtSets DEF FailFresh, Working
  <2> QED BY <2>1, FailKind
<1>3. CASE \/ Reject(c) \/ PreflightInterrupted(c) \/ PlanExpired(c)
           \/ ScanExpired(c) \/ InvalidTransition(c)
  <2>1. PICK phase \in {"Failed", "Expired"}, error \in {"refetch", "watch"} :
          Fail(c, phase, error)
    BY <1>3 DEF Reject, PreflightInterrupted, PlanExpired, ScanExpired, InvalidTransition
  <2>2. ctl[c].at = "handle" /\ ctl[c].item.phase \notin Terminal
        /\ ctl[c].item.phase \notin {"Installing", "Verifying"}
    BY <1>3 DEF Reject, PreflightInterrupted, PlanExpired, ScanExpired, InvalidTransition,
                Pending, Idle, Reached, Open, Handling, Item
  <2>3. ctl[c].item.phase \in Phases
    BY ItemType DEF Item, Task
  <2>4. Working(c)
    BY <2>2, <2>3 DEF Working, Late, Early, Phases
  <2> QED BY <2>1, <2>2, <2>4, FailKind
<1> QED BY <1>1, <1>2, <1>3

(* The other writes of reconcile.                                          *)
LEMMA ProgressKinds ==
  ASSUME Inv, NEW c \in Controller, Scan(c) \/ Scanned(c) \/ Preflight(c) \/ Join(c)
  PROVE ControllerStep(c)
<1>1. PICK phase \in {"Scanning", "AwaitingPreflight", "Preflighting", "Installing"},
           next \in {"scan", "watch", "preflight", "spawn"} :
        /\ Write(c, [ctl[c].item EXCEPT !.phase = phase], next, "refetch")
        /\ next = "spawn" => ctl[c].at = "handle" /\ phase = "Installing"
        /\ phase = "Preflighting" => CredentialOK(ctl[c].item)
  BY DEF Scan, Scanned, Preflight, Join, Item, Open, Reached, Idle, Pending, Handling
<1> DEFINE t == [ctl[c].item EXCEPT !.phase = phase]
<1>2. t \in Task /\ t.v = ctl[c].item.v /\ t.ref = ctl[c].item.ref /\ t.phase = phase
  BY ItemType, PhaseType DEF Phases, Item
<1>3. /\ UNCHANGED <<op, inst, installs, secret, made, life, overlap>>
      /\ task' = task => left' = left
  BY DEF Scan, Scanned, Preflight, Join, credential, history
<1>4. /\ ctl[c].at \in {"handle", "scan"}
      /\ ctl[c].item.phase \notin Terminal /\ Working(c)
  <2>1. CASE Scanned(c)
    <3>1. ctl[c].at = "scan" /\ ctl[c].item.phase = "Scanning"
      BY <2>1 DEF Scanned, Inv, Places, PlaceOK
    <3> QED BY <3>1, AtSets DEF Working, Terminal
  <2>2. CASE ~Scanned(c)
    <3>1. /\ ctl[c].at = "handle" /\ ctl[c].item.phase \notin Terminal
          /\ ctl[c].item.phase \notin {"Installing", "Verifying"}
      BY <2>2 DEF Scan, Preflight, Join, Open, Reached, Idle, Pending, Handling, Item
    <3>2. ctl[c].item.phase \in Phases
      BY ItemType DEF Item, Task
    <3> QED BY <3>1, <3>2 DEF Working, Late, Early, Phases
  <2> QED BY <2>1, <2>2
<1>5. next \in WriteAt /\ next \notin CleanAt
  BY AtSets DEF WriteAt
<1>6. Writable(c, t, next, "refetch")
  <2>1. t.phase \notin {"Ready", "NeedsReview", "AwaitingApproval"}
    BY <1>2
  <2> HIDE DEF t
  <2> QED BY <1>1, <1>2, <1>4, <1>5, <2>1, Zenon DEF Writable
<1>7. ctl[c].at \in {"handle", "scan", "preflight", "fail"} /\ Write(c, t, next, "refetch")
  BY <1>1, <1>4
<1> HIDE DEF t
<1> QED BY <1>2, <1>3, <1>5, <1>6, <1>7, WriteKind

(* A preflight gives the plan the life of its credential.                  *)
LEMMA ProbedKinds ==
  ASSUME Inv, NEW c \in Controller, NEW ok \in BOOLEAN, Probed(c, ok)
  PROVE ControllerStep(c)
<1> DEFINE t == [ctl[c].item EXCEPT !.phase = IF ok THEN "AwaitingApproval" ELSE "Failed",
                                    !.canJoin = ok]
           next == IF ok THEN "watch" ELSE "clean or refetch"
<1>1. /\ t \in Task /\ t.v = ctl[c].item.v /\ t.ref = ctl[c].item.ref
      /\ t.phase = IF ok THEN "AwaitingApproval" ELSE "Failed"
  BY ItemType DEF Phases, Terminal, Item, Task
<1>2. /\ next \in WriteAt /\ next # "spawn" /\ (next \in CleanAt => ~ok)
  BY Zenon DEF WriteAt, CleanAt
<1>3. /\ UNCHANGED <<op, inst, installs, secret, made, life, overlap>>
      /\ task' = task => left' = left
      /\ task' # task => left'.plan = PlanLife(ctl[c].item)
  <2>1. left.plan \in 0..PlanTTL /\ left \in [scan : 0..ScanTTL, plan : 0..PlanTTL]
    BY DEF Inv, TypeOK
  <2> QED BY <2>1 DEF Probed, credential, history, Item
<1>4. ctl[c].at = "preflight" /\ ctl[c].item.phase = "Preflighting" /\ Working(c)
  BY AtSets DEF Probed, Inv, Places, PlaceOK, Working
<1>5. Write(c, t, next, "refetch")
  BY DEF Probed, Item
<1> HIDE DEF t, next
<1>6. Writable(c, t, next, "refetch")
  <2>1. t.phase \notin {"Ready", "NeedsReview", "Preflighting"} /\ (~ok => Late(t))
    BY <1>1 DEF Late, Early
  <2>2. ctl[c].item.phase \notin Terminal
    BY <1>4 DEF Terminal
  <2> QED BY <1>2, <1>3, <1>4, <2>1, <2>2, Zenon DEF Writable
<1>7. ctl[c].at \in {"handle", "scan", "preflight", "fail"}
  BY <1>4
<1> QED BY <1>1, <1>2, <1>3, <1>5, <1>6, <1>7, WriteKind

(* The installer.                                                          *)
LEMMA ReportHeard ==
  ASSUME Inv, NEW phase \in Phases, Report(phase)
  PROVE /\ task'.v = task.v + 1 /\ task'.ref = task.ref /\ task'.phase = phase
        /\ \A d \in Controller : ctl'[d] = ctl[d] => Kept(d) \/ (Heard(d) /\ Watching(d))
<1> DEFINE t == [task EXCEPT !.phase = phase, !.observed = TRUE, !.v = @ + 1]
<1>1. task.v + 1 \in Nat /\ task \in Task /\ TypeOK
  <2>1. TypeOK
    BY DEF Inv
  <2>2. task \in Task
    BY <2>1 DEF TypeOK
  <2> QED BY <2>1, <2>2 DEF Task
<1>2. t \in Task /\ t.v = task.v + 1 /\ t.phase = phase /\ t.ref = task.ref
  BY <1>1 DEF Task
<1>3. Publish(t)
  BY DEF Report
<1> HIDE DEF t
<1>4. task' = t
  BY <1>3 DEF Publish
<1>5. ASSUME NEW d \in Controller, ctl'[d] = ctl[d] PROVE Kept(d) \/ (Heard(d) /\ Watching(d))
  BY <1>1, <1>2, <1>3, <1>5, PublishHears
<1> QED BY <1>2, <1>4, <1>5

LEMMA InstallerKinds ==
  ASSUME Inv, NEW c \in Controller, Installer(c) PROVE ControllerStep(c)
<1>1. inst \in [Controller -> InstallerAt] /\ installs \in Nat
  BY DEF Inv, TypeOK
<1>2. /\ inst[c] # "none" /\ UNCHANGED <<ctl, op, left, made, life, overlap>>
      /\ installs' \in {installs, installs + 1}
      /\ \A d \in Controller \ {c} : inst'[d] = inst[d]
      /\ secret' \in {secret, Cleaned(task)}
  BY <1>1 DEF Installer, BeginInstall, SendInstall, Installed, NodeReady, InstallFails,
              InstallBroken, resource, credential, history
<1>3. \/ UNCHANGED <<task, queue, secret>>
      \/ \E phase \in {"Installing", "Verifying", "Ready", "NeedsReview"} :
           Report(phase) /\ (Mine \/ phase = "NeedsReview")
  BY DEF Installer, BeginInstall, SendInstall, Installed, NodeReady, InstallFails,
         InstallBroken, resource, credential
<1>4. Wipes(c)
  BY <1>2 DEF Wipes, Cleaned
<1>5. CASE UNCHANGED <<task, queue, secret>>
  <2>1. \A d \in Controller : Kept(d)
    BY <1>2, <1>5, SameKept
  <2>2. OfController(c)
    BY <1>2, <1>4, <2>1 DEF OfController
  <2>3. Installs(c)
    BY <1>2, <1>5, <2>1 DEF Installs
  <2> QED BY <1>2, <2>2, <2>3 DEF ControllerStep
<1>6. CASE \E phase \in {"Installing", "Verifying", "Ready", "NeedsReview"} :
             Report(phase) /\ (Mine \/ phase = "NeedsReview")
  <2>1. PICK phase \in {"Installing", "Verifying", "Ready", "NeedsReview"} :
          Report(phase) /\ (Mine \/ phase = "NeedsReview")
    BY <1>6
  <2>2. phase \in Phases /\ phase \notin Early
    BY Zenon DEF Phases, Terminal, Early
  <2>3. /\ task'.v = task.v + 1 /\ task'.ref = task.ref /\ task'.phase = phase
        /\ \A d \in Controller : ctl'[d] = ctl[d] => Kept(d) \/ (Heard(d) /\ Watching(d))
    BY <2>1, <2>2, ReportHeard
  <2>4. \A d \in Controller : Kept(d) \/ (Heard(d) /\ Watching(d))
    BY <1>2, <2>3
  <2>5. OfController(c)
    BY <1>2, <1>4, <2>4 DEF OfController
  <2>6. Late(task')
    BY <2>2, <2>3 DEF Late
  <2>7. task.phase \in Terminal => phase = "NeedsReview"
    BY <2>1 DEF Mine, Terminal
  <2>8. Installs(c)
    BY <1>2, <2>3, <2>4, <2>6, <2>7 DEF Installs
  <2> QED BY <1>2, <2>5, <2>8 DEF ControllerStep
<1> QED BY <1>3, <1>5, <1>6

(* The console: reads and Secrets.                                         *)
LEMMA RequestKinds ==
  ASSUME Inv, NEW o \in Operator,
         \/ ReadScan(o) \/ CreateSecret(o) \/ SecretNotCreated(o) \/ PatchRefused(o)
         \/ UndoSecret(o) \/ ReadPlan(o)
  PROVE ConsoleStep
<1>1. op \in [Operator -> OpType] /\ IdleOp.at = "idle"
  BY DEF Inv, TypeOK, OpType, IdleOp
<1>2. UNCHANGED <<task, left, ctl, inst, queue, installs, overlap>>
  BY DEF ReadScan, CreateSecret, SecretNotCreated, PatchRefused, UndoSecret, ReadPlan,
         resource, process, history
<1>3. \A c \in Controller : Kept(c)
  BY <1>2, SameKept
<1>4. \A p \in Operator \ {o} : op'[p] = op[p]
  BY <1>1 DEF ReadScan, CreateSecret, SecretNotCreated, PatchRefused, UndoSecret, ReadPlan
<1>5. Asks(o)
  <2>1. CASE ReadScan(o) \/ ReadPlan(o)
    <3>1. op'[o].item = task /\ UNCHANGED credential
      BY <1>1, <2>1 DEF ReadScan, ReadPlan
    <3>2. \/ op'[o].at = "secret" /\ task.phase = "AwaitingPreflight"
          \/ op'[o].at = "join" /\ task.phase = "AwaitingApproval"
      BY <1>1, <2>1 DEF ReadScan, ReadPlan, EnrollmentPhase
    <3> QED BY <1>2, <1>4, <3>1, <3>2 DEF Asks, Reads
  <2>2. CASE SecretNotCreated(o) \/ UndoSecret(o)
    <3>1. op'[o] = IdleOp /\ UNCHANGED <<made, life>>
      BY <1>1, <2>2 DEF SecretNotCreated, UndoSecret, credential
    <3>2. secret' # secret => secret' = 0 /\ op[o].at = "undo" /\ secret = op[o].uid
      BY <2>2 DEF SecretNotCreated, UndoSecret, credential
    <3> QED BY <1>1, <1>2, <1>4, <3>1, <3>2 DEF Asks, Ends
  <2>3. CASE CreateSecret(o)
    <3>1. \/ op'[o] = IdleOp
          \/ op'[o].at = "patch" /\ op'[o].uid = made + 1 /\ op'[o].item = op[o].item
      <4>1. CASE op' = [op EXCEPT ![o].at = "patch", ![o].uid = made + 1]
        BY <1>1, <4>1 DEF OpType
      <4>2. CASE op' = [op EXCEPT ![o] = IdleOp]
        BY <1>1, <4>2
      <4> QED BY <2>3, <4>1, <4>2 DEF CreateSecret
    <3>2. Creates(o)
      BY <1>1, <1>2, <2>3, <3>1 DEF CreateSecret, Creates
    <3> QED BY <1>4, <3>2 DEF Asks
  <2>4. CASE PatchRefused(o)
    <3>1. op[o].at = "patch" /\ UNCHANGED credential
      BY <2>4 DEF PatchRefused
    <3>2. op'[o] = IdleOp \/ op'[o] = [op[o] EXCEPT !.at = "undo"]
      BY <1>1, <2>4 DEF PatchRefused
    <3>3. CASE op'[o] = IdleOp
      BY <1>1, <1>2, <1>4, <3>1, <3>3 DEF Asks, Ends, credential
    <3>4. CASE op'[o] = [op[o] EXCEPT !.at = "undo"]
      <4>1. op'[o].at = "undo" /\ op'[o].uid = op[o].uid /\ op'[o].item = op[o].item
        BY <1>1, <3>4 DEF OpType
      <4> QED BY <1>2, <1>4, <3>1, <4>1 DEF Asks, Conflicts
    <3> QED BY <3>2, <3>3, <3>4
  <2> QED BY <2>1, <2>2, <2>3, <2>4
<1> QED BY <1>2, <1>3, <1>5 DEF ConsoleStep

LEMMA PatchKinds ==
  ASSUME Inv, NEW o \in Operator, PatchPreflight(o) \/ PatchJoin(o)
  PROVE ConsoleStep
<1>1. /\ op \in [Operator -> OpType] /\ IdleOp.at = "idle" /\ op[o].item \in Task
      /\ op[o].uid \in 0..MaxSecrets /\ TypeOK
  BY DEF Inv, TypeOK, OpType, IdleOp
<1>2. UNCHANGED <<left, secret, made, life, ctl, inst, installs, overlap>>
  BY DEF PatchPreflight, PatchJoin, credential, history
<1>3. op'[o].at = "idle" /\ \A p \in Operator \ {o} : op'[p] = op[p]
  BY <1>1 DEF PatchPreflight, PatchJoin
<1>4. Current(op[o].item) => op[o].item = task
  BY DEF Inv, Copies, CopyOf, Current
<1> DEFINE p == [op[o].item EXCEPT !.action = "Preflight", !.ref = op[o].uid,
                                   !.observed = FALSE, !.v = @ + 1]
           j == [op[o].item EXCEPT !.action = "Join", !.approved = TRUE,
                                   !.observed = FALSE, !.v = @ + 1]
<1>5. op[o].item.v + 1 \in Nat
  BY <1>1 DEF Task
<1>6. /\ p \in Task /\ p.v = op[o].item.v + 1 /\ p.phase = op[o].item.phase
      /\ p.ref = op[o].uid
  BY <1>1, <1>5 DEF Task
<1>7. /\ j \in Task /\ j.v = op[o].item.v + 1 /\ j.phase = op[o].item.phase
      /\ j.ref = op[o].item.ref
  BY <1>1, <1>5 DEF Task
<1>8. \/ UNCHANGED <<task, queue>>
      \/ Current(op[o].item) /\ op[o].at = "patch" /\ Publish(p)
      \/ Current(op[o].item) /\ op[o].at = "join" /\ Publish(j)
  BY DEF PatchPreflight, PatchJoin
<1> HIDE DEF p, j
<1>9. CASE UNCHANGED <<task, queue>>
  <2>1. \A c \in Controller : Kept(c)
    BY <1>2, <1>9, SameKept
  <2>2. Ends(o)
    BY <1>2, <1>3, <1>9 DEF Ends
  <2> QED BY <1>2, <1>3, <2>1, <2>2 DEF ConsoleStep, Asks
<1>10. ASSUME NEW t \in Task, Publish(t), op[o].item = task, t.v = task.v + 1,
              t.phase = task.phase, op[o].at \in {"patch", "join"},
              t.ref = IF op[o].at = "patch" THEN op[o].uid ELSE task.ref
       PROVE ConsoleStep
  <2>1. \A c \in Controller : ctl'[c] = ctl[c]
    BY <1>2
  <2>2. task' = t /\ \A c \in Controller : Kept(c) \/ Heard(c)
    BY <1>1, <1>10, <2>1, PublishHears DEF Publish
  <2>3. Patches(o)
    BY <1>2, <1>3, <1>10, <2>2 DEF Patches, credential
  <2> QED BY <1>2, <1>3, <2>2, <2>3 DEF ConsoleStep, Asks
<1> QED BY <1>4, <1>6, <1>7, <1>8, <1>9, <1>10

LEMMA SubmitKinds ==
  ASSUME Inv, SubmitScan PROVE ConsoleStep
<1> DEFINE t == [NoTask EXCEPT !.phase = "", !.v = 1]
<1>1. t \in Task
  <2>1. "" \in Phases
    BY Zenon DEF Phases
  <2>2. 1 \in Nat
    OBVIOUS
  <2> QED BY <2>1, <2>2, NoTaskType DEF Task
<1>2. t.v = 1 /\ t.phase = "" /\ t.ref = 0 /\ NoTask.v = 0
  BY Zenon DEF NoTask
<1>3. Publish(t) /\ task = NoTask /\ UNCHANGED <<left, secret, made, life, op, ctl, inst, installs, overlap>>
  BY DEF SubmitScan, credential, history
<1> HIDE DEF t
<1>4. t.v = task.v + 1
  <2>1. ASSUME NEW m, NEW n, m = 1, n = 0 PROVE m = n + 1
    BY <2>1
  <2> QED BY <1>2, <1>3, <2>1, Zenon
<1>5. task' = t /\ \A c \in Controller : Kept(c) \/ Heard(c)
  <2>1. \A c \in Controller : ctl'[c] = ctl[c]
    BY <1>3
  <2> QED BY <1>1, <1>3, <1>4, <2>1, PublishHears DEF Inv, Publish
<1>6. Submits
  BY <1>2, <1>3, <1>5, Zenon DEF Submits, credential
<1> QED BY <1>3, <1>5, <1>6, Zenon DEF ConsoleStep

LEMMA NextKinds ==
  ASSUME Inv, [NodeNext]_nodeVars PROVE StepKinds
<1>1. CASE Enroll
  <2>1. CASE SubmitScan
    BY <2>1, SubmitKinds DEF StepKinds
  <2>2. ASSUME NEW o \in Operator, Console(o) PROVE StepKinds
    BY <2>2, RequestKinds, PatchKinds DEF Console, StepKinds
  <2> QED BY <1>1, <2>1, <2>2 DEF Enroll
<1>2. CASE NodeElapse
  <2>1. Passes
    BY <1>2 DEF NodeElapse, Elapse, Passes, process, history
  <2> QED BY <2>1 DEF StepKinds
<1>3. ASSUME NEW c \in Controller,
             NodeStart(c) \/ ProcessDies(c) \/ EnrollmentLoop(c) \/ NewCycle(c)
      PROVE StepKinds
  <2>1. ControllerStep(c)
    BY <1>3, LoopKinds DEF NodeStart, ProcessDies, EnrollmentLoop, NewCycle
  <2> QED BY <2>1 DEF StepKinds
<1>4. ASSUME NEW c \in Controller, NodeReconcile(c) PROVE StepKinds
  <2>1. CASE \E ok \in BOOLEAN : Probed(c, ok)
    BY <2>1, ProbedKinds DEF StepKinds
  <2>2. CASE ~\E ok \in BOOLEAN : Probed(c, ok)
    <3>1. ControllerStep(c)
      BY <1>4, <2>2, ProgressKinds, FailKinds, MoveKinds, CleanKinds DEF NodeReconcile, Reconcile
    <3> QED BY <3>1 DEF StepKinds
  <2> QED BY <2>1, <2>2
<1>5. ASSUME NEW c \in Controller, NodeInstaller(c) PROVE StepKinds
  BY <1>5, InstallerKinds DEF NodeInstaller, StepKinds
<1>6. ASSUME NEW c \in Controller, Retire(c) PROVE StepKinds
  BY <1>6, RetireKinds DEF StepKinds
<1>7. CASE \/ \E o \in Operator : Operate(o)
           \/ NodeFlips \/ NodeMoves \/ NodeRegistersAnew \/ Work \/ LateDelete
           \/ UNCHANGED nodeVars
  <2>1. UNCHANGED vars
    BY <1>7 DEF Operate, Look, Confirm, Inventory, SubmitRetirement, NodeFlips, NodeMoves,
                NodeRegistersAnew, NodeChange, Work, LateDelete, nodeVars
  <2> QED BY <2>1 DEF StepKinds
<1> QED BY <1>1, <1>2, <1>3, <1>4, <1>5, <1>6, <1>7 DEF NodeNext

-----------------------------------------------------------------------------
(* Each part of the invariant, over every kind of step.                    *)

LEMMA StillSame ==
  ASSUME UNCHANGED vars
  PROVE UNCHANGED <<task, left, secret, life, made, op, ctl, queue, inst, installs, overlap>>
BY DEF vars

LEMMA AskedKept ==
  ASSUME Asked, StepKinds PROVE Asked'
<1>1. CASE op' = op
  BY <1>1 DEF Asked
<1>2. ASSUME NEW o \in Operator, Asks(o) PROVE Asked'
  <2>1. \A p \in Operator \ {o} : op'[p] = op[p]
    BY <1>2 DEF Asks
  <2>2. /\ op'[o].at \in {"secret", "patch", "undo"} => op'[o].item.phase = "AwaitingPreflight"
        /\ op'[o].at = "join" => op'[o].item.phase = "AwaitingApproval"
    BY <1>2 DEF Asks, Ends, Reads, Creates, Conflicts, Patches, Asked
  <2> QED BY <2>1, <2>2 DEF Asked
<1>3. op' = op \/ \E o \in Operator : Asks(o)
  BY StillSame DEF StepKinds, ConsoleStep, Submits, Passes, ControllerStep, OfController
<1> QED BY <1>1, <1>2, <1>3

LEMMA RefStays ==
  ASSUME NEW c \in Controller, ControllerStep(c) PROVE task'.ref = task.ref
BY DEF ControllerStep, Spawns, Installs, Writes, Succeeds, Proceeds

LEMMA FreshKept ==
  ASSUME Inv, Fresh, StepKinds PROVE Fresh'
<1>1. made \in Nat /\ op \in [Operator -> OpType]
  BY EnrollmentConstants DEF Inv, TypeOK, OpType
<1>2. CASE UNCHANGED <<op, made>> /\ task'.ref = task.ref
  BY <1>2 DEF Fresh
<1>3. CASE Submits
  <2>1. UNCHANGED <<op, made>> /\ task'.ref = task.ref
    BY <1>3, Zenon DEF Submits, NoTask, credential
  <2> QED BY <1>2, <2>1
<1>4. ASSUME NEW o \in Operator, Asks(o) PROVE Fresh'
  <2>1. \A p \in Operator \ {o} : op'[p] = op[p]
    BY <1>4 DEF Asks
  <2>2. CASE UNCHANGED <<made>> /\ task'.ref = task.ref /\ op'[o].at \notin {"patch", "undo"}
    BY <2>1, <2>2 DEF Fresh
  <2>3. CASE Conflicts(o)
    <3>1. task' = task /\ made' = made /\ op[o].at = "patch" /\ op'[o].uid = op[o].uid
      BY <2>3 DEF Conflicts, credential
    <3>2. \A p \in Operator : op'[p].at \in {"patch", "undo"} =>
            op[p].at \in {"patch", "undo"} /\ op'[p].uid = op[p].uid
      BY <2>1, <3>1
    <3> QED BY <3>1, <3>2 DEF Fresh
  <2>4. CASE Creates(o)
    <3>1. task' = task /\ made' = made + 1 /\ (op'[o].at = "patch" => op'[o].uid = made + 1)
          /\ op'[o].at # "undo"
      BY <2>4 DEF Creates
    <3>2. \A p \in Operator \ {o} : op'[p].at \in {"patch", "undo"} =>
            op'[p].uid \in 1..made /\ op'[p].uid # task.ref
      BY <2>1 DEF Fresh
    <3>3. task.ref <= made /\ task.ref \in Nat
      BY EnrollmentConstants DEF Fresh, Inv, TypeOK, Task
    <3>4. task'.ref <= made'
      BY <1>1, <3>1, <3>3
    <3>5. ASSUME NEW p \in Operator, op'[p].at \in {"patch", "undo"}
          PROVE op'[p].uid \in 1..made' /\ op'[p].uid # task'.ref
      <4>1. CASE p = o
        BY <1>1, <3>1, <3>3, <3>5, <4>1
      <4>2. CASE p # o
        <5>1. op'[p].uid \in 1..made /\ op'[p].uid # task.ref
          BY <3>2, <3>5, <4>2
        <5> QED BY <1>1, <3>1, <5>1
      <4> QED BY <4>1, <4>2
    <3>6. ASSUME NEW p \in Operator, NEW q \in Operator, op'[p].uid = op'[q].uid,
                 op'[p].at \in {"patch", "undo"}, op'[q].at \in {"patch", "undo"}
          PROVE p = q
      <4>1. made + 1 \notin 1..made
        BY <1>1
      <4>2. CASE p = o \/ q = o
        BY <3>1, <3>2, <3>6, <4>1, <4>2
      <4>3. CASE p # o /\ q # o
        BY <2>1, <3>6, <4>3 DEF Fresh
      <4> QED BY <4>2, <4>3
    <3> QED BY <3>4, <3>5, <3>6 DEF Fresh
  <2>5. CASE Patches(o)
    <3>1. /\ made' = made /\ op[o].at \in {"patch", "join"} /\ op'[o].at = "idle"
          /\ task'.ref = IF op[o].at = "patch" THEN op[o].uid ELSE task.ref
      BY <2>5 DEF Patches, credential
    <3>2. CASE op[o].at = "join"
      BY <2>2, <3>1, <3>2
    <3>3. CASE op[o].at = "patch"
      <4>1. op[o].uid <= made /\ task'.ref = op[o].uid
        BY <1>1, <3>1, <3>3 DEF Fresh
      <4>2. \A p \in Operator : op'[p].at \in {"patch", "undo"} => p # o /\ op'[p] = op[p]
        BY <2>1, <3>1
      <4>3. \A p \in Operator \ {o} : op[p].at \in {"patch", "undo"} => op[p].uid # op[o].uid
        BY <3>3 DEF Fresh
      <4> QED BY <3>1, <4>1, <4>2, <4>3 DEF Fresh
    <3> QED BY <3>1, <3>2, <3>3
  <2>6. CASE Ends(o) \/ Reads(o)
    <3>1. UNCHANGED <<made>> /\ task'.ref = task.ref /\ op'[o].at \notin {"patch", "undo"}
      BY <2>6 DEF Ends, Reads, credential
    <3> QED BY <2>2, <3>1
  <2> QED BY <1>4, <2>3, <2>4, <2>5, <2>6 DEF Asks
<1>5. ASSUME NEW c \in Controller, ControllerStep(c) PROVE Fresh'
  BY <1>2, <1>5, RefStays DEF ControllerStep, OfController
<1>6. CASE Passes \/ UNCHANGED vars
  BY <1>2, <1>6, StillSame DEF Passes
<1> QED BY <1>3, <1>4, <1>5, <1>6 DEF StepKinds, ConsoleStep

LEMMA FinishingKept ==
  ASSUME Inv, Finishing, Tidy, StepKinds PROVE Finishing'
<1> DEFINE Then(t) == Late(t) => Late(task')
<1>1. ASSUME NEW t, Behind(t) PROVE Then(t)
  BY <1>1 DEF Behind, Tidy, Moves
<1>2. Then(task) /\ Then(task') /\ Then(NoTask)
  <2>1. ~Late(NoTask)
    BY Zenon DEF Late, Early, NoTask
  <2> QED BY <2>1 DEF Tidy, Moves
<1>3. ASSUME NEW c \in Controller, NEW i \in 1..Len(queue[c]) PROVE Then(queue[c][i])
  BY <1>1 DEF Finishing
<1>4. ASSUME NEW c \in Controller, ctl'[c].at # "refetch" PROVE Then(ctl'[c].item)
  <2>1. CASE queue[c] # <<>> /\ ctl'[c].item = Head(queue[c])
    <3>1. queue[c] \in Seq(Task)
      BY DEF Inv, TypeOK
    <3>2. 1 \in 1..Len(queue[c]) /\ Head(queue[c]) = queue[c][1]
      BY <2>1, <3>1
    <3> QED BY <1>3, <2>1, <3>2
  <2>2. CASE ctl'[c].item = ctl[c].item /\ ctl[c].at # "refetch"
    <3>1. Behind(ctl[c].item)
      BY <2>2 DEF Finishing
    <3> QED BY <1>1, <2>2, <3>1
  <2> QED BY <1>2, <1>4, <2>1, <2>2 DEF Tidy, CopiesFrom, CtlFrom
<1>5. ASSUME NEW c \in Controller, NEW i \in 1..Len(queue'[c]) PROVE Then(queue'[c][i])
  <2>1. queue[c] \in Seq(Task) /\ task' \in Task
    BY DEF Inv, Tidy, TypeOK
  <2>2. CASE queue'[c] = queue[c]
    BY <1>3, <2>2
  <2>3. CASE queue'[c] = <<>>
    BY <2>3
  <2>4. CASE queue'[c] = Append(queue[c], task')
    <3>1. queue'[c][i] = task' \/ (i \in 1..Len(queue[c]) /\ queue'[c][i] = queue[c][i])
      BY <2>1, <2>4
    <3> QED BY <1>2, <1>3, <3>1
  <2>5. CASE queue[c] # <<>> /\ queue'[c] = Tail(queue[c])
    <3>1. i + 1 \in 1..Len(queue[c]) /\ queue'[c][i] = queue[c][i + 1]
      BY <2>1, <2>5
    <3>2. Then(queue[c][i + 1])
      BY <1>3, <3>1
    <3> QED BY <3>1, <3>2
  <2> QED BY <2>2, <2>3, <2>4, <2>5 DEF Tidy, CopiesFrom, QueueFrom
<1>6. ASSUME NEW c \in Controller PROVE ctl'[c].at \in CleanAt => Late(ctl'[c].item)
  <2>1. CASE ctl'[c] = ctl[c]
    BY <2>1 DEF Finishing
  <2>2. CASE ControllerStep(c)
    <3>1. ctl'[c].at = "watch" => ctl'[c].at \notin CleanAt
      BY AtSets
    <3>2. ctl'[c].at = "refetch" => ctl'[c].at \notin CleanAt
      BY AtSets
    <3> QED BY <2>1, <2>2, <3>1, <3>2 DEF ControllerStep, Spawns, Installs, Writes, Succeeds, Proceeds
  <2>3. ctl'[c] = ctl[c] \/ ControllerStep(c)
    BY StillSame DEF StepKinds, ConsoleStep, Passes, ControllerStep, OfController
  <2> QED BY <2>1, <2>2, <2>3
<1>7. ASSUME NEW c \in Controller, inst'[c] # "none" PROVE Late(task')
  <2>1. inst[c] # "none" \/ ctl[c].at = "spawn"
    <3>1. CASE ControllerStep(c)
      BY <1>7, <3>1 DEF ControllerStep, Spawns, Installs, Writes, Proceeds
    <3>2. inst'[c] = inst[c] \/ ControllerStep(c)
      BY StillSame DEF StepKinds, ConsoleStep, Passes, ControllerStep, OfController
    <3> QED BY <1>7, <3>1, <3>2
  <2>2. Late(task)
    BY <2>1 DEF Finishing, Inv, Once, Entitled
  <2> QED BY <1>2, <2>2
<1> QED BY <1>4, <1>5, <1>6, <1>7 DEF Finishing, Behind

(* While nothing overlaps, the others sleep through a step of c.           *)
LEMMA OthersSleep ==
  ASSUME Inv, Alone, NEW c \in Controller, ControllerStep(c), ~overlap'
  PROVE ~overlap /\ \A d \in Controller \ {c} : Asleep(d) /\ Asleep(d)'
<1>1. ~overlap /\ \A d \in Controller \ {c} : Asleep(d)
  <2>1. CASE Proceeds(c) /\ ~Up(c) /\ overlap' = (overlap \/ \E d \in Controller : Up(d))
    <3>1. ~overlap /\ \A d \in Controller : ~Up(d)
      BY <2>1, Zenon
    <3> QED BY <3>1 DEF Alone
  <2>2. CASE overlap' = overlap /\ Up(c)
    <3>1. ~overlap
      BY <2>2, Zenon
    <3> QED BY <2>2, <3>1 DEF Alone
  <2>3. CASE overlap' = overlap /\ (Spawns(c) \/ Writes(c) \/ Installs(c))
    <3>1. ~overlap
      BY <2>3, Zenon
    <3>2. Up(c) \/ inst[c] # "none"
      BY <2>3 DEF Spawns, Writes, Installs, Up
    <3>3. Up(c)
      BY <3>1, <3>2 DEF Alone, Asleep
    <3> QED BY <3>1, <3>3 DEF Alone
  <2> QED BY <2>1, <2>2, <2>3 DEF ControllerStep
<1>2. ASSUME NEW d \in Controller \ {c} PROVE Asleep(d)'
  <2>1. Asleep(d) /\ ctl'[d] = ctl[d] /\ inst'[d] = inst[d] /\ (Kept(d) \/ Watching(d))
    BY <1>1 DEF ControllerStep, OfController
  <2> QED BY <2>1 DEF Asleep, Kept, Watching
<1> QED BY <1>1, <1>2

LEMMA AloneKept ==
  ASSUME Inv, Alone, StepKinds PROVE Alone'
<1>1. CASE UNCHANGED <<ctl, inst, overlap>> /\ \A c \in Controller : Kept(c) \/ Heard(c)
  <2>1. ASSUME NEW c \in Controller, Asleep(c) PROVE Asleep(c)'
    BY <1>1, <2>1 DEF Asleep, Kept, Heard, Watching
  <2>2. ASSUME NEW c \in Controller PROVE Up(c)' <=> Up(c)
    BY <1>1 DEF Up
  <2>3. overlap' <=> overlap
    BY <1>1, Zenon
  <2> QED BY <2>1, <2>2, <2>3, Zenon DEF Alone
<1>2. CASE ConsoleStep
  BY <1>1, <1>2 DEF ConsoleStep
<1>3. CASE Passes \/ UNCHANGED vars
  <2>1. UNCHANGED <<ctl, inst, overlap, queue>>
    BY <1>3, StillSame DEF Passes
  <2>2. \A c \in Controller : Kept(c)
    BY <2>1, SameKept
  <2> QED BY <1>1, <2>1, <2>2
<1>4. ASSUME NEW c \in Controller, ControllerStep(c), ~overlap' PROVE Alone'
  <2>1. ~overlap /\ \A d \in Controller \ {c} : Asleep(d) /\ Asleep(d)'
    BY <1>4, OthersSleep
  <2>2. (~Up(c))' => Asleep(c)'
    <3>1. CASE Spawns(c)
      BY <3>1 DEF Spawns, Up
    <3>2. CASE Writes(c)
      BY <3>2, AtSets DEF Writes, Up
    <3>3. CASE Proceeds(c)
      BY <3>3 DEF Proceeds, Up, Asleep
    <3>4. CASE Installs(c)
      <4>1. Up(c) /\ ctl'[c] = ctl[c]
        BY <2>1, <3>4 DEF Installs, Alone, Asleep
      <4> QED BY <4>1 DEF Up
    <3> QED BY <1>4, <3>1, <3>2, <3>3, <3>4 DEF ControllerStep
  <2>3. \A d \in Controller \ {c} : (~Up(d))'
    BY <2>1 DEF Asleep, Up
  <2> QED BY <2>1, <2>2, <2>3, Zenon DEF Alone
<1>5. ASSUME NEW c \in Controller, ControllerStep(c) PROVE Alone'
  <2>1. CASE ~overlap'
    BY <1>4, <1>5, <2>1
  <2>2. CASE overlap'
    BY <2>2, Zenon DEF Alone
  <2> QED BY <2>1, <2>2
<1> QED BY <1>2, <1>3, <1>5 DEF StepKinds

(* The watch delivers in order.                                            *)
LEMMA OrderedKept ==
  ASSUME Inv, TypeOK', NEW c \in Controller, Ordered(c),
         Kept(c) \/ Dropped(c) \/ Delivered(c) \/ Heard(c),
         ctl'[c].at = "handle" => ctl'[c] = ctl[c] \/ Delivered(c) \/ queue'[c] = <<>>
  PROVE Ordered(c)'
<1>1. /\ queue[c] \in Seq(Task) /\ queue'[c] \in Seq(Task) /\ task' \in Task /\ task \in Task
  BY DEF Inv, TypeOK
<1>2. CASE queue'[c] = <<>>
  BY <1>2 DEF Ordered
<1>3. CASE Kept(c)
  <2>1. queue'[c] = queue[c] /\ (ctl'[c] = ctl[c] \/ Watching(c)' \/ queue[c] = <<>>)
    BY <1>3 DEF Kept, Ordered
  <2>2. CASE queue[c] = <<>>
    BY <1>2, <2>1, <2>2
  <2>3. CASE queue[c] # <<>> /\ ctl'[c] = ctl[c]
    BY <2>1, <2>3 DEF Ordered, Watching
  <2>4. CASE queue[c] # <<>> /\ ctl'[c] # ctl[c]
    <3>1. Watching(c)' /\ ctl'[c].at # "handle"
      BY <1>3, <2>1, <2>4 DEF Kept, Ordered
    <3> QED BY <2>1, <3>1 DEF Ordered
  <2> QED BY <2>2, <2>3, <2>4
<1>4. CASE Heard(c)
  <2>1. /\ queue'[c] = Append(queue[c], task') /\ task'.v = task.v + 1
        /\ Watching(c)' /\ (ctl'[c].at = "handle" => ctl'[c] = ctl[c])
    BY <1>4 DEF Heard
  <2>2. ASSUME NEW i \in 1..Len(queue[c])
        PROVE queue[c][i].v \in Nat /\ queue[c][i].v < task'.v
    <3>1. queue[c][i].v <= task.v
      BY DEF Inv, Copies, CopyOf
    <3>2. queue[c][i] \in Task
      BY <1>1
    <3>3. queue[c][i].v \in Nat /\ task.v \in Nat
      BY <1>1, <3>2 DEF Task
    <3> QED BY <2>1, <3>1, <3>3
  <2>3. /\ Len(queue'[c]) = Len(queue[c]) + 1 /\ queue'[c][Len(queue[c]) + 1] = task'
        /\ \A i \in 1..Len(queue[c]) : queue'[c][i] = queue[c][i]
        /\ Len(queue[c]) \in Nat
    BY <1>1, <2>1
  <2>4. ASSUME NEW i \in 1..Len(queue'[c]), NEW j \in 1..Len(queue'[c]), i < j
        PROVE queue'[c][i].v < queue'[c][j].v
    <3>1. i \in 1..Len(queue[c]) /\ queue'[c][i] = queue[c][i]
      BY <2>3, <2>4
    <3>2. CASE j = Len(queue[c]) + 1
      BY <2>2, <2>3, <3>1, <3>2
    <3>3. CASE j # Len(queue[c]) + 1
      <4>1. j \in 1..Len(queue[c]) /\ queue'[c][j] = queue[c][j]
        BY <2>3, <3>3
      <4> QED BY <2>4, <3>1, <4>1 DEF Ordered
    <3> QED BY <3>2, <3>3
  <2>5. ASSUME ctl'[c].at = "handle", NEW i \in 1..Len(queue'[c])
        PROVE ctl'[c].item.v < queue'[c][i].v
    <3>1. ctl'[c] = ctl[c] /\ ctl[c].at = "handle"
      BY <2>1, <2>5
    <3>2. CASE i = Len(queue[c]) + 1
      <4>1. ctl[c].item.v <= task.v /\ ctl[c].item.v \in Nat /\ task.v \in Nat
        BY <1>1, <3>1 DEF Inv, TypeOK, Copies, CopyOf, Task
      <4> QED BY <2>1, <2>3, <3>1, <3>2, <4>1
    <3>3. CASE i # Len(queue[c]) + 1
      <4>1. i \in 1..Len(queue[c]) /\ queue'[c][i] = queue[c][i]
        BY <2>3, <3>3
      <4> QED BY <3>1, <4>1 DEF Ordered
    <3> QED BY <3>2, <3>3
  <2> QED BY <2>1, <2>4, <2>5 DEF Ordered
<1>5. CASE Delivered(c)
  <2>1. /\ queue[c] # <<>> /\ queue'[c] = Tail(queue[c]) /\ ctl'[c].item = Head(queue[c])
        /\ ctl'[c].at = "handle"
    BY <1>5 DEF Delivered
  <2>2. /\ Len(queue'[c]) = Len(queue[c]) - 1 /\ Head(queue[c]) = queue[c][1]
        /\ Len(queue[c]) \in Nat /\ 1 \in 1..Len(queue[c])
        /\ \A i \in 1..Len(queue'[c]) : queue'[c][i] = queue[c][i + 1]
    BY <1>1, <2>1
  <2>3. ASSUME NEW i \in 1..Len(queue'[c])
        PROVE i + 1 \in 1..Len(queue[c]) /\ queue'[c][i] = queue[c][i + 1] /\ 1 < i + 1
    BY <2>2
  <2>4. ASSUME NEW i \in 1..Len(queue'[c]), NEW j \in 1..Len(queue'[c]), i < j
        PROVE queue'[c][i].v < queue'[c][j].v
    <3>1. i + 1 < j + 1
      BY <2>4
    <3> QED BY <2>3, <3>1 DEF Ordered
  <2>5. ASSUME NEW i \in 1..Len(queue'[c]) PROVE ctl'[c].item.v < queue'[c][i].v
    BY <2>1, <2>2, <2>3 DEF Ordered
  <2>6. Watching(c)'
    BY <2>1 DEF Watching
  <2> QED BY <2>4, <2>5, <2>6 DEF Ordered
<1> QED BY <1>2, <1>3, <1>4, <1>5 DEF Dropped

LEMMA AllOrderedKept ==
  ASSUME Inv, TypeOK', StepKinds, NEW c \in Controller, Ordered(c) PROVE Ordered(c)'
<1>1. CASE ctl'[c] = ctl[c] /\ (Kept(c) \/ Heard(c))
  BY <1>1, OrderedKept
<1>2. CASE ~(ctl'[c] = ctl[c] /\ (Kept(c) \/ Heard(c)))
  <2>1. ControllerStep(c)
    <3>1. CASE UNCHANGED <<ctl, queue>>
      BY <1>2, <3>1, SameKept
    <3> QED BY <1>2, <3>1, StillSame DEF StepKinds, ConsoleStep, Passes, ControllerStep, OfController
  <2>2. CASE Proceeds(c)
    <3>1. Kept(c) \/ Dropped(c) \/ Delivered(c)
      BY <2>2 DEF Proceeds
    <3>2. ctl'[c].at = "handle" => ctl'[c] = ctl[c] \/ Delivered(c) \/ queue'[c] = <<>>
      BY <2>2 DEF Proceeds, Kept, Dropped, Ordered
    <3> QED BY <3>1, <3>2, OrderedKept
  <2>3. CASE Spawns(c) \/ Writes(c)
    <3>1. Kept(c) \/ Heard(c)
      BY <2>3 DEF Spawns, Writes, Succeeds
    <3>2. ctl'[c].at # "handle"
      BY <2>3, AtSets DEF Spawns, Writes
    <3> QED BY <3>1, <3>2, OrderedKept
  <2>4. CASE Installs(c)
    BY <1>2, <2>4 DEF Installs
  <2> QED BY <2>1, <2>2, <2>3, <2>4 DEF ControllerStep
<1> QED BY <1>1, <1>2

(* A copy in hand that is still current has nothing behind it.             *)
LEMMA NothingBehind ==
  ASSUME Inv, NEW c \in Controller, Ordered(c), ctl[c].at = "handle", ctl[c].item = task
  PROVE queue[c] = <<>>
<1>1. queue[c] \in Seq(Task) /\ task \in Task
  BY DEF Inv, TypeOK
<1> SUFFICES ASSUME queue[c] # <<>> PROVE FALSE
  OBVIOUS
<1>2. 1 \in 1..Len(queue[c]) /\ queue[c][1] \in Task
  BY <1>1
<1>3. task.v < queue[c][1].v
  BY <1>2 DEF Ordered
<1>4. queue[c][1].v <= task.v
  BY <1>2 DEF Inv, Copies, CopyOf
<1>5. task.v \in Nat /\ queue[c][1].v \in Nat
  BY <1>1, <1>2 DEF Task
<1> QED BY <1>3, <1>4, <1>5

LEMMA TouchedLate ==
  ASSUME Inv, Finishing, NEW c \in Controller, Touched(c) PROVE Late(task)
<1>1. CASE task.phase \in {"Ready", "NeedsReview"}
  BY <1>1, Zenon DEF Late, Early
<1>2. CASE installs > 0
  BY <1>2 DEF Inv, Once
<1>3. CASE inst[c] # "none"
  BY <1>3 DEF Finishing
<1> QED BY <1>1, <1>2, <1>3 DEF Touched

(* The versions still to come stay late.                                   *)
LEMMA LateQueueKept ==
  ASSUME Inv, NEW c \in Controller, LateQueue(c), task' \in Task,
         Kept(c) \/ Dropped(c) \/ Delivered(c) \/ (Heard(c) /\ Late(task'))
  PROVE LateQueue(c)'
<1>1. queue[c] \in Seq(Task)
  BY DEF Inv, TypeOK
<1>2. ASSUME NEW i \in 1..Len(queue'[c]) PROVE Late(queue'[c][i])
  <2>1. CASE Kept(c)
    BY <2>1 DEF Kept, LateQueue
  <2>2. CASE Dropped(c)
    BY <2>2 DEF Dropped
  <2>3. CASE Delivered(c)
    <3>1. i + 1 \in 1..Len(queue[c]) /\ queue'[c][i] = queue[c][i + 1]
      BY <1>1, <2>3 DEF Delivered
    <3> QED BY <3>1 DEF LateQueue
  <2>4. CASE Heard(c) /\ Late(task')
    <3>1. queue'[c][i] = task' \/ (i \in 1..Len(queue[c]) /\ queue'[c][i] = queue[c][i])
      BY <1>1, <2>4 DEF Heard
    <3> QED BY <2>4, <3>1 DEF LateQueue
  <2> QED BY <2>1, <2>2, <2>3, <2>4
<1> QED BY <1>2 DEF LateQueue, Late

\* What the controller that makes a step needs of the invariant.
Running(c) == Inv /\ Finishing /\ Settled(c) /\ Ordered(c) /\ task' \in Task /\ installs' \in Nat

LEMMA ProceedsSettled ==
  ASSUME NEW c \in Controller, Running(c), Proceeds(c) PROVE Settled(c)'
<1>1. task' = task /\ installs' = installs /\ inst'[c] \in {inst[c], "none"}
  BY DEF Proceeds
<1>2. Touched(c)' => Touched(c)
  BY <1>1 DEF Touched
<1>3. ctl'[c].at # "spawn"
  BY AtSets DEF Proceeds
<1>4. ASSUME Touched(c) PROVE (~Working(c))' /\ LateQueue(c)'
  <2>1. ~Working(c) /\ LateQueue(c)
    BY <1>4 DEF Running, Settled
  <2>2. LateQueue(c)'
    BY <2>1, LateQueueKept DEF Running, Proceeds
  <2>3. ctl'[c].at \notin Noisy
    BY <2>1 DEF Proceeds
  <2>4. ctl'[c].at = "handle" => Late(ctl'[c].item)
    <3>1. CASE Delivered(c)
      <4>1. queue[c] \in Seq(Task) /\ queue[c] # <<>> /\ ctl'[c].item = Head(queue[c])
        BY <3>1 DEF Delivered, Running, Inv, TypeOK
      <4>2. 1 \in 1..Len(queue[c]) /\ Head(queue[c]) = queue[c][1]
        BY <4>1
      <4> QED BY <2>1, <4>1, <4>2 DEF LateQueue
    <3>2. CASE ctl'[c].item = task
      BY <1>4, <3>2, TouchedLate DEF Running
    <3> QED BY <3>1, <3>2 DEF Proceeds
  <2> QED BY <2>2, <2>3, <2>4 DEF Working, Late
<1>5. task'.phase \in {"Failed", "Expired"} => ~Touched(c)
  BY <1>1 DEF Running, Settled
<1> QED BY <1>2, <1>3, <1>4, <1>5, Zenon DEF Settled

LEMMA SpawnsSettled ==
  ASSUME NEW c \in Controller, Running(c), Spawns(c) PROVE Settled(c)'
<1>1. task' = task /\ task.phase = "Installing" /\ LateQueue(c) /\ ctl'[c].at = "watch"
  BY DEF Spawns, Running, Settled
<1>2. LateQueue(c)'
  BY <1>1, LateQueueKept DEF Running, Spawns
<1>3. ~Working(c)'
  BY <1>1, AtSets DEF Working
<1> QED BY <1>1, <1>2, <1>3 DEF Settled

LEMMA InstallsSettled ==
  ASSUME NEW c \in Controller, Running(c), Installs(c) PROVE Settled(c)'
<1>1. Touched(c)
  BY DEF Installs, Touched
<1>2. ~Working(c) /\ LateQueue(c) /\ ctl' = ctl
  BY <1>1 DEF Running, Settled, Installs
<1>3. ctl'[c].at # "spawn" /\ (~Working(c))'
  BY <1>2, AtSets DEF Working, Late
<1>4. LateQueue(c)'
  BY <1>2, LateQueueKept DEF Running, Installs
<1>5. task'.phase \notin {"Failed", "Expired"}
  BY <1>1 DEF Installs, Running, Settled
<1> QED BY <1>3, <1>4, <1>5, Zenon DEF Settled

LEMMA WritesSettled ==
  ASSUME NEW c \in Controller, Running(c), Writes(c) PROVE Settled(c)'
<1>1. inst' = inst /\ installs' = installs
  BY DEF Writes
<1>2. CASE task' = task /\ Kept(c) /\ ctl'[c].at \in {"watch", "refetch"}
           /\ (ctl'[c].at = "refetch" => Working(c))
  <2>1. Touched(c)' <=> Touched(c)
    BY <1>1, <1>2 DEF Touched
  <2>2. LateQueue(c) => LateQueue(c)'
    BY <1>2, LateQueueKept DEF Running
  <2>3. Working(c)' => Working(c)
    BY <1>2, AtSets DEF Working
  <2>4. ctl'[c].at # "spawn"
    BY <1>2
  <2> QED BY <1>2, <2>1, <2>2, <2>3, <2>4, Zenon DEF Settled, Running
<1>3. ASSUME Succeeds(c), ctl'[c].at = "spawn" \/ ~Working(c)
      PROVE Late(task') => LateQueue(c)'
  <2>1. ctl[c].at = "handle"
    BY <1>3, AtSets DEF Succeeds, Writes, Working
  <2>2. queue[c] = <<>>
    BY <1>3, <2>1, NothingBehind DEF Succeeds, Running
  <2>3. LateQueue(c)
    BY <2>2 DEF LateQueue
  <2> QED BY <1>3, <2>3, LateQueueKept DEF Running, Succeeds
<1>4. CASE Succeeds(c) /\ Working(c)
  <2>1. ~Touched(c)
    BY <1>4 DEF Running, Settled
  <2>2. task'.phase \notin {"Ready", "NeedsReview"}
    BY <1>4, Zenon DEF Succeeds
  <2>3. ~Touched(c)'
    BY <1>1, <2>1, <2>2 DEF Touched
  <2>4. ctl'[c].at = "spawn" => task'.phase = "Installing"
    BY <1>4, Zenon DEF Succeeds
  <2>5. task'.phase = "Installing" => Late(task')
    BY Zenon DEF Late, Early
  <2> QED BY <1>3, <1>4, <2>3, <2>4, <2>5, Zenon DEF Settled
<1>5. CASE Succeeds(c) /\ ~Working(c)
  <2>1. ctl'[c].at \in {"watch", "clean"} /\ task'.phase = "NeedsReview"
    BY <1>5, Zenon DEF Succeeds
  <2>2. Late(task')
    BY <2>1, Zenon DEF Late, Early
  <2>3. LateQueue(c)'
    BY <1>3, <1>5, <2>2
  <2>4. ~Working(c)'
    BY <2>1, AtSets DEF Working
  <2> QED BY <2>1, <2>3, <2>4 DEF Settled
<1> QED BY <1>2, <1>4, <1>5 DEF Writes

(* Nothing is touched yet: nothing is decided.                             *)
LEMMA EarlySettled ==
  ASSUME Inv, Finishing, ~Late(task), ~Late(task'), UNCHANGED <<ctl, inst, installs>>
  PROVE Verdicts'
<1>1. installs = 0 /\ \A c \in Controller : ctl[c].at # "spawn" /\ inst[c] = "none"
  BY DEF Inv, Once, Entitled, Finishing
<1>2. task'.phase \notin {"Ready", "NeedsReview", "Failed", "Expired"}
  BY Zenon DEF Late, Early
<1>3. ASSUME NEW c \in Controller PROVE Settled(c)'
  BY <1>1, <1>2 DEF Settled, Touched
<1> QED BY <1>2, <1>3, Zenon DEF Verdicts

LEMMA VerdictsKept ==
  ASSUME Inv, Asked, Finishing, Alone, Verdicts, \A c \in Controller : Ordered(c),
         TypeOK', StepKinds
  PROVE Verdicts'
<1>1. CASE /\ UNCHANGED <<task, ctl, inst, installs, overlap>>
           /\ \A c \in Controller : queue'[c] = queue[c]
  <2>1. \A c \in Controller : Settled(c) <=> Settled(c)'
    BY <1>1 DEF Settled, Touched, Working, Late, LateQueue
  <2>2. overlap' <=> overlap
    BY <1>1, Zenon
  <2>3. task' = task /\ installs' = installs
    BY <1>1
  <2> QED BY <2>1, <2>2, <2>3, Zenon DEF Verdicts
<1>2. CASE Passes \/ UNCHANGED vars
  BY <1>1, <1>2, StillSame DEF Passes
<1>3. CASE ConsoleStep
  <2>1. UNCHANGED <<ctl, inst, installs, overlap>> /\ \A c \in Controller : Kept(c) \/ Heard(c)
    BY <1>3 DEF ConsoleStep
  <2>2. CASE task' = task
    <3>1. task.v # task.v + 1
      BY DEF Inv, TypeOK, Task
    <3>2. \A c \in Controller : queue'[c] = queue[c]
      BY <2>1, <2>2, <3>1 DEF Kept, Heard
    <3> QED BY <1>1, <2>1, <2>2, <3>2
  <2>3. CASE Submits
    <3>1. ~Late(task) /\ ~Late(task')
      BY <2>3, Zenon DEF Submits, NoTask, Late, Early
    <3> QED BY <2>1, <3>1, EarlySettled
  <2>4. CASE \E o \in Operator : Patches(o)
    <3>1. task.phase \in {"AwaitingPreflight", "AwaitingApproval"} /\ task'.phase = task.phase
      BY <2>4 DEF Patches, Asked
    <3>2. ~Late(task) /\ ~Late(task')
      BY <3>1, Zenon DEF Late, Early
    <3> QED BY <2>1, <3>2, EarlySettled
  <2> QED BY <1>3, <2>2, <2>3, <2>4 DEF ConsoleStep, Asks, Ends, Reads, Creates, Conflicts
<1>4. ASSUME NEW c \in Controller, ControllerStep(c), ~overlap' PROVE Verdicts'
  <2>1. ~overlap /\ \A d \in Controller \ {c} : Asleep(d) /\ Asleep(d)'
    BY <1>4, OthersSleep
  <2>2. Running(c)
    BY <2>1 DEF Verdicts, Running, TypeOK
  <2>3. Settled(c)'
    BY <1>4, <2>2, ProceedsSettled, SpawnsSettled, InstallsSettled, WritesSettled
       DEF ControllerStep
  <2>4. task'.phase \in {"Failed", "Expired"} => installs' = 0
    BY <2>3 DEF Settled, Touched, TypeOK
  <2>5. ASSUME NEW d \in Controller \ {c} PROVE Settled(d)'
    <3>1. ctl'[d].at = "down" /\ inst'[d] = "none" /\ queue'[d] = <<>>
      BY <2>1 DEF Asleep
    <3>2. ~Working(d)' /\ LateQueue(d)'
      BY <3>1, AtSets DEF Working, LateQueue
    <3>3. task'.phase \in {"Failed", "Expired"} => ~Touched(d)'
      BY <2>4, <3>1 DEF Touched
    <3> QED BY <3>1, <3>2, <3>3 DEF Settled
  <2> QED BY <2>3, <2>4, <2>5, Zenon DEF Verdicts
<1>5. ASSUME NEW c \in Controller, ControllerStep(c) PROVE Verdicts'
  <2>1. CASE overlap'
    BY <2>1, Zenon DEF Verdicts
  <2> QED BY <1>4, <1>5, <2>1
<1> QED BY <1>2, <1>3, <1>5 DEF StepKinds

(* What a controller takes away is not the credential of a plan.           *)
LEMMA WipesOthers ==
  ASSUME Inv, Finishing, Sweeping, Backed, Checked(task),
         NEW c \in Controller, Wipes(c), life[task.ref] > 0
  PROVE secret' = secret
<1>1. ~Late(task) /\ ~Nascent(task)
  BY Zenon DEF Checked, Late, Early, Nascent
<1>2. inst[c] = "none" /\ ctl[c].at # "spawn"
  BY <1>1 DEF Finishing, Inv, Once, Entitled
<1>3. ctl[c].at # "refetch" => ~Late(ctl[c].item)
  BY <1>1 DEF Finishing, Behind
<1>4. ctl[c].at \notin CleanAt
  BY <1>3, AtSets DEF Finishing
<1>5. ctl[c].at = "sweep" => ~Sweepable(ctl[c].item)
  <2>1. \A t : t.phase \in Terminal \cup {"absent"} => Late(t) \/ t.phase = "absent"
    BY Zenon DEF Terminal, Late, Early
  <2>2. life[secret] # 0
    BY DEF Backed
  <2> QED BY <1>1, <1>3, <2>1, <2>2, Zenon DEF Sweepable, Sweeping
<1> QED BY <1>2, <1>4, <1>5, Zenon DEF Wipes

LEMMA SweepingKept ==
  ASSUME Inv, Finishing, Alone, Asked, Sweeping, StepKinds, ~overlap'
  PROVE Sweeping'
<1>1. CASE ctl' = ctl /\ (Nascent(task) => Nascent(task'))
  BY <1>1 DEF Sweeping, Nascent
<1>2. CASE ConsoleStep
  <2>1. CASE Submits
    <3>1. Nascent(task')
      BY <2>1, Zenon DEF Submits, Nascent
    <3> QED BY <1>1, <1>2, <3>1 DEF ConsoleStep
  <2>2. ASSUME NEW o \in Operator, Asks(o) PROVE task'.phase = task.phase
    BY <2>2 DEF Asks, Ends, Reads, Creates, Conflicts, Patches
  <2>3. CASE task'.phase = task.phase
    <3>1. Nascent(task) => Nascent(task')
      BY <2>3, Zenon DEF Nascent
    <3> QED BY <1>1, <1>2, <3>1 DEF ConsoleStep
  <2> QED BY <1>2, <2>1, <2>2, <2>3 DEF ConsoleStep
<1>3. CASE Passes \/ UNCHANGED vars
  BY <1>1, <1>3, StillSame DEF Passes
<1>4. ASSUME NEW c \in Controller, ControllerStep(c) PROVE Sweeping'
  <2>1. \A d \in Controller \ {c} : ctl'[d].at = "down"
    BY <1>4, OthersSleep DEF Asleep
  <2>2. ASSUME ctl'[c].at = "sweep", ctl'[c].item.phase = "absent" PROVE Nascent(task')
    <3>1. CASE Proceeds(c)
      <4>1. ctl'[c].item = task /\ task' = task
        BY <2>2, <3>1 DEF Proceeds
      <4> QED BY <2>2, <4>1, Zenon DEF Nascent
    <3>2. CASE Spawns(c) \/ Writes(c)
      BY <2>2, <3>2, AtSets DEF Spawns, Writes
    <3>3. CASE Installs(c)
      <4>1. Late(task) /\ ctl' = ctl
        BY <3>3 DEF Installs, Finishing
      <4>2. ~Nascent(task)
        BY <4>1, Zenon DEF Late, Early, Nascent
      <4> QED BY <2>2, <4>1, <4>2 DEF Sweeping
    <3> QED BY <1>4, <3>1, <3>2, <3>3 DEF ControllerStep
  <2>3. \A d \in Controller : ctl'[d].at = "sweep" /\ ctl'[d].item.phase = "absent" => Nascent(task')
    BY <2>1, <2>2
  <2> QED BY <2>3 DEF Sweeping, Nascent
<1> QED BY <1>2, <1>3, <1>4 DEF StepKinds

\* What the resource promises at its new version.
BackedNext ==
  Checked(task') =>
    /\ task'.ref # 0 /\ (life'[task'.ref] > 0 => secret' = task'.ref)
    /\ task'.phase = "AwaitingApproval" => left'.plan <= life'[task'.ref]

LEMMA BackedByController ==
  ASSUME Inv, Finishing, Sweeping, Backed, NEW c \in Controller, ControllerStep(c)
  PROVE BackedNext
<1> SUFFICES ASSUME Checked(task')
             PROVE /\ task'.ref # 0 /\ (life'[task'.ref] > 0 => secret' = task'.ref)
                   /\ task'.phase = "AwaitingApproval" => left'.plan <= life'[task'.ref]
  BY DEF BackedNext
<1>1. life' = life /\ task'.ref = task.ref /\ Wipes(c)
  BY RefStays DEF ControllerStep, OfController
<1>2. CASE task' = task /\ left' = left
  BY <1>1, <1>2, WipesOthers DEF Backed
<1>3. CASE Writes(c) /\ Succeeds(c)
  <2>1. secret' = secret
    BY <1>3 DEF Writes
  <2>2. CASE task'.phase = "Preflighting"
    <3>1. CredentialOK(task)
      BY <1>3, <2>2, Zenon DEF Succeeds
    <3> QED BY <1>1, <2>1, <2>2, <3>1 DEF CredentialOK
  <2>3. CASE task'.phase = "AwaitingApproval"
    <3>1. task.phase = "Preflighting" /\ left'.plan = PlanLife(task)
      BY <1>3, <2>3, Zenon DEF Succeeds
    <3>2. Checked(task)
      BY <3>1 DEF Checked
    <3>3. task.ref \in Uids /\ life[task.ref] \in 0..SecretTTL
      BY <3>2, EnrollmentConstants DEF Backed, Inv, TypeOK, Task, Uids
    <3>4. PlanLife(task) <= life[task.ref]
      BY <3>3, EnrollmentConstants DEF PlanLife
    <3> QED BY <1>1, <2>1, <3>1, <3>2, <3>4 DEF Backed
  <2> QED BY <2>2, <2>3 DEF Checked
<1>4. ~Late(task')
  BY Zenon DEF Checked, Late, Early
<1> QED BY <1>2, <1>3, <1>4 DEF ControllerStep, Spawns, Installs, Writes, Proceeds

LEMMA BackedByConsole ==
  ASSUME Inv, Asked, Fresh, Backed, ConsoleStep PROVE BackedNext
<1> SUFFICES ASSUME Checked(task')
             PROVE /\ task'.ref # 0 /\ (life'[task'.ref] > 0 => secret' = task'.ref)
                   /\ task'.phase = "AwaitingApproval" => left'.plan <= life'[task'.ref]
  BY DEF BackedNext
<1>1. left' = left
  BY DEF ConsoleStep
<1>2. ~Submits
  BY Zenon DEF Submits, Checked
<1>3. PICK o \in Operator : Asks(o)
  BY <1>2 DEF ConsoleStep
<1>4. CASE task' = task /\ life' = life /\ secret' = secret
  BY <1>1, <1>4 DEF Backed
<1>5. CASE Ends(o)
  <2>1. task' = task /\ life' = life
    BY <1>5 DEF Ends
  <2>2. secret' # secret => secret # task.ref
    BY <1>5 DEF Ends, Fresh
  <2> QED BY <1>1, <2>1, <2>2 DEF Backed
<1>6. CASE Creates(o)
  <2>1. task' = task /\ secret = 0 /\ life' = [life EXCEPT ![made + 1] = SecretTTL]
    BY <1>6 DEF Creates
  <2>2. task.ref # 0 /\ ~(life[task.ref] > 0)
    BY <2>1 DEF Backed
  <2>3. task.ref \in Uids /\ task.ref # made + 1 /\ life \in [Uids -> 0..SecretTTL]
    BY <2>2, EnrollmentConstants DEF Fresh, Inv, TypeOK, Task, Uids
  <2>4. life'[task.ref] = life[task.ref]
    BY <2>1, <2>3
  <2> QED BY <1>1, <2>1, <2>2, <2>4 DEF Backed
<1>7. CASE Patches(o)
  <2>1. task'.phase = task.phase /\ op[o].item = task /\ life' = life /\ secret' = secret
    BY <1>7 DEF Patches, credential
  <2>2. op[o].at # "patch"
    BY <2>1 DEF Asked, Checked
  <2>3. task'.ref = task.ref /\ Checked(task)
    BY <1>7, <2>1, <2>2 DEF Patches, Checked
  <2> QED BY <1>1, <2>1, <2>3 DEF Backed
<1>8. CASE Reads(o) \/ Conflicts(o)
  BY <1>4, <1>8 DEF Reads, Conflicts, credential
<1> QED BY <1>3, <1>5, <1>6, <1>7, <1>8 DEF Asks

LEMMA BackedKept ==
  ASSUME Inv, Asked, Finishing, Fresh, Sweeping, Backed, StepKinds PROVE Backed'
<1>1. CASE Passes
  <2>1. UNCHANGED <<task, secret>> /\ left'.plan = Less(left.plan)
    BY <1>1 DEF Passes
  <2> SUFFICES ASSUME Checked(task) PROVE BackedNext
    BY <2>1 DEF BackedNext, Backed, Checked
  <2>2. task.ref \in Uids /\ life[task.ref] \in 0..SecretTTL /\ left.plan \in 0..PlanTTL
    BY EnrollmentConstants DEF Backed, Inv, TypeOK, Task, Uids
  <2>3. life'[task.ref] = Less(life[task.ref])
    BY <1>1, <2>2 DEF Passes
  <2>4. life'[task.ref] > 0 => life[task.ref] > 0
    BY <2>2, <2>3, EnrollmentConstants DEF Less
  <2>5. left.plan <= life[task.ref] => left'.plan <= life'[task.ref]
    BY <2>1, <2>2, <2>3, EnrollmentConstants DEF Less
  <2> QED BY <2>1, <2>4, <2>5 DEF Backed, BackedNext
<1>2. CASE UNCHANGED vars
  BY <1>2, StillSame DEF Backed, Checked
<1>3. BackedNext => Backed'
  BY DEF BackedNext, Backed, Checked
<1> QED BY <1>1, <1>2, <1>3, BackedByController, BackedByConsole DEF StepKinds

(* No overlap after a step: none before it.                                *)
LEMMA OverlapStays ==
  ASSUME StepKinds, ~overlap' PROVE ~overlap
BY StillSame, Zenon DEF StepKinds, ConsoleStep, Passes, ControllerStep

LEMMA PlannedKept ==
  ASSUME Inv, Asked, Finishing, Alone, Fresh, Planned, StepKinds PROVE Planned'
<1>1. ASSUME ~overlap' PROVE Sweeping' /\ Backed'
  <2>1. ~overlap
    BY <1>1, OverlapStays
  <2>2. Sweeping /\ Backed
    BY <2>1, Zenon DEF Planned
  <2> QED BY <1>1, <2>2, SweepingKept, BackedKept
<1> QED BY <1>1, Zenon DEF Planned

-----------------------------------------------------------------------------
LEMMA OneInit ==
  ASSUME NodeInit PROVE OneInv
<1>1. Inv
  BY NodeInitKeeps
<1>2. /\ task = NoTask /\ made = 0 /\ installs = 0
      /\ \A o \in Operator : op[o].at = "idle"
      /\ \A c \in Controller : /\ ctl[c].at = "down" /\ ctl[c].item = NoTask
                               /\ inst[c] = "none" /\ queue[c] = <<>>
  BY DEF NodeInit, Init, IdleOp, Down
<1>3. NoTask.phase = "absent" /\ NoTask.ref = 0
  BY Zenon DEF NoTask
<1>4. ~Late(NoTask) /\ ~Checked(NoTask)
  BY <1>3, Zenon DEF Late, Early, Checked
<1>5. Asked
  BY <1>2 DEF Asked
<1>6. Finishing
  BY <1>2, <1>4, AtSets DEF Finishing, Behind
<1>7. Alone
  BY <1>2 DEF Alone, Asleep, Up
<1>8. \A c \in Controller : Ordered(c)
  BY <1>2 DEF Ordered
<1>9. Verdicts
  <2>1. ASSUME NEW c \in Controller PROVE Settled(c)
    <3>1. ~Touched(c)
      BY <1>2, <1>3 DEF Touched
    <3> QED BY <1>2, <3>1 DEF Settled
  <2> QED BY <1>2, <2>1 DEF Verdicts
<1>10. Fresh
  BY <1>2, <1>3 DEF Fresh
<1>11. Planned
  BY <1>2, <1>4 DEF Planned, Sweeping, Backed
<1> QED BY <1>1, <1>5, <1>6, <1>7, <1>8, <1>9, <1>10, <1>11 DEF OneInv

LEMMA OneNext ==
  ASSUME OneInv, [NodeNext]_nodeVars PROVE OneInv'
<1>1. Inv' /\ Tidy /\ StepKinds
  BY NodeNextKeeps, NodeNextTidy, NextKinds DEF OneInv
<1>2. TypeOK'
  BY <1>1 DEF Tidy
<1>3. Asked' /\ Finishing' /\ Alone' /\ Fresh'
  BY <1>1, AskedKept, FinishingKept, AloneKept, FreshKept DEF OneInv
<1>4. Verdicts'
  BY <1>1, <1>2, VerdictsKept DEF OneInv
<1>5. Planned'
  BY <1>1, PlannedKept DEF OneInv
<1>6. ASSUME NEW c \in Controller PROVE Ordered(c)'
  BY <1>1, <1>2, AllOrderedKept DEF OneInv
<1> QED BY <1>1, <1>3, <1>4, <1>5, <1>6 DEF OneInv

(* Failed and Expired are true to the operator: while no two controllers   *)
(* were ever alive at once, a machine with such a verdict was sent no      *)
(* INSTALL, and no installer thread is under way that could still send it. *)
THEOREM FailedUntouched == NodeSpec => []FailedMeansUntouched
<1>1. OneInv => FailedMeansUntouched
  <2> SUFFICES ASSUME OneInv, ~overlap, task.phase \in {"Failed", "Expired"}
               PROVE installs = 0 /\ \A c \in Controller : inst[c] \in {"none", "broken"}
    BY Zenon DEF FailedMeansUntouched
  <2>1. installs = 0 /\ \A c \in Controller : Settled(c)
    BY Zenon DEF OneInv, Verdicts
  <2>2. \A c \in Controller : inst[c] = "none"
    BY <2>1 DEF Settled, Touched
  <2> QED BY <2>1, <2>2
<1> QED BY <1>1, OneInit, OneNext, PTL DEF NodeSpec

(* What may follow a verdict.                                              *)
LEMMA VerdictStep ==
  ASSUME OneInv, StepKinds, ~overlap, task.phase \in Terminal
  PROVE \/ task'.phase = task.phase
        \/ task.phase = "Ready" /\ task'.phase = "NeedsReview"
        \/ task.phase = "Expired" /\ task'.phase = "Failed"
<1>1. Inv /\ \A c \in Controller : Settled(c)
  BY Zenon DEF OneInv, Verdicts
<1>2. CASE task' = task
  BY <1>2
<1>3. ~Submits
  <2>1. NoTask.phase \notin Terminal
    BY Zenon DEF NoTask, Terminal
  <2> QED BY <2>1 DEF Submits
<1>4. ASSUME NEW o \in Operator, Asks(o) PROVE task'.phase = task.phase
  BY <1>4 DEF Asks, Ends, Reads, Creates, Conflicts, Patches
<1>5. task.phase \in {"Ready", "NeedsReview", "Failed", "Expired"}
  BY Zenon DEF Terminal
<1>6. ASSUME NEW c \in Controller, Writes(c), Succeeds(c)
      PROVE task.phase \in {"Failed", "Expired"} /\ task'.phase = "Failed"
  <2>1. ctl[c].at = "fail" /\ task'.phase = "Failed"
    BY <1>6, Zenon DEF Succeeds
  <2>2. ~Touched(c)
    BY <1>1, <2>1, AtSets DEF Settled, Working
  <2> QED BY <1>5, <2>1, <2>2 DEF Touched
<1>7. ASSUME NEW c \in Controller, Installs(c), task' # task
      PROVE task.phase \in {"Ready", "NeedsReview"} /\ task'.phase = "NeedsReview"
  <2>1. Touched(c)
    BY <1>7 DEF Installs, Touched
  <2>2. task.phase \notin {"Failed", "Expired"}
    BY <1>1, <2>1 DEF Settled
  <2> QED BY <1>5, <1>7, <2>2 DEF Installs
<1>8. ASSUME NEW c \in Controller, ControllerStep(c), task' # task
      PROVE (Writes(c) /\ Succeeds(c)) \/ Installs(c)
  BY <1>8 DEF ControllerStep, Writes, Spawns, Proceeds
<1> QED BY <1>2, <1>3, <1>4, <1>6, <1>7, <1>8, StillSame DEF StepKinds, ConsoleStep, Passes

(* While no two controllers were ever alive at once, a final phase is      *)
(* written over by no other verdict, whatever old copies the console and   *)
(* the controller still hold: a controller that handles an old watch event *)
(* finds its write refused, and only the refetch after a lost answer turns *)
(* Expired into Failed, or the installer's last report Ready into          *)
(* NeedsReview.                                                            *)
THEOREM VerdictKept == NodeSpec => VerdictStays
<1> DEFINE Change == <<task.phase, task'.phase>>
           Allowed == {<<p, p>> : p \in Terminal}
                        \cup {<<"Ready", "NeedsReview">>, <<"Expired", "Failed">>}
           Stays == ~overlap /\ task.phase \in Terminal => Change \in Allowed
<1>1. ASSUME OneInv, [NodeNext]_nodeVars PROVE [Stays]_vars
  <2>1. ASSUME ~overlap, task.phase \in Terminal PROVE Change \in Allowed
    <3>1. StepKinds
      BY <1>1, NextKinds DEF OneInv
    <3>2. \/ task'.phase = task.phase
          \/ task.phase = "Ready" /\ task'.phase = "NeedsReview"
          \/ task.phase = "Expired" /\ task'.phase = "Failed"
      BY <1>1, <2>1, <3>1, VerdictStep
    <3> QED BY <2>1, <3>2, Zenon
  <2> QED BY <2>1, Zenon
<1>2. NodeSpec => [][Stays]_vars
  <2> HIDE DEF Stays
  <2> QED BY <1>1, OneInit, OneNext, PTL DEF NodeSpec
<1>3. [][Stays]_vars => VerdictStays
  BY PTL DEF VerdictStays
<1> QED BY <1>2, <1>3, PTL

(* A plan the operator may approve can be carried out: no cleanup of the   *)
(* controller and no other request of the console takes its credential     *)
(* away, and the credential does not expire before the plan.               *)
THEOREM CredentialKept == NodeSpec => []PlanKeepsCredential
<1>1. OneInv => PlanKeepsCredential
  <2> SUFFICES ASSUME OneInv, ~overlap, task.phase = "AwaitingApproval", left.plan > 0
               PROVE secret = task.ref /\ life[secret] > 0
    BY Zenon DEF PlanKeepsCredential
  <2>1. Backed /\ Inv
    BY Zenon DEF OneInv, Planned
  <2>2. /\ task.ref # 0 /\ left.plan <= life[task.ref]
        /\ (life[task.ref] > 0 => secret = task.ref)
    BY <2>1 DEF Backed, Checked
  <2>3. life[task.ref] \in Nat /\ left.plan \in Nat
    BY <2>1, <2>2, EnrollmentConstants DEF Inv, TypeOK, Task, Uids
  <2>4. life[task.ref] > 0
    BY <2>2, <2>3
  <2> QED BY <2>2, <2>4
<1> QED BY <1>1, OneInit, OneNext, PTL DEF NodeSpec

=============================================================================
