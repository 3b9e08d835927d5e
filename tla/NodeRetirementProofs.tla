------------------------ MODULE NodeRetirementProofs ------------------------
(***************************************************************************)
(* For every number of operators and controllers, and whatever is lost or  *)
(* arrives late: a retirement removes no node but the one its operator     *)
(* confirmed, offline and at its address, and is shown as deleted only     *)
(* when that node is gone.                                                 *)
(*                                                                         *)
(* The argument is the pair of preconditions of DELETE.  The uid names a   *)
(* node for good, because a node that is registered anew gets another one; *)
(* the resourceVersion names its state, because every change of what       *)
(* retirement_node checks raises it.                                       *)
(***************************************************************************)
EXTENDS NodeEnrollmentProofs

RetirePlaces == RetireAt \ {"watch"}
RopType == [at : {"idle", "confirm", "inventory", "post", "ended"}, seen : Node]
CopyType == [item : Retirement, rv : Changes, sent : BOOLEAN, review : BOOLEAN,
             listed : BOOLEAN]

RetirementTypes ==
  /\ node \in Node /\ ret \in Retirement
  /\ rop \in [Operator -> RopType] /\ rctl \in [Controller -> CopyType]
  /\ rqueue \in [Controller -> Seq(Retirement)]

(* An object's version counts all its changes, so no uid and no address is *)
(* newer than the version.                                                 *)
NodeKnown ==
  /\ node.uid <= node.rv /\ node.ip <= node.rv
  /\ \A o \in Operator : rop[o].at \in {"confirm", "inventory", "post"} =>
       rop[o].seen.uid # 0 /\ rop[o].seen.uid <= node.rv
  /\ ret.uid = 0 => ret = NoRetirement
  /\ ret.uid <= node.rv

(* Whatever the controllers hold of the retirement names the same node.    *)
SameTarget(r) == ret.uid # 0 /\ r.uid = ret.uid /\ r.ip = ret.ip
Targets ==
  \A c \in Controller :
    /\ ctl[c].at \in RetirePlaces => SameTarget(rctl[c].item)
    /\ \A i \in 1..Len(rqueue[c]) : SameTarget(rqueue[c][i])

(* A DELETE with these preconditions takes the confirmed node, offline and *)
(* at its address, or nothing.                                             *)
Fits(uid, rv) ==
  /\ ret.uid # 0 /\ uid = ret.uid /\ rv \in Nat /\ rv <= node.rv
  /\ Matches(uid, rv) => ~node.ready /\ node.ip = ret.ip
Deletes ==
  /\ \A c \in Controller : ctl[c].at = "retire delete" => Fits(rctl[c].item.uid, rctl[c].rv)
  /\ \A d \in late : Fits(d[1], d[2])

Removed ==
  /\ killed # {} => ret.uid # 0
  /\ OnlyConfirmedNodeRemoved
  /\ \A c \in Controller : ctl[c].at = "retire write" => node.uid # ret.uid
  /\ DeletedMeansGone

RetireInv == RetirementTypes /\ NodeKnown /\ Targets /\ Deletes /\ Removed

-----------------------------------------------------------------------------
(* What steps do to the node and to the resource.                          *)

(* The same of the state after a step.                                     *)
TargetThen(r) == ret'.uid # 0 /\ r.uid = ret'.uid /\ r.ip = ret'.ip
MatchesThen(uid, rv) == node'.uid # 0 /\ node'.uid = uid /\ node'.rv = rv
FitsThen(uid, rv) ==
  /\ ret'.uid # 0 /\ uid = ret'.uid /\ rv \in Nat /\ rv <= node'.rv
  /\ MatchesThen(uid, rv) => ~node'.ready /\ node'.ip = ret'.ip

(* A node changes with its version, or goes; a new one gets a new uid.     *)
NodeStep ==
  /\ node' \in Node /\ node'.rv >= node.rv /\ node'.uid <= node'.rv /\ node'.ip <= node'.rv
  /\ node'.uid \in {0, node.uid} \/ node'.uid > node.rv
  /\ \A uid, rv : rv <= node.rv /\ MatchesThen(uid, rv) =>
       Matches(uid, rv) /\ node'.ready = node.ready /\ node'.ip = node.ip

(* The resource keeps its target, and is Deleted only without its node.    *)
RetStep ==
  \/ ret' = ret
  \/ /\ ret' \in Retirement /\ ret.uid # 0 /\ ret'.uid = ret.uid /\ ret'.ip = ret.ip
     /\ ret'.phase = "Deleted" => node.uid # ret.uid

(* What is known of the target survives such steps.                        *)
LEMMA TargetStays ==
  ASSUME RetireInv, NodeStep, RetStep
  PROVE  /\ ret'.uid = ret.uid /\ ret'.ip = ret.ip
         /\ \A r : SameTarget(r) => TargetThen(r)
         /\ \A uid, rv : Fits(uid, rv) => FitsThen(uid, rv)
         /\ ret.uid # 0 /\ node.uid # ret.uid => node'.uid # ret'.uid
         /\ RetirementShown(ret') = "Deleted" /\ ret.uid # 0 => node'.uid # ret'.uid
<1>1. ret'.uid = ret.uid /\ ret'.ip = ret.ip
  BY DEF RetStep
<1>2. \A r : SameTarget(r) => TargetThen(r)
  BY <1>1 DEF SameTarget, TargetThen
<1>3. /\ node.rv \in Nat /\ node'.rv \in Nat /\ node.uid \in Nat /\ node'.uid \in Nat
      /\ ret.uid \in Nat /\ ret.uid <= node.rv
  <2>1. Changes \subseteq Nat
    BY RetirementConstants DEF Changes
  <2>2. node.rv \in Changes /\ node.uid \in Changes /\ ret.uid \in Changes
    BY DEF RetireInv, RetirementTypes, Node, Retirement
  <2>3. node'.rv \in Changes /\ node'.uid \in Changes
    BY DEF NodeStep, Node
  <2> QED BY <2>1, <2>2, <2>3 DEF RetireInv, NodeKnown
<1>4. ASSUME NEW uid, NEW rv, Fits(uid, rv) PROVE FitsThen(uid, rv)
  <2>1. rv \in Nat /\ rv <= node.rv /\ rv <= node'.rv
    BY <1>3, <1>4 DEF Fits, NodeStep
  <2>2. MatchesThen(uid, rv) => node'.ready = node.ready /\ node'.ip = node.ip /\ Matches(uid, rv)
    BY <2>1 DEF NodeStep
  <2>3. MatchesThen(uid, rv) => ~node'.ready /\ node'.ip = ret.ip
    BY <1>4, <2>2 DEF Fits
  <2> QED BY <1>1, <1>4, <2>1, <2>3 DEF Fits, FitsThen
<1>5. ret.uid # 0 /\ node.uid # ret.uid => node'.uid # ret'.uid
  BY <1>1, <1>3 DEF NodeStep
<1>6. RetirementShown(ret') = "Deleted" /\ ret.uid # 0 => node'.uid # ret'.uid
  <2>1. RetirementShown(ret') = "Deleted" => ret'.phase = "Deleted"
    BY DEF RetirementShown
  <2>2. ret.phase = "Deleted" => node.uid # ret.uid
    BY DEF RetireInv, Removed, DeletedMeansGone, RetirementShown
  <2> QED BY <1>5, <2>1, <2>2 DEF RetStep
<1> QED BY <1>1, <1>2, <1>4, <1>5, <1>6

(* A watch that hears of a version, delivers one or is opened anew.        *)
HeardFrom(d) ==
  \/ rqueue'[d] \in {rqueue[d], <<>>}
  \/ rqueue'[d] = Append(rqueue[d], ret') /\ TargetThen(ret')
  \/ rqueue[d] # <<>> /\ rqueue'[d] = Tail(rqueue[d])

LEMMA HeardTargets ==
  ASSUME RetireInv, NodeStep, RetStep, NEW d \in Controller, HeardFrom(d), ret' \in Retirement
  PROVE  /\ rqueue'[d] \in Seq(Retirement)
         /\ \A i \in 1..Len(rqueue'[d]) : TargetThen(rqueue'[d][i])
<1>1. /\ rqueue[d] \in Seq(Retirement)
      /\ \A i \in 1..Len(rqueue[d]) : SameTarget(rqueue[d][i])
  BY DEF RetireInv, RetirementTypes, Targets
<1> DEFINE q == rqueue[d]
           n == rqueue'[d]
           new == ret'
           Known(r) == TargetThen(r)
<1>2. \A i \in 1..Len(q) : Known(q[i])
  BY <1>1, TargetStays
<1>3. \/ n = q \/ n = <<>> \/ (n = Append(q, new) /\ Known(new)) \/ (q # <<>> /\ n = Tail(q))
  BY DEF HeardFrom
<1>4. q \in Seq(Retirement) /\ new \in Retirement
  BY <1>1
<1> HIDE DEF q, n, new, Known
<1>5. n \in Seq(Retirement) /\ \A i \in 1..Len(n) : Known(n[i])
  <2>1. CASE n = <<>>
    BY <2>1
  <2>4. CASE n = q
    BY <1>2, <1>4, <2>4
  <2>2. CASE n = Append(q, new) /\ Known(new)
    <3>1. n \in Seq(Retirement) /\ Len(n) = Len(q) + 1
      BY <1>4, <2>2
    <3>2. ASSUME NEW i \in 1..Len(n) PROVE Known(n[i])
      <4>1. n[i] = new \/ (i \in 1..Len(q) /\ n[i] = q[i])
        BY <1>4, <2>2, <3>1
      <4> QED BY <1>2, <2>2, <4>1
    <3> QED BY <3>1, <3>2
  <2>3. CASE q # <<>> /\ n = Tail(q)
    <3>1. n \in Seq(Retirement) /\ Len(n) = Len(q) - 1
      BY <1>4, <2>3
    <3>2. ASSUME NEW i \in 1..Len(n) PROVE Known(n[i])
      <4>1. i + 1 \in 1..Len(q) /\ n[i] = q[i + 1]
        BY <1>4, <2>3, <3>1
      <4> QED BY <1>2, <4>1
    <3> QED BY <3>1, <3>2
  <2> QED BY <1>3, <2>1, <2>2, <2>3, <2>4
<1> QED BY <1>5 DEF q, n, new, Known

(* A controller that works on the right copy, and holds the preconditions  *)
(* of a DELETE only as it should.                                          *)
PlaceKnown(at, copy) ==
  /\ copy \in CopyType
  /\ at \in RetirePlaces => TargetThen(copy.item)
  /\ at = "retire delete" => FitsThen(copy.item.uid, copy.rv)
  /\ at = "retire write" => node'.uid # ret'.uid

(* A step of the retirement's steps together: who stays where it is keeps  *)
(* what it knows.                                                          *)
LEMMA RetireKeeps ==
  ASSUME RetireInv, NodeStep, RetStep,
         rop' \in [Operator -> RopType],
         \A o \in Operator : rop'[o].at \in {"confirm", "inventory", "post"} =>
           rop'[o].seen.uid # 0 /\ rop'[o].seen.uid <= node'.rv,
         rctl' = [d \in Controller |-> rctl'[d]],
         rqueue' = [d \in Controller |-> rqueue'[d]],
         \A d \in Controller :
           /\ HeardFrom(d)
           /\ \/ /\ rctl'[d] = rctl[d]
                 /\ ctl'[d].at \in RetirePlaces => ctl'[d].at = ctl[d].at
              \/ PlaceKnown(ctl'[d].at, rctl'[d]),
         \A d \in late' : d \in late \/ FitsThen(d[1], d[2]),
         \A n \in killed' : \/ n \in killed
                            \/ n.uid = ret.uid /\ ~n.ready /\ n.ip = ret.ip /\ ret.uid # 0
  PROVE  RetireInv'
<1>1. ret' \in Retirement /\ node' \in Node
  BY DEF RetireInv, RetirementTypes, RetStep, NodeStep
<1>2. \A d \in Controller : PlaceKnown(ctl'[d].at, rctl'[d])
  <2> SUFFICES ASSUME NEW d \in Controller, rctl'[d] = rctl[d],
                      ctl'[d].at \in RetirePlaces => ctl'[d].at = ctl[d].at
               PROVE  PlaceKnown(ctl'[d].at, rctl'[d])
    OBVIOUS
  <2>1. rctl'[d] \in CopyType
    BY DEF RetireInv, RetirementTypes
  <2>2. ctl'[d].at \in RetirePlaces => TargetThen(rctl[d].item)
    BY TargetStays DEF RetireInv, Targets
  <2>3. ctl'[d].at = "retire delete" => FitsThen(rctl[d].item.uid, rctl[d].rv)
    BY TargetStays DEF RetireInv, Deletes, RetirePlaces, RetireAt
  <2>4. ctl'[d].at = "retire write" => node'.uid # ret'.uid
    <3>1. ctl'[d].at = "retire write" => /\ node.uid # ret.uid /\ SameTarget(rctl[d].item)
      BY DEF RetireInv, Removed, Targets, RetirePlaces, RetireAt
    <3> QED BY <3>1, TargetStays DEF SameTarget
  <2> QED BY <2>1, <2>2, <2>3, <2>4 DEF PlaceKnown
<1>3. RetirementTypes'
  <2>1. \A d \in Controller : rctl'[d] \in CopyType
    BY <1>2 DEF PlaceKnown
  <2>2. \A d \in Controller : rqueue'[d] \in Seq(Retirement)
    BY <1>1, HeardTargets
  <2>3. rctl' \in [Controller -> CopyType]
    BY <2>1
  <2>4. rqueue' \in [Controller -> Seq(Retirement)]
    BY <2>2
  <2> QED BY <1>1, <2>3, <2>4 DEF RetirementTypes
<1>4. NodeKnown'
  <2>1. /\ node.rv \in Nat /\ node'.rv \in Nat /\ ret.uid \in Nat
        /\ ret.uid <= node.rv /\ ret'.uid = ret.uid
    <3>1. Changes \subseteq Nat
      BY RetirementConstants DEF Changes
    <3>2. node.rv \in Changes /\ node.uid \in Changes /\ ret.uid \in Changes
      BY DEF RetireInv, RetirementTypes, Node, Retirement
    <3>3. node'.rv \in Changes /\ node'.uid \in Changes
      BY DEF NodeStep, Node
    <3> QED BY <3>1, <3>2, <3>3, TargetStays DEF RetireInv, NodeKnown
  <2>2. ret'.uid = 0 => ret' = NoRetirement
    BY <2>1 DEF RetStep, RetireInv, NodeKnown
  <2>3. ret'.uid <= node'.rv
    BY <2>1 DEF NodeStep
  <2> QED BY <2>2, <2>3 DEF NodeKnown, NodeStep
<1>5. Targets'
  BY <1>1, <1>2, HeardTargets DEF PlaceKnown, Targets, SameTarget, TargetThen
<1>6. Deletes'
  <2>1. \A d \in late' : FitsThen(d[1], d[2])
    BY TargetStays DEF RetireInv, Deletes
  <2>2. \A c \in Controller : ctl'[c].at = "retire delete" => FitsThen(rctl'[c].item.uid, rctl'[c].rv)
    BY <1>2 DEF PlaceKnown
  <2> QED BY <2>1, <2>2 DEF Deletes, Fits, FitsThen, Matches, MatchesThen
<1>7. Removed'
  <2>1. killed' # {} => ret'.uid # 0
    BY TargetStays DEF RetireInv, Removed
  <2>2. OnlyConfirmedNodeRemoved'
    BY TargetStays DEF RetireInv, Removed, OnlyConfirmedNodeRemoved
  <2>3. \A c \in Controller : ctl'[c].at = "retire write" => node'.uid # ret'.uid
    BY <1>2 DEF PlaceKnown
  <2>4. DeletedMeansGone'
    <3>1. ret.uid = 0 => ret' = ret /\ RetirementShown(ret) # "Deleted"
      <4>1. ret.uid = 0 => ret' = ret /\ ret = NoRetirement
        BY DEF RetStep, RetireInv, NodeKnown
      <4>2. RetirementShown(NoRetirement) # "Deleted"
        BY DEF NoRetirement, RetirementShown
      <4> QED BY <4>1, <4>2
    <3> QED BY <3>1, TargetStays DEF DeletedMeansGone
  <2> QED BY <2>1, <2>2, <2>3, <2>4 DEF Removed
<1> QED BY <1>3, <1>4, <1>5, <1>6, <1>7 DEF RetireInv

-----------------------------------------------------------------------------
(* Enrollments beside retirements.                                         *)

(* No controller begins to retire, or goes on with it.                     *)
PlacesKept == \A d \in Controller : ctl'[d].at \in RetirePlaces => ctl'[d].at = ctl[d].at

LEMMA GoPlaces ==
  ASSUME Inv, NEW c \in Controller, NEW at, NEW item, Go(c, at, item), at \notin RetirePlaces
  PROVE  PlacesKept
<1>1. ctl \in [Controller -> CtlType]
  BY DEF Inv, TypeOK, CtlType
<1>2. ctl'[c].at = at /\ \A d \in Controller : d # c => ctl'[d] = ctl[d]
  BY <1>1 DEF Go, CtlType
<1> QED BY <1>2 DEF PlacesKept

LEMMA WritePlaces ==
  ASSUME Inv, NEW c \in Controller, NEW t, NEW next, NEW error, Write(c, t, next, error),
         {next, error} \cap RetirePlaces = {}
  PROVE  PlacesKept
<1>1. PICK at \in {next, error, "watch"} : \E item : Go(c, at, item)
  BY DEF Write, Return
<1>2. at \notin RetirePlaces
  BY DEF RetirePlaces
<1> QED BY <1>1, <1>2, GoPlaces

(* reconcile and the installer are of enrollments only.                    *)
LEMMA ReconcilePlaces ==
  ASSUME Inv, NEW c \in Controller, Reconcile(c)
  PROVE  PlacesKept
<1> DEFINE W == {"scan", "preflight", "spawn", "watch", "clean", "clean or refetch", "refetch",
                 "fail"}
<1>1. W \cap RetirePlaces = {}
  BY DEF RetirePlaces, RetireAt
<1>2. ASSUME NEW phase, NEW error \in {"watch", "refetch"}, Fail(c, phase, error)
      PROVE  PlacesKept
  <2>1. PICK next \in W : \E t : Write(c, t, next, error)
    BY <1>2 DEF Fail
  <2> QED BY <1>1, <2>1, WritePlaces
<1>3. ASSUME NEW t, NEW next \in W, NEW error \in W, Write(c, t, next, error) PROVE PlacesKept
  BY <1>1, <1>3, WritePlaces
<1>4. ASSUME NEW at \in W, NEW item, Go(c, at, item) PROVE PlacesKept
  BY <1>1, <1>4, GoPlaces
<1>5. CASE \/ Reject(c) \/ Interrupted(c) \/ PreflightInterrupted(c) \/ PlanExpired(c)
           \/ ScanExpired(c) \/ InvalidTransition(c) \/ FailFresh(c)
  BY <1>2, <1>5 DEF Reject, Interrupted, PreflightInterrupted, PlanExpired, ScanExpired,
                    InvalidTransition, FailFresh
<1>6. CASE \/ Scan(c) \/ Scanned(c) \/ Preflight(c) \/ Join(c)
           \/ \E ok \in BOOLEAN : Probed(c, ok)
  <2>1. PICK next \in W, error \in W : \E t : Write(c, t, next, error)
    BY <1>6 DEF Scan, Scanned, Preflight, Join, Probed
  <2> QED BY <1>3, <2>1
<1>7. CASE \/ AlreadyTerminal(c) \/ Busy(c) \/ PreflightRefused(c) \/ HostFails(c)
           \/ JoinRefused(c) \/ StillWaiting(c) \/ Refetch(c) \/ CleanSecret(c) \/ Spawn(c)
  <2>1. PICK at \in W : \E item : Go(c, at, item)
    BY <1>7 DEF AlreadyTerminal, Busy, PreflightRefused, HostFails, JoinRefused, StillWaiting,
                Refetch, CleanSecret, Spawn, Return, Raise
  <2> QED BY <1>4, <2>1
<1> QED BY <1>5, <1>6, <1>7 DEF Reconcile

(* Neither are the console's requests, the clock and the start of a        *)
(* controller.                                                             *)
LEMMA EnrollmentPlaces ==
  ASSUME Inv, NEW c \in Controller,
         \/ Enroll \/ NodeElapse \/ NodeStart(c) \/ EnrollmentLoop(c)
         \/ NodeReconcile(c) \/ NodeInstaller(c)
  PROVE  PlacesKept /\ UNCHANGED retired
<1>1. UNCHANGED retired
  BY DEF Enroll, NodeElapse, NodeStart, EnrollmentLoop, NodeReconcile, NodeInstaller
<1>2. ctl \in [Controller -> CtlType]
  BY DEF Inv, TypeOK, CtlType
<1>3. CASE Enroll
  <2>1. UNCHANGED ctl
    BY <1>3 DEF Enroll, SubmitScan, Console, ReadScan, CreateSecret, SecretNotCreated,
                PatchPreflight, PatchRefused, UndoSecret, ReadPlan, PatchJoin, process
  <2> QED BY <1>1, <2>1 DEF PlacesKept
<1>4. CASE NodeElapse
  BY <1>1, <1>4 DEF NodeElapse, Elapse, process, PlacesKept
<1>5. CASE NodeStart(c)
  <2>1. ctl' = [ctl EXCEPT ![c] = [Down EXCEPT !.at = "boot"]]
    BY <1>5 DEF NodeStart, Start
  <2>2. [Down EXCEPT !.at = "boot"].at = "boot"
    BY DEF Down
  <2> QED BY <1>1, <1>2, <2>1, <2>2 DEF PlacesKept, RetirePlaces, RetireAt
<1>6. CASE EnrollmentLoop(c)
  <2>1. /\ ctl'[c].at \in {"watch", "handle", "list"}
        /\ \A d \in Controller : d # c => ctl'[d] = ctl[d]
    BY <1>2, <1>6 DEF EnrollmentLoop, List, Event, CleanupDelete, CtlType
  <2> QED BY <1>1, <2>1 DEF PlacesKept, RetirePlaces, RetireAt
<1>7. CASE NodeReconcile(c)
  BY <1>1, <1>7, ReconcilePlaces DEF NodeReconcile
<1>8. CASE NodeInstaller(c)
  BY <1>1, <1>8 DEF NodeInstaller, Installer, BeginInstall, SendInstall, Installed, NodeReady,
                    InstallFails, InstallBroken, PlacesKept
<1> QED BY <1>3, <1>4, <1>5, <1>6, <1>7, <1>8

(* The two steps that end the work of a process or a cycle.                *)
LEMMA CyclePlaces ==
  ASSUME Inv, NEW c \in Controller, ProcessDies(c) \/ NewCycle(c)
  PROVE  /\ ctl'[c].at \notin RetirePlaces
         /\ \A d \in Controller : d # c => ctl'[d] = ctl[d]
<1>1. ctl \in [Controller -> CtlType]
  BY DEF Inv, TypeOK, CtlType
<1>2. CASE ProcessDies(c)
  BY <1>1, <1>2 DEF ProcessDies, Crash, Down, RetirePlaces, RetireAt
<1>3. CASE NewCycle(c)
  <2>1. /\ ctl'[c].at \in {"list", "sweep"}
        /\ \A d \in Controller : d # c => ctl'[d] = ctl[d]
    BY <1>1, <1>3 DEF NewCycle, WatchFails, CleanupList, CtlType
  <2> QED BY <2>1 DEF RetirePlaces, RetireAt
<1> QED BY <1>2, <1>3

(* None of this concerns what is known of a retirement.                    *)
LEMMA EnrollmentKeeps ==
  ASSUME Inv, RetireInv,
         \/ Enroll \/ NodeElapse \/ UNCHANGED nodeVars
         \/ \E c \in Controller :
              \/ NodeStart(c) \/ EnrollmentLoop(c) \/ NodeReconcile(c) \/ NodeInstaller(c)
              \/ ProcessDies(c) \/ NewCycle(c)
  PROVE  RetireInv'
<1>1. ASSUME UNCHANGED <<node, ret, rop, late, killed>>,
             rctl' \in [Controller -> CopyType], rqueue' \in [Controller -> Seq(Retirement)],
             \A d \in Controller :
               \/ rctl'[d] = rctl[d] /\ rqueue'[d] = rqueue[d]
                    /\ (ctl'[d].at \in RetirePlaces => ctl'[d].at = ctl[d].at)
               \/ rctl'[d] = NoCopy /\ rqueue'[d] = <<>> /\ ctl'[d].at \notin RetirePlaces
      PROVE  RetireInv'
  <2>1. RetirementTypes'
    BY <1>1 DEF RetireInv, RetirementTypes
  <2>2. NodeKnown'
    BY <1>1 DEF RetireInv, NodeKnown
  <2>3. Targets'
    BY <1>1 DEF RetireInv, Targets, SameTarget
  <2>4. "retire delete" \in RetirePlaces /\ "retire write" \in RetirePlaces
    BY DEF RetirePlaces, RetireAt
  <2>5. Deletes'
    BY <1>1, <2>4 DEF RetireInv, Deletes, Fits, Matches
  <2>6. Removed'
    BY <1>1, <2>4 DEF RetireInv, Removed, OnlyConfirmedNodeRemoved, DeletedMeansGone,
                      RetirementShown
  <2> QED BY <2>1, <2>2, <2>3, <2>5, <2>6 DEF RetireInv
<1>2. /\ rctl \in [Controller -> CopyType] /\ rqueue \in [Controller -> Seq(Retirement)]
  BY DEF RetireInv, RetirementTypes
<1>3. CASE UNCHANGED retired /\ PlacesKept
  BY <1>1, <1>2, <1>3 DEF retired, PlacesKept
<1>4. CASE UNCHANGED nodeVars
  <2>1. UNCHANGED retired /\ UNCHANGED ctl
    BY <1>4 DEF nodeVars, vars
  <2> QED BY <1>3, <2>1 DEF PlacesKept
<1>5. ASSUME NEW c \in Controller, ProcessDies(c) \/ NewCycle(c) PROVE RetireInv'
  <2>1. /\ UNCHANGED <<node, ret, rop, late, killed>>
        /\ rctl' = [rctl EXCEPT ![c] = NoCopy] /\ rqueue' = [rqueue EXCEPT ![c] = <<>>]
    BY <1>5 DEF ProcessDies, NewCycle
  <2>2. NoCopy \in CopyType /\ <<>> \in Seq(Retirement)
    BY RetirementConstants
       DEF NoCopy, CopyType, NoRetirement, Retirement, RetireTerminal, Changes
  <2> QED BY <1>1, <1>2, <1>5, <2>1, <2>2, CyclePlaces
<1>6. CASE Enroll \/ NodeElapse
  <2>1. CASE Controller = {}
    <3>1. PlacesKept
      BY <2>1 DEF PlacesKept
    <3> QED BY <1>3, <1>6, <3>1 DEF Enroll, NodeElapse
  <2>2. CASE Controller # {}
    BY <1>3, <1>6, <2>2, EnrollmentPlaces
  <2> QED BY <2>1, <2>2
<1> QED BY <1>3, <1>4, <1>5, <1>6, EnrollmentPlaces

-----------------------------------------------------------------------------
(* The node, the scheduler and the operators.                              *)

LEMMA NodeStill ==
  ASSUME RetireInv, node' = node PROVE NodeStep
BY DEF RetireInv, RetirementTypes, NodeKnown, NodeStep, Matches, MatchesThen, Node, Changes

LEMMA ChangesAreNat ==
  Changes \subseteq Nat
BY RetirementConstants DEF Changes

(* A change of the node raises its version.                                *)
LEMMA NodeChangeSteps ==
  ASSUME RetireInv, NodeFlips \/ NodeMoves \/ NodeRegistersAnew \/ Work
  PROVE  NodeStep
<1>1. /\ node \in Node /\ node.uid \in Nat /\ node.rv \in Nat /\ node.ip \in Nat
      /\ node.uid <= node.rv /\ node.ip <= node.rv
  BY ChangesAreNat DEF RetireInv, RetirementTypes, NodeKnown, Node
<1>2. ASSUME NEW n \in [uid : Nat, rv : Nat, ready : BOOLEAN, ip : Nat, load : BOOLEAN],
             NodeChange(n), n.uid \in {node.uid, node.rv + 1}, n.ip \in {node.ip, node.ip + 1}
      PROVE  NodeStep
  <2>1. node.rv <= MaxNodeChanges /\ node' = [n EXCEPT !.rv = node.rv + 1]
    BY <1>2 DEF NodeChange
  <2>2. /\ node'.rv = node.rv + 1 /\ node'.uid = n.uid /\ node'.ip = n.ip
        /\ node'.ready = n.ready /\ node'.load = n.load
        /\ node' = [uid |-> n.uid, rv |-> node.rv + 1, ready |-> n.ready, ip |-> n.ip,
                    load |-> n.load]
    BY <2>1
  <2>3. n.uid \in Changes /\ n.ip \in Changes /\ node.rv + 1 \in Changes
    BY <1>1, <1>2, <2>1, RetirementConstants DEF Changes
  <2>4. node' \in Node
    BY <2>2, <2>3 DEF Node
  <2>5. /\ node'.rv >= node.rv /\ node'.uid <= node'.rv /\ node'.ip <= node'.rv
        /\ node'.uid \in {0, node.uid} \/ node'.uid > node.rv
    BY <1>1, <1>2, <2>2
  <2>6. \A uid, rv : ~(rv <= node.rv /\ MatchesThen(uid, rv))
    BY <1>1, <2>2 DEF MatchesThen
  <2> QED BY <2>4, <2>5, <2>6 DEF NodeStep
<1>3. CASE NodeFlips
  <2> DEFINE n == [node EXCEPT !.ready = ~@]
  <2>1. /\ n \in [uid : Nat, rv : Nat, ready : BOOLEAN, ip : Nat, load : BOOLEAN]
        /\ n.uid = node.uid /\ n.ip = node.ip
    <3>1. n = [uid |-> node.uid, rv |-> node.rv, ready |-> ~node.ready, ip |-> node.ip,
               load |-> node.load]
      BY <1>1 DEF Node
    <3>2. (~node.ready) \in BOOLEAN /\ node.load \in BOOLEAN
      BY <1>1 DEF Node
    <3> HIDE DEF n
    <3> QED BY <1>1, <3>1, <3>2
  <2>2. NodeChange(n)
    BY <1>3 DEF NodeFlips
  <2> HIDE DEF n
  <2> QED BY <1>2, <2>1, <2>2
<1>4. CASE NodeMoves
  <2> DEFINE n == [node EXCEPT !.ip = @ + 1]
  <2>1. /\ n \in [uid : Nat, rv : Nat, ready : BOOLEAN, ip : Nat, load : BOOLEAN]
        /\ n.uid = node.uid /\ n.ip = node.ip + 1
    BY <1>1 DEF Node
  <2>2. NodeChange(n)
    BY <1>4 DEF NodeMoves
  <2> HIDE DEF n
  <2> QED BY <1>2, <2>1, <2>2
<1>5. CASE NodeRegistersAnew
  <2> DEFINE n == [node EXCEPT !.uid = node.rv + 1, !.load = FALSE]
  <2>1. /\ n \in [uid : Nat, rv : Nat, ready : BOOLEAN, ip : Nat, load : BOOLEAN]
        /\ n.uid = node.rv + 1 /\ n.ip = node.ip
    <3> DEFINE m == [node EXCEPT !.uid = node.rv + 1]
    <3>3. m = [uid |-> node.rv + 1, rv |-> node.rv, ready |-> node.ready, ip |-> node.ip,
               load |-> node.load]
      BY <1>1 DEF Node
    <3>4. n = [m EXCEPT !.load = FALSE]
      OBVIOUS
    <3> HIDE DEF n, m
    <3>1. n = [uid |-> node.rv + 1, rv |-> node.rv, ready |-> node.ready, ip |-> node.ip,
               load |-> FALSE]
      BY <3>3, <3>4
    <3>2. node.ready \in BOOLEAN /\ FALSE \in BOOLEAN /\ node.rv + 1 \in Nat
      BY <1>1 DEF Node
    <3> QED BY <1>1, <3>1, <3>2
  <2>2. NodeChange(n)
    BY <1>5 DEF NodeRegistersAnew
  <2> HIDE DEF n
  <2> QED BY <1>2, <2>1, <2>2
<1>6. CASE Work
  <2>1. node' = [node EXCEPT !.load = ~@]
    BY <1>6 DEF Work
  <2>2. node' = [uid |-> node.uid, rv |-> node.rv, ready |-> node.ready, ip |-> node.ip,
                 load |-> ~node.load]
    <3> DEFINE n == [node EXCEPT !.load = ~@]
    <3>1. n = [uid |-> node.uid, rv |-> node.rv, ready |-> node.ready, ip |-> node.ip,
               load |-> ~node.load]
      BY <1>1 DEF Node
    <3> QED BY <2>1, <3>1
  <2>3. /\ (~node.load) \in BOOLEAN /\ node.ready \in BOOLEAN
        /\ node.uid \in Changes /\ node.rv \in Changes /\ node.ip \in Changes
    BY <1>1 DEF Node
  <2>4. node' \in Node
    BY <2>2, <2>3 DEF Node
  <2>5. /\ node'.uid = node.uid /\ node'.rv = node.rv /\ node'.ip = node.ip
        /\ node'.ready = node.ready
    BY <2>2
  <2> QED BY <1>1, <2>4, <2>5 DEF NodeStep, Matches, MatchesThen
<1> QED BY <1>3, <1>4, <1>5, <1>6

(* Whoever stays out of a step keeps what it knows.                        *)
LEMMA OthersKeep ==
  ASSUME RetireInv, NodeStep, RetStep, UNCHANGED <<ctl, rctl, rqueue>>,
         rop' \in [Operator -> RopType],
         \A o \in Operator : rop'[o].at \in {"confirm", "inventory", "post"} =>
           rop'[o].seen.uid # 0 /\ rop'[o].seen.uid <= node'.rv,
         \A d \in late' : d \in late,
         \A n \in killed' : \/ n \in killed
                            \/ n.uid = ret.uid /\ ~n.ready /\ n.ip = ret.ip /\ ret.uid # 0
  PROVE  RetireInv'
<1>1. rctl' = [d \in Controller |-> rctl'[d]] /\ rqueue' = [d \in Controller |-> rqueue'[d]]
  BY DEF RetireInv, RetirementTypes
<1>2. \A d \in Controller :
        /\ HeardFrom(d)
        /\ rctl'[d] = rctl[d] /\ (ctl'[d].at \in RetirePlaces => ctl'[d].at = ctl[d].at)
  BY DEF HeardFrom
<1> QED BY <1>1, <1>2, RetireKeeps

(* The operators' copies of the node keep their uids.                      *)
LEMMA SeenStays ==
  ASSUME RetireInv, NodeStep, rop' = rop
  PROVE  /\ rop' \in [Operator -> RopType]
         /\ \A o \in Operator : rop'[o].at \in {"confirm", "inventory", "post"} =>
              rop'[o].seen.uid # 0 /\ rop'[o].seen.uid <= node'.rv
<1>1. node.rv \in Nat /\ node'.rv \in Nat /\ node'.rv >= node.rv
  BY ChangesAreNat DEF RetireInv, RetirementTypes, NodeStep, Node
<1>2. \A o \in Operator : rop[o].seen.uid \in Nat
  BY ChangesAreNat DEF RetireInv, RetirementTypes, RopType, Node
<1> QED BY <1>1, <1>2 DEF RetireInv, RetirementTypes, NodeKnown

LEMMA NodeChangeKeeps ==
  ASSUME RetireInv, NodeFlips \/ NodeMoves \/ NodeRegistersAnew \/ Work
  PROVE  RetireInv'
<1>1. UNCHANGED <<vars, ret, rop, rctl, rqueue, late, killed>>
  BY DEF NodeFlips, NodeMoves, NodeRegistersAnew, NodeChange, Work
<1>2. NodeStep /\ RetStep /\ UNCHANGED ctl
  BY <1>1, NodeChangeSteps DEF RetStep, vars
<1> QED BY <1>1, <1>2, SeenStays, OthersKeep

(* A request that is over holds no node.                                   *)
LEMMA EndedType ==
  EndedRop \in RopType /\ EndedRop.at = "ended"
<1>1. 0 \in Changes
  BY RetirementConstants DEF Changes
<1>2. NoNode \in Node
  BY <1>1 DEF NoNode, Node
<1>3. EndedRop = [at |-> "ended", seen |-> NoNode]
  BY DEF EndedRop, IdleRop
<1> QED BY <1>2, <1>3 DEF RopType

(* What was confirmed is the uid of an offline node.                       *)
LEMMA OperatorKeeps ==
  ASSUME RetireInv, NEW o \in Operator, Look(o) \/ Confirm(o) \/ Inventory(o)
  PROVE  RetireInv'
<1>1. UNCHANGED <<vars, node, ret, rctl, rqueue, late, killed>>
  BY DEF Look, Confirm, Inventory
<1>2. NodeStep /\ RetStep /\ UNCHANGED ctl
  BY <1>1, NodeStill DEF RetStep, vars
<1>3. /\ rop \in [Operator -> RopType] /\ node \in Node /\ node.uid <= node.rv
      /\ \A p \in Operator : rop[p].at \in {"confirm", "inventory", "post"} =>
           rop[p].seen.uid # 0 /\ rop[p].seen.uid <= node.rv
  BY DEF RetireInv, RetirementTypes, NodeKnown
<1>4. EndedRop \in RopType /\ EndedRop.at = "ended"
  BY EndedType
<1>5. PICK r \in RopType :
        /\ rop' = [rop EXCEPT ![o] = r]
        /\ r.at \in {"confirm", "inventory", "post"} => r.seen.uid # 0 /\ r.seen.uid <= node.rv
  <2>1. CASE Look(o)
    <3>1. [at |-> "confirm", seen |-> node] \in RopType /\ node.uid # 0
      BY <1>3, <2>1 DEF Look, Offline, RopType
    <3> QED BY <1>3, <2>1, <3>1 DEF Look
  <2>2. CASE Confirm(o)
    <3>1. /\ [rop[o] EXCEPT !.at = "inventory"] \in RopType
          /\ [rop[o] EXCEPT !.at = "inventory"].seen = rop[o].seen
      BY <1>3 DEF RopType
    <3>2. rop[o].at = "confirm"
      BY <2>2 DEF Confirm
    <3>3. \/ rop' = [rop EXCEPT ![o] = [rop[o] EXCEPT !.at = "inventory"]]
          \/ rop' = [rop EXCEPT ![o] = EndedRop]
      BY <1>3, <2>2 DEF Confirm
    <3> QED BY <1>3, <1>4, <3>1, <3>2, <3>3
  <2>3. CASE Inventory(o)
    <3>1. /\ [rop[o] EXCEPT !.at = "post"] \in RopType
          /\ [rop[o] EXCEPT !.at = "post"].seen = rop[o].seen
      BY <1>3 DEF RopType
    <3>2. rop[o].at = "inventory"
      BY <2>3 DEF Inventory
    <3>3. \/ rop' = [rop EXCEPT ![o] = [rop[o] EXCEPT !.at = "post"]]
          \/ rop' = [rop EXCEPT ![o] = EndedRop]
      BY <1>3, <2>3 DEF Inventory
    <3> QED BY <1>3, <1>4, <3>1, <3>2, <3>3
  <2> QED BY <2>1, <2>2, <2>3
<1>6. rop' \in [Operator -> RopType] /\ rop'[o] = r /\ \A p \in Operator : p # o => rop'[p] = rop[p]
  BY <1>3, <1>5
<1> QED BY <1>1, <1>2, <1>3, <1>5, <1>6, OthersKeep

(* The resource is created once, before anything was done for it.          *)
LEMMA SubmitKeeps ==
  ASSUME RetireInv, NEW o \in Operator, SubmitRetirement(o)
  PROVE  RetireInv'
<1> DEFINE new == [phase |-> "", uid |-> rop[o].seen.uid, ip |-> rop[o].seen.ip, v |-> 1]
<1>1. /\ rop[o].at = "post" /\ ret = NoRetirement /\ ret' = new
      /\ rqueue' = [c \in Controller |->
                      IF Watching(c) THEN Append(rqueue[c], new) ELSE rqueue[c]]
      /\ rop' = [rop EXCEPT ![o] = EndedRop] /\ UNCHANGED <<ctl, node, rctl, late, killed>>
  BY DEF SubmitRetirement, PublishRetirement, vars
<1>2. /\ rop[o].seen \in Node /\ rop[o].seen.uid # 0 /\ rop[o].seen.uid <= node.rv
      /\ rop \in [Operator -> RopType] /\ rqueue \in [Controller -> Seq(Retirement)]
  BY <1>1 DEF RetireInv, RetirementTypes, NodeKnown, RopType
<1>3. new \in Retirement /\ new.uid = rop[o].seen.uid /\ new.ip = rop[o].seen.ip
      /\ new.phase = ""
  BY <1>2 DEF Retirement, Node
<1> HIDE DEF new
<1>4. ret.uid = 0
  BY <1>1 DEF NoRetirement
<1>5. /\ killed = {} /\ late = {}
      /\ \A c \in Controller : ctl[c].at \notin RetirePlaces /\ Len(rqueue[c]) = 0
  <2>1. \A c \in Controller : Len(rqueue[c]) \in Nat
    BY <1>2
  <2>2. \A c \in Controller : 1 \notin 1..Len(rqueue[c])
    BY <1>4 DEF RetireInv, Targets, SameTarget
  <2>3. \A c \in Controller : Len(rqueue[c]) = 0
    BY <2>1, <2>2
  <2> QED BY <1>4, <2>3 DEF RetireInv, Removed, Deletes, Fits, Targets, SameTarget
<1>6. EndedRop \in RopType /\ EndedRop.at = "ended"
  BY EndedType
<1>7. ASSUME NEW c \in Controller
      PROVE  rqueue'[c] \in Seq(Retirement) /\ \A i \in 1..Len(rqueue'[c]) : rqueue'[c][i] = new
  <2> DEFINE q == rqueue[c]
  <2>1. q \in Seq(Retirement) /\ Len(q) = 0
    BY <1>2, <1>5
  <2>2. rqueue'[c] = q \/ rqueue'[c] = Append(q, new)
    <3>1. rqueue'[c] = IF Watching(c) THEN Append(rqueue[c], new) ELSE rqueue[c]
      BY <1>1
    <3> QED BY <3>1
  <2> DEFINE p == rqueue'[c]
  <2>3. new \in Retirement /\ (p = q \/ p = Append(q, new))
    BY <1>3, <2>2
  <2> HIDE DEF q, p
  <2>4. p \in Seq(Retirement)
    <3>1. CASE p = q
      BY <2>1, <3>1
    <3>2. CASE p = Append(q, new)
      BY <2>1, <2>3, <3>2
    <3> QED BY <2>3, <3>1, <3>2
  <2>5. ASSUME NEW i \in 1..Len(p) PROVE p[i] = new
    <3>1. p = Append(q, new)
      <4>1. Len(p) # 0
        <5>1. Len(p) \in Nat
          BY <2>4
        <5> QED BY <5>1
      <4> QED BY <2>1, <2>3, <4>1
    <3>2. Len(p) = 1
      BY <2>1, <2>3, <3>1
    <3>3. i = Len(q) + 1
      BY <2>1, <3>2
    <3> QED BY <2>1, <2>3, <3>1, <3>3
  <2> QED BY <2>4, <2>5 DEF p
<1>8. RetirementTypes'
  <2>1. rqueue' \in [Controller -> Seq(Retirement)]
    BY <1>1, <1>7
  <2>2. rop' \in [Operator -> RopType]
    BY <1>1, <1>2, <1>6
  <2> QED BY <1>1, <1>3, <2>1, <2>2 DEF RetireInv, RetirementTypes
<1>9. NodeKnown'
  <2>1. \A p \in Operator : rop'[p] = IF p = o THEN EndedRop ELSE rop[p]
    BY <1>1, <1>2
  <2> QED BY <1>1, <1>2, <1>3, <1>6, <2>1 DEF RetireInv, NodeKnown
<1>10. Targets'
  BY <1>1, <1>2, <1>3, <1>5, <1>7 DEF Targets, SameTarget
<1>11. "retire delete" \in RetirePlaces /\ "retire write" \in RetirePlaces
  BY DEF RetirePlaces, RetireAt
<1>12. Deletes'
  BY <1>1, <1>5, <1>11 DEF Deletes
<1>13. Removed'
  <2>1. RetirementShown(ret') # "Deleted"
    BY <1>1, <1>3 DEF RetirementShown
  <2> QED BY <1>1, <1>5, <1>11, <2>1 DEF Removed, OnlyConfirmedNodeRemoved, DeletedMeansGone
<1> QED BY <1>8, <1>9, <1>10, <1>12, <1>13 DEF RetireInv

-----------------------------------------------------------------------------
(* The main thread while it retires the node.                              *)

(* A controller that goes to a place of retire leaves the others alone.    *)
LEMMA PlaceMoves ==
  ASSUME Inv, NEW c \in Controller, NEW at, At(c, at) \/ (Leave(c) /\ at = "watch")
  PROVE  ctl'[c].at = at /\ \A d \in Controller : d # c => ctl'[d] = ctl[d]
<1>1. ctl \in [Controller -> CtlType]
  BY DEF Inv, TypeOK, CtlType
<1> QED BY <1>1 DEF At, Leave, CtlType

LEMMA ZeroChanges ==
  0 \in Changes /\ TRUE \in BOOLEAN
BY RetirementConstants DEF Changes

(* What a status write makes of a retirement.                              *)
LEMMA StatusWritten ==
  ASSUME NEW P, NEW U, NEW r \in [phase : P, uid : U, ip : U, v : Nat], NEW p \in P
  PROVE  /\ [r EXCEPT !.phase = p, !.v = @ + 1]
               = [phase |-> p, uid |-> r.uid, ip |-> r.ip, v |-> r.v + 1]
         /\ [r EXCEPT !.v = @ + 1, !.phase = p]
               = [phase |-> p, uid |-> r.uid, ip |-> r.ip, v |-> r.v + 1]
         /\ [phase |-> p, uid |-> r.uid, ip |-> r.ip, v |-> r.v + 1]
               \in [phase : P, uid : U, ip : U, v : Nat]
<1>1. r.v \in Nat /\ r.v + 1 \in Nat /\ r.uid \in U /\ r.ip \in U
  OBVIOUS
<1> DEFINE a == [r EXCEPT !.phase = p]
           b == [r EXCEPT !.v = r.v + 1]
<1>2. a = [phase |-> p, uid |-> r.uid, ip |-> r.ip, v |-> r.v]
  OBVIOUS
<1>3. b = [phase |-> r.phase, uid |-> r.uid, ip |-> r.ip, v |-> r.v + 1]
  OBVIOUS
<1>4. [r EXCEPT !.phase = p, !.v = @ + 1]
        = [phase |-> p, uid |-> r.uid, ip |-> r.ip, v |-> r.v + 1]
  <2>1. [r EXCEPT !.phase = p, !.v = @ + 1] = [a EXCEPT !.v = r.v + 1]
    BY Zenon
  <2> HIDE DEF a
  <2>2. [a EXCEPT !.v = r.v + 1] = [phase |-> p, uid |-> r.uid, ip |-> r.ip, v |-> r.v + 1]
    BY <1>2
  <2> QED BY <2>1, <2>2
<1>5. [r EXCEPT !.v = @ + 1, !.phase = p]
        = [phase |-> p, uid |-> r.uid, ip |-> r.ip, v |-> r.v + 1]
  <2>1. [r EXCEPT !.v = @ + 1, !.phase = p] = [b EXCEPT !.phase = p]
    BY Zenon
  <2> HIDE DEF b
  <2>2. [b EXCEPT !.phase = p] = [phase |-> p, uid |-> r.uid, ip |-> r.ip, v |-> r.v + 1]
    BY <1>3
  <2> QED BY <2>1, <2>2
<1>6. [phase |-> p, uid |-> r.uid, ip |-> r.ip, v |-> r.v + 1]
        \in [phase : P, uid : U, ip : U, v : Nat]
  BY <1>1
<1> QED BY <1>4, <1>5, <1>6

LEMMA Written ==
  ASSUME NEW r \in Retirement, NEW p \in RetireTerminal \cup {"Checking"}
  PROVE  /\ [r EXCEPT !.phase = p, !.v = @ + 1]
               = [phase |-> p, uid |-> r.uid, ip |-> r.ip, v |-> r.v + 1]
         /\ [r EXCEPT !.v = @ + 1, !.phase = p]
               = [phase |-> p, uid |-> r.uid, ip |-> r.ip, v |-> r.v + 1]
         /\ [phase |-> p, uid |-> r.uid, ip |-> r.ip, v |-> r.v + 1] \in Retirement
<1> DEFINE P == RetireTerminal \cup {"absent", "", "Checking"}
           U == Changes
<1>1. p \in P /\ Retirement = [phase : P, uid : U, ip : U, v : Nat]
  BY DEF Retirement
<1> HIDE DEF P, U
<1>2. r \in [phase : P, uid : U, ip : U, v : Nat]
  BY <1>1
<1>3. /\ [r EXCEPT !.phase = p, !.v = @ + 1]
            = [phase |-> p, uid |-> r.uid, ip |-> r.ip, v |-> r.v + 1]
      /\ [r EXCEPT !.v = @ + 1, !.phase = p]
            = [phase |-> p, uid |-> r.uid, ip |-> r.ip, v |-> r.v + 1]
      /\ [phase |-> p, uid |-> r.uid, ip |-> r.ip, v |-> r.v + 1]
            \in [phase : P, uid : U, ip : U, v : Nat]
  BY <1>1, <1>2, StatusWritten, Zenon
<1> QED BY <1>1, <1>3, Zenon

(* What retire changes of its copy.                                        *)
LEMMA CopyEffects ==
  ASSUME NEW k \in CopyType, NEW item \in Retirement, NEW rv \in Changes, NEW b \in BOOLEAN
  PROVE  /\ [k EXCEPT !.item = item] \in CopyType /\ [k EXCEPT !.item = item].item = item
         /\ [k EXCEPT !.review = b] \in CopyType /\ [k EXCEPT !.review = b].item = k.item
         /\ [k EXCEPT !.sent = b] \in CopyType /\ [k EXCEPT !.sent = b].item = k.item
         /\ [k EXCEPT !.listed = b] \in CopyType /\ [k EXCEPT !.listed = b].item = k.item
         /\ [k EXCEPT !.rv = rv] \in CopyType /\ [k EXCEPT !.rv = rv].item = k.item
         /\ [k EXCEPT !.rv = rv].rv = rv
<1>1. k.sent \in BOOLEAN /\ k.review \in BOOLEAN /\ k.listed \in BOOLEAN /\ k.rv \in Changes
      /\ k.item \in Retirement
  BY DEF CopyType
<1>2. [k EXCEPT !.item = item] = [item |-> item, rv |-> k.rv, sent |-> k.sent,
                                  review |-> k.review, listed |-> k.listed]
  BY DEF CopyType
<1>3. [k EXCEPT !.review = b] = [item |-> k.item, rv |-> k.rv, sent |-> k.sent,
                                 review |-> b, listed |-> k.listed]
  BY DEF CopyType
<1>4. [k EXCEPT !.sent = b] = [item |-> k.item, rv |-> k.rv, sent |-> b,
                               review |-> k.review, listed |-> k.listed]
  BY DEF CopyType
<1>5. [k EXCEPT !.rv = rv] = [item |-> k.item, rv |-> rv, sent |-> k.sent,
                              review |-> k.review, listed |-> k.listed]
  BY DEF CopyType
<1>6. [k EXCEPT !.listed = b] = [item |-> k.item, rv |-> k.rv, sent |-> k.sent,
                                  review |-> k.review, listed |-> b]
  BY DEF CopyType
<1>7. [k EXCEPT !.listed = b] \in CopyType
  BY <1>1, <1>6 DEF CopyType
<1>8. [k EXCEPT !.item = item] \in CopyType
  BY <1>1, <1>2 DEF CopyType
<1>9. [k EXCEPT !.review = b] \in CopyType
  BY <1>1, <1>3 DEF CopyType
<1>10. [k EXCEPT !.sent = b] \in CopyType
  BY <1>1, <1>4 DEF CopyType
<1>11. [k EXCEPT !.rv = rv] \in CopyType
  BY <1>1, <1>5 DEF CopyType
<1> QED BY <1>2, <1>3, <1>4, <1>5, <1>6, <1>7, <1>8, <1>9, <1>10, <1>11

(* A fresh copy, of what was listed or delivered.                          *)
LEMMA NewCopy ==
  ASSUME NEW item \in Retirement
  PROVE  /\ [NoCopy EXCEPT !.listed = TRUE] \in CopyType
         /\ [NoCopy EXCEPT !.item = item, !.listed = TRUE] \in CopyType
         /\ [NoCopy EXCEPT !.item = item, !.listed = TRUE].item = item
<1>1. NoCopy \in CopyType
  <2>1. 0 \in Changes
    BY RetirementConstants DEF Changes
  <2>2. NoRetirement \in Retirement
    BY <2>1 DEF NoRetirement, Retirement, RetireTerminal
  <2> QED BY <2>1, <2>2 DEF NoCopy, CopyType
<1>2. TRUE \in BOOLEAN /\ 0 \in Changes
  BY RetirementConstants DEF Changes
<1> DEFINE m == [NoCopy EXCEPT !.item = item]
<1>3. m \in CopyType /\ m.item = item
  BY <1>1, <1>2, CopyEffects
<1>4. [NoCopy EXCEPT !.item = item, !.listed = TRUE] = [m EXCEPT !.listed = TRUE]
  OBVIOUS
<1>5. [NoCopy EXCEPT !.listed = TRUE] \in CopyType
  BY <1>1, <1>2, CopyEffects
<1> HIDE DEF m
<1>6. [m EXCEPT !.listed = TRUE] \in CopyType /\ [m EXCEPT !.listed = TRUE].item = m.item
  BY <1>2, <1>3, CopyEffects
<1> QED BY <1>3, <1>4, <1>5, <1>6

(* A step of one controller, from what it does to that controller.         *)
LEMMA RetirerKeeps ==
  ASSUME Inv, RetireInv, NodeStep, RetStep, rop' = rop, NEW c \in Controller, NEW k,
         rctl' = [rctl EXCEPT ![c] = k],
         \A d \in Controller : d # c => ctl'[d] = ctl[d],
         rqueue' = [d \in Controller |-> rqueue'[d]], \A d \in Controller : HeardFrom(d),
         PlaceKnown(ctl'[c].at, k),
         \A d \in late' : d \in late \/ FitsThen(d[1], d[2]),
         \A n \in killed' : \/ n \in killed
                            \/ n.uid = ret.uid /\ ~n.ready /\ n.ip = ret.ip /\ ret.uid # 0
  PROVE  RetireInv'
<1>1. /\ rctl' = [d \in Controller |-> rctl'[d]] /\ rctl'[c] = k
      /\ \A d \in Controller : d # c => rctl'[d] = rctl[d]
  BY DEF RetireInv, RetirementTypes
<1>2. \A d \in Controller :
        \/ /\ rctl'[d] = rctl[d]
           /\ ctl'[d].at \in RetirePlaces => ctl'[d].at = ctl[d].at
        \/ PlaceKnown(ctl'[d].at, rctl'[d])
  BY <1>1
<1> QED BY <1>1, <1>2, SeenStays, RetireKeeps

(* The resource is written, or its watches stay as they are.               *)
LEMMA PublishHeard ==
  ASSUME RetireInv,
         \/ UNCHANGED <<ret, rqueue>>
         \/ \E r : PublishRetirement(r) /\ TargetThen(r)
  PROVE  rqueue' = [d \in Controller |-> rqueue'[d]] /\ \A d \in Controller : HeardFrom(d)
<1>1. CASE UNCHANGED <<ret, rqueue>>
  BY <1>1 DEF RetireInv, RetirementTypes, HeardFrom
<1>2. CASE \E r : PublishRetirement(r) /\ TargetThen(r)
  <2>1. PICK r : PublishRetirement(r) /\ TargetThen(r)
    BY <1>2
  <2>2. \A d \in Controller : rqueue'[d] = Append(rqueue[d], ret') \/ rqueue'[d] = rqueue[d]
    <3> SUFFICES ASSUME NEW d \in Controller
                 PROVE  rqueue'[d] = Append(rqueue[d], ret') \/ rqueue'[d] = rqueue[d]
      OBVIOUS
    <3>1. rqueue'[d] = IF Watching(d) THEN Append(rqueue[d], ret') ELSE rqueue[d]
      BY <2>1 DEF PublishRetirement
    <3> QED BY <3>1
  <2>3. TargetThen(ret')
    BY <2>1 DEF PublishRetirement
  <2>4. rqueue' = [d \in Controller |-> rqueue'[d]]
    BY <2>1 DEF PublishRetirement
  <2> QED BY <2>2, <2>3, <2>4 DEF HeardFrom
<1> QED BY <1>1, <1>2

(* Nothing but the place and the copy of one controller changes.           *)
LEMMA PlaceKeeps ==
  ASSUME Inv, RetireInv, UNCHANGED <<node, ret, rop, rqueue, late, killed>>,
         NEW c \in Controller, NEW at, NEW k,
         At(c, at) \/ (Leave(c) /\ at = "watch"), rctl' = [rctl EXCEPT ![c] = k],
         NodeStep /\ RetStep => PlaceKnown(at, k)
  PROVE  RetireInv'
<1>1. NodeStep /\ RetStep
  BY NodeStill DEF RetStep
<1>2. ctl'[c].at = at /\ \A d \in Controller : d # c => ctl'[d] = ctl[d]
  BY PlaceMoves
<1>3. rqueue' = [d \in Controller |-> rqueue'[d]] /\ \A d \in Controller : HeardFrom(d)
  BY PublishHeard
<1> QED BY <1>1, <1>2, <1>3, RetirerKeeps

(* A controller with a copy of the confirmed retirement.                   *)
LEMMA CopyOfTarget ==
  ASSUME RetireInv, NEW c \in Controller, ctl[c].at \in RetirePlaces
  PROVE  /\ rctl[c] \in CopyType /\ Copy(c) \in Retirement /\ SameTarget(Copy(c))
         /\ rctl[c].item = Copy(c) /\ ret \in Retirement /\ node.rv \in Changes
BY DEF RetireInv, RetirementTypes, Targets, CopyType, Copy, Node

(* What is put into the copy leaves a controller what it knows.            *)
LEMMA WatchKnown ==
  ASSUME NEW item \in Retirement
  PROVE  PlaceKnown("watch", [NoCopy EXCEPT !.listed = TRUE])
BY NewCopy DEF PlaceKnown, RetirePlaces

LEMMA OnWayKnown ==
  ASSUME RetireInv, NodeStep, RetStep, NEW k \in CopyType,
         SameTarget(k.item) \/ TargetThen(k.item),
         NEW at \in {"retire", "retire node", "retire inventory", "retire again", "retire error"}
  PROVE  PlaceKnown(at, k)
BY TargetStays DEF PlaceKnown

(* A status write keeps the target, and reports Deleted only of a node     *)
(* that is gone.                                                           *)
LEMMA WriteRetirementKeeps ==
  ASSUME Inv, RetireInv, UNCHANGED <<node, rop, late, killed>>,
         NEW c \in Controller, ctl[c].at \in RetirePlaces,
         NEW phase \in RetireTerminal \cup {"Checking"}, NEW next \in {"watch", "retire node"},
         WriteRetirement(c, phase, next),
         phase = "Deleted" => node.uid # ret.uid
  PROVE  RetireInv'
<1> DEFINE new == [Copy(c) EXCEPT !.phase = phase, !.v = @ + 1]
<1>1. /\ rctl[c] \in CopyType /\ Copy(c) \in Retirement /\ SameTarget(Copy(c))
      /\ rctl[c].item = Copy(c)
  BY CopyOfTarget
<1>2. /\ new \in Retirement /\ new.uid = Copy(c).uid /\ new.ip = Copy(c).ip
      /\ new.phase = phase
  <2> DEFINE w == [phase |-> phase, uid |-> Copy(c).uid, ip |-> Copy(c).ip, v |-> Copy(c).v + 1]
  <2>1. new = w /\ w \in Retirement
    BY <1>1, Written, Zenon
  <2>2. w.uid = Copy(c).uid /\ w.ip = Copy(c).ip /\ w.phase = phase
    OBVIOUS
  <2> QED BY <2>1, <2>2, Zenon
<1>3. \/ UNCHANGED <<ret, rqueue>>
      \/ PublishRetirement(new)
  BY DEF WriteRetirement
<1>4. \/ Leave(c)
      \/ At(c, next) /\ PublishRetirement(new) /\ rctl' = [rctl EXCEPT ![c].item = new]
      \/ \E review \in BOOLEAN : Refuse(c, review)
  BY DEF WriteRetirement
<1> HIDE DEF new
<1>5. RetStep
  BY <1>1, <1>2, <1>3 DEF RetStep, SameTarget, PublishRetirement
<1>6. NodeStep
  BY NodeStill
<1>7. PublishRetirement(new) => TargetThen(new)
  BY <1>1, <1>2 DEF SameTarget, TargetThen, PublishRetirement
<1>8. rqueue' = [d \in Controller |-> rqueue'[d]] /\ \A d \in Controller : HeardFrom(d)
  BY <1>3, <1>7, PublishHeard
<1>9. PICK at \in {"watch", next, "retire error"}, k \in CopyType :
        /\ At(c, at) \/ (Leave(c) /\ at = "watch")
        /\ rctl' = [rctl EXCEPT ![c] = k] /\ PlaceKnown(at, k)
  <2>1. CASE Leave(c)
    <3>1. [NoCopy EXCEPT !.listed = TRUE] \in CopyType
      BY <1>1, NewCopy
    <3> QED BY <1>1, <2>1, <3>1, WatchKnown DEF Leave
  <2>2. CASE At(c, next) /\ PublishRetirement(new) /\ rctl' = [rctl EXCEPT ![c].item = new]
    <3> DEFINE k == [rctl[c] EXCEPT !.item = new]
    <3>1. k \in CopyType /\ k.item = new
      BY <1>1, <1>2, CopyEffects, ZeroChanges
    <3>2. rctl' = [rctl EXCEPT ![c] = k]
      BY <2>2
    <3> HIDE DEF k
    <3>3. CASE next = "watch"
      BY <2>2, <3>1, <3>2, <3>3 DEF PlaceKnown, RetirePlaces
    <3>4. CASE next = "retire node"
      BY <1>5, <1>6, <1>7, <2>2, <3>1, <3>2, <3>4, OnWayKnown
    <3> QED BY <3>3, <3>4
  <2>3. ASSUME NEW review \in BOOLEAN, Refuse(c, review)
        PROVE  \E k \in CopyType : /\ At(c, "retire error") /\ rctl' = [rctl EXCEPT ![c] = k]
                                   /\ PlaceKnown("retire error", k)
    <3> DEFINE k == [rctl[c] EXCEPT !.review = review]
    <3>1. k \in CopyType /\ k.item = Copy(c)
      BY <1>1, CopyEffects, ZeroChanges
    <3>2. rctl' = [rctl EXCEPT ![c] = k] /\ At(c, "retire error")
      BY <2>3 DEF Refuse
    <3> HIDE DEF k
    <3> QED BY <1>1, <1>5, <1>6, <3>1, <3>2, OnWayKnown
  <2> QED BY <1>4, <2>1, <2>2, <2>3
<1>10. ctl'[c].at = at /\ \A d \in Controller : d # c => ctl'[d] = ctl[d]
  BY <1>9, PlaceMoves
<1> QED BY <1>5, <1>6, <1>8, <1>9, <1>10, RetirerKeeps

(* The error is written over the current resource, never as Deleted.       *)
LEMMA RetireErrorKeeps ==
  ASSUME Inv, RetireInv, NEW c \in Controller, RetireError(c) PROVE RetireInv'
<1> DEFINE new == [ret EXCEPT !.v = @ + 1, !.phase = Verdict(c)]
           k == [NoCopy EXCEPT !.listed = TRUE]
<1>1. /\ Leave(c) /\ UNCHANGED <<node, rop, late, killed>> /\ rctl' = [rctl EXCEPT ![c] = k]
      /\ UNCHANGED <<ret, rqueue>> \/ PublishRetirement(new)
  BY DEF RetireError, Leave
<1>2. ctl[c].at \in RetirePlaces
  BY DEF RetireError, RetirePlaces, RetireAt
<1>3. ret \in Retirement /\ ret.uid # 0 /\ k \in CopyType /\ PlaceKnown("watch", k)
  BY <1>2, CopyOfTarget, NewCopy, WatchKnown DEF SameTarget
<1>4. new \in Retirement /\ new.uid = ret.uid /\ new.ip = ret.ip /\ new.phase # "Deleted"
  <2>1. Verdict(c) \in RetireTerminal \cup {"Checking"} /\ Verdict(c) # "Deleted"
    BY DEF Verdict, RetireTerminal
  <2> DEFINE w == [phase |-> Verdict(c), uid |-> ret.uid, ip |-> ret.ip, v |-> ret.v + 1]
  <2>2. new = w /\ w \in Retirement
    BY <1>3, <2>1, Written, Zenon
  <2>3. w.uid = ret.uid /\ w.ip = ret.ip /\ w.phase = Verdict(c)
    OBVIOUS
  <2> QED BY <2>1, <2>2, <2>3, Zenon
<1> HIDE DEF new, k
<1>5. RetStep /\ (PublishRetirement(new) => TargetThen(new))
  BY <1>1, <1>3, <1>4 DEF RetStep, PublishRetirement, TargetThen
<1>6. rqueue' = [d \in Controller |-> rqueue'[d]] /\ \A d \in Controller : HeardFrom(d)
  BY <1>1, <1>5, PublishHeard
<1>7. ctl'[c].at = "watch" /\ \A d \in Controller : d # c => ctl'[d] = ctl[d]
  BY <1>1, PlaceMoves
<1> QED BY <1>1, <1>3, <1>5, <1>6, <1>7, NodeStill, RetirerKeeps

(* The controller takes up the retirement as it is, or was.                *)
LEMMA TakeRetirementKeeps ==
  ASSUME Inv, RetireInv, NEW c \in Controller, TakeRetirement(c) PROVE RetireInv'
<1>1. UNCHANGED <<node, ret, rop, late, killed>>
  BY DEF TakeRetirement
<1>2. NodeStep /\ RetStep
  BY <1>1, NodeStill DEF RetStep
<1>3. /\ rqueue \in [Controller -> Seq(Retirement)] /\ ret \in Retirement
      /\ ctl \in [Controller -> CtlType]
  BY DEF Inv, TypeOK, CtlType, RetireInv, RetirementTypes
<1>4. ctl'[c].at = "retire" /\ \A d \in Controller : d # c => ctl'[d] = ctl[d]
  BY <1>3 DEF TakeRetirement, At, CtlType
<1>5. PICK item \in Retirement :
        /\ SameTarget(item)
        /\ rctl' = [rctl EXCEPT ![c] = [NoCopy EXCEPT !.item = item, !.listed = TRUE]]
        /\ \/ rqueue' = [rqueue EXCEPT ![c] = <<>>]
           \/ rqueue[c] # <<>> /\ rqueue' = [rqueue EXCEPT ![c] = Tail(@)]
  <2>1. CASE /\ ret # NoRetirement
             /\ rctl' = [rctl EXCEPT ![c] = [NoCopy EXCEPT !.item = ret, !.listed = TRUE]]
             /\ rqueue' = [rqueue EXCEPT ![c] = <<>>]
    <3>1. SameTarget(ret)
      BY <2>1 DEF RetireInv, NodeKnown, SameTarget
    <3> QED BY <1>3, <2>1, <3>1
  <2>2. CASE /\ rqueue[c] # <<>> /\ rqueue' = [rqueue EXCEPT ![c] = Tail(@)]
             /\ rctl' = [rctl EXCEPT ![c] =
                           [NoCopy EXCEPT !.item = Head(rqueue[c]), !.listed = TRUE]]
    <3> DEFINE q == rqueue[c]
               h == Head(q)
    <3>1. q \in Seq(Retirement) /\ q # <<>>
      BY <1>3, <2>2
    <3>2. 1 \in 1..Len(q) /\ h = q[1] /\ h \in Retirement
      <4> HIDE DEF q
      <4> QED BY <3>1
    <3>3. SameTarget(h)
      BY <3>2 DEF RetireInv, Targets
    <3>4. rctl' = [rctl EXCEPT ![c] = [NoCopy EXCEPT !.item = h, !.listed = TRUE]]
      BY <2>2
    <3> HIDE DEF h
    <3> QED BY <2>2, <3>2, <3>3, <3>4
  <2> QED BY <2>1, <2>2 DEF TakeRetirement
<1> DEFINE k == [NoCopy EXCEPT !.item = item, !.listed = TRUE]
<1>6. k \in CopyType /\ k.item = item
  BY NewCopy
<1>7. rctl' = [rctl EXCEPT ![c] = k]
  BY <1>5
<1> HIDE DEF k
<1>8. PlaceKnown("retire", k)
  BY <1>2, <1>5, <1>6, OnWayKnown
<1>9. rqueue' = [d \in Controller |-> rqueue'[d]] /\ \A d \in Controller : HeardFrom(d)
  BY <1>3, <1>5 DEF HeardFrom
<1> QED BY <1>1, <1>2, <1>4, <1>7, <1>8, <1>9, RetirerKeeps

(* What has just been checked fits.                                        *)
LEMMA CheckedFits ==
  ASSUME RetireInv, NEW c \in Controller, ctl[c].at \in RetirePlaces, Retirable(Copy(c))
  PROVE  Fits(Copy(c).uid, node.rv)
<1>1. node.rv \in Nat
  BY CopyOfTarget, ChangesAreNat
<1>2. node.rv <= node.rv
  BY <1>1
<1>3. ret.uid # 0 /\ Copy(c).uid = ret.uid /\ Copy(c).ip = ret.ip
  BY CopyOfTarget DEF SameTarget
<1>4. ~node.ready /\ node.ip = Copy(c).ip
  BY DEF Retirable, Offline
<1> QED BY <1>1, <1>2, <1>3, <1>4, Zenon DEF Fits

(* The checks that precede the DELETE; the last one is of the version that *)
(* becomes its precondition.                                               *)
LEMMA ChecksKeep ==
  ASSUME Inv, RetireInv, NEW c \in Controller,
         \/ RetireDone(c) \/ RetireNode(c) \/ RetireFails(c) \/ RetireAgain(c)
         \/ (RetireInventory(c) /\ At(c, "retire again") /\ UNCHANGED <<ret, rctl, rqueue>>)
  PROVE  RetireInv'
<1>1. UNCHANGED <<node, ret, rop, rqueue, late, killed>>
  BY DEF RetireDone, RetireNode, RetireFails, RetireAgain, RetireInventory
<1>2. ctl[c].at \in RetirePlaces
  BY DEF RetireDone, RetireNode, RetireFails, RetireAgain, RetireInventory, RetirePlaces, RetireAt
<1>3. /\ rctl[c] \in CopyType /\ Copy(c) \in Retirement /\ SameTarget(Copy(c))
      /\ rctl[c].item = Copy(c) /\ ret \in Retirement /\ node.rv \in Changes
  BY <1>2, CopyOfTarget
<1>4. rctl \in [Controller -> CopyType]
  BY DEF RetireInv, RetirementTypes
<1>5. CASE RetireDone(c)
  BY <1>1, <1>3, <1>5, WatchKnown, PlaceKeeps DEF RetireDone, Leave
<1>6. ASSUME NEW review \in BOOLEAN, Refuse(c, review) PROVE RetireInv'
  <2> DEFINE k == [rctl[c] EXCEPT !.review = review]
  <2>1. k \in CopyType /\ k.item = Copy(c)
    BY <1>3, CopyEffects, ZeroChanges
  <2>2. rctl' = [rctl EXCEPT ![c] = k] /\ At(c, "retire error")
    BY <1>6 DEF Refuse
  <2> HIDE DEF k
  <2>3. NodeStep /\ RetStep => PlaceKnown("retire error", k)
    BY <1>3, <2>1, OnWayKnown
  <2> QED BY <1>1, <2>2, <2>3, PlaceKeeps
<1>7. ASSUME NEW at \in {"retire inventory", "retire again"}, At(c, at), rctl' = rctl
      PROVE  RetireInv'
  <2>1. rctl' = [rctl EXCEPT ![c] = rctl[c]]
    BY <1>4, <1>7
  <2>2. NodeStep /\ RetStep => PlaceKnown(at, rctl[c])
    BY <1>3, OnWayKnown
  <2> QED BY <1>1, <1>7, <2>1, <2>2, PlaceKeeps
<1>8. CASE Retirable(Copy(c)) /\ At(c, "retire delete") /\ rctl' = [rctl EXCEPT ![c].rv = node.rv]
  <2> DEFINE k == [rctl[c] EXCEPT !.rv = node.rv]
  <2>1. k \in CopyType /\ k.item = Copy(c) /\ k.rv = node.rv
    BY <1>3, CopyEffects, ZeroChanges
  <2>2. rctl' = [rctl EXCEPT ![c] = k]
    BY <1>8
  <2> HIDE DEF k
  <2>3. Fits(Copy(c).uid, node.rv)
    BY <1>2, <1>8, CheckedFits
  <2>4. NodeStep /\ RetStep => PlaceKnown("retire delete", k)
    BY <1>3, <2>1, <2>3, TargetStays DEF PlaceKnown
  <2> QED BY <1>1, <1>8, <2>2, <2>4, PlaceKeeps
<1>9. (node.uid = 0) \in BOOLEAN /\ FALSE \in BOOLEAN
  OBVIOUS
<1>10. CASE RetireNode(c)
  BY <1>6, <1>7, <1>9, <1>10 DEF RetireNode
<1>11. CASE RetireFails(c)
  BY <1>6, <1>9, <1>11 DEF RetireFails
<1>12. CASE RetireAgain(c)
  BY <1>6, <1>8, <1>9, <1>12 DEF RetireAgain
<1> QED BY <1>5, <1>7, <1>10, <1>11, <1>12

-----------------------------------------------------------------------------
(* The DELETE, answered or late.                                           *)

(* A DELETE that fits takes the node away and leaves its version; what is  *)
(* added to the removed nodes is as it should be.                          *)
LEMMA KillSteps ==
  ASSUME RetireInv, NEW uid, NEW rv, Fits(uid, rv),
         IF Matches(uid, rv) THEN Kill ELSE UNCHANGED <<node, killed>>
  PROVE  /\ NodeStep
         /\ Matches(uid, rv) => node'.uid = 0
         /\ \A n \in killed' : \/ n \in killed
                               \/ n.uid = ret.uid /\ ~n.ready /\ n.ip = ret.ip /\ ret.uid # 0
<1>1. CASE ~Matches(uid, rv)
  <2>1. node' = node /\ killed' = killed
    BY <1>1
  <2> QED BY <1>1, <2>1, NodeStill
<1>2. CASE Matches(uid, rv)
  <2>1. node' = [NoNode EXCEPT !.rv = node.rv] /\ killed' = killed \cup {node}
    BY <1>2 DEF Kill
  <2>2. node' = [uid |-> 0, rv |-> node.rv, ready |-> FALSE, ip |-> 0, load |-> FALSE]
    BY <2>1 DEF NoNode
  <2>3. node'.uid = 0 /\ node'.rv = node.rv /\ node'.ip = 0
    BY <2>2
  <2>4. node.rv \in Nat /\ node.rv \in Changes /\ 0 \in Changes
    BY ChangesAreNat, ZeroChanges DEF RetireInv, RetirementTypes, Node
  <2>5. node' \in Node
    BY <2>2, <2>4 DEF Node
  <2>6. NodeStep
    BY <2>3, <2>4, <2>5 DEF NodeStep, MatchesThen
  <2>7. node.uid = ret.uid /\ ~node.ready /\ node.ip = ret.ip /\ ret.uid # 0
    BY <1>2 DEF Fits, Matches
  <2> QED BY <2>1, <2>3, <2>6, <2>7
<1> QED BY <1>1, <1>2

(* A DELETE that arrives long after it was sent still fits.                *)
LEMMA LateDeleteKeeps ==
  ASSUME RetireInv, LateDelete PROVE RetireInv'
<1>1. PICK d \in late : /\ late' = late \ {d}
                        /\ IF Matches(d[1], d[2]) THEN Kill ELSE UNCHANGED <<node, killed>>
  BY DEF LateDelete
<1>2. UNCHANGED <<ctl, ret, rop, rctl, rqueue>>
  BY DEF LateDelete, vars
<1>3. Fits(d[1], d[2])
  BY DEF RetireInv, Deletes
<1>4. /\ NodeStep
      /\ \A n \in killed' : \/ n \in killed
                            \/ n.uid = ret.uid /\ ~n.ready /\ n.ip = ret.ip /\ ret.uid # 0
  BY <1>1, <1>3, KillSteps
<1>5. RetStep /\ \A e \in late' : e \in late
  BY <1>1, <1>2 DEF RetStep
<1> QED BY <1>2, <1>4, <1>5, SeenStays, OthersKeep

(* The answer that the node is gone, or was not there, is the only way to  *)
(* the write of Deleted; without an answer the request may still arrive.   *)
LEMMA RetireDeleteKeeps ==
  ASSUME Inv, RetireInv, NEW c \in Controller, RetireDelete(c) PROVE RetireInv'
<1> DEFINE sent == [rctl[c] EXCEPT !.sent = TRUE]
           asked == [sent EXCEPT !.review = TRUE]
           uid == Copy(c).uid
           rv == rctl[c].rv
<1>1. ctl[c].at = "retire delete" /\ ctl[c].at \in RetirePlaces
  BY DEF RetireDelete, RetirePlaces, RetireAt
<1>2. /\ rctl[c] \in CopyType /\ Copy(c) \in Retirement /\ SameTarget(Copy(c))
      /\ rctl[c].item = Copy(c) /\ ret \in Retirement /\ node.rv \in Changes
  BY <1>1, CopyOfTarget
<1>3. sent \in CopyType /\ sent.item = Copy(c)
  BY <1>2, CopyEffects, ZeroChanges
<1>4. asked \in CopyType /\ asked.item = Copy(c)
  <2> HIDE DEF sent
  <2> QED BY <1>2, <1>3, CopyEffects, ZeroChanges
<1>5. Fits(uid, rv)
  BY <1>1, <1>2 DEF RetireInv, Deletes
<1>6. UNCHANGED <<ret, rop, rqueue>> /\ RetStep
  BY DEF RetireDelete, RetStep
<1>7. \/ /\ IF Matches(uid, rv) THEN Kill ELSE UNCHANGED <<node, killed>>
         /\ late' = late
         /\ \/ /\ Matches(uid, rv) \/ node.uid = 0
               /\ At(c, "retire write") /\ rctl' = [rctl EXCEPT ![c] = sent]
            \/ At(c, "retire error") /\ rctl' = [rctl EXCEPT ![c] = asked]
      \/ /\ late' = late \cup {<<uid, rv>>} /\ UNCHANGED <<node, killed>>
         /\ At(c, "retire error") /\ rctl' = [rctl EXCEPT ![c] = asked]
  <2>1. /\ [rctl EXCEPT ![c].sent = TRUE] = [rctl EXCEPT ![c] = sent]
        /\ [rctl EXCEPT ![c].sent = TRUE, ![c].review = TRUE] = [rctl EXCEPT ![c] = asked]
    BY DEF RetireInv, RetirementTypes, CopyType
  <2> QED BY <2>1 DEF RetireDelete
<1> HIDE DEF sent, asked
<1>8. rqueue' = [d \in Controller |-> rqueue'[d]] /\ \A d \in Controller : HeardFrom(d)
  BY <1>6, PublishHeard
<1>9. CASE /\ IF Matches(uid, rv) THEN Kill ELSE UNCHANGED <<node, killed>>
           /\ late' = late
           /\ \/ /\ Matches(uid, rv) \/ node.uid = 0
                 /\ At(c, "retire write") /\ rctl' = [rctl EXCEPT ![c] = sent]
              \/ At(c, "retire error") /\ rctl' = [rctl EXCEPT ![c] = asked]
  <2>1. /\ NodeStep
        /\ Matches(uid, rv) => node'.uid = 0
        /\ \A n \in killed' : \/ n \in killed
                              \/ n.uid = ret.uid /\ ~n.ready /\ n.ip = ret.ip /\ ret.uid # 0
    BY <1>5, <1>9, KillSteps
  <2>2. CASE /\ Matches(uid, rv) \/ node.uid = 0
             /\ At(c, "retire write") /\ rctl' = [rctl EXCEPT ![c] = sent]
    <3>1. node'.uid # ret'.uid
      <4>1. ret.uid # 0
        BY <1>2 DEF SameTarget
      <4>2. node.uid = 0 => node'.uid = 0
        BY <1>9 DEF Matches
      <4> QED BY <1>6, <2>1, <2>2, <4>1, <4>2
    <3>2. PlaceKnown("retire write", sent)
      BY <1>2, <1>3, <1>6, <2>1, <3>1, TargetStays DEF PlaceKnown
    <3>3. ctl'[c].at = "retire write" /\ \A d \in Controller : d # c => ctl'[d] = ctl[d]
      BY <2>2, PlaceMoves
    <3> QED BY <1>6, <1>8, <1>9, <2>1, <2>2, <3>2, <3>3, RetirerKeeps
  <2>3. CASE At(c, "retire error") /\ rctl' = [rctl EXCEPT ![c] = asked]
    <3>1. PlaceKnown("retire error", asked)
      BY <1>2, <1>4, <1>6, <2>1, OnWayKnown
    <3>2. ctl'[c].at = "retire error" /\ \A d \in Controller : d # c => ctl'[d] = ctl[d]
      BY <2>3, PlaceMoves
    <3> QED BY <1>6, <1>8, <1>9, <2>1, <2>3, <3>1, <3>2, RetirerKeeps
  <2> QED BY <1>9, <2>2, <2>3
<1>10. CASE /\ late' = late \cup {<<uid, rv>>} /\ UNCHANGED <<node, killed>>
            /\ At(c, "retire error") /\ rctl' = [rctl EXCEPT ![c] = asked]
  <2>1. NodeStep
    BY <1>10, NodeStill
  <2>2. FitsThen(uid, rv)
    BY <1>5, <1>6, <2>1, TargetStays
  <2>3. \A d \in late' : d \in late \/ FitsThen(d[1], d[2])
    <3>1. <<uid, rv>>[1] = uid /\ <<uid, rv>>[2] = rv
      OBVIOUS
    <3> HIDE DEF uid, rv
    <3> QED BY <1>10, <2>2, <3>1
  <2>4. PlaceKnown("retire error", asked)
    BY <1>2, <1>4, <1>6, <2>1, OnWayKnown
  <2>5. ctl'[c].at = "retire error" /\ \A d \in Controller : d # c => ctl'[d] = ctl[d]
    BY <1>10, PlaceMoves
  <2> QED BY <1>6, <1>8, <1>10, <2>1, <2>3, <2>4, <2>5, RetirerKeeps
<1> QED BY <1>7, <1>9, <1>10

(* All of retire.                                                          *)
LEMMA RetireActionsKeep ==
  ASSUME Inv, RetireInv, NEW c \in Controller, Retire(c) PROVE RetireInv'
<1>1. CASE \/ RetireInterrupted(c) \/ BeginRetire(c) \/ RetireWrite(c)
           \/ (RetireInventory(c) /\ WriteRetirement(c, "Blocked", "watch"))
  <2>1. UNCHANGED <<node, rop, late, killed>> /\ ctl[c].at \in RetirePlaces
    BY <1>1 DEF RetireInterrupted, BeginRetire, RetireWrite, RetireInventory, RetirePlaces,
                RetireAt
  <2>2. ASSUME NEW phase \in RetireTerminal \cup {"Checking"},
               NEW next \in {"watch", "retire node"}, WriteRetirement(c, phase, next),
               phase = "Deleted" => ctl[c].at = "retire write"
        PROVE  RetireInv'
    <3>1. phase = "Deleted" => node.uid # ret.uid
      BY <2>2 DEF RetireInv, Removed
    <3> QED BY <2>1, <2>2, <3>1, WriteRetirementKeeps
  <2>3. RetireTerminal = {"Deleted", "Blocked", "NeedsReview"}
    BY DEF RetireTerminal
  <2>4. CASE RetireInterrupted(c)
    BY <2>2, <2>3, <2>4 DEF RetireInterrupted
  <2>5. CASE BeginRetire(c)
    BY <2>2, <2>3, <2>5 DEF BeginRetire
  <2>6. CASE RetireWrite(c)
    BY <2>2, <2>3, <2>6 DEF RetireWrite
  <2>7. CASE WriteRetirement(c, "Blocked", "watch")
    BY <2>2, <2>3, <2>7
  <2> QED BY <1>1, <2>4, <2>5, <2>6, <2>7
<1>2. CASE \/ RetireDone(c) \/ RetireNode(c) \/ RetireFails(c) \/ RetireAgain(c)
           \/ (RetireInventory(c) /\ At(c, "retire again") /\ UNCHANGED <<ret, rctl, rqueue>>)
  BY <1>2, ChecksKeep
<1>3. RetireInventory(c) => \/ WriteRetirement(c, "Blocked", "watch")
                            \/ At(c, "retire again") /\ UNCHANGED <<ret, rctl, rqueue>>
  BY DEF RetireInventory
<1> QED BY <1>1, <1>2, <1>3, TakeRetirementKeeps, RetireErrorKeeps, RetireDeleteKeeps DEF Retire

-----------------------------------------------------------------------------
(* Putting it together.                                                    *)

LEMMA RetireInitKeeps ==
  ASSUME NodeInit PROVE RetireInv
<1>1. 0 \in Changes /\ 1 \in Changes /\ TRUE \in BOOLEAN /\ FALSE \in BOOLEAN
  BY RetirementConstants DEF Changes
<1>2. /\ node = [uid |-> 1, rv |-> 1, ready |-> FALSE, ip |-> 1, load |-> FALSE]
      /\ ret = NoRetirement /\ rop = [o \in Operator |-> IdleRop]
      /\ rctl = [c \in Controller |-> NoCopy] /\ rqueue = [c \in Controller |-> <<>>]
      /\ late = {} /\ killed = {} /\ ctl = [c \in Controller |-> Down]
  BY DEF NodeInit, Init, RetirementInit
<1>3. NoNode \in Node /\ NoRetirement \in Retirement
  BY <1>1 DEF NoNode, Node, NoRetirement, Retirement, RetireTerminal
<1>4. NoCopy \in CopyType
  BY <1>1, <1>3 DEF NoCopy, CopyType
<1>5. IdleRop \in RopType /\ IdleRop.at = "idle"
  BY <1>3 DEF IdleRop, RopType
<1>6. node \in Node /\ node.uid = 1 /\ node.rv = 1 /\ node.ip = 1
  BY <1>1, <1>2 DEF Node
<1>7. NoRetirement.uid = 0 /\ NoRetirement.phase = "absent"
  BY DEF NoRetirement
<1>8. RetirementTypes
  BY <1>2, <1>3, <1>4, <1>5, <1>6 DEF RetirementTypes
<1>9. NodeKnown
  BY <1>2, <1>5, <1>6, <1>7 DEF NodeKnown
<1>10. \A c \in Controller : ctl[c].at = "down" /\ Len(rqueue[c]) = 0
  BY <1>2 DEF Down
<1>11. Targets /\ Deletes
  <2>1. \A c \in Controller : ctl[c].at \notin RetirePlaces /\ ctl[c].at # "retire delete"
    BY <1>10 DEF RetirePlaces, RetireAt
  <2>2. \A c \in Controller : 1..Len(rqueue[c]) = {}
    BY <1>10
  <2> QED BY <1>2, <2>1, <2>2 DEF Targets, Deletes
<1>12. Removed
  BY <1>2, <1>7, <1>10 DEF Removed, OnlyConfirmedNodeRemoved, DeletedMeansGone, RetirementShown
<1> QED BY <1>8, <1>9, <1>11, <1>12 DEF RetireInv

LEMMA RetireNextKeeps ==
  ASSUME Inv, RetireInv, [NodeNext]_nodeVars PROVE RetireInv'
<1>1. ASSUME NEW o \in Operator, Operate(o) PROVE RetireInv'
  BY <1>1, OperatorKeeps, SubmitKeeps DEF Operate
<1>2. ASSUME NEW c \in Controller, Retire(c) PROVE RetireInv'
  BY <1>2, RetireActionsKeep
<1>3. ASSUME NEW c \in Controller,
             \/ NodeStart(c) \/ ProcessDies(c) \/ EnrollmentLoop(c) \/ NewCycle(c)
             \/ NodeReconcile(c) \/ NodeInstaller(c)
      PROVE  RetireInv'
  BY <1>3, EnrollmentKeeps
<1> QED BY <1>1, <1>2, <1>3, EnrollmentKeeps, NodeChangeKeeps, LateDeleteKeeps DEF NodeNext

(* The controller's DELETEs remove only the node its operator confirmed,   *)
(* and only while it is offline and at the confirmed address: retirement   *)
(* checks it before, and the preconditions of the request, uid and         *)
(* resourceVersion, still hold what was checked when it arrives.           *)
THEOREM OnlyTheConfirmedNode == NodeSpec => []OnlyConfirmedNodeRemoved
<1>1. NodeInit => Inv /\ RetireInv
  BY NodeInitKeeps, RetireInitKeeps
<1>2. Inv /\ RetireInv /\ [NodeNext]_nodeVars => Inv' /\ RetireInv'
  BY NodeNextKeeps, RetireNextKeeps
<1>3. RetireInv => OnlyConfirmedNodeRemoved
  BY DEF RetireInv, Removed
<1> QED BY <1>1, <1>2, <1>3, PTL DEF NodeSpec

(* A retirement that the console shows as deleted left no node of the      *)
(* confirmed identity, even if the machine registers anew afterwards.      *)
THEOREM DeletedIsGone == NodeSpec => []DeletedMeansGone
<1>1. NodeInit => Inv /\ RetireInv
  BY NodeInitKeeps, RetireInitKeeps
<1>2. Inv /\ RetireInv /\ [NodeNext]_nodeVars => Inv' /\ RetireInv'
  BY NodeNextKeeps, RetireNextKeeps
<1>3. RetireInv => DeletedMeansGone
  BY DEF RetireInv, Removed
<1> QED BY <1>1, <1>2, <1>3, PTL DEF NodeSpec

=============================================================================
