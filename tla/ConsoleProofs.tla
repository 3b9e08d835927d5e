---------------------------- MODULE ConsoleProofs ----------------------------
(***************************************************************************)
(* Proofs about the console: what its answers to commands mean, how fresh  *)
(* its pages are, the sizes of its login and session tables, how a session *)
(* ends, and what is in the lists and logs that are read page by page.     *)
(***************************************************************************)
EXTENDS ConsoleControl, ConsolePages, FiniteSetTheorems, SequenceTheorems, TLAPS

-----------------------------------------------------------------------------
(* Invariants.                                                             *)

LoginPlaces == {"idle", "slot", "verify"}
Places == LoginPlaces \cup {"send", "wait", "invalidate", "lock", "collect", "served"}
Replies == {"none", "ok", "conflict", "refused", "unavailable"}
Request == [id : Nat, kind : Kinds \cup {"none"}, base : Nat]
Sent == [id : Nat, kind : Kinds \cup {"none"}, base : Nat, reply : Replies]
Snapshot ==
  [ok : BOOLEAN, age : Nat, cached : Nat, after : SUBSET Nat, asked : SUBSET Nat]

ControlTypes ==
  /\ at \in [Operator -> Places] /\ req \in [Operator -> Request] /\ calls \in Nat
  /\ broker \in SUBSET Nat /\ flight \in SUBSET Sent /\ revision \in Nat
  /\ applied \in SUBSET Nat /\ told \in [yes : SUBSET Nat, no : SUBSET Nat]
  /\ file \in Nat /\ cache \in Snapshot /\ mu \in SUBSET Operator
  /\ saw \in [Operator -> Snapshot]

(* Identifiers are handed out once: no two requests share one, and a       *)
(* command that is sent for has left no trace yet.                         *)
Numbered ==
  /\ \A o \in Operator : req[o].id <= calls
  /\ \A o, p \in Operator : req[o].id = req[p].id /\ req[o].id # 0 => o = p
  /\ \A o \in Operator : at[o] \in {"send", "wait", "invalidate"} => req[o].id # 0
  /\ \A cmd \in flight : cmd.id <= calls
  /\ \A cmd, other \in flight : cmd.id = other.id => cmd = other
  /\ \A i \in applied \cup told.yes \cup told.no : i <= calls
Untried ==
  \A o \in Operator : at[o] = "send" =>
    /\ req[o].id \notin applied \cup told.no
    /\ \A cmd \in flight : cmd.id # req[o].id

(* A reply is true of its command; only an unavailable control leaves open *)
(* what became of it.                                                      *)
TrueReply(cmd) ==
  /\ cmd.reply = "ok" => cmd.id \in applied
  /\ cmd.reply \in {"none", "conflict", "refused"} => cmd.id \notin applied
TrueReplies ==
  /\ \A cmd \in flight : TrueReply(cmd)
  /\ \A o \in Operator : at[o] = "invalidate" => req[o].id \in applied
Definite == Numbered /\ Untried /\ TrueReplies /\ AnswersAreDefinite

(* Whoever collects holds the lock, and has read the file after everything *)
(* that was acknowledged; so has whoever filled the cache.                 *)
Refreshed ==
  /\ \A o \in Operator : at[o] = "collect" => mu = {o} /\ told.yes \subseteq saw[o].after
  /\ cache # NoSnapshot => told.yes \subseteq cache.after
  /\ \A o \in Operator : at[o] \in {"lock", "collect", "served"} => saw[o].asked \subseteq told.yes
  /\ RefreshedAfterCommand

(* What a snapshot's age is made of.                                       *)
Aged ==
  /\ \A o \in Operator : at[o] = "collect" =>
       /\ saw[o].cached <= CollectTTL
       /\ saw[o].ok => saw[o].age <= FileTTL + saw[o].cached
  /\ cache.ok => cache.age <= FileTTL + CollectTTL + cache.cached
  /\ SnapshotAgeBounded

(* Of the peers, those that have had an attempt in the common window.      *)
AttemptWindow == [count : Nat, left : Nat]
Recent == {p \in DOMAIN peers : peers[p].left >= global.left}
Earlier == {p \in DOMAIN peers : peers[p].left < global.left}
OpenPeers == {p \in DOMAIN peers : peers[p].left > 0}
LoginsCounted ==
  /\ IsFiniteSet(DOMAIN peers) /\ peers \in [DOMAIN peers -> AttemptWindow] /\ global \in AttemptWindow
  /\ \A p \in DOMAIN peers : peers[p].left <= LoginWindow
  /\ global.left <= LoginWindow /\ global.count <= LoginGlobal
  /\ global.left > 0 =>
       Cardinality(Recent) <= global.count /\ Cardinality(Earlier) <= LoginGlobal
  /\ global.left = 0 =>
       /\ Cardinality(DOMAIN peers) <= 2 * LoginGlobal /\ Cardinality(OpenPeers) <= LoginGlobal
       /\ \A p \in DOMAIN peers : peers[p].left < LoginWindow

(* Every token comes from a request, so that there is always a new one.    *)
Held == DOMAIN sessions \cup cookies
LoggingIn == {o \in Operator : at[o] \in {"slot", "verify"}}
SessionsHeld ==
  /\ sessions \in [DOMAIN sessions -> Nat] /\ Held \subseteq Ids
  /\ Cardinality(DOMAIN sessions) <= MaxSessions
  /\ asked \in 0..MaxRequests /\ IsFiniteSet(LoggingIn)
  /\ Cardinality(Held) + Cardinality(LoggingIn) <= asked + 1

-----------------------------------------------------------------------------
(* Steps.                                                                  *)

(* What the login and session handlers change of the rest: nothing but     *)
(* where a request is, and that only among their own places.               *)
LoginMove ==
  /\ UNCHANGED <<req, control, source, calls>>
  /\ \/ UNCHANGED at
     \/ \E o \in Operator, w \in LoginPlaces :
          at[o] \in LoginPlaces /\ at' = [at EXCEPT ![o] = w]

(* The handlers of auth.go, the ticker of expireSessions and a stuttering  *)
(* step are such moves.                                                    *)
LEMMA LoginMoves ==
  ASSUME ControlTypes
  PROVE  /\ \A o \in Operator : Authenticate(o) => LoginMove
         /\ AuthTicker => LoginMove
         /\ UNCHANGED consoleVars => LoginMove
<1>1. ASSUME NEW o \in Operator, AuthStep(o), UNCHANGED <<req, control, source, calls>>
      PROVE  LoginMove
  BY <1>1 DEF AuthStep, TakeSlot, WrongPassword, Login, Goto, LoginMove, LoginPlaces
<1>2. ASSUME NEW o \in Operator, AuthRequest(o), UNCHANGED <<req, control, source, calls>>
      PROVE  LoginMove
  BY <1>2 DEF AuthRequest, Attempt, RateLimited, Unauthenticated, Logout, Begin, Goto,
              LoginMove, LoginPlaces
<1>3. AuthTicker => LoginMove
  BY DEF AuthTicker, ExpireSessions, LoginMove
<1>4. UNCHANGED consoleVars => LoginMove
  BY DEF consoleVars, authVars, LoginMove
<1>5. QED
  BY <1>1, <1>2, <1>3, <1>4 DEF Authenticate

(* The steps of the console, handler by handler.                           *)
Handler(o) ==
  \/ \E kind \in Kinds, base \in 0..revision : Submit(o, kind, base)
  \/ AskSnapshot(o)
  \/ Enter(o)
  \/ \E result \in {"busy", "refused", "unavailable"} : NotSent(o, result)
  \/ \E cmd \in flight : Reply(o, cmd)
  \/ ClientGivesUp(o) \/ Invalidate(o)
  \/ ServeCached(o) \/ Collect(o) \/ Collected(o) \/ Served(o)
Beyond ==
  \/ \E cmd \in flight, reply \in {"ok", "unavailable"} : Apply(cmd, reply)
  \/ \E cmd \in flight : Refuse(cmd)
  \/ \E i \in broker : BrokerGivesUp(i)
  \/ Export \/ ControlElapse

(* Every step is a login move, a step of a request's handler, or one that  *)
(* the fleet manager, a deadline, the exporter or the clock takes.         *)
LEMMA Steps ==
  ASSUME ControlTypes, [Next]_consoleVars
  PROVE  LoginMove \/ (\E o \in Operator : Handler(o)) \/ Beyond
<1>1. CASE UNCHANGED consoleVars
  BY <1>1, LoginMoves
<1>2. ASSUME NEW o \in Operator, Authenticate(o) PROVE LoginMove
  BY <1>2, LoginMoves
<1>3. ASSUME NEW o \in Operator, Ask(o) \/ Work(o) PROVE Handler(o)
  BY <1>3 DEF Ask, Work, Handler
<1>4. Deadline \/ Manage \/ Export \/ ControlElapse => Beyond
  BY DEF Deadline, Manage, Beyond
<1>5. AuthTicker => LoginMove
  BY LoginMoves
<1>6. QED
  BY <1>1, <1>2, <1>3, <1>4, <1>5 DEF Next

(* An answer adds its command to those told as done, or as not done, or to *)
(* neither when the control was unavailable.                               *)
LEMMA AnswerTells ==
  ASSUME ControlTypes, NEW o \in Operator, NEW result \in Replies, Answer(o, result)
  PROVE  /\ told' \in [yes : SUBSET Nat, no : SUBSET Nat]
         /\ result = "ok" => told'.yes = told.yes \cup {req[o].id} /\ told'.no = told.no
         /\ result = "unavailable" => told' = told
         /\ result \notin {"ok", "unavailable"} =>
              told'.yes = told.yes /\ told'.no = told.no \cup {req[o].id}
<1>1. req[o].id \in Nat /\ told \in [yes : SUBSET Nat, no : SUBSET Nat]
  BY DEF ControlTypes, Request
<1>2. CASE result = "ok"
  BY <1>1, <1>2 DEF Answer
<1>3. CASE result = "unavailable"
  BY <1>1, <1>3 DEF Answer
<1>4. CASE result \notin {"ok", "unavailable"}
  BY <1>1, <1>4 DEF Answer
<1>5. QED
  BY <1>2, <1>3, <1>4

(* A request that is over leaves its place and its number.                 *)
LEMMA DoneClears ==
  ASSUME ControlTypes, NEW o \in Operator, Done(o)
  PROVE  /\ at' = [at EXCEPT ![o] = "idle"] /\ at' \in [Operator -> Places]
         /\ req' = [req EXCEPT ![o] = NoRequest] /\ req' \in [Operator -> Request]
<1>1. NoRequest \in Request
  BY DEF NoRequest, Request
<1>2. QED
  BY <1>1 DEF Done, Goto, ControlTypes, Places, LoginPlaces

-----------------------------------------------------------------------------
(* Types.                                                                  *)

(* A console just started has the types.                                   *)
LEMMA TypesInit ==
  Init => ControlTypes
<1> SUFFICES ASSUME Init PROVE ControlTypes
  OBVIOUS
<1>1. NoRequest \in Request
  BY DEF NoRequest, Request
<1>2. NoSnapshot \in Snapshot
  BY ControlConstants DEF NoSnapshot, Snapshot
<1>3. QED
  BY <1>1, <1>2 DEF Init, AuthInit, ControlInit, ControlTypes, Places, LoginPlaces

(* A login move keeps the types.                                           *)
LEMMA TypesLogin ==
  ControlTypes /\ LoginMove => ControlTypes'
BY DEF ControlTypes, LoginMove, control, source, Places

(* A handler keeps the types.                                              *)
LEMMA TypesHandler ==
  ASSUME ControlTypes, NEW o \in Operator, Handler(o)
  PROVE  ControlTypes'
<1> USE DEF tables, authVars, control, source
<1>1. ASSUME NEW kind \in Kinds, NEW base \in 0..revision, Submit(o, kind, base)
      PROVE  ControlTypes'
  <2>1. [id |-> calls + 1, kind |-> kind, base |-> base] \in Request
    BY DEF ControlTypes, Request
  <2>2. QED
    BY <1>1, <2>1 DEF Submit, Call, Begin, Goto, ControlTypes, Places
<1>2. CASE AskSnapshot(o)
  <2>1. [NoRequest EXCEPT !.id = calls + 1] \in Request
    BY DEF ControlTypes, Request, NoRequest
  <2>2. [NoSnapshot EXCEPT !.asked = told.yes] \in Snapshot
    BY ControlConstants DEF ControlTypes, Snapshot, NoSnapshot
  <2>3. QED
    BY <1>2, <2>1, <2>2 DEF AskSnapshot, Call, Begin, Goto, ControlTypes, Places
<1>3. CASE Enter(o)
  <2>1. Command(o) \in Sent /\ req[o].id \in Nat
    BY DEF Command, ControlTypes, Request, Sent, Replies
  <2>2. QED
    BY <1>3, <2>1 DEF Enter, Goto, ControlTypes, Places
<1>4. ASSUME NEW result \in {"busy", "refused", "unavailable"}, NotSent(o, result)
      PROVE  ControlTypes'
  <2>1. told' \in [yes : SUBSET Nat, no : SUBSET Nat]
    <3>1. req[o].id \in Nat
      BY DEF ControlTypes, Request
    <3>2. QED
      BY <1>4, <3>1 DEF NotSent, Answer, ControlTypes
  <2>2. QED
    BY <1>4, <2>1, DoneClears DEF NotSent, ControlTypes
<1>5. ASSUME NEW cmd \in flight, Reply(o, cmd) PROVE ControlTypes'
  <2>1. cmd.reply \in Replies /\ broker' \in SUBSET Nat /\ flight' \in SUBSET Sent
    BY <1>5 DEF Reply, ControlTypes, Sent
  <2>2. CASE cmd.reply = "ok"
    BY <1>5, <2>1, <2>2 DEF Reply, Goto, ControlTypes, Places
  <2>3. CASE cmd.reply # "ok"
    BY <1>5, <2>1, <2>3, DoneClears, AnswerTells DEF Reply, ControlTypes
  <2>4. QED
    BY <2>2, <2>3
<1>6. CASE ClientGivesUp(o)
  <2>1. "unavailable" \in Replies
    BY DEF Replies
  <2>2. QED
    BY <1>6, <2>1, DoneClears, AnswerTells DEF ClientGivesUp, Unread, ControlTypes
<1>7. CASE Invalidate(o)
  <2>1. "ok" \in Replies /\ NoSnapshot \in Snapshot
    BY ControlConstants DEF Replies, NoSnapshot, Snapshot
  <2>2. QED
    BY <1>7, <2>1, DoneClears, AnswerTells DEF Invalidate, ControlTypes
<1>8. CASE ServeCached(o)
  <2>1. [cache EXCEPT !.asked = saw[o].asked] \in Snapshot
    BY DEF ControlTypes, Snapshot
  <2>2. QED
    BY <1>8, <2>1 DEF ServeCached, Goto, ControlTypes, Places
<1>9. CASE Collect(o)
  <2>1. ReadFile(saw[o]) \in Snapshot
    <3>1. saw[o] \in Snapshot /\ file \in Nat /\ told.yes \in SUBSET Nat
      BY DEF ControlTypes
    <3>2. (file <= FileTTL) \in BOOLEAN
      OBVIOUS
    <3> DEFINE fit == file <= FileTTL
    <3>3. [saw[o] EXCEPT !.ok = fit, !.age = file, !.cached = 0, !.after = told.yes] \in Snapshot
      <4> HIDE DEF fit
      <4>1. ASSUME NEW snapshot \in Snapshot, fit \in BOOLEAN
            PROVE  [snapshot EXCEPT !.ok = fit, !.age = file, !.cached = 0, !.after = told.yes]
                     \in Snapshot
        BY <3>1, <4>1, Zenon DEF Snapshot
      <4>2. QED
        BY <3>1, <3>2, <4>1 DEF fit
    <3>4. QED
      BY <3>3 DEF ReadFile
  <2>2. broker' \in SUBSET Nat
    BY <1>9 DEF Collect, ControlTypes, Request
  <2>3. QED
    BY <1>9, <2>1, <2>2 DEF Collect, Goto, ControlTypes, Places
<1>10. CASE Collected(o)
  <2>1. [saw[o] EXCEPT !.cached = 0, !.asked = {}] \in Snapshot
    BY DEF ControlTypes, Snapshot
  <2>2. QED
    BY <1>10, <2>1 DEF Collected, Goto, ControlTypes, Places
<1>11. CASE Served(o)
  <2>1. NoSnapshot \in Snapshot
    BY ControlConstants DEF NoSnapshot, Snapshot
  <2>2. QED
    BY <1>11, <2>1, DoneClears DEF Served, ControlTypes
<1>12. QED
  BY <1>1, <1>2, <1>3, <1>4, <1>5, <1>6, <1>7, <1>8, <1>9, <1>10, <1>11 DEF Handler

(* A snapshot that grows older is a snapshot.                              *)
LEMMA OlderSnapshot ==
  ASSUME NEW snapshot \in Snapshot, NEW ttl
  PROVE  Older(snapshot, ttl) \in Snapshot
<1>1. snapshot.age + 1 \in Nat /\ (IF snapshot.cached < ttl THEN snapshot.cached + 1 ELSE snapshot.cached) \in Nat
  BY DEF Snapshot
<1>2. [snapshot EXCEPT !.age = @ + 1, !.cached = IF @ < ttl THEN @ + 1 ELSE @] \in Snapshot
  BY <1>1 DEF Snapshot
<1>3. QED
  BY <1>2 DEF Older

(* The other steps keep the types.                                         *)
LEMMA TypesBeyond ==
  ControlTypes /\ Beyond => ControlTypes'
<1> SUFFICES ASSUME ControlTypes, Beyond PROVE ControlTypes'
  OBVIOUS
<1> USE DEF tables, authVars, control, source
<1>1. ASSUME NEW cmd \in flight, NEW reply \in Replies PROVE [cmd EXCEPT !.reply = reply] \in Sent
  BY <1>1 DEF ControlTypes, Sent
<1>2. ASSUME NEW cmd \in flight, NEW reply \in {"ok", "unavailable"}, Apply(cmd, reply)
      PROVE  ControlTypes'
  <2>1. reply \in Replies /\ cmd.id \in Nat
    BY <1>2 DEF Replies, ControlTypes, Sent
  <2>2. flight' \in SUBSET Sent
    <3>1. Handled(cmd, reply)
      BY <1>2 DEF Apply
    <3>2. [cmd EXCEPT !.reply = reply] \in Sent
      BY <1>1, <2>1
    <3>3. QED
      BY <3>1, <3>2 DEF Handled, ControlTypes
  <2>3. applied' \in SUBSET Nat /\ revision' \in Nat
    <3>1. applied' = applied \cup {cmd.id} /\ applied \in SUBSET Nat
      BY <1>2 DEF Apply, ControlTypes
    <3>2. applied' \in SUBSET Nat
      BY <2>1, <3>1
    <3>3. revision' \in {revision, revision + 1} /\ revision \in Nat
      BY <1>2, Zenon DEF Apply, ControlTypes
    <3>4. revision' \in Nat
      BY <3>3
    <3>5. QED
      BY <3>2, <3>4
  <2>4. UNCHANGED <<at, req, broker, told, file, cache, mu, saw, calls>>
    BY <1>2 DEF Apply
  <2>5. QED
    BY <2>2, <2>3, <2>4 DEF ControlTypes
<1>3. ASSUME NEW cmd \in flight, Refuse(cmd) PROVE ControlTypes'
  <2>1. PICK reply \in {"conflict", "refused", "unavailable"} : Handled(cmd, reply)
    BY <1>3 DEF Refuse
  <2>2. reply \in Replies
    BY DEF Replies
  <2>3. flight' \in SUBSET Sent
    BY <1>1, <2>1, <2>2 DEF Handled, ControlTypes
  <2>4. QED
    BY <1>3, <2>3 DEF Refuse, ControlTypes
<1>4. ASSUME NEW i \in broker, BrokerGivesUp(i) PROVE ControlTypes'
  <2>1. flight' \in SUBSET Sent /\ broker' \in SUBSET Nat
    BY <1>4 DEF BrokerGivesUp, Unread, ControlTypes
  <2>2. CASE UNCHANGED <<at, req, told>>
    BY <1>4, <2>1, <2>2 DEF BrokerGivesUp, ControlTypes
  <2>3. ASSUME NEW o \in Operator, Answer(o, "unavailable"), Done(o) PROVE ControlTypes'
    <3>1. "unavailable" \in Replies
      BY DEF Replies
    <3>2. QED
      BY <1>4, <2>1, <2>3, <3>1, DoneClears, AnswerTells DEF BrokerGivesUp, ControlTypes
  <2>4. QED
    BY <1>4, <2>2, <2>3 DEF BrokerGivesUp
<1>5. CASE Export
  BY <1>5 DEF Export, ControlTypes
<1>6. CASE ControlElapse
  <2>1. NoSnapshot \in Snapshot
    BY ControlConstants DEF NoSnapshot, Snapshot
  <2>2. cache' \in Snapshot
    BY <1>6, <2>1, OlderSnapshot DEF ControlElapse, ControlTypes
  <2>3. saw' \in [Operator -> Snapshot]
    BY <1>6, OlderSnapshot DEF ControlElapse, ControlTypes
  <2>4. file' \in Nat
    BY <1>6, ControlConstants DEF ControlElapse, ControlTypes
  <2>5. QED
    BY <1>6, <2>2, <2>3, <2>4 DEF ControlElapse, AuthElapse, ControlTypes
<1>7. QED
  BY <1>2, <1>3, <1>4, <1>5, <1>6 DEF Beyond

(* The commands, the snapshots and the places of the requests have their   *)
(* types.                                                                  *)
LEMMA Types ==
  Spec => []ControlTypes
<1>1. ControlTypes /\ [Next]_consoleVars => ControlTypes'
  BY Steps, TypesLogin, TypesHandler, TypesBeyond
<1>2. QED
  BY <1>1, TypesInit, PTL DEF Spec

-----------------------------------------------------------------------------
(* What the operator is told of a command.                                 *)

(* At the start nothing has been asked or told.                            *)
LEMMA DefiniteInit ==
  Init => Definite
BY DEF Init, AuthInit, ControlInit, NoRequest, Definite, Numbered, Untried, TrueReplies,
       AnswersAreDefinite

(* A login move puts no request into a place of a command.                 *)
LEMMA LoginPlacesOnly ==
  ASSUME ControlTypes, LoginMove
  PROVE  \A o \in Operator : at'[o] \notin LoginPlaces \/ at[o] \notin LoginPlaces => at'[o] = at[o]
BY DEF LoginMove, ControlTypes

(* A login move concerns no command.                                       *)
LEMMA DefiniteLogin ==
  ControlTypes /\ Definite /\ LoginMove => Definite'
<1> SUFFICES ASSUME ControlTypes, Definite, LoginMove PROVE Definite'
  OBVIOUS
<1>1. UNCHANGED <<req, flight, applied, told, calls>>
  BY DEF LoginMove, control
<1>2. \A o \in Operator : at'[o] \in {"send", "wait", "invalidate"} => at'[o] = at[o]
  BY LoginPlacesOnly DEF LoginPlaces
<1>3. QED
  BY <1>1, <1>2 DEF Definite, Numbered, Untried, TrueReplies, TrueReply, AnswersAreDefinite

(* A request that ends, with or without an answer that says what became of *)
(* it, once that answer is true.                                           *)
LEMMA DefiniteDone ==
  ASSUME ControlTypes, Definite, NEW o \in Operator, NEW result \in Replies,
         req[o].id # 0, Answer(o, result), Done(o),
         UNCHANGED <<applied, calls>>, flight' \subseteq flight,
         result = "ok" => req[o].id \in applied,
         result \notin {"ok", "unavailable"} =>
           req[o].id \notin applied /\ \A cmd \in flight' : cmd.id # req[o].id
  PROVE  Definite'
<1>1. at' = [at EXCEPT ![o] = "idle"] /\ req' = [req EXCEPT ![o] = NoRequest]
  BY DoneClears
<1>2. NoRequest.id = 0
  BY DEF NoRequest
<1>3. /\ \A p \in Operator : p # o => at'[p] = at[p] /\ req'[p] = req[p]
      /\ at'[o] = "idle" /\ req'[o].id = 0
  BY <1>1, <1>2 DEF ControlTypes
<1>4. /\ req[o].id \in Nat /\ calls \in Nat /\ req[o].id <= calls
  BY DEF ControlTypes, Request, Definite, Numbered
<1>5. /\ \A i \in told'.yes : i \in told.yes \/ (i = req[o].id /\ i \in applied)
      /\ \A i \in told'.no : \/ i \in told.no
                             \/ /\ i = req[o].id /\ i \notin applied
                                /\ \A cmd \in flight' : cmd.id # i
  BY AnswerTells
<1>6. Numbered'
  <2>1. \A p \in Operator : req'[p].id <= calls
    BY <1>3, <1>4 DEF Definite, Numbered
  <2>2. \A p, q \in Operator : req'[p].id = req'[q].id /\ req'[p].id # 0 => p = q
    BY <1>3 DEF Definite, Numbered
  <2>3. \A p \in Operator : at'[p] \in {"send", "wait", "invalidate"} => req'[p].id # 0
    BY <1>3 DEF Definite, Numbered
  <2>4. \A i \in applied \cup told'.yes \cup told'.no : i <= calls
    BY <1>4, <1>5 DEF Definite, Numbered
  <2>5. QED
    BY <2>1, <2>2, <2>3, <2>4 DEF Definite, Numbered
<1>7. Untried'
  <2> SUFFICES ASSUME NEW p \in Operator, at'[p] = "send"
               PROVE  /\ req'[p].id \notin applied' \cup told'.no
                      /\ \A cmd \in flight' : cmd.id # req'[p].id
    BY DEF Untried
  <2>1. p # o /\ at[p] = "send" /\ req'[p] = req[p]
    BY <1>3
  <2>2. req[p].id # req[o].id
    BY <2>1 DEF Definite, Numbered
  <2>3. QED
    BY <1>5, <2>1, <2>2 DEF Definite, Untried
<1>8. TrueReplies'
  BY <1>3 DEF Definite, TrueReplies, TrueReply
<1>9. AnswersAreDefinite'
  <2>1. told'.yes \subseteq applied
    BY <1>5 DEF Definite, AnswersAreDefinite
  <2>2. ASSUME NEW i \in told'.no PROVE i \notin applied /\ \A cmd \in flight' : cmd.id # i
    BY <1>5, <2>2 DEF Definite, AnswersAreDefinite
  <2>3. QED
    BY <2>1, <2>2 DEF AnswersAreDefinite
<1>10. QED
  BY <1>6, <1>7, <1>8, <1>9 DEF Definite

(* A snapshot handler leaves commands alone and takes no number but a new  *)
(* one.                                                                    *)
LEMMA DefiniteAside ==
  ASSUME ControlTypes, Definite, NEW o \in Operator, UNCHANGED <<flight, applied, told, calls>>,
         \A p \in Operator : /\ req'[p] = req[p] \/ req'[p] = NoRequest
                             /\ at'[p] \in {"send", "wait", "invalidate"} =>
                                  at'[p] = at[p] /\ req'[p] = req[p]
  PROVE  Definite'
<1>1. NoRequest.id = 0
  BY DEF NoRequest
<1>2. \A p \in Operator : req'[p].id = req[p].id \/ req'[p].id = 0
  BY <1>1
<1>3. calls \in Nat
  BY DEF ControlTypes
<1>4. QED
  BY <1>2, <1>3 DEF Definite, Numbered, Untried, TrueReplies, TrueReply, AnswersAreDefinite

(* A new request takes the next number.                                    *)
LEMMA DefiniteNew ==
  ASSUME ControlTypes, Definite, NEW o \in Operator, NEW new \in Request, NEW where \in Places,
         new.id = calls + 1, where \in {"send", "lock"},
         at' = [at EXCEPT ![o] = where], req' = [req EXCEPT ![o] = new], calls' = calls + 1,
         UNCHANGED <<flight, applied, told>>
  PROVE  Definite'
<1>1. /\ \A p \in Operator : p # o => at'[p] = at[p] /\ req'[p] = req[p]
      /\ at'[o] = where /\ req'[o].id = calls + 1
  BY DEF ControlTypes
<1>2. calls \in Nat /\ \A p \in Operator : req[p].id \in Nat
  BY DEF ControlTypes, Request
<1>3. /\ \A cmd \in flight : cmd.id \in Nat
      /\ \A i \in applied \cup told.yes \cup told.no : i \in Nat
  BY DEF ControlTypes, Sent
<1>4. Numbered'
  <2>1. \A p \in Operator : req'[p].id <= calls'
    BY <1>1, <1>2 DEF Definite, Numbered
  <2>2. \A p, q \in Operator : req'[p].id = req'[q].id /\ req'[p].id # 0 => p = q
    BY <1>1, <1>2 DEF Definite, Numbered
  <2>3. \A p \in Operator : at'[p] \in {"send", "wait", "invalidate"} => req'[p].id # 0
    BY <1>1, <1>2 DEF Definite, Numbered
  <2>4. \A cmd \in flight : cmd.id <= calls'
    BY <1>2, <1>3 DEF Definite, Numbered
  <2>5. \A i \in applied \cup told.yes \cup told.no : i <= calls'
    BY <1>2, <1>3 DEF Definite, Numbered
  <2>6. QED
    BY <2>1, <2>2, <2>3, <2>4, <2>5 DEF Definite, Numbered
<1>5. Untried'
  <2>1. /\ calls + 1 \notin applied \cup told.no
        /\ \A cmd \in flight : cmd.id # calls + 1
    BY <1>2, <1>3 DEF Definite, Numbered
  <2>2. QED
    BY <1>1, <2>1 DEF Definite, Untried
<1>6. TrueReplies'
  BY <1>1 DEF Definite, TrueReplies, TrueReply
<1>7. QED
  BY <1>4, <1>5, <1>6 DEF Definite, AnswersAreDefinite

(* The handlers of a request, from control.go, source.go and policy.go.    *)
LEMMA DefiniteHandler ==
  ASSUME ControlTypes, Definite, NEW o \in Operator, Handler(o)
  PROVE  Definite'
<1> USE DEF tables, control, source
<1>1. ASSUME NEW kind \in Kinds, NEW base \in 0..revision, Submit(o, kind, base)
      PROVE  Definite'
  <2> DEFINE new == [id |-> calls + 1, kind |-> kind, base |-> base]
  <2>1. new \in Request /\ new.id = calls + 1 /\ "send" \in Places
    BY DEF ControlTypes, Request, Places
  <2>2. /\ at' = [at EXCEPT ![o] = "send"] /\ req' = [req EXCEPT ![o] = new]
        /\ calls' = calls + 1 /\ UNCHANGED <<flight, applied, told>>
    BY <1>1 DEF Submit, Call, Goto
  <2> HIDE DEF new
  <2>3. QED
    BY <2>1, <2>2, DefiniteNew
<1>2. CASE AskSnapshot(o)
  <2> DEFINE new == [NoRequest EXCEPT !.id = calls + 1]
  <2>1. new \in Request /\ new.id = calls + 1 /\ "lock" \in Places
    BY DEF ControlTypes, Request, NoRequest, Places
  <2>2. /\ at' = [at EXCEPT ![o] = "lock"] /\ req' = [req EXCEPT ![o] = new]
        /\ calls' = calls + 1 /\ UNCHANGED <<flight, applied, told>>
    BY <1>2 DEF AskSnapshot, Call, Goto
  <2> HIDE DEF new
  <2>3. QED
    BY <2>1, <2>2, DefiniteNew
<1>3. CASE Enter(o)
  <2>1. /\ Command(o).id = req[o].id /\ Command(o).reply = "none"
    BY DEF Command
  <2>2. /\ at[o] = "send" /\ at'[o] = "wait" /\ \A p \in Operator : p # o => at'[p] = at[p]
        /\ flight' = flight \cup {Command(o)} /\ UNCHANGED <<req, applied, told, calls>>
    BY <1>3 DEF Enter, Goto, ControlTypes
  <2>3. /\ req[o].id \notin applied \cup told.no /\ req[o].id # 0 /\ req[o].id <= calls
        /\ \A cmd \in flight : cmd.id # req[o].id
    BY <2>2 DEF Definite, Untried, Numbered
  <2>4. Numbered'
    BY <2>1, <2>2, <2>3 DEF Definite, Numbered
  <2>5. Untried'
    <3> SUFFICES ASSUME NEW p \in Operator, at'[p] = "send"
                 PROVE  /\ req[p].id \notin applied \cup told.no
                        /\ \A cmd \in flight' : cmd.id # req[p].id
      BY <2>2 DEF Untried
    <3>1. p # o /\ at[p] = "send"
      BY <2>2
    <3>2. req[p].id # req[o].id
      BY <2>3, <3>1 DEF Definite, Numbered
    <3>3. QED
      BY <2>1, <2>2, <3>1, <3>2 DEF Definite, Untried
  <2>6. TrueReplies'
    BY <2>1, <2>2, <2>3 DEF Definite, TrueReplies, TrueReply
  <2>7. AnswersAreDefinite'
    BY <2>1, <2>2, <2>3 DEF Definite, AnswersAreDefinite
  <2>8. QED
    BY <2>4, <2>5, <2>6, <2>7 DEF Definite
<1>4. ASSUME NEW result \in {"busy", "refused", "unavailable"}, NotSent(o, result)
      PROVE  Definite'
  <2>1. /\ at[o] = "send" /\ Answer(o, result) /\ Done(o) /\ UNCHANGED <<applied, calls, flight>>
    BY <1>4 DEF NotSent
  <2>2. /\ req[o].id \notin applied /\ req[o].id # 0 /\ \A cmd \in flight' : cmd.id # req[o].id
    BY <2>1 DEF Definite, Untried, Numbered
  <2>3. CASE result = "unavailable"
    <3>1. result \in Replies /\ result # "ok"
      BY <2>3 DEF Replies
    <3>2. QED
      BY <2>1, <2>2, <2>3, <3>1, DefiniteDone
  <2>4. CASE result # "unavailable"
    <3>1. Answer(o, "refused")
      BY <2>1, <2>4 DEF Answer
    <3>2. "refused" \in Replies
      BY DEF Replies
    <3>3. QED
      BY <2>1, <2>2, <3>1, <3>2, DefiniteDone
  <2>5. QED
    BY <2>3, <2>4
<1>5. ASSUME NEW cmd \in flight, Reply(o, cmd) PROVE Definite'
  <2>1. /\ at[o] = "wait" /\ cmd.id = req[o].id /\ cmd.reply # "none"
        /\ flight' = flight \ {cmd} /\ UNCHANGED <<applied, calls>>
    BY <1>5 DEF Reply
  <2>2. cmd.reply \in Replies /\ req[o].id # 0
    BY <2>1 DEF ControlTypes, Sent, Definite, Numbered
  <2>3. \A other \in flight' : other.id # req[o].id
    BY <2>1 DEF Definite, Numbered
  <2>4. TrueReply(cmd)
    BY DEF Definite, TrueReplies
  <2>5. CASE cmd.reply = "ok"
    <3>1. /\ UNCHANGED <<req, told>> /\ at'[o] = "invalidate"
          /\ \A p \in Operator : p # o => at'[p] = at[p]
      BY <1>5, <2>5 DEF Reply, Goto, ControlTypes
    <3>2. req[o].id \in applied
      BY <2>1, <2>4, <2>5 DEF TrueReply
    <3>3. QED
      BY <2>1, <2>2, <3>1, <3>2
         DEF Definite, Numbered, Untried, TrueReplies, TrueReply, AnswersAreDefinite
  <2>6. CASE cmd.reply # "ok"
    <3>1. Answer(o, cmd.reply) /\ Done(o)
      BY <1>5, <2>6 DEF Reply
    <3>2. cmd.reply \notin {"ok", "unavailable"} => req[o].id \notin applied
      BY <2>1, <2>2, <2>4 DEF TrueReply, Replies
    <3>3. QED
      BY <2>1, <2>2, <2>3, <2>6, <3>1, <3>2, DefiniteDone
  <2>7. QED
    BY <2>5, <2>6
<1>6. CASE ClientGivesUp(o)
  <2>1. /\ at[o] = "wait" /\ Answer(o, "unavailable") /\ Done(o) /\ UNCHANGED <<applied, calls>>
        /\ flight' \subseteq flight
    BY <1>6 DEF ClientGivesUp, Unread
  <2>2. req[o].id # 0 /\ "unavailable" \in Replies
    BY <2>1 DEF Definite, Numbered, Replies
  <2>3. QED
    BY <2>1, <2>2, DefiniteDone
<1>7. CASE Invalidate(o)
  <2>1. /\ at[o] = "invalidate" /\ Answer(o, "ok") /\ Done(o) /\ UNCHANGED <<applied, calls, flight>>
    BY <1>7 DEF Invalidate
  <2>2. req[o].id # 0 /\ req[o].id \in applied /\ "ok" \in Replies
    BY <2>1 DEF Definite, Numbered, TrueReplies, Replies
  <2>3. QED
    BY <2>1, <2>2, DefiniteDone
<1>8. CASE ServeCached(o) \/ Collect(o) \/ Collected(o) \/ Served(o)
  <2>1. UNCHANGED <<flight, applied, told, calls>>
    BY <1>8 DEF ServeCached, Collect, Collected, Served
  <2>2. \/ UNCHANGED req /\ at' = [at EXCEPT ![o] = "served"]
        \/ UNCHANGED req /\ at' = [at EXCEPT ![o] = "collect"]
        \/ Done(o)
    BY <1>8 DEF ServeCached, Collect, Collected, Served, Goto
  <2>3. \A p \in Operator : /\ req'[p] = req[p] \/ req'[p] = NoRequest
                            /\ at'[p] \in {"send", "wait", "invalidate"} =>
                                 at'[p] = at[p] /\ req'[p] = req[p]
    BY <2>2, DoneClears DEF ControlTypes
  <2>4. QED
    BY <2>1, <2>3, DefiniteAside
<1>9. QED
  BY <1>1, <1>2, <1>3, <1>4, <1>5, <1>6, <1>7, <1>8 DEF Handler

(* A command the fleet manager is done with: it is gone or holds its       *)
(* reply.                                                                  *)
LEMMA HandledFlight ==
  ASSUME ControlTypes, Numbered, NEW cmd \in flight, NEW reply, Handled(cmd, reply)
  PROVE  \A c \in flight' : \/ c \in flight /\ c.id # cmd.id
                            \/ c = [cmd EXCEPT !.reply = reply]
BY DEF Handled, Numbered

(* The fleet manager, a deadline, the exporter and the clock.              *)
LEMMA DefiniteBeyond ==
  ControlTypes /\ Definite /\ Beyond => Definite'
<1> SUFFICES ASSUME ControlTypes, Definite, Beyond PROVE Definite'
  OBVIOUS
<1> USE DEF tables, authVars, control, source
<1>1. ASSUME NEW cmd \in flight, NEW reply, Handled(cmd, reply),
             UNCHANGED <<at, req, told, calls>>, cmd.reply = "none",
             applied' = applied \cup {cmd.id} \/ applied' = applied,
             applied' = applied \cup {cmd.id} => reply \in {"ok", "unavailable"},
             applied' = applied => reply # "ok"
      PROVE  Definite'
  <2> DEFINE answered == [cmd EXCEPT !.reply = reply]
  <2>1. answered.id = cmd.id /\ answered.reply = reply
    BY DEF ControlTypes, Sent
  <2>2. \A c \in flight' : (c \in flight /\ c.id # cmd.id) \/ c = answered
    BY <1>1, HandledFlight DEF Definite
  <2> HIDE DEF answered
  <2>3. \A c \in flight' : \E d \in flight : c.id = d.id
    BY <2>1, <2>2
  <2>4. /\ cmd.id \notin applied /\ cmd.id \notin told.no
    BY <1>1 DEF Definite, TrueReplies, TrueReply, AnswersAreDefinite
  <2>5. \A i : i \in applied' => i \in applied \/ i = cmd.id
    BY <1>1
  <2>6. Numbered'
    BY <1>1, <2>1, <2>2, <2>5 DEF Definite, Numbered
  <2>7. Untried'
    BY <1>1, <2>3, <2>5 DEF Definite, Untried
  <2>8. TrueReplies'
    <3>1. ASSUME NEW c \in flight', c \in flight, c.id # cmd.id PROVE TrueReply(c)'
      BY <1>1, <2>5, <3>1 DEF Definite, TrueReplies, TrueReply
    <3>2. TrueReply(answered)'
      BY <1>1, <2>1, <2>4 DEF TrueReply
    <3>3. QED
      BY <1>1, <2>2, <3>1, <3>2 DEF Definite, TrueReplies
  <2>9. AnswersAreDefinite'
    BY <1>1, <2>3, <2>4, <2>5 DEF Definite, AnswersAreDefinite
  <2>10. QED
    BY <2>6, <2>7, <2>8, <2>9 DEF Definite
<1>2. ASSUME NEW cmd \in flight, NEW reply \in {"ok", "unavailable"}, Apply(cmd, reply)
      PROVE  Definite'
  <2>1. /\ Handled(cmd, reply) /\ UNCHANGED <<at, req, told, calls>> /\ cmd.reply = "none"
        /\ applied' = applied \cup {cmd.id}
    BY <1>2 DEF Apply
  <2>2. applied' # applied
    BY <2>1 DEF Definite, TrueReplies, TrueReply
  <2>3. QED
    BY <1>1, <2>1, <2>2
<1>3. ASSUME NEW cmd \in flight, Refuse(cmd) PROVE Definite'
  <2>1. PICK reply \in {"conflict", "refused", "unavailable"} : Handled(cmd, reply)
    BY <1>3 DEF Refuse
  <2>2. UNCHANGED <<at, req, told, calls, applied>> /\ cmd.reply = "none"
    BY <1>3 DEF Refuse
  <2>3. applied' # applied \cup {cmd.id}
    BY <2>2 DEF Definite, TrueReplies, TrueReply
  <2>4. QED
    BY <1>1, <2>1, <2>2, <2>3
<1>4. ASSUME NEW i \in broker, BrokerGivesUp(i) PROVE Definite'
  <2>1. flight' \subseteq flight /\ UNCHANGED <<applied, calls>>
    BY <1>4 DEF BrokerGivesUp, Unread
  <2>2. CASE UNCHANGED <<at, req, told>>
    BY <2>1, <2>2 DEF Definite, Numbered, Untried, TrueReplies, TrueReply, AnswersAreDefinite
  <2>3. ASSUME NEW o \in Operator, at[o] = "wait", Answer(o, "unavailable"), Done(o)
        PROVE  Definite'
    <3>1. req[o].id # 0 /\ "unavailable" \in Replies
      BY <2>3 DEF Definite, Numbered, Replies
    <3>2. QED
      BY <2>1, <2>3, <3>1, DefiniteDone
  <2>4. QED
    BY <1>4, <2>2, <2>3 DEF BrokerGivesUp
<1>5. CASE Export \/ ControlElapse
  <2>1. UNCHANGED <<at, req, flight, applied, told, calls>>
    BY <1>5 DEF Export, ControlElapse, AuthElapse
  <2>2. QED
    BY <2>1 DEF Definite, Numbered, Untried, TrueReplies, TrueReply, AnswersAreDefinite
<1>6. QED
  BY <1>2, <1>3, <1>4, <1>5 DEF Beyond

(* The inductive invariant behind the answers.                             *)
LEMMA AlwaysDefinite ==
  Spec => []Definite
<1>1. ControlTypes /\ Definite /\ [Next]_consoleVars => Definite'
  BY Steps, DefiniteLogin, DefiniteHandler, DefiniteBeyond
<1>2. QED
  BY <1>1, Types, DefiniteInit, PTL DEF Spec

(* Whatever is told of a command by control.go and the fleet manager's     *)
(* policy endpoint is true: done means done, a refusal or a conflict means *)
(* that it is not done and never will be.                                  *)
THEOREM AnswersHold ==
  Spec => []AnswersAreDefinite
<1>1. Definite => AnswersAreDefinite
  BY DEF Definite
<1>2. QED
  BY <1>1, AlwaysDefinite, PTL

-----------------------------------------------------------------------------
(* The pages.                                                              *)

(* At the start nothing has been collected.                                *)
LEMMA PagesInit ==
  Init => Refreshed /\ Aged
BY DEF Init, AuthInit, ControlInit, NoSnapshot, Refreshed, RefreshedAfterCommand, Aged,
       SnapshotAgeBounded

(* A step that neither touches the data source nor acknowledges a command. *)
BesidePages ==
  /\ UNCHANGED source /\ told'.yes = told.yes
  /\ \A o \in Operator : at'[o] \in {"lock", "collect", "served"} => at'[o] = at[o]

(* Such a step leaves the pages as they are.                               *)
LEMMA PagesKept ==
  Refreshed /\ Aged /\ BesidePages => (Refreshed /\ Aged)'
BY DEF BesidePages, source, Refreshed, RefreshedAfterCommand, Aged, SnapshotAgeBounded

(* A login move is one.                                                    *)
LEMMA LoginBesidePages ==
  ControlTypes /\ LoginMove => BesidePages
<1> SUFFICES ASSUME ControlTypes, LoginMove PROVE BesidePages
  OBVIOUS
<1>1. UNCHANGED source /\ UNCHANGED told
  BY DEF LoginMove, control
<1>2. \A o \in Operator : at'[o] \in {"lock", "collect", "served"} => at'[o] = at[o]
  BY LoginPlacesOnly DEF LoginPlaces
<1>3. QED
  BY <1>1, <1>2 DEF BesidePages

(* So is every handler of a command before it acknowledges it.             *)
LEMMA CommandBesidePages ==
  ASSUME ControlTypes, NEW o \in Operator,
         \/ \E kind \in Kinds, base \in 0..revision : Submit(o, kind, base)
         \/ Enter(o) \/ ClientGivesUp(o)
         \/ \E result \in {"busy", "refused", "unavailable"} : NotSent(o, result)
         \/ \E cmd \in flight : Reply(o, cmd)
  PROVE  BesidePages
<1>1. UNCHANGED source
  BY DEF Submit, Enter, ClientGivesUp, NotSent, Reply
<1>2. /\ at' \in [Operator -> Places]
      /\ \A p \in Operator : at'[p] = at[p] \/ at'[p] \in {"send", "wait", "invalidate", "idle"}
  BY DEF Submit, Enter, ClientGivesUp, NotSent, Reply, Done, Goto, ControlTypes, Places,
         LoginPlaces
<1>3. told'.yes = told.yes
  <2>1. CASE UNCHANGED told
    BY <2>1
  <2>2. CASE \E result \in {"busy", "refused", "unavailable"} : NotSent(o, result)
    <3>1. PICK result \in {"busy", "refused", "unavailable"} : Answer(o, result)
      BY <2>2 DEF NotSent
    <3>2. told \in [yes : SUBSET Nat, no : SUBSET Nat]
      BY DEF ControlTypes
    <3>3. QED
      BY <3>1, <3>2 DEF Answer
  <2>3. CASE ClientGivesUp(o)
    BY <2>3 DEF ClientGivesUp, Answer
  <2>4. ASSUME NEW cmd \in flight, Reply(o, cmd) PROVE told'.yes = told.yes
    <3>1. cmd.reply = "ok" \/ Answer(o, cmd.reply)
      BY <2>4 DEF Reply
    <3>2. CASE cmd.reply = "ok"
      BY <2>4, <3>2 DEF Reply
    <3>3. CASE cmd.reply # "ok" /\ Answer(o, cmd.reply)
      BY <3>3, AnswerTells DEF ControlTypes, Sent
    <3>4. QED
      BY <3>1, <3>2, <3>3
  <2>5. QED
    BY <2>1, <2>2, <2>3, <2>4 DEF Submit, Enter, control
<1>4. QED
  BY <1>1, <1>2, <1>3 DEF BesidePages

(* The handlers of a request: the data source's lock orders the            *)
(* collections and the acknowledgements.                                   *)
LEMMA PagesHandler ==
  ASSUME ControlTypes, Refreshed, Aged, NEW o \in Operator, Handler(o)
  PROVE  (Refreshed /\ Aged)'
<1> USE DEF tables, control
<1> DEFINE Later(p) == at'[p] = at[p] /\ saw'[p] = saw[p]
<1>1. CASE \/ \E kind \in Kinds, base \in 0..revision : Submit(o, kind, base)
           \/ Enter(o) \/ ClientGivesUp(o)
           \/ \E result \in {"busy", "refused", "unavailable"} : NotSent(o, result)
           \/ \E cmd \in flight : Reply(o, cmd)
  BY <1>1, CommandBesidePages, PagesKept
<1>2. CASE AskSnapshot(o)
  <2>1. /\ \A p \in Operator : p # o => Later(p)
        /\ at'[o] = "lock" /\ saw'[o].asked = told.yes /\ UNCHANGED <<told, cache, mu>>
    BY <1>2 DEF AskSnapshot, Goto, ControlTypes, NoSnapshot
  <2>2. Refreshed'
    BY <2>1 DEF Refreshed, RefreshedAfterCommand
  <2>3. Aged'
    BY <2>1 DEF Aged, SnapshotAgeBounded
  <2>4. QED
    BY <2>2, <2>3
<1>3. CASE Invalidate(o)
  <2>1. /\ mu = {} /\ mu' = {} /\ cache' = NoSnapshot /\ UNCHANGED saw
        /\ at' = [at EXCEPT ![o] = "idle"]
    BY <1>3, DoneClears DEF Invalidate
  <2>2. told'.yes = told.yes \cup {req[o].id}
    <3>1. "ok" \in Replies
      BY DEF Replies
    <3>2. QED
      BY <1>3, <3>1, AnswerTells DEF Invalidate
  <2>3. \A p \in Operator : at[p] # "collect" /\ (at'[p] = at[p] \/ at'[p] = "idle")
    BY <2>1 DEF Refreshed, ControlTypes
  <2>4. Refreshed'
    BY <2>1, <2>2, <2>3 DEF Refreshed, RefreshedAfterCommand
  <2>5. NoSnapshot.ok = FALSE
    BY DEF NoSnapshot
  <2>6. Aged'
    BY <2>1, <2>3, <2>5 DEF Aged, SnapshotAgeBounded
  <2>7. QED
    BY <2>4, <2>6
<1>4. CASE ServeCached(o)
  <2>1. /\ \A p \in Operator : p # o => Later(p)
        /\ at[o] = "lock" /\ at'[o] = "served" /\ UNCHANGED <<told, cache, mu>>
        /\ cache # NoSnapshot /\ cache.cached < CacheTTL
    BY <1>4 DEF ServeCached, Goto, ControlTypes, Fresh
  <2>2. /\ saw'[o].asked = saw[o].asked /\ saw'[o].after = cache.after
        /\ saw'[o].ok = cache.ok /\ saw'[o].age = cache.age
    BY <1>4 DEF ServeCached, ControlTypes, Snapshot
  <2>3. Refreshed'
    BY <2>1, <2>2 DEF Refreshed, RefreshedAfterCommand
  <2>4. cache.cached \in Nat /\ cache.age \in Nat
    BY DEF ControlTypes, Snapshot
  <2>5. cache.ok => cache.age <= FileTTL + CollectTTL + CacheTTL - 1
    BY <2>1, <2>4, ControlConstants DEF Aged
  <2>6. Aged'
    BY <2>1, <2>2, <2>5 DEF Aged, SnapshotAgeBounded
  <2>7. QED
    BY <2>3, <2>6
<1>5. CASE Collect(o)
  <2>1. /\ \A p \in Operator : p # o => Later(p)
        /\ at[o] = "lock" /\ at'[o] = "collect" /\ UNCHANGED <<told, cache>>
        /\ mu = {} /\ mu' = {o}
    BY <1>5 DEF Collect, Goto, ControlTypes
  <2>2. /\ saw'[o].asked = saw[o].asked /\ saw'[o].after = told.yes
        /\ saw'[o].age = file /\ saw'[o].cached = 0
    BY <1>5 DEF Collect, ReadFile, ControlTypes, Snapshot
  <2>3. saw'[o].ok => file <= FileTTL
    BY <1>5, Zenon DEF Collect, ReadFile, ControlTypes, Snapshot
  <2>4. Refreshed'
    BY <2>1, <2>2 DEF Refreshed, RefreshedAfterCommand
  <2>5. file \in Nat
    BY DEF ControlTypes
  <2>6. saw'[o].ok => saw'[o].age <= FileTTL + saw'[o].cached
    BY <2>2, <2>3, <2>5, ControlConstants
  <2>7. saw'[o].cached <= CollectTTL
    BY <2>2, ControlConstants
  <2>8. Aged'
    BY <2>1, <2>6, <2>7 DEF Aged, SnapshotAgeBounded
  <2>9. QED
    BY <2>4, <2>8
<1>6. CASE Collected(o)
  <2>1. /\ \A p \in Operator : p # o => Later(p)
        /\ at[o] = "collect" /\ at'[o] = "served" /\ UNCHANGED <<told, saw>>
        /\ mu = {o} /\ mu' = {}
    BY <1>6 DEF Collected, Goto, ControlTypes, Refreshed
  <2>2. /\ cache'.after = saw[o].after /\ cache'.ok = saw[o].ok
        /\ cache'.age = saw[o].age /\ cache'.cached = 0
    BY <1>6 DEF Collected, ControlTypes, Snapshot
  <2>3. /\ told.yes \subseteq saw[o].after /\ saw[o].asked \subseteq told.yes
        /\ \A p \in Operator : p # o => at[p] # "collect"
    BY <2>1 DEF Refreshed
  <2>4. Refreshed'
    BY <2>1, <2>2, <2>3 DEF Refreshed, RefreshedAfterCommand
  <2>5. saw[o].age \in Nat /\ saw[o].cached \in Nat
    BY DEF ControlTypes, Snapshot
  <2>6. saw[o].ok => saw[o].age <= FileTTL + CollectTTL
    BY <2>1, <2>5, ControlConstants DEF Aged
  <2>7. /\ cache'.ok => cache'.age <= FileTTL + CollectTTL + cache'.cached
        /\ saw[o].ok => saw[o].age <= FileTTL + CollectTTL + CacheTTL - 1
    BY <2>2, <2>5, <2>6, ControlConstants
  <2>8. Aged'
    BY <2>1, <2>3, <2>7 DEF Aged, SnapshotAgeBounded
  <2>9. QED
    BY <2>4, <2>8
<1>7. CASE Served(o)
  <2>1. /\ \A p \in Operator : p # o => Later(p)
        /\ at'[o] = "idle" /\ UNCHANGED <<told, cache, mu>>
    BY <1>7, DoneClears DEF Served, ControlTypes
  <2>2. QED
    BY <2>1 DEF Refreshed, RefreshedAfterCommand, Aged, SnapshotAgeBounded
<1>8. QED
  BY <1>1, <1>2, <1>3, <1>4, <1>5, <1>6, <1>7 DEF Handler

(* A snapshot grows older with the time since it was read.                 *)
LEMMA OlderFields ==
  ASSUME NEW snapshot \in Snapshot, NEW ttl \in Nat, snapshot.cached < ttl
  PROVE  /\ Older(snapshot, ttl).ok = snapshot.ok
         /\ Older(snapshot, ttl).after = snapshot.after
         /\ Older(snapshot, ttl).asked = snapshot.asked
         /\ \/ snapshot = NoSnapshot /\ Older(snapshot, ttl) = snapshot
            \/ /\ Older(snapshot, ttl).age = snapshot.age + 1
               /\ Older(snapshot, ttl).cached = snapshot.cached + 1
<1>1. CASE snapshot = NoSnapshot
  BY <1>1 DEF Older
<1>2. CASE snapshot # NoSnapshot
  BY <1>2 DEF Older, Snapshot
<1>3. QED
  BY <1>1, <1>2

(* The clock: what is being collected ages with its collection, the cache  *)
(* with its entry.                                                         *)
LEMMA PagesElapse ==
  ControlTypes /\ Refreshed /\ Aged /\ ControlElapse => (Refreshed /\ Aged)'
<1> SUFFICES ASSUME ControlTypes, Refreshed, Aged, ControlElapse PROVE (Refreshed /\ Aged)'
  OBVIOUS
<1>1. UNCHANGED <<at, told, mu>>
  BY DEF ControlElapse, AuthElapse, control
<1>2. NoSnapshot.ok = FALSE
  BY DEF NoSnapshot
<1>3. \A o \in Operator :
        /\ saw[o] \in Snapshot
        /\ at[o] = "collect" => saw[o].cached < CollectTTL /\ saw'[o] = Older(saw[o], CollectTTL)
        /\ at[o] # "collect" => saw'[o] = saw[o]
  BY DEF ControlElapse, ControlTypes
<1>4. \A o \in Operator :
        saw'[o].ok = saw[o].ok /\ saw'[o].after = saw[o].after /\ saw'[o].asked = saw[o].asked
  BY <1>3, OlderFields, ControlConstants
<1>5. /\ cache'.ok => cache.ok
      /\ cache' # NoSnapshot => cache # NoSnapshot /\ cache'.after = cache.after
      /\ cache'.ok => /\ cache'.age = cache.age + 1 \/ cache'.age = cache.age
                      /\ cache'.age = cache.age + 1 => cache'.cached = cache.cached + 1
                      /\ cache'.age = cache.age => cache'.cached = cache.cached
  <2>1. CASE cache.cached < CacheTTL
    <3>1. cache' = Older(cache, CacheTTL) /\ cache \in Snapshot /\ CacheTTL \in Nat
      BY <2>1, ControlConstants DEF ControlElapse, ControlTypes
    <3>2. cache.age \in Nat /\ cache.cached \in Nat
      BY DEF ControlTypes, Snapshot
    <3>3. QED
      <4>1. CASE cache = NoSnapshot /\ cache' = cache
        BY <1>2, <4>1
      <4>2. CASE cache # NoSnapshot
        BY <2>1, <3>1, <3>2, <4>2, OlderFields
      <4>3. QED
        BY <3>1, <4>1, <4>2 DEF Older
  <2>2. CASE ~(cache.cached < CacheTTL)
    BY <1>2, <2>2 DEF ControlElapse
  <2>3. QED
    BY <2>1, <2>2
<1>6. Refreshed'
  BY <1>1, <1>4, <1>5 DEF Refreshed, RefreshedAfterCommand
<1>7. Aged'
  <2>1. ASSUME NEW o \in Operator, at[o] = "collect"
        PROVE  /\ saw'[o].cached <= CollectTTL
               /\ saw'[o].ok => saw'[o].age <= FileTTL + saw'[o].cached
    <3>1. /\ saw[o] \in Snapshot /\ saw[o].cached < CollectTTL
          /\ saw'[o] = Older(saw[o], CollectTTL)
      BY <1>3, <2>1
    <3>2. saw[o].age \in Nat /\ saw[o].cached \in Nat /\ FileTTL \in Nat /\ CollectTTL \in Nat
      BY <3>1, ControlConstants DEF Snapshot
    <3>3. saw[o].ok => saw[o].age <= FileTTL + saw[o].cached
      BY <2>1 DEF Aged
    <3>4. CASE saw'[o] = saw[o] /\ saw[o] = NoSnapshot
      BY <1>2, <3>1, <3>2, <3>4
    <3>5. CASE saw'[o].age = saw[o].age + 1 /\ saw'[o].cached = saw[o].cached + 1
      BY <1>4, <3>1, <3>2, <3>3, <3>5
    <3>6. QED
      BY <3>1, <3>2, <3>4, <3>5, OlderFields
  <2>2. cache'.ok => cache'.age <= FileTTL + CollectTTL + cache'.cached
    <3>1. /\ cache.age \in Nat /\ cache.cached \in Nat /\ FileTTL \in Nat /\ CollectTTL \in Nat
      BY ControlConstants DEF ControlTypes, Snapshot
    <3>2. QED
      BY <1>5, <3>1 DEF Aged
  <2>3. SnapshotAgeBounded'
    BY <1>1, <1>3 DEF Aged, SnapshotAgeBounded
  <2>4. QED
    BY <1>1, <2>1, <2>2, <2>3 DEF Aged
<1>8. QED
  BY <1>6, <1>7

(* The fleet manager, a deadline, the exporter and the clock.              *)
LEMMA PagesBeyond ==
  ControlTypes /\ Refreshed /\ Aged /\ Beyond => (Refreshed /\ Aged)'
<1> SUFFICES ASSUME ControlTypes, Refreshed, Aged, Beyond PROVE (Refreshed /\ Aged)'
  OBVIOUS
<1>1. ASSUME NEW cmd \in flight, Refuse(cmd) \/ \E reply \in {"ok", "unavailable"} : Apply(cmd, reply)
      PROVE  BesidePages
  BY <1>1 DEF Refuse, Apply, authVars, BesidePages
<1>2. ASSUME NEW i \in broker, BrokerGivesUp(i) PROVE BesidePages
  <2>1. UNCHANGED source
    BY <1>2 DEF BrokerGivesUp
  <2>2. CASE UNCHANGED <<at, req, told>>
    BY <2>1, <2>2 DEF BesidePages
  <2>3. ASSUME NEW o \in Operator, Answer(o, "unavailable"), Done(o) PROVE BesidePages
    <3>1. told' = told /\ at' = [at EXCEPT ![o] = "idle"]
      BY <2>3, DoneClears DEF Answer
    <3>2. QED
      BY <2>1, <3>1 DEF BesidePages, ControlTypes
  <2>4. QED
    BY <1>2, <2>2, <2>3 DEF BrokerGivesUp
<1>3. CASE Export
  BY <1>3 DEF Export, authVars, control, Refreshed, RefreshedAfterCommand, Aged,
              SnapshotAgeBounded
<1>4. QED
  BY <1>1, <1>2, <1>3, PagesKept, PagesElapse DEF Beyond

(* The inductive invariants behind the pages.                              *)
LEMMA AlwaysPages ==
  Spec => [](Refreshed /\ Aged)
<1>1. ControlTypes /\ Refreshed /\ Aged /\ [Next]_consoleVars => (Refreshed /\ Aged)'
  BY Steps, LoginBesidePages, PagesKept, PagesHandler, PagesBeyond
<1>2. QED
  BY <1>1, Types, PagesInit, PTL DEF Spec

(* A page of source.go shows every command that was acknowledged before it *)
(* was asked for: invalidate waits for a collection under way, and a       *)
(* collection holds the lock from its first read on.                       *)
THEOREM PagesAreRefreshed ==
  Spec => []RefreshedAfterCommand
<1>1. Refreshed => RefreshedAfterCommand
  BY DEF Refreshed
<1>2. QED
  BY <1>1, AlwaysPages, PTL

(* The limits of source.go on the file, the collection and the cache add   *)
(* up to the greatest age of what a page shows.                            *)
THEOREM PagesAreRecent ==
  Spec => []SnapshotAgeBounded
<1>1. Aged => SnapshotAgeBounded
  BY DEF Aged
<1>2. QED
  BY <1>1, AlwaysPages, PTL

-----------------------------------------------------------------------------
(* The login attempts.                                                     *)

(* A console just started has counted no attempts.                         *)
LEMMA CountedInit ==
  Init => LoginsCounted
<1> SUFFICES ASSUME Init PROVE LoginsCounted
  OBVIOUS
<1>1. DOMAIN peers = {} /\ peers \in [DOMAIN peers -> AttemptWindow]
  BY DEF Init, AuthInit, Empty, AttemptWindow
<1>2. global.count = 0 /\ global.left = 0 /\ global \in AttemptWindow
  BY DEF Init, AuthInit, AttemptWindow
<1>3. OpenPeers = {}
  BY <1>1 DEF OpenPeers
<1>4. LoginGlobal \in Nat /\ LoginWindow \in Nat /\ 2 * LoginGlobal \in Nat
  BY AuthConstants
<1>5. IsFiniteSet(DOMAIN peers) /\ Cardinality(DOMAIN peers) = 0 /\ Cardinality(OpenPeers) = 0
  BY <1>1, <1>3, FS_EmptySet
<1>6. QED
  BY <1>1, <1>2, <1>4, <1>5 DEF LoginsCounted

(* pruneLocked leaves the peers whose window is open.                      *)
LEMMA PrunedPeers ==
  /\ DOMAIN OpenWindows = OpenPeers
  /\ \A p \in OpenPeers : OpenWindows[p] = peers[p]
  /\ OpenWindows = [p \in OpenPeers |-> peers[p]]
BY DEF OpenWindows, OpenPeers, Restrict

(* The sets of peers are finite, and those of the common window and those  *)
(* from before it are all of them.                                         *)
LEMMA PeersCount ==
  ASSUME LoginsCounted
  PROVE  /\ \A S \in SUBSET (DOMAIN peers) : IsFiniteSet(S) /\ Cardinality(S) \in Nat
         /\ \A S \in SUBSET (DOMAIN peers) : \A T \in SUBSET S : Cardinality(T) <= Cardinality(S)
         /\ Cardinality(DOMAIN peers) <= Cardinality(Recent) + Cardinality(Earlier)
<1>1. \A S \in SUBSET (DOMAIN peers) : IsFiniteSet(S) /\ Cardinality(S) \in Nat
  BY FS_Subset, FS_CardinalityType DEF LoginsCounted
<1>2. \A S \in SUBSET (DOMAIN peers) : \A T \in SUBSET S : Cardinality(T) <= Cardinality(S)
  BY <1>1, FS_Subset
<1>3. Recent \in SUBSET (DOMAIN peers) /\ Earlier \in SUBSET (DOMAIN peers)
  BY DEF Recent, Earlier
<1>4. \A p \in DOMAIN peers : peers[p].left \in Nat /\ global.left \in Nat
  BY DEF LoginsCounted, AttemptWindow
<1>5. DOMAIN peers = Recent \cup Earlier /\ Recent \cap Earlier = {}
  BY <1>4 DEF Recent, Earlier
<1>6. Cardinality(Recent \cup Earlier) =
        Cardinality(Recent) + Cardinality(Earlier) - Cardinality(Recent \cap Earlier)
  BY <1>1, <1>3, FS_Union
<1>7. Cardinality(Recent \cap Earlier) = 0
  BY <1>5, FS_EmptySet
<1>8. Cardinality(DOMAIN peers) = Cardinality(Recent) + Cardinality(Earlier)
  BY <1>1, <1>3, <1>5, <1>6, <1>7
<1>9. QED
  BY <1>1, <1>2, <1>3, <1>8

(* The bound follows: whoever is in the table has made an attempt in the   *)
(* common window or in the one before.                                     *)
LEMMA CountedBounds ==
  LoginsCounted => PeerTableBounded
<1> SUFFICES ASSUME LoginsCounted PROVE Cardinality(DOMAIN peers) <= 2 * LoginGlobal
  BY DEF PeerTableBounded
<1>1. /\ Cardinality(Recent) \in Nat /\ Cardinality(Earlier) \in Nat
      /\ Cardinality(DOMAIN peers) \in Nat
      /\ Cardinality(DOMAIN peers) <= Cardinality(Recent) + Cardinality(Earlier)
  BY PeersCount DEF Recent, Earlier
<1>2. global.left \in Nat /\ global.count \in Nat /\ LoginGlobal \in Nat
  BY AuthConstants DEF LoginsCounted, AttemptWindow
<1>3. CASE global.left > 0
  BY <1>1, <1>2, <1>3 DEF LoginsCounted
<1>4. CASE global.left = 0
  BY <1>4 DEF LoginsCounted
<1>5. QED
  BY <1>2, <1>3, <1>4

(* Pruning keeps the counts.                                               *)
LEMMA CountedPruned ==
  ASSUME LoginsCounted, peers' = OpenWindows, UNCHANGED global
  PROVE  LoginsCounted'
<1>1. /\ DOMAIN peers' = OpenPeers /\ \A p \in OpenPeers : peers'[p] = peers[p]
      /\ peers' = [p \in OpenPeers |-> peers[p]]
  BY PrunedPeers
<1>2. OpenPeers \subseteq DOMAIN peers
  BY DEF OpenPeers
<1>3. Recent' \subseteq Recent /\ Earlier' \subseteq Earlier /\ OpenPeers' \subseteq OpenPeers
  BY <1>1, <1>2 DEF Recent, Earlier, OpenPeers
<1>4. Recent \subseteq DOMAIN peers /\ Earlier \subseteq DOMAIN peers
  BY DEF Recent, Earlier
<1>5. /\ Cardinality(Recent') <= Cardinality(Recent) /\ Cardinality(Earlier') <= Cardinality(Earlier)
      /\ Cardinality(OpenPeers') <= Cardinality(OpenPeers)
      /\ Cardinality(DOMAIN peers') <= Cardinality(DOMAIN peers)
  BY <1>1, <1>2, <1>3, <1>4, PeersCount
<1>6. /\ {Cardinality(Recent), Cardinality(Recent'), Cardinality(Earlier), Cardinality(Earlier'),
          Cardinality(OpenPeers), Cardinality(OpenPeers'),
          Cardinality(DOMAIN peers), Cardinality(DOMAIN peers')} \subseteq Nat
      /\ IsFiniteSet(DOMAIN peers')
  BY <1>1, <1>2, <1>3, <1>4, PeersCount
<1>7. peers' \in [DOMAIN peers' -> AttemptWindow]
  BY <1>1, <1>2 DEF LoginsCounted
<1>8. LoginGlobal \in Nat /\ global.count \in Nat
  BY AuthConstants DEF LoginsCounted, AttemptWindow
<1>9. ASSUME global.left > 0
      PROVE  Cardinality(Recent') <= global.count /\ Cardinality(Earlier') <= LoginGlobal
  BY <1>5, <1>6, <1>8, <1>9 DEF LoginsCounted
<1>10. ASSUME global.left = 0
       PROVE  /\ Cardinality(DOMAIN peers') <= 2 * LoginGlobal
              /\ Cardinality(OpenPeers') <= LoginGlobal
  BY <1>5, <1>6, <1>8, <1>10 DEF LoginsCounted
<1>11. QED
  BY <1>1, <1>2, <1>6, <1>7, <1>9, <1>10 DEF LoginsCounted

(* An attempt that is allowed opens a window for its peer at most, in a    *)
(* common window that is open or opens now.                                *)
LEMMA CountedAttempt ==
  ASSUME LoginsCounted, NEW o \in Operator, NEW p \in Peer, Attempt(o, p)
  PROVE  LoginsCounted'
<1> DEFINE mine == PeerWindow(p)
           common == GlobalWindow
<1>1. /\ {LoginGlobal, LoginWindow} \subseteq Nat \ {0}
      /\ global \in AttemptWindow /\ global.left \in Nat /\ global.count \in Nat
      /\ \A q \in DOMAIN peers : peers[q] \in AttemptWindow /\ peers[q].left \in Nat
  BY AuthConstants DEF LoginsCounted, AttemptWindow
<1>2. NewWindow \in AttemptWindow /\ NewWindow.left = LoginWindow /\ NewWindow.count = 0
  BY <1>1 DEF NewWindow, AttemptWindow
<1>3. /\ common \in AttemptWindow /\ common.count < LoginGlobal
      /\ \/ global.left > 0 /\ common = global
         \/ global.left = 0 /\ common = NewWindow
  BY <1>1, <1>2 DEF Attempt, Allowed, GlobalWindow
<1>4. /\ mine \in AttemptWindow
      /\ \/ p \in OpenPeers /\ mine = peers[p]
         \/ p \notin OpenPeers /\ mine = NewWindow
  BY <1>1, <1>2, PrunedPeers DEF PeerWindow, OpenPeers
<1>5. /\ global' = [common EXCEPT !.count = @ + 1]
      /\ peers' = [q \in OpenPeers \cup {p} |->
                     IF q = p THEN [mine EXCEPT !.count = @ + 1] ELSE peers[q]]
  BY PrunedPeers DEF Attempt
<1> HIDE DEF mine, common
<1>6. /\ global' \in AttemptWindow /\ global'.left = common.left
      /\ global'.count = common.count + 1
  BY <1>3, <1>5 DEF AttemptWindow
<1>7. [mine EXCEPT !.count = @ + 1] \in AttemptWindow
      /\ [mine EXCEPT !.count = @ + 1].left = mine.left
  BY <1>4 DEF AttemptWindow
<1>8. /\ DOMAIN peers' = OpenPeers \cup {p} /\ OpenPeers \subseteq DOMAIN peers
      /\ \A q \in OpenPeers : peers'[q].left = peers[q].left
      /\ peers'[p].left = mine.left
  BY <1>4, <1>5, <1>7 DEF OpenPeers
<1>9. peers' \in [DOMAIN peers' -> AttemptWindow]
  BY <1>1, <1>5, <1>7, <1>8
<1>10. /\ IsFiniteSet(OpenPeers) /\ Cardinality(OpenPeers) \in Nat
       /\ IsFiniteSet(Recent) /\ Cardinality(Recent) \in Nat
       /\ IsFiniteSet(Earlier) /\ Cardinality(Earlier) \in Nat
  BY PeersCount DEF OpenPeers, Recent, Earlier
<1>11. IsFiniteSet(DOMAIN peers')
  BY <1>8, <1>10, FS_AddElement
<1>12. \A q \in DOMAIN peers' : peers'[q].left <= LoginWindow
  BY <1>1, <1>2, <1>4, <1>8 DEF LoginsCounted, OpenPeers
<1>13. common.left > 0 /\ common.left <= LoginWindow /\ common.count \in Nat
  BY <1>1, <1>2, <1>3 DEF LoginsCounted, AttemptWindow
<1>14. Cardinality(Recent') <= common.count + 1 /\ Cardinality(Earlier') <= LoginGlobal
  <2>1. CASE global.left > 0
    <3>1. common = global
      BY <1>3, <2>1
    <3>2. Recent' \subseteq Recent \cup {p}
      BY <1>1, <1>6, <1>8, <3>1 DEF Recent, OpenPeers
    <3>3. Earlier' \subseteq Earlier
      <4> SUFFICES ASSUME NEW q \in Earlier' PROVE q \in Earlier
        OBVIOUS
      <4>1. q \in OpenPeers \cup {p} /\ peers'[q].left < global.left
        BY <1>6, <1>8, <3>1 DEF Earlier
      <4>2. CASE q \in OpenPeers
        BY <1>8, <4>1, <4>2 DEF Earlier
      <4>3. CASE q = p /\ p \notin OpenPeers
        BY <1>1, <1>2, <1>4, <1>8, <4>1, <4>3 DEF LoginsCounted
      <4>4. QED
        BY <4>1, <4>2, <4>3
    <3>4. IsFiniteSet(Recent \cup {p}) /\ Cardinality(Recent \cup {p}) <= Cardinality(Recent) + 1
      <4>1. /\ IsFiniteSet(Recent \cup {p})
            /\ Cardinality(Recent \cup {p}) = IF p \in Recent THEN Cardinality(Recent)
                                              ELSE Cardinality(Recent) + 1
        BY <1>10, FS_AddElement
      <4>2. QED
        BY <1>10, <4>1
    <3>5. /\ Cardinality(Recent') <= Cardinality(Recent \cup {p})
          /\ Cardinality(Recent') \in Nat /\ Cardinality(Recent \cup {p}) \in Nat
          /\ Cardinality(Earlier') <= Cardinality(Earlier) /\ Cardinality(Earlier') \in Nat
      <4>1. Cardinality(Recent') <= Cardinality(Recent \cup {p}) /\ IsFiniteSet(Recent')
        BY <3>2, <3>4, FS_Subset
      <4>2. Cardinality(Earlier') <= Cardinality(Earlier) /\ IsFiniteSet(Earlier')
        BY <1>10, <3>3, FS_Subset
      <4>3. QED
        BY <3>4, <4>1, <4>2, FS_CardinalityType
    <3>6. Cardinality(Recent) <= global.count /\ Cardinality(Earlier) <= LoginGlobal
      BY <2>1 DEF LoginsCounted
    <3>7. QED
      BY <1>1, <1>10, <3>1, <3>4, <3>5, <3>6
  <2>2. CASE global.left = 0
    <3>1. common.left = LoginWindow /\ common.count = 0
      BY <1>1, <1>2, <1>3, <2>2
    <3>2. /\ Cardinality(OpenPeers) <= LoginGlobal
          /\ \A q \in OpenPeers : peers[q].left < LoginWindow
      BY <2>2 DEF LoginsCounted, OpenPeers
    <3>3. Recent' \subseteq {p}
      BY <1>1, <1>6, <1>8, <3>1, <3>2 DEF Recent, OpenPeers
    <3>4. Earlier' \subseteq OpenPeers
      BY <1>1, <1>2, <1>4, <1>6, <1>8, <3>1 DEF Earlier
    <3>5. IsFiniteSet({p}) /\ Cardinality({p}) = 1
      BY FS_Singleton
    <3>6. /\ Cardinality(Recent') <= 1 /\ Cardinality(Earlier') <= Cardinality(OpenPeers)
          /\ Cardinality(Earlier') \in Nat
      BY <1>10, <3>3, <3>4, <3>5, FS_Subset, FS_CardinalityType
    <3>7. QED
      BY <1>1, <1>10, <3>1, <3>2, <3>6
  <2>3. QED
    BY <1>1, <2>1, <2>2
<1>15. global'.left > 0 /\ global'.left # 0
  BY <1>6, <1>13
<1>16. global'.count <= LoginGlobal
  BY <1>1, <1>3, <1>6, <1>13
<1>17. QED
  BY <1>6, <1>9, <1>11, <1>12, <1>13, <1>14, <1>15, <1>16 DEF LoginsCounted

(* Time closes the windows of the peers and the common one; those that     *)
(* were counted in the common window are counted until it closes.          *)
LEMMA CountedElapse ==
  ASSUME LoginsCounted, AuthElapse
  PROVE  LoginsCounted'
<1>1. /\ {LoginGlobal, LoginWindow} \subseteq Nat \ {0}
      /\ global \in AttemptWindow /\ global.left \in Nat /\ global.count \in Nat
      /\ \A p \in DOMAIN peers : peers[p] \in AttemptWindow /\ peers[p].left \in Nat
  BY AuthConstants DEF LoginsCounted, AttemptWindow
<1>2. /\ global' \in AttemptWindow /\ global'.count = global.count
      /\ global'.left = Less(global.left)
  BY <1>1 DEF AuthElapse, Less, AttemptWindow
<1>3. /\ DOMAIN peers' = DOMAIN peers /\ peers' \in [DOMAIN peers' -> AttemptWindow]
      /\ \A p \in DOMAIN peers : peers'[p].left = Less(peers[p].left)
  <2>1. ASSUME NEW p \in DOMAIN peers
        PROVE  /\ [peers[p] EXCEPT !.left = Less(@)] \in AttemptWindow
               /\ [peers[p] EXCEPT !.left = Less(@)].left = Less(peers[p].left)
    BY <1>1 DEF Less, AttemptWindow
  <2>2. peers' = [p \in DOMAIN peers |-> [peers[p] EXCEPT !.left = Less(@)]]
    BY DEF AuthElapse
  <2>3. QED
    BY <2>1, <2>2
<1>4. \A p \in DOMAIN peers : peers'[p].left <= LoginWindow
  BY <1>1, <1>3 DEF LoginsCounted, Less
<1>5. global'.left <= LoginWindow /\ global'.count <= LoginGlobal
  BY <1>1, <1>2 DEF LoginsCounted, Less
<1>6. ASSUME global'.left > 0
      PROVE  Cardinality(Recent') <= global'.count /\ Cardinality(Earlier') <= LoginGlobal
  <2>1. global.left > 0 /\ global'.left = global.left - 1
    BY <1>1, <1>2, <1>6 DEF Less
  <2>2. \A p \in DOMAIN peers : peers'[p].left < global'.left <=> peers[p].left < global.left
    BY <1>1, <1>3, <1>6, <2>1 DEF Less
  <2>3. \A p \in DOMAIN peers : peers'[p].left >= global'.left <=> peers[p].left >= global.left
    BY <1>1, <1>3, <1>6, <2>1 DEF Less
  <2>4. Recent' = Recent /\ Earlier' = Earlier
    BY <1>3, <2>2, <2>3 DEF Recent, Earlier
  <2>5. QED
    BY <1>2, <2>1, <2>4 DEF LoginsCounted
<1>7. ASSUME global'.left = 0
      PROVE  /\ Cardinality(DOMAIN peers') <= 2 * LoginGlobal
             /\ Cardinality(OpenPeers') <= LoginGlobal
             /\ \A p \in DOMAIN peers' : peers'[p].left < LoginWindow
  <2>1. Cardinality(DOMAIN peers') <= 2 * LoginGlobal
    BY <1>3, CountedBounds DEF PeerTableBounded
  <2>2. \A p \in DOMAIN peers' : peers'[p].left < LoginWindow
    BY <1>1, <1>3 DEF LoginsCounted, Less
  <2>3. \A p \in DOMAIN peers : peers'[p].left > 0 => peers[p].left > 1
    BY <1>1, <1>3 DEF Less
  <2>4. CASE global.left = 0
    <3>1. OpenPeers' \subseteq OpenPeers
      BY <1>1, <1>3, <2>3 DEF OpenPeers
    <3>2. IsFiniteSet(OpenPeers) /\ Cardinality(OpenPeers) \in Nat
      BY PeersCount DEF OpenPeers
    <3>3. Cardinality(OpenPeers') <= Cardinality(OpenPeers) /\ Cardinality(OpenPeers') \in Nat
      BY <3>1, <3>2, FS_Subset, FS_CardinalityType
    <3>4. Cardinality(OpenPeers) <= LoginGlobal
      BY <2>4 DEF LoginsCounted
    <3>5. QED
      BY <1>1, <2>1, <2>2, <3>2, <3>3, <3>4
  <2>5. CASE global.left > 0
    <3>1. global.left = 1
      BY <1>1, <1>2, <1>7, <2>5 DEF Less
    <3>2. OpenPeers' \subseteq Recent
      BY <1>1, <1>3, <2>3, <3>1 DEF OpenPeers, Recent
    <3>3. IsFiniteSet(Recent) /\ Cardinality(Recent) \in Nat
      BY PeersCount DEF Recent
    <3>4. Cardinality(OpenPeers') <= Cardinality(Recent) /\ Cardinality(OpenPeers') \in Nat
      BY <3>2, <3>3, FS_Subset, FS_CardinalityType
    <3>5. Cardinality(Recent) <= global.count /\ global.count <= LoginGlobal
      BY <2>5 DEF LoginsCounted
    <3>6. QED
      BY <1>1, <2>1, <2>2, <3>3, <3>4, <3>5
  <2>6. QED
    BY <1>1, <2>4, <2>5
<1>8. IsFiniteSet(DOMAIN peers')
  BY <1>3 DEF LoginsCounted
<1>9. QED
  BY <1>2, <1>3, <1>4, <1>5, <1>6, <1>7, <1>8 DEF LoginsCounted

(* The tables of the console change only in its login and session          *)
(* handlers, by its ticker and with time.                                  *)
TableStep ==
  \/ \E o \in Operator, p \in Peer : Attempt(o, p) \/ RateLimited(o, p)
  \/ \E o \in Operator : Unauthenticated(o) \/ Logout(o) \/ AuthStep(o)
  \/ ExpireSessions \/ AuthElapse
OtherStep ==
  /\ UNCHANGED <<sessions, peers, global, cookies>>
  /\ asked' = asked \/ (asked < MaxRequests /\ asked' = asked + 1)
  /\ UNCHANGED at \/ \E o \in Operator, w \in Places \ {"slot", "verify"} :
                        at[o] \notin {"slot", "verify"} /\ at' = [at EXCEPT ![o] = w]

(* Commands and snapshots of control.go and source.go leave them alone.    *)
LEMMA TableSteps ==
  ASSUME ControlTypes, [Next]_consoleVars
  PROVE  TableStep \/ OtherStep
<1> USE DEF tables, authVars
<1>1. CASE UNCHANGED consoleVars
  BY <1>1 DEF consoleVars, OtherStep
<1>2. ASSUME NEW o \in Operator, Authenticate(o) PROVE TableStep
  BY <1>2 DEF Authenticate, AuthRequest, TableStep
<1>3. ASSUME NEW o \in Operator, Ask(o) PROVE OtherStep
  <2>1. /\ UNCHANGED <<sessions, peers, global, cookies>>
        /\ at[o] = "idle" /\ asked < MaxRequests /\ asked' = asked + 1
        /\ at' = [at EXCEPT ![o] = "send"] \/ at' = [at EXCEPT ![o] = "lock"]
    BY <1>3 DEF Ask, Submit, AskSnapshot, Call, Begin, Goto
  <2>2. QED
    BY <2>1 DEF OtherStep, Places
<1>4. ASSUME NEW o \in Operator, Work(o) PROVE OtherStep
  <2>1. UNCHANGED <<sessions, peers, global, cookies, asked>>
    BY <1>4 DEF Work, Enter, NotSent, Reply, ClientGivesUp, Invalidate, ServeCached, Collect,
                Collected, Served
  <2>2. at[o] \in {"send", "wait", "invalidate", "lock", "collect", "served"}
    BY <1>4 DEF Work, Enter, NotSent, Reply, ClientGivesUp, Invalidate, ServeCached, Collect,
                Collected, Served
  <2>3. \E w \in Places \ {"slot", "verify"} : at' = [at EXCEPT ![o] = w]
    BY <1>4 DEF Work, Enter, NotSent, Reply, ClientGivesUp, Invalidate, ServeCached, Collect,
                Collected, Served, Done, Goto, Places, LoginPlaces
  <2>4. QED
    BY <2>1, <2>2, <2>3 DEF OtherStep
<1>5. CASE Deadline
  <2>1. PICK i \in broker : BrokerGivesUp(i)
    BY <1>5 DEF Deadline
  <2>2. CASE UNCHANGED <<at, req, told>>
    BY <2>1, <2>2 DEF BrokerGivesUp, OtherStep
  <2>3. ASSUME NEW o \in Operator, at[o] = "wait", Done(o) PROVE OtherStep
    <3>1. at' = [at EXCEPT ![o] = "idle"] /\ "idle" \in Places \ {"slot", "verify"}
      BY <2>3 DEF Done, Goto, Places, LoginPlaces
    <3>2. UNCHANGED <<sessions, peers, global, cookies, asked>>
      BY <2>1 DEF BrokerGivesUp
    <3>3. QED
      BY <2>3, <3>1, <3>2 DEF OtherStep
  <2>4. QED
    BY <2>1, <2>2, <2>3 DEF BrokerGivesUp
<1>6. CASE Manage
  BY <1>6 DEF Manage, Apply, Refuse, OtherStep
<1>7. CASE Export
  BY <1>7 DEF Export, OtherStep
<1>8. CASE AuthTicker \/ ControlElapse
  BY <1>8 DEF AuthTicker, ControlElapse, TableStep
<1>9. QED
  BY <1>1, <1>2, <1>3, <1>4, <1>5, <1>6, <1>7, <1>8 DEF Next

(* Every step keeps the counts of the attempts.                            *)
LEMMA CountedStep ==
  ControlTypes /\ LoginsCounted /\ [Next]_consoleVars => LoginsCounted'
<1> SUFFICES ASSUME ControlTypes, LoginsCounted, [Next]_consoleVars PROVE LoginsCounted'
  OBVIOUS
<1>1. ASSUME UNCHANGED <<peers, global>> PROVE LoginsCounted'
  BY <1>1 DEF LoginsCounted, Recent, Earlier, OpenPeers
<1>2. CASE OtherStep
  BY <1>1, <1>2 DEF OtherStep
<1>3. ASSUME NEW o \in Operator, NEW p \in Peer, RateLimited(o, p) PROVE LoginsCounted'
  BY <1>3, CountedPruned DEF RateLimited
<1>4. ASSUME NEW o \in Operator, Unauthenticated(o) \/ Logout(o) PROVE LoginsCounted'
  BY <1>1, <1>4 DEF Unauthenticated, Logout
<1>5. ASSUME NEW o \in Operator, AuthStep(o) PROVE LoginsCounted'
  <2>1. CASE TakeSlot(o) \/ WrongPassword(o)
    BY <1>1, <2>1 DEF TakeSlot, WrongPassword, tables
  <2>2. CASE Login(o)
    BY <2>2, CountedPruned DEF Login
  <2>3. QED
    BY <1>5, <2>1, <2>2 DEF AuthStep
<1>6. CASE ExpireSessions
  BY <1>6, CountedPruned DEF ExpireSessions
<1>7. QED
  BY <1>2, <1>3, <1>4, <1>5, <1>6, CountedAttempt, CountedElapse, TableSteps DEF TableStep

(* Because the common window lets LoginGlobal attempts pass, the table of  *)
(* login peers in auth.go never holds more than two windows' worth.        *)
THEOREM PeersAreBounded ==
  Spec => []PeerTableBounded
<1>1. Spec => []LoginsCounted
  BY CountedInit, CountedStep, Types, PTL DEF Spec
<1>2. QED
  BY <1>1, CountedBounds, PTL

-----------------------------------------------------------------------------
(* The sessions.                                                           *)

(* The tokens are finitely many, one more than there can be requests.      *)
LEMMA IdsCount ==
  /\ IsFiniteSet(Ids) /\ Cardinality(Ids) = MaxRequests + 1
  /\ MaxRequests \in Nat /\ MaxSessions \in Nat /\ MaxSessions >= 1 /\ SessionTTL \in Nat
<1>1. {MaxRequests, MaxSessions, SessionTTL} \subseteq Nat \ {0}
  BY AuthConstants
<1>2. MaxRequests + 1 \in Nat
  BY <1>1
<1>3. IsFiniteSet(1..(MaxRequests + 1)) /\ Cardinality(1..(MaxRequests + 1)) = MaxRequests + 1
  BY <1>1, <1>2, FS_Interval
<1>4. QED
  BY <1>1, <1>3 DEF Ids

(* The sizes are those of finite sets.                                     *)
LEMMA HeldCount ==
  ASSUME SessionsHeld
  PROVE  /\ IsFiniteSet(Held) /\ Cardinality(Held) \in Nat
         /\ IsFiniteSet(DOMAIN sessions) /\ Cardinality(DOMAIN sessions) \in Nat
         /\ IsFiniteSet(LoggingIn) /\ Cardinality(LoggingIn) \in Nat
<1>1. IsFiniteSet(Held)
  BY IdsCount, FS_Subset DEF SessionsHeld
<1>2. DOMAIN sessions \subseteq Held
  BY DEF Held
<1>3. IsFiniteSet(DOMAIN sessions)
  BY <1>1, <1>2, FS_Subset
<1>4. QED
  BY <1>1, <1>3, FS_CardinalityType DEF SessionsHeld

(* A console just started holds one session at most.                       *)
LEMMA SessionsInit ==
  Init => SessionsHeld
<1> SUFFICES ASSUME Init PROVE SessionsHeld
  OBVIOUS
<1>1. /\ cookies = {} \/ cookies = {1}
      /\ sessions = [s \in cookies |-> SessionTTL] /\ asked = 0
  BY DEF Init, AuthInit
<1>2. LoggingIn = {}
  BY DEF Init, AuthInit, LoggingIn
<1>3. DOMAIN sessions = cookies /\ Held = cookies
  BY <1>1 DEF Held
<1>4. sessions \in [DOMAIN sessions -> Nat]
  BY <1>1, IdsCount
<1>5. cookies \subseteq Ids
  BY <1>1, IdsCount DEF Ids
<1>6. Cardinality(cookies) <= 1 /\ Cardinality(cookies) \in Nat
  BY <1>1, FS_EmptySet, FS_Singleton
<1>7. IsFiniteSet(LoggingIn) /\ Cardinality(LoggingIn) = 0
  BY <1>2, FS_EmptySet
<1>8. asked \in 0..MaxRequests
  BY <1>1, IdsCount
<1>9. Cardinality(DOMAIN sessions) <= MaxSessions
  BY <1>3, <1>6, IdsCount
<1>10. Cardinality(Held) + Cardinality(LoggingIn) <= asked + 1
  BY <1>1, <1>3, <1>6, <1>7
<1>11. QED
  BY <1>3, <1>4, <1>5, <1>7, <1>8, <1>9, <1>10 DEF SessionsHeld

(* A step that hands out no token.                                         *)
LEMMA SessionsShrink ==
  ASSUME SessionsHeld,
         DOMAIN sessions' \subseteq DOMAIN sessions, cookies' \subseteq cookies,
         sessions' \in [DOMAIN sessions' -> Nat],
         \/ asked' = asked /\ LoggingIn' \subseteq LoggingIn
         \/ /\ asked < MaxRequests /\ asked' = asked + 1
            /\ LoggingIn' = LoggingIn \/ \E o \in Operator : LoggingIn' = LoggingIn \cup {o}
  PROVE  SessionsHeld'
<1>1. /\ Held' \subseteq Held /\ Held \subseteq Ids
      /\ asked \in Nat /\ asked <= MaxRequests /\ MaxRequests \in Nat /\ MaxSessions \in Nat
      /\ Cardinality(Held) + Cardinality(LoggingIn) <= asked + 1
      /\ Cardinality(DOMAIN sessions) <= MaxSessions
  BY IdsCount DEF SessionsHeld, Held
<1>2. /\ Cardinality(Held) \in Nat /\ Cardinality(DOMAIN sessions) \in Nat
      /\ Cardinality(LoggingIn) \in Nat /\ IsFiniteSet(LoggingIn)
      /\ IsFiniteSet(Held) /\ IsFiniteSet(DOMAIN sessions)
  BY HeldCount
<1>3. IsFiniteSet(Held') /\ Cardinality(Held') \in Nat /\ Cardinality(Held') <= Cardinality(Held)
  BY <1>1, <1>2, FS_Subset, FS_CardinalityType
<1>4. Cardinality(DOMAIN sessions') \in Nat /\ Cardinality(DOMAIN sessions') <= MaxSessions
  <2>1. /\ IsFiniteSet(DOMAIN sessions')
        /\ Cardinality(DOMAIN sessions') <= Cardinality(DOMAIN sessions)
    BY <1>2, FS_Subset
  <2>2. Cardinality(DOMAIN sessions') \in Nat
    BY <2>1, FS_CardinalityType
  <2>3. QED
    BY <1>1, <1>2, <2>1, <2>2
<1>5. /\ asked' \in 0..MaxRequests /\ IsFiniteSet(LoggingIn')
      /\ Cardinality(LoggingIn') + asked <= Cardinality(LoggingIn) + asked'
  <2>1. CASE asked' = asked /\ LoggingIn' \subseteq LoggingIn
    <3>1. IsFiniteSet(LoggingIn') /\ Cardinality(LoggingIn') <= Cardinality(LoggingIn)
      BY <1>2, <2>1, FS_Subset
    <3>2. Cardinality(LoggingIn') \in Nat
      BY <3>1, FS_CardinalityType
    <3>3. QED
      BY <1>1, <1>2, <2>1, <3>1, <3>2
  <2>2. CASE asked < MaxRequests /\ asked' = asked + 1 /\ LoggingIn' = LoggingIn
    BY <1>1, <1>2, <2>2
  <2>3. ASSUME NEW o \in Operator, asked < MaxRequests, asked' = asked + 1,
               LoggingIn' = LoggingIn \cup {o}
        PROVE  /\ asked' \in 0..MaxRequests /\ IsFiniteSet(LoggingIn')
               /\ Cardinality(LoggingIn') + asked <= Cardinality(LoggingIn) + asked'
    <3>1. /\ IsFiniteSet(LoggingIn \cup {o})
          /\ Cardinality(LoggingIn \cup {o}) = IF o \in LoggingIn THEN Cardinality(LoggingIn)
                                               ELSE Cardinality(LoggingIn) + 1
      BY <1>2, FS_AddElement
    <3>2. QED
      BY <1>1, <1>2, <2>3, <3>1
  <2>4. QED
    BY <2>1, <2>2, <2>3
<1>6. Cardinality(LoggingIn') \in Nat
  BY <1>5, FS_CardinalityType
<1>7. Cardinality(Held') + Cardinality(LoggingIn') <= asked' + 1
  BY <1>1, <1>2, <1>3, <1>5, <1>6
<1>8. Held' \subseteq Ids
  BY <1>1 DEF Ids
<1>9. QED
  BY <1>4, <1>5, <1>7, <1>8 DEF SessionsHeld, Ids

(* createSession always finds a token that nobody holds.                   *)
LEMMA NewToken ==
  ASSUME SessionsHeld, LoggingIn # {},
         NEW token, token = CHOOSE s \in Ids : s \notin Held
  PROVE  token \in Ids /\ token \notin Held
<1>1. PICK o \in LoggingIn : TRUE
  OBVIOUS
<1>2. Cardinality(LoggingIn) # 0
  BY <1>1, HeldCount, FS_EmptySet
<1>3. Cardinality(Held) < Cardinality(Ids)
  BY <1>2, HeldCount, IdsCount DEF SessionsHeld
<1>4. Held # Ids
  BY <1>3, HeldCount
<1>5. \E s \in Ids : s \notin Held
  BY <1>4 DEF SessionsHeld
<1>6. QED
  BY <1>5, Zenon

(* A table without its expired sessions or without one of them.            *)
LEMMA RestrictedSessions ==
  ASSUME NEW table, NEW s
  PROVE  /\ DOMAIN Without(table, s) = DOMAIN table \ {s}
         /\ \A t \in DOMAIN table \ {s} : Without(table, s)[t] = table[t]
BY DEF Without, Restrict

(* pruneLocked drops sessions whose time is up, and no other.              *)
LEMMA OpenOnes ==
  /\ DOMAIN OpenSessions = {s \in DOMAIN sessions : sessions[s] > 0}
  /\ \A s \in DOMAIN OpenSessions : OpenSessions[s] = sessions[s]
  /\ sessions \in [DOMAIN sessions -> Nat] => OpenSessions \in [DOMAIN OpenSessions -> Nat]
BY DEF OpenSessions, Restrict

(* The step of a login: the session the browser had is replaced, and room  *)
(* is made in a table that is full.                                        *)
Replaces(old, token, drop) ==
  /\ old \in cookies \cup {0} /\ token \in Ids /\ token \notin Held
  /\ DOMAIN sessions' = ({s \in DOMAIN sessions : sessions[s] > 0 /\ s # old} \ drop) \cup {token}
  /\ \A s \in DOMAIN sessions' : sessions'[s] = IF s = token THEN SessionTTL ELSE sessions[s]
  /\ cookies' = (cookies \ {old}) \cup {token}
  /\ \/ /\ drop = {}
        /\ Cardinality({s \in DOMAIN sessions : sessions[s] > 0 /\ s # old}) < MaxSessions
     \/ /\ \E s \in DOMAIN sessions :
             /\ drop = {s} /\ sessions[s] > 0 /\ s # old
             /\ \A t \in DOMAIN sessions : sessions[t] > 0 /\ t # old => sessions[s] <= sessions[t]
        /\ ~(Cardinality({s \in DOMAIN sessions : sessions[s] > 0 /\ s # old}) < MaxSessions)

(* createSession as called by login does that.                             *)
LEMMA LoginReplaces ==
  ASSUME SessionsHeld, NEW o \in Operator, Login(o)
  PROVE  /\ at[o] = "verify" /\ at' = [at EXCEPT ![o] = "idle"] /\ asked' = asked
         /\ sessions' \in [DOMAIN sessions' -> Nat]
         /\ \E old, token, drop : Replaces(old, token, drop)
<1>1. at[o] = "verify" /\ at' = [at EXCEPT ![o] = "idle"] /\ asked' = asked
  BY DEF Login, Goto
<1>2. LoggingIn # {}
  BY <1>1 DEF LoggingIn
<1> DEFINE token == CHOOSE s \in Ids : s \notin Held
<1>3. token \in Ids /\ token \notin Held
  BY <1>2, NewToken
<1>4. token = CHOOSE s \in Ids : s \notin DOMAIN sessions \cup cookies
  BY DEF Held
<1> HIDE DEF token
<1> DEFINE Kept(old) == Without(OpenSessions, old)
<1>5. PICK old \in cookies \cup {0} : \E drop \in Room(Kept(old)) :
        /\ sessions' = [s \in (DOMAIN Kept(old) \ drop) \cup {token} |->
                          IF s = token THEN SessionTTL ELSE sessions[s]]
        /\ cookies' = (cookies \ {old}) \cup {token}
  BY <1>4 DEF Login
<1> DEFINE kept == Kept(old)
<1>6. PICK drop \in Room(kept) :
        /\ sessions' = [s \in (DOMAIN kept \ drop) \cup {token} |->
                          IF s = token THEN SessionTTL ELSE sessions[s]]
        /\ cookies' = (cookies \ {old}) \cup {token}
  BY <1>5
<1>7. /\ DOMAIN kept = {s \in DOMAIN sessions : sessions[s] > 0 /\ s # old}
      /\ \A s \in DOMAIN kept : kept[s] = sessions[s]
  <2>1. /\ DOMAIN kept = DOMAIN OpenSessions \ {old}
        /\ \A s \in DOMAIN OpenSessions \ {old} : kept[s] = OpenSessions[s]
    BY RestrictedSessions
  <2> HIDE DEF kept, Kept
  <2>2. QED
    BY <2>1, OpenOnes
<1> HIDE DEF kept, Kept
<1>8. /\ DOMAIN sessions' = (DOMAIN kept \ drop) \cup {token}
      /\ \A s \in DOMAIN sessions' : sessions'[s] = IF s = token THEN SessionTTL ELSE sessions[s]
  BY <1>6
<1>9. \/ drop = {} /\ Cardinality(DOMAIN kept) < MaxSessions
      \/ /\ \E s \in DOMAIN kept : drop = {s} /\ \A t \in DOMAIN kept : kept[s] <= kept[t]
         /\ ~(Cardinality(DOMAIN kept) < MaxSessions)
  BY DEF Room, Evicted
<1>10. \/ drop = {} /\ Cardinality(DOMAIN kept) < MaxSessions
       \/ /\ \E s \in DOMAIN sessions :
               /\ drop = {s} /\ sessions[s] > 0 /\ s # old
               /\ \A t \in DOMAIN sessions :
                    sessions[t] > 0 /\ t # old => sessions[s] <= sessions[t]
          /\ ~(Cardinality(DOMAIN kept) < MaxSessions)
  BY <1>7, <1>9
<1>11. Replaces(old, token, drop)
  BY <1>3, <1>6, <1>7, <1>8, <1>10 DEF Replaces
<1>12. sessions' \in [DOMAIN sessions' -> Nat]
  BY <1>6, <1>7, <1>8, IdsCount DEF SessionsHeld
<1>13. QED
  BY <1>1, <1>11, <1>12

(* A login hands out a token that nobody holds and that it had a request   *)
(* for.                                                                    *)
LEMMA SessionsLogin ==
  ASSUME ControlTypes, SessionsHeld, NEW o \in Operator, Login(o)
  PROVE  SessionsHeld'
<1>1. /\ at[o] = "verify" /\ at' = [at EXCEPT ![o] = "idle"] /\ asked' = asked
      /\ sessions' \in [DOMAIN sessions' -> Nat]
  BY LoginReplaces
<1>2. PICK old, token, drop : Replaces(old, token, drop)
  BY LoginReplaces
<1>3. /\ o \in LoggingIn /\ LoggingIn' = LoggingIn \ {o}
  BY <1>1 DEF LoggingIn, ControlTypes
<1>4. /\ IsFiniteSet(LoggingIn')
      /\ Cardinality(LoggingIn') = Cardinality(LoggingIn) - 1
  BY <1>3, HeldCount, FS_RemoveElement
<1>5. Held' \subseteq Held \cup {token} /\ token \in Ids /\ token \notin Held
  BY <1>2 DEF Replaces, Held
<1>6. /\ IsFiniteSet(Held \cup {token})
      /\ Cardinality(Held \cup {token}) = Cardinality(Held) + 1
  BY <1>5, HeldCount, FS_AddElement
<1>7. Cardinality(Held') <= Cardinality(Held) + 1 /\ Cardinality(Held') \in Nat
  <2>1. IsFiniteSet(Held') /\ Cardinality(Held') <= Cardinality(Held \cup {token})
    BY <1>5, <1>6, FS_Subset
  <2>2. QED
    BY <1>6, <2>1, FS_CardinalityType
<1>8. Cardinality(Held') + Cardinality(LoggingIn') <= asked' + 1
  <2>1. Cardinality(Held) + Cardinality(LoggingIn) <= asked + 1 /\ asked \in Nat
    BY IdsCount DEF SessionsHeld
  <2>2. QED
    BY <1>1, <1>4, <1>7, <2>1, HeldCount
<1>9. Cardinality(DOMAIN sessions') <= MaxSessions
  <2> DEFINE kept == {s \in DOMAIN sessions : sessions[s] > 0 /\ s # old}
             left == kept \ drop
  <2>1. kept \subseteq DOMAIN sessions
    OBVIOUS
  <2>2. /\ DOMAIN sessions' = left \cup {token} /\ token \notin DOMAIN sessions
        /\ \/ drop = {} /\ Cardinality(kept) < MaxSessions
           \/ /\ \E s \in kept : drop = {s}
              /\ ~(Cardinality(kept) < MaxSessions)
    BY <1>2 DEF Replaces, Held
  <2> HIDE DEF kept
  <2>3. /\ IsFiniteSet(kept) /\ Cardinality(kept) \in Nat
        /\ Cardinality(kept) <= Cardinality(DOMAIN sessions)
    BY <2>1, HeldCount, FS_Subset, FS_CardinalityType
  <2>4. Cardinality(DOMAIN sessions) <= MaxSessions /\ Cardinality(DOMAIN sessions) \in Nat
    BY HeldCount DEF SessionsHeld
  <2>5. /\ IsFiniteSet(left) /\ Cardinality(left) \in Nat /\ Cardinality(left) + 1 <= MaxSessions
    <3>1. CASE drop = {} /\ Cardinality(kept) < MaxSessions
      <4>1. left = kept
        BY <3>1
      <4>2. QED
        BY <2>3, <3>1, <4>1, IdsCount
    <3>2. ASSUME NEW s \in kept, drop = {s}
          PROVE  /\ IsFiniteSet(left) /\ Cardinality(left) \in Nat
                 /\ Cardinality(left) + 1 <= MaxSessions
      <4>1. left = kept \ {s}
        BY <3>2
      <4>2. IsFiniteSet(left) /\ Cardinality(left) = Cardinality(kept) - 1
        BY <2>3, <4>1, FS_RemoveElement
      <4>3. Cardinality(left) \in Nat
        BY <4>2, FS_CardinalityType
      <4>4. QED
        BY <2>3, <2>4, <4>2, <4>3, IdsCount
    <3>3. QED
      BY <2>2, <3>1, <3>2
  <2> HIDE DEF left
  <2>6. token \notin left
    BY <2>1, <2>2 DEF left
  <2>7. Cardinality(left \cup {token}) = Cardinality(left) + 1
    BY <2>5, <2>6, FS_AddElement
  <2>8. QED
    BY <2>2, <2>5, <2>7
<1>10. Held' \subseteq Ids
  BY <1>5 DEF SessionsHeld
<1>11. asked' \in 0..MaxRequests
  BY <1>1 DEF SessionsHeld
<1>12. QED
  BY <1>1, <1>4, <1>8, <1>9, <1>10, <1>11 DEF SessionsHeld, Ids

(* Every step keeps the tables of sessions and tokens in bounds.           *)
LEMMA SessionsStep ==
  ControlTypes /\ SessionsHeld /\ [Next]_consoleVars => SessionsHeld'
<1> SUFFICES ASSUME ControlTypes, SessionsHeld, [Next]_consoleVars PROVE SessionsHeld'
  OBVIOUS
<1>1. /\ DOMAIN OpenSessions \subseteq DOMAIN sessions
      /\ OpenSessions \in [DOMAIN OpenSessions -> Nat]
  BY OpenOnes DEF SessionsHeld
<1>2. \A s : /\ DOMAIN Without(sessions, s) \subseteq DOMAIN sessions
             /\ Without(sessions, s) \in [DOMAIN Without(sessions, s) -> Nat]
  BY DEF Without, Restrict, SessionsHeld
<1>3. CASE OtherStep
  <2>1. UNCHANGED sessions /\ UNCHANGED cookies
    BY <1>3 DEF OtherStep
  <2>2. LoggingIn' = LoggingIn
    BY <1>3 DEF OtherStep, LoggingIn, ControlTypes
  <2>3. asked' = asked \/ (asked < MaxRequests /\ asked' = asked + 1)
    BY <1>3 DEF OtherStep
  <2>4. QED
    BY <2>1, <2>2, <2>3, SessionsShrink DEF SessionsHeld
<1>4. ASSUME NEW o \in Operator, NEW p \in Peer, Attempt(o, p) PROVE SessionsHeld'
  <2>1. /\ sessions' = OpenSessions /\ cookies' = cookies
        /\ asked < MaxRequests /\ asked' = asked + 1 /\ at' = [at EXCEPT ![o] = "slot"]
    BY <1>4 DEF Attempt, Begin, Goto
  <2>2. LoggingIn' = LoggingIn \cup {o}
    BY <2>1 DEF LoggingIn, ControlTypes
  <2>3. QED
    BY <1>1, <2>1, <2>2, SessionsShrink
<1>5. ASSUME NEW o \in Operator, NEW p \in Peer, RateLimited(o, p) PROVE SessionsHeld'
  <2>1. /\ sessions' = OpenSessions /\ cookies' = cookies
        /\ asked < MaxRequests /\ asked' = asked + 1 /\ UNCHANGED at
    BY <1>5 DEF RateLimited, Begin
  <2>2. LoggingIn' = LoggingIn
    BY <2>1 DEF LoggingIn
  <2>3. QED
    BY <1>1, <2>1, <2>2, SessionsShrink
<1>6. ASSUME NEW o \in Operator, Unauthenticated(o) \/ Logout(o) PROVE SessionsHeld'
  <2>1. /\ cookies' \subseteq cookies /\ asked < MaxRequests /\ asked' = asked + 1 /\ UNCHANGED at
        /\ \E s : sessions' = Without(sessions, s)
    BY <1>6 DEF Unauthenticated, Logout, Begin
  <2>2. LoggingIn' = LoggingIn
    BY <2>1 DEF LoggingIn
  <2>3. DOMAIN sessions' \subseteq DOMAIN sessions /\ sessions' \in [DOMAIN sessions' -> Nat]
    BY <1>2, <2>1
  <2>4. QED
    BY <2>1, <2>2, <2>3, SessionsShrink
<1>7. ASSUME NEW o \in Operator, TakeSlot(o) \/ WrongPassword(o) PROVE SessionsHeld'
  <2>1. /\ UNCHANGED <<sessions, cookies, asked>> /\ at[o] \in {"slot", "verify"}
        /\ at' = [at EXCEPT ![o] = "verify"] \/ at' = [at EXCEPT ![o] = "idle"]
    BY <1>7 DEF TakeSlot, WrongPassword, Goto, tables
  <2>2. LoggingIn' \subseteq LoggingIn
    BY <2>1 DEF LoggingIn, ControlTypes
  <2>3. QED
    BY <2>1, <2>2, SessionsShrink DEF SessionsHeld
<1>8. CASE ExpireSessions \/ AuthElapse
  <2>1. UNCHANGED cookies /\ UNCHANGED asked /\ LoggingIn' = LoggingIn
    BY <1>8 DEF ExpireSessions, AuthElapse, LoggingIn
  <2>2. CASE ExpireSessions
    BY <1>1, <2>1, <2>2, SessionsShrink DEF ExpireSessions
  <2>3. CASE AuthElapse
    <3>1. sessions' = [s \in DOMAIN sessions |-> Less(sessions[s])]
      BY <2>3 DEF AuthElapse
    <3>2. \A s \in DOMAIN sessions : Less(sessions[s]) \in Nat
      BY DEF SessionsHeld, Less
    <3>3. DOMAIN sessions' = DOMAIN sessions /\ sessions' \in [DOMAIN sessions' -> Nat]
      BY <3>1, <3>2
    <3>4. QED
      BY <2>1, <3>3, SessionsShrink
  <2>4. QED
    BY <1>8, <2>2, <2>3
<1>9. QED
  BY <1>3, <1>4, <1>5, <1>6, <1>7, <1>8, SessionsLogin, TableSteps DEF TableStep, AuthStep

(* The inductive invariant behind the sessions.                            *)
LEMMA AlwaysHeld ==
  Spec => []SessionsHeld
BY SessionsInit, SessionsStep, Types, PTL DEF Spec

(* Why a session may leave the table.                                      *)
HasReason(s) ==
  \/ sessions[s] = 0
  \/ s \in cookies \ cookies'
  \/ /\ Cardinality(DOMAIN sessions) = MaxSessions
     /\ \A t \in DOMAIN sessions : sessions[t] > 0 => sessions[s] <= sessions[t]

(* A login drops what has expired, the session it replaces or, from a full *)
(* table, one that ends first.                                             *)
LEMMA LoginReasons ==
  ASSUME SessionsHeld, NEW o \in Operator, Login(o),
         NEW s \in DOMAIN sessions, s \notin DOMAIN sessions'
  PROVE  HasReason(s)
<1>1. PICK old, token, drop : Replaces(old, token, drop)
  BY LoginReplaces
<1> DEFINE kept == {t \in DOMAIN sessions : sessions[t] > 0 /\ t # old}
<1>2. sessions[s] \in Nat /\ s \in Ids /\ s # 0 /\ s # token
  BY <1>1 DEF SessionsHeld, Held, Ids, Replaces
<1>3. CASE ~(sessions[s] > 0)
  BY <1>2, <1>3 DEF HasReason
<1>4. CASE s = old
  BY <1>1, <1>2, <1>4 DEF Replaces, HasReason
<1>5. CASE sessions[s] > 0 /\ s # old
  <2>1. /\ drop = {s} /\ ~(Cardinality(kept) < MaxSessions)
        /\ \A t \in DOMAIN sessions : sessions[t] > 0 /\ t # old => sessions[s] <= sessions[t]
    BY <1>1, <1>5 DEF Replaces
  <2>2. kept \subseteq DOMAIN sessions
    OBVIOUS
  <2>3. /\ IsFiniteSet(DOMAIN sessions) /\ Cardinality(DOMAIN sessions) \in Nat
        /\ Cardinality(DOMAIN sessions) <= MaxSessions
    BY HeldCount DEF SessionsHeld
  <2> HIDE DEF kept
  <2>4. IsFiniteSet(kept) /\ Cardinality(kept) <= Cardinality(DOMAIN sessions)
    BY <2>2, <2>3, FS_Subset
  <2>5. Cardinality(kept) \in Nat
    BY <2>4, FS_CardinalityType
  <2>6. Cardinality(kept) = Cardinality(DOMAIN sessions) /\ Cardinality(DOMAIN sessions) = MaxSessions
    BY <2>1, <2>3, <2>4, <2>5, IdsCount
  <2>7. kept = DOMAIN sessions
    BY <2>2, <2>3, <2>6, FS_Subset
  <2>8. \A t \in DOMAIN sessions : t # old
    BY <2>7 DEF kept
  <2>9. QED
    BY <2>1, <2>6, <2>8 DEF HasReason
<1>6. QED
  BY <1>3, <1>4, <1>5

(* The sessions of auth.go end when they expire, when their browser ends   *)
(* them, or to make room in a full table, the one that ends first leaving  *)
(* first.                                                                  *)
THEOREM SessionsEndWithReason ==
  Spec => SessionsEndForAReason
<1> DEFINE A == \A s \in DOMAIN sessions \ DOMAIN sessions' :
                  \/ sessions[s] = 0
                  \/ s \in cookies \ cookies'
                  \/ /\ Cardinality(DOMAIN sessions) = MaxSessions
                     /\ \A t \in DOMAIN sessions : sessions[t] > 0 => sessions[s] <= sessions[t]
<1>1. ControlTypes /\ SessionsHeld /\ [Next]_consoleVars => [A]_authVars
  <2> SUFFICES ASSUME ControlTypes, SessionsHeld, [Next]_consoleVars,
                      NEW s \in DOMAIN sessions, s \notin DOMAIN sessions'
               PROVE  HasReason(s)
    BY DEF HasReason
  <2>1. CASE OtherStep
    BY <2>1 DEF OtherStep
  <2>2. sessions[s] \in Nat
    BY DEF SessionsHeld
  <2>3. ASSUME sessions' = OpenSessions PROVE HasReason(s)
    <3>1. ~(sessions[s] > 0)
      BY <2>3, OpenOnes
    <3>2. QED
      BY <2>2, <3>1 DEF HasReason
  <2>4. CASE \E o \in Operator, p \in Peer : Attempt(o, p) \/ RateLimited(o, p)
    BY <2>3, <2>4 DEF Attempt, RateLimited
  <2>5. ASSUME NEW o \in Operator, Unauthenticated(o) PROVE HasReason(s)
    <3>1. PICK t \in cookies \cup {0} : ~Session(t) /\ sessions' = Without(sessions, t)
      BY <2>5 DEF Unauthenticated
    <3>2. s = t
      BY <3>1, RestrictedSessions
    <3>3. QED
      BY <2>2, <3>1, <3>2 DEF Session, HasReason
  <2>6. ASSUME NEW o \in Operator, Logout(o) PROVE HasReason(s)
    <3>1. PICK t \in cookies : sessions' = Without(sessions, t) /\ cookies' = cookies \ {t}
      BY <2>6 DEF Logout
    <3>2. s = t
      BY <3>1, RestrictedSessions
    <3>3. QED
      BY <3>1, <3>2 DEF HasReason
  <2>7. ASSUME NEW o \in Operator, AuthStep(o) PROVE HasReason(s)
    <3>1. Login(o)
      BY <2>7 DEF AuthStep, TakeSlot, WrongPassword, tables
    <3>2. QED
      BY <3>1, LoginReasons
  <2>8. CASE ExpireSessions
    BY <2>3, <2>8 DEF ExpireSessions
  <2>9. CASE AuthElapse
    BY <2>9 DEF AuthElapse
  <2>10. QED
    BY <2>1, <2>4, <2>5, <2>6, <2>7, <2>8, <2>9, TableSteps DEF TableStep
<1>2. Spec => [][A]_authVars
  BY <1>1, Types, AlwaysHeld, PTL DEF Spec
<1>3. QED
  BY <1>2 DEF SessionsEndForAReason

-----------------------------------------------------------------------------
(* Pages: the order of the rows.                                           *)

LEMMA RowsAreOrdered ==
  ASSUME NEW S \in SUBSET (Int \X Int), NEW a \in S, NEW b \in S
  PROVE  /\ ~RowBefore(a, a)
         /\ a # b => RowBefore(a, b) \/ RowBefore(b, a)
         /\ RowBefore(a, b) => ~RowBefore(b, a)
         /\ RowBefore(a, b) => Ahead(S, a) \subseteq Ahead(S, b)
<1>1. /\ a[1] \in Int /\ a[2] \in Int /\ b[1] \in Int /\ b[2] \in Int
      /\ a = <<a[1], a[2]>> /\ b = <<b[1], b[2]>>
  OBVIOUS
<1>2. \A r \in S : r[1] \in Int /\ r[2] \in Int
  OBVIOUS
<1>3. \A r \in S : RowBefore(a, b) /\ RowBefore(r, a) => RowBefore(r, b)
  BY <1>1, <1>2 DEF RowBefore
<1>4. QED BY <1>1, <1>3 DEF RowBefore, Ahead

(* A row's place: as many rows are ahead of it, fewer than there are.      *)
LEMMA PlaceInRange ==
  ASSUME NEW S \in SUBSET (Int \X Int), IsFiniteSet(S), NEW a \in S
  PROVE  /\ IsFiniteSet(Ahead(S, a)) /\ Cardinality(Ahead(S, a)) \in Nat
         /\ Cardinality(S) \in Nat /\ Cardinality(Ahead(S, a)) < Cardinality(S)
<1>1. Ahead(S, a) \in SUBSET S /\ a \notin Ahead(S, a)
  BY RowsAreOrdered DEF Ahead
<1>2. /\ IsFiniteSet(Ahead(S, a)) /\ Cardinality(Ahead(S, a)) <= Cardinality(S)
      /\ Cardinality(S) = Cardinality(Ahead(S, a)) => S = Ahead(S, a)
  BY <1>1, FS_Subset
<1>3. Cardinality(Ahead(S, a)) \in Nat /\ Cardinality(S) \in Nat
  BY <1>2, FS_CardinalityType
<1>4. QED BY <1>1, <1>2, <1>3

LEMMA PlacesDiffer ==
  ASSUME NEW S \in SUBSET (Int \X Int), IsFiniteSet(S), NEW a \in S, NEW b \in S,
         RowBefore(a, b)
  PROVE  Cardinality(Ahead(S, a)) < Cardinality(Ahead(S, b))
<1>1. /\ Ahead(S, a) \subseteq Ahead(S, b) /\ a \notin Ahead(S, a)
      /\ a \in Ahead(S, b)
  BY RowsAreOrdered DEF Ahead
<1>2. /\ IsFiniteSet(Ahead(S, b)) /\ Cardinality(Ahead(S, b)) \in Nat
      /\ Cardinality(Ahead(S, a)) \in Nat
  BY PlaceInRange
<1>3. Ahead(S, a) \in SUBSET Ahead(S, b) /\ Ahead(S, a) # Ahead(S, b)
  BY <1>1
<1>4. /\ Cardinality(Ahead(S, a)) <= Cardinality(Ahead(S, b))
      /\ Cardinality(Ahead(S, b)) = Cardinality(Ahead(S, a)) => Ahead(S, b) = Ahead(S, a)
  BY <1>2, <1>3, FS_Subset
<1>5. QED BY <1>2, <1>3, <1>4

(* As many places as rows: each is taken.                                  *)
LEMMA EveryPlaceIsTaken ==
  ASSUME NEW S \in SUBSET (Int \X Int), IsFiniteSet(S), NEW i \in 1..Cardinality(S)
  PROVE  \E row \in S : Cardinality(Ahead(S, row)) = i - 1
<1> DEFINE n == Cardinality(S)
           place == [row \in S |-> Cardinality(Ahead(S, row)) + 1]
<1>1. n \in Nat
  BY FS_CardinalityType
<1>2. \A row \in S : place[row] \in 1..n
  <2> TAKE row \in S
  <2>1. Cardinality(Ahead(S, row)) \in Nat /\ Cardinality(Ahead(S, row)) < n
    BY PlaceInRange
  <2> QED BY <1>1, <2>1
<1>3. place \in [S -> 1..n]
  BY <1>2
<1>4. ASSUME NEW a \in S, NEW b \in S, place[a] = place[b]
      PROVE  a = b
  <2>1. /\ Cardinality(Ahead(S, a)) \in Nat /\ Cardinality(Ahead(S, b)) \in Nat
        /\ Cardinality(Ahead(S, a)) = Cardinality(Ahead(S, b))
    BY <1>4, PlaceInRange
  <2>2. SUFFICES ASSUME a # b PROVE FALSE
    OBVIOUS
  <2>3. RowBefore(a, b) \/ RowBefore(b, a)
    BY <2>2, RowsAreOrdered
  <2>4. CASE RowBefore(a, b)
    BY <2>1, <2>4, PlacesDiffer
  <2>5. CASE RowBefore(b, a)
    BY <2>1, <2>5, PlacesDiffer
  <2> QED BY <2>3, <2>4, <2>5
<1> HIDE DEF place
<1>5. place \in Injection(S, 1..n)
  BY <1>3, <1>4 DEF Injection, IsInjective
<1>6. IsFiniteSet(1..n) /\ Cardinality(1..n) = n
  BY <1>1, FS_Interval
<1>7. place \in Surjection(S, 1..n)
  BY <1>5, <1>6, FS_Injection
<1>8. PICK row \in S : place[row] = i
  BY <1>7 DEF Surjection
<1>9. Cardinality(Ahead(S, row)) \in Nat
  BY PlaceInRange
<1>10. QED BY <1>1, <1>8, <1>9 DEF place

LEMMA OrderedRows ==
  ASSUME NEW S \in SUBSET (Int \X Int), IsFiniteSet(S)
  PROVE  /\ Cardinality(S) \in Nat /\ Ordered(S) \in [1..Cardinality(S) -> S]
         /\ \A i \in 1..Cardinality(S) : Cardinality(Ahead(S, Ordered(S)[i])) = i - 1
         /\ \A row \in S : Ordered(S)[Cardinality(Ahead(S, row)) + 1] = row
         /\ \A i, j \in 1..Cardinality(S) : i < j => RowBefore(Ordered(S)[i], Ordered(S)[j])
<1> DEFINE n == Cardinality(S)
           s == Ordered(S)
<1>1. n \in Nat
  BY FS_CardinalityType
<1>2. ASSUME NEW i \in 1..n
      PROVE  s[i] \in S /\ Cardinality(Ahead(S, s[i])) = i - 1
  <2>1. s[i] = CHOOSE row \in S : Cardinality(Ahead(S, row)) = i - 1
    BY DEF Ordered
  <2> QED BY <2>1, EveryPlaceIsTaken
<1>3. s \in [1..n -> S]
  <2>1. DOMAIN s = 1..n /\ s = [i \in 1..n |-> s[i]]
    BY DEF Ordered
  <2> HIDE DEF s
  <2> QED BY <1>2, <2>1
<1>4. ASSUME NEW a \in S, NEW b \in S, Cardinality(Ahead(S, a)) = Cardinality(Ahead(S, b))
      PROVE  a = b
  <2>1. Cardinality(Ahead(S, a)) \in Nat /\ Cardinality(Ahead(S, b)) \in Nat
    BY PlaceInRange
  <2>2. ~RowBefore(a, b) /\ ~RowBefore(b, a)
    BY <1>4, <2>1, PlacesDiffer
  <2> QED BY <2>2, RowsAreOrdered
<1>5. ASSUME NEW row \in S
      PROVE  s[Cardinality(Ahead(S, row)) + 1] = row
  <2> DEFINE i == Cardinality(Ahead(S, row)) + 1
  <2>1. Cardinality(Ahead(S, row)) \in Nat /\ Cardinality(Ahead(S, row)) < n
    BY PlaceInRange
  <2>2. i \in 1..n /\ i - 1 = Cardinality(Ahead(S, row))
    BY <1>1, <2>1
  <2> HIDE DEF i, s
  <2> QED BY <1>2, <1>4, <2>2 DEF i
<1>6. ASSUME NEW i \in 1..n, NEW j \in 1..n, i < j
      PROVE  RowBefore(s[i], s[j])
  <2> HIDE DEF s
  <2>1. s[i] \in S /\ s[j] \in S /\ Cardinality(Ahead(S, s[i])) < Cardinality(Ahead(S, s[j]))
    BY <1>1, <1>2, <1>6
  <2>2. Cardinality(Ahead(S, s[i])) \in Nat /\ Cardinality(Ahead(S, s[j])) \in Nat
    BY <2>1, PlaceInRange
  <2>3. s[i] # s[j] /\ ~RowBefore(s[j], s[i])
    BY <2>1, <2>2, PlacesDiffer
  <2> QED BY <2>1, <2>3, RowsAreOrdered
<1> HIDE DEF s
<1>7. QED BY <1>1, <1>2, <1>3, <1>5, <1>6 DEF s

-----------------------------------------------------------------------------
(* Pages of a list: invariant.                                             *)

RowPlaces == (Region \cup {0}) \X Name
ListStates == {"idle", "reading", "partial", "refused", "complete"}
ListTypes ==
  /\ limit \in Nat /\ rows \in SUBSET RowPlaces
  /\ list \in [at : ListStates, resource : {"nodes", "rooms"}, query : Queries,
               offset : Nat, due : SUBSET RowPlaces, got : Seq(RowPlaces),
               kept : BOOLEAN, changes : Nat]
  /\ list.at = "reading" => limit > 0 /\ rows \in SUBSET Possible(list.resource)

(* What the client still lacks lies at its offset or behind it; while      *)
(* nothing changes, it has exactly the rows in front of it.                *)
StillAhead(there) ==
  \A row \in list.due :
    /\ row \in there
    /\ row \in ToSet(list.got) \/ Cardinality(Ahead(there, row)) >= list.offset
InFront(there) ==
  /\ list.due = there /\ Len(list.got) = list.offset
  /\ list.offset <= Cardinality(there)
  /\ \A i \in 1..list.offset : list.got[i] = Ordered(there)[i]
Listed ==
  list.at = "reading" =>
    /\ list.kept => StillAhead(Wanted(rows, list.query))
    /\ list.changes = 0 => InFront(Wanted(rows, list.query))
ListInv == ListTypes /\ Listed /\ ListsAreComplete

LEMMA RowsAreFinite ==
  ASSUME NEW there \in SUBSET RowPlaces, NEW query
  PROVE  /\ IsFiniteSet(there) /\ Wanted(there, query) \in SUBSET (Int \X Int)
         /\ IsFiniteSet(Wanted(there, query)) /\ Wanted(there, query) \in SUBSET RowPlaces
<1>1. IsFiniteSet(Region \cup {0})
  BY PageConstants, FS_AddElement
<1>2. IsFiniteSet(RowPlaces)
  BY <1>1, PageConstants, FS_Product DEF RowPlaces
<1>3. Wanted(there, query) \in SUBSET there
  BY DEF Wanted
<1>4. IsFiniteSet(there) /\ IsFiniteSet(Wanted(there, query))
  BY <1>2, <1>3, FS_Subset
<1>5. (Region \cup {0}) \subseteq Int /\ Name \subseteq Int
  BY PageConstants
<1>6. RowPlaces \subseteq Int \X Int
  <2> SUFFICES ASSUME NEW row \in RowPlaces PROVE row \in Int \X Int
    OBVIOUS
  <2>1. row[1] \in Region \cup {0} /\ row[2] \in Name /\ row = <<row[1], row[2]>>
    BY DEF RowPlaces
  <2>2. row[1] \in Int /\ row[2] \in Int
    BY <1>5, <2>1
  <2> QED BY <2>1, <2>2
<1>7. QED BY <1>3, <1>4, <1>6

(* Without a warning, what a snapshot shows of the list is what there is.  *)
LEMMA SnapshotIsTrue ==
  ASSUME NEW resource \in {"nodes", "rooms"}, NEW query \in Queries,
         rows \in SUBSET Possible(resource),
         NEW failed \in [Region -> SUBSET Reads], NEW fleetOk \in BOOLEAN,
         SnapshotWarnings(FleetSnapshot(rows, fleetOk),
                          SelectRegions(RegionSnapshots(failed), query)) = {}
  PROVE  Wanted(ProjectRows(resource, FleetSnapshot(rows, fleetOk),
                            SelectRegions(RegionSnapshots(failed), query)), query)
         = Wanted(rows, query)
<1> DEFINE fleet == FleetSnapshot(rows, fleetOk)
           chosen == SelectRegions(RegionSnapshots(failed), query)
           nodes(r) == {name \in Name : <<r, name>> \in rows}
<1>1. fleet.ok /\ fleetOk /\ fleet.rooms = rows
  <2>1. fleet.ok
    BY DEF SnapshotWarnings
  <2> QED BY <2>1 DEF FleetSnapshot
<1>2. CASE resource = "rooms"
  BY <1>1, <1>2 DEF ProjectRows
<1>3. CASE resource = "nodes"
  <2>1. \A s \in chosen : s.ok
    BY DEF SnapshotWarnings
  <2>2. ASSUME NEW r \in Region, query.region \in {0, r}
        PROVE  \E s \in chosen : s.name = r /\ s.nodes = nodes(r)
    <3> DEFINE s == RegionSnapshot(r, nodes(r), failed[r])
    <3>1. s \in RegionSnapshots(failed) /\ s.name = r
      BY DEF RegionSnapshot, RegionSnapshots
    <3>2. s \in chosen
      BY <2>2, <3>1 DEF SelectRegions
    <3>3. failed[r] \subseteq {"metrics"}
      BY <2>1, <3>2 DEF RegionSnapshot
    <3>4. s.nodes = nodes(r)
      BY <3>3 DEF RegionSnapshot
    <3> QED BY <3>1, <3>2, <3>4
  <2>3. \A s \in chosen : s.name \in Region /\ s.nodes \subseteq nodes(s.name)
    <3>1. \A s \in chosen : \E r \in Region : s = RegionSnapshot(r, nodes(r), failed[r])
      BY DEF SelectRegions, RegionSnapshots
    <3> HIDE DEF chosen
    <3> TAKE s \in chosen
    <3>2. PICK r \in Region : s = RegionSnapshot(r, nodes(r), failed[r])
      BY <3>1
    <3>3. s.name = r /\ (s.nodes = {} \/ s.nodes = nodes(r))
      BY <3>2 DEF RegionSnapshot
    <3> QED BY <3>3
  <2>4. ProjectRows(resource, fleet, chosen) = UNION {{s.name} \X s.nodes : s \in chosen}
    BY <1>3 DEF ProjectRows
  <2>5. rows \subseteq Region \X Name
    BY <1>3 DEF Possible
  <2> HIDE DEF chosen
  <2>6. ASSUME NEW row \in Wanted(rows, query)
        PROVE  row \in ProjectRows(resource, fleet, chosen)
    <3>1. /\ row \in rows /\ row[1] \in Region /\ row[2] \in Name
          /\ row = <<row[1], row[2]>> /\ query.region \in {0, row[1]}
      BY <2>5 DEF Wanted, MatchRow
    <3>2. PICK s \in chosen : s.name = row[1] /\ s.nodes = nodes(row[1])
      BY <2>2, <3>1
    <3>3. row \in {s.name} \X s.nodes
      BY <3>1, <3>2
    <3> QED BY <2>4, <3>3
  <2>7. ASSUME NEW row \in ProjectRows(resource, fleet, chosen)
        PROVE  row \in rows
    <3>1. PICK s \in chosen : row \in {s.name} \X s.nodes
      BY <2>4
    <3>2. row = <<s.name, row[2]>> /\ row[2] \in nodes(s.name)
      BY <2>3, <3>1
    <3> QED BY <3>2
  <2> QED BY <2>6, <2>7 DEF Wanted, chosen
<1>4. QED BY <1>2, <1>3

(* A page holds the rows from its offset on, as many as were asked for.    *)
LEMMA PageHolds ==
  ASSUME NEW n \in Nat, NEW s \in [1..n -> RowPlaces], NEW offset \in Nat,
         limit \in Nat \ {0}, NEW page, page = Page(s, offset),
         NEW start, start = Least(offset, n), NEW end, end = Least(start + limit, n)
  PROVE  /\ page.data \in Seq(RowPlaces) /\ Len(page.data) = end - start
         /\ \A i \in 1..(end - start) : page.data[i] = s[start + i]
         /\ page.next = IF end < n THEN end ELSE 0
         /\ start \in Nat /\ end \in Nat /\ start <= end /\ end <= n
         /\ start <= offset /\ (end < n => start = offset /\ end > 0)
<1>1. s \in Seq(RowPlaces) /\ Len(s) = n
  OBVIOUS
<1>2. /\ start \in Nat /\ end \in Nat /\ start <= end /\ end <= n
      /\ start <= offset /\ (end < n => start = offset /\ end > 0)
  BY DEF Least
<1>3. PICK cut : cut = SubSeq(s, start + 1, end)
  OBVIOUS
<1>4. page = [data |-> cut, next |-> IF end < n THEN end ELSE 0]
  BY <1>1, <1>3 DEF Page
<1>5. \A i \in (start + 1)..end : s[i] \in RowPlaces
  BY <1>2
<1>6. /\ cut \in Seq(RowPlaces)
      /\ Len(cut) = IF start + 1 <= end THEN end - (start + 1) + 1 ELSE 0
      /\ \A i \in 1..(end - (start + 1) + 1) : cut[i] = s[start + 1 + i - 1]
  <2>1. start + 1 \in Int /\ end \in Int
    BY <1>2
  <2> QED BY <1>3, <1>5, <2>1, SubSeqProperties
<1>7. Len(cut) = end - start
  BY <1>2, <1>6
<1>8. ASSUME NEW i \in 1..(end - start)
      PROVE  cut[i] = s[start + i]
  <2>1. i \in 1..(end - (start + 1) + 1) /\ start + 1 + i - 1 = start + i
    BY <1>2
  <2>2. cut[i] = s[start + 1 + i - 1]
    BY <1>6, <2>1
  <2> QED BY <2>1, <2>2
<1>9. page.data = cut /\ page.next = IF end < n THEN end ELSE 0
  BY <1>4
<1>10. QED BY <1>2, <1>6, <1>7, <1>8, <1>9

LEMMA JoinedPages ==
  ASSUME NEW T, NEW have \in Seq(T), NEW data \in Seq(T), NEW got, got = have \o data
  PROVE  /\ got \in Seq(T) /\ Len(have) \in Nat /\ Len(data) \in Nat
         /\ Len(got) = Len(have) + Len(data)
         /\ \A i \in 1..Len(have) : got[i] = have[i]
         /\ \A i \in 1..Len(data) : got[Len(have) + i] = data[i]
         /\ \A x : x \in ToSet(have) \/ x \in ToSet(data) => x \in ToSet(got)
<1>1. /\ Len(have) \in Nat /\ Len(data) \in Nat
      /\ DOMAIN have = 1..Len(have) /\ DOMAIN data = 1..Len(data)
  OBVIOUS
<1>2. /\ got \in Seq(T) /\ Len(got) = Len(have) + Len(data)
      /\ \A i \in 1..(Len(have) + Len(data)) :
           got[i] = IF i <= Len(have) THEN have[i] ELSE data[i - Len(have)]
  <2>1. /\ have \o data \in Seq(T) /\ Len(have \o data) = Len(have) + Len(data)
        /\ \A i \in 1..(Len(have) + Len(data)) :
             (have \o data)[i] = IF i <= Len(have) THEN have[i] ELSE data[i - Len(have)]
    BY ConcatProperties
  <2> QED BY <2>1, Zenon
<1>3. DOMAIN got = 1..(Len(have) + Len(data))
  BY <1>2
<1> DEFINE m == Len(have)
           n == Len(data)
<1> HIDE DEF m, n
<1>4. ASSUME NEW i \in 1..m
      PROVE  i \in DOMAIN got /\ got[i] = have[i]
  <2>1. i \in 1..(m + n) /\ i <= m
    BY <1>1, <1>4 DEF m, n
  <2> QED BY <1>2, <1>3, <2>1 DEF m, n
<1>5. ASSUME NEW i \in 1..n
      PROVE  m + i \in DOMAIN got /\ got[m + i] = data[i]
  <2>1. m + i \in 1..(m + n) /\ ~(m + i <= m) /\ m + i - m = i
    BY <1>1, <1>5 DEF m, n
  <2> QED BY <1>2, <1>3, <2>1 DEF m, n
<1>6. \A x : x \in ToSet(have) \/ x \in ToSet(data) => x \in ToSet(got)
  BY <1>1, <1>4, <1>5 DEF ToSet, m, n
<1>7. QED BY <1>1, <1>2, <1>4, <1>5, <1>6 DEF m, n

(* Whatever fails, a snapshot shows no row of another kind.                *)
LEMMA SnapshotRows ==
  ASSUME NEW resource, NEW query, NEW failed, NEW fleetOk, rows \in SUBSET RowPlaces
  PROVE  ProjectRows(resource, FleetSnapshot(rows, fleetOk),
                     SelectRegions(RegionSnapshots(failed), query)) \in SUBSET RowPlaces
<1> DEFINE nodes(r) == {name \in Name : <<r, name>> \in rows}
           fleet == FleetSnapshot(rows, fleetOk)
           chosen == SelectRegions(RegionSnapshots(failed), query)
<1>1. fleet.rooms \in SUBSET RowPlaces
  BY DEF FleetSnapshot
<1>2. ASSUME NEW s \in chosen
      PROVE  {s.name} \X s.nodes \subseteq RowPlaces
  <2>1. \E r \in Region : s = RegionSnapshot(r, nodes(r), failed[r])
    BY DEF SelectRegions, RegionSnapshots
  <2> HIDE DEF chosen
  <2>2. PICK r \in Region : s = RegionSnapshot(r, nodes(r), failed[r])
    BY <2>1
  <2>3. s.name \in Region \cup {0} /\ s.nodes \subseteq Name
    BY <2>2 DEF RegionSnapshot
  <2> QED BY <2>3 DEF RowPlaces
<1> HIDE DEF chosen
<1>3. UNION {{s.name} \X s.nodes : s \in chosen} \in SUBSET RowPlaces
  BY <1>2
<1>4. QED BY <1>1, <1>3 DEF ProjectRows, chosen

(* One page further: what the client has then.                             *)
WantedNow == Wanted(rows, list.query)
TruePage == Page(Ordered(WantedNow), list.offset)
GotThen == list.got \o TruePage.data
OnePageOn(there, page, got, n, s) ==
  /\ page.next \in Nat /\ got \in Seq(RowPlaces)
  /\ list.kept => \A row \in list.due :
       /\ row \in there
       /\ \/ row \in ToSet(got)
          \/ page.next # 0 /\ Cardinality(Ahead(there, row)) >= page.next
  /\ list.changes = 0 =>
       /\ list.due = there /\ page.next <= n
       /\ Len(got) = IF page.next = 0 THEN n ELSE page.next
       /\ \A i \in 1..Len(got) : got[i] = s[i]

LEMMA NextPage ==
  ASSUME ListTypes, Listed, list.at = "reading"
  PROVE  OnePageOn(WantedNow, TruePage, GotThen, Cardinality(WantedNow), Ordered(WantedNow))
<1> SUFFICES ASSUME NEW there, NEW page, NEW got, NEW n, NEW s,
                    there = Wanted(rows, list.query), n = Cardinality(there),
                    s = Ordered(there), page = Page(s, list.offset),
                    got = list.got \o page.data
             PROVE  OnePageOn(there, page, got, n, s)
  BY DEF WantedNow, TruePage, GotThen
<1>1. /\ there \in SUBSET (Int \X Int) /\ IsFiniteSet(there) /\ there \in SUBSET RowPlaces
  BY RowsAreFinite DEF ListTypes
<1>2. /\ n \in Nat /\ s \in [1..n -> there]
      /\ \A row \in there : s[Cardinality(Ahead(there, row)) + 1] = row
  BY <1>1, OrderedRows
<1>3. list.offset \in Nat /\ limit \in Nat \ {0} /\ list.got \in Seq(RowPlaces)
  BY DEF ListTypes
<1>4. s \in [1..n -> RowPlaces]
  BY <1>1, <1>2
<1>5. PICK offset, have, data, start, end :
        /\ offset = list.offset /\ have = list.got /\ data = page.data
        /\ start = Least(offset, n) /\ end = Least(start + limit, n)
  OBVIOUS
<1>6. /\ data \in Seq(RowPlaces) /\ Len(data) = end - start
      /\ \A i \in 1..(end - start) : data[i] = s[start + i]
      /\ page.next = IF end < n THEN end ELSE 0
      /\ start \in Nat /\ end \in Nat /\ start <= end /\ end <= n
      /\ start <= offset /\ (end < n => start = offset /\ end > 0)
  <2>1. /\ page = Page(s, offset) /\ offset \in Nat /\ n \in Nat
        /\ s \in [1..n -> RowPlaces] /\ limit \in Nat \ {0}
        /\ start = Least(offset, n) /\ end = Least(start + limit, n)
    BY <1>2, <1>3, <1>4, <1>5
  <2>2. /\ page.data \in Seq(RowPlaces) /\ Len(page.data) = end - start
        /\ \A i \in 1..(end - start) : page.data[i] = s[start + i]
        /\ page.next = IF end < n THEN end ELSE 0
        /\ start \in Nat /\ end \in Nat /\ start <= end /\ end <= n
        /\ start <= offset /\ (end < n => start = offset /\ end > 0)
    BY <2>1, PageHolds, SMTT(30)
  <2> QED BY <1>5, <2>2
<1>7. /\ offset \in Nat /\ have \in Seq(RowPlaces) /\ got = have \o data
  BY <1>3, <1>5
<1>8. /\ got \in Seq(RowPlaces) /\ Len(have) \in Nat /\ Len(data) \in Nat
      /\ Len(got) = Len(have) + Len(data)
      /\ \A i \in 1..Len(have) : got[i] = have[i]
      /\ \A i \in 1..Len(data) : got[Len(have) + i] = data[i]
      /\ \A x : x \in ToSet(have) \/ x \in ToSet(data) => x \in ToSet(got)
  BY <1>6, <1>7, JoinedPages
<1>9. ASSUME list.kept, NEW row \in list.due
      PROVE  /\ row \in there
             /\ row \in ToSet(got) \/ (page.next # 0 /\ Cardinality(Ahead(there, row)) >= page.next)
  <2>1. PICK k : k = Cardinality(Ahead(there, row))
    OBVIOUS
  <2>2. row \in there /\ (row \in ToSet(have) \/ k >= offset)
    BY <1>5, <1>9, <2>1 DEF Listed, StillAhead
  <2>3. k \in Nat /\ k < n /\ s[k + 1] = row
    BY <1>1, <1>2, <2>1, <2>2, PlaceInRange
  <2>4. CASE row \in ToSet(have)
    BY <1>8, <2>2, <2>4
  <2>5. CASE k >= offset /\ k < end
    <3>1. k + 1 - start \in 1..(end - start) /\ start + (k + 1 - start) = k + 1
      BY <1>2, <1>6, <1>7, <2>3, <2>5
    <3>2. data[k + 1 - start] = row
      BY <1>6, <2>3, <3>1
    <3>3. DOMAIN data = 1..(end - start)
      BY <1>6
    <3>4. row \in ToSet(data)
      BY <3>1, <3>2, <3>3 DEF ToSet
    <3> QED BY <1>8, <2>2, <3>4
  <2>6. CASE k >= end
    <3>1. page.next = end /\ end > 0 /\ k >= page.next
      BY <1>2, <1>6, <2>3, <2>6
    <3> QED BY <1>6, <2>1, <2>2, <3>1
  <2>7. k < end \/ k >= end
    BY <1>6, <2>3
  <2> QED BY <2>2, <2>4, <2>5, <2>6, <2>7
<1>10. ASSUME list.changes = 0
       PROVE  /\ list.due = there /\ page.next <= n
              /\ Len(got) = IF page.next = 0 THEN n ELSE page.next
              /\ \A i \in 1..Len(got) : got[i] = s[i]
  <2>1. /\ list.due = there /\ Len(have) = offset /\ offset <= n
        /\ \A i \in 1..offset : have[i] = s[i]
    BY <1>5, <1>10 DEF Listed, InFront
  <2>2. start = offset
    BY <1>2, <1>5, <1>7, <2>1 DEF Least
  <2>3. Len(got) = end /\ page.next <= n
    BY <1>2, <1>6, <1>7, <1>8, <2>1, <2>2
  <2>4. end = IF page.next = 0 THEN n ELSE page.next
    BY <1>2, <1>6
  <2>5. ASSUME NEW i \in 1..end
        PROVE  got[i] = s[i]
    <3>1. CASE i \in 1..offset
      BY <1>8, <2>1, <3>1
    <3>2. CASE i \notin 1..offset
      <4>1. i - offset \in 1..(end - start) /\ start + (i - offset) = i /\ offset + (i - offset) = i
        BY <1>6, <1>7, <2>2, <2>5, <3>2
      <4>2. data[i - offset] = s[i]
        BY <1>6, <4>1
      <4>3. got[i] = data[i - offset]
        BY <1>6, <1>8, <2>1, <4>1
      <4> QED BY <4>2, <4>3
    <3> QED BY <3>1, <3>2
  <2> QED BY <2>1, <2>3, <2>4, <2>5
<1>11. page.next \in Nat
  BY <1>6
<1>12. QED BY <1>8, <1>9, <1>10, <1>11 DEF OnePageOn

(* The rows in front of the end of a list are all of them.                 *)
LEMMA AllInOrder ==
  ASSUME NEW there \in SUBSET (Int \X Int), IsFiniteSet(there), NEW got \in Seq(RowPlaces),
         Len(got) = Cardinality(there), \A i \in 1..Len(got) : got[i] = Ordered(there)[i]
  PROVE  /\ ToSet(got) = there
         /\ \A i, j \in DOMAIN got : i < j => RowBefore(got[i], got[j])
<1>1. PICK n, s : n = Cardinality(there) /\ s = Ordered(there)
  OBVIOUS
<1>2. /\ n \in Nat /\ s \in [1..n -> there]
      /\ \A row \in there : s[Cardinality(Ahead(there, row)) + 1] = row
      /\ \A i, j \in 1..n : i < j => RowBefore(s[i], s[j])
  BY <1>1, OrderedRows
<1>3. DOMAIN got = 1..n /\ \A i \in 1..n : got[i] = s[i]
  BY <1>1
<1>4. ToSet(got) \subseteq there
  BY <1>2, <1>3 DEF ToSet
<1>5. ASSUME NEW row \in there
      PROVE  row \in ToSet(got)
  <2>1. PICK k : k = Cardinality(Ahead(there, row))
    OBVIOUS
  <2>2. k + 1 \in 1..n /\ s[k + 1] = row
    BY <1>1, <1>2, <2>1, PlaceInRange
  <2> QED BY <1>3, <2>2 DEF ToSet
<1>6. \A i, j \in DOMAIN got : i < j => RowBefore(got[i], got[j])
  BY <1>2, <1>3
<1>7. QED BY <1>4, <1>5, <1>6

LEMMA PageRead ==
  ASSUME ListInv, NEW failed \in [Region -> SUBSET Reads], NEW fleetOk \in BOOLEAN,
         ReadPage(failed, fleetOk)
  PROVE  ListTypes' /\ Listed' /\ ListsAreComplete'
<1>1. PICK regions, fleet, there, shown, page :
        /\ regions = RegionSnapshots(failed)
        /\ fleet = FleetSnapshot(rows, fleetOk)
        /\ there = Wanted(rows, list.query)
        /\ shown = Wanted(ProjectRows(list.resource, fleet, SelectRegions(regions, list.query)),
                          list.query)
        /\ page = Page(Ordered(shown), list.offset)
  OBVIOUS
<1>2. ListTypes /\ Listed
  BY DEF ListInv
<1>3. /\ list.at = "reading" /\ UNCHANGED <<limit, rows>>
      /\ \/ list' = [list EXCEPT !.at = "refused"]
         \/ list' = [list EXCEPT !.at = "partial", !.got = @ \o page.data]
         \/ /\ SnapshotWarnings(fleet, SelectRegions(regions, list.query)) = {}
            /\ list' = [list EXCEPT !.at = IF page.next = 0 THEN "complete" ELSE "reading",
                                    !.got = @ \o page.data, !.offset = page.next]
  BY <1>1 DEF ReadPage, Filtered
<1>4. /\ limit \in Nat \ {0} /\ rows \in SUBSET RowPlaces /\ rows \in SUBSET Possible(list.resource)
      /\ list.resource \in {"nodes", "rooms"} /\ list.query \in Queries
      /\ list.offset \in Nat /\ list.got \in Seq(RowPlaces)
  BY <1>2, <1>3 DEF ListTypes
<1>5. there \in SUBSET (Int \X Int) /\ IsFiniteSet(there)
  BY <1>1, <1>4, RowsAreFinite
<1>6. page.data \in Seq(RowPlaces)
  <2>1. ProjectRows(list.resource, fleet, SelectRegions(regions, list.query)) \in SUBSET RowPlaces
    BY <1>1, <1>4, SnapshotRows
  <2>2. /\ shown \in SUBSET (Int \X Int) /\ IsFiniteSet(shown) /\ shown \in SUBSET RowPlaces
    BY <1>1, <2>1, RowsAreFinite
  <2>3. Cardinality(shown) \in Nat /\ Ordered(shown) \in [1..Cardinality(shown) -> shown]
    BY <2>2, OrderedRows
  <2>4. Ordered(shown) \in [1..Cardinality(shown) -> RowPlaces]
    BY <2>2, <2>3
  <2> QED BY <1>1, <1>4, <2>3, <2>4, PageHolds
<1>7. PICK got : got = list.got \o page.data
  OBVIOUS
<1>8. got \in Seq(RowPlaces)
  BY <1>4, <1>6, <1>7, JoinedPages
<1>9. CASE list' = [list EXCEPT !.at = "refused"]
  <2>1. ListTypes'
    BY <1>2, <1>3, <1>9 DEF ListTypes, ListStates
  <2>2. list'.at = "refused"
    BY <1>2, <1>9 DEF ListTypes
  <2> QED BY <2>1, <2>2 DEF Listed, ListsAreComplete
<1>10. CASE list' = [list EXCEPT !.at = "partial", !.got = got]
  <2>1. ListTypes'
    BY <1>2, <1>3, <1>8, <1>10 DEF ListTypes, ListStates
  <2>2. list'.at = "partial"
    BY <1>2, <1>10 DEF ListTypes
  <2> QED BY <2>1, <2>2 DEF Listed, ListsAreComplete
<1>11. CASE /\ SnapshotWarnings(fleet, SelectRegions(regions, list.query)) = {}
            /\ list' = [list EXCEPT !.at = IF page.next = 0 THEN "complete" ELSE "reading",
                                    !.got = got, !.offset = page.next]
  <2>1. shown = there
    BY <1>1, <1>4, <1>11, SnapshotIsTrue
  <2>2. /\ page.next \in Nat
        /\ list.kept => \A row \in list.due :
             /\ row \in there
             /\ \/ row \in ToSet(got)
                \/ page.next # 0 /\ Cardinality(Ahead(there, row)) >= page.next
        /\ list.changes = 0 =>
             /\ list.due = there /\ page.next <= Cardinality(there)
             /\ Len(got) = IF page.next = 0 THEN Cardinality(there) ELSE page.next
             /\ \A i \in 1..Len(got) : got[i] = Ordered(there)[i]
    <3>1. there = WantedNow /\ page = TruePage /\ got = GotThen
      BY <1>1, <1>7, <2>1 DEF WantedNow, TruePage, GotThen
    <3>2. OnePageOn(there, page, got, Cardinality(there), Ordered(there))
      BY <1>2, <1>3, <3>1, NextPage
    <3> QED BY <3>2 DEF OnePageOn
  <2>3. ListTypes'
    BY <1>2, <1>3, <1>8, <1>11, <2>2 DEF ListTypes, ListStates
  <2>4. /\ list'.at = (IF page.next = 0 THEN "complete" ELSE "reading")
        /\ list'.got = got /\ list'.offset = page.next /\ list'.query = list.query
        /\ list'.due = list.due /\ list'.kept = list.kept /\ list'.changes = list.changes
    BY <1>2, <1>11 DEF ListTypes
  <2>5. Wanted(rows, list.query)' = there
    BY <1>1, <1>3, <2>4 DEF Wanted, MatchRow
  <2>6. CASE page.next = 0
    <3>1. list.changes = 0 => /\ ToSet(got) = list.due
                              /\ \A i, j \in DOMAIN got : i < j => RowBefore(got[i], got[j])
      BY <1>5, <1>8, <2>2, <2>6, AllInOrder
    <3> QED BY <2>2, <2>3, <2>4, <2>6, <3>1 DEF Listed, ListsAreComplete
  <2>7. CASE page.next # 0
    <3>1. list.kept => StillAhead(there)'
      BY <2>2, <2>4, <2>7 DEF StillAhead
    <3>2. list.changes = 0 => InFront(there)'
      BY <2>2, <2>4, <2>7 DEF InFront
    <3>3. Listed'
      BY <2>4, <2>5, <3>1, <3>2 DEF Listed, StillAhead, InFront
    <3> QED BY <2>3, <2>4, <2>7, <3>3 DEF ListsAreComplete
  <2> QED BY <2>6, <2>7
<1>12. QED BY <1>3, <1>7, <1>9, <1>10, <1>11

LEMMA ListAsked ==
  ASSUME ListInv, NEW resource \in {"nodes", "rooms"}, AskList(resource)
  PROVE  ListTypes' /\ Listed' /\ ListsAreComplete'
<1>1. PICK there \in SUBSET Possible(resource), query \in Queries :
        /\ rows' = there
        /\ list' = [NoList EXCEPT !.at = "reading", !.resource = resource,
                                  !.query = query, !.due = Wanted(there, query)]
  BY DEF AskList
<1>2. limit' \in Nat \ {0}
  BY PageConstants DEF AskList
<1>3. there \in SUBSET RowPlaces
  BY DEF Possible, RowPlaces
<1>4. /\ Wanted(there, query) \in SUBSET (Int \X Int) /\ IsFiniteSet(Wanted(there, query))
      /\ Wanted(there, query) \in SUBSET RowPlaces
  BY <1>3, RowsAreFinite
<1>5. /\ list'.at = "reading" /\ list'.due = Wanted(there, query) /\ list'.query = query
      /\ list'.got = <<>> /\ list'.offset = 0 /\ list'.resource = resource
  BY <1>1 DEF NoList
<1>6. ListTypes'
  <2>1. <<>> \in Seq(RowPlaces)
    OBVIOUS
  <2>2. list' = [at |-> "reading", resource |-> resource, query |-> query, offset |-> 0,
                 due |-> Wanted(there, query), got |-> <<>>, kept |-> TRUE, changes |-> 0]
    BY <1>1 DEF NoList
  <2>3. list' \in [at : ListStates, resource : {"nodes", "rooms"}, query : Queries,
                   offset : Nat, due : SUBSET RowPlaces, got : Seq(RowPlaces),
                   kept : BOOLEAN, changes : Nat]
    BY <1>4, <2>1, <2>2 DEF ListStates
  <2>4. rows' \in SUBSET RowPlaces /\ rows' \in SUBSET Possible(resource)
    BY <1>1, <1>3
  <2>5. Possible(list.resource)' = Possible(resource)
    BY <1>5 DEF Possible
  <2> QED BY <1>2, <2>3, <2>4, <2>5 DEF ListTypes
<1>7. PICK wanted : wanted = Wanted(there, query)
  OBVIOUS
<1>8. Wanted(rows, list.query)' = wanted
  BY <1>1, <1>5, <1>7 DEF Wanted, MatchRow
<1>9. Cardinality(wanted) \in Nat /\ \A row \in wanted : Cardinality(Ahead(wanted, row)) \in Nat
  BY <1>4, <1>7, PlaceInRange, FS_CardinalityType
<1>10. StillAhead(wanted)' /\ InFront(wanted)'
  BY <1>5, <1>7, <1>9 DEF StillAhead, InFront
<1>11. Listed'
  BY <1>8, <1>10 DEF Listed, StillAhead, InFront
<1>12. QED BY <1>5, <1>6, <1>11 DEF ListsAreComplete

(* A new row only adds to what is ahead of the others.                     *)
LEMMA ListGrows ==
  ASSUME ListInv, RowAdded
  PROVE  ListTypes' /\ Listed' /\ ListsAreComplete'
<1>1. PICK row \in Possible(list.resource) \ rows : rows' = rows \cup {row}
  BY DEF RowAdded
<1>2. /\ list.at = "reading" /\ limit' = limit /\ list' = [list EXCEPT !.changes = @ + 1]
      /\ ListTypes /\ Listed
  BY DEF RowAdded, ListInv
<1>3. row \in RowPlaces /\ row \in Possible(list.resource)
  BY <1>1 DEF Possible, RowPlaces
<1>4. ListTypes'
  BY <1>1, <1>2, <1>3 DEF ListTypes, ListStates
<1>5. /\ list'.at = "reading" /\ list'.changes = list.changes + 1 /\ list.changes \in Nat
      /\ list'.kept = list.kept /\ list'.due = list.due /\ list'.got = list.got
      /\ list'.offset = list.offset /\ list'.query = list.query /\ list.offset \in Nat
  BY <1>2 DEF ListTypes
<1>6. list'.changes # 0
  BY <1>5
<1>7. PICK old, new : old = Wanted(rows, list.query) /\ new = Wanted(rows', list.query)
  OBVIOUS
<1>8. Wanted(rows, list.query)' = new
  BY <1>5, <1>7 DEF Wanted, MatchRow
<1>9. old \subseteq new
  BY <1>1, <1>7 DEF Wanted
<1>10. new \in SUBSET (Int \X Int) /\ IsFiniteSet(new)
  BY <1>4, <1>7, RowsAreFinite DEF ListTypes
<1>11. ASSUME NEW r \in old
       PROVE  /\ Cardinality(Ahead(old, r)) \in Nat /\ Cardinality(Ahead(new, r)) \in Nat
              /\ Cardinality(Ahead(old, r)) <= Cardinality(Ahead(new, r))
  <2>1. Ahead(old, r) \in SUBSET Ahead(new, r)
    BY <1>9 DEF Ahead
  <2>2. IsFiniteSet(Ahead(new, r)) /\ Cardinality(Ahead(new, r)) \in Nat
    BY <1>9, <1>10, PlaceInRange
  <2> QED BY <2>1, <2>2, FS_Subset, FS_CardinalityType
<1>12. list.kept => StillAhead(old)
  BY <1>2, <1>7 DEF Listed
<1>13. ASSUME list.kept, NEW r \in list.due
       PROVE  r \in new /\ (r \in ToSet(list.got) \/ Cardinality(Ahead(new, r)) >= list.offset)
  <2>1. r \in old /\ (r \in ToSet(list.got) \/ Cardinality(Ahead(old, r)) >= list.offset)
    BY <1>12, <1>13 DEF StillAhead
  <2> QED BY <1>5, <1>9, <1>11, <2>1
<1>14. list.kept => StillAhead(new)'
  BY <1>5, <1>13 DEF StillAhead
<1>15. Listed'
  BY <1>5, <1>6, <1>8, <1>14 DEF Listed, StillAhead
<1>16. QED BY <1>4, <1>5, <1>15 DEF ListsAreComplete

LEMMA ListShrinks ==
  ASSUME ListInv, RowRemoved
  PROVE  ListTypes' /\ Listed' /\ ListsAreComplete'
<1>1. PICK row \in rows : rows' = rows \ {row}
  BY DEF RowRemoved
<1>2. /\ list.at = "reading" /\ limit' = limit /\ ListTypes
      /\ list' = [list EXCEPT !.changes = @ + 1, !.kept = FALSE]
  BY DEF RowRemoved, ListInv
<1>3. ListTypes'
  <2>1. list' \in [at : ListStates, resource : {"nodes", "rooms"}, query : Queries,
                   offset : Nat, due : SUBSET RowPlaces, got : Seq(RowPlaces),
                   kept : BOOLEAN, changes : Nat]
    <3>1. PICK next : next = [list EXCEPT !.changes = @ + 1]
      OBVIOUS
    <3>2. next \in [at : ListStates, resource : {"nodes", "rooms"}, query : Queries,
                    offset : Nat, due : SUBSET RowPlaces, got : Seq(RowPlaces),
                    kept : BOOLEAN, changes : Nat]
      BY <1>2, <3>1 DEF ListTypes
    <3>3. list' = [next EXCEPT !.kept = FALSE]
      BY <1>2, <3>1
    <3> QED BY <3>2, <3>3
  <2>2. list'.resource = list.resource
    BY <1>2 DEF ListTypes
  <2>3. rows \in SUBSET RowPlaces /\ rows \in SUBSET Possible(list.resource) /\ limit \in Nat /\ limit > 0
    BY <1>2 DEF ListTypes
  <2>4. rows' \in SUBSET RowPlaces /\ rows' \in SUBSET Possible(list.resource)
    <3>1. rows' \subseteq rows
      BY <1>1
    <3> QED BY <2>3, <3>1
  <2>5. Possible(list.resource)' = Possible(list.resource)
    BY <2>2 DEF Possible
  <2> QED BY <1>2, <2>1, <2>3, <2>4, <2>5 DEF ListTypes
<1>4. /\ list'.at = "reading" /\ list'.changes = list.changes + 1 /\ list.changes \in Nat
      /\ list'.kept = FALSE
  BY <1>2 DEF ListTypes
<1>5. list'.changes # 0
  BY <1>4
<1>6. QED BY <1>3, <1>4, <1>5 DEF Listed, ListsAreComplete

LEMMA ListLeft ==
  ASSUME limit' = 0, rows' = {}, list' = NoList
  PROVE  ListTypes' /\ Listed' /\ ListsAreComplete'
<1>1. NoQuery \in Queries /\ <<>> \in Seq(RowPlaces)
  BY DEF NoQuery, Queries
<1>2. ListTypes'
  BY <1>1 DEF ListTypes, ListStates, NoList
<1>3. list'.at = "idle"
  BY DEF NoList
<1>4. QED BY <1>2, <1>3 DEF Listed, ListsAreComplete

LEMMA ListUntouched ==
  ASSUME ListInv, UNCHANGED <<rows, list>>,
         limit' = limit \/ (limit = 0 /\ limit' \in Nat)
  PROVE  ListTypes' /\ Listed' /\ ListsAreComplete'
<1>1. ListTypes'
  BY DEF ListInv, ListTypes
<1>2. Listed'
  BY DEF ListInv, Listed, StillAhead, InFront, Wanted, MatchRow
<1>3. QED BY <1>1, <1>2 DEF ListInv, ListsAreComplete

-----------------------------------------------------------------------------
(* Pages of a history: invariant.                                          *)

ReaderTypes ==
  /\ limit \in Nat /\ clock \in Nat /\ log \in Seq(Nat \ {0})
  /\ reader \in [at : {"idle", "reading", "done"}, before : Nat, saw : SUBSET Nat,
                 count : Nat, cursors : SUBSET Nat, start : Int, upto : Nat]
  /\ reader.at = "reading" => limit > 0

(* What the client has not seen is older than its cursor or of the time of *)
(* a cursor; what it has seen is not older.                                *)
Behind(i) == log[i] < reader.before \/ log[i] < reader.start \/ log[i] \in reader.cursors
Traced ==
  /\ Now <= clock /\ \A i \in DOMAIN log : log[i] <= clock
  /\ reader.upto <= Len(log) /\ reader.saw \in SUBSET DOMAIN log
  /\ reader.at = "reading" =>
       /\ reader.before <= clock
       /\ \A i \in reader.saw : reader.before # 0 /\ log[i] >= reader.before
       /\ reader.before # 0 =>
            /\ reader.start <= clock - Window
            /\ \A i \in (1..reader.upto) \ reader.saw : Behind(i)
ReaderInv == ReaderTypes /\ Traced /\ OnlyTiesAreSkipped

LEMMA OldestTime ==
  ASSUME NEW T \in SUBSET Nat, T # {}
  PROVE  \E t \in T : \A u \in T : t <= u
<1>1. PICK t \in T : \A u \in T : ~(<<u, t>> \in OpToRel(<, Nat))
  BY NatLessThanWellFounded, WFMin
<1>2. \A u \in T : ~(u < t)
  BY <1>1 DEF OpToRel
<1> QED
  BY <1>2

LEMMA LogTimes ==
  ASSUME ReaderInv
  PROVE  /\ Len(log) \in Nat /\ DOMAIN log = 1..Len(log) /\ IsFiniteSet(DOMAIN log)
         /\ \A i \in DOMAIN log : log[i] \in Nat \ {0} /\ log[i] <= clock
         /\ reader.upto \in Nat /\ reader.upto <= Len(log)
         /\ reader.saw \in SUBSET DOMAIN log /\ IsFiniteSet(reader.saw)
<1>1. log \in Seq(Nat \ {0})
  BY DEF ReaderInv, ReaderTypes
<1>2. /\ Len(log) \in Nat /\ DOMAIN log = 1..Len(log)
      /\ \A i \in DOMAIN log : log[i] \in Nat \ {0}
  BY <1>1
<1>3. IsFiniteSet(DOMAIN log)
  BY <1>2, FS_Interval
<1>4. /\ \A i \in DOMAIN log : log[i] <= clock
      /\ reader.upto \in Nat /\ reader.upto <= Len(log) /\ reader.saw \in SUBSET DOMAIN log
  BY DEF ReaderInv, ReaderTypes, Traced
<1>5. IsFiniteSet(reader.saw)
  BY <1>3, <1>4, FS_Subset
<1>6. QED BY <1>2, <1>3, <1>4, <1>5

(* An answer: fewer entries than asked for are all there are; otherwise    *)
(* the cursor is the time of the oldest, and what is left out is no newer. *)
LEMMA AnswerIsLatest ==
  ASSUME ReaderInv, limit \in Nat \ {0}, NEW start \in Int, NEW end \in Int,
         NEW T \in LokiAnswers(start, end)
  PROVE  /\ T \in SUBSET DOMAIN log /\ IsFiniteSet(T) /\ Cardinality(T) \in Nat
         /\ \A i \in T : log[i] >= start /\ log[i] <= end
         /\ LogPage(T).entries = T /\ LogPage(T).next_before \in Nat
         /\ LogPage(T).next_before = 0 =>
              \A i \in DOMAIN log : log[i] >= start /\ log[i] <= end => i \in T
         /\ LogPage(T).next_before # 0 =>
              /\ \E i \in T : log[i] = LogPage(T).next_before
              /\ \A i \in T : LogPage(T).next_before <= log[i]
              /\ \A i \in DOMAIN log \ T :
                   log[i] >= start /\ log[i] <= end => log[i] <= LogPage(T).next_before
<1>1. PICK within : within = {i \in DOMAIN log : log[i] \in start..end}
  OBVIOUS
<1>2. /\ T \in SUBSET within /\ Cardinality(T) = Least(limit, Cardinality(within))
      /\ \A i \in T, j \in within \ T : log[j] <= log[i]
  BY <1>1 DEF LokiAnswers
<1>3. /\ \A i \in DOMAIN log : log[i] \in Nat \ {0}
      /\ IsFiniteSet(DOMAIN log)
  BY LogTimes
<1>4. /\ within \in SUBSET DOMAIN log
      /\ \A i \in DOMAIN log : i \in within <=> log[i] >= start /\ log[i] <= end
  BY <1>1, <1>3
<1>5. IsFiniteSet(within) /\ Cardinality(within) \in Nat
  BY <1>3, <1>4, FS_Subset, FS_CardinalityType
<1>6. IsFiniteSet(T) /\ Cardinality(T) \in Nat
  BY <1>2, <1>5, FS_Subset, FS_CardinalityType
<1>7. CASE Cardinality(T) < limit
  <2>1. Cardinality(within) = Cardinality(T)
    BY <1>2, <1>5, <1>6, <1>7 DEF Least
  <2>2. within = T
    BY <1>2, <1>5, <2>1, FS_Subset
  <2>3. LogPage(T).next_before = 0 /\ LogPage(T).entries = T
    BY <1>7 DEF LogPage
  <2> QED BY <1>2, <1>4, <1>6, <2>2, <2>3
<1>8. CASE ~(Cardinality(T) < limit)
  <2>1. PICK times : times = {log[i] : i \in T}
    OBVIOUS
  <2>2. Cardinality(T) # 0
    BY <1>6, <1>8
  <2>3. T # {}
    BY <2>2, FS_EmptySet
  <2>4. times \in SUBSET Nat /\ times # {}
    BY <1>2, <1>3, <1>4, <2>1, <2>3
  <2>5. \E t \in times : \A u \in times : t <= u
    BY <2>4, OldestTime
  <2>6. LogPage(T).entries = T /\ LogPage(T).next_before = CHOOSE t \in times : \A i \in T : t <= log[i]
    BY <1>8, <2>1 DEF LogPage
  <2>7. \E t \in times : \A i \in T : t <= log[i]
    BY <2>1, <2>5
  <2>8. PICK next : next = LogPage(T).next_before
    OBVIOUS
  <2>9. next \in times /\ \A i \in T : next <= log[i]
    BY <2>6, <2>7, <2>8
  <2>10. PICK k \in T : log[k] = next
    BY <2>1, <2>9
  <2>11. next \in Nat \ {0}
    BY <1>2, <1>3, <1>4, <2>10
  <2>12. \A i \in DOMAIN log \ T : log[i] >= start /\ log[i] <= end => log[i] <= next
    BY <1>2, <1>4, <2>10
  <2>13. \A i \in T : log[i] >= start /\ log[i] <= end
    BY <1>2, <1>4
  <2> QED BY <1>2, <1>4, <1>6, <2>6, <2>8, <2>9, <2>10, <2>11, <2>12, <2>13
<1>9. QED BY <1>7, <1>8

LEMMA LogPageRead ==
  ASSUME ReaderInv, ReadLogPage
  PROVE  ReaderTypes' /\ Traced' /\ OnlyTiesAreSkipped'
<1>1. /\ reader.at = "reading" /\ UNCHANGED <<limit, log, clock>>
      /\ limit \in Nat \ {0} /\ clock \in Nat /\ Window \in Nat
      /\ reader.before \in Nat /\ reader.start \in Int /\ reader.count \in Nat
      /\ reader.cursors \in SUBSET Nat /\ ReaderTypes
  <2>1. reader.at = "reading" /\ UNCHANGED <<limit, log, clock>>
    BY DEF ReadLogPage
  <2>2. ReaderTypes /\ Window \in Nat
    BY PageConstants DEF ReaderInv
  <2> QED BY <2>1, <2>2 DEF ReaderTypes
<1>2. /\ Len(log) \in Nat /\ DOMAIN log = 1..Len(log) /\ IsFiniteSet(DOMAIN log)
      /\ \A i \in DOMAIN log : log[i] \in Nat \ {0} /\ log[i] <= clock
      /\ reader.upto \in Nat /\ reader.upto <= Len(log)
      /\ reader.saw \in SUBSET DOMAIN log /\ IsFiniteSet(reader.saw)
  BY LogTimes
<1>3. /\ Now <= clock /\ reader.before <= clock
      /\ reader.before # 0 => reader.start <= clock - Window
      /\ \A i \in reader.saw : reader.before # 0 /\ log[i] >= reader.before
      /\ reader.before # 0 => \A i \in (1..reader.upto) \ reader.saw : Behind(i)
  BY <1>1 DEF ReaderInv, Traced
<1>4. reader.count = Cardinality(reader.saw)
  BY DEF ReaderInv, OnlyTiesAreSkipped
<1>5. CASE BadCursor(reader.before, clock)
  <2>1. reader' = [reader EXCEPT !.at = "done", !.start = clock - Window]
    BY <1>5 DEF ReadLogPage
  <2>2. clock - Window \in Int
    BY <1>1
  <2>3. ReaderTypes'
    BY <1>1, <2>1, <2>2 DEF ReaderTypes
  <2>4. /\ reader'.at = "done" /\ reader'.start = clock - Window /\ reader'.saw = reader.saw
        /\ reader'.upto = reader.upto /\ reader'.cursors = reader.cursors
        /\ reader'.count = reader.count
    BY <1>1, <2>1 DEF ReaderTypes
  <2>5. Traced'
    BY <1>1, <1>2, <1>3, <2>4 DEF Traced
  <2>6. reader.before # 0 /\ reader.before <= clock - Window
    BY <1>1, <1>3, <1>5 DEF BadCursor
  <2>7. ASSUME NEW i \in 1..reader.upto, log[i] >= clock - Window, i \notin reader.saw
        PROVE  log[i] \in reader.cursors
    <3>1. Behind(i) /\ i \in DOMAIN log /\ log[i] \in Nat
      BY <1>2, <1>3, <2>6, <2>7
    <3> QED BY <1>1, <1>3, <2>6, <2>7, <3>1 DEF Behind
  <2>8. OnlyTiesAreSkipped'
    BY <1>1, <1>4, <2>4, <2>7 DEF OnlyTiesAreSkipped
  <2> QED BY <2>3, <2>5, <2>8
<1>6. CASE ~BadCursor(reader.before, clock)
  <2>1. PICK start, end : start = clock - Window /\ end = End(reader.before, clock)
    OBVIOUS
  <2>2. /\ start \in Int /\ end \in Int /\ (reader.before # 0 => reader.start <= start)
        /\ reader.before = 0 => end = clock
        /\ reader.before # 0 => end = reader.before - 1
    BY <1>1, <1>3, <2>1 DEF End
  <2>3. PICK T \in LokiAnswers(start, end) :
          reader' = [reader EXCEPT
                       !.at = IF LogPage(T).next_before = 0 THEN "done" ELSE "reading",
                       !.before = LogPage(T).next_before, !.start = start,
                       !.saw = @ \cup LogPage(T).entries,
                       !.count = @ + Cardinality(LogPage(T).entries),
                       !.cursors = IF LogPage(T).next_before = 0 THEN @
                                   ELSE @ \cup {LogPage(T).next_before}]
    BY <1>6, <2>1 DEF ReadLogPage
  <2>4. PICK next : next = LogPage(T).next_before
    OBVIOUS
  <2>5. /\ T \in SUBSET DOMAIN log /\ IsFiniteSet(T) /\ Cardinality(T) \in Nat
        /\ \A i \in T : log[i] >= start /\ log[i] <= end
        /\ LogPage(T).entries = T /\ next \in Nat
        /\ next = 0 => \A i \in DOMAIN log : log[i] >= start /\ log[i] <= end => i \in T
        /\ next # 0 =>
             /\ \E i \in T : log[i] = next
             /\ \A i \in T : next <= log[i]
             /\ \A i \in DOMAIN log \ T : log[i] >= start /\ log[i] <= end => log[i] <= next
    BY <1>1, <2>2, <2>4, AnswerIsLatest
  <2>6. reader' = [reader EXCEPT
                     !.at = IF next = 0 THEN "done" ELSE "reading", !.before = next,
                     !.start = start, !.saw = @ \cup T, !.count = @ + Cardinality(T),
                     !.cursors = IF next = 0 THEN @ ELSE @ \cup {next}]
    BY <2>3, <2>4, <2>5
  <2>7. /\ reader.saw \cup T \in SUBSET DOMAIN log /\ IsFiniteSet(reader.saw \cup T)
        /\ reader.saw \cup T \in SUBSET Nat
    <3>1. IsFiniteSet(reader.saw \cup T)
      BY <1>2, <2>5, FS_Union
    <3>2. reader.saw \cup T \in SUBSET DOMAIN log /\ DOMAIN log \subseteq Nat
      BY <1>2, <2>5
    <3> QED BY <3>1, <3>2
  <2>8. reader.saw \cap T = {}
    <3>1. \A i \in reader.saw : i \in DOMAIN log /\ log[i] \in Nat /\ log[i] > end
      BY <1>1, <1>2, <1>3, <2>2
    <3>2. \A i \in T : log[i] <= end
      BY <2>5
    <3> QED BY <2>2, <3>1, <3>2
  <2>9. Cardinality(reader.saw \cup T) = reader.count + Cardinality(T)
    <3>1. Cardinality(reader.saw \cup T)
          = Cardinality(reader.saw) + Cardinality(T) - Cardinality(reader.saw \cap T)
      BY <1>2, <2>5, FS_Union
    <3>2. Cardinality(reader.saw \cap T) = 0
      BY <2>8, FS_EmptySet
    <3> QED BY <1>1, <1>4, <2>5, <3>1, <3>2
  <2>10. reader.count + Cardinality(T) \in Nat
    BY <1>1, <2>5
  <2>11. PICK cursors : cursors = IF next = 0 THEN reader.cursors ELSE reader.cursors \cup {next}
    OBVIOUS
  <2>12. cursors \in SUBSET Nat /\ reader.cursors \in SUBSET cursors
    BY <1>1, <2>5, <2>11
  <2>13. /\ reader'.at = (IF next = 0 THEN "done" ELSE "reading") /\ reader'.before = next
         /\ reader'.start = start /\ reader'.saw = reader.saw \cup T
         /\ reader'.count = reader.count + Cardinality(T) /\ reader'.cursors = cursors
         /\ reader'.upto = reader.upto
    BY <1>1, <2>6, <2>11 DEF ReaderTypes
  <2>14. ReaderTypes'
    <3>1. reader' \in [at : {"idle", "reading", "done"}, before : Nat, saw : SUBSET Nat,
                       count : Nat, cursors : SUBSET Nat, start : Int, upto : Nat]
      BY <1>1, <2>2, <2>5, <2>6, <2>7, <2>10, <2>11, <2>12 DEF ReaderTypes
    <3> QED BY <1>1, <3>1 DEF ReaderTypes
  <2>15. ASSUME NEW i \in 1..reader.upto, i \notin reader.saw \cup T, log[i] >= start
         PROVE  log[i] \in cursors \/ (next # 0 /\ log[i] < next)
    <3>1. i \in DOMAIN log /\ log[i] \in Nat /\ log[i] <= clock
      BY <1>2
    <3>2. CASE log[i] <= end
      <4>1. next # 0 /\ log[i] <= next
        BY <2>5, <2>15, <3>1, <3>2
      <4>2. log[i] = next => log[i] \in cursors
        BY <2>11, <4>1
      <4> QED BY <2>5, <3>1, <4>1, <4>2
    <3>3. CASE ~(log[i] <= end)
      <4>1. reader.before # 0 /\ log[i] >= reader.before
        BY <1>1, <2>2, <3>1, <3>3
      <4>2. Behind(i)
        BY <1>3, <2>15, <4>1
      <4>3. log[i] \in reader.cursors
        BY <1>1, <2>2, <2>15, <3>1, <4>1, <4>2 DEF Behind
      <4> QED BY <2>12, <4>3
    <3> QED BY <3>2, <3>3
  <2>16. /\ next <= clock
         /\ next # 0 => \A i \in reader.saw \cup T : log[i] >= next
    <3>1. CASE next = 0
      BY <1>1, <3>1
    <3>2. CASE next # 0
      <4>1. PICK k \in T : log[k] = next
        BY <2>5, <3>2
      <4>2. next <= clock /\ next <= end
        BY <1>2, <2>5, <4>1
      <4>3. ASSUME NEW i \in reader.saw
            PROVE  log[i] >= next
        <5>1. reader.before # 0 /\ log[i] >= reader.before /\ log[i] \in Nat
          BY <1>2, <1>3
        <5> QED BY <1>1, <2>2, <2>5, <4>2, <5>1
      <4>4. ASSUME NEW i \in T
            PROVE  log[i] >= next
        BY <1>2, <2>5, <3>2
      <4> QED BY <4>2, <4>3, <4>4
    <3> QED BY <3>1, <3>2
  <2>17. Traced'
    <3>1. /\ Now <= clock' /\ \A i \in DOMAIN log' : log'[i] <= clock'
          /\ reader'.upto <= Len(log') /\ reader'.saw \in SUBSET DOMAIN log'
      BY <1>1, <1>2, <1>3, <2>7, <2>13
    <3>2. ASSUME next # 0
          PROVE  /\ reader'.before <= clock' /\ reader'.start <= clock' - Window
                 /\ \A i \in reader'.saw : reader'.before # 0 /\ log'[i] >= reader'.before
                 /\ \A i \in (1..reader'.upto) \ reader'.saw : Behind(i)'
      <4>1. /\ reader'.before <= clock' /\ reader'.start <= clock' - Window
            /\ \A i \in reader'.saw : reader'.before # 0 /\ log'[i] >= reader'.before
        BY <1>1, <2>1, <2>2, <2>13, <2>16, <3>2
      <4>2. ASSUME NEW i \in (1..reader.upto) \ (reader.saw \cup T)
            PROVE  log[i] < next \/ log[i] < start \/ log[i] \in cursors
        <5>1. i \in DOMAIN log /\ log[i] \in Nat
          BY <1>2
        <5> QED BY <2>2, <2>15, <4>2, <5>1
      <4> QED BY <1>1, <2>13, <4>1, <4>2 DEF Behind
    <3> QED BY <2>13, <3>1, <3>2 DEF Traced
  <2>18. OnlyTiesAreSkipped'
    <3>1. reader'.count = Cardinality(reader'.saw)
      BY <2>9, <2>13
    <3>2. ASSUME next = 0
          PROVE  \A i \in 1..reader'.upto :
                   log'[i] >= reader'.start /\ i \notin reader'.saw => log'[i] \in reader'.cursors
      BY <1>1, <2>13, <2>15, <3>2
    <3> QED BY <2>13, <3>1, <3>2 DEF OnlyTiesAreSkipped
  <2> QED BY <2>14, <2>17, <2>18
<1>7. QED BY <1>5, <1>6

LEMMA LogAsked ==
  ASSUME ReaderInv, AskLog
  PROVE  ReaderTypes' /\ Traced' /\ OnlyTiesAreSkipped'
<1>1. PICK n \in 0..MaxEntries :
        /\ log' \in [1..n -> 1..Now]
        /\ reader' = [NoReader EXCEPT !.at = "reading", !.upto = n]
  BY DEF AskLog
<1>2. limit' \in Nat \ {0} /\ n \in Nat /\ Now \in Nat /\ clock' = clock /\ clock \in Nat
  BY PageConstants DEF AskLog, ReaderInv, ReaderTypes
<1>3. log' \in Seq(Nat \ {0}) /\ Len(log') = n /\ DOMAIN log' = 1..n
  BY <1>1, <1>2
<1>4. reader' = [at |-> "reading", before |-> 0, saw |-> {}, count |-> 0, cursors |-> {},
                 start |-> 0, upto |-> n]
  BY <1>1 DEF NoReader
<1>5. ReaderTypes'
  BY <1>2, <1>3, <1>4 DEF ReaderTypes
<1>6. Traced'
  <2>1. Now <= clock /\ \A i \in 1..n : log'[i] \in 1..Now
    BY <1>1 DEF ReaderInv, Traced
  <2>2. /\ reader'.upto = n /\ reader'.saw = {} /\ reader'.before = 0
    BY <1>4
  <2> QED BY <1>2, <1>3, <2>1, <2>2 DEF Traced
<1>7. OnlyTiesAreSkipped'
  BY <1>4, FS_EmptySet DEF OnlyTiesAreSkipped
<1>8. QED BY <1>5, <1>6, <1>7

(* A late entry has a number of its own; what was there keeps its own.     *)
LEMMA EntryLogged ==
  ASSUME ReaderInv, Logged
  PROVE  ReaderTypes' /\ Traced' /\ OnlyTiesAreSkipped'
<1>1. PICK t \in 1..clock : log' = Append(log, t)
  BY DEF Logged
<1>2. /\ reader.at = "reading" /\ UNCHANGED <<limit, clock, reader>> /\ ReaderTypes
  BY DEF Logged, ReaderInv
<1>3. log \in Seq(Nat \ {0}) /\ t \in Nat \ {0} /\ t <= clock
  BY <1>2 DEF ReaderTypes
<1>4. /\ log' \in Seq(Nat \ {0}) /\ Len(log') = Len(log) + 1 /\ Len(log) \in Nat
      /\ DOMAIN log = 1..Len(log) /\ DOMAIN log' = 1..(Len(log) + 1)
      /\ \A i \in DOMAIN log : log'[i] = log[i]
      /\ log'[Len(log) + 1] = t
  BY <1>1, <1>3
<1>5. ReaderTypes'
  BY <1>2, <1>4 DEF ReaderTypes
<1>6. Traced /\ reader.upto \in Nat /\ reader.upto <= Len(log) /\ reader.saw \in SUBSET DOMAIN log
  BY <1>2 DEF ReaderInv, Traced, ReaderTypes
<1>7. \A i \in 1..reader.upto : i \in DOMAIN log
  BY <1>4, <1>6
<1>8. \A i \in (1..reader.upto) : Behind(i) => Behind(i)'
  BY <1>2, <1>4, <1>7 DEF Behind
<1>9. Traced'
  <2>1. Now <= clock' /\ \A i \in DOMAIN log' : log'[i] <= clock'
    <3>1. \A i \in DOMAIN log' : i \in DOMAIN log \/ i = Len(log) + 1
      BY <1>4
    <3> QED BY <1>2, <1>3, <1>4, <1>6, <3>1 DEF Traced
  <2>2. reader'.upto <= Len(log') /\ reader'.saw \in SUBSET DOMAIN log'
    BY <1>2, <1>4, <1>6
  <2>3. /\ reader'.before <= clock'
        /\ \A i \in reader'.saw : reader'.before # 0 /\ log'[i] >= reader'.before
        /\ reader'.before # 0 =>
             /\ reader'.start <= clock' - Window
             /\ \A i \in (1..reader'.upto) \ reader'.saw : Behind(i)'
    BY <1>2, <1>4, <1>6, <1>8 DEF Traced
  <2> QED BY <2>1, <2>2, <2>3 DEF Traced
<1>10. OnlyTiesAreSkipped'
  BY <1>2 DEF ReaderInv, OnlyTiesAreSkipped
<1>11. QED BY <1>5, <1>9, <1>10

LEMMA TimePasses ==
  ASSUME ReaderInv, PageTick
  PROVE  ReaderTypes' /\ Traced' /\ OnlyTiesAreSkipped'
<1>1. /\ reader.at = "reading" /\ UNCHANGED <<limit, log, reader>> /\ clock' = clock + 1
      /\ clock \in Nat /\ Now \in Nat /\ Window \in Nat
      /\ reader.before \in Nat /\ reader.start \in Int
  BY PageConstants DEF PageTick, ReaderInv, ReaderTypes
<1>2. ReaderTypes'
  BY <1>1 DEF ReaderInv, ReaderTypes
<1>3. \A i \in DOMAIN log : log[i] \in Nat
  BY LogTimes
<1>4. Traced'
  <2>1. Now <= clock' /\ \A i \in DOMAIN log' : log'[i] <= clock'
    BY <1>1, <1>3 DEF ReaderInv, Traced
  <2>2. /\ reader'.before <= clock'
        /\ reader'.before # 0 => reader'.start <= clock' - Window
    BY <1>1 DEF ReaderInv, Traced
  <2>3. \A i : Behind(i) => Behind(i)'
    BY <1>1 DEF Behind
  <2> QED BY <1>1, <2>1, <2>2, <2>3 DEF ReaderInv, Traced
<1>5. OnlyTiesAreSkipped'
  BY <1>1 DEF ReaderInv, OnlyTiesAreSkipped
<1>6. QED BY <1>2, <1>4, <1>5

LEMMA LogLeft ==
  ASSUME limit' = 0, log' = <<>>, clock' = Now, reader' = NoReader
  PROVE  ReaderTypes' /\ Traced' /\ OnlyTiesAreSkipped'
<1>1. /\ Now \in Nat /\ log' \in Seq(Nat \ {0}) /\ Len(log') = 0 /\ DOMAIN log' = {}
  BY PageConstants
<1>2. reader' = [at |-> "idle", before |-> 0, saw |-> {}, count |-> 0, cursors |-> {},
                 start |-> 0, upto |-> 0]
  BY DEF NoReader
<1>3. ReaderTypes'
  BY <1>1, <1>2 DEF ReaderTypes
<1>4. Traced'
  BY <1>1, <1>2 DEF Traced
<1>5. OnlyTiesAreSkipped'
  BY <1>2, FS_EmptySet DEF OnlyTiesAreSkipped
<1>6. QED BY <1>3, <1>4, <1>5

LEMMA LogUntouched ==
  ASSUME ReaderInv, UNCHANGED <<log, clock, reader>>,
         limit' = limit \/ (limit = 0 /\ limit' \in Nat)
  PROVE  ReaderTypes' /\ Traced' /\ OnlyTiesAreSkipped'
<1>1. ReaderTypes'
  BY DEF ReaderInv, ReaderTypes
<1>2. Traced'
  BY DEF ReaderInv, Traced, Behind
<1>3. QED BY <1>1, <1>2 DEF ReaderInv, OnlyTiesAreSkipped

-----------------------------------------------------------------------------
(* Pages: theorems.                                                        *)

PagesInv == ListInv /\ ReaderInv

LEMMA PagesBegin ==
  ASSUME PageInit
  PROVE  PagesInv
<1>1. /\ limit = 0 /\ rows = {} /\ list = NoList /\ log = <<>> /\ clock = Now
      /\ reader = NoReader
  BY DEF PageInit
<1>2. NoQuery \in Queries /\ <<>> \in Seq(RowPlaces)
  BY DEF NoQuery, Queries
<1>3. ListTypes /\ Listed /\ ListsAreComplete
  BY <1>1, <1>2 DEF ListTypes, ListStates, NoList, Listed, ListsAreComplete
<1>4. /\ Now \in Nat /\ log \in Seq(Nat \ {0}) /\ Len(log) = 0 /\ DOMAIN log = {}
  BY <1>1, PageConstants
<1>5. ReaderTypes /\ Traced /\ OnlyTiesAreSkipped
  BY <1>1, <1>4, FS_EmptySet DEF ReaderTypes, Traced, OnlyTiesAreSkipped, NoReader
<1>6. QED BY <1>3, <1>5 DEF PagesInv, ListInv, ReaderInv

LEMMA PagesStep ==
  ASSUME PagesInv, [PageNext]_pageVars
  PROVE  PagesInv'
<1> DEFINE ListThen == ListTypes' /\ Listed' /\ ListsAreComplete'
           ReaderThen == ReaderTypes' /\ Traced' /\ OnlyTiesAreSkipped'
<1>1. ListInv /\ ReaderInv
  BY DEF PagesInv
<1>2. SUFFICES ListThen /\ ReaderThen
  BY DEF PagesInv, ListInv, ReaderInv
<1>3. MaxLimit \in Nat
  BY PageConstants
<1> HIDE DEF ListThen, ReaderThen
<1>4. CASE \E resource \in {"nodes", "rooms"} : AskList(resource)
  <2>1. PICK resource \in {"nodes", "rooms"} : AskList(resource)
    BY <1>4
  <2>2. limit = 0 /\ limit' \in Nat /\ UNCHANGED <<log, clock, reader>>
    BY <1>3, <2>1 DEF AskList
  <2> QED BY <1>1, <2>1, <2>2, ListAsked, LogUntouched DEF ListThen, ReaderThen
<1>5. CASE \E failed \in [Region -> SUBSET Reads], fleetOk \in BOOLEAN : ReadPage(failed, fleetOk)
  <2>1. PICK failed \in [Region -> SUBSET Reads], fleetOk \in BOOLEAN : ReadPage(failed, fleetOk)
    BY <1>5
  <2>2. UNCHANGED <<limit, log, clock, reader>>
    BY <2>1 DEF ReadPage
  <2> QED BY <1>1, <2>1, <2>2, PageRead, LogUntouched DEF ListThen, ReaderThen
<1>6. CASE RowAdded
  <2>1. UNCHANGED <<limit, log, clock, reader>>
    BY <1>6 DEF RowAdded
  <2> QED BY <1>1, <1>6, <2>1, ListGrows, LogUntouched DEF ListThen, ReaderThen
<1>7. CASE RowRemoved
  <2>1. UNCHANGED <<limit, log, clock, reader>>
    BY <1>7 DEF RowRemoved
  <2> QED BY <1>1, <1>7, <2>1, ListShrinks, LogUntouched DEF ListThen, ReaderThen
<1>8. CASE AskLog
  <2>1. limit = 0 /\ limit' \in Nat /\ UNCHANGED <<rows, list>>
    BY <1>3, <1>8 DEF AskLog
  <2> QED BY <1>1, <1>8, <2>1, ListUntouched, LogAsked DEF ListThen, ReaderThen
<1>9. CASE ReadLogPage
  <2>1. UNCHANGED <<limit, rows, list>>
    BY <1>9 DEF ReadLogPage
  <2> QED BY <1>1, <1>9, <2>1, ListUntouched, LogPageRead DEF ListThen, ReaderThen
<1>10. CASE Logged
  <2>1. UNCHANGED <<limit, rows, list>>
    BY <1>10 DEF Logged
  <2> QED BY <1>1, <1>10, <2>1, ListUntouched, EntryLogged DEF ListThen, ReaderThen
<1>11. CASE PageTick
  <2>1. UNCHANGED <<limit, rows, list>>
    BY <1>11 DEF PageTick
  <2> QED BY <1>1, <1>11, <2>1, ListUntouched, TimePasses DEF ListThen, ReaderThen
<1>12. CASE Leave
  <2>1. /\ limit' = 0 /\ rows' = {} /\ list' = NoList
        /\ log' = <<>> /\ clock' = Now /\ reader' = NoReader
    BY <1>12 DEF Leave
  <2> QED BY <2>1, ListLeft, LogLeft DEF ListThen, ReaderThen
<1>13. CASE UNCHANGED pageVars
  <2>1. UNCHANGED <<limit, rows, list>> /\ UNCHANGED <<log, clock, reader>>
    BY <1>13 DEF pageVars
  <2> QED BY <1>1, <2>1, ListUntouched, LogUntouched DEF ListThen, ReaderThen
<1>14. QED
  BY <1>4, <1>5, <1>6, <1>7, <1>8, <1>9, <1>10, <1>11, <1>12, <1>13 DEF PageNext

(* Lists (versionedAPI and the projections of a snapshot): whatever reads  *)
(* of the clusters fail and however rows come and go between two pages, a  *)
(* list that ends without a warning lacks no row that was there when it    *)
(* was asked for, unless a row has gone meanwhile, and it is exact and in  *)
(* order if nothing has changed; for any page size and number of rows.     *)
THEOREM ListsComplete == PageSpec => []ListsAreComplete
<1>1. PagesInv => ListsAreComplete
  BY DEF PagesInv, ListInv
<1> QED
  BY <1>1, PagesBegin, PagesStep, PTL DEF PageSpec

(* Logs: a client that follows next_before gets no entry twice, even if    *)
(* entries come late, and of those that were there when it began and are   *)
(* still in its interval it misses only ties with the oldest of a page.    *)
THEOREM HistoryComplete == PageSpec => []OnlyTiesAreSkipped
<1>1. PagesInv => OnlyTiesAreSkipped
  BY DEF PagesInv, ReaderInv
<1> QED
  BY <1>1, PagesBegin, PagesStep, PTL DEF PageSpec
=============================================================================
