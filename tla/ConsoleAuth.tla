----------------------------- MODULE ConsoleAuth -----------------------------
(***************************************************************************)
(* Login, sessions and login limits of the console                         *)
(* (internal/console/auth.go, login and api in http.go).  Every request is *)
(* a goroutine; the tables are guarded by auth.mu, taken anew by every     *)
(* step below.  Times are what is left before a deadline.                  *)
(***************************************************************************)
EXTENDS Integers, FiniteSets, Functions

CONSTANTS
  Operator,       \* requests that may be under way at the same time
  Peer,           \* network addresses logins come from
  MaxSessions,    \* 64
  SessionTTL,     \* 8 hours
  LoginPerPeer,   \* 5 attempts
  LoginGlobal,    \* 20 attempts
  LoginWindow,    \* 5 minutes
  MaxLoginPeers,  \* 4096
  LoginSlots,     \* 2 password verifications at a time
  MaxRequests     \* bound: requests in a behaviour

ASSUME AuthConstants ==
  {MaxSessions, SessionTTL, LoginPerPeer, LoginGlobal, LoginWindow,
   MaxLoginPeers, LoginSlots, MaxRequests} \subseteq Nat \ {0}

VARIABLES
  sessions,   \* sessions[s]: time left of session s; its domain is the table
  peers,      \* peers[p]: attempts and time left of the window of peer p
  global,     \* attempts and time left of the common window
  cookies,    \* the session tokens browsers hold
  at,         \* at[o]: where request o is
  asked       \* number of requests so far

tables == <<sessions, peers, global>>
authVars == <<sessions, peers, global, cookies, at, asked>>

Ids == 1..(MaxRequests + 1)
Empty == [x \in {} |-> 0]

(* A console just started, or with one administrator logged in.            *)
AuthInit ==
  /\ cookies \in {{}, {1}} /\ sessions = [s \in cookies |-> SessionTTL]
  /\ peers = Empty /\ global = [count |-> 0, left |-> 0]
  /\ at = [o \in Operator |-> "idle"]
  /\ asked = 0

Begin(o) == at[o] = "idle" /\ asked < MaxRequests /\ asked' = asked + 1
Goto(o, where) == at' = [at EXCEPT ![o] = where]

(* pruneLocked drops what has expired.                                     *)
OpenSessions == Restrict(sessions, {s \in DOMAIN sessions : sessions[s] > 0})
\* Mutant: the windows of the peers are never closed.
OpenWindowsKept == Restrict(peers, {p \in DOMAIN peers : peers[p].count > 0})
OpenWindows == Restrict(peers, {p \in DOMAIN peers : peers[p].left > 0})

-----------------------------------------------------------------------------
(* allowLogin.  A refused attempt is not counted.                          *)
NewWindow == [count |-> 0, left |-> LoginWindow]
GlobalWindow == IF global.left > 0 THEN global ELSE NewWindow
PeerWindow(p) == IF p \in DOMAIN OpenWindows THEN peers[p] ELSE NewWindow
Allowed(p) ==
  /\ p \in DOMAIN OpenWindows \/ Cardinality(DOMAIN OpenWindows) < MaxLoginPeers
  /\ GlobalWindow.count < LoginGlobal /\ PeerWindow(p).count < LoginPerPeer

Attempt(o, p) ==
  /\ Begin(o) /\ Allowed(p)
  /\ sessions' = OpenSessions
  /\ global' = [GlobalWindow EXCEPT !.count = @ + 1]
  /\ peers' = [q \in DOMAIN OpenWindows \cup {p} |->
                 IF q = p THEN [PeerWindow(p) EXCEPT !.count = @ + 1] ELSE peers[q]]
  /\ Goto(o, "slot")
  /\ UNCHANGED cookies

RateLimited(o, p) ==
  /\ Begin(o) /\ ~Allowed(p)
  /\ sessions' = OpenSessions /\ peers' = OpenWindows
  /\ UNCHANGED <<global, cookies, at>>

(* The body is read, then one of the slots is taken or the login refused.  *)
Verifying == {o \in Operator : at[o] = "verify"}
TakeSlot(o) ==
  /\ at[o] = "slot"
  /\ \/ Cardinality(Verifying) < LoginSlots /\ Goto(o, "verify")
     \/ Goto(o, "idle")
  /\ UNCHANGED <<tables, cookies, asked>>

WrongPassword(o) ==
  /\ at[o] = "verify" /\ Goto(o, "idle")
  /\ UNCHANGED <<tables, cookies, asked>>

\* Mutant: the session that would live longest is dropped.
EvictedNewest(table) ==
  {s \in DOMAIN table : \A t \in DOMAIN table : table[s] >= table[t]}
(* createSession makes room in a full table: of the sessions that expire   *)
(* first the order of a map chooses one.                                   *)
Evicted(table) ==
  {s \in DOMAIN table : \A t \in DOMAIN table : table[s] <= table[t]}
Room(table) == IF Cardinality(DOMAIN table) < MaxSessions THEN {{}}
               ELSE {{s} : s \in Evicted(table)}

Without(table, s) == Restrict(table, DOMAIN table \ {s})

(* The session of the cookie sent along, if any, is replaced; the new      *)
(* token is one that nobody holds.                                         *)
Login(o) ==
  /\ at[o] = "verify" /\ Goto(o, "idle")
  /\ \E old \in cookies \cup {0} :
       LET kept == Without(OpenSessions, old)
           token == CHOOSE s \in Ids : s \notin DOMAIN sessions \cup cookies
       IN \E drop \in Room(kept) :
            /\ sessions' = [s \in (DOMAIN kept \ drop) \cup {token} |->
                              IF s = token THEN SessionTTL ELSE sessions[s]]
            /\ cookies' = (cookies \ {old}) \cup {token}
  /\ peers' = OpenWindows
  /\ UNCHANGED <<global, asked>>

-----------------------------------------------------------------------------
(* requestSession.                                                         *)
Session(s) == s \in DOMAIN sessions /\ sessions[s] > 0

Unauthenticated(o) ==
  /\ Begin(o)
  /\ \E s \in cookies \cup {0} : ~Session(s) /\ sessions' = Without(sessions, s)
  /\ UNCHANGED <<peers, global, cookies, at>>

Logout(o) ==
  /\ Begin(o)
  /\ \E s \in cookies :
       /\ Session(s) /\ sessions' = Without(sessions, s) /\ cookies' = cookies \ {s}
  /\ UNCHANGED <<peers, global, at>>

(* The ticker of expireSessions.                                           *)
ExpireSessions ==
  /\ sessions' = OpenSessions /\ peers' = OpenWindows
  /\ UNCHANGED <<global, cookies, at, asked>>

Less(n) == IF n = 0 THEN 0 ELSE n - 1
AuthElapse ==
  /\ sessions' = [s \in DOMAIN sessions |-> Less(sessions[s])]
  /\ peers' = [p \in DOMAIN peers |-> [peers[p] EXCEPT !.left = Less(@)]]
  /\ global' = [global EXCEPT !.left = Less(@)]
  /\ UNCHANGED <<cookies, at, asked>>

AuthRequest(o) ==
  \/ \E p \in Peer : Attempt(o, p) \/ RateLimited(o, p)
  \/ Unauthenticated(o) \/ Logout(o)
AuthStep(o) == TakeSlot(o) \/ WrongPassword(o) \/ Login(o)

-----------------------------------------------------------------------------
(* Properties.                                                             *)

(* The table of login peers never holds more than the attempts of two      *)
(* common windows, so it is far from maxLoginPeers, where every new peer   *)
(* would be refused.                                                       *)
PeerTableBounded == Cardinality(DOMAIN peers) <= 2 * LoginGlobal

(* A session leaves the table only when it has expired, when its own       *)
(* browser logs out or in again, or when a login finds the table full and  *)
(* no other session ends earlier.                                          *)
SessionsEndForAReason ==
  [][\A s \in DOMAIN sessions \ DOMAIN sessions' :
       \/ sessions[s] = 0
       \/ s \in cookies \ cookies'
       \/ /\ Cardinality(DOMAIN sessions) = MaxSessions
          /\ \A t \in DOMAIN sessions : sessions[t] > 0 => sessions[s] <= sessions[t]
    ]_authVars
=============================================================================
