---------------------------- MODULE AlertEngine ----------------------------
(***************************************************************************)
(* The alert engine of the console (internal/console/alerts.go): what an   *)
(* observation does to an alert, which alerts are sent, and how the answer *)
(* of the Feishu bot is recorded.  Every change is one save of the whole   *)
(* state (operations_file.go).  A save that fails before its rename        *)
(* changes nothing, and neither does an evaluation it ends, so neither is  *)
(* a step here; one whose directory cannot be synced after the rename is   *)
(* published, but reports an error.  Memory and file therefore agree, and  *)
(* all a crash loses is the message under way.                             *)
(*                                                                         *)
(* The loop of operations_loop.go makes one evaluation at a time and       *)
(* waits for its message; administrators update the configuration          *)
(* meanwhile.  Times are seconds of one clock, which does not go back; 0   *)
(* means never.                                                            *)
(***************************************************************************)
EXTENDS Integers, FiniteSets, Sequences

CONSTANTS
  Key,           \* alert keys, numbered in the order in which they sort
  Hold,          \* values of HoldSeconds
  Cooldown,      \* values of CooldownSeconds
  Gap,           \* the 20 seconds that interrupt a streak of observations
  Retry,         \* the 30 seconds between two attempts
  Retention,     \* the 86400 seconds for which a quiet alert is kept
  Batch,         \* the 20 alerts of one message
  MaxActive,     \* the 5000 alerts of the state
  HistoryLimit,  \* the 200 events of the history
  AuditLimit,    \* the 100 entries of the audit
  Epoch,         \* the time at which the engine starts
  MaxTime,       \* bound: the last second
  MaxRevision    \* bound: updates of the configuration

ASSUME KeyAssumption == Key \subseteq Nat /\ IsFiniteSet(Key)
ASSUME SettingAssumption == Hold \subseteq Nat \ {0} /\ Cooldown \subseteq Nat \ {0}
ASSUME LimitAssumption ==
  {Gap, Retry, Batch, MaxActive, HistoryLimit, AuditLimit} \subseteq Nat \ {0}
\* AlertConfig.valid allows no cooldown beyond the retention of 86400 seconds.
ASSUME RetentionAssumption ==
  /\ Retention \in Nat /\ Retry <= Retention
  /\ \A c \in Cooldown : c <= Retention
\* The clock shows Unix time: a time of 0 is older than any period.  The bounds
\* are not before the start.
ASSUME TimeAssumption ==
  /\ {Epoch, MaxTime, MaxRevision} \subseteq Nat
  /\ Retention < Epoch /\ Epoch <= MaxTime /\ 1 <= MaxRevision

VARIABLES
  now,
  config,    \* AlertConfig, and whether a webhook is stored
  revision,
  active,    \* the alerts, by key
  history,   \* firing and recovery events, oldest first
  audit,     \* revisions of the latest updates
  delivery,  \* what the console shows of the bot
  message,   \* the message under way
  past       \* history variable: what happened to each key, read by no action

vars == <<now, config, revision, active, history, audit, delivery, message, past>>

Config == [enabled : BOOLEAN, feishu : BOOLEAN, webhook : BOOLEAN,
           hold : Hold, cooldown : Cooldown]
Time == 0..MaxTime
State == {"pending", "firing", "recovering", "healthy", "unknown"}
AlertCondition ==
  [state : State, firing : BOOLEAN, since : Time, lastObservedAt : Time,
   lastNotifiedAt : Time, lastAttemptAt : Time, recoverySince : Time,
   recoveryPending : BOOLEAN]
Event == [key : Key, event : {"firing", "recovered"}]
\* keys: the alerts of the message, recoveries: those it calls recovered.
\* accepted: the bot has taken the message.
Message == [keys : SUBSET Key, recoveries : SUBSET Key, revision : Nat,
            at : Time, accepted : BOOLEAN]
NoMessage == [keys |-> {}, recoveries |-> {}, revision |-> 0, at |-> 0,
              accepted |-> FALSE]
\* For each key: the latest recorded observation that was no breach, that was
\* not healthy, that was known, and that ended a silence of more than Gap;
\* the latest attempt to send it and the latest that was recorded as notified;
\* and whether the bot accepted word of the latest incident.
Past == [notBreached : Time, notHealthy : Time, known : Time, resumed : Time,
         sent : Time, notified : Time, told : BOOLEAN]

\* The saved state has its shape, and the alerts of a message are recorded.
TypeOK ==
  /\ now \in Epoch..MaxTime
  /\ config \in Config
  /\ revision \in 1..MaxRevision
  /\ DOMAIN active \subseteq Key
  /\ active \in [DOMAIN active -> AlertCondition]
  /\ history \in Seq(Event)
  /\ audit \in Seq(2..MaxRevision)
  /\ delivery \in [lastSuccessAt : Time,
                   lastErrorCode : {"", "feishu_delivery_failed"}]
  /\ message \in Message
  /\ message.keys \subseteq DOMAIN active
  /\ message.recoveries \subseteq message.keys
  /\ past \in [Key -> Past]

\* openOperations finds a file without alerts and with any configuration it
\* accepts, such as the one it writes when there is no file.
Init ==
  /\ now = Epoch
  /\ config \in {c \in Config : c.feishu => c.webhook}
  /\ revision = 1
  /\ active = [k \in {} |-> {}]
  /\ history = <<>> /\ audit = <<>>
  /\ delivery = [lastSuccessAt |-> 0, lastErrorCode |-> ""]
  /\ message = NoMessage
  /\ past = [k \in Key |-> [notBreached |-> 0, notHealthy |-> 0, known |-> 0,
                            resumed |-> 0, sent |-> 0, notified |-> 0,
                            told |-> FALSE]]

-----------------------------------------------------------------------------
(* What an observation does to an alert *)

\* What the snapshot says of a key (alertSamples): nothing, because the worker
\* or the region is not in it; nothing certain, because the heartbeat or the
\* window is stale or too small; a value over the threshold, or one within it.
Sample == {"absent", "unknown", "breached", "healthy"}

NewAlert == [state |-> "unknown", firing |-> FALSE, since |-> 0,
             lastObservedAt |-> 0, lastNotifiedAt |-> 0, lastAttemptAt |-> 0,
             recoverySince |-> 0, recoveryPending |-> FALSE]

\* Mutant: an unknown value does not interrupt a streak.
UnseenKeepingStreak(a) == [a EXCEPT !.state = "unknown"]

\* Without a known value an incident goes on, and a streak ends.
Unseen(a) ==
  [a EXCEPT !.state = "unknown", !.recoverySince = 0,
            !.since = IF a.firing THEN @ ELSE 0]

AfterGap(a) == a.lastObservedAt > 0 /\ now - a.lastObservedAt > Gap

\* The start of a streak that began at start, or begins now.
Streak(a, start) == IF start = 0 \/ AfterGap(a) THEN now ELSE start

Held(start) == now - start >= config.hold

Breached(a) ==
  LET since == IF a.firing THEN a.since ELSE Streak(a, a.since)
      fires == a.firing \/ Held(since)
  IN  [a EXCEPT !.lastObservedAt = now, !.since = since, !.firing = fires,
                !.state = IF fires THEN "firing" ELSE "pending",
                !.recoverySince = 0, !.recoveryPending = FALSE]

Recovering(a) ==
  LET since == Streak(a, a.recoverySince)
  IN  IF Held(since)
      THEN [a EXCEPT !.lastObservedAt = now, !.recoverySince = since,
                     !.state = "healthy", !.firing = FALSE, !.since = 0,
                     !.recoveryPending = a.lastNotifiedAt > 0]
      ELSE [a EXCEPT !.lastObservedAt = now, !.recoverySince = since,
                     !.state = "recovering"]

Healthy(a) ==
  IF a.firing THEN Recovering(a)
  ELSE [a EXCEPT !.lastObservedAt = now, !.state = "healthy", !.since = 0]

Observed(a, sample) ==
  CASE sample = "breached" -> Breached(a)
    [] sample = "healthy"  -> Healthy(a)
    [] OTHER               -> Unseen(a)

-----------------------------------------------------------------------------
(* One evaluation of a snapshot, a function from Key to Sample *)

Known(snapshot) == {k \in Key : snapshot[k] \in {"breached", "healthy"}}

Before(k) == IF k \in DOMAIN active THEN active[k] ELSE NewAlert

AllObserved(snapshot) ==
  [k \in DOMAIN active \cup {j \in Key : snapshot[j] # "absent"} |->
     Observed(Before(k), snapshot[k])]

\* Mutant: a recovery is told at once, without regard to the last attempt.
DueAtOnce(a) ==
  /\ config.feishu
  /\ \/ /\ a.firing /\ a.state = "firing"
        /\ a.lastNotifiedAt = 0 \/ now - a.lastNotifiedAt >= config.cooldown
        /\ now - a.lastAttemptAt >= Retry
     \/ a.recoveryPending

\* An alert is due while it fires, not more often than the cooldown allows,
\* and until its recovery is told.
Due(a) ==
  /\ config.feishu
  /\ \/ /\ a.firing /\ a.state = "firing"
        /\ a.lastNotifiedAt = 0 \/ now - a.lastNotifiedAt >= config.cooldown
     \/ a.recoveryPending
  /\ now - a.lastAttemptAt >= Retry

\* The first due alerts, as many as one message takes.
First(due) == {k \in due : Cardinality({j \in due : j < k}) < Batch}

Chosen(observed, known) == First({k \in known : Due(observed[k])})

Attempted(observed, keys) ==
  [k \in DOMAIN observed |->
     IF k \in keys THEN [observed[k] EXCEPT !.lastAttemptAt = now] ELSE observed[k]]

\* Mutants: an incident of a worker that went away is dropped, and a quiet
\* alert is dropped at once.
QuietWhileFiring(a) ==
  /\ a.state \in {"healthy", "unknown"} /\ ~a.recoveryPending
  /\ now - a.lastObservedAt > Retention
QuietAtOnce(a) ==
  a.state \in {"healthy", "unknown"} /\ ~a.firing /\ ~a.recoveryPending

Quiet(a) ==
  /\ a.state \in {"healthy", "unknown"} /\ ~a.firing /\ ~a.recoveryPending
  /\ now - a.lastObservedAt > Retention

\* Alerts that have been quiet for long are dropped.
Kept(alerts) == [k \in {j \in DOMAIN alerts : ~Quiet(alerts[j])} |-> alerts[k]]

\* The incidents an evaluation begins and ends.
Fires(observed) ==
  {k \in DOMAIN observed : observed[k].firing /\ ~Before(k).firing}
Recovers(observed) ==
  {k \in DOMAIN observed : Before(k).firing /\ ~observed[k].firing}

\* The keys, each once, as sort.Strings orders them.
Sorted(keys) ==
  CHOOSE order \in [1..Cardinality(keys) -> keys] :
    /\ \A k \in keys : \E i \in DOMAIN order : order[i] = k
    /\ \A i, j \in DOMAIN order : i < j => order[i] < order[j]

\* The events of the evaluation, in the order of their keys.
Events(observed) ==
  LET keys == Sorted(Fires(observed) \cup Recovers(observed))
  IN  [i \in DOMAIN keys |->
         [key |-> keys[i],
          event |-> IF keys[i] \in Fires(observed) THEN "firing" ELSE "recovered"]]

\* Mutant: one entry too many is kept.
LatestAndOne(list, limit) ==
  IF Len(list) > limit + 1 THEN SubSeq(list, Len(list) - limit, Len(list)) ELSE list

\* The last entries of a list, at most limit.
Latest(list, limit) ==
  IF Len(list) > limit THEN SubSeq(list, Len(list) - limit + 1, Len(list)) ELSE list

Recorded(snapshot, fires, sent) ==
  [k \in Key |->
     [past[k] EXCEPT
        !.notBreached = IF snapshot[k] = "breached" THEN @ ELSE now,
        !.notHealthy = IF snapshot[k] = "healthy" THEN @ ELSE now,
        !.known = IF k \in Known(snapshot) THEN now ELSE @,
        !.resumed = IF k \in Known(snapshot) /\ now - past[k].known > Gap
                    THEN now ELSE @,
        !.sent = IF k \in sent THEN now ELSE @,
        !.told = IF k \in fires THEN FALSE ELSE @]]

\* save: the rename publishes the alerts, the history and the delivery status
\* together, and leaves the configuration as it is.
Save(alerts, events, status) ==
  /\ active' = alerts /\ history' = events /\ delivery' = status
  /\ UNCHANGED <<config, revision, audit>>

\* evaluate up to the call of Send.  With too many alerts the evaluation is
\* given up.  Nothing is sent after a save that reports an error.
Evaluate(snapshot, synced) ==
  LET observed == AllObserved(snapshot)
      due == Chosen(observed, Known(snapshot))
      kept == Kept(Attempted(observed, due))
      keys == IF synced /\ config.webhook THEN due ELSE {}
  IN  /\ message = NoMessage /\ config.enabled
      /\ Cardinality(DOMAIN kept) <= MaxActive
      /\ Save(kept, Latest(history \o Events(observed), HistoryLimit), delivery)
      /\ message' = IF keys = {} THEN NoMessage
                    ELSE [keys |-> keys,
                          recoveries |-> {k \in keys : observed[k].recoveryPending},
                          revision |-> revision, at |-> now, accepted |-> FALSE]
      /\ past' = Recorded(snapshot, Fires(observed), keys)
      /\ UNCHANGED now

-----------------------------------------------------------------------------
(* Delivery *)

\* The bot takes the message; its answer may still be lost.
Accept ==
  /\ message # NoMessage /\ ~message.accepted
  /\ message' = [message EXCEPT !.accepted = TRUE]
  /\ past' = [k \in Key |->
                IF k \in message.keys \ message.recoveries
                THEN [past[k] EXCEPT !.told = TRUE] ELSE past[k]]
  /\ UNCHANGED <<now, config, revision, active, history, audit, delivery>>

Notified(a, k) ==
  [a EXCEPT !.lastNotifiedAt = message.at,
            !.recoveryPending = IF k \in message.recoveries THEN FALSE ELSE @]

\* Send returns.  The answer is dropped when the configuration has changed
\* since, and lost when it cannot be saved.
Sent(ok, saved) ==
  /\ message # NoMessage
  /\ ok => message.accepted
  /\ message' = NoMessage
  /\ IF ~saved \/ revision # message.revision
     THEN UNCHANGED <<config, revision, active, history, audit, delivery, past>>
     ELSE IF ok
     THEN /\ Save([k \in DOMAIN active |->
                     IF k \in message.keys THEN Notified(active[k], k) ELSE active[k]],
                  history, [lastSuccessAt |-> message.at, lastErrorCode |-> ""])
          /\ past' = [k \in Key |->
                        IF k \in message.keys
                        THEN [past[k] EXCEPT !.notified = message.at] ELSE past[k]]
     ELSE /\ Save(active, history,
                  [delivery EXCEPT !.lastErrorCode = "feishu_delivery_failed"])
          /\ UNCHANGED past
  /\ UNCHANGED now

\* The process ends while a message is under way, and is started again.
Crash ==
  /\ message # NoMessage
  /\ message' = NoMessage
  /\ UNCHANGED <<now, config, revision, active, history, audit, delivery, past>>

\* An administrator saves a configuration, from the revision it replaces.
Update(new) ==
  /\ revision < MaxRevision
  /\ new.feishu => new.webhook
  /\ revision' = revision + 1
  /\ config' = new
  /\ audit' = Latest(Append(audit, revision + 1), AuditLimit)
  /\ UNCHANGED <<now, active, history, delivery, message, past>>

Elapse ==
  /\ now < MaxTime
  /\ now' = now + 1
  /\ UNCHANGED <<config, revision, active, history, audit, delivery, message, past>>

Next ==
  \/ \E snapshot \in [Key -> Sample], synced \in BOOLEAN : Evaluate(snapshot, synced)
  \/ Accept
  \/ \E ok, saved \in BOOLEAN : Sent(ok, saved)
  \/ Crash
  \/ \E new \in Config : Update(new)
  \/ Elapse

Spec == Init /\ [][Next]_vars

-----------------------------------------------------------------------------
(* Properties *)

\* What is saved has its shape and can be opened again: openOperations
\* (operations_file.go:70) refuses a state beyond its limits, or one that
\* enables a bot without a webhook, and the console would not start again.
StateReopens ==
  /\ TypeOK
  /\ Cardinality(DOMAIN active) <= MaxActive
  /\ Len(history) <= HistoryLimit
  /\ Len(audit) <= AuditLimit
  /\ config.feishu => config.webhook

\* Two attempts for one alert are Retry apart, whatever happened between them:
\* a lost answer, a crash, an update, or the alert being dropped and found
\* again (alerts.go:331).
AttemptsAreSpaced ==
  [][message' # message /\ message' # NoMessage /\ ~message'.accepted
       => \A k \in message'.keys : past[k].sent > 0 => now - past[k].sent >= Retry]_vars

\* Word that an alert fires comes no sooner than the cooldown after the last
\* message that was recorded as delivered, across restarts and although quiet
\* alerts are dropped (alerts.go:330).
CooldownIsKept ==
  [][message' # message /\ message' # NoMessage /\ ~message'.accepted
       => \A k \in message'.keys \ message'.recoveries :
            past[k].notified > 0 => now - past[k].notified >= config.cooldown]_vars

\* An alert fires only when for the hold period every recorded observation of
\* it was a breach, with no silence of more than Gap; it recovers only after a
\* hold period of healthy observations (alerts.go:306 and 319).
HoldIsRespected ==
  [][\A k \in DOMAIN active \cap DOMAIN active' :
       /\ active'[k].firing /\ ~active[k].firing =>
            now - past'[k].notBreached >= config.hold /\ now - past'[k].resumed >= config.hold
       /\ active[k].firing /\ ~active'[k].firing =>
            now - past'[k].notHealthy >= config.hold /\ now - past'[k].resumed >= config.hold]_vars

\* The history tells each alert's incidents in turn, firing and recovered, and
\* agrees with the alert: an incident is neither dropped from the state nor
\* begun twice (alerts.go:343).
HistoryAlternates ==
  \A k \in Key :
    LET told == {i \in DOMAIN history : history[i].key = k}
    IN  \A i \in told :
          /\ \A j \in told :
               i < j /\ (\A m \in told : m <= i \/ j <= m)
                 => history[i].event # history[j].event
          /\ (\A j \in told : j <= i)
               => (history[i].event = "firing" <=> k \in DOMAIN active /\ active[k].firing)

\* "Recovery messages are sent only for incidents previously delivered."
\* (docs/console-capacity-alerts.md:74): a message calls an alert recovered
\* only when the bot took word of that incident.
RecoveryFollowsDelivery ==
  \A k \in message.recoveries : past[k].told

=============================================================================
