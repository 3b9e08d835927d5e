--------------------------- MODULE AlertEngineProofs ---------------------------
(***************************************************************************)
(* For every set of alerts and every value of the periods and limits: the  *)
(* console sends and tells no alert sooner or more often than it should,   *)
(* however answers are lost, saves fail, the process dies and the          *)
(* configuration changes; its history and its state agree, and what it     *)
(* saved can be opened again.                                              *)
(*                                                                         *)
(* The past of a key is a history variable.  The argument is what an alert *)
(* remembers of it, and that an alert is forgotten only when its past is   *)
(* further back than every period.                                         *)
(***************************************************************************)
EXTENDS AlertEngine, FiniteSetTheorems, SequenceTheorems, WellFoundedInduction, TLAPS

(* What was recorded of a key happened by now.                             *)
PastBy(p, t) ==
  p.notBreached <= t /\ p.notHealthy <= t /\ p.known <= t /\ p.resumed <= t

(* A streak is as long as the alert says, and without a gap.               *)
Streaks(a, p) ==
  /\ a.lastObservedAt > 0 => p.known = a.lastObservedAt
  /\ ~a.firing /\ a.since # 0 =>
       a.lastObservedAt > 0 /\ p.notBreached <= a.since /\ p.resumed <= a.since
  /\ a.firing /\ a.recoverySince # 0 =>
       a.lastObservedAt > 0 /\ p.notHealthy <= a.recoverySince /\ p.resumed <= a.recoverySince

(* The alert remembers the latest attempt and the latest message that was  *)
(* delivered, or they are long past.                                       *)
Remembers(a, p, t) ==
  /\ p.sent > 0 => \/ t - p.sent >= Retry
                   \/ p.sent <= a.lastAttemptAt /\ p.sent <= a.lastObservedAt
  /\ p.notified > 0 => \/ t - p.notified > Retention
                       \/ p.notified <= a.lastNotifiedAt /\ p.notified <= a.lastObservedAt

LongPast(p, t) ==
  /\ p.sent > 0 => t - p.sent >= Retry
  /\ p.notified > 0 => t - p.notified > Retention

(* The message under way is about observations that were recorded then.    *)
UnderWay ==
  message.at <= now /\ \A k \in message.keys : message.at <= active[k].lastObservedAt

Types ==
  /\ now \in Epoch..MaxTime
  /\ config \in Config
  /\ revision \in Nat
  /\ DOMAIN active \subseteq Key
  /\ active \in [DOMAIN active -> AlertCondition]
  /\ message \in Message
  /\ message.keys \subseteq DOMAIN active
  /\ past \in [Key -> Past]

AlertInv ==
  /\ Types /\ UnderWay
  /\ \A k \in Key :
       /\ PastBy(past[k], now)
       /\ IF k \in DOMAIN active
          THEN Streaks(active[k], past[k]) /\ Remembers(active[k], past[k], now)
          ELSE LongPast(past[k], now)

-----------------------------------------------------------------------------
(* What an observation does to an alert *)

(* The numbers among the constants and the periods of a configuration.     *)
LEMMA Numbers ==
  ASSUME config \in Config
  PROVE  /\ config.hold \in Nat \ {0} /\ config.cooldown \in Nat \ {0}
         /\ config.cooldown <= Retention
         /\ Gap \in Nat \ {0} /\ Retry \in Nat \ {0} /\ Retention \in Nat
         /\ Epoch \in Nat /\ MaxTime \in Nat /\ Retry <= Retention /\ Retention < Epoch
<1>1. config.hold \in Hold /\ config.cooldown \in Cooldown
  BY DEF Config
<1> QED
  BY <1>1, SettingAssumption, LimitAssumption, RetentionAssumption, TimeAssumption

(* An alert that is not in the snapshot, or whose value is unknown.        *)
LEMMA UnseenAlert ==
  ASSUME NEW a \in AlertCondition, MaxTime \in Nat
  PROVE  LET o == Unseen(a) IN
         /\ o \in AlertCondition
         /\ o.lastAttemptAt = a.lastAttemptAt /\ o.lastNotifiedAt = a.lastNotifiedAt
         /\ o.lastObservedAt = a.lastObservedAt /\ o.firing = a.firing
         /\ o.since = (IF a.firing THEN a.since ELSE 0) /\ o.recoverySince = 0
         /\ o.recoveryPending = a.recoveryPending /\ o.state = "unknown"
<1> DEFINE since == IF a.firing THEN a.since ELSE 0
<1>1. since \in Time /\ 0 \in Time /\ "unknown" \in State
  BY DEF AlertCondition, State, Time
<1>2. Unseen(a) = [a EXCEPT !.state = "unknown", !.recoverySince = 0, !.since = since]
  BY DEF Unseen, AlertCondition
<1>3. since = IF a.firing THEN a.since ELSE 0
  OBVIOUS
<1> HIDE DEF since
<1> QED
  BY <1>1, <1>2, <1>3 DEF AlertCondition

(* An alert whose value is over the threshold.                             *)
LEMMA BreachedAlert ==
  ASSUME NEW a \in AlertCondition, MaxTime \in Nat, now \in Time
  PROVE  LET o == Breached(a)
             since == IF a.firing THEN a.since ELSE Streak(a, a.since) IN
         /\ o \in AlertCondition
         /\ o.lastAttemptAt = a.lastAttemptAt /\ o.lastNotifiedAt = a.lastNotifiedAt
         /\ o.lastObservedAt = now /\ o.since = since /\ since \in Time
         /\ o.firing <=> (a.firing \/ Held(since))
         /\ o.recoverySince = 0 /\ o.recoveryPending = FALSE
<1> DEFINE since == IF a.firing THEN a.since ELSE Streak(a, a.since)
           fires == a.firing \/ Held(since)
           place == IF fires THEN "firing" ELSE "pending"
<1>1. since \in Time
  BY DEF Streak, AlertCondition
<1>2. fires \in BOOLEAN /\ place \in State
  BY DEF State
<1>3. Breached(a) = [a EXCEPT !.lastObservedAt = now, !.since = since, !.firing = fires,
                              !.state = place,
                              !.recoverySince = 0, !.recoveryPending = FALSE]
  BY Zenon DEF Breached
<1>4. 0 \in Time
  BY DEF Time
<1>5. fires <=> (a.firing \/ Held(since))
  OBVIOUS
<1>6. since = IF a.firing THEN a.since ELSE Streak(a, a.since)
  OBVIOUS
<1> HIDE DEF since, fires, place
<1> QED
  BY <1>1, <1>2, <1>3, <1>4, <1>5, <1>6 DEF AlertCondition

(* An alert whose value is within the threshold.                           *)
LEMMA HealthyAlert ==
  ASSUME NEW a \in AlertCondition, MaxTime \in Nat, now \in Time
  PROVE  LET o == Healthy(a)
             since == Streak(a, a.recoverySince) IN
         /\ o \in AlertCondition
         /\ o.lastAttemptAt = a.lastAttemptAt /\ o.lastNotifiedAt = a.lastNotifiedAt
         /\ o.lastObservedAt = now
         /\ o.firing <=> (a.firing /\ ~Held(since))
         /\ ~o.firing => o.since = 0
         /\ a.firing => o.recoverySince = since
         /\ o.state \in {"healthy", "recovering"}
<1> DEFINE since == Streak(a, a.recoverySince)
           told == a.lastNotifiedAt > 0
<1>1. since \in Time
  BY DEF Streak, AlertCondition
<1>2. told \in BOOLEAN /\ 0 \in Time /\ {"healthy", "recovering"} \subseteq State
  BY DEF State, Time
<1>3. Held(since) \in BOOLEAN
  BY DEF Held
<1>4. Recovering(a) =
        IF Held(since)
        THEN [a EXCEPT !.lastObservedAt = now, !.recoverySince = since,
                       !.state = "healthy", !.firing = FALSE, !.since = 0,
                       !.recoveryPending = told]
        ELSE [a EXCEPT !.lastObservedAt = now, !.recoverySince = since,
                       !.state = "recovering"]
  BY Zenon DEF Recovering
<1>5. since = Streak(a, a.recoverySince)
  OBVIOUS
<1> HIDE DEF since, told
<1>6. CASE ~a.firing
  <2>1. Healthy(a) = [a EXCEPT !.lastObservedAt = now, !.state = "healthy", !.since = 0]
    BY <1>6 DEF Healthy
  <2> QED
    BY <1>6, <1>2, <2>1 DEF AlertCondition
<1>7. CASE a.firing /\ Held(since)
  <2>1. Healthy(a) = [a EXCEPT !.lastObservedAt = now, !.recoverySince = since,
                       !.state = "healthy", !.firing = FALSE, !.since = 0,
                       !.recoveryPending = told]
    BY <1>7, <1>4 DEF Healthy
  <2> QED
    BY <1>7, <1>1, <1>2, <1>5, <2>1 DEF AlertCondition
<1>8. CASE a.firing /\ ~Held(since)
  <2>1. Healthy(a) = [a EXCEPT !.lastObservedAt = now, !.recoverySince = since,
                       !.state = "recovering"]
    BY <1>8, <1>4 DEF Healthy
  <2> QED
    BY <1>8, <1>1, <1>2, <1>5, <2>1 DEF AlertCondition
<1> QED
  BY <1>6, <1>7, <1>8

(* A streak that goes on has no gap in it.                                 *)
Noted(p, q, sample) ==
  /\ q.notBreached = IF sample = "breached" THEN p.notBreached ELSE now
  /\ q.notHealthy = IF sample = "healthy" THEN p.notHealthy ELSE now
  /\ q.known = IF sample \in {"breached", "healthy"} THEN now ELSE p.known
  /\ q.resumed = IF sample \in {"breached", "healthy"} /\ now - p.known > Gap
                 THEN now ELSE p.resumed

(* An observed alert keeps its streak, and fires or recovers only after    *)
(* the hold period.                                                        *)
LEMMA ObservedAlert ==
  ASSUME now \in Epoch..MaxTime, config \in Config, NEW a \in AlertCondition,
         NEW p \in Past, NEW q \in Past, NEW sample \in Sample,
         PastBy(p, now), Streaks(a, p), Noted(p, q, sample)
  PROVE  LET o == Observed(a, sample) IN
         /\ o \in AlertCondition
         /\ o.lastAttemptAt = a.lastAttemptAt /\ o.lastNotifiedAt = a.lastNotifiedAt
         /\ o.lastObservedAt = (IF sample \in {"breached", "healthy"}
                                THEN now ELSE a.lastObservedAt)
         /\ a.lastObservedAt <= now
         /\ PastBy(q, now) /\ Streaks(o, q)
         /\ o.firing /\ ~a.firing =>
              now - q.notBreached >= config.hold /\ now - q.resumed >= config.hold
         /\ a.firing /\ ~o.firing =>
              now - q.notHealthy >= config.hold /\ now - q.resumed >= config.hold
<1>n. now \in Time /\ now \in Nat /\ now > 0
  BY Numbers DEF Time
<1>a. /\ a.since \in Time /\ a.recoverySince \in Time /\ a.lastObservedAt \in Time
      /\ p.known \in Time /\ p.notBreached \in Time /\ p.notHealthy \in Time
      /\ p.resumed \in Time
  BY DEF AlertCondition, Past
<1>l. a.lastObservedAt <= now
  BY <1>a, <1>n, Numbers DEF Streaks, PastBy, Time
<1>p. PastBy(q, now)
  BY <1>a, <1>n, Numbers DEF PastBy, Noted, Time
<1>1. CASE sample \notin {"breached", "healthy"}
  <2>1. Observed(a, sample) = Unseen(a)
    BY <1>1 DEF Observed
  <2>2. q.known = p.known
    BY <1>1 DEF Noted
  <2> QED
    BY <1>1, <1>n, <1>l, <1>p, <2>1, <2>2, UnseenAlert, Numbers DEF Streaks
<1>2. CASE sample = "breached"
  <2> DEFINE s == IF a.firing THEN a.since ELSE Streak(a, a.since)
             o == Breached(a)
  <2>1. Observed(a, sample) = o
    BY <1>2 DEF Observed
  <2>2. /\ o \in AlertCondition
        /\ o.lastAttemptAt = a.lastAttemptAt /\ o.lastNotifiedAt = a.lastNotifiedAt
        /\ o.lastObservedAt = now /\ o.since = s /\ s \in Time
        /\ o.firing <=> (a.firing \/ Held(s))
        /\ o.recoverySince = 0
    BY BreachedAlert, <1>n, Numbers
  <2>3. q.known = now /\ q.notBreached = p.notBreached
    BY <1>2 DEF Noted
  <2>4. ~a.firing => q.notBreached <= s /\ q.resumed <= s
    <3> SUFFICES ASSUME ~a.firing PROVE q.notBreached <= s /\ q.resumed <= s
      OBVIOUS
    <3>1. s = Streak(a, a.since)
      OBVIOUS
    <3>2. CASE a.since = 0 \/ AfterGap(a)
      BY <3>1, <3>2, <1>p DEF Streak, PastBy
    <3>3. CASE ~(a.since = 0 \/ AfterGap(a))
      <4>1. s = a.since
        BY <3>1, <3>3 DEF Streak
      <4>2. a.lastObservedAt > 0 /\ p.notBreached <= a.since /\ p.resumed <= a.since
            /\ p.known = a.lastObservedAt
        BY <3>3, <1>a, Numbers DEF Streaks, Time
      <4>3. q.resumed = p.resumed
        BY <1>2, <3>3, <4>2 DEF Noted, AfterGap
      <4> QED
        BY <4>1, <4>2, <4>3, <2>3
    <3> QED
      BY <3>2, <3>3
  <2> HIDE DEF o, s
  <2>5. Streaks(o, q)
    BY <2>2, <2>3, <2>4, <1>n DEF Streaks
  <2>6. o.firing /\ ~a.firing =>
          now - q.notBreached >= config.hold /\ now - q.resumed >= config.hold
    BY <2>2, <2>4, <1>n, <1>a, Numbers DEF Held, Time, Past
  <2> QED
    BY <1>2, <1>l, <1>p, <2>1, <2>2, <2>5, <2>6
<1>3. CASE sample = "healthy"
  <2> DEFINE s == Streak(a, a.recoverySince)
             o == Healthy(a)
  <2>1. Observed(a, sample) = o
    BY <1>3 DEF Observed
  <2>2. /\ o \in AlertCondition
        /\ o.lastAttemptAt = a.lastAttemptAt /\ o.lastNotifiedAt = a.lastNotifiedAt
        /\ o.lastObservedAt = now
        /\ o.firing <=> (a.firing /\ ~Held(s))
        /\ ~o.firing => o.since = 0
        /\ a.firing => o.recoverySince = s
    BY HealthyAlert, <1>n, Numbers
  <2>3. q.known = now /\ q.notHealthy = p.notHealthy
    BY <1>3 DEF Noted
  <2>s. s \in Time
    BY <1>n, <1>a DEF Streak
  <2>4. a.firing => q.notHealthy <= s /\ q.resumed <= s
    <3> SUFFICES ASSUME a.firing PROVE q.notHealthy <= s /\ q.resumed <= s
      OBVIOUS
    <3>2. CASE a.recoverySince = 0 \/ AfterGap(a)
      BY <3>2, <1>p DEF Streak, PastBy
    <3>3. CASE ~(a.recoverySince = 0 \/ AfterGap(a))
      <4>1. s = a.recoverySince
        BY <3>3 DEF Streak
      <4>2. a.lastObservedAt > 0 /\ p.notHealthy <= a.recoverySince
            /\ p.resumed <= a.recoverySince /\ p.known = a.lastObservedAt
        BY <3>3, <1>a, Numbers DEF Streaks, Time
      <4>3. q.resumed = p.resumed
        BY <1>3, <3>3, <4>2 DEF Noted, AfterGap
      <4> QED
        BY <4>1, <4>2, <4>3, <2>3
    <3> QED
      BY <3>2, <3>3
  <2> HIDE DEF o, s
  <2>5. Streaks(o, q)
    BY <2>2, <2>3, <2>4, <1>n DEF Streaks
  <2>6. a.firing /\ ~o.firing =>
          now - q.notHealthy >= config.hold /\ now - q.resumed >= config.hold
    BY <2>2, <2>s, <2>4, <1>n, <1>a, Numbers DEF Held, Time, Past
  <2> QED
    BY <1>3, <1>l, <1>p, <2>1, <2>2, <2>5, <2>6
<1> QED
  BY <1>1, <1>2, <1>3

-----------------------------------------------------------------------------
(* One evaluation *)

(* What an evaluation notes of each key.                                   *)
LEMMA RecordedPast ==
  ASSUME past \in [Key -> Past], now \in Time, NEW fires, NEW sent,
         NEW snapshot \in [Key -> Sample]
  PROVE  LET new == Recorded(snapshot, fires, sent) IN
         /\ new \in [Key -> Past]
         /\ \A k \in Key :
              /\ Noted(past[k], new[k], snapshot[k])
              /\ new[k].sent = (IF k \in sent THEN now ELSE past[k].sent)
              /\ new[k].notified = past[k].notified
<1> DEFINE Kind(k) == snapshot[k] \in {"breached", "healthy"}
           breach(k) == IF snapshot[k] = "breached" THEN past[k].notBreached ELSE now
           health(k) == IF snapshot[k] = "healthy" THEN past[k].notHealthy ELSE now
           known(k) == IF Kind(k) THEN now ELSE past[k].known
           resumed(k) == IF Kind(k) /\ now - past[k].known > Gap
                         THEN now ELSE past[k].resumed
           told(k) == IF k \in fires THEN FALSE ELSE past[k].told
           gone(k) == IF k \in sent THEN now ELSE past[k].sent
           Changed(k) == [past[k] EXCEPT
                            !.notBreached = breach(k), !.notHealthy = health(k),
                            !.known = known(k), !.resumed = resumed(k),
                            !.sent = gone(k), !.told = told(k)]
<1>1. ASSUME NEW k \in Key
      PROVE  /\ breach(k) \in Time /\ health(k) \in Time /\ known(k) \in Time
             /\ resumed(k) \in Time /\ gone(k) \in Time /\ told(k) \in BOOLEAN
             /\ past[k].notified \in Time
  <2>1. past[k] \in Past
    OBVIOUS
  <2> QED
    BY <2>1 DEF Past
<1>2. ASSUME NEW k \in Key
      PROVE  Recorded(snapshot, fires, sent)[k] = Changed(k)
  BY <1>2 DEF Recorded, Known
<1>3. ASSUME NEW k \in Key
      PROVE  LET x == Changed(k) IN
             /\ x \in Past /\ x.notBreached = breach(k) /\ x.notHealthy = health(k)
             /\ x.known = known(k) /\ x.resumed = resumed(k) /\ x.sent = gone(k)
             /\ x.notified = past[k].notified
  <2>1. past[k] \in Past
    OBVIOUS
  <2>2. /\ breach(k) \in Time /\ health(k) \in Time /\ known(k) \in Time
        /\ resumed(k) \in Time /\ gone(k) \in Time /\ told(k) \in BOOLEAN
    BY <1>3, <1>1
  <2> HIDE DEF breach, health, known, resumed, told, gone
  <2> QED
    BY <2>1, <2>2 DEF Past
<1>4. \A k \in Key : Noted(past[k], Changed(k), snapshot[k])
  <2> HIDE DEF Changed
  <2> QED
    BY <1>3 DEF Noted
<1>5. Recorded(snapshot, fires, sent) \in [Key -> Past]
  <2>1. Recorded(snapshot, fires, sent) = [k \in Key |-> Recorded(snapshot, fires, sent)[k]]
    BY DEF Recorded
  <2> HIDE DEF Changed
  <2> QED
    BY <1>2, <1>3, <2>1
<1> HIDE DEF Changed
<1> QED
  BY <1>2, <1>3, <1>4, <1>5

(* What the state remembers of a key, also of one without an alert.        *)
LEMMA BeforeFacts ==
  ASSUME AlertInv, NEW k \in Key
  PROVE  /\ Before(k) \in AlertCondition /\ past[k] \in Past
         /\ PastBy(past[k], now)
         /\ Streaks(Before(k), past[k]) /\ Remembers(Before(k), past[k], now)
<1>t. MaxTime \in Nat /\ now \in Nat
  BY TimeAssumption DEF AlertInv, Types
<1>1. past[k] \in Past /\ PastBy(past[k], now)
  BY DEF AlertInv, Types
<1>2. CASE k \in DOMAIN active
  <2>1. Before(k) = active[k]
    BY <1>2 DEF Before
  <2>2. active[k] \in AlertCondition
    BY <1>2 DEF AlertInv, Types
  <2>3. Streaks(active[k], past[k]) /\ Remembers(active[k], past[k], now)
    BY <1>2 DEF AlertInv
  <2> QED
    BY <1>1, <2>1, <2>2, <2>3
<1>3. CASE k \notin DOMAIN active
  <2>1. Before(k) = NewAlert
    BY <1>3 DEF Before
  <2>2. NewAlert \in AlertCondition
    BY <1>t DEF NewAlert, AlertCondition, State, Time
  <2>3. LongPast(past[k], now)
    BY <1>3 DEF AlertInv
  <2>4. Streaks(NewAlert, past[k])
    BY DEF Streaks, NewAlert
  <2>5. Remembers(NewAlert, past[k], now)
    BY <2>3 DEF LongPast, Remembers
  <2> QED
    BY <1>1, <2>1, <2>2, <2>4, <2>5
<1> QED
  BY <1>2, <1>3

(* An attempt is noted in the alert and changes nothing else of it.        *)
LEMMA AttemptedAlert ==
  ASSUME NEW o \in AlertCondition, now \in Time
  PROVE  LET x == [o EXCEPT !.lastAttemptAt = now] IN
         /\ x \in AlertCondition /\ x.lastAttemptAt = now
         /\ x.state = o.state /\ x.firing = o.firing /\ x.since = o.since
         /\ x.lastObservedAt = o.lastObservedAt /\ x.lastNotifiedAt = o.lastNotifiedAt
         /\ x.recoverySince = o.recoverySince /\ x.recoveryPending = o.recoveryPending
BY DEF AlertCondition

(* Before an evaluation, an alert it sends has not been sent within the    *)
(* last Retry, nor its incident told within the cooldown.                  *)
Allowed(k, recoveries) ==
  /\ past[k].sent > 0 => now - past[k].sent >= Retry
  /\ k \notin recoveries /\ past[k].notified > 0 =>
       now - past[k].notified >= config.cooldown

(* What an evaluation makes of one key.                                    *)
LEMMA EvaluatedKey ==
  ASSUME AlertInv, NEW snapshot \in [Key -> Sample], NEW synced \in BOOLEAN,
         Evaluate(snapshot, synced), NEW k \in Key
  PROVE  /\ past'[k] \in Past /\ PastBy(past'[k], now)
         /\ k \in DOMAIN active' =>
              /\ active'[k] \in AlertCondition
              /\ Streaks(active'[k], past'[k]) /\ Remembers(active'[k], past'[k], now)
         /\ k \notin DOMAIN active' => LongPast(past'[k], now)
         /\ k \in message'.keys =>
              /\ k \in DOMAIN active' /\ active'[k].lastObservedAt = now
              /\ Allowed(k, message'.recoveries)
         /\ k \in DOMAIN active /\ k \in DOMAIN active' =>
              /\ active'[k].firing /\ ~active[k].firing =>
                   /\ now - past'[k].notBreached >= config.hold
                   /\ now - past'[k].resumed >= config.hold
              /\ active[k].firing /\ ~active'[k].firing =>
                   /\ now - past'[k].notHealthy >= config.hold
                   /\ now - past'[k].resumed >= config.hold
<1> DEFINE observed == AllObserved(snapshot)
           due == Chosen(observed, Known(snapshot))
           tried == Attempted(observed, due)
           keys == IF synced /\ config.webhook THEN due ELSE {}
           b == Before(k)
           p == past[k]
           q == past'[k]
           o == Observed(b, snapshot[k])
           x == IF k \in due THEN [o EXCEPT !.lastAttemptAt = now] ELSE o
<1>n. now \in Time /\ now \in Nat /\ now > 0 /\ now \in Epoch..MaxTime /\ config \in Config
  BY Numbers DEF Time, AlertInv, Types
<1>1. /\ past' = Recorded(snapshot, Fires(observed), keys)
      /\ active' = Kept(tried)
      /\ message' = IF keys = {} THEN NoMessage
                    ELSE [keys |-> keys,
                          recoveries |-> {j \in keys : observed[j].recoveryPending},
                          revision |-> revision, at |-> now, accepted |-> FALSE]
  BY DEF Evaluate, Save
<1>2. /\ q \in Past /\ Noted(p, q, snapshot[k])
      /\ q.sent = (IF k \in keys THEN now ELSE p.sent) /\ q.notified = p.notified
  <2> HIDE DEF keys, observed
  <2> QED
    BY <1>1, <1>n, RecordedPast DEF AlertInv, Types
<1>3. b \in AlertCondition /\ p \in Past /\ PastBy(p, now) /\ Streaks(b, p)
      /\ Remembers(b, p, now)
  BY BeforeFacts
<1>4. snapshot[k] \in Sample
  OBVIOUS
<1>5. /\ o \in AlertCondition
      /\ o.lastAttemptAt = b.lastAttemptAt /\ o.lastNotifiedAt = b.lastNotifiedAt
      /\ o.lastObservedAt = (IF snapshot[k] \in {"breached", "healthy"}
                             THEN now ELSE b.lastObservedAt)
      /\ b.lastObservedAt <= now
      /\ PastBy(q, now) /\ Streaks(o, q)
      /\ o.firing /\ ~b.firing =>
           now - q.notBreached >= config.hold /\ now - q.resumed >= config.hold
      /\ b.firing /\ ~o.firing =>
           now - q.notHealthy >= config.hold /\ now - q.resumed >= config.hold
  <2> HIDE DEF b, p, q
  <2> QED
    BY <1>n, <1>2, <1>3, <1>4, ObservedAlert DEF o
<1>6. DOMAIN observed = DOMAIN active \cup {j \in Key : snapshot[j] # "absent"}
  BY DEF AllObserved
<1>7. k \in DOMAIN observed => observed[k] = o
  BY DEF AllObserved
<1>8. k \in due => /\ snapshot[k] \in {"breached", "healthy"} /\ k \in DOMAIN observed
                   /\ Due(o)
  <2>1. k \in due => k \in Known(snapshot) /\ Due(observed[k])
    BY DEF Chosen, First
  <2>2. k \in Known(snapshot) => snapshot[k] \in {"breached", "healthy"}
    BY DEF Known
  <2> HIDE DEF due, observed, o
  <2> QED
    BY <1>6, <1>7, <2>1, <2>2
<1>9. k \in DOMAIN observed => k \in DOMAIN tried /\ tried[k] = x
  <2> HIDE DEF due, o, observed
  <2> QED
    BY <1>7 DEF Attempted
<1>10. DOMAIN tried = DOMAIN observed
  BY DEF Attempted
<1>11. /\ k \in DOMAIN active' <=> k \in DOMAIN observed /\ ~Quiet(x)
       /\ k \in DOMAIN active' => active'[k] = x
  <2> HIDE DEF tried, x, observed
  <2>1. DOMAIN active' = {j \in DOMAIN tried : ~Quiet(tried[j])}
        /\ \A j \in DOMAIN active' : active'[j] = tried[j]
    BY <1>1 DEF Kept
  <2> QED
    BY <1>9, <1>10, <2>1
<1>12. /\ x \in AlertCondition /\ x.lastObservedAt = o.lastObservedAt
       /\ x.lastNotifiedAt = o.lastNotifiedAt /\ x.firing = o.firing
       /\ x.since = o.since /\ x.recoverySince = o.recoverySince
       /\ x.recoveryPending = o.recoveryPending
       /\ x.lastAttemptAt = (IF k \in due THEN now ELSE o.lastAttemptAt)
  <2> HIDE DEF o, due
  <2> QED
    BY <1>n, <1>5, AttemptedAlert
<1>13. k \in keys => k \in due
  BY DEF keys
<1> HIDE DEF x, o, due, observed, tried, keys, b, p, q
<1>14. Streaks(x, q)
  BY <1>5, <1>12 DEF Streaks
<1>t. /\ o.lastAttemptAt \in Time /\ o.lastObservedAt \in Time /\ o.lastNotifiedAt \in Time
      /\ p.sent \in Time /\ p.notified \in Time /\ b.lastObservedAt \in Time
      /\ x.lastAttemptAt \in Time /\ x.lastObservedAt \in Time
  BY <1>3, <1>5, <1>12 DEF AlertCondition, Past
<1>i. /\ Time \subseteq Nat /\ Retry \in Nat \ {0} /\ Retention \in Nat /\ Retry <= Retention
      /\ config.cooldown \in Nat /\ config.cooldown <= Retention
  BY <1>n, Numbers DEF Time
<1>u. /\ o.lastAttemptAt \in Nat /\ o.lastObservedAt \in Nat /\ o.lastNotifiedAt \in Nat
      /\ p.sent \in Nat /\ p.notified \in Nat /\ b.lastObservedAt \in Nat
      /\ x.lastAttemptAt \in Nat /\ x.lastObservedAt \in Nat
  BY <1>t, <1>i
<1>o. o.lastObservedAt >= b.lastObservedAt /\ now - o.lastObservedAt >= 0
  BY <1>5, <1>u, <1>n
<1>v. /\ p.sent > 0 => \/ now - p.sent >= Retry
                       \/ p.sent <= o.lastAttemptAt /\ p.sent <= o.lastObservedAt
      /\ p.notified > 0 => \/ now - p.notified > Retention
                           \/ p.notified <= o.lastNotifiedAt /\ p.notified <= o.lastObservedAt
  <2>1. /\ p.sent > 0 => \/ now - p.sent >= Retry
                         \/ p.sent <= o.lastAttemptAt /\ p.sent <= b.lastObservedAt
        /\ p.notified > 0 => \/ now - p.notified > Retention
                             \/ p.notified <= o.lastNotifiedAt /\ p.notified <= b.lastObservedAt
    BY <1>3, <1>5 DEF Remembers
  <2> QED
    BY <2>1, <1>o, <1>u
<1>d. k \in due => now - o.lastAttemptAt >= Retry
  BY <1>8 DEF Due
<1>15. Remembers(x, q, now)
  <2>1. CASE k \in keys
    <3>1. q.sent = now /\ x.lastAttemptAt = now /\ x.lastObservedAt = now
      BY <2>1, <1>2, <1>5, <1>8, <1>12, <1>13
    <3>2. p.notified > 0 => \/ now - p.notified > Retention
                            \/ p.notified <= x.lastNotifiedAt /\ p.notified <= x.lastObservedAt
      BY <1>v, <1>12
    <3> QED
      BY <3>1, <3>2, <1>2, <1>n DEF Remembers
  <2>2. CASE k \notin keys
    <3>1. x.lastAttemptAt >= o.lastAttemptAt
      BY <1>12, <1>d, <1>u, <1>i, <1>n
    <3>3. q.sent = p.sent /\ q.notified = p.notified
      BY <2>2, <1>2
    <3>4. p.sent > 0 => \/ now - p.sent >= Retry
                        \/ p.sent <= x.lastAttemptAt /\ p.sent <= x.lastObservedAt
      BY <3>1, <1>v, <1>12, <1>u
    <3>5. p.notified > 0 => \/ now - p.notified > Retention
                            \/ p.notified <= x.lastNotifiedAt /\ p.notified <= x.lastObservedAt
      BY <1>v, <1>12
    <3> QED
      BY <3>3, <3>4, <3>5 DEF Remembers
  <2> QED
    BY <2>1, <2>2
<1>16. ASSUME k \notin DOMAIN active' PROVE LongPast(q, now)
  <2>1. CASE k \notin DOMAIN observed
    <3>1. k \notin keys /\ k \notin DOMAIN active
      BY <2>1, <1>6, <1>8, <1>13
    <3>2. LongPast(p, now)
      BY <3>1 DEF AlertInv, p
    <3> QED
      BY <3>1, <3>2, <1>2 DEF LongPast
  <2>2. CASE Quiet(x)
    <3>1. now - x.lastObservedAt > Retention
      BY <2>2 DEF Quiet
    <3>2. x.lastObservedAt \in Nat /\ q.sent \in Nat /\ q.notified \in Nat
      BY <1>12, <1>2, <1>i DEF AlertCondition, Past
    <3> QED
      BY <1>15, <3>1, <3>2, <1>i, <1>n DEF Remembers, LongPast
  <2> QED
    BY <1>16, <1>11, <2>1, <2>2
<1>17. ASSUME k \in message'.keys
       PROVE  /\ k \in DOMAIN active' /\ active'[k].lastObservedAt = now
              /\ Allowed(k, message'.recoveries)
  <2>1. keys # {}
    BY <1>17, <1>1 DEF NoMessage
  <2>2. k \in keys /\ message'.recoveries = {j \in keys : observed[j].recoveryPending}
    BY <1>17, <1>1, <2>1
  <2>3. x.lastObservedAt = now /\ k \in DOMAIN observed /\ Due(o)
    BY <2>2, <1>5, <1>8, <1>12, <1>13
  <2>4. ~Quiet(x)
    BY <2>3, <1>i, <1>n DEF Quiet
  <2>5. k \in DOMAIN active' /\ active'[k].lastObservedAt = now
    BY <2>3, <2>4, <1>11
  <2>6. p.sent > 0 => now - p.sent >= Retry
    <3>1. now - o.lastAttemptAt >= Retry
      BY <2>3 DEF Due
    <3> QED
      BY <3>1, <1>v, <1>u, <1>i, <1>n
  <2>7. ASSUME k \notin message'.recoveries, p.notified > 0
        PROVE  now - p.notified >= config.cooldown
    <3>1. ~o.recoveryPending
      BY <2>2, <2>3, <2>7, <1>7
    <3>2. o.lastNotifiedAt = 0 \/ now - o.lastNotifiedAt >= config.cooldown
      BY <2>3, <3>1 DEF Due
    <3> QED
      BY <2>7, <3>2, <1>v, <1>u, <1>i, <1>n
  <2> QED
    BY <2>5, <2>6, <2>7 DEF Allowed, p
<1>18. ASSUME k \in DOMAIN active, k \in DOMAIN active'
       PROVE  /\ active'[k].firing /\ ~active[k].firing =>
                   /\ now - q.notBreached >= config.hold
                   /\ now - q.resumed >= config.hold
              /\ active[k].firing /\ ~active'[k].firing =>
                   /\ now - q.notHealthy >= config.hold
                   /\ now - q.resumed >= config.hold
  <2>1. active[k] = b
    BY <1>18 DEF b, Before
  <2>2. active'[k].firing = o.firing
    BY <1>18, <1>11, <1>12
  <2> QED
    BY <2>1, <2>2, <1>5
<1>19. k \in DOMAIN active' => active'[k] \in AlertCondition
        /\ Streaks(active'[k], q) /\ Remembers(active'[k], q, now)
  BY <1>11, <1>12, <1>14, <1>15
<1> QED
  BY <1>2, <1>5, <1>16, <1>17, <1>18, <1>19 DEF q

-----------------------------------------------------------------------------
(* Every step keeps the invariant *)

(* The alerts an evaluation leaves, and its message.                       *)
LEMMA EvaluatedState ==
  ASSUME AlertInv, NEW snapshot \in [Key -> Sample], NEW synced \in BOOLEAN,
         Evaluate(snapshot, synced)
  PROVE  /\ DOMAIN active' \subseteq Key
         /\ active' = [k \in DOMAIN active' |-> active'[k]]
         /\ past' = [k \in Key |-> past'[k]]
         /\ message' \in Message /\ message'.at <= now
         /\ now' = now /\ config' = config /\ revision' = revision
<1> DEFINE observed == AllObserved(snapshot)
           due == Chosen(observed, Known(snapshot))
           tried == Attempted(observed, due)
           keys == IF synced /\ config.webhook THEN due ELSE {}
           told == {j \in keys : observed[j].recoveryPending}
<1>n. now \in Time /\ now \in Nat
  BY Numbers DEF Time, AlertInv, Types
<1>1. /\ past' = Recorded(snapshot, Fires(observed), keys)
      /\ active' = Kept(tried)
      /\ message' = IF keys = {} THEN NoMessage
                    ELSE [keys |-> keys, recoveries |-> told,
                          revision |-> revision, at |-> now, accepted |-> FALSE]
      /\ now' = now /\ config' = config /\ revision' = revision
  BY DEF Evaluate, Save
<1>2. DOMAIN active' \subseteq Key
  <2>1. DOMAIN observed \subseteq Key
    BY DEF AllObserved, AlertInv, Types
  <2>2. DOMAIN tried = DOMAIN observed
    BY DEF Attempted
  <2> HIDE DEF tried, observed
  <2> QED
    BY <1>1, <2>1, <2>2 DEF Kept
<1>3. active' = [k \in DOMAIN active' |-> active'[k]]
  <2> HIDE DEF tried
  <2> QED
    BY <1>1 DEF Kept
<1>4. past' = [k \in Key |-> past'[k]]
  BY <1>1 DEF Recorded
<1>5. keys \subseteq Key /\ told \subseteq keys
  <2>1. due \subseteq Key
    BY DEF Chosen, First, Known
  <2> QED
    BY <2>1
<1>6. message' \in Message /\ message'.at <= now
  <2> HIDE DEF keys, told
  <2>1. CASE keys = {}
    <3>1. 0 \in Time
      BY Numbers DEF Time, AlertInv, Types
    <3> QED
      BY <2>1, <3>1, <1>1, <1>n DEF NoMessage, Message
  <2>2. CASE keys # {}
    <3>1. revision \in Nat /\ told \subseteq Key
      BY <1>5 DEF AlertInv, Types
    <3> QED
      BY <2>2, <3>1, <1>1, <1>5, <1>n DEF Message
  <2> QED
    BY <2>1, <2>2
<1> QED
  BY <1>1, <1>2, <1>3, <1>4, <1>6

LEMMA EvaluateKeeps ==
  ASSUME AlertInv, NEW snapshot \in [Key -> Sample], NEW synced \in BOOLEAN,
         Evaluate(snapshot, synced)
  PROVE  AlertInv'
<1>1. ASSUME NEW k \in Key
      PROVE  /\ past'[k] \in Past /\ PastBy(past'[k], now)
             /\ k \in DOMAIN active' =>
                  /\ active'[k] \in AlertCondition
                  /\ Streaks(active'[k], past'[k]) /\ Remembers(active'[k], past'[k], now)
             /\ k \notin DOMAIN active' => LongPast(past'[k], now)
             /\ k \in message'.keys =>
                  k \in DOMAIN active' /\ active'[k].lastObservedAt = now
  BY <1>1, EvaluatedKey
<1>2. /\ DOMAIN active' \subseteq Key
      /\ active' = [k \in DOMAIN active' |-> active'[k]]
      /\ past' = [k \in Key |-> past'[k]]
      /\ message' \in Message /\ message'.at <= now
      /\ now' = now /\ config' = config /\ revision' = revision
  BY EvaluatedState
<1>3. message'.keys \subseteq Key
  BY <1>2 DEF Message
<1>4. Types'
  <2>1. active' \in [DOMAIN active' -> AlertCondition]
    BY <1>1, <1>2
  <2>2. past' \in [Key -> Past]
    BY <1>1, <1>2
  <2>3. message'.keys \subseteq DOMAIN active'
    BY <1>1, <1>3
  <2> QED
    BY <1>2, <2>1, <2>2, <2>3 DEF AlertInv, Types
<1>5. UnderWay'
  BY <1>1, <1>2, <1>3 DEF UnderWay
<1>6. \A k \in Key :
        /\ PastBy(past'[k], now')
        /\ IF k \in DOMAIN active'
           THEN Streaks(active'[k], past'[k]) /\ Remembers(active'[k], past'[k], now')
           ELSE LongPast(past'[k], now')
  BY <1>1, <1>2
<1> QED
  BY <1>4, <1>5, <1>6 DEF AlertInv

(* The bot takes the message.                                              *)
LEMMA AcceptKeeps ==
  ASSUME AlertInv, Accept
  PROVE  AlertInv'
<1> DEFINE Word(k) == [past[k] EXCEPT !.told = TRUE]
<1>1. UNCHANGED <<now, config, revision, active>>
  BY DEF Accept
<1>2. /\ message' \in Message /\ message'.keys = message.keys /\ message'.at = message.at
  BY DEF Accept, AlertInv, Types, Message
<1>3. ASSUME NEW k \in Key
      PROVE  /\ past'[k] \in Past /\ past'[k].notBreached = past[k].notBreached
             /\ past'[k].notHealthy = past[k].notHealthy /\ past'[k].known = past[k].known
             /\ past'[k].resumed = past[k].resumed /\ past'[k].sent = past[k].sent
             /\ past'[k].notified = past[k].notified
  <2>1. past[k] \in Past
    BY DEF AlertInv, Types
  <2>2. past'[k] = past[k] \/ past'[k] = Word(k)
    BY DEF Accept
  <2>3. /\ Word(k) \in Past /\ Word(k).notBreached = past[k].notBreached
        /\ Word(k).notHealthy = past[k].notHealthy /\ Word(k).known = past[k].known
        /\ Word(k).resumed = past[k].resumed /\ Word(k).sent = past[k].sent
        /\ Word(k).notified = past[k].notified
    BY <2>1 DEF Past
  <2> HIDE DEF Word
  <2> QED
    BY <2>1, <2>2, <2>3
<1>4. past' = [k \in Key |-> past'[k]]
  BY DEF Accept
<1>5. Types'
  BY <1>1, <1>2, <1>3, <1>4 DEF AlertInv, Types
<1>6. UnderWay'
  BY <1>1, <1>2 DEF AlertInv, UnderWay
<1>7. ASSUME NEW k \in Key
      PROVE  /\ PastBy(past'[k], now)
             /\ IF k \in DOMAIN active
                THEN Streaks(active[k], past'[k]) /\ Remembers(active[k], past'[k], now)
                ELSE LongPast(past'[k], now)
  <2>1. PastBy(past[k], now)
        /\ IF k \in DOMAIN active
           THEN Streaks(active[k], past[k]) /\ Remembers(active[k], past[k], now)
           ELSE LongPast(past[k], now)
    BY DEF AlertInv
  <2> QED
    BY <1>3, <2>1 DEF PastBy, Streaks, Remembers, LongPast
<1> QED
  BY <1>1, <1>5, <1>6, <1>7 DEF AlertInv

(* A message is over without a word of it.                                 *)
LEMMA DroppedKeeps ==
  ASSUME AlertInv, message' = NoMessage,
         UNCHANGED <<now, config, revision, active, past>>
  PROVE  AlertInv'
<1>1. 0 \in Time
  BY Numbers DEF Time, AlertInv, Types
<1>2. message' \in Message /\ message'.keys = {} /\ message'.at = 0
  BY <1>1 DEF NoMessage, Message
<1>3. Types'
  BY <1>2 DEF AlertInv, Types
<1>4. UnderWay'
  <2>1. now \in Nat
    BY Numbers DEF AlertInv, Types
  <2> QED
    BY <1>2, <2>1 DEF UnderWay
<1> QED
  BY <1>3, <1>4 DEF AlertInv

(* The answer of the bot is recorded.                                      *)
LEMMA SentKeeps ==
  ASSUME AlertInv, NEW ok \in BOOLEAN, NEW saved \in BOOLEAN, Sent(ok, saved)
  PROVE  AlertInv'
<1>1. CASE UNCHANGED <<now, config, revision, active, past>>
  BY <1>1, DroppedKeeps DEF Sent
<1>2. CASE ~UNCHANGED <<now, config, revision, active, past>>
  <2> DEFINE Told(k) == [past[k] EXCEPT !.notified = message.at]
  <2>1. /\ active' = [k \in DOMAIN active |->
                        IF k \in message.keys THEN Notified(active[k], k) ELSE active[k]]
        /\ past' = [k \in Key |-> IF k \in message.keys THEN Told(k) ELSE past[k]]
        /\ UNCHANGED <<now, config, revision>> /\ message' = NoMessage
    BY <1>2 DEF Sent, Save
  <2>2. /\ message.at \in Time /\ message.at <= now /\ message.keys \subseteq DOMAIN active
        /\ \A k \in message.keys : message.at <= active[k].lastObservedAt
    BY DEF AlertInv, Types, Message, UnderWay
  <2>3. ASSUME NEW k \in DOMAIN active
        PROVE  LET a == active[k]
                   x == Notified(a, k) IN
               /\ x \in AlertCondition /\ x.firing = a.firing /\ x.since = a.since
               /\ x.lastObservedAt = a.lastObservedAt /\ x.lastNotifiedAt = message.at
               /\ x.lastAttemptAt = a.lastAttemptAt /\ x.recoverySince = a.recoverySince
    <3> DEFINE pending == IF k \in message.recoveries THEN FALSE
                          ELSE active[k].recoveryPending
    <3>1. active[k] \in AlertCondition
      BY DEF AlertInv, Types
    <3>2. pending \in BOOLEAN
      BY <3>1 DEF AlertCondition
    <3>3. Notified(active[k], k)
          = [active[k] EXCEPT !.lastNotifiedAt = message.at, !.recoveryPending = pending]
      BY <3>1 DEF Notified, AlertCondition
    <3> HIDE DEF pending
    <3> QED
      BY <3>1, <3>2, <3>3, <2>2 DEF AlertCondition
  <2>4. ASSUME NEW k \in Key
        PROVE  LET p == past[k]
                   q == Told(k) IN
               /\ q \in Past /\ q.notBreached = p.notBreached /\ q.known = p.known
               /\ q.notHealthy = p.notHealthy /\ q.resumed = p.resumed
               /\ q.sent = p.sent /\ q.notified = message.at
    <3>1. past[k] \in Past
      BY DEF AlertInv, Types
    <3> QED
      BY <3>1, <2>2 DEF Past
  <2> HIDE DEF Told
  <2>5. ASSUME NEW k \in Key
        PROVE  /\ past'[k] \in Past /\ PastBy(past'[k], now)
               /\ k \in DOMAIN active =>
                    /\ active'[k] \in AlertCondition
                    /\ Streaks(active'[k], past'[k]) /\ Remembers(active'[k], past'[k], now)
               /\ k \notin DOMAIN active => LongPast(past'[k], now)
    <3>1. past[k] \in Past /\ PastBy(past[k], now)
          /\ IF k \in DOMAIN active
             THEN Streaks(active[k], past[k]) /\ Remembers(active[k], past[k], now)
             ELSE LongPast(past[k], now)
      BY DEF AlertInv, Types
    <3>2. CASE k \notin message.keys
      <4>1. past'[k] = past[k] /\ (k \in DOMAIN active => active'[k] = active[k])
        BY <2>1, <3>2
      <4>2. k \in DOMAIN active => active[k] \in AlertCondition
        BY DEF AlertInv, Types
      <4> QED
        BY <3>1, <4>1, <4>2
    <3>3. CASE k \in message.keys
      <4>1. past'[k] = Told(k) /\ k \in DOMAIN active
            /\ active'[k] = Notified(active[k], k)
        BY <2>1, <2>2, <3>3
      <4>2. PastBy(past'[k], now)
        BY <3>1, <4>1, <2>4 DEF PastBy
      <4>3. Streaks(active'[k], past'[k])
        BY <3>1, <4>1, <2>3, <2>4 DEF Streaks
      <4>4. message.at \in Nat
        BY <2>2, Numbers DEF Time, AlertInv, Types
      <4>5. message.at <= active[k].lastObservedAt
        BY <2>2, <3>3
      <4>6. Remembers(active'[k], past'[k], now)
        BY <3>1, <4>1, <4>4, <4>5, <2>3, <2>4 DEF Remembers
      <4> QED
        BY <4>1, <4>2, <4>3, <4>6, <2>3, <2>4
    <3> QED
      BY <3>2, <3>3
  <2>6. DOMAIN active' = DOMAIN active
    BY <2>1
  <2>7. active' = [k \in DOMAIN active |-> active'[k]] /\ past' = [k \in Key |-> past'[k]]
    BY <2>1
  <2>8. DOMAIN active \subseteq Key
    BY DEF AlertInv, Types
  <2>9. message' \in Message /\ message'.keys = {} /\ message'.at = 0
    <3>1. 0 \in Time
      BY Numbers DEF Time, AlertInv, Types
    <3> QED
      BY <3>1, <2>1 DEF NoMessage, Message
  <2>10. Types'
    <3>1. active' \in [DOMAIN active' -> AlertCondition]
      BY <2>5, <2>6, <2>7, <2>8
    <3>2. past' \in [Key -> Past]
      BY <2>5, <2>7
    <3> QED
      BY <3>1, <3>2, <2>1, <2>6, <2>9 DEF AlertInv, Types
  <2>11. UnderWay'
    <3>1. now \in Nat
      BY Numbers DEF AlertInv, Types
    <3> QED
      BY <2>1, <2>9, <3>1 DEF UnderWay
  <2> QED
    BY <2>1, <2>5, <2>6, <2>10, <2>11 DEF AlertInv
<1> QED
  BY <1>1, <1>2

LEMMA CrashKeeps ==
  ASSUME AlertInv, Crash
  PROVE  AlertInv'
BY DroppedKeeps DEF Crash

LEMMA UpdateKeeps ==
  ASSUME AlertInv, NEW new \in Config, Update(new)
  PROVE  AlertInv'
BY DEF Update, AlertInv, Types, UnderWay

(* As time passes, what is past is further back.                           *)
LEMMA ElapseKeeps ==
  ASSUME AlertInv, Elapse
  PROVE  AlertInv'
<1>1. now' = now + 1 /\ now < MaxTime /\ UNCHANGED <<config, revision, active, message, past>>
  BY DEF Elapse
<1>2. now \in Nat /\ MaxTime \in Nat /\ Epoch \in Nat /\ Retry \in Nat /\ Retention \in Nat
  BY Numbers DEF AlertInv, Types
<1>3. now' \in Epoch..MaxTime
  BY <1>1, <1>2 DEF AlertInv, Types
<1>4. Types'
  BY <1>1, <1>3 DEF AlertInv, Types
<1>5. UnderWay'
  <2>1. message.at \in Nat
    BY <1>2 DEF AlertInv, Types, Message, Time
  <2> QED
    BY <1>1, <1>2, <2>1 DEF AlertInv, UnderWay
<1>6. ASSUME NEW k \in Key
      PROVE  /\ PastBy(past[k], now + 1)
             /\ IF k \in DOMAIN active
                THEN Streaks(active[k], past[k]) /\ Remembers(active[k], past[k], now + 1)
                ELSE LongPast(past[k], now + 1)
  <2>1. /\ past[k].notBreached \in Nat /\ past[k].notHealthy \in Nat
        /\ past[k].known \in Nat /\ past[k].resumed \in Nat
        /\ past[k].sent \in Nat /\ past[k].notified \in Nat
    BY <1>2 DEF AlertInv, Types, Past, Time
  <2>2. PastBy(past[k], now)
        /\ IF k \in DOMAIN active
           THEN Streaks(active[k], past[k]) /\ Remembers(active[k], past[k], now)
           ELSE LongPast(past[k], now)
    BY DEF AlertInv
  <2>3. PastBy(past[k], now + 1)
    BY <1>2, <2>1, <2>2 DEF PastBy
  <2>4. k \notin DOMAIN active => LongPast(past[k], now + 1)
    BY <1>2, <2>1, <2>2 DEF LongPast
  <2>5. k \in DOMAIN active => Remembers(active[k], past[k], now + 1)
    BY <1>2, <2>1, <2>2 DEF Remembers
  <2> QED
    BY <2>2, <2>3, <2>4, <2>5
<1>7. \A k \in Key :
        /\ PastBy(past'[k], now')
        /\ IF k \in DOMAIN active'
           THEN Streaks(active'[k], past'[k]) /\ Remembers(active'[k], past'[k], now')
           ELSE LongPast(past'[k], now')
  BY <1>1, <1>6
<1> QED
  BY <1>4, <1>5, <1>7 DEF AlertInv

(* At the start nothing is past, and there are no alerts.                  *)
LEMMA AlertStarts == Init => AlertInv
<1> SUFFICES ASSUME Init PROVE AlertInv
  OBVIOUS
<1>0. config \in Config /\ now = Epoch
  BY DEF Init
<1>1. /\ 0 \in Time /\ Epoch \in Nat /\ MaxTime \in Nat /\ Epoch <= MaxTime
      /\ Epoch \in Epoch..MaxTime
  BY TimeAssumption DEF Time
<1>2. DOMAIN active = {} /\ active \in [{} -> AlertCondition]
  BY DEF Init
<1>3. message \in Message /\ message.keys = {} /\ message.at = 0
  BY <1>1 DEF Init, NoMessage, Message
<1>4. ASSUME NEW k \in Key
      PROVE  /\ past[k] \in Past /\ past[k].notBreached = 0 /\ past[k].notHealthy = 0
             /\ past[k].known = 0 /\ past[k].resumed = 0 /\ past[k].sent = 0
             /\ past[k].notified = 0
  BY <1>1 DEF Init, Past
<1>5. now = Epoch /\ now \in Epoch..MaxTime
  BY <1>0, <1>1
<1>6. revision \in Nat
  BY DEF Init
<1>7. Types
  <2>1. past = [k \in Key |-> past[k]]
    BY DEF Init
  <2>2. past \in [Key -> Past]
    BY <1>4, <2>1
  <2>3. active \in [DOMAIN active -> AlertCondition] /\ DOMAIN active \subseteq Key
    BY <1>2
  <2> QED
    BY <1>0, <1>3, <1>5, <1>6, <2>2, <2>3 DEF Types
<1>8. UnderWay
  BY <1>1, <1>3, <1>5 DEF UnderWay
<1>9. \A k \in Key : PastBy(past[k], now) /\ k \notin DOMAIN active /\ LongPast(past[k], now)
  BY <1>1, <1>2, <1>4, <1>5 DEF PastBy, LongPast
<1> QED
  BY <1>7, <1>8, <1>9 DEF AlertInv

LEMMA AlertKeeps == AlertInv /\ [Next]_vars => AlertInv'
<1> SUFFICES ASSUME AlertInv, [Next]_vars PROVE AlertInv'
  OBVIOUS
<1>1. ASSUME NEW snapshot \in [Key -> Sample], NEW synced \in BOOLEAN,
             Evaluate(snapshot, synced)
      PROVE  AlertInv'
  BY <1>1, EvaluateKeeps
<1>2. ASSUME Accept PROVE AlertInv'
  BY <1>2, AcceptKeeps
<1>3. ASSUME NEW ok \in BOOLEAN, NEW saved \in BOOLEAN, Sent(ok, saved) PROVE AlertInv'
  BY <1>3, SentKeeps
<1>4. ASSUME Crash PROVE AlertInv'
  BY <1>4, CrashKeeps
<1>5. ASSUME NEW new \in Config, Update(new) PROVE AlertInv'
  BY <1>5, UpdateKeeps
<1>6. ASSUME Elapse PROVE AlertInv'
  BY <1>6, ElapseKeeps
<1>7. ASSUME UNCHANGED vars PROVE AlertInv'
  BY <1>7 DEF vars, AlertInv, Types, UnderWay
<1> QED
  BY <1>1, <1>2, <1>3, <1>4, <1>5, <1>6, <1>7 DEF Next

-----------------------------------------------------------------------------
(* What may be sent, and when an alert fires and recovers *)

LEMMA AlertSafety == Spec => []AlertInv
BY AlertStarts, AlertKeeps, PTL DEF Spec

(* Only an evaluation begins a message.                                    *)
LEMMA NewMessage ==
  ASSUME AlertInv, [Next]_vars,
         message' # message, message' # NoMessage, ~message'.accepted,
         NEW k \in message'.keys
  PROVE  Allowed(k, message'.recoveries)
<1>1. ASSUME NEW snapshot \in [Key -> Sample], NEW synced \in BOOLEAN,
             Evaluate(snapshot, synced)
      PROVE  Allowed(k, message'.recoveries)
  <2>1. k \in Key
    BY <1>1, EvaluatedState DEF Message
  <2> QED
    BY <1>1, <2>1, EvaluatedKey
<1>2. ~Accept
  <2>1. Accept => message'.accepted
    BY DEF Accept, AlertInv, Types, Message
  <2> QED
    BY <2>1
<1>3. ASSUME NEW ok \in BOOLEAN, NEW saved \in BOOLEAN PROVE ~Sent(ok, saved)
  BY DEF Sent
<1> QED
  BY <1>1, <1>2, <1>3 DEF Next, Crash, Update, Elapse, vars

(* AttemptsAreSpaced: two attempts for one alert are Retry apart, through  *)
(* lost answers, crashes, updates and alerts that are dropped and found    *)
(* again (evaluate, alerts.go:331).                                        *)
THEOREM AttemptsHaveDistance == Spec => AttemptsAreSpaced
<1>1. AlertInv /\ [Next]_vars =>
        [message' # message /\ message' # NoMessage /\ ~message'.accepted
           => \A k \in message'.keys :
                past[k].sent > 0 => now - past[k].sent >= Retry]_vars
  BY NewMessage DEF Allowed
<1> QED
  BY <1>1, AlertSafety, PTL DEF Spec, AttemptsAreSpaced

(* CooldownIsKept: word that an alert fires comes no sooner than the       *)
(* cooldown after the last message recorded as delivered, across restarts  *)
(* and although quiet alerts are dropped (evaluate, alerts.go:330).        *)
THEOREM CooldownHolds == Spec => CooldownIsKept
<1>1. AlertInv /\ [Next]_vars =>
        [message' # message /\ message' # NoMessage /\ ~message'.accepted
           => \A k \in message'.keys \ message'.recoveries :
                past[k].notified > 0 => now - past[k].notified >= config.cooldown]_vars
  BY NewMessage DEF Allowed
<1> QED
  BY <1>1, AlertSafety, PTL DEF Spec, CooldownIsKept

(* HoldIsRespected: an alert fires, and recovers, only after a hold period *)
(* of observations of one kind without a gap (evaluate, alerts.go:306 and  *)
(* 319).                                                                   *)
THEOREM HoldHolds == Spec => HoldIsRespected
<1> DEFINE Slow(k) ==
      /\ active'[k].firing /\ ~active[k].firing =>
           now - past'[k].notBreached >= config.hold /\ now - past'[k].resumed >= config.hold
      /\ active[k].firing /\ ~active'[k].firing =>
           now - past'[k].notHealthy >= config.hold /\ now - past'[k].resumed >= config.hold
<1>1. ASSUME AlertInv, [Next]_vars, NEW k \in DOMAIN active \cap DOMAIN active'
      PROVE  Slow(k)
  <2>1. k \in Key
    BY <1>1 DEF AlertInv, Types
  <2>2. ASSUME NEW snapshot \in [Key -> Sample], NEW synced \in BOOLEAN,
               Evaluate(snapshot, synced)
        PROVE  Slow(k)
    BY <1>1, <2>1, <2>2, EvaluatedKey
  <2>3. ASSUME active' = active PROVE Slow(k)
    BY <2>3
  <2>4. ASSUME NEW ok \in BOOLEAN, NEW saved \in BOOLEAN, Sent(ok, saved)
        PROVE  Slow(k)
    <3>1. active[k] \in AlertCondition
      BY <1>1 DEF AlertInv, Types
    <3>2. Notified(active[k], k).firing = active[k].firing
      BY <3>1 DEF Notified, AlertCondition
    <3>3. active'[k] \in {active[k], Notified(active[k], k)}
      BY <1>1, <2>4 DEF Sent, Save
    <3>4. active'[k].firing = active[k].firing
      BY <3>2, <3>3
    <3> QED
      BY <3>4
  <2>5. (UNCHANGED vars \/ Accept \/ Crash \/ Elapse \/ \E new \in Config : Update(new))
          => active' = active
    BY DEF vars, Accept, Crash, Elapse, Update
  <2> HIDE DEF Slow
  <2> QED
    BY <1>1, <2>2, <2>3, <2>4, <2>5 DEF Next
<1>2. AlertInv /\ [Next]_vars =>
        [\A k \in DOMAIN active \cap DOMAIN active' :
           /\ active'[k].firing /\ ~active[k].firing =>
                now - past'[k].notBreached >= config.hold /\ now - past'[k].resumed >= config.hold
           /\ active[k].firing /\ ~active'[k].firing =>
                now - past'[k].notHealthy >= config.hold /\ now - past'[k].resumed >= config.hold]_vars
  BY <1>1
<1> QED
  BY <1>2, AlertSafety, PTL DEF Spec, HoldIsRespected

-----------------------------------------------------------------------------
(* The events of an evaluation in the order of their keys *)

Orders(order, keys) ==
  /\ \A k \in keys : \E i \in DOMAIN order : order[i] = k
  /\ \A i, j \in DOMAIN order : i < j => order[i] < order[j]

Orderable(keys) ==
  \E order \in [1..Cardinality(keys) -> keys] : Orders(order, keys)

(* A set of numbers that is not empty has a least one.                     *)
LEMMA LeastNumber ==
  ASSUME NEW T \in SUBSET Nat, T # {}
  PROVE  \E x \in T : \A y \in T : x <= y
<1>1. PICK x \in T : \A y \in T : ~(<<y, x>> \in OpToRel(<, Nat))
  BY NatLessThanWellFounded, WFMin
<1>2. \A y \in T : ~(y < x)
  BY <1>1 DEF OpToRel
<1> QED
  BY <1>2

(* With its least key in front of the others in order, a set is in order.  *)
LEMMA OrderedBehindLeast ==
  ASSUME NEW S \in SUBSET Nat, IsFiniteSet(S), NEW m \in S, \A y \in S : m <= y,
         Orderable(S \ {m})
  PROVE  Orderable(S)
<1> DEFINE n == Cardinality(S)
           R == S \ {m}
<1>1. n \in Nat /\ n > 0 /\ IsFiniteSet(R) /\ Cardinality(R) = n - 1
  <2>1. IsFiniteSet(R) /\ Cardinality(R) = Cardinality(S) - 1
    BY FS_RemoveElement
  <2>2. Cardinality(S) \in Nat /\ Cardinality(R) \in Nat
    BY <2>1, FS_CardinalityType
  <2> QED
    BY <2>1, <2>2
<1>2. PICK g \in [1..(n - 1) -> R] : Orders(g, R)
  BY <1>1 DEF Orderable
<1> DEFINE f == [i \in 1..n |-> IF i = 1 THEN m ELSE g[i - 1]]
<1> HIDE DEF n
<1>3. \A i \in 2..n : i - 1 \in 1..(n - 1) /\ f[i] = g[i - 1] /\ g[i - 1] \in R
  BY <1>1
<1>4. f[1] = m /\ 1 \in 1..n /\ DOMAIN f = 1..n
  BY <1>1
<1> HIDE DEF f
<1>5. f \in [1..n -> S]
  <2>1. \A i \in 1..n : f[i] \in S
    BY <1>1, <1>3, <1>4
  <2>2. f = [i \in 1..n |-> f[i]]
    BY DEF f
  <2> QED
    BY <2>1, <2>2
<1>6. ASSUME NEW k \in S PROVE \E i \in 1..n : f[i] = k
  <2>1. CASE k = m
    BY <2>1, <1>4
  <2>2. CASE k # m
    <3>1. PICK i \in 1..(n - 1) : g[i] = k
      BY <1>2, <2>2 DEF Orders
    <3>2. i + 1 \in 2..n /\ (i + 1) - 1 = i
      BY <1>1, <3>1
    <3>3. f[i + 1] = g[i]
      BY <1>3, <3>2
    <3> QED
      BY <1>1, <3>1, <3>2, <3>3
  <2> QED
    BY <2>1, <2>2
<1>7. ASSUME NEW i \in 1..n, NEW j \in 1..n, i < j PROVE f[i] < f[j]
  <2>1. j \in 2..n /\ f[j] \in R
    BY <1>1, <1>3, <1>7
  <2>2. CASE i = 1
    <3>1. f[j] \in Nat /\ m \in Nat /\ m # f[j] /\ m <= f[j]
      BY <2>1
    <3> QED
      BY <2>2, <3>1, <1>4
  <2>3. CASE i # 1
    <3>1. i \in 2..n /\ i - 1 < j - 1
      BY <1>1, <1>7, <2>3
    <3>2. g[i - 1] < g[j - 1]
      BY <1>2, <1>3, <2>1, <3>1 DEF Orders
    <3> QED
      BY <1>3, <2>1, <3>1, <3>2
  <2> QED
    BY <2>2, <2>3
<1>8. Orders(f, S)
  BY <1>4, <1>6, <1>7 DEF Orders
<1> QED
  BY <1>5, <1>8 DEF Orderable, n

(* Every finite set of keys can be put in order.                           *)
LEMMA EveryFiniteSetIsOrderable ==
  ASSUME NEW S \in SUBSET Nat, IsFiniteSet(S)
  PROVE  Orderable(S)
<1> DEFINE Bad == {T \in SUBSET Nat : IsFiniteSet(T) /\ ~Orderable(T)}
           Sizes == {n \in Nat : \E T \in Bad : Cardinality(T) = n}
<1>1. SUFFICES ASSUME S \in Bad PROVE FALSE
  OBVIOUS
<1>2. Cardinality(S) \in Sizes
  BY <1>1, FS_CardinalityType
<1>3. PICK n \in Sizes : \A i \in Sizes : n <= i
  <2> HIDE DEF Bad
  <2>1. Sizes \in SUBSET Nat /\ Sizes # {}
    BY <1>2
  <2> QED
    BY <2>1, LeastNumber
<1>4. PICK T \in Bad : Cardinality(T) = n
  <2> HIDE DEF Bad
  <2> QED
    BY <1>3
<1>5. T \in SUBSET Nat /\ IsFiniteSet(T) /\ ~Orderable(T)
  BY <1>4
<1>6. CASE T = {}
  <2>1. Cardinality({}) = 0
    BY FS_EmptySet
  <2>2. 1..Cardinality({}) = {}
    BY <2>1
  <2> DEFINE f == [i \in {} |-> 0]
  <2>3. f \in [{} -> {}] /\ DOMAIN f = {}
    OBVIOUS
  <2>4. Orders(f, {})
    BY <2>3 DEF Orders
  <2> HIDE DEF f
  <2>5. Orderable({})
    BY <2>2, <2>3, <2>4 DEF Orderable
  <2> QED
    BY <1>5, <1>6, <2>5
<1>7. CASE T # {}
  <2>1. PICK m \in T : \A y \in T : m <= y
    BY <1>5, <1>7, LeastNumber
  <2>2. IsFiniteSet(T \ {m}) /\ Cardinality(T \ {m}) = Cardinality(T) - 1
    BY <1>5, <2>1, FS_RemoveElement
  <2>3. ~Orderable(T \ {m})
    BY <1>5, <2>1, OrderedBehindLeast
  <2>4. T \ {m} \in Bad
    BY <1>5, <2>2, <2>3
  <2>5. Cardinality(T \ {m}) \in Sizes
    <3>1. Cardinality(T \ {m}) \in Nat
      BY <2>2, FS_CardinalityType
    <3> HIDE DEF Bad
    <3> QED
      BY <2>4, <3>1
  <2>6. n <= n - 1
    BY <1>3, <1>4, <2>2, <2>5
  <2>7. n \in Nat
    BY <1>3
  <2> QED
    BY <2>6, <2>7
<1> QED
  BY <1>6, <1>7

(* The keys of an evaluation's events, each once.                          *)
LEMMA SortedKeys ==
  ASSUME NEW S \in SUBSET Key
  PROVE  /\ Sorted(S) \in [1..Cardinality(S) -> S] /\ Cardinality(S) \in Nat
         /\ Orders(Sorted(S), S)
<1>1. S \in SUBSET Nat /\ IsFiniteSet(S)
  BY KeyAssumption, FS_Subset
<1>2. \E order \in [1..Cardinality(S) -> S] : Orders(order, S)
  BY <1>1, EveryFiniteSetIsOrderable DEF Orderable
<1>3. Sorted(S) = CHOOSE order \in [1..Cardinality(S) -> S] : Orders(order, S)
  BY DEF Sorted, Orders
<1>4. Cardinality(S) \in Nat
  BY <1>1, FS_CardinalityType
<1> QED
  BY <1>2, <1>3, <1>4

-----------------------------------------------------------------------------
(* The history *)

(* The latest entries of a list are its end.                               *)
LEMMA LatestIsEnd ==
  ASSUME NEW S, NEW list \in Seq(S), NEW limit \in Nat \ {0}
  PROVE  /\ Latest(list, limit) \in Seq(S) /\ Len(Latest(list, limit)) <= limit
         /\ \E d \in 0..Len(list) :
              /\ Len(Latest(list, limit)) = Len(list) - d
              /\ \A i \in 1..(Len(list) - d) : Latest(list, limit)[i] = list[i + d]
<1>1. Len(list) \in Nat /\ \A i \in 1..Len(list) : list[i] \in S
  BY LenProperties, ElementOfSeq
<1>2. CASE Len(list) <= limit
  <2>1. Latest(list, limit) = list
    BY <1>1, <1>2 DEF Latest
  <2>2. Len(list) = Len(list) - 0 /\ \A i \in 1..(Len(list) - 0) : list[i] = list[i + 0]
    BY <1>1
  <2>3. 0 \in 0..Len(list)
    BY <1>1
  <2> QED
    BY <1>2, <2>1, <2>2, <2>3
<1>3. CASE Len(list) > limit
  <2> DEFINE n == Len(list)
             d == n - limit
             end == SubSeq(list, d + 1, n)
  <2>1. Latest(list, limit) = end
    BY <1>1, <1>3 DEF Latest
  <2> HIDE DEF n
  <2>2. n \in Nat /\ n > limit
    BY <1>1, <1>3 DEF n
  <2>3. d \in 0..n /\ d + 1 \in Int /\ n \in Int /\ d + 1 <= n /\ n - (d + 1) + 1 = limit
        /\ n - d = limit /\ (d + 1)..n \subseteq 1..n
    BY <2>2
  <2>4. \A i \in (d + 1)..n : list[i] \in S
    BY <1>1, <2>3 DEF n
  <2> HIDE DEF d
  <2>5. /\ end \in Seq(S) /\ Len(end) = n - (d + 1) + 1
        /\ \A i \in 1..(n - (d + 1) + 1) : end[i] = list[(d + 1) + i - 1]
    BY <2>3, <2>4, SubSeqProperties
  <2>6. \A i \in 1..(n - d) : end[i] = list[i + d]
    <3>1. ASSUME NEW i \in 1..limit PROVE (d + 1) + i - 1 = i + d
      BY <2>3
    <3> QED
      BY <2>3, <2>5, <3>1
  <2> HIDE DEF end
  <2>7. Len(end) = limit
    BY <2>3, <2>5
  <2> QED
    BY <2>1, <2>3, <2>5, <2>6, <2>7 DEF n
<1> QED
  BY <1>1, <1>2, <1>3

Told(h, k) == {i \in DOMAIN h : h[i].key = k}

(* Two events of a key with none of it between them are of two kinds.      *)
InTurn(h, k) ==
  \A i, j \in Told(h, k) :
    i < j /\ (\A m \in Told(h, k) : m <= i \/ j <= m) => h[i].event # h[j].event

(* The last event of a key tells whether its alert fires.                  *)
EndsAs(h, k, fires) ==
  \A i \in Told(h, k) :
    (\A j \in Told(h, k) : j <= i) => (h[i].event = "firing" <=> fires)

Tells(h, k, fires) == InTurn(h, k) /\ EndsAs(h, k, fires)

(* The end of a history tells what the history tells.                      *)
LEMMA EndTells ==
  ASSUME NEW h \in Seq(Event), NEW k, NEW fires \in BOOLEAN, Tells(h, k, fires),
         NEW limit \in Nat \ {0}
  PROVE  Tells(Latest(h, limit), k, fires)
<1> DEFINE e == Latest(h, limit)
<1>1. Len(h) \in Nat /\ DOMAIN h = 1..Len(h)
  BY LenProperties
<1>2. e \in Seq(Event)
  BY LatestIsEnd
<1>3. Len(e) \in Nat /\ DOMAIN e = 1..Len(e)
  BY <1>2, LenProperties
<1>4. PICK d \in 0..Len(h) :
        Len(e) = Len(h) - d /\ \A i \in 1..(Len(h) - d) : e[i] = h[i + d]
  BY LatestIsEnd
<1> HIDE DEF e
<1>5. ASSUME NEW i \in Told(e, k)
      PROVE  i \in Nat /\ i + d \in Told(h, k) /\ h[i + d] = e[i]
  <2>1. i \in 1..(Len(h) - d) /\ e[i].key = k
    BY <1>3, <1>4 DEF Told
  <2>2. i + d \in 1..Len(h) /\ i \in Nat
    BY <1>1, <1>4, <2>1
  <2> QED
    BY <1>1, <1>4, <2>1, <2>2 DEF Told
<1>6. ASSUME NEW m \in Told(h, k), m > d
      PROVE  m - d \in Told(e, k)
  <2>1. m \in 1..Len(h) /\ h[m].key = k
    BY <1>1 DEF Told
  <2>2. m - d \in 1..(Len(h) - d) /\ (m - d) + d = m
    BY <1>1, <1>4, <1>6, <2>1
  <2>3. e[m - d] = h[m]
    BY <1>4, <2>2
  <2> QED
    BY <1>3, <1>4, <2>1, <2>2, <2>3 DEF Told
<1>7. \A m \in Told(h, k) : m \in Nat
  BY <1>1 DEF Told
<1>8. d \in Nat
  BY <1>1, <1>4
<1>9. InTurn(e, k)
  <2>1. SUFFICES ASSUME NEW i \in Told(e, k), NEW j \in Told(e, k), i < j,
                        \A m \in Told(e, k) : m <= i \/ j <= m
                 PROVE  e[i].event # e[j].event
    BY DEF InTurn
  <2>2. /\ i \in Nat /\ i + d \in Told(h, k) /\ h[i + d] = e[i]
        /\ j \in Nat /\ j + d \in Told(h, k) /\ h[j + d] = e[j]
    BY <1>5
  <2>3. ASSUME NEW m \in Told(h, k) PROVE m <= i + d \/ j + d <= m
    <3>1. CASE m > d
      <4>1. m - d <= i \/ j <= m - d
        BY <1>6, <2>1, <3>1
      <4> QED
        BY <1>7, <1>8, <2>2, <4>1
    <3>2. CASE ~(m > d)
      BY <1>7, <1>8, <2>2, <3>2
    <3> QED
      BY <3>1, <3>2
  <2>4. i + d < j + d
    BY <1>8, <2>1, <2>2
  <2>5. h[i + d].event # h[j + d].event
    BY <2>2, <2>3, <2>4 DEF Tells, InTurn
  <2> QED
    BY <2>2, <2>5
<1>10. EndsAs(e, k, fires)
  <2>1. SUFFICES ASSUME NEW i \in Told(e, k), \A j \in Told(e, k) : j <= i
                 PROVE  e[i].event = "firing" <=> fires
    BY DEF EndsAs
  <2>2. i \in Nat /\ i + d \in Told(h, k) /\ h[i + d] = e[i]
    BY <1>5
  <2>3. ASSUME NEW m \in Told(h, k) PROVE m <= i + d
    <3>1. CASE m > d
      <4>1. m - d <= i
        BY <1>6, <2>1, <3>1
      <4> QED
        BY <1>7, <1>8, <2>2, <4>1
    <3>2. CASE ~(m > d)
      BY <1>7, <1>8, <2>2, <3>2
    <3> QED
      BY <3>1, <3>2
  <2>4. h[i + d].event = "firing" <=> fires
    BY <2>2, <2>3 DEF Tells, EndsAs
  <2> QED
    BY <2>2, <2>4
<1> QED
  BY <1>9, <1>10 DEF Tells, e

(* Events that tell of a key only that its alert began or ceased to fire   *)
(* continue a history.                                                     *)
LEMMA EventsContinue ==
  ASSUME NEW h \in Seq(Event), NEW e \in Seq(Event), NEW k,
         NEW was \in BOOLEAN, NEW is \in BOOLEAN, Tells(h, k, was),
         \/ Told(e, k) = {} /\ (is <=> was)
         \/ \E i \in DOMAIN e : /\ Told(e, k) = {i}
                                /\ e[i].event = "firing" <=> is
                                /\ ~(is <=> was)
  PROVE  Tells(h \o e, k, is)
<1> DEFINE g == h \o e
           n == Len(h)
<1>1. n \in Nat /\ DOMAIN h = 1..n /\ Len(e) \in Nat /\ DOMAIN e = 1..Len(e)
  BY LenProperties
<1>2. /\ g \in Seq(Event) /\ Len(g) = n + Len(e)
      /\ \A i \in 1..(n + Len(e)) : g[i] = IF i <= n THEN h[i] ELSE e[i - n]
  BY ConcatProperties
<1>3. DOMAIN g = 1..(n + Len(e))
  BY <1>2, LenProperties
<1> HIDE DEF g, n
<1>4. ASSUME NEW i \in Told(g, k)
      PROVE  /\ i \in Nat
             /\ i <= n => i \in Told(h, k) /\ g[i] = h[i]
             /\ i > n => i - n \in Told(e, k) /\ g[i] = e[i - n]
  <2>1. i \in 1..(n + Len(e)) /\ g[i].key = k
    BY <1>3 DEF Told
  <2>2. CASE i <= n
    <3>1. g[i] = h[i] /\ i \in DOMAIN h
      BY <1>1, <1>2, <2>1, <2>2
    <3> QED
      BY <2>1, <2>2, <3>1, <1>1 DEF Told
  <2>3. CASE i > n
    <3>1. i - n \in 1..Len(e) /\ ~(i <= n)
      BY <1>1, <2>1, <2>3
    <3>2. g[i] = e[i - n]
      BY <1>2, <2>1, <3>1
    <3> QED
      BY <2>1, <2>3, <3>1, <3>2, <1>1 DEF Told
  <2> QED
    BY <1>1, <2>1, <2>2, <2>3
<1>5. ASSUME NEW i \in Told(h, k) PROVE i \in Told(g, k) /\ i <= n /\ i \in Nat
  <2>1. i \in 1..n /\ h[i].key = k
    BY <1>1 DEF Told
  <2>2. i \in 1..(n + Len(e)) /\ g[i] = h[i]
    BY <1>1, <1>2, <2>1
  <2> QED
    BY <1>1, <1>3, <2>1, <2>2 DEF Told
<1>6. ASSUME NEW i \in Told(e, k) PROVE i + n \in Told(g, k) /\ i + n > n /\ i \in Nat
  <2>1. i \in 1..Len(e) /\ e[i].key = k
    BY <1>1 DEF Told
  <2>2. i + n \in 1..(n + Len(e)) /\ (i + n) - n = i /\ i + n > n
    BY <1>1, <2>1
  <2>3. g[i + n] = e[i]
    BY <1>1, <1>2, <2>2
  <2> QED
    BY <1>3, <2>1, <2>2, <2>3 DEF Told
(* The last event of k in h tells what was.                                *)
<1>7. ASSUME NEW i \in Told(g, k), i <= n, \A m \in Told(g, k) : m <= i \/ m > n
      PROVE  h[i].event = "firing" <=> was
  <2>1. i \in Told(h, k)
    BY <1>4, <1>7
  <2>2. ASSUME NEW m \in Told(h, k) PROVE m <= i
    <3>1. m \in Told(g, k) /\ ~(m > n)
      BY <1>1, <1>5
    <3> QED
      BY <1>7, <3>1
  <2> QED
    BY <2>1, <2>2 DEF Tells, EndsAs
<1>8. InTurn(g, k)
  <2>1. SUFFICES ASSUME NEW i \in Told(g, k), NEW j \in Told(g, k), i < j,
                        \A m \in Told(g, k) : m <= i \/ j <= m
                 PROVE  g[i].event # g[j].event
    BY DEF InTurn
  <2>2. i \in Nat /\ j \in Nat
    BY <1>4
  <2>3. CASE j <= n
    <3>1. i <= n
      BY <1>1, <2>1, <2>2, <2>3
    <3>2. i \in Told(h, k) /\ j \in Told(h, k) /\ g[i] = h[i] /\ g[j] = h[j]
      BY <1>4, <2>3, <3>1
    <3>3. \A m \in Told(h, k) : m <= i \/ j <= m
      BY <1>5, <2>1
    <3> QED
      BY <2>1, <3>2, <3>3 DEF Tells, InTurn
  <2>4. CASE i <= n /\ j > n
    <3>1. g[i] = h[i] /\ j - n \in Told(e, k) /\ g[j] = e[j - n]
      BY <1>4, <2>4
    <3>2. ASSUME NEW m \in Told(g, k) PROVE m <= i \/ m > n
      <4>1. m \in Nat
        BY <1>4
      <4> QED
        BY <1>1, <2>1, <2>2, <2>4, <4>1
    <3>3. h[i].event = "firing" <=> was
      BY <1>7, <2>4, <3>2
    <3>4. e[j - n].event = "firing" <=> ~was
      BY <3>1
    <3> QED
      BY <3>1, <3>3, <3>4
  <2>5. CASE i > n
    <3>1. j > n
      BY <1>1, <2>1, <2>2, <2>5
    <3>2. i - n \in Told(e, k) /\ j - n \in Told(e, k)
      BY <1>4, <2>5, <3>1
    <3>3. i - n = j - n
      BY <3>2
    <3> QED
      BY <1>1, <2>1, <2>2, <3>3
  <2> QED
    BY <1>1, <2>2, <2>3, <2>4, <2>5
<1>9. EndsAs(g, k, is)
  <2>1. SUFFICES ASSUME NEW i \in Told(g, k), \A j \in Told(g, k) : j <= i
                 PROVE  g[i].event = "firing" <=> is
    BY DEF EndsAs
  <2>2. i \in Nat
    BY <1>4
  <2>3. CASE i <= n
    <3>1. Told(e, k) = {}
      <4>1. ASSUME NEW j \in Told(e, k) PROVE FALSE
        <5>1. j + n <= i /\ j + n > n /\ j \in Nat
          BY <1>6, <2>1
        <5> QED
          BY <1>1, <2>2, <2>3, <5>1
      <4> QED
        BY <4>1
    <3>2. is <=> was
      BY <3>1
    <3>3. h[i].event = "firing" <=> was
      BY <1>7, <2>1, <2>3
    <3>4. g[i] = h[i]
      BY <1>4, <2>3
    <3> QED
      BY <3>2, <3>3, <3>4
  <2>4. CASE i > n
    <3>1. i - n \in Told(e, k) /\ g[i] = e[i - n]
      BY <1>4, <2>4
    <3> QED
      BY <3>1
  <2> QED
    BY <1>1, <2>2, <2>3, <2>4
<1> QED
  BY <1>8, <1>9 DEF Tells, g

-----------------------------------------------------------------------------
(* The history tells what happened to the alerts *)

Firing(k) == k \in DOMAIN active /\ active[k].firing

(* The events of an evaluation: one for each alert that began or ceased to *)
(* fire.                                                                   *)
LEMMA EventsTell ==
  ASSUME NEW observed, Fires(observed) \subseteq Key, Recovers(observed) \subseteq Key,
         NEW k
  PROVE  LET e == Events(observed) IN
         /\ e \in Seq(Event)
         /\ k \in Fires(observed) \cup Recovers(observed) =>
              \E i \in DOMAIN e : /\ Told(e, k) = {i}
                                  /\ e[i].event = "firing" <=> k \in Fires(observed)
         /\ k \notin Fires(observed) \cup Recovers(observed) => Told(e, k) = {}
<1> DEFINE S == Fires(observed) \cup Recovers(observed)
           F == Fires(observed)
           n == Cardinality(S)
           keys == Sorted(S)
           Kind(i) == IF keys[i] \in F THEN "firing" ELSE "recovered"
           Ev(i) == [key |-> keys[i], event |-> Kind(i)]
           e == [i \in DOMAIN keys |-> Ev(i)]
<1>1. Events(observed) = e
  BY Zenon DEF Events
<1>2. S \in SUBSET Key
  OBVIOUS
<1>3. n \in Nat /\ keys \in [1..n -> S] /\ Orders(keys, S)
  <2> HIDE DEF S
  <2> QED
    BY <1>2, SortedKeys
<1> HIDE DEF S, F, n, keys
<1>4. \A i \in 1..n : Kind(i) \in {"firing", "recovered"} /\ keys[i] \in Key
  BY <1>2, <1>3
<1>5. \A i \in 1..n : Ev(i) \in Event /\ Ev(i).key = keys[i] /\ Ev(i).event = Kind(i)
  <2> HIDE DEF Kind
  <2> QED
    BY <1>4 DEF Event
<1>6. e \in [1..n -> Event] /\ DOMAIN e = 1..n
  <2> HIDE DEF Ev
  <2> QED
    BY <1>3, <1>5
<1>7. e \in Seq(Event)
  <2> HIDE DEF e
  <2> QED
    BY <1>3, <1>6, SeqDef
<1>8. \A i \in 1..n : e[i].key = keys[i] /\ e[i].event = Kind(i)
  <2>1. \A i \in 1..n : e[i] = Ev(i)
    BY <1>3
  <2> HIDE DEF e, Ev
  <2> QED
    BY <1>5, <2>1
<1> HIDE DEF e
<1>9. ASSUME k \in S
      PROVE  \E i \in DOMAIN e : Told(e, k) = {i} /\ (e[i].event = "firing" <=> k \in F)
  <2>1. PICK i \in 1..n : keys[i] = k
    BY <1>3, <1>9 DEF Orders
  <2>2. ASSUME NEW j \in Told(e, k) PROVE j = i
    <3>1. j \in 1..n /\ keys[j] = k
      BY <1>6, <1>8 DEF Told
    <3>2. CASE j < i
      <4>1. keys[j] < keys[i] /\ k \in Nat
        BY <1>2, <1>3, <1>9, <2>1, <3>1, <3>2, KeyAssumption DEF Orders
      <4> QED
        BY <2>1, <3>1, <4>1
    <3>3. CASE i < j
      <4>1. keys[i] < keys[j] /\ k \in Nat
        BY <1>2, <1>3, <1>9, <2>1, <3>1, <3>3, KeyAssumption DEF Orders
      <4> QED
        BY <2>1, <3>1, <4>1
    <3> QED
      BY <1>3, <2>1, <3>1, <3>2, <3>3
  <2>3. i \in Told(e, k)
    BY <1>6, <1>8, <2>1 DEF Told
  <2>4. Told(e, k) = {i}
    BY <2>2, <2>3
  <2>5. e[i].event = "firing" <=> k \in F
    BY <1>8, <2>1
  <2> QED
    BY <1>6, <2>1, <2>4, <2>5
<1>10. ASSUME k \notin S PROVE Told(e, k) = {}
  BY <1>3, <1>6, <1>8, <1>10 DEF Told
<1> QED
  BY <1>1, <1>7, <1>9, <1>10 DEF S, F

(* An evaluation drops no alert that fires, and an attempt does not change *)
(* whether it does.                                                        *)
LEMMA EvaluatedFiring ==
  ASSUME AlertInv, NEW snapshot \in [Key -> Sample], NEW synced \in BOOLEAN,
         Evaluate(snapshot, synced), NEW k \in Key
  PROVE  LET observed == AllObserved(snapshot) IN
         /\ DOMAIN active \subseteq DOMAIN observed /\ DOMAIN observed \subseteq Key
         /\ k \in DOMAIN observed => observed[k].firing \in BOOLEAN
         /\ Before(k).firing \in BOOLEAN /\ (Before(k).firing <=> Firing(k))
         /\ Firing(k)' <=> (k \in DOMAIN observed /\ observed[k].firing)
<1> DEFINE observed == AllObserved(snapshot)
           due == Chosen(observed, Known(snapshot))
           tried == Attempted(observed, due)
           o == observed[k]
           x == IF k \in due THEN [o EXCEPT !.lastAttemptAt = now] ELSE o
<1>1. active' = Kept(tried)
  BY DEF Evaluate, Save
<1>2. DOMAIN active \subseteq DOMAIN observed /\ DOMAIN observed \subseteq Key
  BY DEF AllObserved, AlertInv, Types
<1>3. now \in Time /\ MaxTime \in Nat
  BY Numbers DEF Time, AlertInv, Types
<1>4. Before(k) \in AlertCondition
  BY BeforeFacts
<1>5. Before(k).firing \in BOOLEAN /\ (Before(k).firing <=> Firing(k))
  <2>1. Before(k).firing \in BOOLEAN
    BY <1>4 DEF AlertCondition
  <2>2. CASE k \in DOMAIN active
    BY <2>1, <2>2 DEF Before, Firing
  <2>3. CASE k \notin DOMAIN active
    <3>1. Before(k).firing = FALSE
      BY <2>3 DEF Before, NewAlert
    <3> QED
      BY <2>3, <3>1 DEF Firing
  <2> QED
    BY <2>1, <2>2, <2>3
<1>6. k \in DOMAIN observed => o \in AlertCondition
  <2>1. k \in DOMAIN observed => o = Observed(Before(k), snapshot[k])
    BY DEF AllObserved
  <2>2. Observed(Before(k), snapshot[k])
          \in {Unseen(Before(k)), Breached(Before(k)), Healthy(Before(k))}
    BY DEF Observed
  <2>3. /\ Unseen(Before(k)) \in AlertCondition /\ Breached(Before(k)) \in AlertCondition
        /\ Healthy(Before(k)) \in AlertCondition
    BY <1>3, <1>4, UnseenAlert, BreachedAlert, HealthyAlert
  <2> HIDE DEF observed
  <2> QED
    BY <2>1, <2>2, <2>3
<1>7. DOMAIN tried = DOMAIN observed /\ (k \in DOMAIN observed => tried[k] = x)
  BY DEF Attempted
<1> HIDE DEF observed, due
<1>8. k \in DOMAIN observed => x.firing = o.firing /\ o.firing \in BOOLEAN
  <2>1. CASE k \in DOMAIN observed
    <3>1. o \in AlertCondition
      BY <1>6, <2>1
    <3> QED
      BY <1>3, <3>1, AttemptedAlert DEF AlertCondition
  <2> QED
    BY <2>1
<1> HIDE DEF tried, x
<1>9. /\ k \in DOMAIN active' <=> k \in DOMAIN observed /\ ~Quiet(x)
      /\ k \in DOMAIN active' => active'[k] = x
  <2>1. DOMAIN active' = {j \in DOMAIN tried : ~Quiet(tried[j])}
        /\ \A j \in DOMAIN active' : active'[j] = tried[j]
    BY <1>1 DEF Kept
  <2> QED
    BY <1>7, <2>1
<1>10. Quiet(x) => ~x.firing
  BY DEF Quiet
<1>11. Firing(k)' <=> (k \in DOMAIN active' /\ active'[k].firing)
  BY DEF Firing
<1>12. Firing(k)' <=> (k \in DOMAIN observed /\ o.firing)
  BY <1>8, <1>9, <1>10, <1>11
<1> QED
  BY <1>2, <1>5, <1>8, <1>12 DEF observed

(* The events of an evaluation continue the history.                       *)
LEMMA EvaluatedHistory ==
  ASSUME AlertInv, history \in Seq(Event), \A k \in Key : Tells(history, k, Firing(k)),
         NEW snapshot \in [Key -> Sample], NEW synced \in BOOLEAN,
         Evaluate(snapshot, synced)
  PROVE  /\ history' \in Seq(Event) /\ Len(history') <= HistoryLimit
         /\ \A k \in Key : Tells(history', k, Firing(k)')
<1> DEFINE observed == AllObserved(snapshot)
           F == Fires(observed)
           R == Recovers(observed)
           e == Events(observed)
<1>1. history' = Latest(history \o e, HistoryLimit)
  BY DEF Evaluate, Save
<1>2. HistoryLimit \in Nat \ {0}
  BY LimitAssumption
<1>3. DOMAIN observed \subseteq Key
  BY DEF AllObserved, AlertInv, Types
<1>4. F \subseteq Key /\ R \subseteq Key
  <2> HIDE DEF observed
  <2> QED
    BY <1>3 DEF Fires, Recovers
<1>5. e \in Seq(Event)
  <2> HIDE DEF observed
  <2> QED
    BY <1>4, EventsTell
<1>6. history \o e \in Seq(Event)
  <2> HIDE DEF e
  <2> QED
    BY <1>5, ConcatProperties
<1>7. ASSUME NEW k \in Key PROVE Tells(history', k, Firing(k)')
  <2> DEFINE was == Firing(k)
             is == Firing(k)'
  <2>1. /\ DOMAIN active \subseteq DOMAIN observed
        /\ k \in DOMAIN observed => observed[k].firing \in BOOLEAN
        /\ Before(k).firing \in BOOLEAN /\ (Before(k).firing <=> was)
        /\ is <=> (k \in DOMAIN observed /\ observed[k].firing)
    BY EvaluatedFiring
  <2>2. was \in BOOLEAN /\ is \in BOOLEAN
    <3>1. was => k \in DOMAIN active
      BY DEF Firing
    <3> QED
      BY <2>1 DEF Firing
  <2>3. was => k \in DOMAIN observed
    BY <2>1 DEF Firing
  <2>4. Tells(history, k, was)
    OBVIOUS
  <2> HIDE DEF was, is, observed
  <2>5. /\ k \in F <=> is /\ ~was
        /\ k \in R <=> was /\ ~is
    BY <2>1, <2>2, <2>3 DEF Fires, Recovers
  <2>6. \/ Told(e, k) = {} /\ (is <=> was)
        \/ \E i \in DOMAIN e : /\ Told(e, k) = {i}
                               /\ e[i].event = "firing" <=> is
                               /\ ~(is <=> was)
    <3>1. /\ k \in F \cup R =>
               \E i \in DOMAIN e : Told(e, k) = {i} /\ (e[i].event = "firing" <=> k \in F)
          /\ k \notin F \cup R => Told(e, k) = {}
      BY <1>4, EventsTell
    <3> HIDE DEF e, F, R
    <3> QED
      BY <2>2, <2>5, <3>1
  <2> HIDE DEF e
  <2>7. Tells(history \o e, k, is)
    BY <1>5, <2>2, <2>4, <2>6, EventsContinue
  <2>8. Tells(history', k, is)
    BY <1>1, <1>2, <1>6, <2>2, <2>7, EndTells
  <2> QED
    BY <2>8 DEF is
<1> HIDE DEF e
<1>8. history' \in Seq(Event) /\ Len(history') <= HistoryLimit
  BY <1>1, <1>2, <1>6, LatestIsEnd
<1> QED
  BY <1>7, <1>8

-----------------------------------------------------------------------------
(* What is saved can be opened again, and the history agrees with it *)

(* What StateReopens says beyond the types of AlertInv.                    *)
Saved ==
  /\ revision \in 1..MaxRevision
  /\ history \in Seq(Event)
  /\ audit \in Seq(2..MaxRevision)
  /\ delivery \in [lastSuccessAt : Time, lastErrorCode : {"", "feishu_delivery_failed"}]
  /\ message.recoveries \subseteq message.keys
  /\ Cardinality(DOMAIN active) <= MaxActive
  /\ Len(history) <= HistoryLimit
  /\ Len(audit) <= AuditLimit
  /\ config.feishu => config.webhook

HistoryInv == \A k \in Key : Tells(history, k, Firing(k))

SavedInv == AlertInv /\ Saved /\ HistoryInv

(* Without a change of the history and of what fires, they agree as they   *)
(* did.                                                                    *)
LEMMA SameHistory ==
  ASSUME HistoryInv, history' = history, \A k \in Key : Firing(k)' <=> Firing(k)
  PROVE  HistoryInv'
<1> SUFFICES ASSUME NEW k \in Key PROVE Tells(history', k, Firing(k)')
  BY DEF HistoryInv
<1>1. Tells(history, k, Firing(k)) /\ (Firing(k)' <=> Firing(k))
  BY DEF HistoryInv
<1>2. InTurn(history', k)
  BY <1>1 DEF Tells
<1>3. EndsAs(history', k, Firing(k)')
  BY <1>1 DEF Tells, EndsAs
<1> QED
  BY <1>2, <1>3 DEF Tells

LEMMA EvaluateSaves ==
  ASSUME SavedInv, NEW snapshot \in [Key -> Sample], NEW synced \in BOOLEAN,
         Evaluate(snapshot, synced)
  PROVE  Saved' /\ HistoryInv'
<1> DEFINE observed == AllObserved(snapshot)
           due == Chosen(observed, Known(snapshot))
           keys == IF synced /\ config.webhook THEN due ELSE {}
           told == {j \in keys : observed[j].recoveryPending}
           kept == Kept(Attempted(observed, due))
<1>1. /\ history' \in Seq(Event) /\ Len(history') <= HistoryLimit
      /\ \A k \in Key : Tells(history', k, Firing(k)')
  BY EvaluatedHistory DEF SavedInv, Saved, HistoryInv
<1>2. /\ UNCHANGED <<config, revision, audit, delivery>>
      /\ active' = kept /\ Cardinality(DOMAIN kept) <= MaxActive
      /\ message' = IF keys = {} THEN NoMessage
                    ELSE [keys |-> keys, recoveries |-> told,
                          revision |-> revision, at |-> now, accepted |-> FALSE]
  BY DEF Evaluate, Save
<1>3. told \subseteq keys
  OBVIOUS
<1> HIDE DEF keys, told, kept
<1>4. message'.recoveries \subseteq message'.keys
  BY <1>2, <1>3 DEF NoMessage
<1>5. Saved'
  BY <1>1, <1>2, <1>4 DEF SavedInv, Saved
<1>6. HistoryInv'
  BY <1>1 DEF HistoryInv
<1> QED
  BY <1>5, <1>6

LEMMA SentSaves ==
  ASSUME SavedInv, NEW ok \in BOOLEAN, NEW saved \in BOOLEAN, Sent(ok, saved)
  PROVE  Saved' /\ HistoryInv'
<1>1. /\ UNCHANGED <<now, config, revision, history, audit>> /\ message' = NoMessage
  BY DEF Sent, Save
<1>2. DOMAIN active' = DOMAIN active
      /\ \A k \in DOMAIN active : active'[k] \in {active[k], Notified(active[k], k)}
  BY DEF Sent, Save
<1>3. delivery' \in [lastSuccessAt : Time, lastErrorCode : {"", "feishu_delivery_failed"}]
  <2>1. delivery \in [lastSuccessAt : Time, lastErrorCode : {"", "feishu_delivery_failed"}]
    BY DEF SavedInv, Saved
  <2>2. message.at \in Time
    BY DEF SavedInv, AlertInv, Types, Message
  <2>3. \/ delivery' = delivery
        \/ delivery' = [lastSuccessAt |-> message.at, lastErrorCode |-> ""]
        \/ delivery' = [delivery EXCEPT !.lastErrorCode = "feishu_delivery_failed"]
    BY DEF Sent, Save
  <2>4. CASE delivery' = [lastSuccessAt |-> message.at, lastErrorCode |-> ""]
    BY <2>2, <2>4
  <2>5. CASE delivery' = [delivery EXCEPT !.lastErrorCode = "feishu_delivery_failed"]
    BY <2>1, <2>5
  <2> QED
    BY <2>1, <2>3, <2>4, <2>5
<1>4. Saved'
  BY <1>1, <1>2, <1>3 DEF SavedInv, Saved, NoMessage
<1>5. ASSUME NEW k \in Key PROVE Firing(k)' <=> Firing(k)
  <2>1. CASE k \in DOMAIN active
    <3>1. active[k] \in AlertCondition
      BY <2>1 DEF SavedInv, AlertInv, Types
    <3>2. Notified(active[k], k).firing = active[k].firing
      BY <3>1 DEF Notified, AlertCondition
    <3>3. active'[k].firing = active[k].firing
      BY <1>2, <2>1, <3>2
    <3> QED
      BY <1>2, <2>1, <3>3 DEF Firing
  <2>2. CASE k \notin DOMAIN active
    BY <1>2, <2>2 DEF Firing
  <2> QED
    BY <2>1, <2>2
<1>6. HistoryInv'
  BY <1>1, <1>5, SameHistory DEF SavedInv
<1> QED
  BY <1>4, <1>6

LEMMA UpdateSaves ==
  ASSUME SavedInv, NEW new \in Config, Update(new)
  PROVE  Saved' /\ HistoryInv'
<1>1. /\ UNCHANGED <<active, history, delivery, message>>
      /\ revision < MaxRevision /\ revision' = revision + 1
      /\ config' = new /\ (new.feishu => new.webhook)
      /\ audit' = Latest(Append(audit, revision + 1), AuditLimit)
  BY DEF Update
<1>2. revision \in 1..MaxRevision /\ MaxRevision \in Nat /\ AuditLimit \in Nat \ {0}
  BY TimeAssumption, LimitAssumption DEF SavedInv, Saved
<1>3. revision + 1 \in 2..MaxRevision /\ revision' \in 1..MaxRevision
  BY <1>1, <1>2
<1>4. Append(audit, revision + 1) \in Seq(2..MaxRevision)
  <2>1. audit \in Seq(2..MaxRevision)
    BY DEF SavedInv, Saved
  <2> QED
    BY <1>3, <2>1, AppendProperties
<1>5. audit' \in Seq(2..MaxRevision) /\ Len(audit') <= AuditLimit
  BY <1>1, <1>2, <1>4, LatestIsEnd
<1>6. Saved'
  BY <1>1, <1>3, <1>5 DEF SavedInv, Saved
<1>7. HistoryInv'
  BY <1>1, SameHistory DEF SavedInv, Firing
<1> QED
  BY <1>6, <1>7

(* The steps that save nothing.                                            *)
LEMMA OthersSave ==
  ASSUME SavedInv, Accept \/ Crash \/ Elapse \/ UNCHANGED vars
  PROVE  Saved' /\ HistoryInv'
<1>1. UNCHANGED <<config, revision, active, history, audit, delivery>>
  BY DEF Accept, Crash, Elapse, vars
<1>2. message'.recoveries \subseteq message'.keys
  <2>1. CASE Accept
    BY <2>1 DEF Accept, SavedInv, AlertInv, Types, Saved, Message
  <2>2. CASE Crash
    BY <2>2 DEF Crash, NoMessage
  <2>3. CASE Elapse \/ UNCHANGED vars
    BY <2>3 DEF Elapse, vars, SavedInv, Saved
  <2> QED
    BY <2>1, <2>2, <2>3
<1>3. Saved'
  BY <1>1, <1>2 DEF SavedInv, Saved
<1>4. HistoryInv'
  BY <1>1, SameHistory DEF SavedInv, Firing
<1> QED
  BY <1>3, <1>4

LEMMA SavedStarts == Init => SavedInv
<1> SUFFICES ASSUME Init PROVE SavedInv
  OBVIOUS
<1>1. AlertInv
  BY AlertStarts
<1>2. /\ config.feishu => config.webhook
      /\ delivery = [lastSuccessAt |-> 0, lastErrorCode |-> ""] /\ message = NoMessage
  BY DEF Init
<1>h. history = <<>> /\ audit = <<>>
  BY DEF Init
<1>r. revision = 1 /\ DOMAIN active = {}
  BY DEF Init
<1>3. /\ MaxRevision \in Nat /\ 1 <= MaxRevision
      /\ MaxActive \in Nat /\ HistoryLimit \in Nat /\ AuditLimit \in Nat
  BY TimeAssumption, LimitAssumption
<1>t. 0 \in Time
  BY TimeAssumption DEF Time
<1>4. Saved
  <2>1. Cardinality(DOMAIN active) = 0
    BY <1>r, FS_EmptySet
  <2>2. Len(<<>>) = 0 /\ <<>> \in Seq(Event) /\ <<>> \in Seq(2..MaxRevision)
    BY EmptySeq
  <2>3. /\ history \in Seq(Event) /\ Len(history) <= HistoryLimit
        /\ audit \in Seq(2..MaxRevision) /\ Len(audit) <= AuditLimit
    BY <1>h, <1>3, <2>2
  <2>4. delivery \in [lastSuccessAt : Time, lastErrorCode : {"", "feishu_delivery_failed"}]
    BY <1>2, <1>t
  <2>5. message.recoveries \subseteq message.keys
    BY <1>2 DEF NoMessage
  <2>6. revision \in 1..MaxRevision /\ Cardinality(DOMAIN active) <= MaxActive
    BY <1>r, <1>3, <2>1
  <2> QED
    BY <1>2, <2>3, <2>4, <2>5, <2>6 DEF Saved
<1>5. HistoryInv
  <2>1. DOMAIN history = {}
    BY <1>h
  <2>2. \A k \in Key : Told(history, k) = {}
    BY <2>1 DEF Told
  <2> QED
    BY <2>2 DEF HistoryInv, Tells, InTurn, EndsAs
<1> QED
  BY <1>1, <1>4, <1>5 DEF SavedInv

LEMMA SavedKeeps == SavedInv /\ [Next]_vars => SavedInv'
<1> SUFFICES ASSUME SavedInv, [Next]_vars PROVE SavedInv'
  OBVIOUS
<1>1. AlertInv'
  BY AlertKeeps DEF SavedInv
<1>2. Saved' /\ HistoryInv'
  BY EvaluateSaves, SentSaves, UpdateSaves, OthersSave DEF Next
<1> QED
  BY <1>1, <1>2 DEF SavedInv

LEMMA SavedSafety == Spec => []SavedInv
BY SavedStarts, SavedKeeps, PTL DEF Spec

(* StateReopens: openOperations (operations_file.go:70) accepts whatever   *)
(* was saved, so that the console starts again.                            *)
THEOREM SavedStateReopens == Spec => []StateReopens
<1>1. SavedInv => StateReopens
  BY DEF SavedInv, Saved, AlertInv, Types, StateReopens, TypeOK
<1> QED
  BY <1>1, SavedSafety, PTL

(* HistoryAlternates: the history tells firing and recovered in turn for   *)
(* each alert and agrees with the alert: no incident is dropped from the   *)
(* state or begun twice (evaluate, alerts.go:343).                         *)
THEOREM HistoryIsTrue == Spec => []HistoryAlternates
<1>1. SavedInv => HistoryAlternates
  <2> SUFFICES ASSUME SavedInv PROVE HistoryAlternates
    OBVIOUS
  <2>1. ASSUME NEW k \in Key PROVE Tells(history, k, Firing(k))
    BY DEF SavedInv, HistoryInv
  <2> QED
    BY <2>1 DEF HistoryAlternates, Tells, InTurn, EndsAs, Told, Firing
<1> QED
  BY <1>1, SavedSafety, PTL

=============================================================================
