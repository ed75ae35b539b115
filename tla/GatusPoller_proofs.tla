------------------------- MODULE GatusPoller_proofs -------------------------
(***************************************************************************)
(* What the status poller promises, for every interval and every shorter   *)
(* timeout, every set of endpoints, refreshes, response times and          *)
(* thresholds, and however long it runs.                                   *)
(***************************************************************************)
EXTENDS GatusPoller, TLAPS

\* What each step makes of a fetch, field by field.
LEMMA IdleFetch ==
  /\ Idle \in Fetch /\ Idle.phase = "idle" /\ Idle.armed = {}
  /\ Idle.statuses = NoStatus
  BY DEF Idle, Fetch, Check, NoStatus, Status

LEMMA AskingEffect ==
  ASSUME NEW t \in Nat
  PROVE  /\ Asking(t) \in Fetch /\ Asking(t).phase = "ask"
         /\ Asking(t).asOf = t /\ Asking(t).since = t
         /\ Asking(t).statuses = NoStatus /\ Asking(t).armed = {}
  BY DEF Asking, Idle, Fetch, Check, NoStatus, Status

LEMMA AnsweredEffect ==
  ASSUME NEW f \in Fetch, NEW seen \in [Key -> Check], threshold \in Thresholds
  PROVE  LET g == Answered(f, seen)
         IN  /\ g \in Fetch /\ g.phase = "judge" /\ g.inForce = {threshold}
             /\ g.asOf = f.asOf /\ g.since = f.since /\ g.armed = f.armed
             /\ g.statuses = f.statuses /\ g.seen = seen
             /\ \A k \in g.todo : seen[k].kind # "absent"
  BY DEF Answered, Fetch

LEMMA JudgedEffect ==
  ASSUME NEW f \in Fetch, NEW k \in Key, NEW status \in Status
  PROVE  LET g == Judged(f, k, status)
         IN  /\ g \in Fetch /\ g.phase = f.phase /\ g.inForce = f.inForce
             /\ g.asOf = f.asOf /\ g.since = f.since /\ g.armed = f.armed
             /\ g.seen = f.seen
             /\ \A x \in Key : g.statuses[x] = IF x = k THEN status ELSE f.statuses[x]
  BY DEF Judged, Fetch

LEMMA ArmedEffect ==
  ASSUME NEW f \in Fetch, NEW k \in Key
  PROVE  LET g == Armed(f, k)
         IN  /\ g \in Fetch /\ g.phase = f.phase /\ g.inForce = f.inForce
             /\ g.asOf = f.asOf /\ g.since = f.since /\ g.armed = f.armed \cup {k}
             /\ g.seen = f.seen /\ g.todo = f.todo /\ g.statuses = f.statuses
  BY DEF Armed, Fetch

LEMMA FilledEffect ==
  ASSUME NEW f \in Fetch
  PROVE  LET g == Filled(f)
         IN  /\ g \in Fetch /\ g.phase = "ready" /\ g.inForce = f.inForce
             /\ g.asOf = f.asOf /\ g.since = f.since /\ g.armed = f.armed
             /\ g.seen = f.seen /\ g.statuses = f.statuses
  BY DEF Filled, Fetch

LEMMA UnderEffect ==
  ASSUME NEW f \in Fetch, NEW d \in Thresholds
  PROVE  LET g == Under(f, d)
         IN  /\ g \in Fetch /\ g.phase = f.phase /\ g.inForce = f.inForce \cup {d}
             /\ g.asOf = f.asOf /\ g.since = f.since /\ g.armed = f.armed
             /\ g.seen = f.seen /\ g.statuses = f.statuses
  BY DEF Under, Fetch

-----------------------------------------------------------------------------
(* Time                                                                    *)

\* A fetch ends within its timeout.
InTime(p) ==
  Phase(p) # "idle" =>
    /\ fetch[p].asOf = fetch[p].since
    /\ fetch[p].since <= now /\ now <= fetch[p].since + Timeout

\* The loop polls again before what is published is older than an interval and
\* the timeout that a late answer may have taken it back by.
LoopInTime ==
  /\ due <= now + Interval
  /\ due = -1 => Phase(Loop) # "idle" /\ fetch[Loop].since = 0
  /\ due # -1 /\ Phase(Loop) = "idle" =>
       now <= due /\ due <= snapshot.asOf + Timeout + Interval
  /\ due # -1 /\ Phase(Loop) # "idle" =>
       /\ due = fetch[Loop].since + Interval
       /\ fetch[Loop].since <= snapshot.asOf + Timeout + Interval

TimeInv ==
  /\ PollerTypeOK
  /\ \A p \in Poller : InTime(p)
  /\ snapshot.asOf <= now
  /\ LoopInTime

\* The types of what the arithmetic is about.
LEMMA Times ==
  ASSUME TimeInv
  PROVE  /\ now \in Nat /\ now <= MaxTime /\ MaxTime \in Nat
         /\ snapshot.asOf \in Nat /\ due \in Int /\ due >= -1
         /\ Timeout \in Nat /\ Interval \in Nat /\ Timeout < Interval /\ Timeout >= 1
         /\ \A p \in Poller : /\ fetch[p] \in Fetch
                              /\ fetch[p].since \in Nat /\ fetch[p].asOf \in Nat
                              /\ fetch[p].statuses \in [Key -> Status]
         /\ Loop \in Poller
  BY PollerAssumption DEF TimeInv, PollerTypeOK, Fetch, Poller

\* A fetch that goes on, on the clock it started by.
LEMMA InFlight ==
  ASSUME TimeInv, NEW p \in Poller, NEW g \in Fetch, Phase(p) # "idle",
         g.phase # "idle", g.asOf = fetch[p].asOf, g.since = fetch[p].since,
         Becomes(p, g), UNCHANGED <<now, threshold, snapshot, due, history>>
  PROVE  TimeInv'
  <1>1. /\ fetch' \in [Poller -> Fetch]
        /\ \A q \in Poller : /\ fetch'[q].since = fetch[q].since
                             /\ fetch'[q].asOf = fetch[q].asOf
                             /\ fetch'[q].phase = "idle" <=> fetch[q].phase = "idle"
    BY DEF Becomes, Phase, TimeInv, PollerTypeOK
  <1>2. PollerTypeOK'
    BY <1>1 DEF TimeInv, PollerTypeOK, history
  <1>3. \A q \in Poller : InTime(q)'
    BY <1>1 DEF TimeInv, InTime, Phase
  <1>4. LoopInTime'
    BY <1>1, Times DEF TimeInv, LoopInTime, Phase
  <1>. QED
    BY <1>2, <1>3, <1>4 DEF TimeInv

LEMMA TimeInvInit == PollerInit => TimeInv
  <1>. SUFFICES ASSUME PollerInit PROVE TimeInv
    OBVIOUS
  <1>1. /\ fetch \in [Poller -> Fetch] /\ \A p \in Poller : fetch[p].phase = "idle"
    BY IdleFetch DEF PollerInit
  <1>2. PollerTypeOK
    BY <1>1, PollerAssumption DEF PollerInit, PollerTypeOK, NoStatus, Status
  <1>3. \A p \in Poller : InTime(p)
    BY <1>1 DEF InTime, Phase
  <1>4. LoopInTime
    BY <1>1, PollerAssumption DEF PollerInit, LoopInTime, Phase, Poller
  <1>. QED
    BY <1>2, <1>3, <1>4 DEF TimeInv, PollerInit

LEMMA TickKeeps ==
  ASSUME TimeInv, Tick
  PROVE  TimeInv'
  <1>1. /\ now < MaxTime /\ now' = now + 1
        /\ UNCHANGED <<threshold, snapshot, fetch, due, history>>
        /\ \A p \in Poller : Phase(p) # "idle" => ~(now >= fetch[p].since + Timeout)
        /\ ~(due = now /\ Phase(Loop) = "idle")
    BY DEF Tick, Overdue
  <1>2. PollerTypeOK'
    BY <1>1, Times DEF TimeInv, PollerTypeOK, history
  <1>3. \A p \in Poller : InTime(p)'
    BY <1>1, Times DEF TimeInv, InTime, Phase
  <1>4. LoopInTime'
    BY <1>1, Times DEF TimeInv, LoopInTime, Phase
  <1>. QED
    BY <1>1, <1>2, <1>3, <1>4, Times DEF TimeInv

LEMMA ScheduledPollKeeps ==
  ASSUME TimeInv, ScheduledPoll
  PROVE  TimeInv'
  <1>1. /\ due = now /\ Phase(Loop) = "idle" /\ Becomes(Loop, Asking(now))
        /\ due' = IF now = 0 THEN -1 ELSE due + Interval
        /\ UNCHANGED <<now, threshold, snapshot, history>>
    BY DEF ScheduledPoll, StartFetch
  <1>2. /\ Asking(now) \in Fetch /\ Asking(now).phase = "ask"
        /\ Asking(now).since = now /\ Asking(now).asOf = now
    BY Times, AskingEffect
  <1>3. /\ fetch' \in [Poller -> Fetch] /\ fetch'[Loop].phase = "ask"
        /\ fetch'[Loop].since = now /\ fetch'[Loop].asOf = now
        /\ \A q \in Poller \ {Loop} : fetch'[q] = fetch[q]
    BY <1>1, <1>2, Times DEF Becomes, TimeInv, PollerTypeOK
  <1>4. PollerTypeOK'
    BY <1>1, <1>3, Times DEF TimeInv, PollerTypeOK, history
  <1>5. \A q \in Poller : InTime(q)'
    BY <1>1, <1>3, Times DEF TimeInv, InTime, Phase
  <1>6. LoopInTime'
    BY <1>1, <1>3, Times DEF TimeInv, LoopInTime, Phase
  <1>. QED
    BY <1>1, <1>4, <1>5, <1>6 DEF TimeInv

LEMMA RefreshRequestKeeps ==
  ASSUME TimeInv, NEW r \in Refresher, RefreshRequest(r)
  PROVE  TimeInv'
  <1>1. /\ Becomes(r, Asking(now)) /\ UNCHANGED <<now, threshold, snapshot, due, history>>
        /\ r \in Poller /\ r # Loop
    BY PollerAssumption DEF RefreshRequest, StartFetch, Poller
  <1>2. /\ Asking(now) \in Fetch /\ Asking(now).phase = "ask"
        /\ Asking(now).since = now /\ Asking(now).asOf = now
    BY Times, AskingEffect
  <1>3. /\ fetch' \in [Poller -> Fetch]
        /\ fetch'[r].since = now /\ fetch'[r].asOf = now
        /\ \A q \in Poller \ {r} : fetch'[q] = fetch[q]
    BY <1>1, <1>2, Times DEF Becomes, TimeInv, PollerTypeOK
  <1>4. PollerTypeOK'
    BY <1>1, <1>3, Times DEF TimeInv, PollerTypeOK, history
  <1>5. \A q \in Poller : InTime(q)'
    BY <1>1, <1>3, Times DEF TimeInv, InTime, Phase
  <1>6. LoopInTime'
    BY <1>1, <1>3, Times DEF TimeInv, LoopInTime, Phase
  <1>. QED
    BY <1>1, <1>4, <1>5, <1>6 DEF TimeInv

\* A fetch that ends: of the loop, it leaves a snapshot of when it began; of a
\* refresh, the same or what was published.
LEMMA EndsInTime ==
  ASSUME TimeInv, NEW p \in Poller, Phase(p) # "idle", Becomes(p, Idle),
         due' = AfterPoll(p), UNCHANGED <<now, threshold>>,
         snapshot' \in [asOf : 0..MaxTime, statuses : [Key -> Status]],
         \/ snapshot'.asOf = fetch[p].asOf
         \/ p # Loop /\ snapshot' = snapshot,
         answer' \in [code : {0, 200, 503}, asOf : Nat], lastGood' \in {-1} \cup Nat
  PROVE  TimeInv'
  <1>1. /\ fetch' \in [Poller -> Fetch] /\ fetch'[p].phase = "idle"
        /\ \A q \in Poller \ {p} : fetch'[q] = fetch[q]
    BY IdleFetch DEF Becomes, TimeInv, PollerTypeOK
  <1>2. /\ fetch[p].asOf = fetch[p].since /\ fetch[p].since <= now
        /\ now <= fetch[p].since + Timeout
    BY DEF TimeInv, InTime
  <1>3. /\ snapshot'.asOf \in Nat /\ snapshot'.asOf <= now
        /\ snapshot'.asOf = fetch[p].since \/ (p # Loop /\ snapshot' = snapshot)
    BY <1>2, Times DEF TimeInv
  <1>4. \A q \in Poller : InTime(q)'
    BY <1>1 DEF TimeInv, InTime, Phase
  <1>5. LoopInTime'
    <2>1. CASE p = Loop /\ due = -1
      <3>1. due' = now + Interval /\ snapshot'.asOf = fetch[p].since
        BY <1>3, <2>1 DEF AfterPoll
      <3>. QED
        BY <1>1, <1>2, <1>3, <2>1, <3>1, Times DEF LoopInTime, Phase
    <2>2. CASE p = Loop /\ due # -1
      <3>1. /\ due' = due /\ snapshot'.asOf = fetch[p].since
            /\ due = fetch[Loop].since + Interval /\ due <= now + Interval
        BY <1>3, <2>2 DEF AfterPoll, TimeInv, LoopInTime
      <3>. QED
        BY <1>1, <1>2, <1>3, <2>2, <3>1, Times DEF LoopInTime, Phase
    <2>3. CASE p # Loop
      <3>1. due' = due /\ fetch'[Loop] = fetch[Loop]
        BY <1>1, <2>3, Times DEF AfterPoll
      <3>2. Phase(Loop) # "idle" => fetch[Loop].since <= now
        BY Times DEF TimeInv, InTime
      <3>. QED
        BY <1>2, <1>3, <2>3, <3>1, <3>2, Times DEF TimeInv, LoopInTime, Phase
    <2>. QED
      BY <2>1, <2>2, <2>3
  <1>6. due' \in {-1} \cup Nat
    BY Times DEF AfterPoll, TimeInv, PollerTypeOK
  <1>7. PollerTypeOK'
    BY <1>1, <1>6 DEF TimeInv, PollerTypeOK
  <1>. QED
    BY <1>3, <1>4, <1>5, <1>7 DEF TimeInv

LEMMA PublishKeeps ==
  ASSUME TimeInv, NEW p \in Poller, Publish(p)
  PROVE  TimeInv'
  <1>1. /\ Phase(p) = "ready" /\ Becomes(p, Idle) /\ due' = AfterPoll(p)
        /\ snapshot' = [asOf |-> fetch[p].asOf, statuses |-> fetch[p].statuses]
        /\ lastGood' = fetch[p].asOf /\ UNCHANGED <<now, threshold>>
        /\ answer' = IF p = Loop THEN answer ELSE [code |-> 200, asOf |-> fetch[p].asOf]
    BY DEF Publish
  <1>2. fetch[p].asOf \in 0..MaxTime
    BY <1>1, Times DEF TimeInv, InTime
  <1>3. snapshot' \in [asOf : 0..MaxTime, statuses : [Key -> Status]]
    BY <1>1, <1>2, Times
  <1>4. answer' \in [code : {0, 200, 503}, asOf : Nat]
    BY <1>1, Times DEF TimeInv, PollerTypeOK
  <1>. QED
    BY <1>1, <1>3, <1>4, Times, EndsInTime

LEMMA FetchFailsKeeps ==
  ASSUME TimeInv, NEW p \in Poller, FetchFails(p)
  PROVE  TimeInv'
  <1>1. /\ Phase(p) = "ask" /\ Becomes(p, Idle) /\ due' = AfterPoll(p)
        /\ snapshot' = IF p = Loop THEN [asOf |-> fetch[p].asOf, statuses |-> NoStatus]
                       ELSE snapshot
        /\ answer' = IF p = Loop THEN answer ELSE [code |-> 503, asOf |-> snapshot.asOf]
        /\ UNCHANGED <<now, threshold, lastGood>>
    BY DEF FetchFails
  <1>2. fetch[p].asOf \in 0..MaxTime /\ NoStatus \in [Key -> Status]
    BY <1>1, Times DEF TimeInv, InTime, NoStatus, Status
  <1>3. snapshot' \in [asOf : 0..MaxTime, statuses : [Key -> Status]]
    BY <1>1, <1>2 DEF TimeInv, PollerTypeOK
  <1>4. answer' \in [code : {0, 200, 503}, asOf : Nat]
    BY <1>1, Times DEF TimeInv, PollerTypeOK
  <1>5. lastGood' \in {-1} \cup Nat
    BY <1>1 DEF TimeInv, PollerTypeOK
  <1>. QED
    BY <1>1, <1>3, <1>4, <1>5, EndsInTime

LEMMA GatusAnswersKeeps ==
  ASSUME TimeInv, NEW p \in Poller, GatusAnswers(p)
  PROVE  TimeInv'
  <1>1. PICK seen \in [Key -> Check] : Becomes(p, Answered(fetch[p], seen))
    BY DEF GatusAnswers
  <1>2. /\ Phase(p) = "ask" /\ UNCHANGED <<now, threshold, snapshot, due, history>>
        /\ threshold \in Thresholds
    BY DEF GatusAnswers, TimeInv, PollerTypeOK
  <1>. QED
    BY <1>1, <1>2, Times, AnsweredEffect, InFlight

LEMMA RecordKeeps ==
  ASSUME TimeInv, NEW p \in Poller, Phase(p) = "judge", NEW k \in Key,
         NEW status \in Status, Record(p, k, status),
         UNCHANGED <<now, threshold, snapshot, due, history>>
  PROVE  TimeInv'
  <1>. DEFINE g == Judged(fetch[p], k, status)
  <1>1. /\ g \in Fetch /\ g.phase = fetch[p].phase
        /\ g.asOf = fetch[p].asOf /\ g.since = fetch[p].since
    <2>1. fetch[p] \in Fetch
      BY Times
    <2>. QED
      BY <2>1, JudgedEffect
  <1>2. Becomes(p, g)
    BY DEF Record
  <1>. HIDE DEF g
  <1>. QED
    BY <1>1, <1>2, InFlight DEF Phase

LEMMA StatusesOfChecks == {"UP", "DOWN", "DEGRADED", "UNKNOWN"} \subseteq Status
  BY DEF Status

\* What JudgeKind does, by what the endpoint's check was.
LEMMA JudgeKindCases ==
  ASSUME NEW p \in Poller, NEW k \in Key, JudgeKind(p, k)
  PROVE  LET c == fetch[p].seen[k]
         IN  \/ c.kind = "none" /\ Record(p, k, "UNKNOWN")
             \/ c.kind = "failed" /\ Record(p, k, "DOWN")
             \/ /\ c.kind = "ok" /\ threshold > 0 /\ c.ms > 0
                /\ Becomes(p, Armed(fetch[p], k))
             \/ /\ ~(c.kind = "ok" /\ threshold > 0 /\ c.ms > 0)
                /\ Record(p, k, "UP")
  BY DEF JudgeKind

LEMMA JudgeKindKeeps ==
  ASSUME TimeInv, NEW p \in Poller, NEW k \in Key, JudgeKind(p, k)
  PROVE  TimeInv'
  <1>1. Phase(p) = "judge" /\ UNCHANGED <<now, threshold, snapshot, due, history>>
    BY DEF JudgeKind
  <1>2. CASE \E status \in Status : Record(p, k, status)
    BY <1>1, <1>2, RecordKeeps
  <1>3. CASE Becomes(p, Armed(fetch[p], k))
    BY <1>1, <1>3, Times, ArmedEffect, InFlight DEF Phase
  <1>. QED
    BY <1>2, <1>3, JudgeKindCases, StatusesOfChecks

LEMMA JudgeDurationKeeps ==
  ASSUME TimeInv, NEW p \in Poller, NEW k \in Key, JudgeDuration(p, k)
  PROVE  TimeInv'
  BY RecordKeeps, StatusesOfChecks DEF JudgeDuration

LEMMA UptimeFilledKeeps ==
  ASSUME TimeInv, NEW p \in Poller, UptimeFilled(p)
  PROVE  TimeInv'
  BY Times, FilledEffect, InFlight DEF UptimeFilled

LEMMA SetDegradedAfterKeeps ==
  ASSUME TimeInv, NEW d \in Thresholds, SetDegradedAfter(d)
  PROVE  TimeInv'
  <1>1. /\ threshold' = d /\ UNCHANGED <<now, snapshot, due, history>>
        /\ fetch' = [p \in Poller |-> IF Phase(p) = "judge" THEN Under(fetch[p], d)
                                      ELSE fetch[p]]
    BY DEF SetDegradedAfter
  <1>2. /\ fetch' \in [Poller -> Fetch]
        /\ \A q \in Poller : /\ fetch'[q].since = fetch[q].since
                             /\ fetch'[q].asOf = fetch[q].asOf
                             /\ fetch'[q].phase = fetch[q].phase
    BY <1>1, Times, UnderEffect
  <1>3. PollerTypeOK'
    BY <1>1, <1>2 DEF TimeInv, PollerTypeOK, history
  <1>4. (\A q \in Poller : InTime(q)') /\ LoopInTime'
    BY <1>1, <1>2, Times DEF TimeInv, InTime, LoopInTime, Phase
  <1>. QED
    BY <1>1, <1>3, <1>4 DEF TimeInv

LEMMA TimeInvKept ==
  ASSUME TimeInv, [PollerNext]_pollerVars
  PROVE  TimeInv'
  <1>1. CASE UNCHANGED pollerVars
    BY <1>1
       DEF pollerVars, TimeInv, PollerTypeOK, InTime, LoopInTime, Phase
  <1>2. Refresher \subseteq Poller
    BY DEF Poller
  <1>. QED
    BY <1>1, <1>2, TickKeeps, ScheduledPollKeeps, RefreshRequestKeeps, GatusAnswersKeeps,
       UptimeFilledKeeps, PublishKeeps, FetchFailsKeeps, JudgeKindKeeps,
       JudgeDurationKeeps, SetDegradedAfterKeeps
       DEF PollerNext

\* The invariant from which what the poller promises of time follows.
THEOREM TimeInvariant == PollerSpec => []TimeInv
  BY TimeInvInit, TimeInvKept, PTL DEF PollerSpec

\* Every variable of the poller always stays in its type; as_of is a moment of
\* the past.
THEOREM PollerAlwaysTyped == PollerSpec => []PollerTypeOK
  <1>1. TimeInv => PollerTypeOK
    BY DEF TimeInv
  <1>. QED
    BY <1>1, TimeInvariant, PTL

\* What is published (Poller.Run, poll, PollNow) is never older than an interval
\* and two timeouts.
THEOREM AlwaysFresh == PollerSpec => []StalenessBounded
  <1>1. TimeInv => StalenessBounded
    <2>. SUFFICES ASSUME TimeInv PROVE StalenessBounded
      OBVIOUS
    <2>1. InTime(Loop) /\ LoopInTime
      BY Times DEF TimeInv
    <2>. QED
      BY <2>1, Times DEF InTime, LoopInTime, StalenessBounded
  <1>. QED
    BY <1>1, TimeInvariant, PTL

\* A fetch that was overtaken takes as_of back by no more than its timeout.
THEOREM AsOfAlwaysSlipsAtMostTimeout == PollerSpec => AsOfSlipsAtMostTimeout
  <1>. DEFINE A == snapshot'.asOf >= snapshot.asOf - Timeout
  <1>1. ASSUME TimeInv, PollerNext PROVE A
    <2>1. CASE UNCHANGED snapshot
      BY <1>1, <2>1, Times
    <2>2. ASSUME NEW p \in Poller, Publish(p) \/ FetchFails(p) PROVE A
      <3>1. /\ snapshot' = snapshot \/ snapshot'.asOf = fetch[p].asOf
            /\ Phase(p) # "idle"
        BY <2>2 DEF Publish, FetchFails
      <3>2. fetch[p].asOf >= snapshot.asOf - Timeout
        BY <1>1, <3>1, Times DEF TimeInv, InTime
      <3>. QED
        BY <1>1, <3>1, <3>2, Times
    <2>. QED
      BY <1>1, <2>1, <2>2
         DEF PollerNext, Tick, ScheduledPoll, RefreshRequest, GatusAnswers, UptimeFilled,
             JudgeKind, JudgeDuration, SetDegradedAfter
  <1>2. TimeInv /\ [PollerNext]_pollerVars => [A]_pollerVars
    BY <1>1
  <1>. QED
    BY <1>2, TimeInvariant, PTL DEF PollerSpec, AsOfSlipsAtMostTimeout

-----------------------------------------------------------------------------
(* Verdicts                                                                *)

\* Some threshold of S turns the comparison on, is exceeded, is kept.
On(S) == \E d \in S : d > 0
Exceeded(ms, S) == \E d \in S : ms > d
Kept(ms, S) == \E d \in S : d = 0 \/ ms <= d

\* An endpoint's verdict is justified by thresholds of S; an endpoint that is
\* still to be compared with one was worth comparing.
VerdictOK(c, status, S) ==
  c.kind = "ok" =>
    /\ status = "DEGRADED" => c.ms > 0 /\ On(S) /\ Exceeded(c.ms, S)
    /\ status = "UP" => c.ms = 0 \/ Kept(c.ms, S)

Worth(c, S) == c.kind = "ok" /\ c.ms > 0 /\ On(S)

Justified(f) ==
  /\ f.phase = "ask" => f.statuses = NoStatus /\ f.armed = {}
  /\ f.phase = "judge" => threshold \in f.inForce
  /\ \A k \in f.armed : Worth(f.seen[k], f.inForce)
  /\ \A k \in Key : VerdictOK(f.seen[k], f.statuses[k], f.inForce)

VerdictInv == \A p \in Poller : Justified(fetch[p])

\* A threshold more takes no justification away.
LEMMA MoreInForce ==
  ASSUME NEW c, NEW status, NEW S, NEW T, S \subseteq T
  PROVE  /\ VerdictOK(c, status, S) => VerdictOK(c, status, T)
         /\ Worth(c, S) => Worth(c, T)
  <1>1. On(S) => On(T)
    BY DEF On
  <1>2. Exceeded(c.ms, S) => Exceeded(c.ms, T)
    BY DEF Exceeded
  <1>3. Kept(c.ms, S) => Kept(c.ms, T)
    BY DEF Kept
  <1>. QED
    BY <1>1, <1>2, <1>3 DEF VerdictOK, Worth

LEMMA ResponseTimes ==
  ASSUME NEW c \in Check, c.kind = "ok"
  PROVE  c.ms \in Nat
  <1>1. c \in [kind : {"ok"}, ms : Durations]
    BY DEF Check
  <1>. QED
    BY <1>1, PollerAssumption

\* Nothing is judged before Gatus has answered.
LEMMA UnjudgedIsJustified ==
  ASSUME NEW f, f.phase \in {"idle", "ask"}, f.statuses = NoStatus, f.armed = {}
  PROVE  Justified(f)
  BY DEF Justified, VerdictOK, NoStatus

LEMMA IdleIsJustified == Justified(Idle)
  BY IdleFetch, UnjudgedIsJustified

\* A step of one fetch leaves the others justified, the threshold being as it was.
LEMMA FetchMoves ==
  ASSUME PollerTypeOK, VerdictInv, NEW p \in Poller, NEW g, Justified(g),
         Becomes(p, g), UNCHANGED threshold
  PROVE  VerdictInv'
  <1>1. ASSUME NEW q \in Poller PROVE Justified(fetch[q])'
    <2>1. fetch'[q] = IF q = p THEN g ELSE fetch[q]
      BY DEF Becomes, PollerTypeOK
    <2>2. Justified(fetch'[q])
      BY <2>1 DEF VerdictInv
    <2>. QED
      BY <2>2 DEF Justified
  <1>. QED
    BY <1>1 DEF VerdictInv

LEMMA GatusAnswersJustified ==
  ASSUME PollerTypeOK, VerdictInv, NEW p \in Poller, GatusAnswers(p)
  PROVE  VerdictInv'
  <1>1. PICK seen \in [Key -> Check] : Becomes(p, Answered(fetch[p], seen))
    BY DEF GatusAnswers
  <1>. DEFINE g == Answered(fetch[p], seen)
  <1>2. /\ fetch[p].phase = "ask" /\ fetch[p] \in Fetch /\ threshold \in Thresholds
        /\ UNCHANGED threshold
    BY DEF GatusAnswers, Phase, PollerTypeOK
  <1>3. fetch[p].statuses = NoStatus /\ fetch[p].armed = {}
    BY <1>2 DEF VerdictInv, Justified
  <1>4. /\ g.phase = "judge" /\ g.inForce = {threshold}
        /\ g.statuses = NoStatus /\ g.armed = {}
    BY <1>2, <1>3, AnsweredEffect
  <1>5. Becomes(p, g)
    BY <1>1
  <1>. HIDE DEF g
  <1>6. Justified(g)
    BY <1>4 DEF Justified, VerdictOK, NoStatus
  <1>. QED
    BY <1>2, <1>5, <1>6, FetchMoves

\* A verdict that the thresholds so far justify.
LEMMA RecordJustified ==
  ASSUME PollerTypeOK, VerdictInv, NEW p \in Poller, NEW k \in Key,
         NEW status \in Status, Phase(p) = "judge",
         Record(p, k, status), UNCHANGED threshold,
         VerdictOK(fetch[p].seen[k], status, fetch[p].inForce)
  PROVE  VerdictInv'
  <1>. DEFINE f == fetch[p]
             g == Judged(f, k, status)
  <1>1. f \in Fetch /\ Justified(f) /\ f.phase = "judge"
    BY DEF PollerTypeOK, VerdictInv, Phase
  <1>2. /\ g.phase = f.phase /\ g.inForce = f.inForce /\ g.armed = f.armed /\ g.seen = f.seen
        /\ \A x \in Key : g.statuses[x] = IF x = k THEN status ELSE f.statuses[x]
    BY <1>1, JudgedEffect
  <1>3. Becomes(p, g)
    BY DEF Record
  <1>. HIDE DEF g
  <1>4. Justified(g)
    BY <1>1, <1>2 DEF Justified
  <1>. QED
    BY <1>3, <1>4, FetchMoves

\* The first read of the threshold.
LEMMA JudgeKindJustified ==
  ASSUME PollerTypeOK, VerdictInv, NEW p \in Poller, NEW k \in Key, JudgeKind(p, k)
  PROVE  VerdictInv'
  <1>. DEFINE f == fetch[p]
             c == f.seen[k]
  <1>1. /\ Phase(p) = "judge" /\ UNCHANGED threshold /\ f \in Fetch /\ Justified(f)
        /\ f.phase = "judge" /\ c \in Check /\ threshold \in Nat
    BY PollerAssumption DEF JudgeKind, PollerTypeOK, VerdictInv, Phase, Fetch
  <1>2. threshold \in f.inForce
    BY <1>1 DEF Justified
  <1>3. CASE c.kind = "none" /\ Record(p, k, "UNKNOWN")
    BY <1>1, <1>3, RecordJustified, StatusesOfChecks DEF VerdictOK
  <1>4. CASE c.kind = "failed" /\ Record(p, k, "DOWN")
    BY <1>1, <1>4, RecordJustified, StatusesOfChecks DEF VerdictOK
  <1>5. CASE /\ c.kind = "ok" /\ threshold > 0 /\ c.ms > 0
             /\ Becomes(p, Armed(f, k))
    <2>. DEFINE g == Armed(f, k)
    <2>1. /\ g.phase = f.phase /\ g.inForce = f.inForce /\ g.armed = f.armed \cup {k}
          /\ g.seen = f.seen /\ g.statuses = f.statuses
      BY <1>1, ArmedEffect
    <2>2. Worth(c, f.inForce)
      BY <1>2, <1>5 DEF Worth, On
    <2>3. Becomes(p, g)
      BY <1>5
    <2>. HIDE DEF g
    <2>4. Justified(g)
      BY <1>1, <2>1, <2>2 DEF Justified
    <2>. QED
      BY <1>1, <2>3, <2>4, FetchMoves
  <1>6. CASE /\ ~(c.kind = "ok" /\ threshold > 0 /\ c.ms > 0)
             /\ Record(p, k, "UP")
    <2>1. c.kind = "ok" => c.ms = 0 \/ threshold = 0
      BY <1>1, <1>6, ResponseTimes
    <2>2. VerdictOK(c, "UP", f.inForce)
      BY <1>2, <2>1 DEF VerdictOK, Kept
    <2>. QED
      BY <1>1, <1>6, <2>2, RecordJustified, StatusesOfChecks
  <1>. QED
    BY <1>3, <1>4, <1>5, <1>6, JudgeKindCases

\* The second read, which may be of another threshold.
LEMMA JudgeDurationJustified ==
  ASSUME PollerTypeOK, VerdictInv, NEW p \in Poller, NEW k \in Key, JudgeDuration(p, k)
  PROVE  VerdictInv'
  <1>. DEFINE f == fetch[p]
             c == f.seen[k]
  <1>1. /\ Phase(p) = "judge" /\ UNCHANGED threshold /\ f \in Fetch /\ Justified(f)
        /\ f.phase = "judge" /\ c \in Check /\ threshold \in Nat /\ k \in f.armed
        /\ Record(p, k, IF Slow(c.ms, threshold) THEN "DEGRADED" ELSE "UP")
    BY PollerAssumption DEF JudgeDuration, PollerTypeOK, VerdictInv, Phase, Fetch
  <1>2. threshold \in f.inForce /\ Worth(c, f.inForce)
    BY <1>1 DEF Justified
  <1>3. c.ms \in Nat
    BY <1>1, <1>2, ResponseTimes DEF Worth
  <1>4. CASE Slow(c.ms, threshold)
    <2>1. VerdictOK(c, "DEGRADED", f.inForce)
      BY <1>2, <1>4 DEF VerdictOK, Worth, Exceeded, Slow
    <2>. QED
      BY <1>1, <1>4, <2>1, RecordJustified, StatusesOfChecks
  <1>5. CASE ~Slow(c.ms, threshold)
    <2>1. VerdictOK(c, "UP", f.inForce)
      BY <1>1, <1>2, <1>3, <1>5 DEF VerdictOK, Kept, Slow
    <2>. QED
      BY <1>1, <1>5, <2>1, RecordJustified, StatusesOfChecks
  <1>. QED
    BY <1>4, <1>5

LEMMA UptimeFilledJustified ==
  ASSUME PollerTypeOK, VerdictInv, NEW p \in Poller, UptimeFilled(p)
  PROVE  VerdictInv'
  <1>. DEFINE f == fetch[p]
             g == Filled(f)
  <1>1. f \in Fetch /\ Justified(f) /\ Becomes(p, g) /\ UNCHANGED threshold
    BY DEF UptimeFilled, PollerTypeOK, VerdictInv
  <1>2. /\ g.phase = "ready" /\ g.inForce = f.inForce /\ g.armed = f.armed
        /\ g.seen = f.seen /\ g.statuses = f.statuses
    BY <1>1, FilledEffect
  <1>. HIDE DEF g
  <1>3. Justified(g)
    BY <1>1, <1>2 DEF Justified
  <1>. QED
    BY <1>1, <1>3, FetchMoves

\* A new threshold is in force for every payload that is being judged.
LEMMA SetDegradedAfterJustified ==
  ASSUME PollerTypeOK, VerdictInv, NEW d \in Thresholds, SetDegradedAfter(d)
  PROVE  VerdictInv'
  <1>1. /\ threshold' = d
        /\ fetch' = [p \in Poller |-> IF Phase(p) = "judge" THEN Under(fetch[p], d)
                                      ELSE fetch[p]]
    BY DEF SetDegradedAfter
  <1>2. ASSUME NEW p \in Poller PROVE Justified(fetch[p])'
    <2>. DEFINE f == fetch[p]
    <2>1. f \in Fetch /\ Justified(f)
      BY DEF PollerTypeOK, VerdictInv
    <2>2. CASE Phase(p) = "judge"
      <3>1. /\ fetch'[p].phase = "judge" /\ fetch'[p].inForce = f.inForce \cup {d}
            /\ fetch'[p].armed = f.armed
            /\ fetch'[p].seen = f.seen /\ fetch'[p].statuses = f.statuses
        BY <1>1, <2>1, <2>2, UnderEffect DEF Phase
      <3>2. f.inForce \subseteq f.inForce \cup {d}
        OBVIOUS
      <3>3. ASSUME NEW k \in f.armed PROVE Worth(f.seen[k], f.inForce \cup {d})
        <4>1. Worth(f.seen[k], f.inForce)
          BY <2>1 DEF Justified
        <4>. QED
          BY <3>2, <4>1, MoreInForce
      <3>4. ASSUME NEW k \in Key
            PROVE  VerdictOK(f.seen[k], f.statuses[k], f.inForce \cup {d})
        <4>1. VerdictOK(f.seen[k], f.statuses[k], f.inForce)
          BY <2>1 DEF Justified
        <4>. QED
          BY <3>2, <4>1, MoreInForce
      <3>. QED
        BY <1>1, <3>1, <3>3, <3>4 DEF Justified
    <2>3. CASE Phase(p) # "judge"
      <3>1. fetch'[p] = f /\ f.phase # "judge"
        BY <1>1, <2>3 DEF Phase
      <3>. QED
        BY <2>1, <3>1 DEF Justified
    <2>. QED
      BY <2>2, <2>3
  <1>. QED
    BY <1>2 DEF VerdictInv

LEMMA VerdictInvKept ==
  ASSUME PollerTypeOK, VerdictInv, [PollerNext]_pollerVars
  PROVE  VerdictInv'
  <1>1. CASE UNCHANGED <<threshold, fetch>>
    BY <1>1 DEF VerdictInv, Justified
  <1>2. Refresher \subseteq Poller /\ Loop \in Poller
    BY DEF Poller
  <1>3. ASSUME NEW p \in Poller, Becomes(p, Asking(now)), UNCHANGED threshold
        PROVE  VerdictInv'
    <2>1. now \in Nat
      BY PollerAssumption DEF PollerTypeOK
    <2>2. Justified(Asking(now))
      BY <2>1, AskingEffect, UnjudgedIsJustified
    <2>. QED
      BY <1>3, <2>2, FetchMoves
  <1>4. ASSUME NEW p \in Poller, Becomes(p, Idle), UNCHANGED threshold
        PROVE  VerdictInv'
    BY <1>4, IdleIsJustified, FetchMoves
  <1>5. CASE ScheduledPoll \/ \E r \in Refresher : RefreshRequest(r)
    BY <1>2, <1>3, <1>5 DEF ScheduledPoll, RefreshRequest, StartFetch
  <1>6. ASSUME NEW p \in Poller, Publish(p) \/ FetchFails(p) PROVE VerdictInv'
    BY <1>4, <1>6 DEF Publish, FetchFails
  <1>7. CASE Tick
    BY <1>1, <1>7 DEF Tick
  <1>8. CASE UNCHANGED pollerVars
    BY <1>1, <1>8 DEF pollerVars
  <1>. QED
    BY <1>5, <1>6, <1>7, <1>8, GatusAnswersJustified, JudgeKindJustified,
       JudgeDurationJustified, UptimeFilledJustified, SetDegradedAfterJustified
       DEF PollerNext

\* A verdict on a successful check (Poller.fetch's switch, SetDegradedAfter) is
\* always justified by thresholds in force while its payload was judged.
THEOREM VerdictAlwaysInForce == PollerSpec => []VerdictInForce
  <1>1. PollerInit => VerdictInv
    BY IdleIsJustified DEF PollerInit, VerdictInv
  <1>2. VerdictInv => VerdictInForce
    BY DEF VerdictInv, Justified, VerdictOK, On, Exceeded, Kept, VerdictInForce
  <1>. QED
    BY <1>1, <1>2, VerdictInvKept, PollerAlwaysTyped, PTL DEF PollerSpec
=============================================================================
