---------------------------- MODULE GatusPoller ----------------------------
(***************************************************************************)
(* The status poller (internal/gatus/poller.go) and its two users: the     *)
(* scheduled loop and POST /api/status/refresh.  Each runs fetches of its  *)
(* own, concurrently, and publishes into one shared snapshot.  Gatus is    *)
(* external: it answers anything, or nothing.  Time is discrete and a step *)
(* that is due is taken before the clock moves on.                         *)
(***************************************************************************)
EXTENDS Integers

CONSTANTS
  Key,          \* Gatus endpoint keys
  Loop,         \* the scheduled poller
  Refresher,    \* requests that may be re-polling
  Interval,     \* between scheduled polls
  Timeout,      \* of one fetch
  Durations,    \* response times Gatus may report, 0 = unknown
  Thresholds,   \* "Slow" thresholds an admin may set, 0 = off
  MaxTime       \* bound on the clock

ASSUME PollerAssumption ==
  /\ Loop \notin Refresher
  /\ Interval \in Nat /\ Timeout \in Nat \ {0} /\ Timeout < Interval
  /\ Durations \subseteq Nat /\ Thresholds \subseteq Nat /\ Thresholds # {}
  /\ MaxTime \in Nat

Poller == Refresher \cup {Loop}

VARIABLES
  now, threshold, snapshot,
  fetch,    \* fetch[p]: the fetch p is running
  due,      \* when the ticker fires next; the ticker starts after poll one
  answer,   \* history: the last answer a refresh gave
  lastGood  \* history: as_of of the last snapshot Gatus did answer for, or -1

pollerVars == <<now, threshold, snapshot, fetch, due, answer, lastGood>>
history == <<answer, lastGood>>

\* One endpoint of the payload: its latest check, or none yet, or not listed.
Check == [kind : {"ok"}, ms : Durations] \cup [kind : {"failed", "none", "absent"}]
Status == {"UP", "DOWN", "DEGRADED", "UNKNOWN", "absent"}
NoStatus == [k \in Key |-> "absent"]

Fetch ==
  [phase : {"idle", "ask", "judge", "ready"}, asOf : Nat, since : Nat,
   seen : [Key -> Check], todo : SUBSET Key, armed : SUBSET Key,
   statuses : [Key -> Status], inForce : SUBSET Thresholds]

Idle == [phase |-> "idle", asOf |-> 0, since |-> 0,
         seen |-> [k \in Key |-> [kind |-> "absent"]],
         todo |-> {}, armed |-> {}, statuses |-> NoStatus, inForce |-> {}]

Phase(p) == fetch[p].phase
Becomes(p, f) == fetch' = [fetch EXCEPT ![p] = f]

PollerInit ==
  /\ now = 0
  /\ threshold \in Thresholds
  /\ snapshot = [asOf |-> 0, statuses |-> NoStatus]
  /\ fetch = [p \in Poller |-> Idle]
  /\ due = 0
  /\ answer = [code |-> 0, asOf |-> 0]
  /\ lastGood = -1

-----------------------------------------------------------------------------
Asking(t) == [Idle EXCEPT !.phase = "ask", !.asOf = t, !.since = t]

\* fetch: AsOf is read before Gatus is asked.
StartFetch(p) == Phase(p) = "idle" /\ Becomes(p, Asking(now))

\* The ticker's period is fixed; it runs from the end of the first poll.
ScheduledPoll ==
  /\ due = now
  /\ StartFetch(Loop)
  /\ due' = IF now = 0 THEN -1 ELSE due + Interval
  /\ UNCHANGED <<now, threshold, snapshot, history>>

RefreshRequest(r) ==
  /\ StartFetch(r)
  /\ UNCHANGED <<now, threshold, snapshot, due, history>>

Answered(f, seen) ==
  [f EXCEPT !.phase = "judge", !.seen = seen, !.inForce = {threshold},
            !.todo = {k \in Key : seen[k].kind # "absent"}]

\* FetchAll's payload arrives: every listed endpoint is still to be judged.
GatusAnswers(p) ==
  /\ Phase(p) = "ask"
  /\ \E seen \in [Key -> Check] : Becomes(p, Answered(fetch[p], seen))
  /\ UNCHANGED <<now, threshold, snapshot, due, history>>

Judged(f, k, status) == [f EXCEPT !.todo = @ \ {k}, !.statuses[k] = status]
Record(p, k, status) == Becomes(p, Judged(fetch[p], k, status))
Armed(f, k) == [f EXCEPT !.armed = @ \cup {k}]

\* Mutant of Slow: at the threshold is slow already.
SlowFromThreshold(ms, limit) == ms >= limit

\* Strictly greater than the threshold.
Slow(ms, limit) == ms > limit

\* No result is UNKNOWN, a failure DOWN; for a success the switch reads the
\* threshold a first time, only to see whether it is on.
JudgeKind(p, k) ==
  /\ Phase(p) = "judge" /\ k \in fetch[p].todo \ fetch[p].armed
  /\ LET c == fetch[p].seen[k]
     IN  CASE c.kind = "none" -> Record(p, k, "UNKNOWN")
           [] c.kind = "failed" -> Record(p, k, "DOWN")
           [] c.kind = "ok" /\ threshold > 0 /\ c.ms > 0 ->
                Becomes(p, Armed(fetch[p], k))
           [] OTHER -> Record(p, k, "UP")
  /\ UNCHANGED <<now, threshold, snapshot, due, history>>

\* The second read of the threshold, for the comparison.
JudgeDuration(p, k) ==
  /\ Phase(p) = "judge" /\ k \in fetch[p].todo \cap fetch[p].armed
  /\ Record(p, k, IF Slow(fetch[p].seen[k].ms, threshold) THEN "DEGRADED" ELSE "UP")
  /\ UNCHANGED <<now, threshold, snapshot, due, history>>

Filled(f) == [f EXCEPT !.phase = "ready"]

\* fillUptime returns; a window that failed is left out.
UptimeFilled(p) ==
  /\ Phase(p) = "judge" /\ fetch[p].todo = {}
  /\ Becomes(p, Filled(fetch[p]))
  /\ UNCHANGED <<now, threshold, snapshot, due, history>>

\* The loop sets up its ticker when its first poll returns.
AfterPoll(p) == IF p = Loop /\ due = -1 THEN now + Interval ELSE due

Publish(p) ==
  /\ Phase(p) = "ready"
  /\ snapshot' = [asOf |-> fetch[p].asOf, statuses |-> fetch[p].statuses]
  /\ lastGood' = fetch[p].asOf
  /\ Becomes(p, Idle)
  /\ due' = AfterPoll(p)
  /\ answer' = IF p = Loop THEN answer ELSE [code |-> 200, asOf |-> fetch[p].asOf]
  /\ UNCHANGED <<now, threshold>>

\* Mutants of FetchFails: a failed scheduled poll publishes the zero Snapshot;
\* it publishes nothing, like a refresh.
FetchFailsZeroSnapshot(p) ==
  /\ Phase(p) = "ask"
  /\ snapshot' = IF p = Loop THEN [asOf |-> -1, statuses |-> NoStatus] ELSE snapshot
  /\ Becomes(p, Idle)
  /\ due' = AfterPoll(p)
  /\ UNCHANGED <<now, threshold, history>>
FetchFailsSilently(p) ==
  /\ Phase(p) = "ask"
  /\ Becomes(p, Idle)
  /\ due' = AfterPoll(p)
  /\ UNCHANGED <<now, threshold, snapshot, history>>

\* Transport error, junk or the timeout: the loop publishes the empty
\* snapshot, a refresh answers 503 and leaves the published one alone.
FetchFails(p) ==
  /\ Phase(p) = "ask"
  /\ snapshot' = IF p = Loop THEN [asOf |-> fetch[p].asOf, statuses |-> NoStatus]
                 ELSE snapshot
  /\ Becomes(p, Idle)
  /\ due' = AfterPoll(p)
  /\ answer' = IF p = Loop THEN answer ELSE [code |-> 503, asOf |-> snapshot.asOf]
  /\ UNCHANGED <<now, threshold, lastGood>>

Under(f, d) == [f EXCEPT !.inForce = @ \cup {d}]

SetDegradedAfter(d) ==
  /\ threshold # d
  /\ threshold' = d
  /\ fetch' = [p \in Poller |-> IF Phase(p) = "judge"
                                THEN Under(fetch[p], d) ELSE fetch[p]]
  /\ UNCHANGED <<now, snapshot, due, history>>

\* Mutant of Overdue: the fetch runs without a deadline.
OverdueTickOnly == due = now /\ Phase(Loop) = "idle"

\* The context's deadline ends a fetch, and the ticker wakes an idle loop.
Overdue ==
  \/ \E p \in Poller : Phase(p) # "idle" /\ now >= fetch[p].since + Timeout
  \/ due = now /\ Phase(Loop) = "idle"

Tick ==
  /\ now < MaxTime
  /\ ~Overdue
  /\ now' = now + 1
  /\ UNCHANGED <<threshold, snapshot, fetch, due, history>>

PollerNext ==
  \/ Tick
  \/ ScheduledPoll
  \/ \E r \in Refresher : RefreshRequest(r)
  \/ \E p \in Poller : \/ GatusAnswers(p) \/ UptimeFilled(p)
                       \/ Publish(p) \/ FetchFails(p)
                       \/ \E k \in Key : JudgeKind(p, k) \/ JudgeDuration(p, k)
  \/ \E d \in Thresholds : SetDegradedAfter(d)

PollerSpec == PollerInit /\ [][PollerNext]_pollerVars

-----------------------------------------------------------------------------
\* Every variable stays in its type.
PollerTypeOK ==
  /\ now \in 0..MaxTime
  /\ threshold \in Thresholds
  /\ snapshot \in [asOf : 0..MaxTime, statuses : [Key -> Status]]
  /\ fetch \in [Poller -> Fetch]
  /\ due \in {-1} \cup Nat
  /\ answer \in [code : {0, 200, 503}, asOf : Nat]
  /\ lastGood \in {-1} \cup Nat

\* What GET /api/services serves is never older than one interval and two
\* timeouts, however the loop, its ticker and slow refreshes interleave.
StalenessBounded == now - snapshot.asOf <= Interval + 2 * Timeout

\* A fetch that was overtaken can take as_of back, but by no more than the
\* timeout it was running under.
AsOfSlipsAtMostTimeout ==
  [][snapshot'.asOf >= snapshot.asOf - Timeout]_pollerVars

\* A verdict on a successful check is justified by thresholds that were in
\* force while the payload was judged, one for each of the switch's reads.
VerdictInForce ==
  \A p \in Poller, k \in Key :
    LET f == fetch[p]
        c == f.seen[k]
    IN  c.kind = "ok" =>
          /\ f.statuses[k] = "DEGRADED" =>
               c.ms > 0 /\ (\E d \in f.inForce : d > 0)
                        /\ (\E d \in f.inForce : c.ms > d)
          /\ f.statuses[k] = "UP" =>
               c.ms = 0 \/ \E d \in f.inForce : d = 0 \/ c.ms <= d

-----------------------------------------------------------------------------
\* services.go says of a refresh answered 503: "The last good snapshot -- and
\* its as_of -- still stand".
RefusedRefreshKeepsLastGood ==
  [][answer' # answer /\ answer'.code = 503 /\ lastGood # -1
       => answer'.asOf = lastGood]_pollerVars
=============================================================================
