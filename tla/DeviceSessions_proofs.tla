----------------------- MODULE DeviceSessions_proofs -----------------------
(***************************************************************************)
(* Signing in and out over HTTP, for every set of tokens, accounts,        *)
(* browsers and requests, with and without faults.  The theorems about the *)
(* sessions table carry over because every step of a handler is one        *)
(* statement of the table, or none.                                        *)
(***************************************************************************)
EXTENDS DeviceSessions, SessionStore_proofs

\* The fields that a handler carries along unchanged to its answer.
SameRequest(p, q) ==
  /\ p.op = q.op /\ p.dev = q.dev /\ p.cookie = q.cookie
  /\ p.fresh = q.fresh /\ p.stale = q.stale

SameBody(p, q) == p.whom = q.whom /\ p.handle = q.handle

LEMMA ProceedFields ==
  ASSUME NEW q \in Inflight, NEW step \in Steps
  PROVE  LET p == Proceed(q, step)
         IN  /\ p \in Inflight /\ SameRequest(p, q) /\ SameBody(p, q)
             /\ p.step = step /\ p.who = q.who /\ p.reply = q.reply
             /\ p.gate = q.gate /\ p.failed = q.failed
  BY DEF Proceed, Inflight, SameRequest, SameBody

LEMMA AnswerFields ==
  ASSUME NEW q \in Inflight, NEW reply \in Cookie \cup {Keep}
  PROVE  LET p == Answer(q, reply)
         IN  /\ p \in Inflight /\ SameRequest(p, q)
             /\ p.step = "reply" /\ p.who = q.who /\ p.reply = reply
             /\ p.failed = q.failed
  <1>. DEFINE p == [q EXCEPT !.step = "reply", !.reply = reply, !.gate = 1,
                             !.due = FALSE, !.whom = NoUser, !.handle = NoToken]
  <1>1. "reply" \in Steps /\ NoToken \in Cookie
    BY DEF Steps, Cookie
  <1>2. p \in Inflight
    BY <1>1 DEF Inflight
  <1>3. /\ p.op = q.op /\ p.dev = q.dev /\ p.cookie = q.cookie
        /\ p.fresh = q.fresh /\ p.stale = q.stale
    BY DEF Inflight
  <1>4. p.step = "reply" /\ p.who = q.who /\ p.reply = reply /\ p.failed = q.failed
    BY DEF Inflight
  <1>. QED
    BY <1>2, <1>3, <1>4 DEF Answer, SameRequest

LEMMA FoundFields ==
  ASSUME NEW q \in Inflight, NEW user \in User, NEW due \in BOOLEAN
  PROVE  LET p == Found(q, user, due)
         IN  /\ p \in Inflight /\ SameRequest(p, q) /\ SameBody(p, q)
             /\ p.step = "user" /\ p.who = user /\ p.reply = q.reply
             /\ p.gate = q.gate /\ p.failed = q.failed
  BY DEF Found, Inflight, SameRequest, SameBody, Steps

LEMMA AttributedFields ==
  ASSUME NEW q \in Inflight, NEW who \in User \cup {NoUser}
  PROVE  LET p == Attributed(q, who)
         IN  /\ p \in Inflight /\ SameRequest(p, q) /\ SameBody(p, q)
             /\ p.step = q.step /\ p.who = who /\ p.reply = q.reply
             /\ p.gate = q.gate /\ p.failed = q.failed
  BY DEF Attributed, Inflight, SameRequest, SameBody

LEMMA SecondGateFields ==
  ASSUME NEW q \in Inflight
  PROVE  LET p == SecondGate(q)
         IN  /\ p \in Inflight /\ SameRequest(p, q) /\ SameBody(p, q)
             /\ p.step = "lookup" /\ p.who = NoUser /\ p.reply = q.reply
             /\ p.gate = 2 /\ p.failed = q.failed
  BY DEF SecondGate, Inflight, SameRequest, SameBody, Steps

LEMMA ReissuedFields ==
  ASSUME NEW q \in Inflight, NEW slid \in BOOLEAN
  PROVE  LET p == Reissued(q, slid)
         IN  /\ p \in Inflight /\ SameRequest(p, q) /\ SameBody(p, q)
             /\ p.step = q.step /\ p.who = q.who
             /\ p.reply = IF slid THEN q.cookie ELSE q.reply
             /\ p.gate = q.gate /\ p.failed = q.failed
  BY DEF Reissued, Inflight, SameRequest, SameBody, Cookie

LEMMA FailingFields ==
  ASSUME NEW q \in Inflight, NEW failed \in BOOLEAN
  PROVE  LET p == Failing(q, failed)
         IN  /\ p \in Inflight /\ SameRequest(p, q) /\ SameBody(p, q)
             /\ p.step = q.step /\ p.who = q.who /\ p.reply = q.reply
             /\ p.gate = q.gate /\ p.failed = failed
  BY DEF Failing, Inflight, SameRequest, SameBody

LEMMA StampedFields ==
  ASSUME NEW q \in Inflight, now \in Nat
  PROVE  LET p == Stamped(q)
         IN  /\ p \in Inflight /\ SameRequest(p, q) /\ SameBody(p, q)
             /\ p.step = q.step /\ p.who = q.who /\ p.reply = q.reply
             /\ p.gate = q.gate /\ p.failed = q.failed
  BY DEF Stamped, Inflight, SameRequest, SameBody

-----------------------------------------------------------------------------
(* What is true of a request in flight, given the rows R and the tokens M  *)
(* that were minted, at every step of its handler.                         *)

\* The cookie was minted by a sign-in, and the token drawn for a new session
\* is another one.
Carries(q, M) ==
  /\ q.cookie \in M \cup {NoToken}
  /\ q.op \in Minting => q.fresh \in Token /\ q.fresh # q.cookie
  /\ q.op \notin Minting => q.fresh = NoToken

\* A cookie that was dead on arrival stays dead, and was nobody's.
DeadStays(q, R, M) ==
  q.stale => /\ q.cookie \in M /\ R[q.cookie] = NoRow
             /\ q.who = NoUser /\ q.reply # q.cookie

\* What the body asks for, until the request is answered.
Asks(q) ==
  /\ q.op = "login" => q.whom \in Adult
  /\ q.op \in AdminOps => q.whom \in Kid
  /\ q.op = "revoke" => q.handle \in Token

\* Until then the answer sets no cookie, or the one it came with.
Quiet(q) == q.reply = Keep \/ (q.reply = q.cookie /\ q.cookie # NoToken)

\* What the handler has established when it stands before a statement.
Standing(q, R, M) ==
  /\ q.step \in {"lookup", "user", "touch"} => q.op \notin {"login", "logout"}
  /\ q.step \in {"user", "touch"} =>
       /\ q.cookie \in M /\ q.who \in User
       /\ R[q.cookie] # NoRow => R[q.cookie].user = q.who
  /\ q.step = "kid" => q.op \in {"signInHere", "revoke"} /\ q.cookie \in M
  /\ q.step = "destroy" =>
       /\ q.op \in {"login", "logout", "signInHere"} /\ q.cookie \in M
       /\ q.op = "login" => q.fresh \in M
  /\ q.step = "create" =>
       /\ q.op \in Minting
       /\ q.op = "signInHere" => q.cookie \in M /\ R[q.cookie] = NoRow
  /\ q.step = "revoke" => q.op = "revoke"
  /\ q.step = "deleteKid" => q.op = "deleteKid"

\* An answer sets a minted cookie or none, and a carried session is over.
Answered(q, R, M) ==
  /\ q.reply \in M \cup {NoToken, Keep}
  /\ ~q.failed /\ q.cookie \in Token /\ (q.op = "logout" \/ q.reply = q.fresh)
       => R[q.cookie] = NoRow

SoundIn(q, R, M) ==
  /\ Carries(q, M)
  /\ DeadStays(q, R, M)
  /\ q.step # "reply" => Asks(q) /\ Quiet(q) /\ Standing(q, R, M)
  /\ q.step = "reply" => Answered(q, R, M)

\* The invariant of the whole: the table's, and every request's.
DeviceInv ==
  /\ StoreInv
  /\ req \in [Request -> Inflight \cup {NoRequest}]
  /\ jar \in [Device -> Cookie]
  /\ \A d \in Device : jar[d] \in minted \cup {NoToken}
  /\ origin \in [Token -> Cookie]
  /\ \A t \in Token : origin[t] # NoToken => origin[t] \in minted /\ ~HasRow(origin[t])
  /\ \A r \in Request : Active(r) => SoundIn(req[r], rows, minted)

-----------------------------------------------------------------------------
(* What a handler does next keeps it: one lemma per operator.              *)

\* An answer that may be given may be given.
LEMMA AnswerSound ==
  ASSUME NEW q \in Inflight, NEW R, NEW M \in SUBSET Token,
         Carries(q, M), DeadStays(q, R, M),
         NEW reply \in M \cup {NoToken, Keep},
         q.stale => reply # q.cookie,
         ~q.failed /\ q.cookie \in Token /\ (q.op = "logout" \/ reply = q.fresh)
           => R[q.cookie] = NoRow
  PROVE  Answer(q, reply) \in Inflight /\ SoundIn(Answer(q, reply), R, M)
  <1>. DEFINE p == Answer(q, reply)
  <1>1. reply \in Cookie \cup {Keep}
    BY DEF Cookie
  <1>2. /\ p \in Inflight /\ SameRequest(p, q)
        /\ p.step = "reply" /\ p.who = q.who /\ p.reply = reply
        /\ p.failed = q.failed
    BY <1>1, AnswerFields
  <1>. HIDE DEF p
  <1>3. SoundIn(p, R, M)
    BY <1>2 DEF SoundIn, Carries, DeadStays, Answered, SameRequest
  <1>. QED
    BY <1>2, <1>3 DEF p

\* Every handler but logout's may stop before it has ended anything.
LEMMA DoneSound ==
  ASSUME NEW q \in Inflight, NEW R, NEW M \in SUBSET Token,
         Carries(q, M), DeadStays(q, R, M), Quiet(q), q.op # "logout"
  PROVE  Done(q) \in Inflight /\ SoundIn(Done(q), R, M)
  <1>1. q.reply \in M \cup {NoToken, Keep}
    BY DEF Quiet, Carries
  <1>2. q.reply # q.fresh
    BY DeviceAssumption DEF Quiet, Carries, Inflight, Cookie
  <1>3. q.stale => q.reply # q.cookie
    BY DEF DeadStays
  <1>. QED
    BY <1>1, <1>2, <1>3, AnswerSound DEF Done

\* currentUser reports a caller: the gates let it on, or answer.
LEMMA CallerSound ==
  ASSUME NEW q \in Inflight, NEW R, NEW M \in SUBSET Token,
         Carries(q, M), DeadStays(q, R, M), Asks(q), Quiet(q),
         q.op \notin {"login", "logout"},
         NEW who \in User \cup {NoUser},
         q.stale => who = NoUser, who \in User => q.cookie \in M
  PROVE  Caller(q, who) \in Inflight /\ SoundIn(Caller(q, who), R, M)
  <1>. DEFINE p == Attributed(q, who)
  <1>1. /\ p \in Inflight /\ SameRequest(p, q) /\ SameBody(p, q)
        /\ p.who = who /\ p.reply = q.reply /\ p.gate = q.gate
    BY AttributedFields
  <1>. HIDE DEF p
  <1>2. /\ Carries(p, M) /\ DeadStays(p, R, M) /\ Asks(p) /\ Quiet(p)
        /\ p.op \notin {"login", "logout"}
    BY <1>1 DEF Carries, DeadStays, Asks, Quiet, SameRequest, SameBody
  <1>3. Done(p) \in Inflight /\ SoundIn(Done(p), R, M)
    BY <1>1, <1>2, DoneSound
  <1>4. SecondGate(p) \in Inflight /\ SoundIn(SecondGate(p), R, M)
    <2>. DEFINE s == SecondGate(p)
    <2>1. /\ s \in Inflight /\ SameRequest(s, p) /\ SameBody(s, p)
          /\ s.step = "lookup" /\ s.who = NoUser /\ s.reply = p.reply
      BY <1>1, SecondGateFields
    <2>. HIDE DEF s
    <2>2. SoundIn(s, R, M)
      BY <1>2, <2>1 DEF SoundIn, Carries, DeadStays, Asks, Quiet, Standing,
                        SameRequest, SameBody
    <2>. QED
      BY <2>1, <2>2 DEF s
  <1>5. ASSUME who \in Admin, NEW step \in {"kid", "deleteKid"},
               step = "kid" <=> q.op # "deleteKid", q.op # "read"
        PROVE  Proceed(p, step) \in Inflight /\ SoundIn(Proceed(p, step), R, M)
    <2>. DEFINE s == Proceed(p, step)
    <2>1. step \in Steps /\ step \notin {"reply", "lookup", "user", "touch",
                                       "destroy", "create", "revoke"}
      BY DEF Steps
    <2>2. /\ s \in Inflight /\ SameRequest(s, p) /\ SameBody(s, p)
          /\ s.step = step /\ s.who = p.who /\ s.reply = p.reply
      BY <1>1, <2>1, ProceedFields
    <2>. HIDE DEF s
    <2>3. who \in User /\ q.cookie \in M
      BY <1>5, DeviceAssumption DEF User
    <2>4. q.op \in Ops /\ q.op \in {"signInHere", "revoke", "deleteKid"}
      BY <1>5, DeviceAssumption DEF Inflight
    <2>5. Standing(s, R, M)
      BY <1>1, <1>5, <2>1, <2>2, <2>3, <2>4 DEF Standing, SameRequest
    <2>6. SoundIn(s, R, M)
      BY <1>2, <2>1, <2>2, <2>5
         DEF SoundIn, Carries, DeadStays, Asks, Quiet, SameRequest, SameBody
    <2>. QED
      BY <2>2, <2>6 DEF s
  <1>6. q.gate \in {1, 2}
    BY DEF Inflight
  <1>7. CASE q.op = "read"
    BY <1>3, <1>7 DEF Caller, p
  <1>8. CASE q.op # "read" /\ q.gate = 1
    BY <1>3, <1>4, <1>8 DEF Caller, p
  <1>9. CASE q.op # "read" /\ q.gate = 2 /\ who \notin Admin
    BY <1>3, <1>9 DEF Caller, p
  <1>10. CASE q.op # "read" /\ q.gate = 2 /\ who \in Admin
    <2>. DEFINE step == IF q.op = "deleteKid" THEN "deleteKid" ELSE "kid"
    <2>1. Caller(q, who) = Proceed(p, step)
      BY <1>10 DEF Caller, p
    <2>. QED
      BY <1>5, <1>10, <2>1
  <1>. QED
    BY <1>6, <1>7, <1>8, <1>9, <1>10

\* A handler goes on to a statement it may stand before.
LEMMA ProceedSound ==
  ASSUME NEW q \in Inflight, NEW R, NEW M \in SUBSET Token,
         NEW step \in Steps \ {"reply"},
         Carries(q, M), DeadStays(q, R, M), Asks(q), Quiet(q),
         \A s : SameRequest(s, q) /\ s.step = step /\ s.who = q.who => Standing(s, R, M)
  PROVE  Proceed(q, step) \in Inflight /\ SoundIn(Proceed(q, step), R, M)
  <1>. DEFINE p == Proceed(q, step)
  <1>1. /\ p \in Inflight /\ SameRequest(p, q) /\ SameBody(p, q)
        /\ p.step = step /\ p.who = q.who /\ p.reply = q.reply
    BY ProceedFields
  <1>. HIDE DEF p
  <1>2. Standing(p, R, M)
    BY <1>1
  <1>3. SoundIn(p, R, M)
    BY <1>1, <1>2
       DEF SoundIn, Carries, DeadStays, Asks, Quiet, SameRequest, SameBody
  <1>. QED
    BY <1>1, <1>3 DEF p

\* Destroy returned: what ended the carried session may be answered.
LEMMA AfterDestroySound ==
  ASSUME NEW q \in Inflight, NEW R, NEW M \in SUBSET Token, NEW ok \in BOOLEAN,
         SoundIn(q, R, M), q.step = "destroy",
         ok => R[q.cookie] = NoRow
  PROVE  /\ AfterDestroy(Failing(q, ~ok), ok) \in Inflight
         /\ SoundIn(AfterDestroy(Failing(q, ~ok), ok), R, M)
  <1>. DEFINE p == Failing(q, ~ok)
  <1>1. /\ p \in Inflight /\ SameRequest(p, q) /\ SameBody(p, q)
        /\ p.step = "destroy" /\ p.who = q.who /\ p.reply = q.reply
        /\ p.failed = ~ok
    BY FailingFields
  <1>. HIDE DEF p
  <1>2. /\ Carries(p, M) /\ DeadStays(p, R, M) /\ Asks(p) /\ Quiet(p)
        /\ p.op \in {"login", "logout", "signInHere"} /\ p.cookie \in M
        /\ p.op = "login" => p.fresh \in M
        /\ ~p.failed => R[p.cookie] = NoRow
    BY <1>1 DEF SoundIn, Standing, Carries, DeadStays, Asks, Quiet,
                SameRequest, SameBody
  <1>3. CASE p.op = "logout"
    <2>1. Answer(p, NoToken) \in Inflight /\ SoundIn(Answer(p, NoToken), R, M)
      BY <1>1, <1>2, AnswerSound, DeviceAssumption
    <2>. QED
      BY <1>3, <2>1 DEF AfterDestroy, p
  <1>4. CASE p.op = "login"
    <2>1. p.stale => p.fresh # p.cookie
      BY <1>2, <1>4 DEF Carries, Minting
    <2>2. Answer(p, p.fresh) \in Inflight /\ SoundIn(Answer(p, p.fresh), R, M)
      BY <1>1, <1>2, <1>4, <2>1, AnswerSound
    <2>. QED
      BY <1>4, <2>2 DEF AfterDestroy, p
  <1>5. CASE p.op = "signInHere" /\ ok
    <2>1. \A s : SameRequest(s, p) /\ s.step = "create" => Standing(s, R, M)
      BY <1>1, <1>2, <1>5 DEF SameRequest, Standing, Minting
    <2>2. "create" \in Steps \ {"reply"}
      BY DEF Steps
    <2>3. /\ Proceed(p, "create") \in Inflight
          /\ SoundIn(Proceed(p, "create"), R, M)
      BY <1>1, <1>2, <2>1, <2>2, ProceedSound
    <2>. QED
      BY <1>5, <2>3 DEF AfterDestroy, p
  <1>6. CASE p.op = "signInHere" /\ ~ok
    <2>1. Done(p) \in Inflight /\ SoundIn(Done(p), R, M)
      BY <1>1, <1>2, <1>6, DoneSound
    <2>. QED
      BY <1>6, <2>1 DEF AfterDestroy, p
  <1>. QED
    BY <1>2, <1>3, <1>4, <1>5, <1>6

\* Create returned: the new session's cookie may be set, or the old one ended.
LEMMA AfterCreateSound ==
  ASSUME NEW q \in Inflight, NEW R, NEW M \in SUBSET Token, NEW ok \in BOOLEAN,
         SoundIn(q, R, M), q.step = "create",
         ok => q.fresh \in M
  PROVE  /\ AfterCreate(q, ok) \in Inflight
         /\ SoundIn(AfterCreate(q, ok), R, M)
  <1>1. /\ Carries(q, M) /\ DeadStays(q, R, M) /\ Asks(q) /\ Quiet(q)
        /\ q.op \in Minting
        /\ q.op = "signInHere" => q.cookie \in M /\ R[q.cookie] = NoRow
    BY DEF SoundIn, Standing
  <1>2. q.fresh \in Token /\ q.fresh # q.cookie /\ q.cookie \in M \cup {NoToken}
    BY <1>1 DEF Carries
  <1>3. CASE q.op = "login" /\ ok /\ q.cookie # NoToken
    <2>1. \A s : SameRequest(s, q) /\ s.step = "destroy" => Standing(s, R, M)
      BY <1>2, <1>3 DEF SameRequest, Standing
    <2>2. "destroy" \in Steps \ {"reply"}
      BY DEF Steps
    <2>3. /\ Proceed(q, "destroy") \in Inflight
          /\ SoundIn(Proceed(q, "destroy"), R, M)
      BY <1>1, <2>1, <2>2, ProceedSound
    <2>. QED
      BY <1>3, <2>3 DEF AfterCreate
  <1>4. CASE q.op = "login" /\ ok /\ q.cookie = NoToken
    <2>1. Answer(q, q.fresh) \in Inflight /\ SoundIn(Answer(q, q.fresh), R, M)
      BY <1>1, <1>2, <1>4, AnswerSound, DeviceAssumption
    <2>. QED
      BY <1>4, <2>1 DEF AfterCreate
  <1>5. CASE q.op = "login" /\ ~ok
    <2>1. Done(q) \in Inflight /\ SoundIn(Done(q), R, M)
      BY <1>1, <1>5, DoneSound
    <2>. QED
      BY <1>5, <2>1 DEF AfterCreate
  <1>6. CASE q.op = "signInHere" /\ ok
    <2>1. Answer(q, q.fresh) \in Inflight /\ SoundIn(Answer(q, q.fresh), R, M)
      BY <1>1, <1>2, <1>6, AnswerSound
    <2>. QED
      BY <1>6, <2>1 DEF AfterCreate
  <1>7. CASE q.op = "signInHere" /\ ~ok
    <2>1. q.stale => NoToken # q.cookie
      BY <1>1, DeviceAssumption DEF DeadStays
    <2>2. Answer(q, NoToken) \in Inflight /\ SoundIn(Answer(q, NoToken), R, M)
      BY <1>1, <1>2, <1>7, <2>1, AnswerSound
    <2>. QED
      BY <1>7, <2>2 DEF AfterCreate
  <1>. QED
    BY <1>1, <1>3, <1>4, <1>5, <1>6, <1>7 DEF Minting

\* The clock reading a statement takes is no part of it.
LEMMA StampedSound ==
  ASSUME NEW q \in Inflight, now \in Nat, NEW R, NEW M, SoundIn(q, R, M)
  PROVE  Stamped(q) \in Inflight /\ SoundIn(Stamped(q), R, M)
  <1>. DEFINE p == Stamped(q)
  <1>1. /\ p \in Inflight /\ SameRequest(p, q) /\ SameBody(p, q)
        /\ p.step = q.step /\ p.who = q.who /\ p.reply = q.reply
        /\ p.failed = q.failed
    BY StampedFields
  <1>. HIDE DEF p
  <1>2. SoundIn(p, R, M)
    BY <1>1 DEF SoundIn, Carries, DeadStays, Asks, Quiet, Standing, Answered,
                SameRequest, SameBody
  <1>. QED
    BY <1>1, <1>2 DEF p

\* A request as it is sent: its cookie is the jar's, its token a fresh one.
LEMMA SentSound ==
  ASSUME DeviceInv, NEW d \in Device, NEW op \in Ops,
         NEW whom \in User \cup {NoUser}, NEW handle \in Cookie, NEW fresh \in Cookie,
         op = "login" => whom \in Adult,
         op \in AdminOps => whom \in Kid,
         op = "revoke" => handle \in Token,
         IF op \in Minting THEN fresh \in Token \ minted ELSE fresh = NoToken
  PROVE  LET q == Sent(d, op, whom, handle, fresh)
         IN  /\ q \in Inflight
             /\ Carries(q, minted) /\ DeadStays(q, rows, minted)
             /\ Asks(q) /\ Quiet(q)
             /\ q.op = op /\ q.step = "lookup" /\ q.who = NoUser
  <1>. DEFINE q == Sent(d, op, whom, handle, fresh)
  <1>1. /\ jar[d] \in minted \cup {NoToken} /\ minted \subseteq Token
        /\ now \in Nat /\ jar[d] \in Cookie
    BY DEF DeviceInv, StoreInv, TypeOK
  <1>2. q \in Inflight
    BY <1>1 DEF Sent, Inflight, Steps
  <1>3. /\ q.op = op /\ q.step = "lookup" /\ q.who = NoUser /\ q.reply = Keep
        /\ q.cookie = jar[d] /\ q.whom = whom /\ q.handle = handle /\ q.fresh = fresh
        /\ q.stale = (jar[d] \in Token /\ ~HasRow(jar[d]))
    BY DEF Sent
  <1>. HIDE DEF q
  <1>4. Carries(q, minted)
    BY <1>1, <1>3, DeviceAssumption DEF Carries
  <1>5. DeadStays(q, rows, minted)
    BY <1>1, <1>3, DeviceAssumption DEF DeadStays, HasRow
  <1>6. Asks(q) /\ Quiet(q)
    BY <1>3 DEF Asks, Quiet
  <1>. QED
    BY <1>2, <1>3, <1>4, <1>5, <1>6 DEF q

\* The first thing a handler does with it.
LEMMA FirstStepSound ==
  ASSUME NEW q \in Inflight, NEW R, NEW M \in SUBSET Token,
         Carries(q, M), DeadStays(q, R, M), Asks(q), Quiet(q)
  PROVE  FirstStep(q) \in Inflight /\ SoundIn(FirstStep(q), R, M)
  <1>1. {"create", "destroy", "lookup"} \subseteq Steps \ {"reply"}
    BY DEF Steps
  <1>2. CASE q.op = "login"
    <2>1. \A s : SameRequest(s, q) /\ s.step = "create" => Standing(s, R, M)
      BY <1>2 DEF SameRequest, Standing, Minting
    <2>2. /\ Proceed(q, "create") \in Inflight
          /\ SoundIn(Proceed(q, "create"), R, M)
      BY <1>1, <2>1, ProceedSound
    <2>. QED
      BY <1>2, <2>2 DEF FirstStep
  <1>3. CASE q.op = "logout" /\ q.cookie = NoToken
    <2>1. q.cookie \notin Token /\ ~q.stale
      BY <1>3, DeviceAssumption DEF DeadStays, Inflight
    <2>2. Answer(q, NoToken) \in Inflight /\ SoundIn(Answer(q, NoToken), R, M)
      BY <2>1, AnswerSound
    <2>. QED
      BY <1>3, <2>2 DEF FirstStep
  <1>4. CASE q.op = "logout" /\ q.cookie # NoToken
    <2>1. \A s : SameRequest(s, q) /\ s.step = "destroy" => Standing(s, R, M)
      BY <1>4 DEF SameRequest, Standing, Carries
    <2>2. /\ Proceed(q, "destroy") \in Inflight
          /\ SoundIn(Proceed(q, "destroy"), R, M)
      BY <1>1, <2>1, ProceedSound
    <2>. QED
      BY <1>4, <2>2 DEF FirstStep
  <1>5. CASE q.op \notin {"login", "logout"}
    <2>1. \A s : SameRequest(s, q) /\ s.step = "lookup" => Standing(s, R, M)
      BY <1>5 DEF SameRequest, Standing
    <2>2. /\ Proceed(q, "lookup") \in Inflight
          /\ SoundIn(Proceed(q, "lookup"), R, M)
      BY <1>1, <2>1, ProceedSound
    <2>. QED
      BY <1>5, <2>2 DEF FirstStep
  <1>. QED
    BY <1>2, <1>3, <1>4, <1>5

-----------------------------------------------------------------------------
(* A statement of the table leaves the other requests as sound as they were. *)

Outlives(R, M) ==
  /\ minted \subseteq M
  /\ \A t \in minted : /\ rows[t] = NoRow => R[t] = NoRow
                       /\ R[t] # NoRow => R[t].user = rows[t].user

\* Tokens stay minted, what ended stays ended, and owners stay owners.
LEMMA StoreOutlives ==
  ASSUME StoreInv, [StoreNext]_storeVars
  PROVE  Outlives(rows', minted')
  <1>1. minted \subseteq minted'
    BY StepCases DEF Create, Touch, Deletes, DeleteKid, Tick, storeVars
  <1>2. \A t \in minted : rows[t] = NoRow => rows'[t] = NoRow
    BY EndedStep DEF HasRow
  <1>3. \A t \in minted : rows'[t] # NoRow => rows'[t].user = rows[t].user
    BY <1>2, ThrottleStep
       DEF ChangesAreSlides, SlidOnly, HasRow, StoreInv, TypeOK
  <1>. QED
    BY <1>1, <1>2, <1>3 DEF Outlives

LEMMA SoundOutlives ==
  ASSUME NEW q \in Inflight, NEW R, NEW M \in SUBSET Token,
         minted \subseteq Token, SoundIn(q, rows, minted), Outlives(R, M)
  PROVE  SoundIn(q, R, M)
  <1>1. Carries(q, M) /\ DeadStays(q, R, M)
    BY DEF SoundIn, Outlives, Carries, DeadStays
  <1>2. q.step # "reply" => Standing(q, R, M)
    BY DEF SoundIn, Outlives, Standing
  <1>3. q.step = "reply" => Answered(q, R, M)
    BY DeviceAssumption DEF SoundIn, Outlives, Carries, Answered
  <1>. QED
    BY <1>1, <1>2, <1>3 DEF SoundIn

\* A request in a slot is a request, and sound.
LEMMA SlotSound ==
  ASSUME DeviceInv, NEW r \in Request, Active(r)
  PROVE  req[r] \in Inflight /\ SoundIn(req[r], rows, minted)
  BY DEF DeviceInv, Active

\* A step that is a statement of the table, or none, and moves one request on
\* to a sound place, keeps the invariant.
LEMMA MoveKeeps ==
  ASSUME DeviceInv, [StoreNext]_storeVars, NEW r \in Request, NEW q \in Inflight,
         SoundIn(q, rows', minted'), Goto(r, q), UNCHANGED jar,
         origin' \in [Token -> Cookie],
         \A t \in Token : origin'[t] # NoToken =>
           origin'[t] \in minted' /\ rows'[origin'[t]] = NoRow
  PROVE  DeviceInv'
  <1>1. StoreInv'
    BY StoreInvNext DEF DeviceInv
  <1>2. Outlives(rows', minted') /\ minted \in SUBSET Token /\ minted' \in SUBSET Token
    BY <1>1, StoreOutlives DEF DeviceInv, StoreInv, TypeOK
  <1>. DEFINE p == Stamped(q)
  <1>3. p \in Inflight /\ SoundIn(p, rows', minted')
    BY StampedSound DEF DeviceInv, StoreInv, TypeOK
  <1>4. req' = [req EXCEPT ![r] = p]
    BY DEF Goto
  <1>. HIDE DEF p
  <1>5. /\ req' \in [Request -> Inflight \cup {NoRequest}]
        /\ req'[r] = p
        /\ \A s \in Request : s # r => req'[s] = req[s]
    BY <1>3, <1>4 DEF DeviceInv
  <1>6. ASSUME NEW s \in Request, Active(s)'
        PROVE  SoundIn(req'[s], rows', minted')
    <2>1. CASE s = r
      BY <1>3, <1>5, <2>1
    <2>2. CASE s # r
      <3>1. req[s] \in Inflight /\ SoundIn(req[s], rows, minted) /\ req'[s] = req[s]
        BY <1>5, <1>6, <2>2, SlotSound DEF Active
      <3>. QED
        BY <1>2, <3>1, SoundOutlives
    <2>. QED
      BY <2>1, <2>2
  <1>7. \A d \in Device : jar'[d] \in minted' \cup {NoToken}
    BY <1>2 DEF DeviceInv, Outlives
  <1>. QED
    BY <1>1, <1>5, <1>6, <1>7 DEF DeviceInv, HasRow

\* The hand-overs recorded so far stay hand-overs of ended sessions.
LEMMA OriginKept ==
  ASSUME DeviceInv, [StoreNext]_storeVars
  PROVE  /\ origin \in [Token -> Cookie]
         /\ \A t \in Token : origin[t] # NoToken =>
              origin[t] \in minted' /\ rows'[origin[t]] = NoRow
  BY StoreOutlives DEF DeviceInv, Outlives, HasRow

\* The same for a step that hands nothing over.
LEMMA PlainMoveKeeps ==
  ASSUME DeviceInv, [StoreNext]_storeVars, NEW r \in Request, NEW q \in Inflight,
         SoundIn(q, rows', minted'), Goto(r, q), UNCHANGED <<jar, origin>>
  PROVE  DeviceInv'
  BY OriginKept, MoveKeeps

-----------------------------------------------------------------------------
(* Each step keeps the invariant, and is a statement of the table or none. *)

\* The caller of a request that is reading the cookie's session.
LEMMA SlotCaller ==
  ASSUME DeviceInv, NEW r \in Request, Active(r),
         req[r].step \in {"lookup", "user", "touch"},
         NEW who \in User \cup {NoUser},
         who = NoUser \/ (req[r].step # "lookup" /\ who = req[r].who)
  PROVE  /\ Caller(req[r], who) \in Inflight
         /\ SoundIn(Caller(req[r], who), rows, minted)
  <1>1. req[r] \in Inflight /\ SoundIn(req[r], rows, minted)
    BY SlotSound
  <1>2. minted \in SUBSET Token
    BY DEF DeviceInv, StoreInv, TypeOK
  <1>3. /\ Carries(req[r], minted) /\ DeadStays(req[r], rows, minted)
        /\ Asks(req[r]) /\ Quiet(req[r]) /\ req[r].op \notin {"login", "logout"}
    BY <1>1 DEF SoundIn, Standing
  <1>4. who \in User => req[r].cookie \in minted
    BY <1>1, DeviceAssumption DEF SoundIn, Standing
  <1>5. req[r].stale => who = NoUser
    BY <1>3 DEF DeadStays
  <1>. QED
    BY <1>1, <1>2, <1>3, <1>4, <1>5, CallerSound

LEMMA SendKeeps ==
  ASSUME DeviceInv, NEW r \in Request, NEW d \in Device, NEW op \in Ops, Send(r, d, op)
  PROVE  DeviceInv' /\ UNCHANGED storeVars
  <1>1. minted \in SUBSET Token
    BY DEF DeviceInv, StoreInv, TypeOK
  <1>2. PICK whom \in (IF op = "login" THEN Adult
                      ELSE IF op \in AdminOps THEN Kid ELSE {NoUser}),
             handle \in (IF op = "revoke" THEN minted ELSE {NoToken}),
             fresh \in (IF op \in Minting THEN {t \in Token : Unreserved(t)}
                        ELSE {NoToken}) :
          Goto(r, FirstStep(Sent(d, op, whom, handle, fresh)))
    BY DEF Send
  <1>3. /\ whom \in User \cup {NoUser} /\ handle \in Cookie /\ fresh \in Cookie
        /\ op = "login" => whom \in Adult
        /\ op \in AdminOps => whom \in Kid
        /\ op = "revoke" => handle \in Token
        /\ IF op \in Minting THEN fresh \in Token \ minted ELSE fresh = NoToken
    BY <1>1, <1>2 DEF User, Cookie, Unreserved, AdminOps
  <1>. DEFINE q == Sent(d, op, whom, handle, fresh)
  <1>4. /\ q \in Inflight
        /\ Carries(q, minted) /\ DeadStays(q, rows, minted)
        /\ Asks(q) /\ Quiet(q)
    BY <1>3, SentSound
  <1>5. Goto(r, FirstStep(q))
    BY <1>2
  <1>. HIDE DEF q
  <1>6. FirstStep(q) \in Inflight /\ SoundIn(FirstStep(q), rows, minted)
    BY <1>1, <1>4, FirstStepSound
  <1>7. UNCHANGED <<storeVars, jar, origin>>
    BY DEF Send
  <1>. QED
    BY <1>5, <1>6, <1>7, PlainMoveKeeps DEF storeVars

LEMMA LookupKeeps ==
  ASSUME DeviceInv, NEW r \in Request, Lookup(r)
  PROVE  DeviceInv' /\ UNCHANGED storeVars
  <1>. DEFINE q == req[r]
  <1>1. q \in Inflight /\ SoundIn(q, rows, minted) /\ Active(r) /\ q.step = "lookup"
    BY SlotSound DEF Lookup, At
  <1>2. UNCHANGED <<storeVars, jar, origin>>
    BY DEF Lookup
  <1>3. ASSUME Goto(r, Caller(q, NoUser))
        PROVE  DeviceInv'
    <2>1. Caller(q, NoUser) \in Inflight /\ SoundIn(Caller(q, NoUser), rows, minted)
      BY <1>1, SlotCaller
    <2>. QED
      BY <1>2, <1>3, <2>1, PlainMoveKeeps DEF storeVars
  <1>4. ASSUME NEW at \in q.since..now, q.cookie \in Token, Live(q.cookie, at),
               Goto(r, Found(q, rows[q.cookie].user, TouchDue(q.cookie, at)))
        PROVE  DeviceInv'
    <2>. DEFINE p == Found(q, rows[q.cookie].user, TouchDue(q.cookie, at))
    <2>1. rows[q.cookie] \in Session /\ HasRow(q.cookie) /\ q.cookie \in minted
      BY <1>4 DEF Live, HasRow, DeviceInv, StoreInv, TypeOK
    <2>2. rows[q.cookie].user \in User /\ TouchDue(q.cookie, at) \in BOOLEAN
      BY <2>1 DEF Session, TouchDue
    <2>3. /\ p \in Inflight /\ SameRequest(p, q) /\ SameBody(p, q)
          /\ p.step = "user" /\ p.who = rows[q.cookie].user /\ p.reply = q.reply
      BY <1>1, <2>2, FoundFields
    <2>4. Goto(r, p)
      BY <1>4
    <2>. HIDE DEF p
    <2>5. ~q.stale
      BY <1>1, <2>1 DEF SoundIn, DeadStays, HasRow
    <2>6. SoundIn(p, rows, minted)
      BY <1>1, <2>1, <2>2, <2>3, <2>5
         DEF SoundIn, Carries, DeadStays, Asks, Quiet, Standing, SameRequest, SameBody
    <2>. QED
      BY <1>2, <2>3, <2>4, <2>6, PlainMoveKeeps DEF storeVars
  <1>5. PICK at \in q.since..now :
          IF q.cookie \in Token /\ Live(q.cookie, at)
          THEN Goto(r, Found(q, rows[q.cookie].user, TouchDue(q.cookie, at)))
          ELSE Goto(r, Caller(q, NoUser))
    BY DEF Lookup
  <1>. QED
    BY <1>2, <1>3, <1>4, <1>5

LEMMA UserByIDKeeps ==
  ASSUME DeviceInv, NEW r \in Request, UserByID(r)
  PROVE  DeviceInv' /\ UNCHANGED storeVars
  <1>. DEFINE q == req[r]
  <1>1. /\ q \in Inflight /\ SoundIn(q, rows, minted) /\ Active(r) /\ q.step = "user"
        /\ minted \in SUBSET Token
    BY SlotSound DEF UserByID, At, DeviceInv, StoreInv, TypeOK
  <1>2. UNCHANGED <<storeVars, jar, origin>>
    BY DEF UserByID
  <1>3. q.who \in User
    BY <1>1 DEF SoundIn, Standing
  <1>4. ASSUME NEW who \in {NoUser, q.who}, Goto(r, Caller(q, who))
        PROVE  DeviceInv'
    <2>1. Caller(q, who) \in Inflight /\ SoundIn(Caller(q, who), rows, minted)
      BY <1>1, <1>3, SlotCaller
    <2>. QED
      BY <1>2, <1>4, <2>1, PlainMoveKeeps DEF storeVars
  <1>5. ASSUME Goto(r, Proceed(q, "touch"))
        PROVE  DeviceInv'
    <2>1. \A s : SameRequest(s, q) /\ s.step = "touch" /\ s.who = q.who
                   => Standing(s, rows, minted)
      BY <1>1 DEF SameRequest, SoundIn, Standing
    <2>2. "touch" \in Steps \ {"reply"}
      BY DEF Steps
    <2>3. /\ Proceed(q, "touch") \in Inflight
          /\ SoundIn(Proceed(q, "touch"), rows, minted)
      BY <1>1, <2>1, <2>2, ProceedSound DEF SoundIn
    <2>. QED
      BY <1>2, <1>5, <2>3, PlainMoveKeeps DEF storeVars
  <1>6. Goto(r, IF q.who \notin users THEN Caller(q, NoUser)
                ELSE IF q.due THEN Proceed(q, "touch")
                ELSE Caller(q, q.who))
    BY DEF UserByID
  <1>. QED
    BY <1>2, <1>4, <1>5, <1>6

LEMMA ReadFailsKeeps ==
  ASSUME DeviceInv, NEW r \in Request, ReadFails(r)
  PROVE  DeviceInv' /\ UNCHANGED storeVars
  <1>. DEFINE q == req[r]
  <1>1. UNCHANGED <<storeVars, jar, origin>>
    BY DEF ReadFails
  <1>2. ASSUME At(r, "lookup") \/ At(r, "user"), Goto(r, Caller(q, NoUser))
        PROVE  DeviceInv'
    <2>1. Caller(q, NoUser) \in Inflight /\ SoundIn(Caller(q, NoUser), rows, minted)
      BY <1>2, SlotCaller DEF At
    <2>. QED
      BY <1>1, <1>2, <2>1, PlainMoveKeeps DEF storeVars
  <1>3. ASSUME At(r, "kid"), Goto(r, Done(q))
        PROVE  DeviceInv'
    <2>1. /\ q \in Inflight /\ SoundIn(q, rows, minted) /\ q.step = "kid"
          /\ minted \in SUBSET Token
      BY <1>3, SlotSound DEF At, DeviceInv, StoreInv, TypeOK
    <2>2. Done(q) \in Inflight /\ SoundIn(Done(q), rows, minted)
      BY <2>1, DoneSound DEF SoundIn, Standing
    <2>. QED
      BY <1>1, <1>3, <2>2, PlainMoveKeeps DEF storeVars
  <1>. QED
    BY <1>1, <1>2, <1>3 DEF ReadFails

LEMMA KidByIDKeeps ==
  ASSUME DeviceInv, NEW r \in Request, KidByID(r)
  PROVE  DeviceInv' /\ UNCHANGED storeVars
  <1>. DEFINE q == req[r]
  <1>1. /\ q \in Inflight /\ SoundIn(q, rows, minted) /\ q.step = "kid"
        /\ minted \in SUBSET Token
    BY SlotSound DEF KidByID, At, DeviceInv, StoreInv, TypeOK
  <1>2. /\ q.op \in {"signInHere", "revoke"} /\ q.cookie \in minted
        /\ Carries(q, minted) /\ DeadStays(q, rows, minted) /\ Asks(q) /\ Quiet(q)
    BY <1>1 DEF SoundIn, Standing
  <1>3. UNCHANGED <<storeVars, jar, origin>>
    BY DEF KidByID
  <1>4. ASSUME Goto(r, Done(q))
        PROVE  DeviceInv'
    <2>1. Done(q) \in Inflight /\ SoundIn(Done(q), rows, minted)
      BY <1>1, <1>2, DoneSound
    <2>. QED
      BY <1>3, <1>4, <2>1, PlainMoveKeeps DEF storeVars
  <1>5. ASSUME NEW step \in {"destroy", "revoke"},
               step = "destroy" <=> q.op = "signInHere", Goto(r, Proceed(q, step))
        PROVE  DeviceInv'
    <2>1. \A s : SameRequest(s, q) /\ s.step = step => Standing(s, rows, minted)
      BY <1>2, <1>5 DEF SameRequest, Standing
    <2>2. step \in Steps \ {"reply"}
      BY DEF Steps
    <2>3. Proceed(q, step) \in Inflight /\ SoundIn(Proceed(q, step), rows, minted)
      BY <1>1, <1>2, <2>1, <2>2, ProceedSound
    <2>. QED
      BY <1>3, <1>5, <2>3, PlainMoveKeeps DEF storeVars
  <1>. DEFINE step == IF q.op = "signInHere" THEN "destroy" ELSE "revoke"
  <1>6. Goto(r, IF q.whom \notin users THEN Done(q) ELSE Proceed(q, step))
    BY DEF KidByID
  <1>7. step \in {"destroy", "revoke"} /\ (step = "destroy" <=> q.op = "signInHere")
    OBVIOUS
  <1>. QED
    BY <1>3, <1>4, <1>5, <1>6, <1>7

\* A row that is slid belongs to the caller; without a row nothing is written.
LEMMA SlideKeeps ==
  ASSUME DeviceInv, NEW r \in Request, Slide(r)
  PROVE  DeviceInv' /\ [StoreNext]_storeVars
  <1>. DEFINE q == req[r]
  <1>1. /\ q \in Inflight /\ SoundIn(q, rows, minted) /\ q.step = "touch"
        /\ UNCHANGED <<jar, origin>>
    BY SlotSound DEF Slide, At
  <1>2. /\ q.op \notin {"login", "logout"} /\ q.cookie \in minted /\ q.who \in User
        /\ HasRow(q.cookie) => rows[q.cookie].user = q.who
        /\ q.cookie \in Token
    BY <1>1 DEF SoundIn, Standing, HasRow, DeviceInv, StoreInv, TypeOK
  <1>3. PICK at \in q.since..now, o \in Outcomes :
          /\ IF o.done THEN Touch(q.cookie, Lifetime[q.who], at) ELSE UNCHANGED storeVars
          /\ Goto(r, Caller(Reissued(q, o.ok /\ Slides(q.cookie, at)), q.who))
    BY DEF Slide
  <1>. DEFINE slid == o.ok /\ Slides(q.cookie, at)
              p == Reissued(q, slid)
  <1>4. at \in Readings
    BY <1>1 DEF Readings, Inflight, DeviceInv, StoreInv, TypeOK
  <1>5. [StoreNext]_storeVars
    <2>1. CASE o.done /\ HasRow(q.cookie)
      <3>1. Touch(q.cookie, Lifetime[rows[q.cookie].user], at)
        BY <1>2, <1>3, <2>1
      <3>. QED
        BY <1>2, <1>4, <2>1, <3>1 DEF StoreNext
    <2>2. CASE o.done /\ ~HasRow(q.cookie)
      BY <1>3, <2>2 DEF Touch, Slides, Live, storeVars
    <2>3. CASE ~o.done
      BY <1>3, <2>3
    <2>. QED
      BY <2>1, <2>2, <2>3
  <1>6. slid \in BOOLEAN
    BY DEF Outcomes, Slides
  <1>7. /\ p \in Inflight /\ SameRequest(p, q) /\ SameBody(p, q)
        /\ p.who = q.who /\ p.reply = IF slid THEN q.cookie ELSE q.reply
    BY <1>1, <1>6, ReissuedFields
  <1>8. Goto(r, Caller(p, q.who))
    BY <1>3
  <1>. HIDE DEF p, slid
  <1>9. Outlives(rows', minted') /\ minted \in SUBSET Token /\ minted' \in SUBSET Token
    BY <1>5, StoreOutlives, StoreInvNext DEF DeviceInv, StoreInv, TypeOK
  <1>10. SoundIn(q, rows', minted')
    BY <1>1, <1>9, SoundOutlives
  <1>11. q.cookie # NoToken /\ ~q.stale /\ q.cookie \in minted'
    BY <1>1, <1>2, <1>9, DeviceAssumption DEF SoundIn, DeadStays, Outlives
  <1>12. /\ Carries(p, minted') /\ DeadStays(p, rows', minted') /\ Asks(p) /\ Quiet(p)
         /\ p.op \notin {"login", "logout"} /\ p.cookie \in minted' /\ ~p.stale
    BY <1>1, <1>2, <1>7, <1>10, <1>11
       DEF SoundIn, Carries, DeadStays, Asks, Quiet, SameRequest, SameBody
  <1>13. Caller(p, q.who) \in Inflight /\ SoundIn(Caller(p, q.who), rows', minted')
    BY <1>2, <1>7, <1>9, <1>12, CallerSound
  <1>. QED
    BY <1>1, <1>5, <1>8, <1>13, PlainMoveKeeps

\* Only a DELETE that took effect is taken for success.
LEMMA EndSessionKeeps ==
  ASSUME DeviceInv, NEW r \in Request, EndSession(r)
  PROVE  DeviceInv' /\ [StoreNext]_storeVars
  <1>. DEFINE q == req[r]
  <1>1. /\ q \in Inflight /\ SoundIn(q, rows, minted) /\ q.step = "destroy"
        /\ UNCHANGED <<jar, origin>>
    BY SlotSound DEF EndSession, At
  <1>2. q.cookie \in minted /\ q.cookie \in Token
    BY <1>1 DEF SoundIn, Standing, DeviceInv, StoreInv, TypeOK
  <1>3. PICK o \in Outcomes :
          /\ IF o.done THEN Destroy(q.cookie) ELSE UNCHANGED storeVars
          /\ Goto(r, AfterDestroy(Failing(q, ~o.ok), o.ok))
    BY DEF EndSession
  <1>4. [StoreNext]_storeVars
    BY <1>2, <1>3 DEF StoreNext
  <1>5. o.ok \in BOOLEAN /\ (o.ok => o.done)
    BY DEF Outcomes
  <1>6. o.ok => rows'[q.cookie] = NoRow
    BY <1>2, <1>3, <1>5 DEF Destroy, Without
  <1>7. Outlives(rows', minted') /\ minted \in SUBSET Token /\ minted' \in SUBSET Token
    BY <1>4, StoreOutlives, StoreInvNext DEF DeviceInv, StoreInv, TypeOK
  <1>8. SoundIn(q, rows', minted')
    BY <1>1, <1>7, SoundOutlives
  <1>. DEFINE p == AfterDestroy(Failing(q, ~o.ok), o.ok)
  <1>9. p \in Inflight /\ SoundIn(p, rows', minted')
    BY <1>1, <1>5, <1>6, <1>7, <1>8, AfterDestroySound
  <1>10. Goto(r, p)
    BY <1>3
  <1>. HIDE DEF p
  <1>. QED
    BY <1>1, <1>4, <1>9, <1>10, PlainMoveKeeps

\* A hand-over creates the kid's session only over an ended one.
LEMMA StartSessionKeeps ==
  ASSUME DeviceInv, NEW r \in Request, StartSession(r)
  PROVE  DeviceInv' /\ [StoreNext]_storeVars
  <1>. DEFINE q == req[r]
  <1>1. /\ q \in Inflight /\ SoundIn(q, rows, minted) /\ q.step = "create"
        /\ UNCHANGED jar
    BY SlotSound DEF StartSession, At
  <1>2. /\ q.op \in Minting /\ q.fresh \in Token /\ q.fresh # q.cookie
        /\ q.whom \in User
        /\ q.op = "signInHere" => q.cookie \in minted /\ ~HasRow(q.cookie)
    BY <1>1 DEF SoundIn, Carries, Standing, Asks, Minting, AdminOps, User, HasRow
  <1>3. ASSUME NEW ok \in BOOLEAN, Goto(r, AfterCreate(q, ok)),
               UNCHANGED <<storeVars, origin>>, ~ok
        PROVE  DeviceInv' /\ [StoreNext]_storeVars
    <2>1. minted \in SUBSET Token
      BY DEF DeviceInv, StoreInv, TypeOK
    <2>2. AfterCreate(q, ok) \in Inflight /\ SoundIn(AfterCreate(q, ok), rows, minted)
      BY <1>1, <1>3, <2>1, AfterCreateSound
    <2>. QED
      BY <1>1, <1>3, <2>2, PlainMoveKeeps DEF storeVars
  <1>4. ASSUME NEW at \in q.since..now, NEW ok \in BOOLEAN,
               Create(q.fresh, q.whom, Lifetime[q.whom], at),
               origin' = IF q.op = "signInHere"
                         THEN [origin EXCEPT ![q.fresh] = q.cookie] ELSE origin,
               Goto(r, AfterCreate(q, ok))
        PROVE  DeviceInv' /\ [StoreNext]_storeVars
    <2>1. at \in Readings
      BY <1>1 DEF Readings, Inflight, DeviceInv, StoreInv, TypeOK
    <2>2. [StoreNext]_storeVars
      BY <1>2, <1>4, <2>1 DEF StoreNext
    <2>3. Outlives(rows', minted') /\ minted \in SUBSET Token /\ minted' \in SUBSET Token
      BY <2>2, StoreOutlives, StoreInvNext DEF DeviceInv, StoreInv, TypeOK
    <2>4. SoundIn(q, rows', minted')
      BY <1>1, <2>3, SoundOutlives
    <2>5. q.fresh \in minted'
      BY <1>4 DEF Create
    <2>. DEFINE p == AfterCreate(q, ok)
    <2>6. p \in Inflight /\ SoundIn(p, rows', minted')
      BY <1>1, <2>3, <2>4, <2>5, AfterCreateSound
    <2>7. Goto(r, p)
      BY <1>4
    <2>. HIDE DEF p
    <2>8. /\ origin \in [Token -> Cookie]
          /\ \A t \in Token : origin[t] # NoToken =>
               origin[t] \in minted' /\ rows'[origin[t]] = NoRow
      BY <2>2, OriginKept
    <2>9. q.op = "signInHere" =>
            q.cookie \in minted' /\ rows'[q.cookie] = NoRow /\ q.cookie \in Cookie
      BY <1>1, <1>2, <2>3 DEF Outlives, HasRow, Inflight
    <2>10. /\ origin' \in [Token -> Cookie]
           /\ \A t \in Token : origin'[t] # NoToken =>
                origin'[t] \in minted' /\ rows'[origin'[t]] = NoRow
      BY <1>2, <1>4, <2>8, <2>9
    <2>. QED
      BY <1>1, <2>2, <2>6, <2>7, <2>10, MoveKeeps
  <1>5. CASE q.whom \notin users
    BY <1>3, <1>5 DEF StartSession
  <1>6. CASE q.whom \in users
    <2>1. PICK at \in q.since..now, o \in Outcomes :
            /\ IF o.done
               THEN /\ Create(q.fresh, q.whom, Lifetime[q.whom], at)
                    /\ origin' = IF q.op = "signInHere"
                                 THEN [origin EXCEPT ![q.fresh] = q.cookie]
                                 ELSE origin
               ELSE UNCHANGED <<storeVars, origin>>
            /\ Goto(r, AfterCreate(q, o.ok))
      BY <1>6 DEF StartSession
    <2>2. o.ok \in BOOLEAN /\ (o.ok => o.done)
      BY DEF Outcomes
    <2>3. CASE o.done
      BY <1>4, <2>1, <2>2, <2>3
    <2>4. CASE ~o.done
      BY <1>3, <2>1, <2>2, <2>4
    <2>. QED
      BY <2>3, <2>4
  <1>. QED
    BY <1>5, <1>6

\* The two admin statements are answered whatever became of them.
LEMMA AdminStepKeeps ==
  ASSUME DeviceInv, NEW r \in Request, RevokeKidSession(r) \/ DeleteKidAccount(r)
  PROVE  DeviceInv' /\ [StoreNext]_storeVars
  <1>. DEFINE q == req[r]
  <1>1. /\ q \in Inflight /\ SoundIn(q, rows, minted)
        /\ q.step \in {"revoke", "deleteKid"}
        /\ UNCHANGED <<jar, origin>> /\ Goto(r, Done(q))
    BY SlotSound DEF RevokeKidSession, DeleteKidAccount, At
  <1>2. q.op # "logout" /\ Asks(q)
    BY <1>1 DEF SoundIn, Standing
  <1>3. [StoreNext]_storeVars
    <2>1. CASE RevokeKidSession(r)
      <3>1. q.whom \in User /\ q.handle \in Token
        BY <1>1, <2>1, SlotSound
           DEF RevokeKidSession, At, SoundIn, Standing, Asks, AdminOps, User
      <3>. QED
        BY <2>1, <3>1 DEF RevokeKidSession, StoreNext
    <2>2. CASE DeleteKidAccount(r)
      <3>1. q.whom \in Kid
        BY <1>1, <2>2, SlotSound
           DEF DeleteKidAccount, At, SoundIn, Standing, Asks, AdminOps
      <3>. QED
        BY <2>2, <3>1 DEF DeleteKidAccount, StoreNext
    <2>. QED
      BY <2>1, <2>2
  <1>4. Outlives(rows', minted') /\ minted \in SUBSET Token /\ minted' \in SUBSET Token
    BY <1>3, StoreOutlives, StoreInvNext DEF DeviceInv, StoreInv, TypeOK
  <1>5. SoundIn(q, rows', minted')
    BY <1>1, <1>4, SoundOutlives
  <1>6. Done(q) \in Inflight /\ SoundIn(Done(q), rows', minted')
    BY <1>1, <1>2, <1>4, <1>5, DoneSound DEF SoundIn
  <1>. QED
    BY <1>1, <1>3, <1>6, PlainMoveKeeps

\* A step that only empties slots and delivers an answer.
LEMMA SlotsEmptied ==
  ASSUME DeviceInv, [StoreNext]_storeVars, UNCHANGED origin,
         req' \in [Request -> Inflight \cup {NoRequest}],
         \A r \in Request : req'[r] \in {req[r], NoRequest},
         jar' \in [Device -> Cookie],
         \A d \in Device : jar'[d] \in minted \cup {NoToken}
  PROVE  DeviceInv'
  <1>1. StoreInv'
    BY StoreInvNext DEF DeviceInv
  <1>2. Outlives(rows', minted') /\ minted \in SUBSET Token /\ minted' \in SUBSET Token
    BY <1>1, StoreOutlives DEF DeviceInv, StoreInv, TypeOK
  <1>3. ASSUME NEW r \in Request, Active(r)'
        PROVE  SoundIn(req'[r], rows', minted')
    <2>1. req[r] \in Inflight /\ SoundIn(req[r], rows, minted) /\ req'[r] = req[r]
      BY <1>3, SlotSound DEF Active
    <2>. QED
      BY <1>2, <2>1, SoundOutlives
  <1>4. \A d \in Device : jar'[d] \in minted' \cup {NoToken}
    BY <1>2 DEF Outlives
  <1>. QED
    BY <1>1, <1>3, <1>4, OriginKept DEF DeviceInv, HasRow

\* The browser's own steps and the process's end.
LEMMA DeliverKeeps ==
  ASSUME DeviceInv, NEW r \in Request, Deliver(r)
  PROVE  DeviceInv' /\ UNCHANGED storeVars
  <1>. DEFINE q == req[r]
  <1>1. q \in Inflight /\ SoundIn(q, rows, minted) /\ q.step = "reply"
    BY SlotSound DEF Deliver, At
  <1>2. q.reply \in minted \cup {NoToken, Keep} /\ minted \in SUBSET Token
    BY <1>1 DEF SoundIn, Answered, DeviceInv, StoreInv, TypeOK
  <1>3. /\ req' \in [Request -> Inflight \cup {NoRequest}]
        /\ \A s \in Request : req'[s] \in {req[s], NoRequest}
    BY DEF Deliver, DeviceInv
  <1>4. jar' = IF q.reply = Keep THEN jar ELSE [jar EXCEPT ![q.dev] = q.reply]
    BY DEF Deliver
  <1>5. /\ jar' \in [Device -> Cookie]
        /\ \A d \in Device : jar'[d] \in minted \cup {NoToken}
    <2>1. jar \in [Device -> Cookie] /\ \A d \in Device : jar[d] \in minted \cup {NoToken}
      BY DEF DeviceInv
    <2>2. CASE q.reply = Keep
      BY <1>4, <2>1, <2>2
    <2>3. CASE q.reply # Keep
      BY <1>2, <1>4, <2>1, <2>3 DEF Cookie
    <2>. QED
      BY <2>2, <2>3
  <1>6. UNCHANGED <<storeVars, origin>>
    BY DEF Deliver
  <1>. QED
    BY <1>3, <1>5, <1>6, SlotsEmptied DEF storeVars

LEMMA LoseKeeps ==
  ASSUME DeviceInv, NEW r \in Request, Lose(r)
  PROVE  DeviceInv' /\ UNCHANGED storeVars
  <1>1. /\ req' \in [Request -> Inflight \cup {NoRequest}]
        /\ \A s \in Request : req'[s] \in {req[s], NoRequest}
        /\ UNCHANGED <<storeVars, jar, origin>>
    BY DEF Lose, DeviceInv
  <1>2. /\ jar' \in [Device -> Cookie]
        /\ \A d \in Device : jar'[d] \in minted \cup {NoToken}
    BY <1>1 DEF DeviceInv
  <1>. QED
    BY <1>1, <1>2, SlotsEmptied DEF storeVars

LEMMA CrashKeeps ==
  ASSUME DeviceInv, Crash
  PROVE  DeviceInv' /\ UNCHANGED storeVars
  <1>1. /\ req' \in [Request -> Inflight \cup {NoRequest}]
        /\ \A s \in Request : req'[s] \in {req[s], NoRequest}
        /\ UNCHANGED <<storeVars, jar, origin>>
    BY DEF Crash, DeviceInv
  <1>2. /\ jar' \in [Device -> Cookie]
        /\ \A d \in Device : jar'[d] \in minted \cup {NoToken}
    BY <1>1 DEF DeviceInv
  <1>. QED
    BY <1>1, <1>2, SlotsEmptied DEF storeVars

\* The clock and the sweep leave every request where it is.
LEMMA BackgroundKeeps ==
  ASSUME DeviceInv, [StoreNext]_storeVars, UNCHANGED <<req, jar, origin>>
  PROVE  DeviceInv'
  BY SlotsEmptied DEF DeviceInv

-----------------------------------------------------------------------------
LEMMA DeviceInvInit == DeviceInit => DeviceInv
  BY StoreInvInit DEF DeviceInit, DeviceInv, Cookie, Active

\* Every step keeps the invariant and is a statement of the table, or none.
LEMMA DeviceStep ==
  ASSUME DeviceInv, [DeviceNext]_deviceVars
  PROVE  DeviceInv' /\ [StoreNext]_storeVars
  <1>1. CASE ClockTick
    BY <1>1, BackgroundKeeps DEF ClockTick, StoreNext
  <1>2. ASSUME NEW at \in Readings, Sweep(at)
        PROVE  DeviceInv' /\ [StoreNext]_storeVars
    BY <1>2, BackgroundKeeps DEF Sweep, StoreNext
  <1>3. CASE Crash
    BY <1>3, CrashKeeps
  <1>4. ASSUME NEW r \in Request, NEW d \in Device, NEW op \in Ops, Send(r, d, op)
        PROVE  DeviceInv' /\ [StoreNext]_storeVars
    BY <1>4, SendKeeps
  <1>5. ASSUME NEW r \in Request, HandlerStep(r)
        PROVE  DeviceInv' /\ [StoreNext]_storeVars
    BY <1>5, LookupKeeps, UserByIDKeeps, SlideKeeps, ReadFailsKeeps, KidByIDKeeps,
       EndSessionKeeps, StartSessionKeeps, AdminStepKeeps DEF HandlerStep
  <1>6. ASSUME NEW r \in Request, Deliver(r)
        PROVE  DeviceInv' /\ [StoreNext]_storeVars
    BY <1>6, DeliverKeeps
  <1>7. ASSUME NEW r \in Request, Lose(r)
        PROVE  DeviceInv' /\ [StoreNext]_storeVars
    BY <1>7, LoseKeeps
  <1>8. CASE UNCHANGED deviceVars
    <2>1. UNCHANGED storeVars /\ UNCHANGED <<req, jar, origin>>
      BY <1>8 DEF deviceVars
    <2>. QED
      BY <2>1, BackgroundKeeps
  <1>. QED
    BY <1>1, <1>2, <1>3, <1>4, <1>5, <1>6, <1>7, <1>8 DEF DeviceNext

THEOREM DeviceInvariant == DeviceSpec => []DeviceInv
  <1>1. DeviceInv /\ [DeviceNext]_deviceVars => DeviceInv'
    BY DeviceStep
  <1>. QED
    BY <1>1, DeviceInvInit, PTL DEF DeviceSpec

\* Every variable stays in its type.
THEOREM DeviceAlwaysTyped == DeviceSpec => []DeviceTypeOK
  <1>1. DeviceInv => DeviceTypeOK
    BY DEF DeviceInv, StoreInv, DeviceTypeOK
  <1>. QED
    BY <1>1, DeviceInvariant, PTL

\* Once a device was handed over, the admin session it was handed over from
\* is over for good.
THEOREM HandOverAlwaysEnds == DeviceSpec => []HandOverEndsAdminSession
  <1>1. DeviceInv => HandOverEndsAdminSession
    BY DEF DeviceInv, HandOverEndsAdminSession
  <1>. QED
    BY <1>1, DeviceInvariant, PTL

\* A request with a dead cookie is never anybody's and never revives it.
THEOREM DeadCookieAlwaysNobody == DeviceSpec => []DeadCookieIsNobody
  <1>1. DeviceInv => DeadCookieIsNobody
    BY DEF DeviceInv, DeadCookieIsNobody, SoundIn, DeadStays
  <1>. QED
    BY <1>1, DeviceInvariant, PTL

\* What a logout, a login or a hand-over carried is over when it is answered.
THEOREM CarriedSessionAlwaysEnded == DeviceSpec => []CarriedSessionEnded
  <1>1. DeviceInv => CarriedSessionEnded
    BY DEF DeviceInv, CarriedSessionEnded, SoundIn, Answered, At, HasRow
  <1>. QED
    BY <1>1, DeviceInvariant, PTL

\* The handlers use the table by its statements alone.
THEOREM DevicesImplementStore == DeviceSpec => ImplementsStore
  <1>1. DeviceInv /\ [DeviceNext]_deviceVars => [StoreNext]_storeVars
    BY DeviceStep
  <1>2. DeviceInit => StoreInit
    BY DEF DeviceInit
  <1>. QED
    BY <1>1, <1>2, DeviceInvariant, PTL DEF DeviceSpec, ImplementsStore, StoreSpec

\* What is proved of the table holds under the handlers: a session that ended
\* stays ended, slides are throttled, and tokens follow their life cycle.
THEOREM HandlersKeepTheTable ==
  DeviceSpec => [](OwnerExists /\ ExpiryFollowsRole) /\ EndedIsFinal
                  /\ SlidesAreThrottled /\ ImplementsLifecycle
  BY DevicesImplementStore, OwnerAlwaysExists, ExpiryAlwaysFollowsRole,
     EndedStaysEnded, SlidesAlwaysThrottled, StoreImplementsLifecycle, PTL
     DEF ImplementsStore
=============================================================================
