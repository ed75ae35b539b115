--------------------------- MODULE DeviceSessions ---------------------------
(***************************************************************************)
(* Signing in and out over HTTP (internal/api: auth.go, cookie.go,         *)
(* kids.go, admin_accounts.go) on top of the sessions table.  Browsers     *)
(* send requests with the cookie in their jar; handlers run concurrently,  *)
(* one SQL statement per step; responses arrive in any order, or never;    *)
(* a statement may fail and the process may die between two of them.       *)
(***************************************************************************)
EXTENDS SessionStore

CONSTANTS
  Admin,                     \* the adults whose role is admin
  Device, Request,           \* browsers; slots for requests in flight
  NoUser, NoToken, NoRequest,
  Keep,                      \* a response without Set-Cookie
  Ops,                       \* the routes a run exercises
  Faults                     \* may statements fail and the process die?

ASSUME DeviceAssumption ==
  /\ Admin \subseteq Adult
  /\ NoUser \notin User
  /\ NoToken \notin Token
  /\ Keep \notin Token \cup {NoToken}
  /\ Ops \subseteq {"read", "login", "logout", "signInHere", "revoke", "deleteKid"}
  /\ Faults \in BOOLEAN

VARIABLES
  req,      \* req[r]: the request in slot r and how far its handler is
  jar,      \* jar[d]: the session cookie browser d holds, or NoToken
  origin    \* history: the admin token a kid session was handed over from

deviceVars == <<storeVars, req, jar, origin>>

AdminOps == {"signInHere", "revoke", "deleteKid"}
Minting == {"login", "signInHere"}
Steps == {"lookup", "user", "touch", "kid", "destroy", "create",
          "revoke", "deleteKid", "reply"}

Cookie == Token \cup {NoToken}

Inflight ==
  [op : Ops, dev : Device, cookie : Cookie, whom : User \cup {NoUser},
   handle : Cookie, fresh : Cookie, step : Steps, gate : {1, 2},
   who : User \cup {NoUser}, due : BOOLEAN, since : Nat,
   reply : Cookie \cup {Keep}, stale : BOOLEAN, failed : BOOLEAN]

ASSUME NoRequestAssumption == NoRequest \notin Inflight

Active(r) == req[r] # NoRequest
At(r, step) == Active(r) /\ req[r].step = step

DeviceInit ==
  /\ StoreInit
  /\ req = [r \in Request |-> NoRequest]
  /\ jar = [d \in Device |-> NoToken]
  /\ origin = [t \in Token |-> NoToken]

-----------------------------------------------------------------------------
(* What a handler does next: operators from a request to the request.      *)

Proceed(q, step) == [q EXCEPT !.step = step]

\* A slide that wrote the row sets the cookie again, with the new expiry.
Reissued(q, slid) == [q EXCEPT !.reply = IF slid THEN q.cookie ELSE @]

\* history: did the DELETE of the session the browser carried fail?
Failing(q, failed) == [q EXCEPT !.failed = failed]

\* Once it is answered, nothing the handler read or was told matters any more.
Answer(q, reply) ==
  [q EXCEPT !.step = "reply", !.reply = reply, !.gate = 1, !.due = FALSE,
            !.whom = NoUser, !.handle = NoToken]
Done(q) == Answer(q, q.reply)

\* The session's row was read.
Found(q, user, due) == [q EXCEPT !.step = "user", !.who = user, !.due = due]

Attributed(q, who) == [q EXCEPT !.who = who, !.due = FALSE]
SecondGate(q) == [q EXCEPT !.gate = 2, !.step = "lookup", !.who = NoUser]

\* The caller as currentUser reports it, to the handler that asked: GET
\* /api/me, requireNotKid (gate 1, lets a signed-out request through), or
\* requireAdmin (gate 2).
Caller(q, who) ==
  LET p == Attributed(q, who)
  IN  CASE q.op = "read" -> Done(p)
        [] q.op # "read" /\ q.gate = 1 ->
             IF who \in Kid THEN Done(p)
             ELSE SecondGate(p)
        [] q.op # "read" /\ q.gate = 2 ->
             IF who \notin Admin THEN Done(p)
             ELSE Proceed(p, IF q.op = "deleteKid" THEN "deleteKid" ELSE "kid")

\* Mutant of AfterDestroy: sign-in-here goes on as best effort, like login.
AfterDestroyBestEffort(q, ok) ==
  CASE q.op = "logout" -> Answer(q, NoToken)
    [] q.op = "login" -> Answer(q, q.fresh)
    [] q.op = "signInHere" -> Proceed(q, "create")

\* Destroy returned: logout clears the cookie whether it failed or not, login
\* ignores a failure, sign-in-here stops at one.
AfterDestroy(q, ok) ==
  CASE q.op = "logout" -> Answer(q, NoToken)
    [] q.op = "login" -> Answer(q, q.fresh)
    [] q.op = "signInHere" -> IF ok THEN Proceed(q, "create")
                              ELSE Done(q)

\* Mutant of AfterCreate: a login leaves the session it replaces to expire.
AfterCreateKeepsOld(q, ok) ==
  Answer(q, IF ok THEN q.fresh ELSE IF q.op = "login" THEN q.reply ELSE NoToken)

\* Create returned: login goes on to end the session the browser carried;
\* sign-in-here clears the cookie of a device it has already signed out.
AfterCreate(q, ok) ==
  CASE q.op = "login" /\ ok /\ q.cookie # NoToken -> Proceed(q, "destroy")
    [] q.op = "login" /\ ok /\ q.cookie = NoToken -> Answer(q, q.fresh)
    [] q.op = "login" /\ ~ok -> Done(q)
    [] q.op = "signInHere" -> Answer(q, IF ok THEN q.fresh ELSE NoToken)

FirstStep(q) ==
  CASE q.op = "login" -> Proceed(q, "create")
    [] q.op = "logout" -> IF q.cookie = NoToken THEN Answer(q, NoToken)
                          ELSE Proceed(q, "destroy")
    [] q.op \notin {"login", "logout"} -> Proceed(q, "lookup")

\* The statements that carry a clock reading, taken since the one before.
Clocked == {"lookup", "touch", "create"}

Stamped(q) == [q EXCEPT !.since = IF q.step \in Clocked THEN now ELSE 0]

Goto(r, q) == req' = [req EXCEPT ![r] = Stamped(q)]

\* A statement takes effect and succeeds; or fails, with the effect lost or
\* with only its acknowledgement lost.
Outcomes == {o \in [done : BOOLEAN, ok : BOOLEAN] :
               IF o.ok THEN o.done ELSE Faults}

-----------------------------------------------------------------------------
(* The browser                                                             *)

Unreserved(t) == t \notin minted /\ \A s \in Request : Active(s) => req[s].fresh # t

\* A request as it arrives, with what its URL, its body and the jar say.
Sent(d, op, whom, handle, fresh) ==
  [op |-> op, dev |-> d, cookie |-> jar[d], whom |-> whom, handle |-> handle,
   fresh |-> fresh, step |-> "lookup", gate |-> 1, who |-> NoUser, due |-> FALSE,
   since |-> now, reply |-> Keep,
   stale |-> jar[d] \in Token /\ ~HasRow(jar[d]), failed |-> FALSE]

Send(r, d, op) ==
  /\ ~Active(r)
  /\ \E whom \in (IF op = "login" THEN Adult
                  ELSE IF op \in AdminOps THEN Kid ELSE {NoUser}),
        handle \in (IF op = "revoke" THEN minted ELSE {NoToken}),
        fresh \in (IF op \in Minting THEN {t \in Token : Unreserved(t)}
                   ELSE {NoToken}) :
       Goto(r, FirstStep(Sent(d, op, whom, handle, fresh)))
  /\ UNCHANGED <<storeVars, jar, origin>>

\* A response arrives and the jar obeys its last Set-Cookie.
Deliver(r) ==
  /\ At(r, "reply")
  /\ jar' = IF req[r].reply = Keep THEN jar
            ELSE [jar EXCEPT ![req[r].dev] = req[r].reply]
  /\ req' = [req EXCEPT ![r] = NoRequest]
  /\ UNCHANGED <<storeVars, origin>>

Lose(r) ==
  /\ At(r, "reply")
  /\ req' = [req EXCEPT ![r] = NoRequest]
  /\ UNCHANGED <<storeVars, jar, origin>>

-----------------------------------------------------------------------------
(* currentUser, one statement at a time                                    *)

Lookup(r) ==
  /\ At(r, "lookup")
  /\ \E at \in req[r].since..now :
       LET q == req[r]
       IN  IF q.cookie \in Token /\ Live(q.cookie, at)
           THEN Goto(r, Found(q, rows[q.cookie].user, TouchDue(q.cookie, at)))
           ELSE Goto(r, Caller(q, NoUser))
  /\ UNCHANGED <<storeVars, jar, origin>>

UserByID(r) ==
  /\ At(r, "user")
  /\ LET q == req[r]
     IN  Goto(r, IF q.who \notin users THEN Caller(q, NoUser)
                 ELSE IF q.due THEN Proceed(q, "touch")
                 ELSE Caller(q, q.who))
  /\ UNCHANGED <<storeVars, jar, origin>>

\* Mutant of Slide: INSERT ... ON CONFLICT DO UPDATE instead of UPDATE.
SlideUpserts(r) ==
  /\ At(r, "touch")
  /\ \E at \in req[r].since..now :
       LET q == req[r]
       IN  /\ rows' = [rows EXCEPT ![q.cookie] =
                         [user |-> q.who, created |-> at, lastSeen |-> at,
                          expires |-> at + Lifetime[q.who]]]
           /\ Goto(r, Caller(Reissued(q, TRUE), q.who))
  /\ UNCHANGED <<now, users, minted, jar, origin>>

\* A failed or lost slide does not fail the request.
Slide(r) ==
  /\ At(r, "touch")
  /\ \E at \in req[r].since..now, o \in Outcomes :
       LET q == req[r]
           slid == o.ok /\ Slides(q.cookie, at)
       IN  /\ IF o.done THEN Touch(q.cookie, Lifetime[q.who], at)
              ELSE UNCHANGED storeVars
           /\ Goto(r, Caller(Reissued(q, slid), q.who))
  /\ UNCHANGED <<jar, origin>>

ReadFails(r) ==
  /\ Faults
  /\ \/ (At(r, "lookup") \/ At(r, "user")) /\ Goto(r, Caller(req[r], NoUser))
     \/ At(r, "kid") /\ Goto(r, Done(req[r]))
  /\ UNCHANGED <<storeVars, jar, origin>>

-----------------------------------------------------------------------------
(* The handlers' own statements                                            *)

KidByID(r) ==
  /\ At(r, "kid")
  /\ LET q == req[r]
     IN  Goto(r, IF q.whom \notin users THEN Done(q)
                 ELSE Proceed(q, IF q.op = "signInHere" THEN "destroy" ELSE "revoke"))
  /\ UNCHANGED <<storeVars, jar, origin>>

EndSession(r) ==
  /\ At(r, "destroy")
  /\ \E o \in Outcomes :
       /\ IF o.done THEN Destroy(req[r].cookie) ELSE UNCHANGED storeVars
       /\ Goto(r, AfterDestroy(Failing(req[r], ~o.ok), o.ok))
  /\ UNCHANGED <<jar, origin>>

StartSession(r) ==
  /\ At(r, "create")
  /\ LET q == req[r]
     IN  \/ \E at \in q.since..now, o \in Outcomes :
              /\ q.whom \in users
              /\ IF o.done
                 THEN /\ Create(q.fresh, q.whom, Lifetime[q.whom], at)
                      /\ origin' = IF q.op = "signInHere"
                                   THEN [origin EXCEPT ![q.fresh] = q.cookie]
                                   ELSE origin
                 ELSE UNCHANGED <<storeVars, origin>>
              /\ Goto(r, AfterCreate(q, o.ok))
         \/ /\ q.whom \notin users          \* the foreign key refuses it
            /\ Goto(r, AfterCreate(q, FALSE))
            /\ UNCHANGED <<storeVars, origin>>
  /\ UNCHANGED jar

RevokeKidSession(r) ==
  /\ At(r, "revoke")
  /\ \E o \in Outcomes :
       IF o.done THEN RevokeByHandle(req[r].whom, req[r].handle)
       ELSE UNCHANGED storeVars
  /\ Goto(r, Done(req[r]))
  /\ UNCHANGED <<jar, origin>>

DeleteKidAccount(r) ==
  /\ At(r, "deleteKid")
  /\ \E o \in Outcomes :
       IF o.done THEN DeleteKid(req[r].whom) ELSE UNCHANGED storeVars
  /\ Goto(r, Done(req[r]))
  /\ UNCHANGED <<jar, origin>>

-----------------------------------------------------------------------------
(* The background and the environment                                      *)

Sweep(at) == DeleteExpired(at) /\ UNCHANGED <<req, jar, origin>>

\* Deploy, kill or shutdown (main does not wait for running handlers): every
\* handler stops where it is; rows and responses already sent survive.
Crash ==
  /\ Faults
  /\ req' = [r \in Request |-> IF At(r, "reply") THEN req[r] ELSE NoRequest]
  /\ req' # req
  /\ UNCHANGED <<storeVars, jar, origin>>

ClockTick == Tick /\ UNCHANGED <<req, jar, origin>>

HandlerStep(r) ==
  \/ Lookup(r) \/ UserByID(r) \/ Slide(r) \/ ReadFails(r) \/ KidByID(r)
  \/ EndSession(r) \/ StartSession(r) \/ RevokeKidSession(r)
  \/ DeleteKidAccount(r)

DeviceNext ==
  \/ ClockTick
  \/ \E at \in Readings : Sweep(at)
  \/ Crash
  \/ \E r \in Request :
       \/ \E d \in Device, op \in Ops : Send(r, d, op)
       \/ HandlerStep(r)
       \/ Deliver(r)
       \/ Lose(r)

DeviceSpec == DeviceInit /\ [][DeviceNext]_deviceVars

-----------------------------------------------------------------------------
\* Every variable stays in its type.
DeviceTypeOK ==
  /\ TypeOK
  /\ req \in [Request -> Inflight \cup {NoRequest}]
  /\ jar \in [Device -> Cookie]
  /\ origin \in [Token -> Cookie]

\* handleSignInHere: once a kid session has been handed over from an admin
\* session, that admin session is over for good -- whatever slides, logins
\* and failed statements run alongside.
HandOverEndsAdminSession ==
  \A t \in Token : origin[t] # NoToken => ~HasRow(origin[t])

\* A request sent with a cookie whose session was already destroyed, revoked,
\* swept or cascaded away is never attributed to anybody, and never gets that
\* cookie re-issued.
DeadCookieIsNobody ==
  \A r \in Request : Active(r) /\ req[r].stale =>
    /\ req[r].who = NoUser
    /\ req[r].reply # req[r].cookie

\* Once a logout, a login or a hand-over whose DELETE did not fail is answered,
\* the session the browser carried into it is over, though requests sent
\* before may still be sliding it.
CarriedSessionEnded ==
  \A r \in Request :
    At(r, "reply") /\ ~req[r].failed /\ req[r].cookie \in Token
      /\ (req[r].op = "logout" \/ req[r].reply = req[r].fresh)
      => ~HasRow(req[r].cookie)

\* Every handler step is one statement of the store, or none.
ImplementsStore == StoreSpec
=============================================================================
