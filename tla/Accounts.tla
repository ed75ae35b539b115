------------------------------ MODULE Accounts ------------------------------
(***************************************************************************)
(* Where adult accounts come from: POST /api/auth/register (auth.go) and   *)
(* the OIDC login (oidc.go, internal/oidc's Pending), both writing the     *)
(* users table (storage.go).  Handlers run concurrently, one statement per *)
(* step.  The identity provider is external: it authenticates somebody for *)
(* a login and calls back any number of times, or never.  Signing in after *)
(* the account is known is module DeviceSessions.                          *)
(***************************************************************************)
EXTENDS Integers

CONSTANTS
  Email, Request,
  State,        \* the OIDC login states a run can mint
  IdpAdmins,    \* the identities in OIDC_ADMIN_GROUP
  Modes,        \* values of "registration is open" a run starts with
  Ttl,          \* oidcPendingTTL
  MaxTime,      \* bound on the clock
  None

ASSUME AccountsAssumption ==
  /\ IdpAdmins \subseteq Email
  /\ Modes \subseteq BOOLEAN /\ Modes # {}
  /\ Ttl \in Nat /\ MaxTime \in Nat
  /\ None \notin Email

Role == {"admin", "user"}
Account == [role : Role, via : {"register", "oidc"},
            readAt : Nat,       \* history: when its handler had looked
            commit : Nat]       \* history: when the row became visible

ASSUME NoneAssumption == None \notin Account

VARIABLES
  clock, open,
  accounts,   \* accounts[e]: the row with email e, or None
  pending,    \* pending[s]: when login state s expires, or -1
  identity,   \* identity[s]: whom the provider authenticates for s; None: unused
  redeemed,   \* redeemed[s]: history, callbacks that got past Take
  req         \* req[r]: the request in slot r

accountsVars == <<clock, open, accounts, pending, identity, redeemed, req>>
oidcVars == <<pending, identity, redeemed>>

Phases == {"free", "count", "find", "insert", "reply"}

\* A slot with what is known of a request when it arrives, and an unused one.
Received(via, e, phase) ==
  [phase |-> phase, via |-> via, email |-> e, role |-> "user", readAt |-> 0, code |-> 0]
Free == Received("register", None, "free")

\* What a slot may hold; code: the HTTP status answered, 0 before that.
Code == {0, 201, 302, 400, 401, 403, 409, 500, 502}
Handling == [phase : Phases, via : {"register", "oidc"},
             email : Email \cup {None}, role : Role, readAt : Nat, code : Code]

At(r, phase) == req[r].phase = phase
Exists(e) == accounts[e] # None
NoAccounts == \A e \in Email : ~Exists(e)

Step(r, q) == req' = [req EXCEPT ![r] = q]

\* What becomes of it: about to insert, answered.
Inserting(q, role) == [q EXCEPT !.phase = "insert", !.readAt = clock, !.role = role]
Replied(q, code) == [q EXCEPT !.phase = "reply", !.code = code]

Reply(r, code) == Step(r, Replied(req[r], code))

AccountsInit ==
  /\ clock = 0
  /\ open \in Modes
  /\ accounts = [e \in Email |-> None]
  /\ pending = [s \in State |-> -1]
  /\ identity = [s \in State |-> None]
  /\ redeemed = [s \in State |-> 0]
  /\ req = [r \in Request |-> Free]

Tick ==
  /\ clock < MaxTime
  /\ clock' = clock + 1
  /\ UNCHANGED <<open, accounts, oidcVars, req>>

-----------------------------------------------------------------------------
(* POST /api/auth/register                                                 *)

Register(r, e) ==
  /\ At(r, "free")
  /\ Step(r, Received("register", e, "count"))
  /\ UNCHANGED <<clock, open, accounts, oidcVars>>

\* Mutant of Admitted: once bootstrapped, the mode is not looked at.
AdmittedAlways == TRUE

\* The first adult bootstraps; after that the mode decides.
Admitted == NoAccounts \/ open

\* CountUsers, the gate and the role; then bcrypt, which takes its time.
CountUsers(r) ==
  /\ At(r, "count")
  /\ IF Admitted
     THEN Step(r, Inserting(req[r], IF NoAccounts THEN "admin" ELSE "user"))
     ELSE Reply(r, 403)
  /\ UNCHANGED <<clock, open, accounts, oidcVars>>

-----------------------------------------------------------------------------
(* The OIDC login                                                          *)

\* handleOIDCLogin; the provider will authenticate e.
Login(s, e) ==
  /\ identity[s] = None
  /\ identity' = [identity EXCEPT ![s] = e]
  /\ pending' = [pending EXCEPT ![s] = clock + Ttl]
  /\ UNCHANGED <<clock, open, accounts, redeemed, req>>

\* Mutant of Take: the entry stays until it expires.
TakeKeeps(s) ==
  /\ UNCHANGED pending
  /\ redeemed' = IF pending[s] >= clock THEN [redeemed EXCEPT ![s] = @ + 1] ELSE redeemed

\* Under the mutex: look up, delete, and only then look at the expiry.
Take(s) ==
  /\ pending' = [pending EXCEPT ![s] = -1]
  /\ redeemed' = IF pending[s] >= clock THEN [redeemed EXCEPT ![s] = @ + 1] ELSE redeemed

\* A callback takes its state and is refused without one (400); the exchange,
\* the ID token or the email may still fail (401, 502).
Callback(r, s) ==
  /\ At(r, "free") /\ identity[s] # None
  /\ Take(s)
  /\ LET q == Received("oidc", identity[s], "find")
     IN  IF pending[s] < clock THEN Step(r, Replied(q, 400))
         ELSE Step(r, q) \/ \E code \in {401, 502} : Step(r, Replied(q, code))
  /\ UNCHANGED <<clock, open, accounts, identity>>

\* Mutant of OidcRole: the group goes into the role column.
OidcRoleIsGroup(e) == IF e \in IdpAdmins THEN "OIDC_ADMIN_GROUP" ELSE "user"

OidcRole(e) == IF e \in IdpAdmins THEN "admin" ELSE "user"

\* UserByEmail: an existing account is reused as it is.
FindByEmail(r) ==
  /\ At(r, "find")
  /\ IF Exists(req[r].email) THEN Reply(r, 302)
     ELSE Step(r, Inserting(req[r], OidcRole(req[r].email)))
  /\ UNCHANGED <<clock, open, accounts, oidcVars>>

-----------------------------------------------------------------------------
(* CreateUser: one INSERT; the email is unique.                            *)

Inserted(q) == [accounts EXCEPT ![q.email] =
                  [role |-> q.role, via |-> q.via,
                   readAt |-> q.readAt, commit |-> clock]]

\* Mutant of CreateUser: ON CONFLICT (email) DO UPDATE.
CreateUserUpserts(r) ==
  /\ At(r, "insert")
  /\ accounts' = Inserted(req[r])
  /\ Reply(r, IF req[r].via = "oidc" THEN 302 ELSE 201)
  /\ UNCHANGED <<clock, open, oidcVars>>

\* ErrEmailTaken is a 409 to register, and a 500 to the callback.
CreateUser(r) ==
  /\ At(r, "insert")
  /\ IF Exists(req[r].email)
     THEN /\ Reply(r, IF req[r].via = "oidc" THEN 500 ELSE 409)
          /\ UNCHANGED accounts
     ELSE /\ accounts' = Inserted(req[r])
          /\ Reply(r, IF req[r].via = "oidc" THEN 302 ELSE 201)
  /\ UNCHANGED <<clock, open, oidcVars>>

Answered(r) ==
  /\ At(r, "reply")
  /\ Step(r, Free)
  /\ UNCHANGED <<clock, open, accounts, oidcVars>>

\* Accounts persist; logins in mid-redirect and running handlers do not.
Restart ==
  /\ pending' = [s \in State |-> -1]
  /\ req' = [r \in Request |-> Free]
  /\ UNCHANGED <<clock, open, accounts, identity, redeemed>>

AccountsNext ==
  \/ Tick
  \/ Restart
  \/ \E s \in State, e \in Email : Login(s, e)
  \/ \E r \in Request :
       \/ \E e \in Email : Register(r, e)
       \/ \E s \in State : Callback(r, s)
       \/ CountUsers(r) \/ FindByEmail(r) \/ CreateUser(r)
       \/ Answered(r)

AccountsSpec == AccountsInit /\ [][AccountsNext]_accountsVars

-----------------------------------------------------------------------------
\* Every variable stays in its type.
AccountsTypeOK ==
  /\ clock \in 0..MaxTime
  /\ open \in BOOLEAN
  /\ accounts \in [Email -> Account \cup {None}]
  /\ pending \in [State -> {-1} \cup Nat]
  /\ identity \in [State -> Email \cup {None}]
  /\ redeemed \in [State -> Nat]
  /\ req \in [Request -> Handling]

\* The bootstrap is over when the first account is visible: a registration
\* that looks later makes no admin, and no account at all when registration is
\* closed -- only the ones racing the first can slip through.
BootstrapWindow ==
  \A e, f \in Email :
    Exists(e) /\ Exists(f) /\ accounts[e].via = "register"
      /\ (accounts[e].role = "admin" \/ ~open)
      => accounts[e].readAt <= accounts[f].commit

\* An account that exists is reused as it is: no registration or OIDC login,
\* however they race for the email, rewrites its role or its origin.
AccountsAreKept ==
  [][\A e \in Email : Exists(e) => accounts'[e] = accounts[e]]_accountsVars

\* A login state is good for one callback, however many arrive at once.
StateUsedOnce == \A s \in State : redeemed[s] <= 1

-----------------------------------------------------------------------------
\* auth.go says of register: "First registered user bootstraps as admin; after
\* that, self-registration is only allowed when registration is open".
OneBootstrap ==
  ~open => \A e, f \in Email :
    Exists(e) /\ Exists(f) /\ accounts[e].via = "register"
      /\ accounts[f].via = "register" => e = f
=============================================================================
