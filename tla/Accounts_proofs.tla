-------------------------- MODULE Accounts_proofs --------------------------
(***************************************************************************)
(* Registration and the OIDC login, for every set of emails, requests and  *)
(* login states and every time-to-live; and the provider's keys, for every *)
(* set of keys and of callbacks.                                           *)
(***************************************************************************)
EXTENDS Accounts, OidcKeys, TLAPS

\* A free slot, and one with a request that arrived.
LEMMA ReceivedSlot ==
  ASSUME NEW via \in {"register", "oidc"}, NEW e \in Email \cup {None},
         NEW phase \in Phases
  PROVE  /\ Received(via, e, phase) \in Handling
         /\ Received(via, e, phase).phase = phase
         /\ Received(via, e, phase).via = via
  BY DEF Received, Handling, Role, Code

LEMMA FreeSlot == Free \in Handling /\ Free.phase = "free"
  BY ReceivedSlot DEF Free, Phases

\* A slot whose request was answered.
LEMMA RepliedSlot ==
  ASSUME NEW q \in Handling, NEW c \in Code
  PROVE  Replied(q, c) \in Handling /\ Replied(q, c).phase = "reply"
  BY DEF Handling, Phases, Replied

\* A slot whose handler has looked at the table and is about to insert.
LEMMA InsertingSlot ==
  ASSUME NEW q \in Handling, NEW role \in Role, clock \in Nat
  PROVE  LET p == Inserting(q, role)
         IN  /\ p \in Handling
             /\ p.phase = "insert" /\ p.readAt = clock /\ p.role = role
             /\ p.via = q.via /\ p.email = q.email
  BY DEF Handling, Phases, Inserting

\* One slot moves.
LEMMA SlotMoves ==
  ASSUME AccountsTypeOK, NEW r \in Request, NEW q \in Handling, Step(r, q)
  PROVE  /\ req' \in [Request -> Handling]
         /\ req'[r] = q
         /\ \A p \in Request : p # r => req'[p] = req[p]
  BY DEF AccountsTypeOK, Step

\* A step of the handler in slot r, as what it leaves in the slot.
LEMMA HandlerSlots ==
  ASSUME AccountsTypeOK, NEW r \in Request
  PROVE  /\ \A e \in Email : Register(r, e) =>
              \E q \in Handling : Step(r, q) /\ q.phase = "count"
         /\ \A s \in State : Callback(r, s) =>
              \E q \in Handling :
                /\ Step(r, q)
                /\ \/ q.phase = "reply"
                   \/ q.phase = "find" /\ q.via = "oidc"
         /\ CountUsers(r) =>
              \E q \in Handling :
                /\ Step(r, q)
                /\ \/ q.phase = "reply"
                   \/ /\ q.phase = "insert" /\ q.readAt = clock
                      /\ q.role = "admin" \/ ~open => NoAccounts
         /\ FindByEmail(r) =>
              \E q \in Handling :
                /\ Step(r, q)
                /\ \/ q.phase = "reply"
                   \/ q.phase = "insert" /\ q.readAt = clock /\ q.via = req[r].via
         /\ CreateUser(r) =>
              \E q \in Handling : Step(r, q) /\ q.phase = "reply"
         /\ Answered(r) =>
              \E q \in Handling : Step(r, q) /\ q.phase = "free"
  <1>. /\ req[r] \in Handling /\ clock \in Nat
       /\ \A s \in State : identity[s] # None => identity[s] \in Email
    BY DEF AccountsTypeOK
  <1>. {"count", "find"} \subseteq Phases /\ {"admin", "user"} = Role
    BY DEF Phases, Role
  <1>. \A c \in {201, 302, 400, 401, 403, 409, 500, 502} : c \in Code
    BY DEF Code
  <1>1. \A e \in Email : Register(r, e) =>
          \E q \in Handling : Step(r, q) /\ q.phase = "count"
    BY ReceivedSlot DEF Register
  <1>2. ASSUME NEW s \in State, Callback(r, s)
        PROVE  \E q \in Handling :
                 /\ Step(r, q)
                 /\ \/ q.phase = "reply"
                    \/ q.phase = "find" /\ q.via = "oidc"
    <2>. DEFINE arrived == Received("oidc", identity[s], "find")
    <2>1. arrived \in Handling /\ arrived.phase = "find" /\ arrived.via = "oidc"
      BY <1>2, ReceivedSlot DEF Callback
    <2>2. Step(r, arrived) \/ \E c \in Code : Step(r, Replied(arrived, c))
      <3>1. CASE pending[s] < clock
        BY <1>2, <3>1 DEF Callback
      <3>2. CASE ~(pending[s] < clock)
        BY <1>2, <3>2 DEF Callback
      <3>. QED
        BY <3>1, <3>2
    <2>. HIDE DEF arrived
    <2>3. CASE Step(r, arrived)
      BY <2>1, <2>3
    <2>4. ASSUME NEW c \in Code, Step(r, Replied(arrived, c))
          PROVE  \E q \in Handling : Step(r, q) /\ q.phase = "reply"
      BY <2>1, <2>4, RepliedSlot
    <2>. QED
      BY <2>2, <2>3, <2>4
  <1>3. ASSUME CountUsers(r)
        PROVE  \E q \in Handling :
                 /\ Step(r, q)
                 /\ \/ q.phase = "reply"
                    \/ /\ q.phase = "insert" /\ q.readAt = clock
                       /\ q.role = "admin" \/ ~open => NoAccounts
    <2>. DEFINE role == IF NoAccounts THEN "admin" ELSE "user"
    <2>1. CASE ~Admitted
      BY <1>3, <2>1, RepliedSlot DEF CountUsers, Reply
    <2>2. CASE Admitted
      <3>1. Step(r, Inserting(req[r], role)) /\ role \in Role
        BY <1>3, <2>2 DEF CountUsers
      <3>2. role = "admin" \/ ~open => NoAccounts
        BY <2>2 DEF Admitted
      <3>. QED
        BY <3>1, <3>2, InsertingSlot
    <2>. QED
      BY <2>1, <2>2
  <1>4. ASSUME FindByEmail(r)
        PROVE  \E q \in Handling :
                 /\ Step(r, q)
                 /\ \/ q.phase = "reply"
                    \/ q.phase = "insert" /\ q.readAt = clock /\ q.via = req[r].via
    <2>1. CASE Exists(req[r].email)
      BY <1>4, <2>1, RepliedSlot DEF FindByEmail, Reply
    <2>2. CASE ~Exists(req[r].email)
      <3>1. Step(r, Inserting(req[r], OidcRole(req[r].email)))
        BY <1>4, <2>2 DEF FindByEmail
      <3>2. OidcRole(req[r].email) \in Role
        BY DEF OidcRole
      <3>. QED
        BY <3>1, <3>2, InsertingSlot
    <2>. QED
      BY <2>1, <2>2
  <1>5. CreateUser(r) =>
          \E q \in Handling : Step(r, q) /\ q.phase = "reply"
    <2>1. CreateUser(r) => \E c \in Code : Step(r, Replied(req[r], c))
      BY DEF CreateUser, Reply
    <2>. QED
      BY <2>1, RepliedSlot
  <1>6. Answered(r) =>
          \E q \in Handling : Step(r, q) /\ q.phase = "free"
    BY FreeSlot DEF Answered
  <1>. QED
    BY <1>1, <1>2, <1>3, <1>4, <1>5, <1>6

-----------------------------------------------------------------------------
\* The table starts empty and every request free.
LEMMA AccountsTypeInit == AccountsInit => AccountsTypeOK
  BY AccountsAssumption, FreeSlot DEF AccountsInit, AccountsTypeOK

\* Every step keeps every variable in its type.
LEMMA AccountsTypeNext ==
  ASSUME AccountsTypeOK, [AccountsNext]_accountsVars
  PROVE  AccountsTypeOK'
  <1>. USE DEF AccountsTypeOK, oidcVars
  <1>1. CASE Tick
    BY <1>1, AccountsAssumption DEF Tick
  <1>2. CASE Restart
    BY <1>2, FreeSlot DEF Restart
  <1>3. ASSUME NEW s \in State, NEW e \in Email, Login(s, e)
        PROVE  AccountsTypeOK'
    BY <1>3, AccountsAssumption DEF Login
  <1>4. ASSUME NEW r \in Request, NEW e \in Email, Register(r, e)
        PROVE  AccountsTypeOK'
    <2>1. req' \in [Request -> Handling]
      BY <1>4, HandlerSlots, SlotMoves
    <2>. QED
      BY <1>4, <2>1 DEF Register
  <1>5. ASSUME NEW r \in Request, NEW s \in State, Callback(r, s)
        PROVE  AccountsTypeOK'
    <2>1. req' \in [Request -> Handling]
      BY <1>5, HandlerSlots, SlotMoves
    <2>. QED
      BY <1>5, <2>1 DEF Callback, Take
  <1>6. ASSUME NEW r \in Request, CountUsers(r) \/ FindByEmail(r) \/ Answered(r)
        PROVE  AccountsTypeOK'
    <2>1. req' \in [Request -> Handling]
      BY <1>6, HandlerSlots, SlotMoves
    <2>. QED
      BY <1>6, <2>1 DEF CountUsers, FindByEmail, Answered
  <1>7. ASSUME NEW r \in Request, CreateUser(r)
        PROVE  AccountsTypeOK'
    <2>1. req' \in [Request -> Handling]
      BY <1>7, HandlerSlots, SlotMoves
    <2>2. accounts' \in [Email -> Account \cup {None}]
      BY <1>7 DEF CreateUser, Inserted, Account, Handling
    <2>. QED
      BY <1>7, <2>1, <2>2 DEF CreateUser
  <1>8. CASE UNCHANGED accountsVars
    BY <1>8 DEF accountsVars
  <1>. QED
    BY <1>1, <1>2, <1>3, <1>4, <1>5, <1>6, <1>7, <1>8 DEF AccountsNext

\* Every variable stays in its type.
THEOREM AccountsAlwaysTyped == AccountsSpec => []AccountsTypeOK
  BY AccountsTypeInit, AccountsTypeNext, PTL DEF AccountsSpec

-----------------------------------------------------------------------------
\* Why a login state is redeemed once: one that is pending was not redeemed
\* yet, and a state is minted once.
StateInv ==
  \A s \in State :
    /\ redeemed[s] <= 1
    /\ pending[s] # -1 => redeemed[s] = 0
    /\ identity[s] = None => redeemed[s] = 0 /\ pending[s] = -1

\* Every step keeps it: Take deletes the entry whether it is still good or not.
LEMMA StateInvNext ==
  ASSUME AccountsTypeOK, StateInv, [AccountsNext]_accountsVars
  PROVE  StateInv'
  <1>. USE DEF AccountsTypeOK, StateInv
  <1>1. ASSUME NEW s \in State, NEW e \in Email, Login(s, e)
        PROVE  StateInv'
    BY <1>1, AccountsAssumption DEF Login
  <1>2. ASSUME NEW r \in Request, NEW s \in State, Callback(r, s)
        PROVE  StateInv'
    BY <1>2 DEF Callback, Take
  <1>3. CASE Restart
    BY <1>3 DEF Restart
  <1>4. CASE UNCHANGED oidcVars
    BY <1>4 DEF oidcVars
  <1>. QED
    BY <1>1, <1>2, <1>3, <1>4
       DEF AccountsNext, accountsVars, oidcVars, Tick, Register, CountUsers,
           FindByEmail, CreateUser, Answered

\* A login state is good for one callback, however many arrive at once.
THEOREM StatesUsedOnce == AccountsSpec => []StateUsedOnce
  <1>1. AccountsInit => StateInv
    BY DEF AccountsInit, StateInv
  <1>2. StateInv => StateUsedOnce
    BY DEF StateInv, StateUsedOnce
  <1>. QED
    BY <1>1, <1>2, StateInvNext, AccountsAlwaysTyped, PTL DEF AccountsSpec

-----------------------------------------------------------------------------
\* One INSERT adds the row of one free email, or changes nothing.
LEMMA CreateUserEffect ==
  ASSUME AccountsTypeOK, NEW r \in Request, CreateUser(r), NEW e \in Email,
         accounts'[e] # accounts[e]
  PROVE  /\ ~Exists(e)
         /\ accounts'[e].role = req[r].role /\ accounts'[e].via = req[r].via
         /\ accounts'[e].readAt = req[r].readAt /\ accounts'[e].commit = clock
  <1>1. ~Exists(req[r].email) /\ accounts' = Inserted(req[r])
    BY DEF CreateUser
  <1>2. e = req[r].email
    BY <1>1 DEF Inserted, AccountsTypeOK
  <1>3. accounts'[e] = [role |-> req[r].role, via |-> req[r].via,
                        readAt |-> req[r].readAt, commit |-> clock]
    BY <1>1, <1>2 DEF Inserted, AccountsTypeOK
  <1>. QED
    BY <1>1, <1>2, <1>3

\* No single step rewrites a row.
LEMMA AccountsKeptStep ==
  ASSUME AccountsTypeOK, [AccountsNext]_accountsVars
  PROVE  \A e \in Email : Exists(e) => accounts'[e] = accounts[e]
  BY CreateUserEffect
     DEF AccountsNext, accountsVars, Tick, Restart, Login, Register, Callback,
         CountUsers, FindByEmail, Answered

\* An account that exists is reused as it is.
THEOREM AccountsAlwaysKept == AccountsSpec => AccountsAreKept
  BY AccountsKeptStep, AccountsAlwaysTyped, PTL DEF AccountsSpec, AccountsAreKept

-----------------------------------------------------------------------------
\* Why the bootstrap window closes: a registration about to insert an admin, or
\* to insert at all while registration is closed, found no account when it
\* looked, so every account there is now was committed no earlier; and no
\* handler has looked, and no row been committed, in the future.
WindowInv ==
  /\ \A e \in Email : Exists(e) => accounts[e].readAt <= clock /\ accounts[e].commit <= clock
  /\ \A r \in Request :
       /\ At(r, "find") => req[r].via = "oidc"
       /\ At(r, "insert") => req[r].readAt <= clock
       /\ At(r, "insert") /\ req[r].via = "register" /\ (req[r].role = "admin" \/ ~open)
            => \A f \in Email : Exists(f) => req[r].readAt <= accounts[f].commit
  /\ BootstrapWindow

\* What holds of the rows a step leaves alone, and of the slots that do not
\* move.
LEMMA WindowKept ==
  ASSUME AccountsTypeOK, AccountsTypeOK', WindowInv, UNCHANGED <<accounts, open>>,
         clock <= clock',
         \A r \in Request :
           \/ req'[r] = req[r] \/ req'[r].phase \in {"free", "count", "reply"}
           \/ req'[r].phase = "find" /\ req'[r].via = "oidc"
           \/ /\ req'[r].phase = "insert" /\ req'[r].readAt = clock
              /\ req'[r].via = "register" /\ (req'[r].role = "admin" \/ ~open) => NoAccounts
  PROVE  WindowInv'
  <1>1. \A e \in Email : Exists(e)' <=> Exists(e)
    BY DEF Exists
  <1>2. \A e \in Email : Exists(e) => accounts[e].readAt \in Nat /\ accounts[e].commit \in Nat
    BY DEF AccountsTypeOK, Exists, Account
  <1>3. clock \in Nat /\ clock' \in Nat
    BY DEF AccountsTypeOK
  <1>4. \A e \in Email : Exists(e)' => accounts'[e].readAt <= clock' /\ accounts'[e].commit <= clock'
    BY <1>1, <1>2, <1>3 DEF WindowInv
  <1>5. BootstrapWindow'
    BY <1>1 DEF WindowInv, BootstrapWindow
  <1>6. ASSUME NEW r \in Request
        PROVE  /\ At(r, "find")' => req'[r].via = "oidc"
               /\ At(r, "insert")' => req'[r].readAt <= clock'
               /\ At(r, "insert")' /\ req'[r].via = "register" /\ (req'[r].role = "admin" \/ ~open')
                    => \A f \in Email : Exists(f)' => req'[r].readAt <= accounts'[f].commit
    <2>1. CASE req'[r] = req[r]
      <3>1. req[r].readAt \in Nat
        BY DEF AccountsTypeOK, Handling
      <3>. QED
        BY <1>1, <1>3, <2>1, <3>1 DEF WindowInv, At
    <2>2. CASE req'[r].phase \in {"free", "count", "reply"}
      BY <2>2 DEF At
    <2>3. CASE req'[r].phase = "find" /\ req'[r].via = "oidc"
      BY <2>3 DEF At
    <2>4. CASE /\ req'[r].phase = "insert" /\ req'[r].readAt = clock
               /\ req'[r].via = "register" /\ (req'[r].role = "admin" \/ ~open) => NoAccounts
      BY <1>1, <1>3, <2>4 DEF At, NoAccounts
    <2>. QED
      BY <2>1, <2>2, <2>3, <2>4
  <1>. QED
    BY <1>4, <1>5, <1>6 DEF WindowInv

\* Every step keeps it.
LEMMA WindowNext ==
  ASSUME AccountsTypeOK, AccountsTypeOK', WindowInv, [AccountsNext]_accountsVars
  PROVE  WindowInv'
  <1>1. ASSUME NEW r \in Request, CreateUser(r)
        PROVE  WindowInv'
    <2>1. /\ UNCHANGED <<clock, open>> /\ At(r, "insert")
          /\ \A p \in Request : req'[p] = req[p] \/ req'[p].phase = "reply"
      BY <1>1, HandlerSlots, SlotMoves DEF CreateUser
    <2>2. /\ req[r] \in Handling /\ clock \in Nat
          /\ \A e \in Email : Exists(e) => accounts[e] \in Account
      BY DEF AccountsTypeOK, Exists
    <2>3. req[r].readAt <= clock
      BY <2>1 DEF WindowInv
    <2>4. \A e \in Email :
            \/ accounts'[e] = accounts[e]
            \/ /\ ~Exists(e)
               /\ accounts'[e].role = req[r].role /\ accounts'[e].via = req[r].via
               /\ accounts'[e].readAt = req[r].readAt /\ accounts'[e].commit = clock
      BY <1>1, CreateUserEffect
    <2>5. \A e \in Email : Exists(e)' =>
            accounts'[e].readAt <= clock /\ accounts'[e].commit <= clock
      BY <2>2, <2>3, <2>4 DEF WindowInv, Exists
    <2>6. ASSUME NEW p \in Request
          PROVE  /\ At(p, "find")' => req'[p].via = "oidc"
                 /\ At(p, "insert")' => req'[p].readAt <= clock
                 /\ At(p, "insert")' /\ req'[p].via = "register"
                      /\ (req'[p].role = "admin" \/ ~open)
                      => \A f \in Email : Exists(f)' => req'[p].readAt <= accounts'[f].commit
      BY <2>1, <2>4 DEF WindowInv, At, Exists
    <2>7. ASSUME NEW e \in Email, NEW f \in Email, Exists(e)', Exists(f)',
                 accounts'[e].via = "register", accounts'[e].role = "admin" \/ ~open
          PROVE  accounts'[e].readAt <= accounts'[f].commit
      <3>1. CASE accounts'[e] = accounts[e] /\ accounts'[f] = accounts[f]
        BY <2>7, <3>1, <2>1 DEF WindowInv, BootstrapWindow, Exists
      <3>2. CASE accounts'[f] # accounts[f]
        BY <2>7, <3>2, <2>4, <2>5
      <3>3. CASE accounts'[e] # accounts[e] /\ accounts'[f] = accounts[f]
        BY <2>7, <3>3, <2>1, <2>4 DEF WindowInv, Exists
      <3>. QED
        BY <3>1, <3>2, <3>3
    <2>. QED
      BY <2>1, <2>5, <2>6, <2>7 DEF WindowInv, BootstrapWindow
  <1>2. ASSUME NEW r \in Request,
               CountUsers(r) \/ FindByEmail(r) \/ Answered(r)
                 \/ (\E e \in Email : Register(r, e)) \/ (\E s \in State : Callback(r, s))
        PROVE  WindowInv'
    <2>1. UNCHANGED <<accounts, open, clock>>
      BY <1>2 DEF CountUsers, FindByEmail, Answered, Register, Callback
    <2>2. FindByEmail(r) => req[r].via = "oidc"
      BY DEF FindByEmail, WindowInv
    <2>3. PICK q \in Handling :
            /\ Step(r, q)
            /\ \/ q.phase \in {"free", "count", "reply"}
               \/ q.phase = "find" /\ q.via = "oidc"
               \/ /\ q.phase = "insert" /\ q.readAt = clock
                  /\ q.via = "register" /\ (q.role = "admin" \/ ~open) => NoAccounts
      BY <1>2, <2>2, HandlerSlots
    <2>4. req'[r] = q /\ \A p \in Request : p # r => req'[p] = req[p]
      BY <2>3, SlotMoves
    <2>. QED
      BY <2>1, <2>3, <2>4, WindowKept DEF AccountsTypeOK
  <1>3. CASE UNCHANGED <<accounts, open, req>> /\ clock' \in {clock, clock + 1}
    BY <1>3, WindowKept DEF AccountsTypeOK
  <1>4. CASE Restart
    BY <1>4, FreeSlot, WindowKept DEF Restart, AccountsTypeOK
  <1>. QED
    BY <1>1, <1>2, <1>3, <1>4
       DEF AccountsNext, accountsVars, Tick, Login

\* Only registrations racing the first account make a second admin, or slip in
\* while registration is closed.
THEOREM BootstrapAlwaysWindowed == AccountsSpec => []BootstrapWindow
  <1>1. AccountsInit => WindowInv
    BY FreeSlot DEF AccountsInit, WindowInv, BootstrapWindow, Exists, At
  <1>2. WindowInv => BootstrapWindow
    BY DEF WindowInv
  <1>. QED
    BY <1>1, <1>2, WindowNext, AccountsAlwaysTyped, PTL DEF AccountsSpec

-----------------------------------------------------------------------------
(* The provider's keys                                                     *)

\* What each step makes of a callback, field by field.
LEMMA AtPhaseEffect ==
  ASSUME NEW k \in Verifying, NEW phase \in VerifyPhases \cup Verdicts
  PROVE  /\ AtPhase(k, phase) \in Verifying /\ AtPhase(k, phase).phase = phase
         /\ AtPhase(k, phase).kid = k.kid /\ AtPhase(k, phase).answer = k.answer
         /\ AtPhase(k, phase).alone = k.alone
  BY DEF AtPhase, Verifying

LEMMA SignedWithEffect ==
  ASSUME NEW k \in Verifying, NEW key \in Key
  PROVE  SignedWith(k, key) \in Verifying /\ SignedWith(k, key).phase = "lookup"
  BY DEF SignedWith, Verifying, VerifyPhases

LEMMA FetchingEffect ==
  ASSUME NEW k \in Verifying, NEW alone \in BOOLEAN
  PROVE  /\ Fetching(k, alone) \in Verifying /\ Fetching(k, alone).phase = "fetch"
         /\ Fetching(k, alone).alone = alone
  BY DEF Fetching, Verifying, VerifyPhases

LEMMA OverlappedEffect ==
  ASSUME NEW k \in Verifying
  PROVE  /\ Overlapped(k) \in Verifying /\ Overlapped(k).phase = k.phase
         /\ Overlapped(k).alone = FALSE
  BY DEF Overlapped, Verifying

LEMMA WithAnswerEffect ==
  ASSUME NEW k \in Verifying, NEW set \in SUBSET Key
  PROVE  /\ WithAnswer(k, set) \in Verifying /\ WithAnswer(k, set).phase = "publish"
         /\ WithAnswer(k, set).alone = k.alone
  BY DEF WithAnswer, Verifying, VerifyPhases

LEMMA WaitingCallback == Waiting \in Verifying /\ Waiting.phase = "waiting"
  BY DEF Waiting, Verifying, VerifyPhases

\* A refresh that believes it is alone is; and what it has published stays in
\* the cache until it has looked its key up there.
KeysInv ==
  /\ KeysTypeOK
  /\ \A v, w \in Verification :
       Refreshing(v) /\ verify[v].alone /\ Refreshing(w) => v = w
  /\ \A v \in Verification : Is(v, "again") /\ verify[v].alone => keys = verify[v].answer
  /\ RotationFollowedUnlessOverlapped

LEMMA KeysInvInit == KeysInit => KeysInv
  BY WaitingCallback
     DEF KeysInit, KeysInv, KeysTypeOK, Refreshing, Is, RotationFollowedUnlessOverlapped

\* A step of one callback, which leaves the cache alone: it enters none of the
\* phases of a refresh, or the next with what it knew.
LEMMA CallbackMoves ==
  ASSUME KeysInv, NEW v \in Verification, NEW k \in Verifying,
         Becomes(v, k), UNCHANGED <<published, keys>>, meta' \in BOOLEAN,
         k.phase \in {"fetch", "publish"} => Refreshing(v) /\ k.alone = verify[v].alone,
         k.phase # "again",
         k.phase = "no key" /\ k.alone => k.kid \notin k.answer
  PROVE  KeysInv'
  <1>1. /\ \A w \in Verification : verify'[w] = IF w = v THEN k ELSE verify[w]
        /\ verify' \in [Verification -> Verifying]
    BY DEF Becomes, KeysInv, KeysTypeOK
  <1>2. KeysTypeOK'
    BY <1>1 DEF KeysInv, KeysTypeOK
  <1>3. \A w \in Verification :
          Refreshing(w)' => Refreshing(w) /\ verify'[w].alone = verify[w].alone
    BY <1>1 DEF Refreshing, Is
  <1>4. \A u, w \in Verification :
          Refreshing(u)' /\ verify'[u].alone /\ Refreshing(w)' => u = w
    BY <1>3 DEF KeysInv
  <1>5. \A w \in Verification :
          Is(w, "again")' /\ verify'[w].alone => keys' = verify'[w].answer
    BY <1>1 DEF KeysInv, Is
  <1>6. RotationFollowedUnlessOverlapped'
    BY <1>1 DEF KeysInv, RotationFollowedUnlessOverlapped, Is
  <1>. QED
    BY <1>2, <1>4, <1>5, <1>6 DEF KeysInv

LEMMA VerifyPhasesExist ==
  \A p \in {"waiting", "discovering", "token", "lookup", "fetch", "publish", "again",
            "accepted", "refused", "no key", "unavailable"} : p \in VerifyPhases \cup Verdicts
  BY DEF VerifyPhases, Verdicts

\* A callback that is given a verdict, or waits for its token.
LEMMA MovesKeeps ==
  ASSUME KeysInv, NEW v \in Verification,
         NEW phase \in {"token", "accepted", "refused", "unavailable"},
         Moves(v, phase), UNCHANGED <<published, keys>>, meta' \in BOOLEAN
  PROVE  KeysInv'
  <1>1. verify[v] \in Verifying /\ phase \in VerifyPhases \cup Verdicts
    BY VerifyPhasesExist DEF KeysInv, KeysTypeOK
  <1>2. AtPhase(verify[v], phase) \in Verifying /\ AtPhase(verify[v], phase).phase = phase
    BY <1>1, AtPhaseEffect
  <1>. QED
    BY <1>2, CallbackMoves DEF Moves

LEMMA SigningKeyKeeps ==
  ASSUME KeysInv, NEW v \in Verification, SigningKey(v)
  PROVE  KeysInv'
  <1>1. UNCHANGED <<published, meta, keys>> /\ Is(v, "lookup")
    BY DEF SigningKey
  <1>2. CASE verify[v].kid \in keys
    BY <1>1, <1>2, MovesKeeps DEF SigningKey, Checked, Verdict, KeysInv, KeysTypeOK
  <1>3. CASE verify[v].kid \notin keys
    <2>. DEFINE alone == \A u \in Verification \ {v} : ~Refreshing(u)
    <2>1. verify' = [w \in Verification |->
            IF w = v THEN Fetching(verify[v], alone)
            ELSE IF Refreshing(w) THEN Overlapped(verify[w]) ELSE verify[w]]
      BY <1>3 DEF SigningKey
    <2>2. \A w \in Verification : verify[w] \in Verifying
      BY DEF KeysInv, KeysTypeOK
    <2>3. verify' \in [Verification -> Verifying]
      BY <2>1, <2>2, FetchingEffect, OverlappedEffect
    <2>4. verify'[v].phase = "fetch" /\ verify'[v].alone = alone
      BY <2>1, <2>2, FetchingEffect
    <2>5. ASSUME NEW w \in Verification, w # v
          PROVE  /\ verify'[w].phase = verify[w].phase
                 /\ Refreshing(w) => ~verify'[w].alone
                 /\ ~Refreshing(w) => verify'[w] = verify[w]
      BY <2>1, <2>2, <2>5, OverlappedEffect
    <2>6. KeysTypeOK'
      BY <1>1, <2>3 DEF KeysInv, KeysTypeOK
    <2>7. ASSUME NEW u \in Verification, NEW w \in Verification,
                 Refreshing(u)', verify'[u].alone, Refreshing(w)'
          PROVE  u = w
      <3>1. \A x \in Verification \ {v} : Refreshing(x)' => Refreshing(x)
        BY <2>5 DEF Refreshing, Is
      <3>2. u = v
        BY <2>5, <2>7, <3>1
      <3>3. alone
        BY <2>4, <2>7, <3>2
      <3>. QED
        BY <2>7, <3>1, <3>2, <3>3
    <2>8. ASSUME NEW w \in Verification, Is(w, "again")', verify'[w].alone
          PROVE  FALSE
      BY <2>4, <2>5, <2>8 DEF Is, Refreshing
    <2>9. RotationFollowedUnlessOverlapped'
      <3>1. ASSUME NEW w \in Verification, Is(w, "no key")', verify'[w].alone
            PROVE  verify'[w] = verify[w]
        BY <2>4, <2>5, <3>1 DEF Is, Refreshing
      <3>. QED
        BY <3>1 DEF KeysInv, RotationFollowedUnlessOverlapped, Is
    <2>. QED
      BY <2>6, <2>7, <2>8, <2>9 DEF KeysInv
  <1>. QED
    BY <1>2, <1>3

LEMMA FetchKeysKeeps ==
  ASSUME KeysInv, NEW v \in Verification, FetchKeys(v)
  PROVE  KeysInv'
  <1>1. UNCHANGED <<published, meta, keys>> /\ Is(v, "fetch") /\ meta' \in BOOLEAN
    BY DEF FetchKeys, KeysInv, KeysTypeOK
  <1>2. CASE Becomes(v, WithAnswer(verify[v], published))
    <2>1. verify[v] \in Verifying /\ published \in SUBSET Key
      BY DEF KeysInv, KeysTypeOK
    <2>2. Refreshing(v)
      BY <1>1 DEF Refreshing
    <2>. QED
      BY <1>1, <1>2, <2>1, <2>2, WithAnswerEffect, CallbackMoves
  <1>3. CASE Verdict(v, "refused")
    BY <1>1, <1>3, MovesKeeps DEF Verdict
  <1>. QED
    BY <1>2, <1>3 DEF FetchKeys

\* Nobody else is between the cache and its own look-up, if this one was alone.
LEMMA PublishKeysKeeps ==
  ASSUME KeysInv, NEW v \in Verification, PublishKeys(v)
  PROVE  KeysInv'
  <1>. DEFINE k == AtPhase(verify[v], "again")
  <1>1. /\ UNCHANGED <<published, meta>> /\ Is(v, "publish") /\ Becomes(v, k)
        /\ keys' = verify[v].answer /\ verify[v] \in Verifying
    BY DEF PublishKeys, Moves, KeysInv, KeysTypeOK
  <1>2. /\ k \in Verifying /\ k.phase = "again" /\ k.kid = verify[v].kid
        /\ k.answer = verify[v].answer /\ k.alone = verify[v].alone
    BY <1>1, AtPhaseEffect, VerifyPhasesExist
  <1>. HIDE DEF k
  <1>3. /\ \A w \in Verification : verify'[w] = IF w = v THEN k ELSE verify[w]
        /\ verify' \in [Verification -> Verifying]
    BY <1>1, <1>2 DEF Becomes, KeysInv, KeysTypeOK
  <1>4. KeysTypeOK'
    BY <1>1, <1>3 DEF KeysInv, KeysTypeOK, Verifying
  <1>5. \A w \in Verification :
          Refreshing(w)' <=> Refreshing(w)
    BY <1>1, <1>2, <1>3 DEF Refreshing, Is
  <1>6. \A w \in Verification : verify'[w].alone = verify[w].alone
    BY <1>2, <1>3
  <1>7. \A u, w \in Verification :
          Refreshing(u)' /\ verify'[u].alone /\ Refreshing(w)' => u = w
    BY <1>5, <1>6 DEF KeysInv
  <1>8. ASSUME NEW w \in Verification, Is(w, "again")', verify'[w].alone
        PROVE  keys' = verify'[w].answer
    <2>1. Refreshing(w)' /\ Refreshing(v)'
      BY <1>2, <1>3, <1>8 DEF Refreshing, Is
    <2>2. w = v
      BY <1>7, <1>8, <2>1
    <2>. QED
      BY <1>1, <1>2, <1>3, <2>2
  <1>9. RotationFollowedUnlessOverlapped'
    BY <1>2, <1>3 DEF KeysInv, RotationFollowedUnlessOverlapped, Is
  <1>. QED
    BY <1>4, <1>7, <1>8, <1>9 DEF KeysInv

LEMMA LookupAgainKeeps ==
  ASSUME KeysInv, NEW v \in Verification, LookupAgain(v)
  PROVE  KeysInv'
  <1>1. /\ UNCHANGED <<published, meta, keys>> /\ Is(v, "again") /\ meta' \in BOOLEAN
        /\ verify[v] \in Verifying
    BY DEF LookupAgain, KeysInv, KeysTypeOK
  <1>2. CASE verify[v].kid \in keys
    BY <1>1, <1>2, MovesKeeps DEF LookupAgain, Checked, Verdict
  <1>3. CASE verify[v].kid \notin keys
    <2>. DEFINE k == AtPhase(verify[v], "no key")
    <2>1. /\ k \in Verifying /\ k.phase = "no key" /\ k.kid = verify[v].kid
          /\ k.answer = verify[v].answer /\ k.alone = verify[v].alone
      BY <1>1, AtPhaseEffect, VerifyPhasesExist
    <2>2. Becomes(v, k)
      BY <1>3 DEF LookupAgain, Verdict, Moves
    <2>. HIDE DEF k
    <2>3. k.alone => k.kid \notin k.answer
      BY <1>1, <1>3, <2>1 DEF KeysInv
    <2>. QED
      BY <1>1, <2>1, <2>2, <2>3, CallbackMoves
  <1>. QED
    BY <1>2, <1>3

LEMMA KeysInvKept ==
  ASSUME KeysInv, [KeysNext]_keysVars
  PROVE  KeysInv'
  <1>1. CASE UNCHANGED <<meta, keys, verify>> /\ published' \subseteq Key
    BY <1>1
       DEF KeysInv, KeysTypeOK, Refreshing, Is, RotationFollowedUnlessOverlapped
  <1>2. CASE RestartProvider
    <2>1. /\ verify' \in [Verification -> Verifying]
          /\ \A v \in Verification : verify'[v].phase = "waiting"
      BY <1>2, WaitingCallback DEF RestartProvider
    <2>. QED
      BY <1>2, <2>1
         DEF RestartProvider, KeysInv, KeysTypeOK, Refreshing, Is,
             RotationFollowedUnlessOverlapped
  <1>3. ASSUME NEW v \in Verification, Discover(v) PROVE KeysInv'
    <2>. DEFINE phase == IF meta THEN "token" ELSE "discovering"
    <2>1. /\ AtPhase(Waiting, phase) \in Verifying
          /\ AtPhase(Waiting, phase).phase \in {"token", "discovering"}
      BY AtPhaseEffect, WaitingCallback, VerifyPhasesExist
    <2>2. Becomes(v, AtPhase(Waiting, phase)) /\ UNCHANGED <<published, meta, keys>>
      BY <1>3 DEF Discover
    <2>. QED
      BY <2>1, <2>2, CallbackMoves DEF KeysInv, KeysTypeOK
  <1>4. ASSUME NEW v \in Verification, Discovered(v) PROVE KeysInv'
    BY <1>4, MovesKeeps DEF Discovered, Verdict, KeysInv, KeysTypeOK
  <1>5. ASSUME NEW v \in Verification, Exchange(v) PROVE KeysInv'
    <2>1. UNCHANGED <<published, meta, keys>> /\ meta' \in BOOLEAN /\ verify[v] \in Verifying
      BY <1>5 DEF Exchange, KeysInv, KeysTypeOK
    <2>2. ASSUME NEW key \in published, Becomes(v, SignedWith(verify[v], key))
          PROVE  KeysInv'
      <3>1. key \in Key
        BY DEF KeysInv, KeysTypeOK
      <3>. QED
        BY <2>1, <2>2, <3>1, SignedWithEffect, CallbackMoves
    <2>3. CASE Verdict(v, "unavailable")
      BY <2>1, <2>3, MovesKeeps DEF Verdict
    <2>. QED
      BY <1>5, <2>2, <2>3 DEF Exchange
  <1>6. CASE UNCHANGED keysVars
    BY <1>1, <1>6 DEF keysVars, KeysInv, KeysTypeOK
  <1>7. CASE Rotate
    BY <1>1, <1>7 DEF Rotate
  <1>. QED
    BY <1>2, <1>3, <1>4, <1>5, <1>6, <1>7, SigningKeyKeeps, FetchKeysKeeps,
       PublishKeysKeeps, LookupAgainKeeps DEF KeysNext

\* A login is refused for want of its key (signingKey, refreshKeys) only if the
\* provider did not list it when asked, or another login's refresh overlapped.
THEOREM RotationAlwaysFollowedUnlessOverlapped ==
  KeysSpec => []RotationFollowedUnlessOverlapped
  <1>1. KeysInv => RotationFollowedUnlessOverlapped
    BY DEF KeysInv
  <1>. QED
    BY <1>1, KeysInvInit, KeysInvKept, PTL DEF KeysSpec

\* Every variable of the provider's caches always stays in its type.
THEOREM KeysAlwaysTyped == KeysSpec => []KeysTypeOK
  <1>1. KeysInv => KeysTypeOK
    BY DEF KeysInv
  <1>. QED
    BY <1>1, KeysInvInit, KeysInvKept, PTL DEF KeysSpec
=============================================================================
