------------------------ MODULE SessionStore_proofs ------------------------
(***************************************************************************)
(* The sessions table, for every set of tokens and accounts and every      *)
(* choice of the lifetimes and of TouchInterval.                           *)
(***************************************************************************)
EXTENDS SessionStore, TLAPS

\* Each role's lifetime is a positive number.
LEMMA LifetimeIsPositive == Lifetime \in [User -> Nat \ {0}]
  BY SessionAssumption DEF Lifetime, User

\* A freshly created row is a row of the table.
LEMMA RowIsSession ==
  ASSUME NEW u \in User, NEW c \in Nat, NEW l \in Nat, NEW e \in Nat
  PROVE  /\ [user |-> u, created |-> c, lastSeen |-> l, expires |-> e] \in Session
         /\ [user |-> u, created |-> c, lastSeen |-> l, expires |-> e] # NoRow
  BY NoRowAssumption DEF Session

\* What a statement that deletes the rows of S leaves: the others.
LEMMA WithoutRows ==
  ASSUME TypeOK, NEW S, rows' = Without(S)
  PROVE  /\ rows' \in [Token -> Session \cup {NoRow}]
         /\ \A t \in Token : rows'[t] = IF t \in S THEN NoRow ELSE rows[t]
  BY DEF Without, TypeOK

\* What Create leaves: one more row, for an account that exists.
LEMMA CreateEffect ==
  ASSUME TypeOK, NEW t \in Token, NEW u \in User, NEW at \in Readings,
         Create(t, u, Lifetime[u], at)
  PROVE  /\ rows' \in [Token -> Session \cup {NoRow}]
         /\ rows'[t] = [user |-> u, created |-> at, lastSeen |-> at,
                        expires |-> at + Lifetime[u]]
         /\ rows'[t] # NoRow
         /\ at \in Nat /\ Lifetime[u] \in Nat \ {0} /\ at <= now
         /\ \A s \in Token : s # t => rows'[s] = rows[s]
  <1>1. at \in Nat /\ Lifetime[u] \in Nat \ {0} /\ at <= now
    BY LifetimeIsPositive DEF Readings, TypeOK
  <1>2. at + Lifetime[u] \in Nat
    BY <1>1
  <1>. DEFINE row == [user |-> u, created |-> at, lastSeen |-> at,
                      expires |-> at + Lifetime[u]]
  <1>3. row \in Session /\ row # NoRow
    BY <1>1, <1>2, RowIsSession
  <1>4. rows' = [rows EXCEPT ![t] = row]
    BY DEF Create
  <1>. HIDE DEF row
  <1>5. /\ rows' \in [Token -> Session \cup {NoRow}]
        /\ rows'[t] = row
        /\ \A s \in Token : s # t => rows'[s] = rows[s]
    BY <1>3, <1>4 DEF TypeOK
  <1>. QED
    BY <1>1, <1>3, <1>5 DEF row

\* What Touch leaves: nothing new, or one row seen again TouchInterval later.
LEMMA TouchEffect ==
  ASSUME TypeOK, NEW t \in Token, NEW at \in Readings, HasRow(t),
         Touch(t, Lifetime[rows[t].user], at), ~UNCHANGED rows
  PROVE  /\ rows' \in [Token -> Session \cup {NoRow}]
         /\ rows[t] \in Session
         /\ rows'[t] \in Session /\ rows'[t] # NoRow
         /\ rows'[t].user = rows[t].user
         /\ rows'[t].created = rows[t].created
         /\ rows'[t].lastSeen = at
         /\ rows'[t].expires = at + Lifetime[rows[t].user]
         /\ Slides(t, at)
         /\ at \in Nat /\ at <= now
         /\ \A s \in Token : s # t => rows'[s] = rows[s]
  <1>1. at \in Nat /\ at <= now
    BY DEF Readings, TypeOK
  <1>2. rows[t] \in Session
    BY DEF HasRow, TypeOK
  <1>3. Lifetime[rows[t].user] \in Nat
    BY <1>2, LifetimeIsPositive DEF Session
  <1>. DEFINE row == [rows[t] EXCEPT !.lastSeen = at,
                        !.expires = at + Lifetime[rows[t].user]]
  <1>4. Slides(t, at) /\ rows' = [rows EXCEPT ![t] = row]
    BY DEF Touch
  <1>5. /\ row \in Session
        /\ row.user = rows[t].user /\ row.created = rows[t].created
        /\ row.lastSeen = at /\ row.expires = at + Lifetime[rows[t].user]
    <2>1. at + Lifetime[rows[t].user] \in Nat
      BY <1>1, <1>3
    <2>. QED
      BY <1>1, <1>2, <2>1 DEF Session
  <1>6. row # NoRow
    BY <1>5, NoRowAssumption
  <1>. HIDE DEF row
  <1>7. /\ rows' \in [Token -> Session \cup {NoRow}]
        /\ rows'[t] = row
        /\ \A s \in Token : s # t => rows'[s] = rows[s]
    BY <1>4, <1>5 DEF TypeOK
  <1>. QED
    BY <1>1, <1>2, <1>4, <1>5, <1>6, <1>7

-----------------------------------------------------------------------------
\* The statements that only delete rows, with the rows each one deletes.
Deletes(S) == rows' = Without(S) /\ UNCHANGED <<now, users, minted>>

\* Sign-out, revocation and the sweep are such statements.
LEMMA Deletions ==
  /\ \A t : Destroy(t) => Deletes({t})
  /\ \A u, t : RevokeByHandle(u, t) =>
       Deletes({s \in {t} : HasRow(s) /\ rows[s].user = u})
  /\ \A at : DeleteExpired(at) =>
       Deletes({t \in Token : HasRow(t) /\ rows[t].expires <= at})
  BY DEF Destroy, RevokeByHandle, DeleteExpired, Deletes

\* Every step of the table is one of six: the cases all the theorems go by.
LEMMA StepCases ==
  ASSUME StoreNext
  PROVE  \/ Tick
         \/ \E t \in Token, u \in User, at \in Readings :
              Create(t, u, Lifetime[u], at)
         \/ \E t \in Token, at \in Readings :
              HasRow(t) /\ Touch(t, Lifetime[rows[t].user], at) /\ ~UNCHANGED rows
         \/ \E S : Deletes(S)
         \/ \E k \in Kid : DeleteKid(k)
         \/ UNCHANGED storeVars
  BY Deletions DEF StoreNext, Touch, storeVars

\* The invariant of the table, inductive as a whole: last_seen is not ahead of
\* the clock, which the type of a new expiry needs.
StoreInv == TypeOK /\ OwnerExists /\ ExpiryFollowsRole
              /\ \A t \in Token : HasRow(t) => t \in minted

\* The empty table satisfies the invariant.
LEMMA StoreInvInit == StoreInit => StoreInv
  BY SessionAssumption
     DEF StoreInit, StoreInv, TypeOK, OwnerExists, ExpiryFollowsRole, HasRow

\* Every statement keeps the invariant.
LEMMA StoreInvNext == StoreInv /\ [StoreNext]_storeVars => StoreInv'
  <1>. SUFFICES ASSUME StoreInv, [StoreNext]_storeVars PROVE StoreInv'
    OBVIOUS
  <1>. USE DEF StoreInv
  <1>1. CASE Tick
    BY <1>1, SessionAssumption
       DEF Tick, TypeOK, OwnerExists, ExpiryFollowsRole, HasRow
  <1>2. ASSUME NEW t \in Token, NEW u \in User, NEW at \in Readings,
               Create(t, u, Lifetime[u], at)
        PROVE  StoreInv'
    <2>. /\ u \in users /\ users' = users /\ now' = now
         /\ minted' = minted \cup {t}
      BY <1>2 DEF Create
    <2>1. TypeOK'
      BY <1>2, CreateEffect DEF TypeOK
    <2>2. rows'[t] = [user |-> u, created |-> at, lastSeen |-> at,
                      expires |-> at + Lifetime[u]]
      BY <1>2, CreateEffect
    <2>3. /\ rows'[t].user = u
          /\ rows'[t].lastSeen = at
          /\ rows'[t].expires = at + Lifetime[u]
      BY <2>2
    <2>4. \A s \in Token : s # t => rows'[s] = rows[s]
      BY <1>2, CreateEffect
    <2>5. OwnerExists'
      BY <2>3, <2>4 DEF OwnerExists, HasRow
    <2>6. ExpiryFollowsRole'
      BY <2>3, <2>4 DEF ExpiryFollowsRole, HasRow
    <2>. QED
      BY <1>2, <2>1, <2>4, <2>5, <2>6 DEF HasRow
  <1>3. ASSUME NEW t \in Token, NEW at \in Readings, HasRow(t),
               Touch(t, Lifetime[rows[t].user], at), ~UNCHANGED rows
        PROVE  StoreInv'
    <2>. UNCHANGED <<now, users, minted>>
      BY <1>3 DEF Touch
    <2>1. TypeOK'
      BY <1>3, TouchEffect DEF TypeOK
    <2>2. OwnerExists' /\ ExpiryFollowsRole'
      BY <1>3, TouchEffect DEF OwnerExists, ExpiryFollowsRole, HasRow
    <2>. QED
      BY <1>3, <2>1, <2>2, TouchEffect DEF HasRow
  <1>4. ASSUME NEW S, Deletes(S)
        PROVE  StoreInv'
    BY <1>4, WithoutRows
       DEF Deletes, TypeOK, OwnerExists, ExpiryFollowsRole, HasRow
  <1>5. ASSUME NEW k \in Kid, DeleteKid(k)
        PROVE  StoreInv'
    BY <1>5, WithoutRows
       DEF DeleteKid, TypeOK, OwnerExists, ExpiryFollowsRole, HasRow
  <1>6. CASE UNCHANGED storeVars
    BY <1>6 DEF storeVars, TypeOK, OwnerExists, ExpiryFollowsRole, HasRow
  <1>. QED
    BY <1>1, <1>2, <1>3, <1>4, <1>5, <1>6, StepCases

\* The table stays well typed, owned and with the expiry of its owner's role.
THEOREM StoreInvariant == StoreSpec => []StoreInv
  BY StoreInvInit, StoreInvNext, PTL DEF StoreSpec

\* Every variable stays in its type.
THEOREM TypeAlwaysOK == StoreSpec => []TypeOK
  BY StoreInvariant, PTL DEF StoreInv

\* No session outlives its account.
THEOREM OwnerAlwaysExists == StoreSpec => []OwnerExists
  BY StoreInvariant, PTL DEF StoreInv

\* No interleaving of slides gives a session another role's lifetime.
THEOREM ExpiryAlwaysFollowsRole == StoreSpec => []ExpiryFollowsRole
  BY StoreInvariant, PTL DEF StoreInv

-----------------------------------------------------------------------------
\* No single statement brings back a minted token without a row.
LEMMA EndedStep ==
  ASSUME StoreInv, [StoreNext]_storeVars
  PROVE  \A t \in minted : ~HasRow(t) => ~HasRow(t)'
  <1>. SUFFICES ASSUME NEW s \in minted, ~HasRow(s) PROVE ~HasRow(s)'
    OBVIOUS
  <1>. s \in Token
    BY DEF StoreInv, TypeOK
  <1>2. ASSUME NEW t \in Token, NEW u \in User, NEW at \in Readings,
               Create(t, u, Lifetime[u], at)
        PROVE  ~HasRow(s)'
    BY <1>2, CreateEffect DEF StoreInv, Create, HasRow
  <1>3. ASSUME NEW t \in Token, NEW at \in Readings, HasRow(t),
               Touch(t, Lifetime[rows[t].user], at), ~UNCHANGED rows
        PROVE  ~HasRow(s)'
    BY <1>3, TouchEffect DEF StoreInv, HasRow
  <1>4. ASSUME NEW S, rows' = Without(S)
        PROVE  ~HasRow(s)'
    BY <1>4, WithoutRows DEF StoreInv, HasRow
  <1>. QED
    BY <1>2, <1>3, <1>4, StepCases DEF Tick, Deletes, DeleteKid, HasRow, storeVars

\* A session that ended, however it ended, never comes back.
THEOREM EndedStaysEnded == StoreSpec => EndedIsFinal
  BY StoreInvariant, EndedStep, PTL DEF StoreSpec, EndedIsFinal

\* No single statement rewrites a row other than by a due slide.
LEMMA ThrottleStep ==
  ASSUME StoreInv, [StoreNext]_storeVars
  PROVE  ChangesAreSlides
  <1>1. SUFFICES ASSUME NEW s \in Token,
                        HasRow(s), rows'[s] # NoRow, rows'[s] # rows[s]
                 PROVE  SlidOnly(s)
    BY DEF ChangesAreSlides
  <1>2. ASSUME NEW t \in Token, NEW u \in User, NEW at \in Readings,
               Create(t, u, Lifetime[u], at)
        PROVE  FALSE
    BY <1>1, <1>2, CreateEffect DEF StoreInv, Create, HasRow
  <1>3. ASSUME NEW t \in Token, NEW at \in Readings, HasRow(t),
               Touch(t, Lifetime[rows[t].user], at), ~UNCHANGED rows
        PROVE  SlidOnly(s)
    BY <1>1, <1>3, TouchEffect DEF StoreInv, Slides, TouchDue, SlidOnly
  <1>4. ASSUME NEW S, rows' = Without(S)
        PROVE  FALSE
    BY <1>1, <1>4, WithoutRows DEF StoreInv, HasRow
  <1>. QED
    BY <1>1, <1>2, <1>3, <1>4, StepCases DEF Tick, Deletes, DeleteKid, storeVars

\* Two writes of last_seen to one session are TouchInterval apart.
THEOREM SlidesAlwaysThrottled == StoreSpec => SlidesAreThrottled
  BY StoreInvariant, ThrottleStep, PTL DEF StoreSpec, SlidesAreThrottled

-----------------------------------------------------------------------------
\* The grant a row stands for.
LEMMA GrantOfRow ==
  ASSUME TypeOK, NEW t \in Token
  PROVE  /\ HasRow(t) => /\ Grants[t] = [holder |-> rows[t].user,
                                         until |-> rows[t].expires]
                         /\ Grants[t].holder = rows[t].user
                         /\ Grants[t].until = rows[t].expires
                         /\ Grants[t] # NoRow
         /\ ~HasRow(t) => Grants[t] = NoRow
  <1>1. HasRow(t) => [holder |-> rows[t].user, until |-> rows[t].expires]
                       \in [holder : User, until : Nat]
    BY DEF HasRow, TypeOK, Session
  <1>. QED
    BY <1>1, NoRowAssumption DEF Grants

\* Grants follow the rows, row by row.
LEMMA GrantsKept ==
  ASSUME NEW t \in Token, rows'[t] = rows[t]
  PROVE  Grants'[t] = Grants[t]
  BY DEF Grants, HasRow

\* Deleting rows ends exactly their grants.
LEMMA DeletionEnds ==
  ASSUME StoreInv, NEW S \in SUBSET Token, rows' = Without(S),
         minted' = minted, now' = now, \A t \in S : HasRow(t)
  PROVE  Lifecycle!End(S)
  <1>1. \A t \in Token : rows'[t] = IF t \in S THEN NoRow ELSE rows[t]
    BY WithoutRows DEF StoreInv
  <1>2. \A t \in S : Grants[t] # NoRow
    BY GrantOfRow DEF StoreInv
  <1>3. Grants' = [t \in Token |-> IF t \in S THEN NoRow ELSE Grants[t]]
    BY <1>1 DEF Grants, HasRow
  <1>4. Spent' = Spent \cup S
    BY <1>1 DEF Spent, HasRow, StoreInv, TypeOK
  <1>. QED
    BY <1>2, <1>3, <1>4 DEF Lifecycle!End, Lifecycle!Valid

\* A row that is written, and only it, is a grant that changes, and only it.
LEMMA OneGrantChanges ==
  ASSUME NEW t \in Token, \A s \in Token : s # t => rows'[s] = rows[s]
  PROVE  Lifecycle!OthersKept({t})
  BY GrantsKept DEF Lifecycle!OthersKept, Grants

\* Create issues a fresh token for an account that exists.
LEMMA CreateIssues ==
  ASSUME StoreInv, StoreInv', NEW t \in Token, NEW u \in User, NEW at \in Readings,
         Create(t, u, Lifetime[u], at)
  PROVE  Lifecycle!Issue(t, u)
  <1>1. t \notin Spent /\ ~Lifecycle!Valid(t)
    BY GrantOfRow DEF Create, Spent, StoreInv, Lifecycle!Valid
  <1>2. u \in users /\ UNCHANGED <<now, users>>
    BY DEF Create
  <1>3. HasRow(t)'
    BY CreateEffect DEF StoreInv, HasRow
  <1>4. /\ Grants'[t] = [holder |-> rows'[t].user, until |-> rows'[t].expires]
        /\ Grants'[t] # NoRow
    BY <1>3, NoRowAssumption DEF StoreInv, Grants, HasRow, TypeOK, Session
  <1>5. rows'[t] = [user |-> u, created |-> at, lastSeen |-> at,
                    expires |-> at + Lifetime[u]]
    BY CreateEffect DEF StoreInv
  <1>6. Grants'[t].holder = u /\ Grants'[t].until = at + Lifetime[u]
    BY <1>4, <1>5
  <1>7. Grants'[t].until <= now + Lifetime[u]
    <2>1. at \in Nat /\ Lifetime[u] \in Nat /\ at <= now /\ now \in Nat
      BY CreateEffect DEF StoreInv, TypeOK
    <2>. QED
      BY <1>6, <2>1
  <1>8. Lifecycle!OthersKept({t})
    BY CreateEffect, OneGrantChanges DEF StoreInv
  <1>9. UNCHANGED Spent
    BY <1>3, CreateEffect DEF Create, Spent, StoreInv, HasRow, TypeOK
  <1>. QED
    BY <1>1, <1>2, <1>4, <1>6, <1>7, <1>8, <1>9 DEF Lifecycle!Issue

\* A slide that writes moves the deadline forward, never past now + lifetime:
\* the old expiry is the old last_seen plus the same lifetime.
LEMMA TouchExtends ==
  ASSUME StoreInv, StoreInv', NEW t \in Token, NEW at \in Readings, HasRow(t),
         Touch(t, Lifetime[rows[t].user], at), ~UNCHANGED rows
  PROVE  Lifecycle!Extend(t)
  <1>1. /\ Grants[t] = [holder |-> rows[t].user, until |-> rows[t].expires]
        /\ Grants[t] # NoRow
    BY GrantOfRow DEF StoreInv
  <1>2. HasRow(t)'
    BY TouchEffect DEF StoreInv, HasRow
  <1>3. /\ Grants'[t] = [holder |-> rows'[t].user, until |-> rows'[t].expires]
        /\ Grants'[t] # NoRow
    BY <1>2, NoRowAssumption DEF StoreInv, Grants, HasRow, TypeOK, Session
  <1>4. /\ rows'[t].user = rows[t].user
        /\ rows'[t].expires = at + Lifetime[rows[t].user]
        /\ rows[t] \in Session
        /\ at \in Nat /\ at <= now /\ now \in Nat
        /\ at >= rows[t].lastSeen + TouchInterval
    BY TouchEffect DEF StoreInv, Slides, TouchDue, TypeOK
  <1>5. rows[t].expires = rows[t].lastSeen + Lifetime[rows[t].user]
    BY DEF StoreInv, ExpiryFollowsRole
  <1>6. Lifetime[rows[t].user] \in Nat
    BY <1>4, LifetimeIsPositive DEF Session
  <1>7. /\ rows[t].expires < rows'[t].expires
        /\ rows'[t].expires <= now + Lifetime[rows[t].user]
    BY <1>4, <1>5, <1>6, SessionAssumption DEF Session
  <1>8. Lifecycle!OthersKept({t})
    BY TouchEffect, OneGrantChanges DEF StoreInv
  <1>9. UNCHANGED <<now, users, Spent>>
    <2>1. UNCHANGED <<now, users, minted>>
      BY DEF Touch
    <2>2. \A s \in Token : HasRow(s)' <=> HasRow(s)
      BY <1>2, TouchEffect DEF StoreInv, HasRow
    <2>. QED
      BY <2>1, <2>2 DEF Spent, StoreInv, TypeOK
  <1>10. /\ Grants[t].holder = rows[t].user /\ Grants[t].until = rows[t].expires
         /\ Grants'[t].holder = rows[t].user /\ Grants'[t].until = rows'[t].expires
    BY <1>1, <1>3, <1>4
  <1>. QED
    BY <1>1, <1>3, <1>7, <1>8, <1>9, <1>10 DEF Lifecycle!Extend, Lifecycle!Valid

\* A statement that finds no row to delete changes no grant.
LEMMA NothingDeleted ==
  ASSUME StoreInv, rows' = Without({}), UNCHANGED <<now, users, minted>>
  PROVE  UNCHANGED Lifecycle!lifecycleVars
  <1>1. rows' = rows
    BY DEF Without, StoreInv, TypeOK
  <1>. QED
    BY <1>1 DEF Lifecycle!lifecycleVars, Grants, Spent, HasRow

\* Deleting one token's row, if there is one, signs it out.
LEMMA DeletionSignsOut ==
  ASSUME StoreInv, NEW t \in Token, NEW S \in SUBSET {t},
         rows' = Without(S), UNCHANGED <<now, users, minted>>
  PROVE  Lifecycle!SignOut(t) \/ UNCHANGED Lifecycle!lifecycleVars
  <1>1. CASE S = {t} /\ HasRow(t)
    BY <1>1, DeletionEnds DEF Lifecycle!SignOut
  <1>2. CASE S = {} \/ ~HasRow(t)
    <2>. rows' = Without({})
      BY <1>2 DEF Without, HasRow, StoreInv, TypeOK
    <2>. QED
      BY NothingDeleted
  <1>. QED
    BY <1>1, <1>2

\* Deleting a kid ends exactly the kid's tokens.
LEMMA DeleteKidDrops ==
  ASSUME StoreInv, NEW k \in Kid, DeleteKid(k)
  PROVE  Lifecycle!DropAccount(k)
  <1>. DEFINE S == {t \in Token : HasRow(t) /\ rows[t].user = k}
  <1>1. Lifecycle!End(S)
    BY DeletionEnds DEF DeleteKid
  <1>2. S = {t \in Token : Lifecycle!Valid(t) /\ Grants[t].holder = k}
    <2>1. TypeOK
      BY DEF StoreInv
    <2>2. \A t \in Token : HasRow(t) /\ rows[t].user = k
                            <=> Grants[t] # NoRow /\ Grants[t].holder = k
      BY <2>1, GrantOfRow
    <2>. QED
      BY <2>2 DEF Lifecycle!Valid
  <1>. QED
    BY <1>1, <1>2 DEF Lifecycle!DropAccount, DeleteKid

\* The sweep, even on an old clock reading, ends only grants past their deadline.
LEMMA ExpiredLapse ==
  ASSUME StoreInv, NEW at \in Readings, DeleteExpired(at)
  PROVE  \E S \in SUBSET Token : Lifecycle!Lapse(S)
  <1>. DEFINE S == {t \in Token : HasRow(t) /\ rows[t].expires <= at}
  <1>1. Lifecycle!End(S)
    BY DeletionEnds DEF DeleteExpired
  <1>2. \A t \in S : Grants[t].until <= now
    <2>. SUFFICES ASSUME NEW t \in S PROVE Grants[t].until <= now
      OBVIOUS
    <2>. TypeOK /\ t \in Token /\ HasRow(t)
      BY DEF StoreInv
    <2>1. Grants[t].until = rows[t].expires
      BY GrantOfRow
    <2>2. rows[t].expires \in Nat /\ at \in Nat /\ now \in Nat /\ at <= now
      BY DEF HasRow, StoreInv, TypeOK, Session, Readings
    <2>. QED
      BY <2>1, <2>2
  <1>. QED
    BY <1>1, <1>2 DEF Lifecycle!Lapse, DeleteExpired

\* One step of the table is one step of the life cycle, or none.
LEMMA LifecycleStep ==
  ASSUME StoreInv, StoreInv', [StoreNext]_storeVars
  PROVE  [Lifecycle!LifecycleNext]_(Lifecycle!lifecycleVars)
  <1>. SUFFICES \/ Lifecycle!LifecycleNext \/ UNCHANGED Lifecycle!lifecycleVars
    OBVIOUS
  <1>1. CASE Tick
    <2>. Lifecycle!Pass
      BY <1>1 DEF Tick, StoreInv, TypeOK, Lifecycle!Pass, Grants, Spent, HasRow
    <2>. QED
      BY DEF Lifecycle!LifecycleNext
  <1>2. ASSUME NEW t \in Token, NEW u \in User, NEW at \in Readings,
               Create(t, u, Lifetime[u], at)
        PROVE  Lifecycle!LifecycleNext
    BY <1>2, CreateIssues DEF Lifecycle!LifecycleNext
  <1>3. ASSUME NEW t \in Token, NEW at \in Readings, HasRow(t),
               Touch(t, Lifetime[rows[t].user], at), ~UNCHANGED rows
        PROVE  Lifecycle!LifecycleNext
    BY <1>3, TouchExtends DEF Lifecycle!LifecycleNext
  <1>4. ASSUME NEW t \in Token, NEW S \in SUBSET {t}, Deletes(S)
        PROVE  Lifecycle!LifecycleNext \/ UNCHANGED Lifecycle!lifecycleVars
    BY <1>4, DeletionSignsOut DEF Deletes, Lifecycle!LifecycleNext
  <1>5. ASSUME NEW at \in Readings, DeleteExpired(at)
        PROVE  Lifecycle!LifecycleNext
    BY <1>5, ExpiredLapse DEF Lifecycle!LifecycleNext
  <1>6. ASSUME NEW k \in Kid, DeleteKid(k)
        PROVE  Lifecycle!LifecycleNext
    BY <1>6, DeleteKidDrops DEF Lifecycle!LifecycleNext, User
  <1>7. CASE UNCHANGED storeVars
    BY <1>7 DEF storeVars, Lifecycle!lifecycleVars, Grants, Spent, HasRow
  <1>8. CASE UNCHANGED rows /\ UNCHANGED <<now, users, minted>>
    BY <1>8, <1>7 DEF storeVars
  <1>9. ASSUME NEW t \in Token, Destroy(t)
        PROVE  Lifecycle!LifecycleNext \/ UNCHANGED Lifecycle!lifecycleVars
    BY <1>9, <1>4, Deletions
  <1>10. ASSUME NEW t \in Token, NEW u \in User, RevokeByHandle(u, t)
         PROVE  Lifecycle!LifecycleNext \/ UNCHANGED Lifecycle!lifecycleVars
    BY <1>10, <1>4, Deletions
  <1>. QED
    BY <1>1, <1>2, <1>3, <1>5, <1>6, <1>7, <1>8, <1>9, <1>10 DEF StoreNext, Touch

\* The empty table has issued no token.
LEMMA LifecycleStart == StoreInit => Lifecycle!LifecycleInit
  BY DEF StoreInit, Lifecycle!LifecycleInit, Grants, Spent, HasRow

\* The sessions table keeps the Store contract.
THEOREM StoreImplementsLifecycle == StoreSpec => ImplementsLifecycle
  <1>1. StoreInv /\ StoreInv' /\ [StoreNext]_storeVars
          => [Lifecycle!LifecycleNext]_(Lifecycle!lifecycleVars)
    BY LifecycleStep
  <1>. QED
    BY <1>1, LifecycleStart, StoreInvariant, PTL
       DEF StoreSpec, ImplementsLifecycle, Lifecycle!LifecycleSpec
=============================================================================
