---------------------------- MODULE SessionStore ----------------------------
(***************************************************************************)
(* The sessions table (internal/session: session.go, pgstore.go) and the   *)
(* part of the users table it references.  One action per Store method.    *)
(* Every statement carries its own reading `at` of the clock: PgStore      *)
(* reads Clock first and runs the SQL later, so `at` may be older than now.*)
(* A token stands for itself, its hash and its handle: they are minted     *)
(* together, at random, once.                                              *)
(***************************************************************************)
EXTENDS Integers

CONSTANTS
  Token,          \* tokens a run can mint
  Adult, Kid,     \* account ids: the adult roles, the kid role
  NoRow,          \* "no such row"
  TouchInterval, AdultLifetime, KidLifetime,
  MaxTime         \* bound on the clock

ASSUME SessionAssumption ==
  /\ Adult \cap Kid = {}
  /\ TouchInterval \in Nat \ {0}
  /\ AdultLifetime \in Nat \ {0}
  /\ KidLifetime \in Nat \ {0}
  /\ MaxTime \in Nat

User == Adult \cup Kid

Session == [user : User, created : Nat, lastSeen : Nat, expires : Nat]

\* NoRow stands for the absence of a row and of what is read out of one.
ASSUME NoRowAssumption ==
  /\ NoRow \notin Session
  /\ NoRow \notin [holder : User, until : Nat]

VARIABLES
  now,      \* the clock every timestamp comes from
  users,    \* accounts with a row in the users table
  rows,     \* rows[t]: the session of t, or NoRow
  minted    \* tokens Create has handed out

storeVars == <<now, users, rows, minted>>

\* session.Lifetime of u's role: anything that is not a kid gets the adult's.
Lifetime == [u \in User |-> IF u \in Kid THEN KidLifetime ELSE AdultLifetime]

HasRow(t) == rows[t] # NoRow

Live(t, at) == HasRow(t) /\ at < rows[t].expires

TouchDue(t, at) == at >= rows[t].lastSeen + TouchInterval

Readings == 0..now

Without(S) == [t \in Token |-> IF t \in S THEN NoRow ELSE rows[t]]

StoreInit ==
  /\ now = 0
  /\ users = User
  /\ rows = [t \in Token |-> NoRow]
  /\ minted = {}

Tick ==
  /\ now < MaxTime
  /\ now' = now + 1
  /\ UNCHANGED <<users, rows, minted>>

\* Mutant of Create: a token is only checked against the rows there are now.
CreateReusesToken(t, u, life, at) ==
  /\ ~HasRow(t)
  /\ u \in users
  /\ rows' = [rows EXCEPT ![t] = [user |-> u, created |-> at,
                                  lastSeen |-> at, expires |-> at + life]]
  /\ minted' = minted \cup {t}
  /\ UNCHANGED <<now, users>>

\* The foreign key refuses a session for an account that is gone.
Create(t, u, life, at) ==
  /\ t \notin minted
  /\ u \in users
  /\ rows' = [rows EXCEPT ![t] = [user |-> u, created |-> at,
                                  lastSeen |-> at, expires |-> at + life]]
  /\ minted' = minted \cup {t}
  /\ UNCHANGED <<now, users>>

\* Mutant of Slides: the caller's TouchDue is trusted, the UPDATE is bare.
SlidesUnthrottled(t, at) == Live(t, at)

\* The WHERE clause of the one UPDATE: the row is live and its last write is
\* at least TouchInterval old, both on this statement's clock reading.
Slides(t, at) == Live(t, at) /\ TouchDue(t, at)

\* Mutant of Touch: the expiry is pushed out from where it was.
TouchExtendsOldExpiry(t, life, at) ==
  /\ rows' = IF Slides(t, at)
             THEN [rows EXCEPT ![t] = [@ EXCEPT !.lastSeen = at,
                                                !.expires = @ + life]]
             ELSE rows
  /\ UNCHANGED <<now, users, minted>>

Touch(t, life, at) ==
  /\ rows' = IF Slides(t, at)
             THEN [rows EXCEPT ![t] = [@ EXCEPT !.lastSeen = at,
                                                !.expires = at + life]]
             ELSE rows
  /\ UNCHANGED <<now, users, minted>>

\* An unknown token is not an error.
Destroy(t) ==
  /\ rows' = Without({t})
  /\ UNCHANGED <<now, users, minted>>

\* Mutant of RevokeByHandle: the handle is left out of the WHERE clause.
RevokeAllOfUser(u, t) ==
  /\ rows' = Without({s \in Token : HasRow(s) /\ rows[s].user = u})
  /\ UNCHANGED <<now, users, minted>>

\* Scoped to the user: another account's handle deletes nothing.
RevokeByHandle(u, t) ==
  /\ rows' = Without({s \in {t} : HasRow(s) /\ rows[s].user = u})
  /\ UNCHANGED <<now, users, minted>>

\* Mutant of DeleteExpired: the comparison the wrong way round.
DeleteUnexpired(at) ==
  /\ rows' = Without({t \in Token : HasRow(t) /\ rows[t].expires > at})
  /\ UNCHANGED <<now, users, minted>>

DeleteExpired(at) ==
  /\ rows' = Without({t \in Token : HasRow(t) /\ rows[t].expires <= at})
  /\ UNCHANGED <<now, users, minted>>

\* Mutant of DeleteKid: ON DELETE SET NULL.
DeleteKidNullsOwner(k) ==
  /\ users' = users \ {k}
  /\ rows' = [t \in Token |-> IF HasRow(t) /\ rows[t].user = k
                              THEN [rows[t] EXCEPT !.user = NoRow] ELSE rows[t]]
  /\ UNCHANGED <<now, minted>>

\* ON DELETE CASCADE takes the account's sessions with it.
DeleteKid(k) ==
  /\ users' = users \ {k}
  /\ rows' = Without({t \in Token : HasRow(t) /\ rows[t].user = k})
  /\ UNCHANGED <<now, minted>>

StoreNext ==
  \/ Tick
  \/ \E t \in Token, at \in Readings :
       \/ \E u \in User : Create(t, u, Lifetime[u], at)
       \/ HasRow(t) /\ Touch(t, Lifetime[rows[t].user], at)
  \/ \E t \in Token :
       \/ Destroy(t)
       \/ \E u \in User : RevokeByHandle(u, t)
  \/ \E at \in Readings : DeleteExpired(at)
  \/ \E k \in Kid : DeleteKid(k)

StoreSpec == StoreInit /\ [][StoreNext]_storeVars

\* RunSweeper: the ticker fires again and again, a failed pass is tried again
\* at the next one, and every pass reads the clock afresh.
StoreFairSpec == StoreSpec /\ WF_storeVars(DeleteExpired(now))

-----------------------------------------------------------------------------
\* Every variable stays in its type.
TypeOK ==
  /\ now \in 0..MaxTime
  /\ users \in SUBSET User
  /\ rows \in [Token -> Session \cup {NoRow}]
  /\ minted \in SUBSET Token

\* No session outlives its account: whatever the order of sign-ins, slides
\* and account deletions, a row's user is in the users table.
OwnerExists == \A t \in Token : HasRow(t) => rows[t].user \in users

\* A session expires exactly its owner's role lifetime after it was last seen,
\* so no interleaving of slides gives an adult the kid's months.
ExpiryFollowsRole ==
  \A t \in Token : HasRow(t) =>
    rows[t].expires = rows[t].lastSeen + Lifetime[rows[t].user]

\* A session that was destroyed, revoked, swept or cascaded away is never
\* back: a slide already under way when it ended writes nothing.
EndedIsFinal ==
  [][\A t \in minted : ~HasRow(t) => ~HasRow(t)']_storeVars

\* A row that is written again belongs to the same sign-in, seen later.
SlidOnly(t) ==
  /\ rows'[t].lastSeen >= rows[t].lastSeen + TouchInterval
  /\ rows'[t].user = rows[t].user
  /\ rows'[t].created = rows[t].created

ChangesAreSlides ==
  \A t \in Token : HasRow(t) /\ rows'[t] \notin {rows[t], NoRow} => SlidOnly(t)

\* However many requests race to slide one session, two writes of last_seen
\* are at least TouchInterval apart, and a slide never changes the owner.
SlidesAreThrottled == [][ChangesAreSlides]_storeVars

\* A row past its expiry does not stay in the table: it is swept, unless a
\* slide that read the clock before pushed the expiry out again.
ExpiredAreSwept ==
  \A t \in Token : (HasRow(t) /\ ~Live(t, now)) ~> ~(HasRow(t) /\ ~Live(t, now))

\* The table read as grants: who holds a token until when, and what is over.
Grants == [t \in Token |-> IF HasRow(t) THEN [holder |-> rows[t].user,
                                              until |-> rows[t].expires]
                           ELSE NoRow]
Spent == {t \in minted : ~HasRow(t)}

Lifecycle == INSTANCE TokenLifecycle WITH
  NoGrant <- NoRow, grant <- Grants, spent <- Spent

\* The Store contract: a step of the table is a step of the token life cycle.
ImplementsLifecycle == Lifecycle!LifecycleSpec
=============================================================================
