--------------------------- MODULE TokenLifecycle ---------------------------
(***************************************************************************)
(* What the session.Store contract promises about sign-in tokens, whatever *)
(* the store keeps them in: a token is issued at most once, its grant is   *)
(* extended only while it stands and never beyond its holder's lifetime,   *)
(* and it ends by a sign-out of that one token, by the deletion of its     *)
(* holder's account, or after its deadline -- and then for ever.           *)
(***************************************************************************)
EXTENDS Integers

CONSTANTS
  Token,      \* the tokens a run can mint
  User,       \* every account id, adults and kids
  NoGrant,    \* the grant of a token that is not valid
  Lifetime    \* Lifetime[u]: the sliding session lifetime of u's role

VARIABLES
  now,        \* the clock
  users,      \* the accounts that exist
  grant,      \* grant[t]: holder and deadline of a valid token, or NoGrant
  spent       \* the tokens that were valid once and are not any more

lifecycleVars == <<now, users, grant, spent>>

Valid(t) == grant[t] # NoGrant

LifecycleInit ==
  /\ now = 0
  /\ users = User
  /\ grant = [t \in Token |-> NoGrant]
  /\ spent = {}

\* Only the grants of S may differ from what they were.
OthersKept(S) ==
  /\ grant' = [t \in Token |-> grant'[t]]
  /\ \A t \in Token \ S : grant'[t] = grant[t]

Pass ==
  /\ now' > now
  /\ UNCHANGED <<users, grant, spent>>

\* A fresh token for an account that exists, with at most its role's lifetime.
Issue(t, u) ==
  /\ t \notin spent
  /\ ~Valid(t)
  /\ u \in users
  /\ grant'[t] # NoGrant
  /\ grant'[t].holder = u
  /\ grant'[t].until <= now + Lifetime[u]
  /\ OthersKept({t})
  /\ UNCHANGED <<now, users, spent>>

\* The deadline of a valid token moves forward; its holder stays.
Extend(t) ==
  /\ Valid(t)
  /\ grant'[t] # NoGrant
  /\ grant'[t].holder = grant[t].holder
  /\ grant[t].until < grant'[t].until
  /\ grant'[t].until <= now + Lifetime[grant[t].holder]
  /\ OthersKept({t})
  /\ UNCHANGED <<now, users, spent>>

\* Exactly the valid tokens of S end, and stay spent.
End(S) ==
  /\ \A t \in S : Valid(t)
  /\ grant' = [t \in Token |-> IF t \in S THEN NoGrant ELSE grant[t]]
  /\ spent' = spent \cup S
  /\ UNCHANGED now

SignOut(t) == End({t}) /\ UNCHANGED users

Lapse(S) ==
  /\ End(S)
  /\ \A t \in S : grant[t].until <= now
  /\ UNCHANGED users

\* Deleting an account ends all of its tokens and no other.
DropAccount(u) ==
  /\ End({t \in Token : Valid(t) /\ grant[t].holder = u})
  /\ users' = users \ {u}

LifecycleNext ==
  \/ Pass
  \/ \E t \in Token :
       \/ \E u \in User : Issue(t, u)
       \/ Extend(t)
       \/ SignOut(t)
  \/ \E S \in SUBSET Token : Lapse(S)
  \/ \E u \in User : DropAccount(u)

LifecycleSpec == LifecycleInit /\ [][LifecycleNext]_lifecycleVars
=============================================================================
