------------------------------ MODULE OidcKeys ------------------------------
(***************************************************************************)
(* What oidc.Provider (internal/oidc/oidc.go, verify.go) caches: the       *)
(* discovery document, fetched under the mutex, and the signing keys,      *)
(* fetched without it.  Several OIDC callbacks exchange their code and     *)
(* verify their ID token at once, while the identity provider, which is    *)
(* external, rotates its keys, answers late or not at all.  A key and its  *)
(* kid are one value; everything else an ID token is checked for may pass  *)
(* or fail.                                                                *)
(***************************************************************************)
CONSTANTS
  Key,            \* the provider's signing keys, by kid
  Verification,   \* callbacks in progress at once
  NoKey

ASSUME KeyAssumption == NoKey \notin Key

VARIABLES
  published,      \* the key set at jwks_uri
  meta,           \* has the discovery document been read?
  keys,           \* Provider.keys
  verify          \* verify[v]: a callback, from Exchange to VerifyIDToken

keysVars == <<published, meta, keys, verify>>

Verdicts == {"accepted", "refused", "no key", "unavailable"}
VerifyPhases == {"waiting", "discovering", "token", "lookup", "fetch", "publish", "again"}

Verifying == [phase : VerifyPhases \cup Verdicts, kid : Key \cup {NoKey},
              answer : SUBSET Key, alone : BOOLEAN]
Waiting == [phase |-> "waiting", kid |-> NoKey, answer |-> {},
            alone |-> TRUE]   \* history: has nobody else refreshed meanwhile?

Is(v, phase) == verify[v].phase = phase
Becomes(v, k) == verify' = [verify EXCEPT ![v] = k]
AtPhase(k, phase) == [k EXCEPT !.phase = phase]
Moves(v, phase) == Becomes(v, AtPhase(verify[v], phase))
Refreshing(v) == \E phase \in {"fetch", "publish", "again"} : Is(v, phase)

\* p.mu, which discover holds over its request; the others only in passing.
Mutex == \A v \in Verification : ~Is(v, "discovering")

KeysInit ==
  /\ published \in SUBSET Key \ {{}}
  /\ meta = FALSE /\ keys = {}
  /\ verify = [v \in Verification |-> Waiting]

\* The provider signs with another key, and may keep listing the old one.
Rotate ==
  /\ published' \in SUBSET Key \ {{}}
  /\ UNCHANGED <<meta, keys, verify>>

Verdict(v, verdict) == Moves(v, verdict)

-----------------------------------------------------------------------------
(* Exchange, which discovers first; the verdict before was another login's *)

Discover(v) ==
  /\ \E phase \in Verdicts \cup {"waiting"} : Is(v, phase)
  /\ Mutex
  /\ Becomes(v, AtPhase(Waiting, IF meta THEN "token" ELSE "discovering"))
  /\ UNCHANGED <<published, meta, keys>>

Discovered(v) ==
  /\ Is(v, "discovering")
  /\ \/ meta' = TRUE /\ Moves(v, "token")
     \/ Verdict(v, "unavailable") /\ UNCHANGED meta
  /\ UNCHANGED <<published, keys>>

SignedWith(k, key) == [k EXCEPT !.phase = "lookup", !.kid = key]

\* The ID token is signed with a key of the moment.
Exchange(v) ==
  /\ Is(v, "token")
  /\ \/ \E key \in published : Becomes(v, SignedWith(verify[v], key))
     \/ Verdict(v, "unavailable")
  /\ UNCHANGED <<published, meta, keys>>

-----------------------------------------------------------------------------
(* VerifyIDToken                                                           *)

\* The signature, issuer, audience, expiry and nonce, with the key at hand.
Checked(v) == Verdict(v, "accepted") \/ Verdict(v, "refused")

Fetching(k, alone) == [k EXCEPT !.phase = "fetch", !.alone = alone]
Overlapped(k) == [k EXCEPT !.alone = FALSE]

\* signingKey: a key of that kid is cached, or the set is refreshed, once.
SigningKey(v) ==
  /\ Is(v, "lookup") /\ Mutex
  /\ IF verify[v].kid \in keys THEN Checked(v)
     ELSE verify' = [w \in Verification |->
            IF w = v THEN Fetching(verify[v], \A u \in Verification \ {v} : ~Refreshing(u))
            ELSE IF Refreshing(w) THEN Overlapped(verify[w])
            ELSE verify[w]]
  /\ UNCHANGED <<published, meta, keys>>

WithAnswer(k, set) == [k EXCEPT !.phase = "publish", !.answer = set]

\* refreshKeys reads the set (discover has cached the rest); a request that
\* fails, or one key that does not parse, leaves the cache as it is.
FetchKeys(v) ==
  /\ Is(v, "fetch") /\ Mutex
  /\ \/ Becomes(v, WithAnswer(verify[v], published))
     \/ Verdict(v, "refused")
  /\ UNCHANGED <<published, meta, keys>>

\* Mutant of PublishKeys: the cache is filled once.
PublishKeysOnce(v) ==
  /\ Is(v, "publish") /\ Mutex
  /\ keys' = IF keys = {} THEN verify[v].answer ELSE keys
  /\ Moves(v, "again")
  /\ UNCHANGED <<published, meta>>

\* ... and puts it in the place of whatever set is there by now.
PublishKeys(v) ==
  /\ Is(v, "publish") /\ Mutex
  /\ keys' = verify[v].answer
  /\ Moves(v, "again")
  /\ UNCHANGED <<published, meta>>

\* signingKey looks the key up again, in the cache and not in its own answer.
LookupAgain(v) ==
  /\ Is(v, "again") /\ Mutex
  /\ IF verify[v].kid \in keys THEN Checked(v) ELSE Verdict(v, "no key")
  /\ UNCHANGED <<published, meta, keys>>

\* The caches are the process's, and so are the callbacks.
RestartProvider ==
  /\ meta' = FALSE /\ keys' = {}
  /\ verify' = [v \in Verification |-> Waiting]
  /\ UNCHANGED published

KeysNext ==
  \/ Rotate \/ RestartProvider
  \/ \E v \in Verification :
       \/ Discover(v) \/ Discovered(v) \/ Exchange(v)
       \/ SigningKey(v) \/ FetchKeys(v) \/ PublishKeys(v) \/ LookupAgain(v)

KeysSpec == KeysInit /\ [][KeysNext]_keysVars

-----------------------------------------------------------------------------
\* Every variable stays in its type.
KeysTypeOK ==
  /\ published \subseteq Key /\ keys \subseteq Key /\ meta \in BOOLEAN
  /\ verify \in [Verification -> Verifying]

\* "Refreshing the cached key set once if the kid is unknown (handles provider
\* key rotation)": a login is refused for want of its key only if the provider
\* did not list it when asked -- unless another login's refresh overlapped,
\* whose older answer may replace the newer one before it is looked at.
RotationFollowedUnlessOverlapped ==
  \A v \in Verification :
    Is(v, "no key") /\ verify[v].alone => verify[v].kid \notin verify[v].answer
=============================================================================
