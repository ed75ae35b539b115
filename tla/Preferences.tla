---------------------------- MODULE Preferences ----------------------------
(***************************************************************************)
(* Each account's preferences: PATCH /api/me (internal/api/auth.go), which *)
(* checks the whole body and then runs one UPDATE per field; the defaults  *)
(* an account is created with; and migration 0016, which gives accounts of *)
(* an older release the uptime preference, and is run again at every start.*)
(***************************************************************************)
EXTENDS Integers

CONSTANTS
  Adult, Kid,     \* accounts a run can create
  Call,           \* the PATCHes of a run, each sent once
  Sent,           \* the fields whose values a run's bodies vary
  Leave,          \* a field the body does not carry
  Bad,            \* a value the field does not accept
  NoAccount

Field == {"theme", "density", "health", "uptime"}

ASSUME PreferencesAssumption ==
  /\ Adult \cap Kid = {} /\ Sent \subseteq Field
  /\ NoAccount \notin Adult \cup Kid /\ Leave # Bad

\* The order handlePatchMe writes the fields in, and two values of each.
Place(f) == CASE f = "theme" -> 1 [] f = "density" -> 2
              [] f = "health" -> 3 [] f = "uptime" -> 4
Allowed(f) == CASE f = "theme" -> {"system", "dark"}
                [] f = "density" -> {"large", "compact"}
                [] f \in {"health", "uptime"} -> {"shown", "hidden"}
Carried(f) == {Leave} \cup (IF f \in Sent THEN Allowed(f) \cup {Bad} ELSE {})

Choice(t, d, h, u) ==
  [f \in Field |-> CASE f = "theme" -> t [] f = "density" -> d
                     [] f = "health" -> h [] f = "uptime" -> u]
Choices(Of(_)) == {Choice(t, d, h, u) : t \in Of("theme"), d \in Of("density"),
                                        h \in Of("health"), u \in Of("uptime")}

User == Adult \cup Kid
Preference == Choices(Allowed)
Bodies == Choices(Carried)

VARIABLES
  pref,       \* pref[u]: the row of account u, or NoAccount
  deleted,    \* accounts that are gone: an id is not used twice
  column,     \* does users.show_uptime_display exist?
  default,    \* system_settings.show_uptime_display
  call        \* call[c]: the handler of PATCH c

prefsVars == <<pref, deleted, column, default, call>>

PatchCodes == {0, 200, 400, 403, 500}
PatchCall ==
  [phase : {"free", "write", "done"}, user : User \cup {NoAccount}, body : Bodies,
   todo : SUBSET Field, code : PatchCodes,
   stored : SUBSET Field]       \* history: the fields it wrote

Unused == [phase |-> "free", user |-> NoAccount, body |-> [f \in Field |-> Leave],
           todo |-> {}, code |-> 0, stored |-> {}]

Accounts == {u \in User : pref[u] # NoAccount}
Asked(b) == {f \in Field : b[f] # Leave}

\* What an account is created with: CreateUser, CreateKid.
Created(u, uptime) ==
  Choice("system", IF u \in Kid THEN "large" ELSE "compact",
         IF u \in Kid THEN "hidden" ELSE "shown", uptime)

\* A new database, or one whose adults have no uptime preference yet.
PrefsInit ==
  /\ column = FALSE /\ default \in Allowed("uptime")
  /\ \E old \in SUBSET Adult :
       pref = [u \in User |-> IF u \in old THEN Created(u, "shown") ELSE NoAccount]
  /\ deleted = {}
  /\ call = [c \in Call |-> Unused]

-----------------------------------------------------------------------------
(* Accounts, the system default and the migration                          *)

CreateAccount(u) ==
  /\ column /\ u \notin Accounts \cup deleted
  /\ pref' = [pref EXCEPT ![u] = Created(u, default)]
  /\ UNCHANGED <<deleted, column, default, call>>

DeleteKidAccount(u) ==
  /\ column /\ u \in Kid \cap Accounts
  /\ pref' = [pref EXCEPT ![u] = NoAccount]
  /\ deleted' = deleted \cup {u}
  /\ UNCHANGED <<column, default, call>>

\* The admin's System panel: the default of new accounts, not an override.
SetDefault ==
  /\ default' \in Allowed("uptime")
  /\ UNCHANGED <<pref, deleted, column, call>>

\* Mutant of Seeded: 0016 without its guard.
SeededAlways(u) == [pref[u] EXCEPT !["uptime"] = default]

\* 0016: whoever has no uptime preference gets what everybody saw so far.
Seeded(u) == IF column THEN pref[u] ELSE [pref[u] EXCEPT !["uptime"] = default]

\* A process starts, perhaps while another serves.
Migrate0016 ==
  /\ pref' = [u \in User |-> IF u \in Accounts THEN Seeded(u) ELSE NoAccount]
  /\ column' = TRUE
  /\ UNCHANGED <<deleted, default, call>>

-----------------------------------------------------------------------------
(* PATCH /api/me                                                           *)

Badly(b, fields) == \E f \in fields : b[f] = Bad

\* Mutant of Refusal: values are left to the columns' CHECKs.
RefusalOfShape(u, b) ==
  IF Badly(b, {"health", "uptime"}) THEN 400
  ELSE IF u \in Kid /\ ~(Asked(b) \subseteq {"theme"}) THEN 403
  ELSE IF Asked(b) = {} THEN 400 ELSE 0

\* Everything is checked before anything is written; 0: nothing to object to.
Refusal(u, b) ==
  IF Badly(b, {"health", "uptime"}) THEN 400          \* not JSON of that type
  ELSE IF u \in Kid /\ ~(Asked(b) \subseteq {"theme"}) THEN 403
  ELSE IF Asked(b) = {} \/ Badly(b, {"theme", "density"}) THEN 400
  ELSE 0

Arriving(u, b) ==
  [phase |-> IF Refusal(u, b) = 0 THEN "write" ELSE "done", user |-> u, body |-> b,
   todo |-> Asked(b), code |-> Refusal(u, b), stored |-> {}]

\* currentUser reads the account the session is of; then the body is checked.
PatchMe(c, u, b) ==
  /\ column /\ u \in Accounts /\ call[c].phase = "free"
  /\ call' = [call EXCEPT ![c] = Arriving(u, b)]
  /\ UNCHANGED <<pref, deleted, column, default>>

Ends(k, code) == [k EXCEPT !.phase = "done", !.code = code]
NextField(k) == CHOOSE f \in k.todo : \A g \in k.todo : Place(f) <= Place(g)
Wrote(k, f) == [k EXCEPT !.stored = @ \cup {f}, !.todo = @ \ {f}]
Proceeds(k) == IF k.todo = {} THEN Ends(k, 200) ELSE k

Failed(k) == Ends(k, 500)

\* SetThemePref, SetDensityPref, SetShowHealthBar, SetShowUptimeDisplay: each
\* writes the one row; no row is an error.  A statement may fail, or succeed
\* without the handler learning of it, and the process may stop.
WritePref(c) ==
  LET k == call[c]
      u == k.user
      f == NextField(k)
  IN  /\ k.phase = "write"
      /\ \/ call' = [call EXCEPT ![c] = Failed(k)] /\ UNCHANGED pref
         \/ /\ u \in Accounts /\ k.body[f] # Bad       \* a CHECK of the column
            /\ pref' = [pref EXCEPT ![u][f] = k.body[f]]
            /\ \/ call' = [call EXCEPT ![c] = Proceeds(Wrote(k, f))]
               \/ call' = [call EXCEPT ![c] = Failed(Wrote(k, f))]
      /\ UNCHANGED <<deleted, column, default>>

PrefsNext ==
  \/ \E u \in User : CreateAccount(u) \/ DeleteKidAccount(u)
  \/ SetDefault \/ Migrate0016
  \/ \E c \in Call : \/ \E u \in User, b \in Bodies : PatchMe(c, u, b)
                     \/ WritePref(c)

PrefsSpec == PrefsInit /\ [][PrefsNext]_prefsVars

-----------------------------------------------------------------------------
\* Every variable stays in its type.
PrefsTypeOK ==
  /\ pref \in [User -> Preference \cup {NoAccount}]
  /\ deleted \subseteq Kid /\ column \in BOOLEAN /\ default \in Allowed("uptime")
  /\ call \in [Call -> PatchCall]

\* A stored preference changes by a PATCH of that very account that asked for
\* the value, a kid's only its theme: neither an admin's new default nor a
\* restart's migration resets what a user chose.
PrefsAreOwn ==
  [][\A u \in Accounts : column /\ pref'[u] # NoAccount =>
       \A f \in Field : pref'[u][f] # pref[u][f] =>
         /\ u \in Kid => f = "theme"
         /\ \E c \in Call : /\ call[c].phase = "write" /\ call[c].user = u
                            /\ call[c].body[f] = pref'[u][f]]_prefsVars

\* "A bad field cannot half-apply a request": one that is refused has stored
\* nothing and one that is answered 200 all it asked; only an error in between
\* leaves a part, and then the fields before some point, never a later one.
AnswerIsHonest ==
  \A c \in Call :
    LET k == call[c]
    IN  /\ Badly(k.body, Field) => k.stored = {}
        /\ k.code = 200 => k.stored = Asked(k.body)
        /\ k.code \in {400, 403} => k.stored = {}
        /\ \E n \in 0..4 : k.stored = {f \in Asked(k.body) : Place(f) <= n}
=============================================================================
