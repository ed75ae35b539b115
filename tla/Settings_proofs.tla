-------------------------- MODULE Settings_proofs --------------------------
(***************************************************************************)
(* The System settings, for every set of concurrent PATCHes and thresholds;*)
(* and the preferences of every set of accounts.                           *)
(***************************************************************************)
EXTENDS SystemSettings, Preferences, TLAPS

Slot == [phase : {"free", "read", "upsert", "apply"},
         body : Patch, cur : Settings, passed : BOOLEAN]

\* A merged row waits to be saved with the omitted fields still as they are in
\* the row, unless another PATCH was saved since the row was read.
FreshMerge(r) ==
  InPhase(r, "upsert") /\ ~patch[r].passed =>
    /\ patch[r].body.uptime = Omit => patch[r].cur.uptime = row.uptime
    /\ patch[r].body.ms = Omit => patch[r].cur.ms = row.ms

\* While no two PATCHes overlapped, at most one was saved and not yet applied,
\* and it saved the row as it is.
OneApplying ==
  /\ \A r \in Patching : InPhase(r, "apply") => patch[r].cur = row
  /\ \A r, q \in Patching : InPhase(r, "apply") /\ InPhase(q, "apply") => r = q

SettingsInv ==
  /\ SettingsTypeOK
  /\ \A r \in Patching : FreshMerge(r)
  /\ agreed => OneApplying
  /\ ShownUnlessOverlapped

LEMMA NoPatchIsSlot ==
  /\ NoPatch \in Slot /\ NoPatch.phase = "free" /\ Defaults \in Settings
  /\ Defaults.ms = Unset
  BY DEF NoPatch, Slot, Patch, Settings, Defaults

LEMMA MergeIsSettings ==
  ASSUME NEW cur \in Settings, NEW body \in Patch
  PROVE  /\ Merge(cur, body) \in Settings
         /\ body.uptime = Omit => Merge(cur, body).uptime = cur.uptime
         /\ body.ms = Omit => Merge(cur, body).ms = cur.ms
  BY DEF Merge, Settings, Patch

LEMMA EffectiveIsMs ==
  ASSUME NEW cfg \in Settings, threshold \in Ms \cup {EnvMs}
  PROVE  Effective(cfg) \in Ms \cup {EnvMs}
  BY DEF Effective, Settings

\* A step that changes one PATCH only.
LEMMA OneSlot ==
  ASSUME NEW r \in Patching, NEW p \in Slot, patch \in [Patching -> Slot],
         patch' = [patch EXCEPT ![r] = p]
  PROVE  /\ patch' \in [Patching -> Slot] /\ patch'[r] = p
         /\ \A q \in Patching : q # r => patch'[q] = patch[q]
  OBVIOUS

LEMMA SettingsInvInit == SettingsInit => SettingsInv
  BY NoPatchIsSlot, SettingsAssumption
     DEF SettingsInit, SettingsInv, SettingsTypeOK, FreshMerge, OneApplying,
         ShownUnlessOverlapped, InPhase, Effective, Slot

LEMMA ReceiveKeeps ==
  ASSUME SettingsInv, NEW r \in Patching, NEW body \in Patch, Receive(r, body)
  PROVE  SettingsInv'
  <1>. DEFINE p == [NoPatch EXCEPT !.phase = "read", !.body = body]
  <1>1. p \in Slot /\ p.phase = "read"
    BY NoPatchIsSlot DEF Slot
  <1>2. patch' = [patch EXCEPT ![r] = p] /\ UNCHANGED <<row, threshold, agreed>>
    BY DEF Receive
  <1>3. patch \in [Patching -> Slot]
    BY DEF SettingsInv, SettingsTypeOK, Slot
  <1>. HIDE DEF p
  <1>4. /\ patch' \in [Patching -> Slot] /\ patch'[r] = p
        /\ \A q \in Patching : q # r => patch'[q] = patch[q]
    BY <1>1, <1>2, <1>3, OneSlot
  <1>. QED
    BY <1>1, <1>2, <1>4
       DEF Receive, SettingsInv, SettingsTypeOK, FreshMerge, OneApplying,
           ShownUnlessOverlapped, InPhase, Effective, Slot

\* A PATCH that ends, having changed nothing.
LEMMA FreeingKeeps ==
  ASSUME SettingsInv, NEW r \in Patching, patch' = [patch EXCEPT ![r] = NoPatch],
         ~InPhase(r, "apply"), UNCHANGED <<row, threshold, agreed>>
  PROVE  SettingsInv'
  <1>1. patch \in [Patching -> Slot]
    BY DEF SettingsInv, SettingsTypeOK, Slot
  <1>2. /\ patch' \in [Patching -> Slot] /\ patch'[r] = NoPatch
        /\ \A q \in Patching : q # r => patch'[q] = patch[q]
    BY <1>1, NoPatchIsSlot, OneSlot
  <1>. QED
    BY <1>2, NoPatchIsSlot
       DEF SettingsInv, SettingsTypeOK, FreshMerge, OneApplying,
           ShownUnlessOverlapped, InPhase, Effective, Slot

LEMMA ReadRowKeeps ==
  ASSUME SettingsInv, NEW r \in Patching, ReadRow(r)
  PROVE  SettingsInv'
  <1>1. InPhase(r, "read") /\ UNCHANGED <<row, threshold, agreed>>
    BY DEF ReadRow
  <1>2. CASE patch' = [patch EXCEPT ![r] = NoPatch]
    BY <1>1, <1>2, FreeingKeeps DEF InPhase
  <1>3. CASE patch' = [patch EXCEPT ![r].phase = "upsert",
                                    ![r].cur = Merge(row, patch[r].body)]
    <2>. DEFINE m == Merge(row, patch[r].body)
                p == [patch[r] EXCEPT !.phase = "upsert", !.cur = m]
    <2>1. patch \in [Patching -> Slot] /\ patch[r] \in Slot /\ row \in Settings
      BY DEF SettingsInv, SettingsTypeOK, Slot
    <2>2. patch[r].body \in Patch
      BY <2>1 DEF Slot
    <2>3. /\ m \in Settings
          /\ patch[r].body.uptime = Omit => m.uptime = row.uptime
          /\ patch[r].body.ms = Omit => m.ms = row.ms
      BY <2>1, <2>2, MergeIsSettings
    <2>4. patch' = [patch EXCEPT ![r] = p]
      BY <1>3, <2>1
    <2>. HIDE DEF m
    <2>5. p \in Slot /\ p.phase = "upsert" /\ p.cur = m /\ p.body = patch[r].body
      BY <2>1, <2>3 DEF Slot
    <2>. HIDE DEF p
    <2>6. /\ patch' \in [Patching -> Slot] /\ patch'[r] = p
          /\ \A q \in Patching : q # r => patch'[q] = patch[q]
      BY <2>1, <2>4, <2>5, OneSlot
    <2>. QED
      BY <1>1, <2>3, <2>5, <2>6
         DEF SettingsInv, SettingsTypeOK, FreshMerge, OneApplying,
             ShownUnlessOverlapped, InPhase, Effective, Slot
  <1>. QED
    BY <1>2, <1>3 DEF ReadRow

\* What a save leaves: the row is the merged one, and every other merge is old.
LEMMA SavedEffect ==
  ASSUME SettingsInv, NEW r \in Patching, NEW p \in Slot, Saved(r, p)
  PROVE  /\ row' = patch[r].cur /\ row' \in Settings
         /\ patch' \in [Patching -> Slot] /\ patch'[r] = p
         /\ \A q \in Patching : q # r =>
              /\ patch'[q].phase = patch[q].phase
              /\ patch'[q].cur = patch[q].cur
              /\ patch'[q].phase = "upsert" => patch'[q].passed
  <1>1. \A q \in Patching : patch[q] \in Slot
    BY DEF SettingsInv, SettingsTypeOK, Slot
  <1>2. \A q \in Patching :
          LET s == [patch[q] EXCEPT !.passed = TRUE]
          IN  /\ s \in Slot /\ s.phase = patch[q].phase /\ s.cur = patch[q].cur
              /\ s.passed
    BY <1>1 DEF Slot
  <1>3. row' = patch[r].cur /\ row' \in Settings
    BY <1>1 DEF Saved, Slot
  <1>4. \A q \in Patching : q # r => patch'[q] =
          IF InPhase(q, "upsert") THEN [patch[q] EXCEPT !.passed = TRUE] ELSE patch[q]
    BY DEF Saved
  <1>5. patch' \in [Patching -> Slot] /\ patch'[r] = p
    BY <1>1, <1>2 DEF Saved
  <1>. QED
    BY <1>2, <1>3, <1>4, <1>5 DEF InPhase

LEMMA UpsertKeeps ==
  ASSUME SettingsInv, NEW r \in Patching, Upsert(r)
  PROVE  SettingsInv'
  <1>1. patch[r] \in Slot /\ InPhase(r, "upsert") /\ UNCHANGED threshold
    BY DEF SettingsInv, SettingsTypeOK, Slot, Upsert
  <1>. DEFINE p == [patch[r] EXCEPT !.phase = "apply", !.passed = FALSE]
  <1>2. p \in Slot /\ p.phase = "apply" /\ p.cur = patch[r].cur
    BY <1>1 DEF Slot
  <1>3. CASE /\ Saved(r, p)
             /\ agreed' = (agreed /\ \A q \in Patching : ~InPhase(q, "apply"))
    <2>. HIDE DEF p
    <2>1. /\ row' = patch[r].cur /\ row' \in Settings
          /\ patch' \in [Patching -> Slot] /\ patch'[r] = p
          /\ \A q \in Patching : q # r =>
               /\ patch'[q].phase = patch[q].phase
               /\ patch'[q].cur = patch[q].cur
               /\ patch'[q].phase = "upsert" => patch'[q].passed
      BY <1>2, <1>3, SavedEffect
    <2>2. SettingsTypeOK'
      BY <1>1, <1>3, <2>1 DEF SettingsInv, SettingsTypeOK, Slot
    <2>3. \A q \in Patching : FreshMerge(q)'
      BY <1>2, <2>1 DEF FreshMerge, InPhase
    <2>4. agreed' => OneApplying'
      BY <1>2, <1>3, <2>1 DEF OneApplying, InPhase
    <2>5. ShownUnlessOverlapped'
      BY <1>2, <2>1 DEF ShownUnlessOverlapped, InPhase
    <2>. QED
      BY <2>2, <2>3, <2>4, <2>5 DEF SettingsInv
  <1>4. CASE Saved(r, NoPatch) /\ agreed' = FALSE
    <2>1. /\ row' = patch[r].cur /\ row' \in Settings
          /\ patch' \in [Patching -> Slot] /\ patch'[r] = NoPatch
          /\ \A q \in Patching : q # r =>
               (patch'[q].phase = "upsert" => patch'[q].passed)
      BY <1>4, NoPatchIsSlot, SavedEffect
    <2>. QED
      BY <1>1, <1>4, <2>1, NoPatchIsSlot
         DEF SettingsInv, SettingsTypeOK, FreshMerge, ShownUnlessOverlapped,
             InPhase, Slot
  <1>. QED
    BY <1>3, <1>4 DEF Upsert

LEMMA ApplyKeeps ==
  ASSUME SettingsInv, NEW r \in Patching, Apply(r)
  PROVE  SettingsInv'
  <1>1. /\ InPhase(r, "apply") /\ threshold' = Effective(patch[r].cur)
        /\ patch' = [patch EXCEPT ![r] = NoPatch] /\ UNCHANGED <<row, agreed>>
    BY DEF Apply
  <1>2. patch \in [Patching -> Slot] /\ patch[r].cur \in Settings
    BY DEF SettingsInv, SettingsTypeOK, Slot
  <1>3. /\ patch' \in [Patching -> Slot] /\ patch'[r] = NoPatch
        /\ \A q \in Patching : q # r => patch'[q] = patch[q]
    BY <1>1, <1>2, NoPatchIsSlot, OneSlot
  <1>4. threshold' \in Ms \cup {EnvMs}
    BY <1>1, <1>2, EffectiveIsMs DEF SettingsInv, SettingsTypeOK
  <1>5. SettingsTypeOK' /\ \A q \in Patching : FreshMerge(q)'
    BY <1>1, <1>3, <1>4, NoPatchIsSlot
       DEF SettingsInv, SettingsTypeOK, FreshMerge, InPhase, Slot
  <1>6. agreed' => OneApplying'
    BY <1>1, <1>3, NoPatchIsSlot DEF SettingsInv, OneApplying, InPhase
  <1>7. ShownUnlessOverlapped'
    BY <1>1 DEF SettingsInv, OneApplying, ShownUnlessOverlapped, Effective
  <1>. QED
    BY <1>5, <1>6, <1>7 DEF SettingsInv

LEMMA BootKeeps ==
  ASSUME SettingsInv, Boot
  PROVE  SettingsInv'
  <1>1. patch' \in [Patching -> Slot] /\ \A r \in Patching : patch'[r].phase = "free"
    BY NoPatchIsSlot DEF Boot
  <1>2. row' = row /\ row \in Settings
    BY DEF Boot, SettingsInv, SettingsTypeOK
  <1>3. threshold' \in Ms \cup {EnvMs} /\ agreed' \in BOOLEAN
    BY <1>2 DEF Boot, Settings
  <1>4. agreed' => (Effective(row) = threshold)'
    BY <1>2 DEF Boot, Effective
  <1>. QED
    BY <1>1, <1>2, <1>3, <1>4
       DEF SettingsInv, SettingsTypeOK, FreshMerge, OneApplying,
           ShownUnlessOverlapped, InPhase, Slot

LEMMA SettingsInvNext == SettingsInv /\ [SettingsNext]_settingsVars => SettingsInv'
  <1>. SUFFICES ASSUME SettingsInv, [SettingsNext]_settingsVars PROVE SettingsInv'
    OBVIOUS
  <1>1. CASE Boot
    BY <1>1, BootKeeps
  <1>2. ASSUME NEW r \in Patching, NEW body \in Patch, Receive(r, body)
        PROVE  SettingsInv'
    BY <1>2, ReceiveKeeps
  <1>3. ASSUME NEW r \in Patching, ReadRow(r)
        PROVE  SettingsInv'
    BY <1>3, ReadRowKeeps
  <1>4. ASSUME NEW r \in Patching, Upsert(r)
        PROVE  SettingsInv'
    BY <1>4, UpsertKeeps
  <1>5. ASSUME NEW r \in Patching, UpsertFails(r)
        PROVE  SettingsInv'
    BY <1>5, FreeingKeeps DEF UpsertFails, InPhase
  <1>6. ASSUME NEW r \in Patching, Apply(r)
        PROVE  SettingsInv'
    BY <1>6, ApplyKeeps
  <1>7. CASE UNCHANGED settingsVars
    BY <1>7 DEF settingsVars, SettingsInv, SettingsTypeOK, FreshMerge, OneApplying,
                ShownUnlessOverlapped, InPhase, Effective
  <1>. QED
    BY <1>1, <1>2, <1>3, <1>4, <1>5, <1>6, <1>7 DEF SettingsNext

THEOREM SettingsInvariant == SettingsSpec => []SettingsInv
  BY SettingsInvInit, SettingsInvNext, PTL DEF SettingsSpec

\* Every variable stays in its type.
THEOREM SettingsAlwaysTyped == SettingsSpec => []SettingsTypeOK
  BY SettingsInvariant, PTL DEF SettingsInv

\* What the panel shows is what the poller runs with, unless two PATCHes
\* overlapped or a save or the boot's read failed halfway.
THEOREM AlwaysShownUnlessOverlapped == SettingsSpec => []ShownUnlessOverlapped
  BY SettingsInvariant, PTL DEF SettingsInv

\* A field a PATCH leaves out keeps its value, unless another was saved between.
THEOREM OmittedFieldsAlwaysKept == SettingsSpec => OmittedFieldsKept
  <1>. DEFINE Kept == \A r \in Patching :
                        Upsert(r) /\ ~patch[r].passed =>
                          /\ patch[r].body.uptime = Omit => row'.uptime = row.uptime
                          /\ patch[r].body.ms = Omit => row'.ms = row.ms
  <1>1. SettingsInv /\ [SettingsNext]_settingsVars => [Kept]_settingsVars
    BY DEF SettingsInv, FreshMerge, Upsert, Saved
  <1>. QED
    BY <1>1, SettingsInvariant, PTL DEF SettingsSpec, OmittedFieldsKept

-----------------------------------------------------------------------------
(* The preferences                                                         *)

\* The values of each field, and which is written before which.
LEMMA FieldFacts ==
  /\ Place("theme") = 1 /\ Place("density") = 2 /\ Place("health") = 3 /\ Place("uptime") = 4
  /\ Allowed("theme") = {"system", "dark"} /\ Allowed("density") = {"large", "compact"}
  /\ Allowed("health") = {"shown", "hidden"} /\ Allowed("uptime") = {"shown", "hidden"}
  BY DEF Place, Allowed

LEMMA Places == \A f \in Field : Place(f) \in 1..4
  BY FieldFacts DEF Field

LEMMA ChoiceFields ==
  ASSUME NEW t, NEW d, NEW h, NEW u
  PROVE  LET p == Choice(t, d, h, u)
         IN  /\ p = [f \in Field |-> p[f]]
             /\ p["theme"] = t /\ p["density"] = d /\ p["health"] = h /\ p["uptime"] = u
  BY DEF Choice, Field

LEMMA ChoiceOfFields ==
  ASSUME NEW p, p = [f \in Field |-> p[f]]
  PROVE  p = Choice(p["theme"], p["density"], p["health"], p["uptime"])
  <1>1. \A f \in Field : f \in {"theme", "density", "health", "uptime"}
    BY DEF Field
  <1>2. \A f \in Field :
          p[f] = Choice(p["theme"], p["density"], p["health"], p["uptime"])[f]
    BY <1>1, ChoiceFields
  <1>. QED
    BY <1>2, ChoiceFields

\* A preference is a function of the fields to their allowed values.
LEMMA PreferenceFields ==
  ASSUME NEW p
  PROVE  p \in Preference <=>
           p = [f \in Field |-> p[f]] /\ \A f \in Field : p[f] \in Allowed(f)
  <1>1. ASSUME p \in Preference
        PROVE  p = [f \in Field |-> p[f]] /\ \A f \in Field : p[f] \in Allowed(f)
    <2>1. PICK t \in Allowed("theme"), d \in Allowed("density"), h \in Allowed("health"),
               u \in Allowed("uptime") : p = Choice(t, d, h, u)
      BY <1>1 DEF Preference, Choices
    <2>. QED
      BY <2>1, ChoiceFields DEF Field
  <1>2. ASSUME p = [f \in Field |-> p[f]], \A f \in Field : p[f] \in Allowed(f)
        PROVE  p \in Preference
    <2>1. /\ p["theme"] \in Allowed("theme") /\ p["density"] \in Allowed("density")
          /\ p["health"] \in Allowed("health") /\ p["uptime"] \in Allowed("uptime")
      BY <1>2 DEF Field
    <2>2. p = Choice(p["theme"], p["density"], p["health"], p["uptime"])
      BY <1>2, ChoiceOfFields
    <2>. QED
      BY <2>1, <2>2 DEF Preference, Choices
  <1>. QED
    BY <1>1, <1>2

\* A body carries for every field an allowed value, a bad one or nothing.
LEMMA BodyFields ==
  ASSUME NEW b \in Bodies, NEW f \in Field
  PROVE  b[f] \in Allowed(f) \cup {Leave, Bad}
  <1>1. PICK t \in Carried("theme"), d \in Carried("density"), h \in Carried("health"),
             u \in Carried("uptime") : b = Choice(t, d, h, u)
    BY DEF Bodies, Choices
  <1>2. b[f] \in Carried(f)
    BY <1>1, ChoiceFields DEF Field
  <1>. QED
    BY <1>2 DEF Carried

LEMMA NothingIsBody == [f \in Field |-> Leave] \in Bodies
  <1>. DEFINE b == [f \in Field |-> Leave]
  <1>1. \A f : Leave \in Carried(f)
    BY DEF Carried
  <1>2. b = Choice(Leave, Leave, Leave, Leave)
    BY DEF Choice, Field
  <1>. QED
    BY <1>1, <1>2 DEF Bodies, Choices

LEMMA CreatedEffect ==
  ASSUME NEW u \in User, NEW uptime \in Allowed("uptime")
  PROVE  Created(u, uptime) \in Preference
  BY FieldFacts DEF Created, Preference, Choices

\* One field of a preference is overwritten.
LEMMA OverwrittenEffect ==
  ASSUME NEW p \in Preference, NEW f \in Field, NEW v \in Allowed(f)
  PROVE  [p EXCEPT ![f] = v] \in Preference
  <1>. DEFINE q == [p EXCEPT ![f] = v]
  <1>1. p = [g \in Field |-> p[g]] /\ \A g \in Field : p[g] \in Allowed(g)
    BY PreferenceFields
  <1>2. q = [g \in Field |-> IF g = f THEN v ELSE p[g]]
    BY <1>1
  <1>. HIDE DEF q
  <1>3. q = [g \in Field |-> q[g]]
    BY <1>2
  <1>4. \A g \in Field : q[g] \in Allowed(g)
    BY <1>1, <1>2
  <1>5. q \in Preference
    BY <1>3, <1>4, PreferenceFields
  <1>. QED
    BY <1>5 DEF q

\* The next field to write is the first of those that remain.
LEMMA NextFieldIsFirst ==
  ASSUME NEW k, k.todo \subseteq Field, k.todo # {}
  PROVE  NextField(k) \in k.todo /\ \A g \in k.todo : Place(NextField(k)) <= Place(g)
  <1>1. \E f \in k.todo : \A g \in k.todo : Place(f) <= Place(g)
    <2>1. CASE "theme" \in k.todo
      BY <2>1, FieldFacts, Places
    <2>2. CASE "theme" \notin k.todo /\ "density" \in k.todo
      BY <2>2, FieldFacts DEF Field
    <2>3. CASE "theme" \notin k.todo /\ "density" \notin k.todo /\ "health" \in k.todo
      BY <2>3, FieldFacts DEF Field
    <2>4. CASE k.todo = {"uptime"}
      BY <2>4, FieldFacts
    <2>. QED
      BY <2>1, <2>2, <2>3, <2>4 DEF Field
  <1>. QED
    BY <1>1 DEF NextField

-----------------------------------------------------------------------------
\* What each step makes of a call, field by field.
LEMMA EndsEffect ==
  ASSUME NEW k \in PatchCall, NEW code \in {200, 500}
  PROVE  LET m == Ends(k, code)
         IN  /\ m \in PatchCall /\ m.phase = "done" /\ m.code = code
             /\ m.user = k.user /\ m.body = k.body /\ m.stored = k.stored
  <1>1. code \in PatchCodes
    BY DEF PatchCodes
  <1>. QED
    BY <1>1 DEF Ends, PatchCall

LEMMA WroteEffect ==
  ASSUME NEW k \in PatchCall, NEW f \in Field
  PROVE  LET m == Wrote(k, f)
         IN  /\ m \in PatchCall /\ m.phase = k.phase /\ m.code = k.code
             /\ m.user = k.user /\ m.body = k.body
             /\ m.stored = k.stored \cup {f} /\ m.todo = k.todo \ {f}
  BY DEF Wrote, PatchCall

LEMMA ArrivingEffect ==
  ASSUME NEW u \in User, NEW b \in Bodies
  PROVE  LET m == Arriving(u, b)
         IN  /\ m \in PatchCall /\ m.user = u /\ m.body = b /\ m.stored = {}
             /\ m.todo = Asked(b) /\ m.code = Refusal(u, b)
             /\ m.phase = IF Refusal(u, b) = 0 THEN "write" ELSE "done"
  <1>1. Refusal(u, b) \in PatchCodes
    BY DEF Refusal, PatchCodes
  <1>2. Asked(b) \in SUBSET Field
    BY DEF Asked
  <1>. QED
    BY <1>1, <1>2 DEF Arriving, PatchCall

LEMMA UnusedCall == Unused \in PatchCall
  BY NothingIsBody DEF Unused, PatchCall, PatchCodes

\* What the handler has written is what it was asked, in order; and it writes
\* only what it has nothing to object to.
CallSound(k) ==
  /\ k.stored \subseteq Asked(k.body)
  /\ \A f \in k.stored, g \in Asked(k.body) \ k.stored : Place(f) < Place(g)
  /\ k.phase = "write" =>
       /\ k.user \in User /\ Refusal(k.user, k.body) = 0 /\ k.code = 0
       /\ k.todo = Asked(k.body) \ k.stored /\ k.todo # {}
  /\ k.code = 200 => k.stored = Asked(k.body)
  /\ k.code \in {400, 403} => k.stored = {}
  /\ Badly(k.body, Field) => k.stored = {}

PrefsInv == PrefsTypeOK /\ \A c \in Call : CallSound(call[c])

\* A body that is not refused has no bad value, and a kid's only a theme.
LEMMA NotRefused ==
  ASSUME NEW u, NEW b, Refusal(u, b) = 0
  PROVE  /\ ~Badly(b, Field) /\ Asked(b) # {}
         /\ u \in Kid => Asked(b) \subseteq {"theme"}
  BY DEF Refusal, Badly, Field

LEMMA ArrivingSound ==
  ASSUME NEW u \in User, NEW b \in Bodies
  PROVE  CallSound(Arriving(u, b))
  <1>1. Refusal(u, b) \in {0, 400, 403}
    BY DEF Refusal
  <1>2. Refusal(u, b) = 0 => Asked(b) # {}
    BY NotRefused
  <1>. DEFINE m == Arriving(u, b)
  <1>3. /\ m.user = u /\ m.body = b /\ m.stored = {}
        /\ m.todo = Asked(b) /\ m.code = Refusal(u, b)
        /\ m.phase = IF Refusal(u, b) = 0 THEN "write" ELSE "done"
    BY ArrivingEffect
  <1>. HIDE DEF m
  <1>4. CallSound(m)
    BY <1>1, <1>2, <1>3 DEF CallSound
  <1>. QED
    BY <1>4 DEF m

LEMMA UnusedSound == CallSound(Unused)
  BY DEF CallSound, Unused, Asked, Badly

LEMMA FailedSound ==
  ASSUME NEW k \in PatchCall, CallSound(k)
  PROVE  Failed(k) \in PatchCall /\ CallSound(Failed(k))
  <1>. DEFINE m == Ends(k, 500)
  <1>1. /\ m \in PatchCall /\ m.phase = "done" /\ m.code = 500
        /\ m.user = k.user /\ m.body = k.body /\ m.stored = k.stored
    BY EndsEffect
  <1>. HIDE DEF m
  <1>2. CallSound(m)
    BY <1>1 DEF CallSound
  <1>. QED
    BY <1>1, <1>2 DEF m, Failed

\* A field is written: those before it have been, those that remain come after.
LEMMA WroteSound ==
  ASSUME NEW k \in PatchCall, CallSound(k), k.phase = "write"
  PROVE  LET f == NextField(k)
             m == Wrote(k, f)
         IN  /\ f \in Field /\ k.body[f] # Leave /\ m \in PatchCall
             /\ m.stored \subseteq Asked(m.body)
             /\ \A x \in m.stored, g \in Asked(m.body) \ m.stored : Place(x) < Place(g)
             /\ m.phase = "write" /\ m.user \in User /\ Refusal(m.user, m.body) = 0
             /\ m.code = 0 /\ m.todo = Asked(m.body) \ m.stored /\ ~Badly(m.body, Field)
  <1>. DEFINE f == NextField(k)
             m == Wrote(k, f)
  <1>1. /\ k.todo = Asked(k.body) \ k.stored /\ k.todo # {} /\ k.user \in User
        /\ Refusal(k.user, k.body) = 0 /\ k.code = 0
        /\ k.stored \subseteq Asked(k.body)
        /\ \A x \in k.stored, g \in Asked(k.body) \ k.stored : Place(x) < Place(g)
    BY DEF CallSound
  <1>2. k.todo \subseteq Field
    BY <1>1 DEF Asked
  <1>3. f \in k.todo /\ \A g \in k.todo : Place(f) <= Place(g)
    BY <1>1, <1>2, NextFieldIsFirst
  <1>4. f \in Field /\ k.body[f] # Leave
    BY <1>1, <1>3 DEF Asked
  <1>5. /\ m \in PatchCall /\ m.phase = k.phase /\ m.code = k.code
        /\ m.user = k.user /\ m.body = k.body
        /\ m.stored = k.stored \cup {f} /\ m.todo = k.todo \ {f}
    BY <1>4, WroteEffect
  <1>. HIDE DEF f, m
  <1>6. \A x, y \in Field : Place(x) = Place(y) => x = y
    BY FieldFacts DEF Field
  <1>7. \A g \in k.todo : g # f => Place(f) < Place(g)
    BY <1>2, <1>3, <1>4, <1>6, Places
  <1>8. \A x \in m.stored, g \in Asked(m.body) \ m.stored : Place(x) < Place(g)
    BY <1>1, <1>5, <1>7
  <1>9. ~Badly(m.body, Field)
    BY <1>1, <1>5, NotRefused
  <1>10. m.stored \subseteq Asked(m.body) /\ m.todo = Asked(m.body) \ m.stored
    BY <1>1, <1>3, <1>5
  <1>11. /\ f \in Field /\ k.body[f] # Leave /\ m \in PatchCall
         /\ m.phase = "write" /\ m.user \in User /\ Refusal(m.user, m.body) = 0 /\ m.code = 0
    BY <1>1, <1>4, <1>5
  <1>. QED
    BY <1>8, <1>9, <1>10, <1>11 DEF f, m

LEMMA ProceedsSound ==
  ASSUME NEW k \in PatchCall, CallSound(k), k.phase = "write"
  PROVE  LET m == Wrote(k, NextField(k))
         IN  /\ Proceeds(m) \in PatchCall /\ CallSound(Proceeds(m))
             /\ Failed(m) \in PatchCall /\ CallSound(Failed(m))
  <1>. DEFINE m == Wrote(k, NextField(k))
  <1>1. /\ m \in PatchCall /\ m.stored \subseteq Asked(m.body)
        /\ \A x \in m.stored, g \in Asked(m.body) \ m.stored : Place(x) < Place(g)
        /\ m.phase = "write" /\ m.user \in User /\ Refusal(m.user, m.body) = 0
        /\ m.code = 0 /\ m.todo = Asked(m.body) \ m.stored /\ ~Badly(m.body, Field)
    BY WroteSound
  <1>. HIDE DEF m
  <1>2. ASSUME NEW code \in {200, 500}, code = 200 => m.stored = Asked(m.body)
        PROVE  Ends(m, code) \in PatchCall /\ CallSound(Ends(m, code))
    <2>. DEFINE e == Ends(m, code)
    <2>1. /\ e \in PatchCall /\ e.phase = "done" /\ e.code = code
          /\ e.user = m.user /\ e.body = m.body /\ e.stored = m.stored
      BY <1>1, EndsEffect
    <2>. HIDE DEF e
    <2>2. CallSound(e)
      BY <1>1, <1>2, <2>1 DEF CallSound
    <2>. QED
      BY <2>1, <2>2 DEF e
  <1>3. Failed(m) \in PatchCall /\ CallSound(Failed(m))
    BY <1>2 DEF Failed
  <1>4. CASE m.todo = {}
    <2>1. m.stored = Asked(m.body)
      BY <1>1, <1>4
    <2>. QED
      BY <1>2, <1>3, <1>4, <2>1 DEF Proceeds, m
  <1>5. CASE m.todo # {}
    <2>1. CallSound(m)
      BY <1>1, <1>5 DEF CallSound
    <2>. QED
      BY <1>1, <1>3, <1>5, <2>1 DEF Proceeds, m
  <1>. QED
    BY <1>4, <1>5

-----------------------------------------------------------------------------
LEMMA PrefsInvInit == PrefsInit => PrefsInv
  <1>. SUFFICES ASSUME PrefsInit PROVE PrefsInv
    OBVIOUS
  <1>1. "shown" \in Allowed("uptime")
    BY FieldFacts
  <1>2. pref \in [User -> Preference \cup {NoAccount}]
    BY <1>1, CreatedEffect DEF PrefsInit
  <1>3. call \in [Call -> PatchCall] /\ \A c \in Call : CallSound(call[c])
    BY UnusedCall, UnusedSound DEF PrefsInit
  <1>. QED
    BY <1>2, <1>3 DEF PrefsInit, PrefsInv, PrefsTypeOK

\* A step of one call.
LEMMA CallMoves ==
  ASSUME PrefsInv, NEW c \in Call, NEW k \in PatchCall, CallSound(k),
         call' = [call EXCEPT ![c] = k], UNCHANGED <<deleted, column, default>>,
         pref' \in [User -> Preference \cup {NoAccount}]
  PROVE  PrefsInv'
  <1>1. /\ call' \in [Call -> PatchCall]
        /\ \A x \in Call : call'[x] = IF x = c THEN k ELSE call[x]
    BY DEF PrefsInv, PrefsTypeOK
  <1>2. \A x \in Call : CallSound(call'[x])
    BY <1>1 DEF PrefsInv
  <1>3. PrefsTypeOK'
    BY <1>1 DEF PrefsInv, PrefsTypeOK
  <1>. QED
    BY <1>2, <1>3 DEF PrefsInv, CallSound

\* The row after a write: one field of one account.
LEMMA WritePrefEffect ==
  ASSUME PrefsInv, NEW c \in Call, WritePref(c)
  PROVE  \/ UNCHANGED pref
         \/ LET u == call[c].user
                f == NextField(call[c])
            IN  /\ u \in Accounts /\ f \in Field /\ f \in Asked(call[c].body)
                /\ pref[u] \in Preference
                /\ pref' = [pref EXCEPT ![u] = [pref[u] EXCEPT ![f] = call[c].body[f]]]
                /\ pref' \in [User -> Preference \cup {NoAccount}]
  <1>. DEFINE k == call[c]
             u == k.user
             f == NextField(k)
  <1>1. k \in PatchCall /\ CallSound(k) /\ k.phase = "write"
    BY DEF PrefsInv, PrefsTypeOK, WritePref
  <1>2. f \in Field /\ k.body[f] # Leave
    BY <1>1, WroteSound
  <1>3. CASE pref' # pref
    <2>1. /\ u \in Accounts /\ k.body[f] # Bad
          /\ pref' = [pref EXCEPT ![u] = [pref[u] EXCEPT ![f] = k.body[f]]]
      BY <1>3 DEF WritePref
    <2>2. k.body[f] \in Allowed(f)
      <3>1. k.body \in Bodies
        BY <1>1 DEF PatchCall
      <3>. QED
        BY <1>2, <2>1, <3>1, BodyFields
    <2>3. pref[u] \in Preference /\ u \in User
      BY <2>1 DEF Accounts, PrefsInv, PrefsTypeOK
    <2>4. [pref[u] EXCEPT ![f] = k.body[f]] \in Preference
      BY <1>2, <2>2, <2>3, OverwrittenEffect
    <2>5. pref' \in [User -> Preference \cup {NoAccount}]
      BY <2>1, <2>3, <2>4 DEF PrefsInv, PrefsTypeOK
    <2>6. f \in Asked(k.body)
      BY <1>2 DEF Asked
    <2>. QED
      BY <1>2, <2>1, <2>3, <2>5, <2>6
  <1>. QED
    BY <1>3

LEMMA WritePrefKeeps ==
  ASSUME PrefsInv, NEW c \in Call, WritePref(c)
  PROVE  PrefsInv'
  <1>. DEFINE k == call[c]
  <1>1. /\ k \in PatchCall /\ CallSound(k) /\ k.phase = "write"
        /\ UNCHANGED <<deleted, column, default>>
    BY DEF PrefsInv, PrefsTypeOK, WritePref
  <1>2. PICK m \in {Failed(k), Proceeds(Wrote(k, NextField(k))),
                    Failed(Wrote(k, NextField(k)))} :
          call' = [call EXCEPT ![c] = m]
    BY DEF WritePref
  <1>3. m \in PatchCall /\ CallSound(m)
    BY <1>1, <1>2, FailedSound, ProceedsSound
  <1>4. pref' \in [User -> Preference \cup {NoAccount}]
    BY WritePrefEffect DEF PrefsInv, PrefsTypeOK
  <1>. QED
    BY <1>1, <1>2, <1>3, <1>4, CallMoves

\* A step that leaves every call alone.
LEMMA RowsOnly ==
  ASSUME PrefsInv, UNCHANGED call, pref' \in [User -> Preference \cup {NoAccount}],
         deleted' \subseteq Kid, column' \in BOOLEAN, default' \in Allowed("uptime")
  PROVE  PrefsInv'
  BY DEF PrefsInv, PrefsTypeOK, CallSound

LEMMA SeededEffect ==
  ASSUME PrefsInv, NEW u \in Accounts
  PROVE  Seeded(u) \in Preference
  <1>1. pref[u] \in Preference /\ default \in Allowed("uptime") /\ "uptime" \in Field
    BY DEF Accounts, PrefsInv, PrefsTypeOK, Field
  <1>. QED
    BY <1>1, OverwrittenEffect DEF Seeded

LEMMA PrefsInvKept ==
  ASSUME PrefsInv, [PrefsNext]_prefsVars
  PROVE  PrefsInv'
  <1>. USE DEF PrefsInv
  <1>1. ASSUME NEW u \in User, CreateAccount(u) PROVE PrefsInv'
    <2>1. Created(u, default) \in Preference
      BY CreatedEffect DEF PrefsTypeOK
    <2>. QED
      BY <1>1, <2>1, RowsOnly DEF CreateAccount, PrefsTypeOK
  <1>2. ASSUME NEW u \in User, DeleteKidAccount(u) PROVE PrefsInv'
    BY <1>2, RowsOnly DEF DeleteKidAccount, PrefsTypeOK
  <1>3. CASE SetDefault
    BY <1>3, RowsOnly DEF SetDefault, PrefsTypeOK
  <1>4. CASE Migrate0016
    <2>1. pref' \in [User -> Preference \cup {NoAccount}]
      BY <1>4, SeededEffect DEF Migrate0016
    <2>. QED
      BY <1>4, <2>1, RowsOnly DEF Migrate0016, PrefsTypeOK
  <1>5. ASSUME NEW c \in Call, NEW u \in User, NEW b \in Bodies, PatchMe(c, u, b)
        PROVE  PrefsInv'
    BY <1>5, ArrivingEffect, ArrivingSound, CallMoves DEF PatchMe, PrefsTypeOK
  <1>6. CASE UNCHANGED prefsVars
    BY <1>6, RowsOnly DEF prefsVars, PrefsTypeOK
  <1>. QED
    BY <1>1, <1>2, <1>3, <1>4, <1>5, <1>6, WritePrefKeeps DEF PrefsNext

\* The invariant from which what PATCH /api/me promises follows.
THEOREM PrefsInvariant == PrefsSpec => []PrefsInv
  BY PrefsInvInit, PrefsInvKept, PTL DEF PrefsSpec

\* Every variable of the preferences always stays in its type.
THEOREM PrefsAlwaysTyped == PrefsSpec => []PrefsTypeOK
  <1>1. PrefsInv => PrefsTypeOK
    BY DEF PrefsInv
  <1>. QED
    BY <1>1, PrefsInvariant, PTL

\* What has been written is everything up to some field.
LEMMA StoredUpTo ==
  ASSUME NEW k \in PatchCall, CallSound(k)
  PROVE  \E n \in 0..4 : k.stored = {f \in Asked(k.body) : Place(f) <= n}
  <1>. DEFINE A == Asked(k.body)
             S == k.stored
  <1>1. S \subseteq A /\ A \subseteq Field /\ \A f \in S, g \in A \ S : Place(f) < Place(g)
    BY DEF CallSound, Asked
  <1>. HIDE DEF A, S
  <1>2. ASSUME NEW x \in S, \A y \in S : Place(y) <= Place(x)
        PROVE  S = {f \in A : Place(f) <= Place(x)}
    <2>1. \A f \in A \ S : ~(Place(f) <= Place(x))
      BY <1>1, Places
    <2>. QED
      BY <1>1, <1>2, <2>1
  <1>3. CASE S = {}
    <2>1. S = {f \in A : Place(f) <= 0}
      BY <1>1, <1>3, Places
    <2>. QED
      BY <2>1 DEF A, S
  <1>4. CASE S # {}
    <2>1. \E x \in S : \A y \in S : Place(y) <= Place(x)
      <3>1. S \subseteq {"theme", "density", "health", "uptime"}
        BY <1>1 DEF Field
      <3>2. CASE "uptime" \in S
        BY <3>1, <3>2, FieldFacts
      <3>3. CASE "uptime" \notin S /\ "health" \in S
        BY <3>1, <3>3, FieldFacts
      <3>4. CASE "uptime" \notin S /\ "health" \notin S /\ "density" \in S
        BY <3>1, <3>4, FieldFacts
      <3>5. CASE S = {"theme"}
        BY <3>5, FieldFacts
      <3>. QED
        BY <1>4, <3>1, <3>2, <3>3, <3>4, <3>5
    <2>2. PICK x \in S : \A y \in S : Place(y) <= Place(x)
      BY <2>1
    <2>3. Place(x) \in 0..4
      BY <1>1, Places
    <2>4. S = {f \in A : Place(f) <= Place(x)}
      BY <1>2, <2>2
    <2>. QED
      BY <2>3, <2>4 DEF A, S
  <1>. QED
    BY <1>3, <1>4

\* handlePatchMe: a request that is refused has stored nothing, one that is
\* answered 200 all it asked, and one that failed the fields before some point.
THEOREM AnswerAlwaysHonest == PrefsSpec => []AnswerIsHonest
  <1>1. PrefsInv => AnswerIsHonest
    <2>. SUFFICES ASSUME PrefsInv, NEW c \in Call
                  PROVE  /\ Badly(call[c].body, Field) => call[c].stored = {}
                         /\ call[c].code = 200 => call[c].stored = Asked(call[c].body)
                         /\ call[c].code \in {400, 403} => call[c].stored = {}
                         /\ \E n \in 0..4 :
                              call[c].stored = {f \in Asked(call[c].body) : Place(f) <= n}
      BY DEF AnswerIsHonest
    <2>1. call[c] \in PatchCall /\ CallSound(call[c])
      BY DEF PrefsInv, PrefsTypeOK
    <2>. QED
      BY <2>1, StoredUpTo DEF CallSound
  <1>. QED
    BY <1>1, PrefsInvariant, PTL

\* A stored preference changes by a PATCH of that account that asked for the
\* value (SetThemePref and its like), a kid's only its theme; not by migration
\* 0016, nor by a new default.
THEOREM PrefsAlwaysOwn == PrefsSpec => PrefsAreOwn
  <1>. DEFINE Own(u, f) ==
         /\ u \in Kid => f = "theme"
         /\ \E c \in Call : /\ call[c].phase = "write" /\ call[c].user = u
                            /\ call[c].body[f] = pref'[u][f]
       A == \A u \in Accounts : column /\ pref'[u] # NoAccount =>
              \A f \in Field : pref'[u][f] # pref[u][f] => Own(u, f)
  <1>1. ASSUME PrefsInv, PrefsNext PROVE A
    <2>. SUFFICES ASSUME NEW u \in Accounts, column, pref'[u] # NoAccount, NEW f \in Field,
                         pref'[u][f] # pref[u][f]
                  PROVE  Own(u, f)
      OBVIOUS
    <2>1. u \in User /\ pref \in [User -> Preference \cup {NoAccount}]
      BY <1>1 DEF Accounts, PrefsInv, PrefsTypeOK
    <2>2. ASSUME NEW x \in User, CreateAccount(x) \/ DeleteKidAccount(x) PROVE FALSE
      <3>1. CASE CreateAccount(x)
        BY <2>1, <3>1 DEF CreateAccount
      <3>2. CASE DeleteKidAccount(x)
        BY <2>1, <3>2 DEF DeleteKidAccount
      <3>. QED
        BY <2>2, <3>1, <3>2
    <2>3. CASE SetDefault \/ Migrate0016
      BY <2>1, <2>3 DEF SetDefault, Migrate0016, Seeded
    <2>4. ASSUME NEW c \in Call, NEW x \in User, NEW b \in Bodies, PatchMe(c, x, b)
          PROVE  FALSE
      BY <2>4 DEF PatchMe
    <2>5. ASSUME NEW c \in Call, WritePref(c) PROVE Own(u, f)
      <3>. DEFINE k == call[c]
                 g == NextField(k)
      <3>1. /\ k.user \in Accounts /\ g \in Field /\ g \in Asked(k.body)
            /\ pref[k.user] \in Preference
            /\ pref' = [pref EXCEPT ![k.user] = [pref[k.user] EXCEPT ![g] = k.body[g]]]
        BY <1>1, <2>5, WritePrefEffect
      <3>2. k.phase = "write" /\ CallSound(k)
        BY <1>1, <2>5 DEF WritePref, PrefsInv
      <3>3. k.user = u
        BY <2>1, <3>1
      <3>4. pref[u] = [x \in Field |-> pref[u][x]]
        BY <3>1, <3>3, PreferenceFields
      <3>5. pref'[u] = [pref[u] EXCEPT ![g] = k.body[g]]
        BY <2>1, <3>1, <3>3
      <3>6. f = g /\ pref'[u][f] = k.body[f]
        BY <3>1, <3>4, <3>5
      <3>7. u \in Kid => f = "theme"
        <4>1. Refusal(k.user, k.body) = 0
          BY <3>2 DEF CallSound
        <4>. QED
          BY <3>1, <3>3, <3>6, <4>1, NotRefused
      <3>. QED
        BY <3>2, <3>3, <3>6, <3>7
    <2>. QED
      BY <1>1, <2>2, <2>3, <2>4, <2>5 DEF PrefsNext
  <1>2. PrefsInv /\ [PrefsNext]_prefsVars => [A]_prefsVars
    BY <1>1
  <1>. QED
    BY <1>2, PrefsInvariant, PTL DEF PrefsSpec, PrefsAreOwn
=============================================================================
