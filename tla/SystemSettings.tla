--------------------------- MODULE SystemSettings ---------------------------
(***************************************************************************)
(* The System settings (internal/api/system.go, internal/storage/          *)
(* system_settings.go): one row in the database, edited by PATCHes that    *)
(* read it, merge and write it back, and the poller's "Slow" threshold,    *)
(* which main.go loads at boot and each PATCH refreshes.  Admins' PATCHes  *)
(* run concurrently, one statement or call per step.                       *)
(***************************************************************************)
EXTENDS Integers

CONSTANTS
  Patching,     \* PATCHes that may be in flight
  Ms,           \* "Slow" thresholds an admin may set
  EnvMs,        \* GATUS_DEGRADED_MS or its default
  Unset,        \* status_degraded_ms IS NULL
  Omit,         \* a field the PATCH body does not carry
  Faults        \* may statements fail?

ASSUME SettingsAssumption ==
  /\ EnvMs \in Nat /\ Ms \subseteq Nat
  /\ Unset \notin Nat /\ Omit \notin Nat \cup BOOLEAN
  /\ Faults \in BOOLEAN

Settings == [uptime : BOOLEAN, ms : Ms \cup {Unset}]
Patch == [uptime : BOOLEAN \cup {Omit}, ms : Ms \cup {Omit}]

VARIABLES
  row,        \* the singleton row; a missing row reads as the defaults
  threshold,  \* what the poller runs with
  patch,      \* patch[r]: the handler serving PATCH r
  agreed      \* history: no PATCH saved past another, no save or boot read failed

settingsVars == <<row, threshold, patch, agreed>>

Defaults == [uptime |-> TRUE, ms |-> Unset]
NoPatch == [phase |-> "free", body |-> [uptime |-> Omit, ms |-> Omit],
         cur |-> Defaults,
         passed |-> FALSE]    \* history: was another PATCH saved since the read?

InPhase(r, phase) == patch[r].phase = phase

SettingsInit ==
  /\ row = Defaults
  /\ threshold = EnvMs
  /\ patch = [r \in Patching |-> NoPatch]
  /\ agreed = TRUE

Effective(cfg) == IF cfg.ms = Unset THEN threshold ELSE cfg.ms

\* Mutant of Merge: what the body leaves out is reset.
MergeDefaults(cur, body) ==
  [uptime |-> IF body.uptime = Omit THEN Defaults.uptime ELSE body.uptime,
   ms |-> IF body.ms = Omit THEN Defaults.ms ELSE body.ms]

Merge(cur, body) == [uptime |-> IF body.uptime = Omit THEN cur.uptime ELSE body.uptime,
                     ms |-> IF body.ms = Omit THEN cur.ms ELSE body.ms]

Receive(r, body) ==
  /\ InPhase(r, "free")
  /\ patch' = [patch EXCEPT ![r] = [NoPatch EXCEPT !.phase = "read", !.body = body]]
  /\ UNCHANGED <<row, threshold, agreed>>

ReadRow(r) ==
  /\ InPhase(r, "read")
  /\ \/ patch' = [patch EXCEPT ![r].phase = "upsert",
                               ![r].cur = Merge(row, patch[r].body)]
     \/ Faults /\ patch' = [patch EXCEPT ![r] = NoPatch]
  /\ UNCHANGED <<row, threshold, agreed>>

\* The whole row is written, the fields the PATCH omitted as they were read.
\* The other PATCHes have been passed by this one.
Saved(r, p) ==
  /\ row' = patch[r].cur
  /\ patch' = [q \in Patching |->
                IF q = r THEN p
                ELSE IF InPhase(q, "upsert") THEN [patch[q] EXCEPT !.passed = TRUE]
                ELSE patch[q]]

Upsert(r) ==
  /\ InPhase(r, "upsert")
  /\ \/ /\ Saved(r, [patch[r] EXCEPT !.phase = "apply", !.passed = FALSE])
        /\ agreed' = (agreed /\ \A q \in Patching : ~InPhase(q, "apply"))
     \/ /\ Faults                     \* saved, but the answer is an error
        /\ Saved(r, NoPatch)
        /\ agreed' = FALSE
  /\ UNCHANGED threshold

UpsertFails(r) ==
  /\ Faults
  /\ InPhase(r, "upsert")
  /\ patch' = [patch EXCEPT ![r] = NoPatch]
  /\ UNCHANGED <<row, threshold, agreed>>

\* SetDegradedAfter with the saved value, set by this PATCH or before it.
Apply(r) ==
  /\ InPhase(r, "apply")
  /\ threshold' = Effective(patch[r].cur)
  /\ patch' = [patch EXCEPT ![r] = NoPatch]
  /\ UNCHANGED <<row, agreed>>

\* Mutant of Boot: the saved threshold is not loaded.
BootFromEnv ==
  /\ threshold' = EnvMs
  /\ agreed' = TRUE
  /\ patch' = [r \in Patching |-> NoPatch]
  /\ UNCHANGED row

\* The process stops anywhere and main starts it again: a threshold saved from
\* the panel wins over the environment, unless it cannot be read.
Boot ==
  /\ \/ threshold' = (IF row.ms = Unset THEN EnvMs ELSE row.ms) /\ agreed' = TRUE
     \/ Faults /\ threshold' = EnvMs /\ agreed' = FALSE
  /\ patch' = [r \in Patching |-> NoPatch]
  /\ UNCHANGED row

SettingsNext ==
  \/ Boot
  \/ \E r \in Patching :
       \/ \E body \in Patch : Receive(r, body)
       \/ ReadRow(r) \/ Upsert(r) \/ UpsertFails(r) \/ Apply(r)

SettingsSpec == SettingsInit /\ [][SettingsNext]_settingsVars

-----------------------------------------------------------------------------
\* Every variable stays in its type.
SettingsTypeOK ==
  /\ row \in Settings
  /\ threshold \in Ms \cup {EnvMs}
  /\ patch \in [Patching -> [phase : {"free", "read", "upsert", "apply"},
                            body : Patch, cur : Settings, passed : BOOLEAN]]
  /\ agreed \in BOOLEAN

\* What the panel shows is what the poller runs with, whatever stale merges
\* PATCHes save, except after two of them overlapped between save and apply or
\* a save or the boot's read failed halfway; and a restart puts that right.
ShownUnlessOverlapped ==
  agreed /\ (\A r \in Patching : ~InPhase(r, "apply")) =>
    Effective(row) = threshold

\* A field a PATCH leaves out keeps its value through the read, the merge and
\* the save of the whole row, unless another PATCH was saved in between.
OmittedFieldsKept ==
  [][\A r \in Patching :
       Upsert(r) /\ ~patch[r].passed =>
         /\ patch[r].body.uptime = Omit => row'.uptime = row.uptime
         /\ patch[r].body.ms = Omit => row'.ms = row.ms]_settingsVars
=============================================================================
