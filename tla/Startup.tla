------------------------------ MODULE Startup ------------------------------
(***************************************************************************)
(* How a process starts (cmd/homepad-api/main.go): Migrate (storage.go)    *)
(* runs every migration, at every start, in one transaction under an       *)
(* advisory lock, over whatever an earlier release left.  Followed here is *)
(* what they do to the width of a category (0008, 0009, 0013), where data  *)
(* is rewritten under a constraint; module Library follows 0007 and module *)
(* Preferences 0016.  Several processes may start at once, or die anywhere *)
(* and be started again.                                                   *)
(***************************************************************************)
EXTENDS Integers

CONSTANTS Proc, NoProc

ASSUME StartupAssumption == NoProc \notin Proc

TileCounts == 1..8              \* what a width was before 0013
Spans == {3, 4, 6, 12}          \* and what it has been since

\* Which CHECK categories.grid_width carries; "none": there is no column yet.
Widths == [none |-> {0}, upTo6 |-> 1..6, upTo8 |-> TileCounts, span |-> Spans]

Database == [check : DOMAIN Widths, width : 0..12, legacy : {0} \cup TileCounts]

Releases == {d \in Database : /\ d.width \in Widths[d.check]
                              /\ d.check # "span" => d.legacy = 0}

VARIABLES
  db,      \* the committed columns grid_width and grid_width_legacy (0: NULL)
  tx,      \* tx[p]: the same inside p's migration
  proc,    \* proc[p]: how far p's start has come
  lock     \* who holds pg_advisory_xact_lock(migrateLockKey)

startupVars == <<db, tx, proc, lock>>

Stages == {"down", "start", "0008", "0009", "0013", "commit", "migrated",
           "count", "seed", "serving", "failed"}

Serving == \E p \in Proc : proc[p] = "serving"

\* From 0007's ALTER TABLE until it commits, a migration holds ACCESS
\* EXCLUSIVE on the tables it alters: statements on them wait.
Migrating == \E p \in Proc : proc[p] \in {"0008", "0009", "0013", "commit"}

StartupInit ==
  /\ db \in Releases
  /\ tx = [p \in Proc |-> db]
  /\ proc = [p \in Proc |-> "down"]
  /\ lock = NoProc

Goes(p, stage) == proc' = [proc EXCEPT ![p] = stage]

Launch(p) ==
  /\ proc[p] \in {"down", "failed"}
  /\ Goes(p, "start")
  /\ UNCHANGED <<db, tx, lock>>

LockMigrate(p) ==
  /\ proc[p] = "start" /\ lock = NoProc
  /\ lock' = p
  /\ tx' = [tx EXCEPT ![p] = db]
  /\ Goes(p, "0008")
  /\ UNCHANGED db

-----------------------------------------------------------------------------
(* The migrations, as what they make of the columns                        *)

AddWidth(d) ==
  IF d.check = "none" THEN [check |-> "upTo6", width |-> 3, legacy |-> 0] ELSE d

\* Mutant of WidenRange: the re-add of 1-8 is not skipped (0009 before 0013).
WidenRangeAlways(d) == [d EXCEPT !.check = "upTo8"]

WidenRange(d) == IF d.check = "span" THEN d ELSE [d EXCEPT !.check = "upTo8"]

SpanOf == <<3, 4, 6, 6, 12, 12, 12, 12>>

\* Both guards of 0013: the constraint, and the width kept in the legacy column.
RemapToSpans(d) ==
  IF d.check = "span" THEN d
  ELSE [check |-> "span",
        width |-> IF d.legacy = 0 THEN SpanOf[d.width] ELSE d.width,
        legacy |-> IF d.legacy = 0 THEN d.width ELSE d.legacy]

\* A constraint that a row violates cannot be added: log.Fatalf.
Migration(p, stage, next, d) ==
  /\ proc[p] = stage
  /\ IF d.width \in Widths[d.check]
     THEN tx' = [tx EXCEPT ![p] = d] /\ Goes(p, next) /\ UNCHANGED lock
     ELSE lock' = NoProc /\ Goes(p, "failed") /\ UNCHANGED tx
  /\ UNCHANGED db

Migrate(p) ==
  \/ Migration(p, "0008", "0009", AddWidth(tx[p]))
  \/ Migration(p, "0009", "0013", WidenRange(tx[p]))
  \/ Migration(p, "0013", "commit", RemapToSpans(tx[p]))

CommitMigrate(p) ==
  /\ proc[p] = "commit"
  /\ db' = tx[p]
  /\ lock' = NoProc
  /\ Goes(p, "migrated")
  /\ UNCHANGED tx

\* SeedLibraryIfEmpty does nothing to the widths; it is part of Library.
Serve(p) ==
  /\ proc[p] = "migrated"
  /\ Goes(p, "serving")
  /\ UNCHANGED <<db, tx, lock>>

\* A crash, a shutdown, a failed statement: the transaction rolls back and with
\* it goes the lock.
Die(p) ==
  /\ proc[p] # "down"
  /\ Goes(p, "down")
  /\ lock' = IF lock = p THEN NoProc ELSE lock
  /\ UNCHANGED <<db, tx>>

\* SetCategoryWidth, by a process of this release.
EditWidth(w) ==
  /\ Serving /\ ~Migrating
  /\ db' = [db EXCEPT !.width = w]
  /\ UNCHANGED <<tx, proc, lock>>

StartupNext ==
  \/ \E p \in Proc : \/ Launch(p) \/ LockMigrate(p) \/ Migrate(p)
                     \/ CommitMigrate(p) \/ Serve(p) \/ Die(p)
  \/ \E w \in Spans : EditWidth(w)

StartupSpec == StartupInit /\ [][StartupNext]_startupVars

-----------------------------------------------------------------------------
\* Every variable stays in its type.
StartupTypeOK ==
  /\ db \in Database /\ tx \in [Proc -> Database]
  /\ proc \in [Proc -> Stages]
  /\ lock \in Proc \cup {NoProc}

\* The upgrade as the table of 0013 has it: a number of tiles, 3 where none had
\* been chosen, becomes its span and is kept beside it.
Upgraded(d) ==
  LET tiles == IF d.check = "none" THEN 3 ELSE d.width
  IN  [check |-> "span", width |-> SpanOf[tiles], legacy |-> tiles]

\* "Migrations re-run on every boot": no start is refused over widths a running
\* process accepted; a database is upgraded at one instant, from whatever release
\* to the spans its own widths call for; and once widths are spans only an admin
\* changes one -- however many processes start, and wherever they die.
RestartsKeepWidths ==
  [][/\ \A p \in Proc : proc'[p] # "failed"
     /\ db' # db => IF db.check = "span" THEN \E w \in Spans : EditWidth(w)
                    ELSE db' = Upgraded(db)]_startupVars
=============================================================================
