--------------------------- MODULE Library_proofs ---------------------------
(***************************************************************************)
(* How processes start, for every number of them and every database an     *)
(* earlier release may have left, and what the App Library promises for    *)
(* every set of offers, services and seed entries.                         *)
(***************************************************************************)
EXTENDS Library, TLAPS

\* The constraints there have been on a width.
LEMMA WidthsByCheck ==
  /\ DOMAIN Widths = {"none", "upTo6", "upTo8", "span"}
  /\ Widths["none"] = {0} /\ Widths["upTo6"] = 1..6
  /\ Widths["upTo8"] = 1..8 /\ Widths["span"] = {3, 4, 6, 12}
  BY DEF Widths, TileCounts, Spans

\* 0013 maps every number of tiles to a span.
LEMMA SpansOfTiles == \A w \in 1..8 : SpanOf[w] \in {3, 4, 6, 12}
  BY DEF SpanOf

\* What each migration makes of columns that any release may have left.
LEMMA AddWidthEffect ==
  ASSUME NEW d \in Releases
  PROVE  /\ AddWidth(d) \in Releases /\ AddWidth(d).check # "none"
         /\ d.check = "span" => AddWidth(d) = d
         /\ d.check # "span" => /\ AddWidth(d).check # "span"
                                /\ Upgraded(AddWidth(d)) = Upgraded(d)
  BY WidthsByCheck DEF AddWidth, Releases, Database, TileCounts, Upgraded

LEMMA WidenRangeEffect ==
  ASSUME NEW d \in Releases, d.check # "none"
  PROVE  /\ WidenRange(d) \in Releases /\ WidenRange(d).check \in {"upTo8", "span"}
         /\ d.check = "span" => WidenRange(d) = d
         /\ d.check # "span" => /\ WidenRange(d).check # "span"
                                /\ Upgraded(WidenRange(d)) = Upgraded(d)
  <1>1. CASE d.check = "span"
    BY <1>1 DEF WidenRange
  <1>2. CASE d.check # "span"
    <2>. DEFINE e == [d EXCEPT !.check = "upTo8"]
    <2>1. d.width \in 1..8 /\ d \in Database /\ d.legacy = 0
      BY <1>2, WidthsByCheck DEF Releases, Database
    <2>2. e \in Database /\ e.check = "upTo8" /\ e.width = d.width /\ e.legacy = 0
      BY <2>1, WidthsByCheck DEF Database
    <2>3. e \in Releases
      BY <2>1, <2>2, WidthsByCheck DEF Releases
    <2>4. Upgraded(e) = Upgraded(d)
      BY <2>2 DEF Upgraded
    <2>. QED
      BY <1>2, <2>2, <2>3, <2>4 DEF WidenRange
  <1>. QED
    BY <1>1, <1>2

LEMMA RemapToSpansEffect ==
  ASSUME NEW d \in Releases, d.check \in {"upTo8", "span"}
  PROVE  /\ RemapToSpans(d) \in Releases /\ RemapToSpans(d).check = "span"
         /\ RemapToSpans(d) = IF d.check = "span" THEN d ELSE Upgraded(d)
  <1>1. CASE d.check = "span"
    BY <1>1 DEF RemapToSpans
  <1>2. CASE d.check # "span"
    <2>1. d.width \in 1..8 /\ d.legacy = 0
      BY <1>2, WidthsByCheck DEF Releases, Database
    <2>2. RemapToSpans(d) = [check |-> "span", width |-> SpanOf[d.width],
                             legacy |-> d.width]
      BY <1>2, <2>1 DEF RemapToSpans
    <2>3. SpanOf[d.width] \in {3, 4, 6, 12}
      BY <2>1, SpansOfTiles
    <2>4. /\ [check |-> "span", width |-> SpanOf[d.width], legacy |-> d.width]
               \in Database
          /\ SpanOf[d.width] \in Widths["span"]
      BY <2>1, <2>3, WidthsByCheck DEF Database, TileCounts
    <2>5. RemapToSpans(d) = Upgraded(d)
      BY <1>2, <2>2 DEF Upgraded
    <2>. QED
      BY <1>2, <2>2, <2>4, <2>5 DEF Releases
  <1>. QED
    BY <1>1, <1>2

-----------------------------------------------------------------------------
\* The stages at which a process holds the advisory lock: its migration, and
\* in module Library the seeding.
Holding == {"0008", "0009", "0013", "commit", "count", "seed"}

\* How far the columns inside p's migration have come, while nobody else can
\* have changed the committed ones.
TxFollows(p) ==
  /\ proc[p] = "0008" => tx[p] = db
  /\ proc[p] = "0009" => tx[p].check # "none"
  /\ proc[p] = "0013" => tx[p].check \in {"upTo8", "span"}
  /\ proc[p] = "commit" => tx[p] = IF db.check = "span" THEN db ELSE Upgraded(db)
  /\ proc[p] \in {"0009", "0013"} =>
       IF db.check = "span" THEN tx[p] = db
       ELSE tx[p].check # "span" /\ Upgraded(tx[p]) = Upgraded(db)
  /\ proc[p] \in {"0008", "0009", "0013", "commit"} => tx[p] \in Releases

\* The lock excludes; the committed columns are those of a release, of this one
\* once a process has migrated; and no migration was refused.
StartupInv ==
  /\ StartupTypeOK
  /\ db \in Releases
  /\ \A p \in Proc : proc[p] \in Holding => lock = p
  /\ \A p \in Proc : TxFollows(p)
  /\ \A p \in Proc : proc[p] \in {"migrated", "count", "seed", "serving"} =>
       db.check = "span"
  /\ \A p \in Proc : proc[p] # "failed"

LEMMA StartupInvInit == StartupInit => StartupInv
  BY DEF StartupInit, StartupInv, StartupTypeOK, Releases, Stages, Holding, TxFollows

LEMMA LaunchKeeps ==
  ASSUME StartupInv, NEW p \in Proc, Launch(p)
  PROVE  StartupInv'
  BY DEF Launch, Goes, StartupInv, StartupTypeOK, Stages, Holding, TxFollows

LEMMA LockMigrateKeeps ==
  ASSUME StartupInv, NEW p \in Proc, LockMigrate(p)
  PROVE  StartupInv'
  BY StartupAssumption
     DEF LockMigrate, Goes, StartupInv, StartupTypeOK, Stages, Holding, TxFollows,
         Releases

\* A migration whose outcome fits its constraint goes on.
LEMMA MigrationKeeps ==
  ASSUME StartupInv, NEW p \in Proc,
         NEW stage \in {"0008", "0009", "0013"}, NEW next \in {"0009", "0013", "commit"},
         NEW d \in Releases, Migration(p, stage, next, d),
         next = "0009" => d.check # "none",
         next = "0013" => d.check \in {"upTo8", "span"},
         next = "commit" => d = IF db.check = "span" THEN db ELSE Upgraded(db),
         next \in {"0009", "0013"} =>
           IF db.check = "span" THEN d = db
           ELSE d.check # "span" /\ Upgraded(d) = Upgraded(db)
  PROVE  StartupInv' /\ UNCHANGED db
  <1>1. /\ tx' = [tx EXCEPT ![p] = d] /\ proc' = [proc EXCEPT ![p] = next]
        /\ UNCHANGED <<db, lock>> /\ proc[p] = stage
    BY DEF Migration, Releases, Goes
  <1>2. StartupTypeOK'
    BY <1>1 DEF StartupInv, StartupTypeOK, Stages, Releases
  <1>3. \A q \in Proc : TxFollows(q)'
    BY <1>1 DEF StartupInv, StartupTypeOK, TxFollows
  <1>4. \A q \in Proc : proc'[q] \in Holding => lock' = q
    BY <1>1 DEF StartupInv, StartupTypeOK, Holding
  <1>. QED
    BY <1>1, <1>2, <1>3, <1>4 DEF StartupInv, StartupTypeOK

LEMMA MigrateKeeps ==
  ASSUME StartupInv, NEW p \in Proc, Migrate(p)
  PROVE  StartupInv' /\ UNCHANGED db
  <1>1. TxFollows(p)
    BY DEF StartupInv
  <1>2. CASE Migration(p, "0008", "0009", AddWidth(tx[p]))
    <2>1. tx[p] \in Releases /\ tx[p] = db
      BY <1>1, <1>2 DEF Migration, TxFollows
    <2>. QED
      BY <1>2, <2>1, AddWidthEffect, MigrationKeeps
  <1>3. CASE Migration(p, "0009", "0013", WidenRange(tx[p]))
    <2>1. /\ tx[p] \in Releases /\ tx[p].check # "none"
          /\ IF db.check = "span" THEN tx[p] = db
             ELSE tx[p].check # "span" /\ Upgraded(tx[p]) = Upgraded(db)
      BY <1>1, <1>3 DEF Migration, TxFollows
    <2>. QED
      BY <1>3, <2>1, WidenRangeEffect, MigrationKeeps
  <1>4. CASE Migration(p, "0013", "commit", RemapToSpans(tx[p]))
    <2>1. /\ tx[p] \in Releases /\ tx[p].check \in {"upTo8", "span"}
          /\ IF db.check = "span" THEN tx[p] = db
             ELSE tx[p].check # "span" /\ Upgraded(tx[p]) = Upgraded(db)
      BY <1>1, <1>4 DEF Migration, TxFollows
    <2>. QED
      BY <1>4, <2>1, RemapToSpansEffect, MigrationKeeps
  <1>. QED
    BY <1>2, <1>3, <1>4 DEF Migrate

\* The only change of the columns a start may make.
UpgradesOnly == db' # db => db.check # "span" /\ db' = Upgraded(db)

LEMMA CommitMigrateKeeps ==
  ASSUME StartupInv, NEW p \in Proc, CommitMigrate(p)
  PROVE  StartupInv' /\ UpgradesOnly
  <1>1. /\ proc[p] = "commit" /\ lock = p /\ tx[p] \in Releases
        /\ tx[p] = IF db.check = "span" THEN db ELSE Upgraded(db)
    BY DEF CommitMigrate, StartupInv, TxFollows, Holding
  <1>a. tx[p].check = "span"
    <2>1. Upgraded(db).check = "span"
      BY DEF Upgraded
    <2>. QED
      BY <1>1, <2>1
  <1>2. /\ db' = tx[p] /\ lock' = NoProc /\ UNCHANGED tx
        /\ proc' = [proc EXCEPT ![p] = "migrated"]
    BY DEF CommitMigrate, Goes
  <1>3. StartupTypeOK'
    BY <1>1, <1>2 DEF StartupInv, StartupTypeOK, Stages, Releases
  <1>4. \A q \in Proc : q # p => proc'[q] = proc[q] /\ proc'[q] \notin Holding
    BY <1>1, <1>2 DEF StartupInv, StartupTypeOK
  <1>5. \A q \in Proc : TxFollows(q)'
    BY <1>2, <1>4 DEF StartupInv, StartupTypeOK, TxFollows, Holding
  <1>. QED
    BY <1>1, <1>a, <1>2, <1>3, <1>4, <1>5 DEF StartupInv, StartupTypeOK, Holding, UpgradesOnly

LEMMA ServeKeeps ==
  ASSUME StartupInv, NEW p \in Proc, Serve(p)
  PROVE  StartupInv'
  BY DEF Serve, Goes, StartupInv, StartupTypeOK, Stages, Holding, TxFollows

LEMMA DieKeeps ==
  ASSUME StartupInv, NEW p \in Proc, Die(p)
  PROVE  StartupInv'
  BY DEF Die, Goes, StartupInv, StartupTypeOK, Stages, Holding, TxFollows

\* An edit waits for migrations, and finds the columns of this release.
LEMMA EditWidthKeeps ==
  ASSUME StartupInv, NEW w \in Spans, EditWidth(w)
  PROVE  StartupInv' /\ db.check = "span"
  <1>1. db.check = "span" /\ db \in Database /\ UNCHANGED <<tx, proc, lock>>
    BY DEF EditWidth, Serving, StartupInv, StartupTypeOK
  <1>2. db' = [db EXCEPT !.width = w]
    BY DEF EditWidth
  <1>3. db' \in Database /\ db'.check = "span" /\ db'.width = w
    BY <1>1, <1>2, WidthsByCheck DEF Database, Spans
  <1>4. db' \in Releases
    BY <1>3, WidthsByCheck DEF Releases, Spans
  <1>5. \A p \in Proc : TxFollows(p)'
    BY <1>1 DEF EditWidth, Migrating, TxFollows
  <1>. QED
    BY <1>1, <1>3, <1>4, <1>5 DEF StartupInv, StartupTypeOK

\* One step of the start of processes.
KeepsWidths ==
  /\ \A p \in Proc : proc'[p] # "failed"
  /\ db' # db => IF db.check = "span" THEN \E w \in Spans : EditWidth(w)
                 ELSE db' = Upgraded(db)

LEMMA StartupStep ==
  ASSUME StartupInv, [StartupNext]_startupVars
  PROVE  StartupInv' /\ KeepsWidths
  <1>. SUFFICES /\ StartupInv'
                /\ \/ UpgradesOnly
                   \/ db.check = "span" /\ \E w \in Spans : EditWidth(w)
    BY DEF StartupInv, KeepsWidths, UpgradesOnly
  <1>1. ASSUME NEW p \in Proc, Launch(p) \/ LockMigrate(p) \/ Serve(p) \/ Die(p)
        PROVE  StartupInv' /\ db' = db
    BY <1>1, LaunchKeeps, LockMigrateKeeps, ServeKeeps, DieKeeps
       DEF Launch, LockMigrate, Serve, Die
  <1>2. ASSUME NEW p \in Proc, Migrate(p)
        PROVE  StartupInv' /\ db' = db
    BY <1>2, MigrateKeeps
  <1>3. ASSUME NEW p \in Proc, CommitMigrate(p)
        PROVE  StartupInv' /\ UpgradesOnly
    BY <1>3, CommitMigrateKeeps
  <1>4. ASSUME NEW w \in Spans, EditWidth(w)
        PROVE  StartupInv' /\ db.check = "span"
    BY <1>4, EditWidthKeeps
  <1>5. ASSUME UNCHANGED startupVars
        PROVE  StartupInv' /\ db' = db
    BY <1>5 DEF startupVars, StartupInv, StartupTypeOK, TxFollows
  <1>6. CASE \E p \in Proc : \/ Launch(p) \/ LockMigrate(p) \/ Migrate(p)
                            \/ CommitMigrate(p) \/ Serve(p) \/ Die(p)
    BY <1>1, <1>2, <1>3, <1>6 DEF UpgradesOnly
  <1>7. CASE \E w \in Spans : EditWidth(w)
    BY <1>4, <1>7
  <1>8. CASE UNCHANGED startupVars
    BY <1>5, <1>8 DEF UpgradesOnly
  <1>. QED
    BY <1>6, <1>7, <1>8 DEF StartupNext

THEOREM StartupInvariant == StartupSpec => []StartupInv
  <1>1. StartupInv /\ [StartupNext]_startupVars => StartupInv'
    BY StartupStep
  <1>. QED
    BY <1>1, StartupInvInit, PTL DEF StartupSpec

\* No start is refused over stored widths, and restarts change none.
THEOREM RestartsAlwaysKeepWidths == StartupSpec => RestartsKeepWidths
  <1>1. StartupInv /\ [StartupNext]_startupVars => [KeepsWidths]_startupVars
    BY StartupStep
  <1>. QED
    BY <1>1, StartupInvariant, PTL DEF StartupSpec, RestartsKeepWidths, KeepsWidths

-----------------------------------------------------------------------------
(* The App Library                                                         *)

\* Seeding happens inside the lock, over the columns of this release.
LEMMA LockSeedKeeps ==
  ASSUME StartupInv, NEW p \in Proc, LockSeed(p)
  PROVE  StartupInv' /\ UNCHANGED db
  BY StartupAssumption
     DEF LockSeed, Goes, StartupInv, StartupTypeOK, Stages, Holding, TxFollows

LEMMA SeedStepKeeps ==
  ASSUME StartupInv, NEW p \in Proc, CountSeed(p) \/ PlantSeed(p)
  PROVE  StartupInv' /\ UNCHANGED db
  <1>1. CASE proc[p] = "count" /\ Goes(p, "seed") /\ UNCHANGED <<db, tx, lock>>
    BY <1>1 DEF Goes, StartupInv, StartupTypeOK, Stages, Holding, TxFollows
  <1>2. CASE /\ proc[p] \in {"count", "seed"} /\ Goes(p, "serving")
             /\ lock' = Unlocked(p) /\ UNCHANGED <<db, tx>>
    BY <1>2 DEF Goes, Unlocked, StartupInv, StartupTypeOK, Stages, Holding, TxFollows
  <1>. QED
    BY <1>1, <1>2 DEF CountSeed, PlantSeed

\* Every step of the library is a step of the start of processes, or none, or
\* one of seeding.
LEMMA LibraryStartupStep ==
  ASSUME StartupInv, [LibraryNext]_libraryVars
  PROVE  StartupInv' /\ UpgradesOnly
  <1>1. ASSUME NEW p \in Proc, StartLibrary(p)
        PROVE  StartupInv' /\ UpgradesOnly
    BY <1>1, LaunchKeeps, LockMigrateKeeps, MigrateKeeps, CommitMigrateKeeps,
       LockSeedKeeps, SeedStepKeeps, DieKeeps
       DEF StartLibrary, MigrateLibrary, Launch, LockMigrate, Die, UpgradesOnly
  <1>2. ASSUME UNCHANGED startupVars
        PROVE  StartupInv' /\ db' = db
    BY <1>2 DEF startupVars, StartupInv, StartupTypeOK, TxFollows
  <1>3. ASSUME NEW p \in Proc, AddStep(p)
        PROVE  UNCHANGED startupVars
    BY <1>3 DEF AddStep, SendAdd, ReadOffer, CheckCategory, InsertCopy
  <1>4. ASSUME OfferRequest \/ ServiceRequest \/ DeleteCategory
        PROVE  UNCHANGED startupVars
    BY <1>4 DEF OfferRequest, ServiceRequest, DeleteCategory
  <1>5. ASSUME UNCHANGED libraryVars
        PROVE  UNCHANGED startupVars
    BY <1>5 DEF libraryVars
  <1>. QED
    BY <1>1, <1>2, <1>3, <1>4, <1>5 DEF LibraryNext, UpgradesOnly

-----------------------------------------------------------------------------
\* The tables keep their types and the foreign key, and ids are not reused.
TablesOK ==
  /\ offer \in [Offer -> OfferRow \cup {NoRow}]
  /\ service \in [Service -> ServiceRow \cup {NoRow}]
  /\ \A s \in Services : service[s].source \in Offers \cup {NoRow}
  /\ category \in BOOLEAN /\ cutover \in BOOLEAN
  /\ minted \subseteq Offer /\ Offers \subseteq minted

\* A process that is about to plant the seed found no offer, and whatever came
\* since is not from the seed: the lock keeps the other seeders out.
NothingSeeded ==
  \A p \in Proc : proc[p] = "seed" => \A o \in Offers : offer[o].seed = NoRow

\* How far an AddFromLibrary is, and how many copies it made.
AdditionOK(a) ==
  /\ a \in Addition
  /\ a.offer \in minted \cup {NoRow}
  /\ a.phase \in {"read", "check", "insert"} => a.offer \in Offer
  /\ a.phase \in {"check", "insert"} => a.app \in App
  /\ a.phase # "done" => a.made = 0 /\ a.code = 0
  /\ a.made \in {0, 1}
  /\ a.code = 201 => a.made = 1
  /\ a.code \in {400, 404} => a.made = 0

AdditionsOK == /\ add \in [Proc -> Addition]
               /\ \A p \in Proc : AdditionOK(add[p])

LibraryInv == StartupInv /\ TablesOK /\ SeededOnce /\ NothingSeeded /\ AdditionsOK

\* Every offer that is new in g is planted by f for an element of S.
PlantedBy(f, S, seeds, g) ==
  \A o \in Offer \ Offers :
    g[o] # NoRow => \E k \in S : f[k] = o /\ g[o].seed = seeds[k]

\* New offers take unused ids, one for each element planted, and leave the rest.
LEMMA PlantedEffect ==
  ASSUME TablesOK, NEW S, NEW apps \in [S -> App], NEW seeds \in [S -> Seed \cup {NoRow}],
         NEW g \in Planted(apps, seeds)
  PROVE  /\ g \in [Offer -> OfferRow \cup {NoRow}]
         /\ \A o \in Offers : g[o] = offer[o]
         /\ \E f : PlantedBy(f, S, seeds, g)
  <1>1. PICK f \in Injections(S, Offer \ minted) :
          g = [o \in Offer |-> IF \E k \in S : f[k] = o
                               THEN LET k == CHOOSE k \in S : f[k] = o
                                    IN  [app |-> apps[k], seed |-> seeds[k]]
                               ELSE offer[o]]
    BY DEF Planted, Injections
  <1>2. f \in [S -> Offer \ minted]
    BY DEF Injections
  <1>3. ASSUME NEW o \in Offer, \E k \in S : f[k] = o
        PROVE  /\ o \notin minted /\ g[o] \in OfferRow
               /\ \E k \in S : f[k] = o /\ g[o].seed = seeds[k]
    <2>. DEFINE c == CHOOSE k \in S : f[k] = o
    <2>1. c \in S /\ f[c] = o
      BY <1>3
    <2>2. g[o] = [app |-> apps[c], seed |-> seeds[c]]
      BY <1>1, <1>3
    <2>. HIDE DEF c
    <2>3. g[o] \in OfferRow /\ g[o].seed = seeds[c]
      BY <2>1, <2>2 DEF OfferRow
    <2>. QED
      BY <1>2, <2>1, <2>3
  <1>4. ASSUME NEW o \in Offer, ~\E k \in S : f[k] = o
        PROVE  g[o] = offer[o]
    BY <1>1, <1>4
  <1>5. g \in [Offer -> OfferRow \cup {NoRow}]
    <2>1. \A o \in Offer : g[o] \in OfferRow \cup {NoRow}
      BY <1>3, <1>4 DEF TablesOK
    <2>2. g = [o \in Offer |-> g[o]]
      BY <1>1
    <2>. QED
      BY <2>1, <2>2
  <1>6. \A o \in Offers : g[o] = offer[o]
    BY <1>3, <1>4 DEF TablesOK, Offers
  <1>7. PlantedBy(f, S, seeds, g)
    BY <1>3, <1>4 DEF PlantedBy, Offers
  <1>. QED
    BY <1>5, <1>6, <1>7

\* 0007 links services to offers there are, and changes nothing else of them.
LEMMA RelinkedEffect ==
  ASSUME TablesOK, NEW g \in [Offer -> OfferRow \cup {NoRow}],
         \A o \in Offers : g[o] = offer[o], NEW h \in Relinked(g)
  PROVE  /\ h \in [Service -> ServiceRow \cup {NoRow}]
         /\ \A s \in Service : h[s] # NoRow =>
              h[s].source \in {o \in Offer : g[o] # NoRow} \cup {NoRow}
  <1>. DEFINE orphans == {s \in Services : service[s].source = NoRow /\ Matching(g, s) # {}}
  <1>1. PICK link \in [orphans -> Offer] :
          /\ \A s \in orphans : link[s] \in Matching(g, s)
          /\ h = [s \in Service |-> IF s \in orphans
                                    THEN [service[s] EXCEPT !.source = link[s]]
                                    ELSE service[s]]
    BY DEF Relinked
  <1>. HIDE DEF orphans
  <1>2. ASSUME NEW s \in Service, s \in orphans
        PROVE  /\ h[s] \in ServiceRow /\ h[s].source \in Offer
               /\ g[h[s].source] # NoRow
    <2>1. service[s] \in ServiceRow /\ link[s] \in Offer /\ g[link[s]] # NoRow
      BY <1>1, <1>2 DEF orphans, Services, Matching, TablesOK
    <2>2. h[s] = [service[s] EXCEPT !.source = link[s]]
      BY <1>1, <1>2
    <2>3. h[s] \in ServiceRow /\ h[s].source = link[s]
      BY <2>1, <2>2 DEF ServiceRow
    <2>. QED
      BY <2>1, <2>3
  <1>3. ASSUME NEW s \in Service, s \notin orphans
        PROVE  /\ h[s] \in ServiceRow \cup {NoRow}
               /\ h[s] # NoRow =>
                    h[s].source \in {o \in Offer : g[o] # NoRow} \cup {NoRow}
    BY <1>1, <1>3 DEF TablesOK, Services, Offers
  <1>4. h \in [Service -> ServiceRow \cup {NoRow}]
    <2>1. \A s \in Service : h[s] \in ServiceRow \cup {NoRow}
      BY <1>2, <1>3
    <2>2. h = [s \in Service |-> h[s]]
      BY <1>1
    <2>. QED
      BY <2>1, <2>2
  <1>. QED
    BY <1>2, <1>3, <1>4

\* What is minted stays minted, so the requests keep what they refer to.
LEMMA AdditionsKept ==
  ASSUME AdditionsOK, UNCHANGED add, minted \subseteq minted'
  PROVE  AdditionsOK'
  BY DEF AdditionsOK, AdditionOK

-----------------------------------------------------------------------------
(* The start of a process                                                  *)

LEMMA MigrateLibraryKeeps ==
  ASSUME LibraryInv, NEW p \in Proc, MigrateLibrary(p)
  PROVE  TablesOK' /\ SeededOnce' /\ NothingSeeded' /\ AdditionsOK'
  <1>1. TablesOK
    BY DEF LibraryInv
  <1>2. /\ proc[p] = "commit" /\ proc' = [proc EXCEPT ![p] = "migrated"]
        /\ offer' \in OffersOfCutover /\ service' \in Relinked(offer')
        /\ cutover' = TRUE /\ UNCHANGED <<category, add>>
        /\ minted' = minted \cup {o \in Offer : offer'[o] # NoRow}
    BY DEF MigrateLibrary, CommitMigrate, Goes
  <1>3. /\ offer' \in [Offer -> OfferRow \cup {NoRow}]
        /\ \A o \in Offers : offer'[o] = offer[o]
        /\ \A o \in Offer \ Offers : offer'[o] # NoRow => offer'[o].seed = NoRow
    <2>1. CASE offer' = offer
      BY <1>1, <2>1 DEF TablesOK, Offers
    <2>2. CASE offer' \in Planted([s \in Services |-> service[s].app],
                                  [s \in Services |-> NoRow])
      <3>1. \A s \in Services : service[s].app \in App
        BY <1>1 DEF TablesOK, Services, ServiceRow
      <3>. DEFINE apps == [s \in Services |-> service[s].app]
                  seeds == [s \in Services |-> NoRow]
      <3>2. apps \in [Services -> App] /\ seeds \in [Services -> Seed \cup {NoRow}]
        BY <3>1
      <3>3. \A s \in Services : seeds[s] = NoRow
        OBVIOUS
      <3>. HIDE DEF apps, seeds
      <3>4. offer' \in Planted(apps, seeds)
        BY <2>2 DEF apps, seeds
      <3>. QED
        BY <1>1, <3>2, <3>3, <3>4, PlantedEffect DEF PlantedBy
    <2>. QED
      BY <1>2, <2>1, <2>2 DEF OffersOfCutover
  <1>4. Offers \subseteq Offers'
    BY <1>3 DEF Offers
  <1>5. TablesOK'
    <2>1. /\ service' \in [Service -> ServiceRow \cup {NoRow}]
          /\ \A s \in Service : service'[s] # NoRow =>
               service'[s].source \in {o \in Offer : offer'[o] # NoRow} \cup {NoRow}
      BY <1>1, <1>2, <1>3, RelinkedEffect
    <2>. QED
      BY <1>1, <1>2, <1>3, <2>1 DEF TablesOK, Services, Offers
  <1>6. SeededOnce'
    BY <1>3 DEF LibraryInv, SeededOnce, Offers
  <1>7. NothingSeeded'
    <2>1. \A q \in Proc : proc'[q] # "seed"
      BY <1>2 DEF LibraryInv, StartupInv, StartupTypeOK, Holding
    <2>. QED
      BY <2>1 DEF NothingSeeded
  <1>8. AdditionsOK'
    BY <1>2, AdditionsKept DEF LibraryInv
  <1>. QED
    BY <1>5, <1>6, <1>7, <1>8

\* The seed is planted into a library without a seeded offer, each entry once.
LEMMA PlantSeedKeeps ==
  ASSUME LibraryInv, NEW p \in Proc, PlantSeed(p)
  PROVE  TablesOK' /\ SeededOnce' /\ NothingSeeded' /\ AdditionsOK'
  <1>1. TablesOK
    BY DEF LibraryInv
  <1>2. /\ proc[p] = "seed" /\ proc' = [proc EXCEPT ![p] = "serving"]
        /\ offer' \in Planted([x \in Seed |-> x], [x \in Seed |-> x])
        /\ minted' = minted \cup {o \in Offer : offer'[o] # NoRow}
        /\ UNCHANGED <<service, category, cutover, add>>
    BY DEF PlantSeed, Goes
  <1>. DEFINE self == [x \in Seed |-> x]
  <1>3. /\ self \in [Seed -> App] /\ self \in [Seed -> Seed \cup {NoRow}]
        /\ \A x \in Seed : self[x] = x
    BY LibraryAssumption
  <1>4. offer' \in Planted(self, self)
    BY <1>2
  <1>. HIDE DEF self
  <1>5. /\ offer' \in [Offer -> OfferRow \cup {NoRow}]
        /\ \A o \in Offers : offer'[o] = offer[o]
    BY <1>1, <1>3, <1>4, PlantedEffect
  <1>6. \E f : PlantedBy(f, Seed, self, offer')
    BY <1>1, <1>3, <1>4, PlantedEffect
  <1>7. PICK f : PlantedBy(f, Seed, self, offer')
    BY <1>6
  <1>8. ASSUME NEW o \in Offer \ Offers, offer'[o] # NoRow
        PROVE  f[offer'[o].seed] = o
    BY <1>3, <1>7, <1>8 DEF PlantedBy
  <1>9. TablesOK'
    BY <1>1, <1>2, <1>5 DEF TablesOK, Services, Offers
  <1>10. \A o \in Offers : offer'[o].seed = NoRow
    BY <1>2, <1>5 DEF LibraryInv, NothingSeeded
  <1>11. SeededOnce'
    BY <1>8, <1>10 DEF SeededOnce, Offers
  <1>12. NothingSeeded'
    <2>1. \A q \in Proc : proc'[q] # "seed"
      BY <1>2 DEF LibraryInv, StartupInv, StartupTypeOK, Holding
    <2>. QED
      BY <2>1 DEF NothingSeeded
  <1>13. AdditionsOK'
    BY <1>2, AdditionsKept DEF LibraryInv
  <1>. QED
    BY <1>9, <1>11, <1>12, <1>13

\* The other steps of a process's start leave the tables alone.
LEMMA OtherStartKeeps ==
  ASSUME LibraryInv, UNCHANGED tableVars, AdditionsOK',
         \A p \in Proc : proc'[p] = "seed" => proc[p] = "seed" \/ Offers = {}
  PROVE  TablesOK' /\ SeededOnce' /\ NothingSeeded'
  BY DEF LibraryInv, TablesOK, SeededOnce, NothingSeeded, tableVars, Offers, Services

LEMMA CodesOfAdd == \A code \in {0, 201, 400, 404, 500} : code \in AddCodes
  BY DEF AddCodes

LEMMA IdleIsOK == AdditionOK(Idle)
  <1>1. 1 \in 1..MaxSuffix
    BY LibraryAssumption
  <1>2. Idle \in Addition
    BY <1>1, CodesOfAdd DEF Addition, Idle
  <1>. QED
    BY <1>2 DEF AdditionOK, Idle

LEMMA StartLibraryKeeps ==
  ASSUME LibraryInv, NEW p \in Proc, StartLibrary(p)
  PROVE  TablesOK' /\ SeededOnce' /\ NothingSeeded' /\ AdditionsOK'
  <1>. proc \in [Proc -> Stages]
    BY DEF LibraryInv, StartupInv, StartupTypeOK
  <1>1. CASE (Launch(p) \/ LockMigrate(p)) /\ UNCHANGED <<tableVars, add>>
    <2>1. AdditionsOK'
      BY <1>1, AdditionsKept DEF LibraryInv, tableVars
    <2>. QED
      BY <1>1, <2>1, OtherStartKeeps DEF Launch, LockMigrate, Goes
  <1>2. CASE Migrate(p) /\ UNCHANGED <<tableVars, add>>
    <2>1. AdditionsOK'
      BY <1>2, AdditionsKept DEF LibraryInv, tableVars
    <2>2. \A q \in Proc : proc'[q] = "seed" => proc[q] = "seed"
      BY <1>2 DEF Migrate, Migration, Goes
    <2>. QED
      BY <1>2, <2>1, <2>2, OtherStartKeeps
  <1>3. CASE LockSeed(p) \/ CountSeed(p)
    <2>1. UNCHANGED <<tableVars, add>>
      BY <1>3 DEF LockSeed, CountSeed
    <2>2. AdditionsOK'
      BY <2>1, AdditionsKept DEF LibraryInv, tableVars
    <2>3. \A q \in Proc : proc'[q] = "seed" => proc[q] = "seed" \/ Offers = {}
      BY <1>3 DEF LockSeed, CountSeed, Goes
    <2>. QED
      BY <2>1, <2>2, <2>3, OtherStartKeeps
  <1>4. CASE Die(p) /\ add' = [add EXCEPT ![p] = Idle] /\ UNCHANGED tableVars
    <2>1. AdditionsOK'
      BY <1>4, IdleIsOK DEF LibraryInv, AdditionsOK, AdditionOK, tableVars
    <2>2. \A q \in Proc : proc'[q] = "seed" => proc[q] = "seed"
      BY <1>4 DEF Die, Goes
    <2>. QED
      BY <1>4, <2>1, <2>2, OtherStartKeeps
  <1>. QED
    BY <1>1, <1>2, <1>3, <1>4, MigrateLibraryKeeps, PlantSeedKeeps DEF StartLibrary

-----------------------------------------------------------------------------
(* Handlers of one statement                                               *)

\* A statement that changes services by rows that refer to offers there are.
LEMMA ServicesKeep ==
  ASSUME LibraryInv, UNCHANGED <<proc, offer, minted, cutover, add>>,
         category' \in BOOLEAN,
         service' \in [Service -> ServiceRow \cup {NoRow}],
         \A s \in Service : service'[s] # NoRow => service'[s].source \in Offers \cup {NoRow}
  PROVE  TablesOK' /\ SeededOnce' /\ NothingSeeded' /\ AdditionsOK'
  <1>1. TablesOK'
    BY DEF LibraryInv, TablesOK, Services, Offers
  <1>2. SeededOnce' /\ NothingSeeded'
    BY DEF LibraryInv, SeededOnce, NothingSeeded, Offers
  <1>3. AdditionsOK'
    BY AdditionsKept DEF LibraryInv
  <1>. QED
    BY <1>1, <1>2, <1>3

LEMMA ServiceRequestKeeps ==
  ASSUME LibraryInv, ServiceRequest
  PROVE  TablesOK' /\ SeededOnce' /\ NothingSeeded' /\ AdditionsOK'
  <1>1. /\ service \in [Service -> ServiceRow \cup {NoRow}] /\ category \in BOOLEAN
        /\ \A s \in Service : service[s] # NoRow => service[s].source \in Offers \cup {NoRow}
    BY DEF LibraryInv, TablesOK, Services
  <1>2. UNCHANGED <<proc, offer, minted, cutover, category, add>>
    BY DEF ServiceRequest, startupVars
  <1>3. ASSUME NEW s \in Service, NEW row \in ServiceRow \cup {NoRow},
               service' = [service EXCEPT ![s] = row],
               row # NoRow => row.source \in Offers \cup {NoRow}
        PROVE  TablesOK' /\ SeededOnce' /\ NothingSeeded' /\ AdditionsOK'
    <2>1. service' \in [Service -> ServiceRow \cup {NoRow}]
      BY <1>1, <1>3
    <2>2. \A x \in Service : service'[x] # NoRow =>
            service'[x].source \in Offers \cup {NoRow}
      BY <1>1, <1>3
    <2>. QED
      BY <1>1, <1>2, <2>1, <2>2, ServicesKeep
  <1>4. ASSUME NEW s \in Service, NEW a \in App,
               service' = [service EXCEPT ![s] =
                 [app |-> a, slug |-> <<a, 1>>, source |-> NoRow, filed |-> FALSE]]
        PROVE  TablesOK' /\ SeededOnce' /\ NothingSeeded' /\ AdditionsOK'
    <2>1. [app |-> a, slug |-> <<a, 1>>, source |-> NoRow, filed |-> FALSE] \in ServiceRow
      BY LibraryAssumption DEF ServiceRow, Slug
    <2>. QED
      BY <1>3, <1>4, <2>1
  <1>5. ASSUME NEW s \in Services, NEW a \in App, service' = [service EXCEPT ![s].app = a]
        PROVE  TablesOK' /\ SeededOnce' /\ NothingSeeded' /\ AdditionsOK'
    <2>. DEFINE row == [service[s] EXCEPT !.app = a]
    <2>1. service[s] \in ServiceRow /\ s \in Service
      BY <1>1 DEF Services
    <2>2. row \in ServiceRow /\ row.source = service[s].source
      BY <2>1 DEF ServiceRow
    <2>3. service' = [service EXCEPT ![s] = row]
      BY <1>5
    <2>. HIDE DEF row
    <2>. QED
      BY <1>1, <1>3, <1>5, <2>1, <2>2, <2>3 DEF Services
  <1>6. ASSUME NEW s \in Services, service' = [service EXCEPT ![s] = NoRow]
        PROVE  TablesOK' /\ SeededOnce' /\ NothingSeeded' /\ AdditionsOK'
    BY <1>3, <1>6 DEF Services
  <1>. QED
    BY <1>4, <1>5, <1>6 DEF ServiceRequest

LEMMA DeleteCategoryKeeps ==
  ASSUME LibraryInv, DeleteCategory
  PROVE  TablesOK' /\ SeededOnce' /\ NothingSeeded' /\ AdditionsOK'
  <1>1. UNCHANGED <<proc, offer, minted, cutover, add>> /\ category' = FALSE
    BY DEF DeleteCategory, startupVars
  <1>2. \A s \in Services : service[s] \in ServiceRow
    BY DEF LibraryInv, TablesOK, Services
  <1>3. \A s \in Services :
          LET row == [service[s] EXCEPT !.filed = FALSE]
          IN  row \in ServiceRow /\ row.source = service[s].source
    BY <1>2 DEF ServiceRow
  <1>4. service' = [s \in Service |-> IF s \in Services
                                     THEN [service[s] EXCEPT !.filed = FALSE] ELSE NoRow]
    BY DEF DeleteCategory
  <1>5. /\ service' \in [Service -> ServiceRow \cup {NoRow}]
        /\ \A s \in Service : service'[s] # NoRow => service'[s].source \in Offers \cup {NoRow}
    BY <1>3, <1>4 DEF LibraryInv, TablesOK
  <1>. QED
    BY <1>1, <1>5, ServicesKeep

LEMMA OfferRequestKeeps ==
  ASSUME LibraryInv, OfferRequest
  PROVE  TablesOK' /\ SeededOnce' /\ NothingSeeded' /\ AdditionsOK'
  <1>1. UNCHANGED <<proc, category, cutover, add>>
    BY DEF OfferRequest, startupVars
  <1>2. TablesOK
    BY DEF LibraryInv
  <1>3. ASSUME NEW o \in Offer, NEW a \in App, CreateOffer(o, a)
        PROVE  TablesOK' /\ SeededOnce' /\ NothingSeeded' /\ AdditionsOK'
    <2>. DEFINE row == [app |-> a, seed |-> NoRow]
    <2>1. /\ o \notin minted /\ offer' = [offer EXCEPT ![o] = row]
          /\ minted' = minted \cup {o} /\ UNCHANGED service
      BY <1>3 DEF CreateOffer
    <2>2. row \in OfferRow /\ row # NoRow /\ row.seed = NoRow
      BY NoRowAssumption DEF OfferRow
    <2>. HIDE DEF row
    <2>3. /\ offer' \in [Offer -> OfferRow \cup {NoRow}] /\ offer'[o] = row
          /\ \A q \in Offer : q # o => offer'[q] = offer[q]
      BY <1>2, <2>1, <2>2 DEF TablesOK
    <2>4. TablesOK'
      BY <1>1, <1>2, <2>1, <2>2, <2>3 DEF TablesOK, Services, Offers
    <2>5. SeededOnce' /\ NothingSeeded'
      BY <1>1, <2>2, <2>3 DEF LibraryInv, SeededOnce, NothingSeeded, Offers
    <2>6. AdditionsOK'
      BY <1>1, <2>1, AdditionsKept DEF LibraryInv
    <2>. QED
      BY <2>4, <2>5, <2>6
  <1>4. ASSUME NEW o \in Offer, NEW a \in App, UpdateOffer(o, a)
        PROVE  TablesOK' /\ SeededOnce' /\ NothingSeeded' /\ AdditionsOK'
    <2>. DEFINE row == [offer[o] EXCEPT !.app = a]
    <2>1. o \in Offers /\ offer[o] \in OfferRow /\ UNCHANGED <<service, minted>>
      BY <1>2, <1>4 DEF UpdateOffer, Offers, TablesOK
    <2>2. offer' = [offer EXCEPT ![o] = row]
      BY <1>4 DEF UpdateOffer
    <2>3. row \in OfferRow /\ row # NoRow /\ row.seed = offer[o].seed
      BY <2>1, NoRowAssumption DEF OfferRow
    <2>. HIDE DEF row
    <2>4. /\ offer' \in [Offer -> OfferRow \cup {NoRow}] /\ offer'[o] = row
          /\ \A q \in Offer : q # o => offer'[q] = offer[q]
      BY <1>2, <2>2, <2>3 DEF TablesOK
    <2>5. TablesOK'
      BY <1>1, <1>2, <2>1, <2>3, <2>4 DEF TablesOK, Services, Offers
    <2>6. SeededOnce' /\ NothingSeeded'
      BY <1>1, <2>1, <2>3, <2>4 DEF LibraryInv, SeededOnce, NothingSeeded, Offers
    <2>7. AdditionsOK'
      BY <1>1, <2>1, AdditionsKept DEF LibraryInv
    <2>. QED
      BY <2>5, <2>6, <2>7
  <1>5. ASSUME NEW o \in Offer, DeleteOffer(o)
        PROVE  TablesOK' /\ SeededOnce' /\ NothingSeeded' /\ AdditionsOK'
    <2>1. offer' = [offer EXCEPT ![o] = NoRow] /\ UNCHANGED minted
      BY <1>5 DEF DeleteOffer
    <2>2. /\ offer' \in [Offer -> OfferRow \cup {NoRow}] /\ offer'[o] = NoRow
          /\ \A q \in Offer : q # o => offer'[q] = offer[q]
      BY <1>2, <2>1 DEF TablesOK
    <2>3. \A s \in Services :
            LET row == [service[s] EXCEPT !.source = NoRow]
            IN  row \in ServiceRow /\ row.source = NoRow
      BY <1>2 DEF TablesOK, Services, ServiceRow
    <2>4. service' = [s \in Service |->
            IF s \in Services /\ service[s].source = o
            THEN [service[s] EXCEPT !.source = NoRow] ELSE service[s]]
      BY <1>5 DEF DeleteOffer
    <2>5. /\ service' \in [Service -> ServiceRow \cup {NoRow}]
          /\ \A s \in Service : service'[s] # NoRow =>
               service'[s].source \in (Offers \ {o}) \cup {NoRow}
      BY <1>2, <2>3, <2>4 DEF TablesOK, Services
    <2>6. TablesOK'
      BY <1>1, <1>2, <2>1, <2>2, <2>5 DEF TablesOK, Services, Offers
    <2>7. SeededOnce' /\ NothingSeeded'
      BY <1>1, <2>2 DEF LibraryInv, SeededOnce, NothingSeeded, Offers
    <2>8. AdditionsOK'
      BY <1>1, <2>1, AdditionsKept DEF LibraryInv
    <2>. QED
      BY <2>6, <2>7, <2>8
  <1>. QED
    BY <1>3, <1>4, <1>5 DEF OfferRequest

-----------------------------------------------------------------------------
(* AddFromLibrary                                                          *)

\* What an addition becomes.
LEMMA ConcludedFields ==
  ASSUME NEW a \in Addition, NEW code \in AddCodes
  PROVE  LET b == Concluded(a, code)
         IN  /\ b \in Addition /\ b.phase = "done" /\ b.code = code
             /\ b.made = a.made /\ b.offer = a.offer
  BY DEF Concluded, Addition

LEMMA SentAddition ==
  ASSUME TablesOK, NEW o \in minted, NEW filed \in BOOLEAN
  PROVE  AdditionOK([Idle EXCEPT !.phase = "read", !.offer = o, !.filed = filed])
  <1>. DEFINE b == [Idle EXCEPT !.phase = "read", !.offer = o, !.filed = filed]
  <1>1. Idle \in Addition /\ Idle.made = 0 /\ Idle.code = 0 /\ o \in Offer
    BY IdleIsOK DEF AdditionOK, Idle, TablesOK
  <1>2. b \in Addition
    BY <1>1 DEF Addition
  <1>3. /\ b.phase = "read" /\ b.code = 0 /\ b.made = 0 /\ b.offer = o
    BY <1>1 DEF Addition
  <1>. QED
    BY <1>1, <1>2, <1>3 DEF AdditionOK

LEMMA AnsweredAddition ==
  ASSUME NEW a, AdditionOK(a), a.phase # "done", NEW code \in {400, 404, 500}
  PROVE  AdditionOK(Concluded(a, code))
  <1>1. a \in Addition
    BY DEF AdditionOK
  <1>2. code \in AddCodes
    BY CodesOfAdd
  <1>. DEFINE b == Concluded(a, code)
  <1>3. /\ b \in Addition /\ b.phase = "done" /\ b.code = code
        /\ b.made = a.made /\ b.offer = a.offer
    BY <1>1, <1>2, ConcludedFields
  <1>. HIDE DEF b
  <1>4. AdditionOK(b)
    BY <1>3 DEF AdditionOK
  <1>. QED
    BY <1>4 DEF b

LEMMA InsertingAddition ==
  ASSUME NEW a, AdditionOK(a), a.phase = "check"
  PROVE  AdditionOK([a EXCEPT !.phase = "insert"])
  <1>. DEFINE b == [a EXCEPT !.phase = "insert"]
  <1>1. a \in Addition
    BY DEF AdditionOK
  <1>2. b \in Addition
    BY <1>1 DEF Addition
  <1>3. /\ b.phase = "insert" /\ b.code = a.code /\ b.made = a.made
        /\ b.offer = a.offer /\ b.app = a.app
    BY <1>1 DEF Addition
  <1>. QED
    BY <1>2, <1>3 DEF AdditionOK

LEMMA ReadAddition ==
  ASSUME NEW a, AdditionOK(a), a.phase = "read", NEW phase \in {"check", "insert"},
         NEW app \in App
  PROVE  AdditionOK([a EXCEPT !.phase = phase, !.app = app])
  <1>. DEFINE b == [a EXCEPT !.phase = phase, !.app = app]
  <1>1. a \in Addition
    BY DEF AdditionOK
  <1>2. b \in Addition
    BY <1>1 DEF Addition
  <1>3. /\ b.phase = phase /\ b.code = a.code /\ b.made = a.made
        /\ b.offer = a.offer /\ b.app = app
    BY <1>1 DEF Addition
  <1>. QED
    BY <1>2, <1>3 DEF AdditionOK

LEMMA RetriedAddition ==
  ASSUME NEW a, AdditionOK(a), a.phase = "insert"
  PROVE  AdditionOK(AfterTaken(a))
  <1>1. a.try \in 1..MaxSuffix
    BY DEF AdditionOK, Addition
  <1>2. CASE a.try < MaxSuffix
    <2>1. a.try + 1 \in 1..MaxSuffix
      BY <1>1, <1>2, LibraryAssumption
    <2>. DEFINE b == [a EXCEPT !.try = a.try + 1]
    <2>2. a \in Addition
      BY DEF AdditionOK
    <2>3. b \in Addition
      BY <2>1, <2>2 DEF Addition
    <2>4. /\ b.phase = a.phase /\ b.code = a.code /\ b.made = a.made
          /\ b.offer = a.offer /\ b.app = a.app
      BY <2>2 DEF Addition
    <2>5. AdditionOK(b)
      BY <2>3, <2>4 DEF AdditionOK
    <2>. QED
      BY <1>2, <2>5 DEF AfterTaken
  <1>3. CASE ~(a.try < MaxSuffix)
    <2>. AdditionOK(Concluded(a, 500))
      BY AnsweredAddition
    <2>. QED
      BY <1>3 DEF AfterTaken
  <1>. QED
    BY <1>2, <1>3

LEMMA MadeAddition ==
  ASSUME NEW a, AdditionOK(a), a.phase = "insert"
  PROVE  LET b == [a EXCEPT !.made = a.made + 1]
         IN  AdditionOK(Concluded(b, 201)) /\ AdditionOK(AfterError(b))
  <1>. DEFINE b == [a EXCEPT !.made = a.made + 1]
  <1>1. a \in Addition /\ a.made = 0 /\ a.offer \in minted \cup {NoRow}
    BY DEF AdditionOK
  <1>2. b \in Addition /\ b.made = 1 /\ b.offer = a.offer
    BY <1>1 DEF Addition
  <1>. HIDE DEF b
  <1>3. ASSUME NEW code \in {201, 500}
        PROVE  AdditionOK(Concluded(b, code))
    <2>. DEFINE c == Concluded(b, code)
    <2>. code \in AddCodes
      BY CodesOfAdd
    <2>1. /\ c \in Addition /\ c.phase = "done" /\ c.code = code
          /\ c.made = 1 /\ c.offer = a.offer
      BY <1>2, ConcludedFields
    <2>. HIDE DEF c
    <2>2. AdditionOK(c)
      BY <1>1, <2>1 DEF AdditionOK
    <2>. QED
      BY <2>2 DEF c
  <1>. QED
    BY <1>3 DEF AfterError, b

\* One process's addition changes.
LEMMA ContinueKeeps ==
  ASSUME AdditionsOK, NEW p \in Proc, NEW a, AdditionOK(a), Continue(p, a),
         UNCHANGED minted
  PROVE  AdditionsOK'
  <1>1. add' = [add EXCEPT ![p] = a] /\ a \in Addition
    BY DEF Continue, AdditionOK
  <1>2. /\ add' \in [Proc -> Addition] /\ add'[p] = a
        /\ \A q \in Proc : q # p => add'[q] = add[q]
    BY <1>1 DEF AdditionsOK
  <1>. QED
    BY <1>2 DEF AdditionsOK, AdditionOK

LEMMA AddTablesKept ==
  ASSUME LibraryInv, UNCHANGED <<startupVars, tableVars>>
  PROVE  TablesOK' /\ SeededOnce' /\ NothingSeeded'
  BY DEF LibraryInv, TablesOK, SeededOnce, NothingSeeded, tableVars, startupVars,
         Offers, Services

LEMMA InsertCopyKeeps ==
  ASSUME LibraryInv, NEW p \in Proc, InsertCopy(p)
  PROVE  TablesOK' /\ SeededOnce' /\ NothingSeeded' /\ AdditionsOK'
  <1>. DEFINE a == add[p]
              slug == <<a.app, a.try>>
              b == [a EXCEPT !.made = a.made + 1]
  <1>1. /\ AdditionsOK /\ AdditionOK(a) /\ a.phase = "insert"
        /\ UNCHANGED <<startupVars, offer, category, cutover, minted>>
    BY DEF InsertCopy, Adding, LibraryInv, AdditionsOK
  <1>2. CASE (Continue(p, AfterError(a)) \/ Continue(p, AfterTaken(a))) /\ UNCHANGED service
    <2>1. AdditionOK(Concluded(a, 500)) /\ AdditionOK(AfterTaken(a))
      BY <1>1, AnsweredAddition, RetriedAddition
    <2>2. AdditionsOK'
      BY <1>1, <1>2, <2>1, ContinueKeeps DEF AfterError
    <2>. QED
      BY <1>1, <1>2, <2>2, AddTablesKept DEF tableVars
  <1>3. ASSUME NEW s \in Service, a.offer \in Offers,
               service' = [service EXCEPT ![s] =
                 [app |-> a.app, slug |-> slug, source |-> a.offer, filed |-> a.filed]],
               \/ Continue(p, Concluded(b, 201))
               \/ Continue(p, AfterError(b))
        PROVE  TablesOK' /\ SeededOnce' /\ NothingSeeded' /\ AdditionsOK'
    <2>. DEFINE row == [app |-> a.app, slug |-> slug, source |-> a.offer, filed |-> a.filed]
    <2>1. row \in ServiceRow /\ row.source = a.offer
      BY <1>1, <1>3 DEF AdditionOK, Addition, ServiceRow, Slug, Offers
    <2>2. service' = [service EXCEPT ![s] = row]
      BY <1>3
    <2>. HIDE DEF row
    <2>3. TablesOK'
      BY <1>1, <1>3, <2>1, <2>2 DEF LibraryInv, TablesOK, Services, Offers
    <2>4. SeededOnce' /\ NothingSeeded'
      BY <1>1 DEF LibraryInv, SeededOnce, NothingSeeded, startupVars, Offers
    <2>5. /\ AdditionOK(Concluded(b, 201))
          /\ AdditionOK(AfterError(b))
      BY <1>1, MadeAddition
    <2>6. AdditionsOK'
      BY <1>1, <1>3, <2>5, ContinueKeeps
    <2>. QED
      BY <2>3, <2>4, <2>6
  <1>. QED
    BY <1>2, <1>3 DEF InsertCopy, Services

LEMMA AddStepKeeps ==
  ASSUME LibraryInv, NEW p \in Proc, AddStep(p)
  PROVE  TablesOK' /\ SeededOnce' /\ NothingSeeded' /\ AdditionsOK'
  <1>. DEFINE a == add[p]
  <1>1. /\ TablesOK /\ AdditionsOK /\ AdditionOK(a)
    BY DEF LibraryInv, AdditionsOK
  <1>2. ASSUME NEW c, AdditionOK(c), Continue(p, c), UNCHANGED <<startupVars, tableVars>>
        PROVE  TablesOK' /\ SeededOnce' /\ NothingSeeded' /\ AdditionsOK'
    BY <1>1, <1>2, ContinueKeeps, AddTablesKept DEF tableVars
  <1>3. ASSUME NEW o \in minted, NEW filed \in BOOLEAN, SendAdd(p, o, filed)
        PROVE  TablesOK' /\ SeededOnce' /\ NothingSeeded' /\ AdditionsOK'
    BY <1>1, <1>2, <1>3, SentAddition DEF SendAdd
  <1>4. CASE ReadOffer(p)
    <2>1. /\ a.phase = "read" /\ UNCHANGED <<startupVars, tableVars>>
          /\ IF a.offer \notin Offers THEN AddAnswered(p, 404)
             ELSE Continue(p, [a EXCEPT !.phase = IF a.filed THEN "check" ELSE "insert",
                                        !.app = offer[a.offer].app])
      BY <1>4 DEF ReadOffer, Adding
    <2>2. CASE a.offer \notin Offers
      <3>1. AdditionOK(Concluded(a, 404))
        BY <1>1, <2>1, AnsweredAddition
      <3>. QED
        BY <1>2, <2>1, <2>2, <3>1 DEF AddAnswered
    <2>3. CASE a.offer \in Offers
      <3>1. offer[a.offer].app \in App
        BY <1>1, <2>3 DEF TablesOK, Offers, OfferRow
      <3>. DEFINE phase == IF a.filed THEN "check" ELSE "insert"
      <3>2. phase \in {"check", "insert"}
        OBVIOUS
      <3>3. Continue(p, [a EXCEPT !.phase = phase, !.app = offer[a.offer].app])
        BY <2>1, <2>3
      <3>. HIDE DEF phase
      <3>4. AdditionOK([a EXCEPT !.phase = phase, !.app = offer[a.offer].app])
        BY <1>1, <2>1, <3>1, <3>2, ReadAddition
      <3>. QED
        BY <1>2, <2>1, <3>3, <3>4
    <2>. QED
      BY <2>2, <2>3
  <1>5. CASE CheckCategory(p)
    <2>1. a.phase = "check" /\ UNCHANGED <<startupVars, tableVars>>
      BY <1>5 DEF CheckCategory, Adding
    <2>2. \/ Continue(p, [a EXCEPT !.phase = "insert"])
          \/ Continue(p, Concluded(a, 400))
      BY <1>5 DEF CheckCategory, AddAnswered
    <2>3. /\ AdditionOK([a EXCEPT !.phase = "insert"])
          /\ AdditionOK(Concluded(a, 400))
      BY <1>1, <2>1, InsertingAddition, AnsweredAddition
    <2>. QED
      BY <1>2, <2>1, <2>2, <2>3
  <1>. QED
    BY <1>3, <1>4, <1>5, InsertCopyKeeps DEF AddStep

-----------------------------------------------------------------------------
LEMMA LibraryInvInit == LibraryInit => LibraryInv
  <1>. SUFFICES ASSUME LibraryInit PROVE LibraryInv
    OBVIOUS
  <1>1. StartupInv
    BY StartupInvInit DEF LibraryInit
  <1>2. Offers = {}
    BY DEF LibraryInit, Offers
  <1>3. /\ service \in [Service -> ServiceRow \cup {NoRow}]
        /\ \A s \in Services : service[s].source = NoRow
    <2>1. PICK old :
            \E app \in Injections(old, App) :
              service = [s \in Service |->
                IF s \in old THEN [app |-> app[s], slug |-> <<app[s], 1>>,
                                   source |-> NoRow, filed |-> FALSE] ELSE NoRow]
      BY DEF LibraryInit
    <2>. PICK app \in Injections(old, App) :
           service = [s \in Service |->
             IF s \in old THEN [app |-> app[s], slug |-> <<app[s], 1>>,
                                source |-> NoRow, filed |-> FALSE] ELSE NoRow]
      BY <2>1
    <2>. app \in [old -> App]
      BY DEF Injections
    <2>2. \A s \in old : [app |-> app[s], slug |-> <<app[s], 1>>,
                          source |-> NoRow, filed |-> FALSE] \in ServiceRow
      BY LibraryAssumption DEF ServiceRow, Slug
    <2>. QED
      BY <2>1, <2>2 DEF Services
  <1>4. TablesOK
    BY <1>2, <1>3 DEF LibraryInit, TablesOK
  <1>5. AdditionsOK
    BY IdleIsOK DEF LibraryInit, AdditionsOK, AdditionOK
  <1>. QED
    BY <1>1, <1>2, <1>4, <1>5 DEF LibraryInv, SeededOnce, NothingSeeded

LEMMA LibraryInvNext == LibraryInv /\ [LibraryNext]_libraryVars => LibraryInv'
  <1>. SUFFICES ASSUME LibraryInv, [LibraryNext]_libraryVars PROVE LibraryInv'
    OBVIOUS
  <1>1. StartupInv'
    BY LibraryStartupStep DEF LibraryInv
  <1>2. CASE UNCHANGED libraryVars
    <2>1. AdditionsOK'
      BY <1>2, AdditionsKept DEF LibraryInv, libraryVars, tableVars
    <2>. QED
      BY <1>1, <1>2, <2>1, AddTablesKept DEF LibraryInv, libraryVars
  <1>. QED
    BY <1>1, <1>2, StartLibraryKeeps, AddStepKeeps, OfferRequestKeeps,
       ServiceRequestKeeps, DeleteCategoryKeeps DEF LibraryInv, LibraryNext

THEOREM LibraryInvariant == LibrarySpec => []LibraryInv
  BY LibraryInvInit, LibraryInvNext, PTL DEF LibrarySpec

\* Every variable stays in its type, and the foreign key in its table.
THEOREM LibraryAlwaysTyped == LibrarySpec => []LibraryTypeOK
  <1>1. LibraryInv => LibraryTypeOK
    BY DEF LibraryInv, StartupInv, TablesOK, AdditionsOK, AdditionOK, LibraryTypeOK
  <1>. QED
    BY <1>1, LibraryInvariant, PTL

\* However many processes boot at once, no entry of the seed has two offers.
THEOREM AlwaysSeededOnce == LibrarySpec => []SeededOnce
  BY LibraryInvariant, PTL DEF LibraryInv

\* A 201 is one copy, a refusal is none, and no request makes two.
THEOREM AlwaysOneCopyPerAdd == LibrarySpec => []OneCopyPerAdd
  <1>1. LibraryInv => OneCopyPerAdd
    <2>. SUFFICES ASSUME LibraryInv, NEW p \in Proc
                  PROVE  /\ add[p].made <= 1
                         /\ add[p].code = 201 => add[p].made = 1
                         /\ add[p].code \in {400, 404} => add[p].made = 0
      BY DEF OneCopyPerAdd
    <2>. QED
      BY DEF LibraryInv, AdditionsOK, AdditionOK
  <1>. QED
    BY <1>1, LibraryInvariant, PTL

\* The library's statements neither refuse a start nor touch a width.
THEOREM LibraryKeepsWidths == LibrarySpec => RestartsKeepWidths
  <1>1. LibraryInv /\ [LibraryNext]_libraryVars => [KeepsWidths]_startupVars
    BY LibraryStartupStep DEF LibraryInv, StartupInv, KeepsWidths, UpgradesOnly
  <1>. QED
    BY <1>1, LibraryInvariant, PTL DEF LibrarySpec, RestartsKeepWidths, KeepsWidths
=============================================================================
