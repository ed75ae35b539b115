------------------------------ MODULE Library ------------------------------
(***************************************************************************)
(* The App Library (internal/storage/library.go, seed.go, migration 0007;  *)
(* internal/api/library.go): offers that admins curate, and the catalog's  *)
(* services that are copied from them.  Processes start as in Startup: the *)
(* migration links services to offers, then SeedLibraryIfEmpty fills an    *)
(* empty library.  AddFromLibrary is several statements, one per step;     *)
(* the other handlers are one statement.  There is an admin when the       *)
(* cutover runs; the order of the offers is in WholeSetPut.                *)
(***************************************************************************)
EXTENDS Startup

CONSTANTS
  Offer,           \* the offers a run can mint
  Service,         \* bounds the services there are at once
  App,             \* a (name, url); its slug is made from it
  Seed,            \* the embedded catalog
  MaxSuffix,       \* how many slugs AddFromLibrary tries (1000)
  NoRow            \* NULL, or "no such row"

ASSUME LibraryAssumption ==
  /\ Seed \subseteq App
  /\ MaxSuffix \in Nat \ {0}
  /\ NoRow \notin Offer \cup App

Slug == App \X (1..MaxSuffix)
OfferRow == [app : App, seed : Seed \cup {NoRow}]   \* seed: history, its entry
ServiceRow == [app : App, slug : Slug, source : Offer \cup {NoRow}, filed : BOOLEAN]

ASSUME NoRowAssumption == NoRow \notin OfferRow \cup ServiceRow

VARIABLES
  offer, service,  \* rows by id, or NoRow
  category,        \* is the category an admin may file a copy under there?
  cutover,         \* has 0007 given every service an owner?
  minted,          \* offers there have been; gen_random_uuid never repeats one
  add              \* add[p]: the AddFromLibrary request process p serves

tableVars == <<offer, service, category, cutover, minted>>
libraryVars == <<startupVars, tableVars, add>>

AddCodes == {0, 201, 400, 404, 500}

Addition ==
  [phase : {"idle", "read", "check", "insert", "done"}, offer : Offer \cup {NoRow},
   app : App \cup {NoRow}, filed : BOOLEAN, try : 1..MaxSuffix,
   code : AddCodes, made : Nat]

Idle == [phase |-> "idle", offer |-> NoRow, app |-> NoRow, filed |-> FALSE,
         try |-> 1, code |-> 0, made |-> 0]     \* made: history, copies inserted

Offers == {o \in Offer : offer[o] # NoRow}
Services == {s \in Service : service[s] # NoRow}
SlugTaken(slug) == \E s \in Services : service[s].slug = slug
Injections(S, T) == {f \in [S -> T] : \A x, y \in S : f[x] = f[y] => x = y}

\* Any release's database: before 0007 it may hold services that nobody owns.
LibraryInit ==
  /\ StartupInit
  /\ cutover \in BOOLEAN /\ (db.check # "none" => cutover)
  /\ offer = [o \in Offer |-> NoRow] /\ minted = {}
  /\ \E old \in IF cutover THEN {{}} ELSE SUBSET Service :
     \E app \in Injections(old, App) :
       service = [s \in Service |->
          IF s \in old THEN [app |-> app[s], slug |-> <<app[s], 1>>,
                             source |-> NoRow, filed |-> FALSE] ELSE NoRow]
  /\ category = TRUE
  /\ add = [p \in Proc |-> Idle]

-----------------------------------------------------------------------------
(* Start of a process                                                      *)

Planted(apps, seeds) ==    \* new offers, one per element of DOMAIN apps
  {[o \in Offer |-> IF \E k \in DOMAIN f : f[k] = o
                    THEN LET k == CHOOSE k \in DOMAIN f : f[k] = o
                         IN  [app |-> apps[k], seed |-> seeds[k]]
                    ELSE offer[o]] :
     f \in Injections(DOMAIN apps, Offer \ minted)}

\* 0007, step 3: before the cutover, one offer per service, if there is none.
OffersOfCutover ==
  IF cutover \/ Offers # {} THEN {offer}
  ELSE Planted([s \in Services |-> service[s].app], [s \in Services |-> NoRow])

Matching(offers, s) ==
  {o \in Offer : offers[o] # NoRow /\ offers[o].app = service[s].app}

\* 0007, step 5b, at every start: every service without a source that matches
\* an offer is linked to one.
Relinked(offers) ==
  LET orphans == {s \in Services : service[s].source = NoRow /\ Matching(offers, s) # {}}
  IN  {[s \in Service |-> IF s \in orphans THEN [service[s] EXCEPT !.source = link[s]]
                          ELSE service[s]] :
         link \in {l \in [orphans -> Offer] : \A s \in orphans : l[s] \in Matching(offers, s)}}

MigrateLibrary(p) ==
  /\ CommitMigrate(p)
  /\ offer' \in OffersOfCutover
  /\ service' \in Relinked(offer')
  /\ cutover' = TRUE
  /\ minted' = minted \cup {o \in Offer : offer'[o] # NoRow}
  /\ UNCHANGED <<category, add>>

\* Mutant of LockSeed: count(*) and the inserts without the advisory lock.
LockSeedNever(p) ==
  /\ proc[p] = "migrated"
  /\ Goes(p, "count")
  /\ UNCHANGED <<db, tx, lock, tableVars, add>>

\* SeedLibraryIfEmpty takes the migrator's lock, ...
LockSeed(p) ==
  /\ proc[p] = "migrated" /\ lock = NoProc
  /\ lock' = p
  /\ Goes(p, "count")
  /\ UNCHANGED <<db, tx, tableVars, add>>

Unlocked(p) == IF lock = p THEN NoProc ELSE lock

\* ... leaves a library that has an offer alone, ...
CountSeed(p) ==
  /\ proc[p] = "count"
  /\ IF Offers = {} THEN Goes(p, "seed") /\ UNCHANGED lock
     ELSE Goes(p, "serving") /\ lock' = Unlocked(p)
  /\ UNCHANGED <<db, tx, tableVars, add>>

\* ... and commits the whole catalog otherwise.
PlantSeed(p) ==
  /\ proc[p] = "seed"
  /\ offer' \in Planted([x \in Seed |-> x], [x \in Seed |-> x])
  /\ minted' = minted \cup {o \in Offer : offer'[o] # NoRow}
  /\ Goes(p, "serving")
  /\ lock' = Unlocked(p)
  /\ UNCHANGED <<db, tx, service, category, cutover, add>>

StartLibrary(p) ==
  \/ (Launch(p) \/ LockMigrate(p) \/ Migrate(p)) /\ UNCHANGED <<tableVars, add>>
  \/ MigrateLibrary(p) \/ LockSeed(p) \/ CountSeed(p) \/ PlantSeed(p)
  \/ Die(p) /\ add' = [add EXCEPT ![p] = Idle] /\ UNCHANGED tableVars

-----------------------------------------------------------------------------
(* Handlers of one statement.  Those that touch services wait for a        *)
(* migration to commit.                                                    *)

CreateOffer(o, a) ==
  /\ o \notin minted
  /\ offer' = [offer EXCEPT ![o] = [app |-> a, seed |-> NoRow]]
  /\ minted' = minted \cup {o}
  /\ UNCHANGED service

\* No copy changes with its offer.
UpdateOffer(o, a) ==
  /\ o \in Offers
  /\ offer' = [offer EXCEPT ![o].app = a]
  /\ UNCHANGED <<service, minted>>

\* Mutant of DeleteOffer: no ON DELETE SET NULL, nor a check.
DeleteOfferOnly(o) ==
  /\ o \in Offers /\ ~Migrating
  /\ offer' = [offer EXCEPT ![o] = NoRow]
  /\ UNCHANGED <<service, minted>>

DeleteOffer(o) ==
  /\ o \in Offers /\ ~Migrating
  /\ offer' = [offer EXCEPT ![o] = NoRow]
  /\ service' = [s \in Service |->
       IF s \in Services /\ service[s].source = o
       THEN [service[s] EXCEPT !.source = NoRow] ELSE service[s]]
  /\ UNCHANGED minted

OfferRequest ==
  /\ Serving
  /\ \E o \in Offer : \/ \E a \in App : CreateOffer(o, a) \/ UpdateOffer(o, a)
                      \/ DeleteOffer(o)
  /\ UNCHANGED <<startupVars, category, cutover, add>>

\* A service made by hand (POST /api/services), edited or deleted.
ServiceRequest ==
  /\ Serving /\ ~Migrating
  /\ \E s \in Service :
       \/ \E a \in App : /\ s \notin Services /\ ~SlugTaken(<<a, 1>>)
                         /\ service' = [service EXCEPT ![s] =
                              [app |-> a, slug |-> <<a, 1>>, source |-> NoRow, filed |-> FALSE]]
       \/ \E a \in App : s \in Services /\ service' = [service EXCEPT ![s].app = a]
       \/ s \in Services /\ service' = [service EXCEPT ![s] = NoRow]
  /\ UNCHANGED <<startupVars, offer, category, cutover, minted, add>>

DeleteCategory ==
  /\ Serving /\ ~Migrating /\ category
  /\ category' = FALSE
  /\ service' = [s \in Service |-> IF s \in Services
                                   THEN [service[s] EXCEPT !.filed = FALSE] ELSE NoRow]
  /\ UNCHANGED <<startupVars, offer, cutover, minted, add>>

-----------------------------------------------------------------------------
(* AddFromLibrary                                                          *)

Adding(p, phase) == proc[p] = "serving" /\ add[p].phase = phase
Continue(p, a) == add' = [add EXCEPT ![p] = a]
Concluded(a, code) == [a EXCEPT !.phase = "done", !.code = code]
AddAnswered(p, code) == Continue(p, Concluded(add[p], code))

\* The next request, for an offer that the browser has seen.
SendAdd(p, o, filed) ==
  /\ Adding(p, "idle") \/ Adding(p, "done")
  /\ Continue(p, [Idle EXCEPT !.phase = "read", !.offer = o, !.filed = filed])
  /\ UNCHANGED <<startupVars, tableVars>>

ReadOffer(p) ==
  /\ Adding(p, "read")
  /\ IF add[p].offer \notin Offers THEN AddAnswered(p, 404)
     ELSE Continue(p, [add[p] EXCEPT !.phase = IF add[p].filed THEN "check" ELSE "insert",
                                     !.app = offer[add[p].offer].app])
  /\ UNCHANGED <<startupVars, tableVars>>

\* categoryOwnedBy
CheckCategory(p) ==
  /\ Adding(p, "check") /\ ~Migrating
  /\ IF category THEN Continue(p, [add[p] EXCEPT !.phase = "insert"])
     ELSE AddAnswered(p, 400)
  /\ UNCHANGED <<startupVars, tableVars>>

\* Mutant of AfterError: any error of the INSERT is taken for a taken slug.
AfterErrorRetry(a) ==
  IF a.try < MaxSuffix THEN [a EXCEPT !.try = @ + 1]
  ELSE Concluded(a, 500)

AfterError(a) == Concluded(a, 500)

AfterTaken(a) == IF a.try < MaxSuffix THEN [a EXCEPT !.try = @ + 1]
                 ELSE Concluded(a, 500)

\* One INSERT of the loop.  Its keys are checked by the database; it may fail,
\* or succeed without the handler learning of it.
InsertCopy(p) ==
  /\ Adding(p, "insert") /\ ~Migrating
  /\ LET a == add[p]
         slug == <<a.app, a.try>>
     IN  \/ Continue(p, AfterError(a)) /\ UNCHANGED service
         \/ SlugTaken(slug) /\ Continue(p, AfterTaken(a)) /\ UNCHANGED service
         \/ /\ ~SlugTaken(slug) /\ a.offer \in Offers /\ (a.filed => category)
            /\ \E s \in Service \ Services :
                 service' = [service EXCEPT ![s] =
                   [app |-> a.app, slug |-> slug, source |-> a.offer, filed |-> a.filed]]
            /\ LET b == [a EXCEPT !.made = @ + 1]
               IN  \/ Continue(p, Concluded(b, 201))
                   \/ Continue(p, AfterError(b))
  /\ UNCHANGED <<startupVars, offer, category, cutover, minted>>

AddStep(p) ==
  \/ \E o \in minted, filed \in BOOLEAN : SendAdd(p, o, filed)
  \/ ReadOffer(p) \/ CheckCategory(p) \/ InsertCopy(p)

LibraryNext ==
  \/ \E p \in Proc : StartLibrary(p) \/ AddStep(p)
  \/ OfferRequest \/ ServiceRequest \/ DeleteCategory

LibrarySpec == LibraryInit /\ [][LibraryNext]_libraryVars

-----------------------------------------------------------------------------
\* Every variable stays in its type, and the foreign key in its table.
LibraryTypeOK ==
  /\ StartupTypeOK
  /\ offer \in [Offer -> OfferRow \cup {NoRow}]
  /\ service \in [Service -> ServiceRow \cup {NoRow}]
  /\ \A s \in Services : service[s].source \in Offers \cup {NoRow}
  /\ category \in BOOLEAN /\ cutover \in BOOLEAN /\ minted \subseteq Offer
  /\ add \in [Proc -> Addition]
  /\ \A p \in Proc : add[p].offer \in minted \cup {NoRow}

\* "Two replicas booting at once cannot double-seed", nor can one that dies and
\* starts again: no entry of the seed has two offers.
SeededOnce ==
  \A o, q \in Offers : offer[o].seed # NoRow /\ offer[o].seed = offer[q].seed => o = q

\* AddFromLibrary makes one copy when it answers 201, none when it refuses, and
\* never two, whatever the slugs, the offer and the category become between its
\* statements and although a failed INSERT may have taken effect.
OneCopyPerAdd ==
  \A p \in Proc : /\ add[p].made <= 1
                  /\ add[p].code = 201 => add[p].made = 1
                  /\ add[p].code \in {400, 404} => add[p].made = 0

-----------------------------------------------------------------------------
\* Migrate: "The migrations use IF NOT EXISTS, so re-running is a no-op": the
\* commit of a migration changes no service once the cutover is done.
RerunIsNoOp ==
  [][cutover => \A p \in Proc : CommitMigrate(p) => service' = service]_libraryVars
=============================================================================
