--------------------------- MODULE Catalog_proofs ---------------------------
(***************************************************************************)
(* What the catalog and the icons of its services promise, for every set   *)
(* of admins, services, categories and requests.                           *)
(***************************************************************************)
EXTENDS Catalog, Icons, TLAPS

-----------------------------------------------------------------------------
(* The catalog                                                             *)

Patches == {"updateService", "updateCategory"}

\* The handler of a request is at a statement of its own operation.
AtOwnStep(q) ==
  /\ q.step \in {"cats", "visible", "again", "list", "favorite", "unfavorite"} =>
       q.op \notin Patches
  /\ q.step = "check" => q.to \in Category
  /\ q.step = "rename" => q.slug # Keep
  /\ q.step = "width" => q.width # Keep

\* Once checked, the category a service is to be moved to is the admin's own,
\* or it has been deleted, and then its id is not minted again.
MovesToOwn(q) ==
  q.step = "update" /\ q.to \in Category =>
    /\ q.to \in minted
    /\ q.to \in Categories => category[q.to].owner = q.by

\* A kid's request has watched the allow-list since it arrived; whatever it
\* read, it read from what the list then held.
Watches(q) ==
  /\ q.step # "free" /\ q.op \notin Patches => allowed \subseteq q.window
  /\ q.vis \subseteq q.window /\ q.seen \subseteq q.window
  /\ \A shown \in q.seenCats : shown[1] \in q.window
  /\ q.step \in {"favorite", "unfavorite"} => q.id \in q.vis

HandlerSound(q) == AtOwnStep(q) /\ MovesToOwn(q) /\ Watches(q)

CatalogInv ==
  /\ CatalogTypeOK
  /\ Categories \subseteq minted
  /\ CategoryOfOwner
  /\ \A r \in Request : HandlerSound(req[r])

\* What each statement makes of a handler, field by field.
LEMMA AtStepEffect ==
  ASSUME NEW q \in Handler, NEW step \in Steps
  PROVE  LET m == AtStep(q, step)
         IN  /\ m \in Handler /\ m.step = step
             /\ m.op = q.op /\ m.by = q.by /\ m.id = q.id /\ m.slug = q.slug
             /\ m.to = q.to /\ m.width = q.width /\ m.cats = q.cats /\ m.vis = q.vis
             /\ m.seen = q.seen /\ m.seenCats = q.seenCats /\ m.window = q.window
  BY DEF Handler, AtStep

LEMMA WatchedEffect ==
  ASSUME NEW q \in Handler, NEW ids \in SUBSET Service
  PROVE  LET m == Watched(q, ids)
         IN  /\ m \in Handler /\ m.window = q.window \cup ids
             /\ m.step = q.step /\ m.op = q.op /\ m.by = q.by /\ m.id = q.id
             /\ m.slug = q.slug /\ m.to = q.to /\ m.width = q.width /\ m.cats = q.cats
             /\ m.vis = q.vis /\ m.seen = q.seen /\ m.seenCats = q.seenCats
             /\ m.code = q.code /\ m.did = q.did
  BY DEF Handler, Watched

LEMMA WithCategoriesEffect ==
  ASSUME NEW q \in Handler, NEW cats \in SUBSET Category
  PROVE  LET m == WithCategories(q, cats)
         IN  /\ m \in Handler /\ m.step = "visible" /\ m.op = q.op /\ m.id = q.id
             /\ m.cats = cats /\ m.vis = q.vis /\ m.seen = q.seen
             /\ m.seenCats = q.seenCats /\ m.window = q.window
  BY DEF Handler, WithCategories, Steps

LEMMA WithVisibleEffect ==
  ASSUME NEW q \in Handler, NEW vis \in SUBSET Service
  PROVE  LET m == WithVisible(q, vis)
         IN  /\ m \in Handler /\ m.step = q.step /\ m.op = q.op /\ m.id = q.id
             /\ m.cats = q.cats /\ m.vis = vis /\ m.seen = q.seen
             /\ m.seenCats = q.seenCats /\ m.window = q.window
  BY DEF Handler, WithVisible

LEMMA ShownEffect ==
  ASSUME NEW q \in Handler, NEW seen \in SUBSET Service,
         NEW shown \in SUBSET (Service \X Category)
  PROVE  /\ LET m == ShownServices(q, seen)
            IN  /\ m \in Handler /\ m.step = "done" /\ m.op = q.op /\ m.id = q.id
                /\ m.vis = q.vis /\ m.seen = seen
                /\ m.seenCats = q.seenCats /\ m.window = q.window
         /\ LET m == ShownCategories(q, shown)
            IN  /\ m \in Handler /\ m.step = "done" /\ m.op = q.op /\ m.id = q.id
                /\ m.vis = q.vis /\ m.seen = q.seen
                /\ m.seenCats = shown /\ m.window = q.window
  <1>1. "done" \in Steps
    BY DEF Steps
  <1>2. ASSUME NEW m, m = ShownServices(q, seen)
        PROVE  /\ m \in Handler /\ m.step = "done" /\ m.op = q.op /\ m.id = q.id
               /\ m.vis = q.vis /\ m.seen = seen
               /\ m.seenCats = q.seenCats /\ m.window = q.window
    BY <1>1, <1>2 DEF Handler, ShownServices
  <1>3. ASSUME NEW m, m = ShownCategories(q, shown)
        PROVE  /\ m \in Handler /\ m.step = "done" /\ m.op = q.op /\ m.id = q.id
               /\ m.vis = q.vis /\ m.seen = q.seen
               /\ m.seenCats = shown /\ m.window = q.window
    BY <1>1, <1>3 DEF Handler, ShownCategories
  <1>. QED
    BY <1>2, <1>3

LEMMA AppliedEffect ==
  ASSUME NEW q \in Handler, NEW did \in SUBSET Parts, NEW code \in Codes, NEW next \in Steps
  PROVE  LET m == Applied(q, did, code, next)
         IN  /\ m \in Handler /\ m.code = code /\ m.did = did /\ m.step = next
             /\ m.op = q.op /\ m.by = q.by /\ m.id = q.id /\ m.slug = q.slug
             /\ m.to = q.to /\ m.width = q.width /\ m.vis = q.vis /\ m.seen = q.seen
             /\ m.seenCats = q.seenCats /\ m.window = q.window
  BY DEF Handler, Applied

LEMMA FailedEffect ==
  ASSUME NEW q \in Handler
  PROVE  LET m == Failed(q)
         IN  /\ m \in Handler /\ m.code = 500 /\ m.did = q.did /\ m.step = "done"
             /\ m.op = q.op /\ m.by = q.by /\ m.id = q.id /\ m.slug = q.slug
             /\ m.to = q.to /\ m.width = q.width /\ m.vis = q.vis /\ m.seen = q.seen
             /\ m.seenCats = q.seenCats /\ m.window = q.window
  <1>1. "done" \in Steps /\ 500 \in Codes /\ q.did \in SUBSET Parts
    BY DEF Steps, Codes, Handler
  <1>. QED
    BY <1>1, AppliedEffect DEF Failed

LEMMA FreeEffect ==
  /\ Free \in Handler /\ Free.step = "free" /\ Free.op = "list"
  /\ Free.vis = {} /\ Free.seen = {} /\ Free.seenCats = {} /\ Free.window = {}
  <1>1. "free" \in Steps /\ "list" \in Ops /\ First \in Admin /\ 0 \in Codes
    BY CatalogAssumption DEF Steps, Ops, Codes
  <1>. QED
    BY <1>1 DEF Free, Handler

LEMMA PatchingServiceEffect ==
  ASSUME NEW a \in Admin, NEW s \in Service, NEW n \in Name \cup {Keep},
         NEW c \in Category \cup {None, Keep}
  PROVE  LET m == PatchingService(a, s, n, c)
         IN  /\ m \in Handler /\ m.op = "updateService"
             /\ m.step = IF c \in Category THEN "check" ELSE "update"
             /\ m.to = c /\ m.vis = {} /\ m.seen = {} /\ m.seenCats = {}
  <1>1. {"check", "update"} \subseteq Steps /\ "updateService" \in Ops /\ First \in Admin
        /\ 0 \in Codes
    BY CatalogAssumption DEF Steps, Ops, Codes
  <1>. QED
    BY <1>1 DEF PatchingService, Free, Handler

LEMMA PatchingCategoryEffect ==
  ASSUME NEW a \in Admin, NEW c \in Category, NEW n \in Name \cup {Keep},
         NEW w \in {4, Keep}
  PROVE  LET m == PatchingCategory(a, c, n, w)
         IN  /\ m \in Handler /\ m.op = "updateCategory"
             /\ m.step = IF n # Keep THEN "rename" ELSE "width"
             /\ m.slug = n /\ m.width = w /\ m.vis = {} /\ m.seen = {} /\ m.seenCats = {}
             /\ m.did = {}
  <1>1. {"rename", "width"} \subseteq Steps /\ "updateCategory" \in Ops /\ First \in Admin
        /\ 0 \in Codes
    BY CatalogAssumption DEF Steps, Ops, Codes
  <1>. QED
    BY <1>1 DEF PatchingCategory, Free, Handler

LEMMA KidAskingEffect ==
  ASSUME CatalogTypeOK, NEW op \in Ops, NEW s \in Service \cup {None}
  PROVE  LET m == KidAsking(op, s)
         IN  /\ m \in Handler /\ m.op = op /\ m.window = allowed
             /\ m.step \in {"cats", "visible"}
             /\ m.vis = {} /\ m.seen = {} /\ m.seenCats = {}
  <1>1. {"cats", "visible"} \subseteq Steps /\ "list" \in Ops /\ First \in Admin
        /\ allowed \in SUBSET Service /\ 0 \in Codes
    BY CatalogAssumption DEF Steps, Ops, Codes, CatalogTypeOK
  <1>. QED
    BY <1>1 DEF KidAsking, Free, Handler

\* Rows as the statements write them.
LEMMA ServiceRows ==
  /\ \A a \in Admin, n \in Name :
       NewService(a, n) \in ServiceRow /\ NewService(a, n).category = None
         /\ NewService(a, n).owner = a
  /\ \A row \in ServiceRow :
       /\ OutOfCategory(row) \in ServiceRow
       /\ OutOfCategory(row).category = None /\ OutOfCategory(row).owner = row.owner
  /\ \A row \in ServiceRow, n \in Name \cup {Keep}, c \in Category \cup {None, Keep} :
       /\ Rewritten(row, n, c) \in ServiceRow
       /\ Rewritten(row, n, c).owner = row.owner
       /\ Rewritten(row, n, c).category = IF c = Keep THEN row.category ELSE c
  <1>1. ASSUME NEW a \in Admin, NEW n \in Name
        PROVE  NewService(a, n) \in ServiceRow /\ NewService(a, n).category = None
                 /\ NewService(a, n).owner = a
    BY DEF NewService, ServiceRow
  <1>2. ASSUME NEW row \in ServiceRow
        PROVE  /\ OutOfCategory(row) \in ServiceRow
               /\ OutOfCategory(row).category = None /\ OutOfCategory(row).owner = row.owner
    BY DEF OutOfCategory, ServiceRow
  <1>3. ASSUME NEW row \in ServiceRow, NEW n \in Name \cup {Keep},
               NEW c \in Category \cup {None, Keep}
        PROVE  /\ Rewritten(row, n, c) \in ServiceRow
               /\ Rewritten(row, n, c).owner = row.owner
               /\ Rewritten(row, n, c).category = IF c = Keep THEN row.category ELSE c
    BY DEF Rewritten, ServiceRow, Patched
  <1>. QED
    BY <1>1, <1>2, <1>3

LEMMA CategoryRows ==
  /\ \A a \in Admin, n \in Name :
       NewCategory(a, n) \in CategoryRow /\ NewCategory(a, n).owner = a
  /\ \A row \in CategoryRow, n \in Name :
       Renamed(row, n) \in CategoryRow /\ Renamed(row, n).owner = row.owner
  /\ \A row \in CategoryRow :
       Widened(row, 4) \in CategoryRow /\ Widened(row, 4).owner = row.owner
  <1>1. ASSUME NEW a \in Admin, NEW n \in Name
        PROVE  NewCategory(a, n) \in CategoryRow /\ NewCategory(a, n).owner = a
    BY DEF NewCategory, CategoryRow
  <1>2. ASSUME NEW row \in CategoryRow, NEW n \in Name
        PROVE  Renamed(row, n) \in CategoryRow /\ Renamed(row, n).owner = row.owner
    BY DEF Renamed, CategoryRow
  <1>3. ASSUME NEW row \in CategoryRow
        PROVE  Widened(row, 4) \in CategoryRow /\ Widened(row, 4).owner = row.owner
    BY DEF Widened, CategoryRow
  <1>. QED
    BY <1>1, <1>2, <1>3

\* A step of one handler that writes no service and no category.
LEMMA HandlerMoves ==
  ASSUME CatalogInv, NEW r \in Request, NEW q \in Handler, HandlerSound(q),
         Becomes(r, q), UNCHANGED <<service, category, minted, allowed>>,
         favorite' \subseteq Service
  PROVE  CatalogInv'
  <1>1. req' = [req EXCEPT ![r] = q]
    BY DEF Becomes
  <1>2. CatalogTypeOK'
    BY <1>1 DEF CatalogInv, CatalogTypeOK
  <1>3. (Categories \subseteq minted)' /\ CategoryOfOwner'
    BY DEF CatalogInv, Categories, CategoryOfOwner, Services, OwnsCategory
  <1>4. ASSUME NEW x \in Request PROVE HandlerSound(req[x])'
    <2>1. req'[x] = (IF x = r THEN q ELSE req[x])
      BY <1>1 DEF CatalogInv, CatalogTypeOK
    <2>2. HandlerSound(req'[x])
      BY <2>1 DEF CatalogInv, HandlerSound
    <2>. QED
      BY <2>2 DEF HandlerSound, AtOwnStep, MovesToOwn, Watches, Categories
  <1>. QED
    BY <1>2, <1>3, <1>4 DEF CatalogInv, HandlerSound

\* A handler that is done is sound, whatever it has answered.
LEMMA DoneIsSound ==
  ASSUME CatalogInv, NEW r \in Request, ~At(r, "free")
  PROVE  AtStep(req[r], "done") \in Handler /\ HandlerSound(AtStep(req[r], "done"))
  <1>1. /\ req[r] \in Handler /\ "done" \in Steps
        /\ AtOwnStep(req[r]) /\ MovesToOwn(req[r]) /\ Watches(req[r])
    BY DEF CatalogInv, CatalogTypeOK, HandlerSound, Steps
  <1>. QED
    BY <1>1, AtStepEffect DEF HandlerSound, AtOwnStep, MovesToOwn, Watches, At

\* A handler that only writes rows of its own admin, changing no owner and
\* deleting nothing, leaves every other sound.
LEMMA RowsMove ==
  ASSUME CatalogInv, NEW r \in Request, NEW q \in Handler, HandlerSound(q),
         Becomes(r, q), UNCHANGED <<minted, allowed, favorite>>,
         service' \in [Service -> ServiceRow \cup {None}],
         category' \in [Category -> CategoryRow \cup {None}],
         \A c \in Category : /\ c \in Categories' <=> c \in Categories
                             /\ c \in Categories => category'[c].owner = category[c].owner,
         CategoryOfOwner'
  PROVE  CatalogInv'
  <1>1. req' = [req EXCEPT ![r] = q]
    BY DEF Becomes
  <1>2. CatalogTypeOK'
    BY <1>1 DEF CatalogInv, CatalogTypeOK
  <1>3. (Categories \subseteq minted)'
    BY DEF CatalogInv, Categories
  <1>4. ASSUME NEW x \in Request PROVE HandlerSound(req[x])'
    <2>1. req'[x] = (IF x = r THEN q ELSE req[x])
      BY <1>1 DEF CatalogInv, CatalogTypeOK
    <2>2. HandlerSound(req'[x])
      BY <2>1 DEF CatalogInv, HandlerSound
    <2>3. AtOwnStep(req[x])' /\ Watches(req[x])'
      BY <2>2 DEF HandlerSound, AtOwnStep, Watches
    <2>4. MovesToOwn(req[x])'
      BY <2>2 DEF HandlerSound, MovesToOwn
    <2>. QED
      BY <2>3, <2>4 DEF HandlerSound
  <1>. QED
    BY <1>2, <1>3, <1>4 DEF CatalogInv, HandlerSound

\* A change of rows beneath the handlers: no category comes back or changes hands.
LEMMA RowsChange ==
  ASSUME CatalogInv, UNCHANGED req,
         service' \in [Service -> ServiceRow \cup {None}],
         category' \in [Category -> CategoryRow \cup {None}],
         minted \subseteq minted', minted' \subseteq Service \cup Category,
         allowed' \subseteq allowed, favorite' \subseteq favorite,
         \A c \in Category : c \in minted /\ c \in Categories' =>
           c \in Categories /\ category'[c].owner = category[c].owner,
         (Categories \subseteq minted)', CategoryOfOwner'
  PROVE  CatalogInv'
  <1>1. CatalogTypeOK'
    BY DEF CatalogInv, CatalogTypeOK
  <1>2. ASSUME NEW r \in Request PROVE HandlerSound(req[r])'
    <2>1. HandlerSound(req[r])
      BY DEF CatalogInv
    <2>2. AtOwnStep(req[r])' /\ Watches(req[r])'
      BY <2>1 DEF HandlerSound, AtOwnStep, Watches
    <2>3. MovesToOwn(req[r])'
      BY <2>1 DEF HandlerSound, MovesToOwn
    <2>. QED
      BY <2>2, <2>3 DEF HandlerSound
  <1>. QED
    BY <1>1, <1>2 DEF CatalogInv

LEMMA CreateServiceKeeps ==
  ASSUME CatalogInv, NEW a \in Admin, NEW s \in Service, NEW n \in Name,
         CreateService(a, s, n)
  PROVE  CatalogInv'
  <1>1. /\ service' = [service EXCEPT ![s] = NewService(a, n)]
        /\ minted' = minted \cup {s} /\ UNCHANGED <<category, allowed, favorite, req>>
    BY DEF CreateService
  <1>2. NewService(a, n) \in ServiceRow /\ NewService(a, n).category = None
    BY ServiceRows
  <1>3. service' \in [Service -> ServiceRow \cup {None}]
    BY <1>1, <1>2 DEF CatalogInv, CatalogTypeOK
  <1>4. CategoryOfOwner'
    BY <1>1, <1>2
       DEF CatalogInv, CatalogTypeOK, CategoryOfOwner, Services, OwnsCategory, Categories
  <1>5. (Categories \subseteq minted)'
    BY <1>1 DEF CatalogInv, Categories
  <1>. QED
    BY <1>1, <1>3, <1>4, <1>5, RowsChange DEF CatalogInv, CatalogTypeOK, Categories

LEMMA DeleteServiceKeeps ==
  ASSUME CatalogInv, NEW a \in Admin, NEW s \in Service, DeleteService(a, s)
  PROVE  CatalogInv'
  <1>1. /\ service' = [service EXCEPT ![s] = None]
        /\ allowed' = allowed \ {s} /\ favorite' = favorite \ {s}
        /\ UNCHANGED <<category, minted, req>>
    BY DEF DeleteService
  <1>2. service' \in [Service -> ServiceRow \cup {None}]
    BY <1>1 DEF CatalogInv, CatalogTypeOK
  <1>3. CategoryOfOwner'
    BY <1>1
       DEF CatalogInv, CatalogTypeOK, CategoryOfOwner, Services, OwnsCategory, Categories
  <1>4. (Categories \subseteq minted)'
    BY <1>1 DEF CatalogInv, Categories
  <1>. QED
    BY <1>1, <1>2, <1>3, <1>4, RowsChange DEF CatalogInv, CatalogTypeOK, Categories

\* No handler and no service can be after the new category: its id is new.
LEMMA CreateCategoryKeeps ==
  ASSUME CatalogInv, NEW a \in Admin, NEW c \in Category, NEW n \in Name,
         CreateCategory(a, c, n)
  PROVE  CatalogInv'
  <1>1. /\ category' = [category EXCEPT ![c] = NewCategory(a, n)]
        /\ minted' = minted \cup {c} /\ c \notin minted
        /\ UNCHANGED <<service, allowed, favorite, req>>
    BY DEF CreateCategory
  <1>2. NewCategory(a, n) \in CategoryRow /\ NewCategory(a, n) # None
    BY CategoryRows, RowAssumption
  <1>3. category' \in [Category -> CategoryRow \cup {None}]
    BY <1>1, <1>2 DEF CatalogInv, CatalogTypeOK
  <1>4. \A x \in Category : category'[x] = IF x = c THEN NewCategory(a, n) ELSE category[x]
    BY <1>1 DEF CatalogInv, CatalogTypeOK
  <1>5. c \notin Categories
    BY <1>1 DEF CatalogInv
  <1>6. CategoryOfOwner'
    BY <1>1, <1>4, <1>5 DEF CatalogInv, CategoryOfOwner, Services, OwnsCategory, Categories
  <1>7. (Categories \subseteq minted)'
    BY <1>1, <1>4 DEF CatalogInv, Categories
  <1>8. \A x \in Category : x \in minted /\ x \in Categories' =>
          x \in Categories /\ category'[x].owner = category[x].owner
    BY <1>1, <1>4 DEF Categories
  <1>. QED
    BY <1>1, <1>3, <1>6, <1>7, <1>8, RowsChange DEF CatalogInv, CatalogTypeOK

LEMMA DeleteCategoryKeeps ==
  ASSUME CatalogInv, NEW a \in Admin, NEW c \in Category, DeleteCategory(a, c)
  PROVE  CatalogInv'
  <1>1. /\ service' = Uncategorized(c) /\ category' = [category EXCEPT ![c] = None]
        /\ UNCHANGED <<minted, allowed, favorite, req>>
    BY DEF DeleteCategory
  <1>2. category' \in [Category -> CategoryRow \cup {None}]
    BY <1>1 DEF CatalogInv, CatalogTypeOK
  <1>3. \A x \in Category : category'[x] = IF x = c THEN None ELSE category[x]
    BY <1>1 DEF CatalogInv, CatalogTypeOK
  <1>4. \A s \in Service :
          service'[s] = IF service[s] # None /\ service[s].category = c
                        THEN OutOfCategory(service[s]) ELSE service[s]
    BY <1>1 DEF Uncategorized, Services
  <1>5. service' \in [Service -> ServiceRow \cup {None}]
    BY <1>1, ServiceRows DEF Uncategorized, Services, CatalogInv, CatalogTypeOK
  <1>6. CategoryOfOwner'
    <2>. SUFFICES ASSUME NEW s \in Service, service'[s] # None,
                         service'[s].category # None
                  PROVE  OwnsCategory(service[s].owner, service[s].category)'
      BY DEF CategoryOfOwner, Services
    <2>1. service[s] # None
      BY <1>4
    <2>2. service[s] \in ServiceRow
      BY <2>1 DEF CatalogInv, CatalogTypeOK
    <2>3. service'[s] = service[s] /\ service[s].category # c
      BY <1>4, <2>1, <2>2, ServiceRows
    <2>4. OwnsCategory(service[s].owner, service[s].category)
      BY <2>1, <2>3 DEF CatalogInv, CategoryOfOwner, Services
    <2>. QED
      BY <1>3, <2>3, <2>4 DEF OwnsCategory, Categories
  <1>7. (Categories \subseteq minted)'
    BY <1>1, <1>3 DEF CatalogInv, Categories
  <1>8. \A x \in Category : x \in minted /\ x \in Categories' =>
          x \in Categories /\ category'[x].owner = category[x].owner
    BY <1>3 DEF Categories
  <1>. QED
    BY <1>1, <1>2, <1>5, <1>7, <1>6, <1>8, RowsChange DEF CatalogInv, CatalogTypeOK

\* Whoever is watching learns what the list becomes.
LEMMA SetKidServicesKeeps ==
  ASSUME CatalogInv, NEW ids \in SUBSET Service, SetKidServices(ids)
  PROVE  CatalogInv'
  <1>1. /\ allowed' = ids /\ req' = Watch(ids)
        /\ UNCHANGED <<service, category, minted, favorite>>
    BY DEF SetKidServices
  <1>2. \A r \in Request : req[r] \in Handler /\ HandlerSound(req[r])
    BY DEF CatalogInv, CatalogTypeOK
  <1>3. req' \in [Request -> Handler]
    BY <1>1, <1>2, WatchedEffect DEF Watch
  <1>4. CatalogTypeOK'
    BY <1>1, <1>3 DEF CatalogInv, CatalogTypeOK
  <1>5. (Categories \subseteq minted)' /\ CategoryOfOwner'
    BY <1>1 DEF CatalogInv, Categories, CategoryOfOwner, Services, OwnsCategory
  <1>6. ASSUME NEW r \in Request PROVE HandlerSound(req[r])'
    <2>1. CASE At(r, "free")
      <3>1. req'[r] = req[r]
        BY <1>1, <2>1 DEF Watch
      <3>. QED
        BY <1>1, <1>2, <2>1, <3>1
           DEF At, HandlerSound, AtOwnStep, MovesToOwn, Watches, Categories
    <2>2. CASE ~At(r, "free")
      <3>1. req'[r] = Watched(req[r], ids)
        BY <1>1, <2>2 DEF Watch
      <3>2. /\ req'[r].window = req[r].window \cup ids
            /\ req'[r].step = req[r].step /\ req'[r].op = req[r].op
            /\ req'[r].by = req[r].by /\ req'[r].id = req[r].id
            /\ req'[r].slug = req[r].slug /\ req'[r].to = req[r].to
            /\ req'[r].width = req[r].width /\ req'[r].vis = req[r].vis
            /\ req'[r].seen = req[r].seen /\ req'[r].seenCats = req[r].seenCats
        BY <1>2, <3>1, WatchedEffect
      <3>3. HandlerSound(req[r])
        BY <1>2
      <3>4. AtOwnStep(req[r])'
        BY <3>2, <3>3 DEF HandlerSound, AtOwnStep
      <3>5. MovesToOwn(req[r])'
        BY <1>1, <3>2, <3>3 DEF HandlerSound, MovesToOwn, Categories
      <3>6. Watches(req[r])'
        BY <1>1, <3>2, <3>3 DEF HandlerSound, Watches
      <3>. QED
        BY <3>4, <3>5, <3>6 DEF HandlerSound
    <2>. QED
      BY <2>1, <2>2
  <1>. QED
    BY <1>4, <1>5, <1>6 DEF CatalogInv

LEMMA UpdateServiceKeeps ==
  ASSUME CatalogInv, NEW r \in Request, NEW a \in Admin, NEW s \in Service,
         NEW n \in Name \cup {Keep}, NEW c \in Category \cup {None, Keep},
         UpdateService(r, a, s, n, c)
  PROVE  CatalogInv'
  <1>. DEFINE m == PatchingService(a, s, n, c)
  <1>1. /\ m \in Handler /\ m.op = "updateService"
        /\ m.step = IF c \in Category THEN "check" ELSE "update"
        /\ m.to = c /\ m.vis = {} /\ m.seen = {} /\ m.seenCats = {}
    BY PatchingServiceEffect
  <1>2. Becomes(r, m) /\ UNCHANGED <<service, category, minted, allowed, favorite>>
    BY DEF UpdateService
  <1>. HIDE DEF m
  <1>3. HandlerSound(m)
    BY <1>1 DEF HandlerSound, AtOwnStep, MovesToOwn, Watches, Patches
  <1>. QED
    BY <1>1, <1>2, <1>3, HandlerMoves DEF CatalogInv, CatalogTypeOK

LEMMA UpdateCategoryKeeps ==
  ASSUME CatalogInv, NEW r \in Request, NEW a \in Admin, NEW c \in Category,
         NEW n \in Name \cup {Keep}, NEW w \in {4, Keep},
         UpdateCategory(r, a, c, n, w)
  PROVE  CatalogInv'
  <1>. DEFINE m == PatchingCategory(a, c, n, w)
  <1>1. /\ m \in Handler /\ m.op = "updateCategory"
        /\ m.step = IF n # Keep THEN "rename" ELSE "width"
        /\ m.slug = n /\ m.width = w /\ m.vis = {} /\ m.seen = {} /\ m.seenCats = {}
    BY PatchingCategoryEffect
  <1>2. /\ Becomes(r, m) /\ UNCHANGED <<service, category, minted, allowed, favorite>>
        /\ n # Keep \/ w # Keep
    BY DEF UpdateCategory
  <1>. HIDE DEF m
  <1>3. HandlerSound(m)
    BY <1>1, <1>2 DEF HandlerSound, AtOwnStep, MovesToOwn, Watches, Patches
  <1>. QED
    BY <1>1, <1>2, <1>3, HandlerMoves DEF CatalogInv, CatalogTypeOK

\* The check is what makes the category the admin's own.
LEMMA CheckCategoryKeeps ==
  ASSUME CatalogInv, NEW r \in Request, CheckCategory(r)
  PROVE  CatalogInv'
  <1>. DEFINE q == req[r]
  <1>1. /\ q \in Handler /\ HandlerSound(q) /\ q.step = "check"
        /\ UNCHANGED <<service, category, minted, allowed, favorite>>
        /\ {"update", "done"} \subseteq Steps
    BY DEF CatalogInv, CatalogTypeOK, CheckCategory, At, Steps
  <1>2. CASE CategoryChecked(q.by, q.to)
    <2>. DEFINE m == AtStep(q, "update")
    <2>1. /\ m \in Handler /\ m.step = "update" /\ m.op = q.op /\ m.by = q.by
          /\ m.to = q.to /\ m.id = q.id /\ m.vis = q.vis /\ m.seen = q.seen
          /\ m.seenCats = q.seenCats /\ m.window = q.window
      BY <1>1, AtStepEffect
    <2>2. Becomes(r, m)
      BY <1>2 DEF CheckCategory, Goto
    <2>. HIDE DEF m
    <2>3. MovesToOwn(m)
      BY <1>2, <2>1 DEF CategoryChecked, OwnsCategory, MovesToOwn, CatalogInv
    <2>4. AtOwnStep(m) /\ Watches(m)
      BY <1>1, <2>1 DEF HandlerSound, AtOwnStep, Watches
    <2>. QED
      BY <1>1, <2>1, <2>2, <2>3, <2>4, HandlerMoves
         DEF HandlerSound, CatalogInv, CatalogTypeOK
  <1>3. CASE ~CategoryChecked(q.by, q.to)
    <2>1. Becomes(r, AtStep(q, "done")) /\ ~At(r, "free")
      BY <1>1, <1>3 DEF CheckCategory, Goto, At
    <2>. QED
      BY <1>1, <2>1, DoneIsSound, HandlerMoves DEF CatalogInv, CatalogTypeOK
  <1>. QED
    BY <1>2, <1>3

\* Between the check and the write the category can only have gone.
LEMMA WriteServiceKeeps ==
  ASSUME CatalogInv, NEW r \in Request, WriteService(r)
  PROVE  CatalogInv'
  <1>. DEFINE q == req[r]
             ok == /\ OwnsService(q.by, q.id)
                   /\ q.slug # Keep => ~SlugTaken(q.by, q.slug, q.id)
                   /\ q.to \in Category => q.to \in Categories
  <1>1. /\ q \in Handler /\ MovesToOwn(q) /\ q.step = "update" /\ ~At(r, "free")
        /\ UNCHANGED <<category, minted, allowed, favorite>>
        /\ Becomes(r, AtStep(q, "done"))
    BY DEF CatalogInv, CatalogTypeOK, HandlerSound, WriteService, At, Goto
  <1>2. CASE ~ok
    <2>1. service' = service
      BY <1>2 DEF WriteService
    <2>. QED
      BY <1>1, <2>1, DoneIsSound, HandlerMoves DEF CatalogInv, CatalogTypeOK
  <1>3. CASE ok
    <2>. DEFINE row == Rewritten(service[q.id], q.slug, q.to)
    <2>1. service' = [service EXCEPT ![q.id] = row]
      BY <1>3 DEF WriteService
    <2>2. /\ q.id \in Service /\ service[q.id] \in ServiceRow
          /\ service[q.id] # None /\ service[q.id].owner = q.by
      BY <1>3 DEF OwnsService, Services, CatalogInv, CatalogTypeOK
    <2>3. q.slug \in Name \cup {Keep} /\ q.to \in Category \cup {None, Keep}
      BY <1>1 DEF Handler
    <2>4. /\ row \in ServiceRow /\ row.owner = q.by
          /\ row.category = IF q.to = Keep THEN service[q.id].category ELSE q.to
      BY <2>2, <2>3, ServiceRows
    <2>5. q.to \in Category => q.to \in Categories /\ category[q.to].owner = q.by
      BY <1>1, <1>3 DEF MovesToOwn
    <2>. HIDE DEF row, ok
    <2>6. \A s \in Service : service'[s] = IF s = q.id THEN row ELSE service[s]
      BY <2>1 DEF CatalogInv, CatalogTypeOK
    <2>7. service' \in [Service -> ServiceRow \cup {None}]
      BY <2>1, <2>4 DEF CatalogInv, CatalogTypeOK
    <2>8. row.category # None => OwnsCategory(q.by, row.category)
      <3>1. CASE q.to = Keep
        BY <2>2, <2>4, <3>1 DEF CatalogInv, CategoryOfOwner, Services
      <3>2. CASE q.to # Keep
        BY <2>3, <2>4, <2>5, <3>2 DEF OwnsCategory
      <3>. QED
        BY <3>1, <3>2
    <2>9. CategoryOfOwner'
      BY <1>1, <2>4, <2>6, <2>8
         DEF CatalogInv, CategoryOfOwner, Services, OwnsCategory, Categories
    <2>10. \A c \in Category : /\ c \in Categories' <=> c \in Categories
                               /\ c \in Categories => category'[c].owner = category[c].owner
      BY <1>1 DEF Categories
    <2>11. category' \in [Category -> CategoryRow \cup {None}]
      BY <1>1 DEF CatalogInv, CatalogTypeOK
    <2>. QED
      BY <1>1, <2>7, <2>9, <2>10, <2>11, DoneIsSound, RowsMove
  <1>. QED
    BY <1>2, <1>3


\* A category of the admin's own, rewritten without changing hands.
LEMMA OwnRowRewritten ==
  ASSUME CatalogInv, NEW r \in Request, NEW q \in Handler, HandlerSound(q),
         Becomes(r, q), UNCHANGED <<service, minted, allowed, favorite>>,
         NEW c \in Category, category[c] \in CategoryRow, NEW row \in CategoryRow,
         row.owner = category[c].owner, category' = [category EXCEPT ![c] = row]
  PROVE  CatalogInv'
  <1>1. category[c] # None /\ row # None
    BY RowAssumption
  <1>2. category' \in [Category -> CategoryRow \cup {None}]
    BY DEF CatalogInv, CatalogTypeOK
  <1>3. \A x \in Category : category'[x] = IF x = c THEN row ELSE category[x]
    BY DEF CatalogInv, CatalogTypeOK
  <1>4. \A x \in Category : /\ x \in Categories' <=> x \in Categories
                            /\ x \in Categories => category'[x].owner = category[x].owner
    BY <1>1, <1>3 DEF Categories
  <1>5. CategoryOfOwner'
    BY <1>4 DEF CatalogInv, CategoryOfOwner, Services, OwnsCategory, Categories
  <1>6. service' \in [Service -> ServiceRow \cup {None}]
    BY DEF CatalogInv, CatalogTypeOK
  <1>. QED
    BY <1>2, <1>4, <1>5, <1>6, RowsMove

LEMMA RenameCategoryKeeps ==
  ASSUME CatalogInv, NEW r \in Request, RenameCategory(r)
  PROVE  CatalogInv'
  <1>. DEFINE q == req[r]
  <1>1. /\ q \in Handler /\ HandlerSound(q) /\ q.step = "rename"
        /\ UNCHANGED <<service, minted, allowed, favorite>>
    BY DEF CatalogInv, CatalogTypeOK, RenameCategory, At
  <1>2. RenameCode(q) \in Codes /\ 200 \in Codes /\ {"width", "done"} \subseteq Steps
        /\ {} \in SUBSET Parts /\ {"name"} \in SUBSET Parts
    BY DEF RenameCode, Codes, Steps, Parts
  <1>3. CASE RenameCode(q) # 200
    <2>. DEFINE m == Applied(q, {}, RenameCode(q), "done")
    <2>1. /\ m \in Handler /\ m.step = "done" /\ m.op = q.op /\ m.vis = q.vis
          /\ m.seen = q.seen /\ m.seenCats = q.seenCats /\ m.window = q.window
      BY <1>1, <1>2, AppliedEffect
    <2>2. Becomes(r, m) /\ UNCHANGED category
      BY <1>3 DEF RenameCategory
    <2>. HIDE DEF m
    <2>3. HandlerSound(m)
      BY <1>1, <2>1 DEF HandlerSound, AtOwnStep, MovesToOwn, Watches
    <2>. QED
      BY <1>1, <2>1, <2>2, <2>3, HandlerMoves DEF CatalogInv, CatalogTypeOK
  <1>4. CASE RenameCode(q) = 200
    <2>. DEFINE next == IF q.width # Keep THEN "width" ELSE "done"
               m == Applied(q, {"name"}, 200, next)
    <2>1. /\ category' = [category EXCEPT ![q.id] = Renamed(category[q.id], q.slug)]
          /\ Becomes(r, m)
      BY <1>4 DEF RenameCategory
    <2>2. next \in {"width", "done"} /\ (next = "width" => q.width # Keep)
      OBVIOUS
    <2>. HIDE DEF next
    <2>3. /\ m \in Handler /\ m.step = next /\ m.op = q.op /\ m.width = q.width
          /\ m.vis = q.vis /\ m.seen = q.seen
          /\ m.seenCats = q.seenCats /\ m.window = q.window
      BY <1>1, <1>2, <2>2, AppliedEffect
    <2>. HIDE DEF m
    <2>4. HandlerSound(m)
      BY <1>1, <2>2, <2>3 DEF HandlerSound, AtOwnStep, MovesToOwn, Watches
    <2>5. /\ q.id \in Category /\ category[q.id] \in CategoryRow /\ q.slug \in Name
      BY <1>1, <1>4
         DEF RenameCode, OwnsCategory, Categories, CatalogInv, CatalogTypeOK, Handler,
             HandlerSound, AtOwnStep
    <2>. QED
      BY <1>1, <2>1, <2>3, <2>4, <2>5, CategoryRows, OwnRowRewritten
  <1>. QED
    BY <1>3, <1>4

LEMMA SetCategoryWidthKeeps ==
  ASSUME CatalogInv, NEW r \in Request, SetCategoryWidth(r)
  PROVE  CatalogInv'
  <1>. DEFINE q == req[r]
             did == IF OwnsCategory(q.by, q.id) THEN q.did \cup {"width"} ELSE q.did
             m == Applied(q, did, WidthCode(q), "done")
  <1>1. /\ q \in Handler /\ HandlerSound(q) /\ q.step = "width"
        /\ UNCHANGED <<service, minted, allowed, favorite>> /\ Becomes(r, m)
    BY DEF CatalogInv, CatalogTypeOK, SetCategoryWidth, At
  <1>2. WidthCode(q) \in Codes /\ did \in SUBSET Parts /\ "done" \in Steps
    BY <1>1 DEF WidthCode, Codes, Parts, Steps, Handler
  <1>. HIDE DEF did
  <1>3. /\ m \in Handler /\ m.step = "done" /\ m.op = q.op /\ m.vis = q.vis
        /\ m.seen = q.seen /\ m.seenCats = q.seenCats /\ m.window = q.window
    BY <1>1, <1>2, AppliedEffect
  <1>. HIDE DEF m
  <1>4. HandlerSound(m)
    BY <1>1, <1>3 DEF HandlerSound, AtOwnStep, MovesToOwn, Watches
  <1>5. CASE ~OwnsCategory(q.by, q.id)
    <2>1. UNCHANGED category
      BY <1>5 DEF SetCategoryWidth
    <2>. QED
      BY <1>1, <1>3, <1>4, <2>1, HandlerMoves DEF CatalogInv, CatalogTypeOK
  <1>6. CASE OwnsCategory(q.by, q.id)
    <2>1. category' = [category EXCEPT ![q.id] = Widened(category[q.id], q.width)]
      BY <1>6 DEF SetCategoryWidth
    <2>2. /\ q.id \in Category /\ category[q.id] \in CategoryRow /\ q.width = 4
      BY <1>1, <1>6
         DEF OwnsCategory, Categories, CatalogInv, CatalogTypeOK, Handler, HandlerSound,
             AtOwnStep
    <2>. QED
      BY <1>1, <1>3, <1>4, <2>1, <2>2, CategoryRows, OwnRowRewritten
  <1>. QED
    BY <1>5, <1>6

LEMMA KidRequestKeeps ==
  ASSUME CatalogInv, NEW r \in Request, NEW op \in Ops \ Patches,
         NEW s \in Service \cup {None}, KidRequest(r, op, s)
  PROVE  CatalogInv'
  <1>. DEFINE m == KidAsking(op, s)
  <1>1. /\ m \in Handler /\ m.op = op /\ m.window = allowed
        /\ m.step \in {"cats", "visible"}
        /\ m.vis = {} /\ m.seen = {} /\ m.seenCats = {}
    BY KidAskingEffect DEF CatalogInv
  <1>2. Becomes(r, m) /\ UNCHANGED <<service, category, minted, allowed, favorite>>
    BY DEF KidRequest
  <1>. HIDE DEF m
  <1>3. HandlerSound(m)
    BY <1>1 DEF HandlerSound, AtOwnStep, MovesToOwn, Watches
  <1>. QED
    BY <1>1, <1>2, <1>3, HandlerMoves DEF CatalogInv, CatalogTypeOK

LEMMA ReadCategoriesKeeps ==
  ASSUME CatalogInv, NEW r \in Request, ReadCategories(r)
  PROVE  CatalogInv'
  <1>. DEFINE q == req[r]
             own == {c \in Categories : OwnsCategory(First, c)}
             m == WithCategories(q, own)
  <1>1. /\ q \in Handler /\ HandlerSound(q) /\ q.step = "cats" /\ own \in SUBSET Category
        /\ UNCHANGED <<service, category, minted, allowed, favorite>> /\ Becomes(r, m)
    BY DEF CatalogInv, CatalogTypeOK, ReadCategories, At, Categories
  <1>2. /\ m \in Handler /\ m.step = "visible" /\ m.op = q.op /\ m.id = q.id
        /\ m.vis = q.vis /\ m.seen = q.seen
        /\ m.seenCats = q.seenCats /\ m.window = q.window
    BY <1>1, WithCategoriesEffect
  <1>. HIDE DEF m
  <1>3. HandlerSound(m)
    BY <1>1, <1>2 DEF HandlerSound, AtOwnStep, MovesToOwn, Watches
  <1>. QED
    BY <1>1, <1>2, <1>3, HandlerMoves DEF CatalogInv, CatalogTypeOK

\* What was visible is read from the list as it is, which the request watches;
\* a favorite is written only for one of these.
LEMMA ReadVisibleKeeps ==
  ASSUME CatalogInv, NEW r \in Request, ReadVisible(r)
  PROVE  CatalogInv'
  <1>. DEFINE q == req[r]
             v == WithVisible(q, allowed)
             m == AtStep(v, AfterVisible(v))
  <1>1. /\ q \in Handler /\ HandlerSound(q) /\ q.step \in {"visible", "again"}
        /\ allowed \in SUBSET Service
        /\ UNCHANGED <<service, category, minted, allowed, favorite>> /\ Becomes(r, m)
    BY DEF CatalogInv, CatalogTypeOK, ReadVisible, At, Visibles
  <1>2. /\ v \in Handler /\ v.step = q.step /\ v.op = q.op /\ v.id = q.id
        /\ v.vis = allowed /\ v.seen = q.seen
        /\ v.seenCats = q.seenCats /\ v.window = q.window
    BY <1>1, WithVisibleEffect
  <1>3. q.op \notin Patches /\ q.op \in Ops
    BY <1>1 DEF HandlerSound, AtOwnStep, Handler
  <1>. HIDE DEF v
  <1>4. /\ AfterVisible(v) \in {"list", "again", "favorite", "unfavorite", "done"}
        /\ AfterVisible(v) \in {"favorite", "unfavorite"} => v.id \in v.vis
    <2>1. CASE v.op = "list"
      BY <2>1 DEF AfterVisible
    <2>2. CASE v.op = "categories"
      BY <2>2 DEF AfterVisible
    <2>3. CASE v.op \notin {"list", "categories"}
      <3>1. AfterVisible(v) = IF v.id \in v.vis THEN v.op ELSE "done"
        BY <2>3 DEF AfterVisible
      <3>2. v.op \in {"favorite", "unfavorite"}
        BY <1>2, <1>3, <2>3 DEF Ops, Patches
      <3>. QED
        BY <3>1, <3>2
    <2>. QED
      BY <2>1, <2>2, <2>3
  <1>5. AfterVisible(v) \in Steps
    BY <1>4 DEF Steps
  <1>6. /\ m \in Handler /\ m.step = AfterVisible(v) /\ m.op = q.op /\ m.id = q.id
        /\ m.vis = allowed /\ m.seen = q.seen
        /\ m.seenCats = q.seenCats /\ m.window = q.window
    BY <1>2, <1>5, AtStepEffect
  <1>. HIDE DEF m
  <1>7. AtOwnStep(m) /\ MovesToOwn(m)
    BY <1>3, <1>4, <1>6 DEF AtOwnStep, MovesToOwn
  <1>8. allowed \subseteq q.window
    BY <1>1, <1>3 DEF HandlerSound, Watches
  <1>9. Watches(m)
    BY <1>1, <1>2, <1>4, <1>6, <1>8 DEF HandlerSound, Watches
  <1>. QED
    BY <1>1, <1>6, <1>7, <1>9, HandlerMoves DEF HandlerSound, CatalogInv, CatalogTypeOK

LEMMA ReadServicesKeeps ==
  ASSUME CatalogInv, NEW r \in Request, ReadServices(r)
  PROVE  CatalogInv'
  <1>. DEFINE q == req[r]
             seen == Shared \cap q.vis
             shown == {<<s, service[s].category>> :
                         s \in {x \in seen : service[x].category \in q.cats}}
             m == IF q.op = "list" THEN ShownServices(q, seen) ELSE ShownCategories(q, shown)
  <1>1. /\ q \in Handler /\ HandlerSound(q) /\ q.step = "list"
        /\ UNCHANGED <<service, category, minted, allowed, favorite>> /\ Becomes(r, m)
    BY DEF CatalogInv, CatalogTypeOK, ReadServices, At
  <1>2. seen \in SUBSET Service /\ seen \subseteq q.vis
    BY DEF Shared, Services
  <1>3. shown \in SUBSET (Service \X Category) /\ \A w \in shown : w[1] \in seen
    BY <1>1, <1>2 DEF Handler
  <1>4. AtOwnStep(q) /\ Watches(q)
    BY <1>1 DEF HandlerSound
  <1>. HIDE DEF seen, shown
  <1>5. /\ m \in Handler /\ m.step = "done" /\ m.op = q.op /\ m.id = q.id /\ m.vis = q.vis
        /\ m.seen \in {q.seen, seen} /\ m.window = q.window
        /\ m.seenCats = q.seenCats \/ m.seenCats = shown
    BY <1>1, <1>2, <1>3, ShownEffect
  <1>. HIDE DEF m
  <1>6. AtOwnStep(m) /\ MovesToOwn(m)
    BY <1>5 DEF AtOwnStep, MovesToOwn
  <1>7. Watches(m)
    BY <1>1, <1>2, <1>3, <1>4, <1>5 DEF Watches
  <1>. QED
    BY <1>1, <1>5, <1>6, <1>7, HandlerMoves DEF HandlerSound, CatalogInv, CatalogTypeOK

LEMMA WriteFavoriteKeeps ==
  ASSUME CatalogInv, NEW r \in Request, WriteFavorite(r)
  PROVE  CatalogInv'
  <1>1. /\ ~At(r, "free") /\ Becomes(r, AtStep(req[r], "done"))
        /\ UNCHANGED <<service, category, minted, allowed>>
    BY DEF WriteFavorite, At, Goto
  <1>2. favorite' \subseteq Service
    BY DEF WriteFavorite, Services, CatalogInv, CatalogTypeOK
  <1>. QED
    BY <1>1, <1>2, DoneIsSound, HandlerMoves

LEMMA StatementFailsKeeps ==
  ASSUME CatalogInv, NEW r \in Request, StatementFails(r)
  PROVE  CatalogInv'
  <1>. DEFINE q == req[r]
             m == Failed(req[r])
  <1>1. /\ q \in Handler /\ HandlerSound(q) /\ q.step # "free" /\ Becomes(r, m)
        /\ UNCHANGED <<service, category, minted, allowed, favorite>>
    BY DEF CatalogInv, CatalogTypeOK, StatementFails, At
  <1>2. /\ m \in Handler /\ m.step = "done" /\ m.op = q.op /\ m.id = q.id
        /\ m.vis = q.vis /\ m.seen = q.seen /\ m.seenCats = q.seenCats
        /\ m.window = q.window
    BY <1>1, FailedEffect
  <1>. HIDE DEF m
  <1>3. HandlerSound(m)
    BY <1>1, <1>2 DEF HandlerSound, AtOwnStep, MovesToOwn, Watches
  <1>. QED
    BY <1>1, <1>2, <1>3, HandlerMoves DEF CatalogInv, CatalogTypeOK

LEMMA FreeIsSound == Free \in Handler /\ HandlerSound(Free)
  BY FreeEffect DEF HandlerSound, AtOwnStep, MovesToOwn, Watches

LEMMA AnsweredKeeps ==
  ASSUME CatalogInv, NEW r \in Request, Answered(r)
  PROVE  CatalogInv'
  BY FreeIsSound, HandlerMoves DEF Answered, CatalogInv, CatalogTypeOK

-----------------------------------------------------------------------------
LEMMA CatalogInvInit == CatalogInit => CatalogInv
  <1>. SUFFICES ASSUME CatalogInit PROVE CatalogInv
    OBVIOUS
  <1>1. CatalogTypeOK
    BY FreeIsSound DEF CatalogInit, CatalogTypeOK
  <1>2. Categories \subseteq minted /\ CategoryOfOwner
    BY DEF CatalogInit, Categories, CategoryOfOwner, Services
  <1>3. \A r \in Request : HandlerSound(req[r])
    BY FreeIsSound DEF CatalogInit
  <1>. QED
    BY <1>1, <1>2, <1>3 DEF CatalogInv

LEMMA CatalogInvKept ==
  ASSUME CatalogInv, [CatalogNext]_catalogVars
  PROVE  CatalogInv'
  <1>1. CASE UNCHANGED catalogVars
    <2>1. UNCHANGED <<service, category, minted, allowed, favorite, req>>
      BY <1>1 DEF catalogVars
    <2>2. CatalogTypeOK' /\ (Categories \subseteq minted)' /\ CategoryOfOwner'
      BY <2>1
         DEF CatalogInv, CatalogTypeOK, Categories, CategoryOfOwner, Services, OwnsCategory
    <2>3. \A r \in Request : HandlerSound(req[r])'
      BY <2>1
         DEF CatalogInv, HandlerSound, AtOwnStep, MovesToOwn, Watches, Categories
    <2>. QED
      BY <2>2, <2>3 DEF CatalogInv
  <1>2. CASE \E a \in Admin :
               \/ \E s \in Service : \/ \E n \in Name : CreateService(a, s, n)
                                     \/ DeleteService(a, s)
               \/ \E c \in Category : \/ \E n \in Name : CreateCategory(a, c, n)
                                      \/ DeleteCategory(a, c)
    BY <1>2, CreateServiceKeeps, DeleteServiceKeeps, CreateCategoryKeeps,
       DeleteCategoryKeeps
  <1>3. CASE \E ids \in SUBSET Service : SetKidServices(ids)
    BY <1>3, SetKidServicesKeeps
  <1>4. ASSUME NEW r \in Request, NEW a \in Admin, NEW n \in Name \cup {Keep},
               \/ \E s \in Service, c \in Category \cup {None, Keep} :
                    UpdateService(r, a, s, n, c)
               \/ \E c \in Category, w \in {4, Keep} : UpdateCategory(r, a, c, n, w)
        PROVE  CatalogInv'
    BY <1>4, UpdateServiceKeeps, UpdateCategoryKeeps
  <1>5. ASSUME NEW r \in Request, NEW op \in Ops, NEW s \in Service \cup {None},
               op \notin {"updateService", "updateCategory"}, KidRequest(r, op, s)
        PROVE  CatalogInv'
    BY <1>5, KidRequestKeeps DEF Patches
  <1>6. ASSUME NEW r \in Request,
               \/ CheckCategory(r) \/ WriteService(r)
               \/ RenameCategory(r) \/ SetCategoryWidth(r)
               \/ ReadCategories(r) \/ ReadVisible(r) \/ ReadServices(r)
               \/ WriteFavorite(r) \/ StatementFails(r) \/ Answered(r)
        PROVE  CatalogInv'
    BY <1>6, CheckCategoryKeeps, WriteServiceKeeps, RenameCategoryKeeps,
       SetCategoryWidthKeeps, ReadCategoriesKeeps, ReadVisibleKeeps, ReadServicesKeeps,
       WriteFavoriteKeeps, StatementFailsKeeps, AnsweredKeeps
  <1>. QED
    BY <1>1, <1>2, <1>3, <1>4, <1>5, <1>6 DEF CatalogNext

\* The invariant from which the catalog's promises follow.
THEOREM CatalogInvariant == CatalogSpec => []CatalogInv
  BY CatalogInvInit, CatalogInvKept, PTL DEF CatalogSpec

\* Every variable of the catalog always stays in its type.
THEOREM CatalogAlwaysTyped == CatalogSpec => []CatalogTypeOK
  <1>1. CatalogInv => CatalogTypeOK
    BY DEF CatalogInv
  <1>. QED
    BY <1>1, CatalogInvariant, PTL

\* A service is always in a category of its own owner or in none, though
\* handleUpdateService checks the category in one statement and writes it in
\* another.
THEOREM AlwaysCategoryOfOwner == CatalogSpec => []CategoryOfOwner
  <1>1. CatalogInv => CategoryOfOwner
    BY DEF CatalogInv
  <1>. QED
    BY <1>1, CatalogInvariant, PTL

\* What a kid is shown (visibleCatalog, handleListCategories) was on its
\* allow-list at some moment of the request.
THEOREM KidAlwaysSeesAllowed == CatalogSpec => []KidSeesAllowed
  <1>1. CatalogInv => KidSeesAllowed
    BY DEF CatalogInv, HandlerSound, Watches, KidSeesAllowed
  <1>. QED
    BY <1>1, CatalogInvariant, PTL

\* handleAddFavorite adds a favorite only of a service that exists and was on
\* the allow-list at some moment of the request.
THEOREM FavoritesAlwaysWereAllowed == CatalogSpec => FavoritesWereAllowed
  <1>. DEFINE A == \A s \in favorite' \ favorite :
                     s \in Services /\ \E r \in Request : s \in req[r].window
  <1>1. ASSUME CatalogInv, CatalogNext PROVE A
    <2>1. favorite' \subseteq favorite \/ \E r \in Request : WriteFavorite(r)
      <3>1. ASSUME NEW r \in Request, RenameCategory(r) \/ SetCategoryWidth(r)
            PROVE  UNCHANGED favorite
        BY <3>1 DEF RenameCategory, SetCategoryWidth
      <3>2. ASSUME NEW r \in Request,
                   \/ CheckCategory(r) \/ WriteService(r) \/ ReadCategories(r)
                   \/ ReadVisible(r) \/ ReadServices(r) \/ StatementFails(r) \/ Answered(r)
            PROVE  UNCHANGED favorite
        BY <3>2 DEF CheckCategory, WriteService, ReadCategories, ReadVisible, ReadServices,
                    StatementFails, Answered
      <3>. QED
        BY <1>1, <3>1, <3>2
           DEF CatalogNext, CreateService, DeleteService, CreateCategory, DeleteCategory,
               SetKidServices, UpdateService, UpdateCategory, KidRequest
    <2>2. ASSUME NEW r \in Request, WriteFavorite(r) PROVE A
      <3>1. CASE At(r, "unfavorite")
        BY <2>2, <3>1 DEF WriteFavorite
      <3>2. CASE ~At(r, "unfavorite")
        <4>1. favorite' = favorite \cup ({req[r].id} \cap Services) /\ At(r, "favorite")
          BY <2>2, <3>2 DEF WriteFavorite
        <4>2. req[r].id \in req[r].window
          BY <1>1, <4>1 DEF At, CatalogInv, HandlerSound, Watches
        <4>. QED
          BY <4>1, <4>2
      <3>. QED
        BY <3>1, <3>2
    <2>. QED
      BY <2>1, <2>2
  <1>2. CatalogInv /\ [CatalogNext]_catalogVars => [A]_catalogVars
    BY <1>1
  <1>. QED
    BY <1>2, CatalogInvariant, PTL DEF CatalogSpec, FavoritesWereAllowed

-----------------------------------------------------------------------------
(* PATCH of a category: what it has written                                *)

\* A PATCH of a category has written, by the statement it is at, what it asked
\* for so far; and the category it has written is the admin's, or gone for good.
Progress(q) ==
  q.op = "updateCategory" =>
    /\ q.step \in {"rename", "width", "done"}
    /\ q.step = "rename" => q.did = {} /\ q.slug # Keep
    /\ q.step = "width" => q.did = AskedParts(q) \ {"width"} /\ q.width # Keep
    /\ q.step = "done" => (q.code = 200 <=> q.did = AskedParts(q))
    /\ q.step = "done" /\ q.code \in {404, 409} /\ q.did # {} =>
         q.code = 404 /\ q.id \notin Categories
    /\ q.did # {} => /\ q.id \in minted
                     /\ q.id \in Categories => category[q.id].owner = q.by

PatchInv == \A r \in Request : Progress(req[r])

\* No category comes back or changes hands.
GoneForGood ==
  /\ minted \subseteq minted'
  /\ \A c \in Category : c \in minted /\ c \in Categories' =>
       c \in Categories /\ category'[c].owner = category[c].owner

\* ... also where one row is rewritten in place.
LEMMA RewrittenStays ==
  ASSUME CatalogInv, NEW c \in Categories, NEW row \in CategoryRow,
         row.owner = category[c].owner, category' = [category EXCEPT ![c] = row],
         UNCHANGED minted
  PROVE  GoneForGood
  <1>1. \A x \in Category : category'[x] = IF x = c THEN row ELSE category[x]
    BY DEF CatalogInv, CatalogTypeOK
  <1>. QED
    BY <1>1 DEF GoneForGood, Categories

LEMMA NothingComesBack ==
  ASSUME CatalogInv, CatalogNext
  PROVE  GoneForGood
  <1>1. CASE UNCHANGED category /\ minted \subseteq minted'
    BY <1>1 DEF GoneForGood, Categories
  <1>2. ASSUME NEW a \in Admin, NEW c \in Category, NEW n \in Name, CreateCategory(a, c, n)
        PROVE  GoneForGood
    <2>1. /\ category' = [category EXCEPT ![c] = NewCategory(a, n)]
          /\ minted' = minted \cup {c} /\ c \notin minted
      BY <1>2 DEF CreateCategory
    <2>2. \A x \in Category : x # c => category'[x] = category[x]
      BY <2>1 DEF CatalogInv, CatalogTypeOK
    <2>. QED
      BY <2>1, <2>2 DEF GoneForGood, Categories
  <1>3. ASSUME NEW a \in Admin, NEW c \in Category, DeleteCategory(a, c)
        PROVE  GoneForGood
    <2>1. category' = [category EXCEPT ![c] = None] /\ UNCHANGED minted
      BY <1>3 DEF DeleteCategory
    <2>2. \A x \in Category : category'[x] = IF x = c THEN None ELSE category[x]
      BY <2>1 DEF CatalogInv, CatalogTypeOK
    <2>. QED
      BY <2>1, <2>2 DEF GoneForGood, Categories
  <1>4. ASSUME NEW r \in Request, RenameCategory(r)
        PROVE  GoneForGood
    <2>. DEFINE q == req[r]
    <2>1. /\ q \in Handler /\ q.step = "rename" /\ HandlerSound(q) /\ UNCHANGED minted
      BY <1>4 DEF CatalogInv, CatalogTypeOK, RenameCategory, At
    <2>2. CASE RenameCode(q) # 200
      BY <1>1, <1>4, <2>1, <2>2 DEF RenameCategory
    <2>3. CASE RenameCode(q) = 200
      <3>1. category' = [category EXCEPT ![q.id] = Renamed(category[q.id], q.slug)]
        BY <1>4, <2>3 DEF RenameCategory
      <3>2. q.id \in Categories /\ category[q.id] \in CategoryRow /\ q.slug \in Name
        BY <2>1, <2>3
           DEF RenameCode, OwnsCategory, Categories, CatalogInv, CatalogTypeOK, Handler,
               HandlerSound, AtOwnStep
      <3>. QED
        BY <2>1, <3>1, <3>2, CategoryRows, RewrittenStays
    <2>. QED
      BY <2>2, <2>3
  <1>5. ASSUME NEW r \in Request, SetCategoryWidth(r)
        PROVE  GoneForGood
    <2>. DEFINE q == req[r]
    <2>1. /\ q \in Handler /\ q.step = "width" /\ HandlerSound(q) /\ UNCHANGED minted
      BY <1>5 DEF CatalogInv, CatalogTypeOK, SetCategoryWidth, At
    <2>2. CASE ~OwnsCategory(q.by, q.id)
      BY <1>1, <1>5, <2>1, <2>2 DEF SetCategoryWidth
    <2>3. CASE OwnsCategory(q.by, q.id)
      <3>1. category' = [category EXCEPT ![q.id] = Widened(category[q.id], q.width)]
        BY <1>5, <2>3 DEF SetCategoryWidth
      <3>2. q.id \in Categories /\ category[q.id] \in CategoryRow /\ q.width = 4
        BY <2>1, <2>3
           DEF OwnsCategory, Categories, CatalogInv, CatalogTypeOK, Handler,
               HandlerSound, AtOwnStep
      <3>. QED
        BY <2>1, <3>1, <3>2, CategoryRows, RewrittenStays
    <2>. QED
      BY <2>2, <2>3
  <1>6. ASSUME NEW a \in Admin, NEW s \in Service, NEW n \in Name,
               CreateService(a, s, n) \/ DeleteService(a, s)
        PROVE  GoneForGood
    BY <1>1, <1>6 DEF CreateService, DeleteService
  <1>. QED
    BY <1>1, <1>2, <1>3, <1>4, <1>5, <1>6
       DEF CatalogNext, DeleteService, SetKidServices, UpdateService, UpdateCategory,
           KidRequest, CheckCategory, WriteService, ReadCategories, ReadVisible,
           ReadServices, WriteFavorite, StatementFails, Answered

\* So a PATCH that does not move stays as it is, whatever it sees.
LEMMA ProgressCarries ==
  ASSUME CatalogInv, GoneForGood, NEW q \in Handler, Progress(q),
         NEW m, m.op = q.op, m.step = q.step, m.by = q.by, m.id = q.id,
         m.slug = q.slug, m.width = q.width, m.code = q.code, m.did = q.did
  PROVE  Progress(m)'
  <1>1. AskedParts(m) = AskedParts(q)
    BY DEF AskedParts
  <1>2. q.id \in minted => /\ q.id \in minted'
                           /\ q.id \in Categories' =>
                                /\ q.id \in Categories
                                /\ category'[q.id].owner = category[q.id].owner
    BY DEF GoneForGood, Categories
  <1>. QED
    BY <1>1, <1>2 DEF Progress

LEMMA OneMoves ==
  ASSUME CatalogInv, PatchInv, GoneForGood, NEW r \in Request, NEW m,
         Becomes(r, m), Progress(m)'
  PROVE  PatchInv'
  <1>1. \A x \in Request : req'[x] = IF x = r THEN m ELSE req[x]
    BY DEF Becomes, CatalogInv, CatalogTypeOK
  <1>2. ASSUME NEW x \in Request PROVE Progress(req[x])'
    <2>1. PICK v : v = IF x = r THEN m ELSE req[x]
      OBVIOUS
    <2>2. Progress(v)'
      <3>1. CASE x = r
        BY <2>1, <3>1
      <3>2. CASE x # r
        <4>1. v = req[x] /\ req[x] \in Handler /\ Progress(req[x])
          BY <2>1, <3>2 DEF PatchInv, CatalogInv, CatalogTypeOK
        <4>. QED
          BY <4>1, ProgressCarries
      <3>. QED
        BY <3>1, <3>2
    <2>3. req'[x] = v
      BY <1>1, <2>1
    <2>. QED
      BY <2>2, <2>3 DEF Progress, AskedParts, Categories
  <1>. QED
    BY <1>2 DEF PatchInv

\* A handler that is no PATCH of a category does not become one.
LEMMA AnotherMoves ==
  ASSUME CatalogInv, PatchInv, GoneForGood, NEW r \in Request, NEW m,
         Becomes(r, m), m.op # "updateCategory"
  PROVE  PatchInv'
  BY OneMoves DEF Progress

LEMMA NoneMoves ==
  ASSUME CatalogInv, PatchInv, GoneForGood, UNCHANGED req
  PROVE  PatchInv'
  <1>1. ASSUME NEW x \in Request PROVE Progress(req[x])'
    <2>1. PICK v : v = req[x]
      OBVIOUS
    <2>2. v \in Handler /\ Progress(v)
      BY <2>1 DEF PatchInv, CatalogInv, CatalogTypeOK
    <2>3. Progress(v)'
      BY <2>2, ProgressCarries
    <2>. QED
      BY <2>1, <2>3 DEF Progress, AskedParts, Categories
  <1>. QED
    BY <1>1 DEF PatchInv

LEMMA AllWatchPatch ==
  ASSUME CatalogInv, PatchInv, GoneForGood, NEW ids \in SUBSET Service, SetKidServices(ids)
  PROVE  PatchInv'
  <1>1. ASSUME NEW x \in Request PROVE Progress(req[x])'
    <2>1. PICK q, m : q = req[x] /\ m = req'[x]
      OBVIOUS
    <2>2. q \in Handler /\ Progress(q)
      BY <2>1 DEF PatchInv, CatalogInv, CatalogTypeOK
    <2>3. m = q \/ m = Watched(q, ids)
      BY <2>1 DEF SetKidServices, Watch
    <2>4. /\ m.op = q.op /\ m.step = q.step /\ m.by = q.by /\ m.id = q.id
          /\ m.slug = q.slug /\ m.width = q.width /\ m.code = q.code /\ m.did = q.did
      BY <2>2, <2>3, WatchedEffect
    <2>5. Progress(m)'
      BY <2>2, <2>4, ProgressCarries
    <2>. QED
      BY <2>1, <2>5 DEF Progress, AskedParts, Categories
  <1>. QED
    BY <1>1 DEF PatchInv

\* The other handlers are never at a statement of this PATCH.
LEMMA OthersMove ==
  ASSUME CatalogInv, PatchInv, GoneForGood, NEW r \in Request,
         \/ CheckCategory(r) \/ WriteService(r) \/ ReadCategories(r)
         \/ ReadVisible(r) \/ ReadServices(r) \/ WriteFavorite(r) \/ Answered(r)
  PROVE  PatchInv'
  <1>. DEFINE q == req[r]
  <1>1. q \in Handler /\ Progress(q)
    BY DEF PatchInv, CatalogInv, CatalogTypeOK
  <1>2. \A step \in Steps : AtStep(q, step).op = q.op
    BY <1>1, AtStepEffect
  <1>3. {"update", "done"} \subseteq Steps
    BY DEF Steps
  <1>4. CASE CheckCategory(r)
    <2>1. q.step = "check"
      BY <1>4 DEF CheckCategory, At
    <2>2. \E step \in {"update", "done"} : Becomes(r, AtStep(q, step))
      BY <1>4 DEF CheckCategory, Goto
    <2>. QED
      BY <1>1, <1>2, <1>3, <2>1, <2>2, AnotherMoves DEF Progress
  <1>5. CASE WriteService(r)
    <2>1. q.step = "update" /\ Becomes(r, AtStep(q, "done"))
      BY <1>5 DEF WriteService, At, Goto
    <2>. QED
      BY <1>1, <1>2, <1>3, <2>1, AnotherMoves DEF Progress
  <1>6. CASE ReadCategories(r)
    <2>1. PICK cats \in SUBSET Category : Becomes(r, WithCategories(q, cats))
      <3>1. {c \in Categories : OwnsCategory(First, c)} \in SUBSET Category
        BY DEF Categories
      <3>. QED
        BY <1>6, <3>1 DEF ReadCategories
    <2>2. q.step = "cats" /\ WithCategories(q, cats).op = q.op
      BY <1>1, <1>6, WithCategoriesEffect DEF ReadCategories, At
    <2>. QED
      BY <1>1, <2>1, <2>2, AnotherMoves DEF Progress
  <1>7. CASE ReadVisible(r)
    <2>1. PICK vis \in Visibles :
            LET m == WithVisible(q, vis) IN Becomes(r, AtStep(m, AfterVisible(m)))
      BY <1>7 DEF ReadVisible
    <2>2. vis \in SUBSET Service
      BY DEF Visibles, CatalogInv, CatalogTypeOK
    <2>3. WithVisible(q, vis) \in Handler /\ WithVisible(q, vis).op = q.op
          /\ WithVisible(q, vis).step = q.step
      BY <1>1, <2>2, WithVisibleEffect
    <2>4. q.step \in {"visible", "again"}
      BY <1>7 DEF ReadVisible, At
    <2>5. AtStep(WithVisible(q, vis), AfterVisible(WithVisible(q, vis))).op = q.op
      BY <2>3 DEF AtStep, Handler
    <2>. QED
      BY <1>1, <2>1, <2>4, <2>5, AnotherMoves DEF Progress
  <1>8. CASE ReadServices(r)
    <2>. DEFINE seen == Shared \cap q.vis
                shown == {<<s, service[s].category>> :
                            s \in {x \in seen : service[x].category \in q.cats}}
    <2>1. q.step = "list"
      BY <1>8 DEF ReadServices, At
    <2>2. seen \in SUBSET Service /\ shown \in SUBSET (Service \X Category)
      BY <1>1 DEF Shared, Services, Handler
    <2>3. ShownServices(q, seen).op = q.op /\ ShownCategories(q, shown).op = q.op
      BY <1>1, <2>2, ShownEffect
    <2>4. Becomes(r, ShownServices(q, seen)) \/ Becomes(r, ShownCategories(q, shown))
      BY <1>8 DEF ReadServices
    <2>. QED
      BY <1>1, <2>1, <2>3, <2>4, AnotherMoves DEF Progress
  <1>9. CASE WriteFavorite(r)
    <2>1. q.step \in {"favorite", "unfavorite"} /\ Becomes(r, AtStep(q, "done"))
      BY <1>9 DEF WriteFavorite, At, Goto
    <2>. QED
      BY <1>1, <1>2, <1>3, <2>1, AnotherMoves DEF Progress
  <1>10. CASE Answered(r)
    BY <1>10, FreeEffect, AnotherMoves DEF Answered
  <1>. QED
    BY <1>4, <1>5, <1>6, <1>7, <1>8, <1>9, <1>10

LEMMA AnotherArrives ==
  ASSUME CatalogInv, PatchInv, GoneForGood, NEW r \in Request,
         \/ \E a \in Admin, n \in Name \cup {Keep}, s \in Service,
               c \in Category \cup {None, Keep} : UpdateService(r, a, s, n, c)
         \/ \E op \in Ops, s \in Service \cup {None} :
               op # "updateCategory" /\ KidRequest(r, op, s)
  PROVE  PatchInv'
  <1>1. ASSUME NEW a \in Admin, NEW n \in Name \cup {Keep}, NEW s \in Service,
               NEW c \in Category \cup {None, Keep}, UpdateService(r, a, s, n, c)
        PROVE  PatchInv'
    <2>1. PatchingService(a, s, n, c).op = "updateService"
      BY PatchingServiceEffect
    <2>. QED
      BY <1>1, <2>1, AnotherMoves DEF UpdateService
  <1>2. ASSUME NEW op \in Ops, NEW s \in Service \cup {None},
               op # "updateCategory", KidRequest(r, op, s)
        PROVE  PatchInv'
    <2>1. KidAsking(op, s).op = op
      BY KidAskingEffect DEF CatalogInv
    <2>. QED
      BY <1>2, <2>1, AnotherMoves DEF KidRequest
  <1>. QED
    BY <1>1, <1>2

LEMMA PatchArrives ==
  ASSUME CatalogInv, PatchInv, GoneForGood, NEW r \in Request, NEW a \in Admin,
         NEW n \in Name \cup {Keep}, NEW c \in Category, NEW w \in {4, Keep},
         UpdateCategory(r, a, c, n, w)
  PROVE  PatchInv'
  <1>1. PICK m : m = PatchingCategory(a, c, n, w)
    OBVIOUS
  <1>2. /\ m.step = IF n # Keep THEN "rename" ELSE "width"
        /\ m.slug = n /\ m.width = w /\ m.did = {}
    BY <1>1, PatchingCategoryEffect
  <1>3. Becomes(r, m) /\ (n # Keep \/ w # Keep)
    BY <1>1 DEF UpdateCategory
  <1>4. Progress(m)'
    BY <1>2, <1>3 DEF Progress, AskedParts
  <1>. QED
    BY <1>3, <1>4, OneMoves

LEMMA RenamesHonestly ==
  ASSUME CatalogInv, PatchInv, GoneForGood, NEW r \in Request, RenameCategory(r)
  PROVE  PatchInv'
  <1>1. PICK q : q = req[r]
    OBVIOUS
  <1>2. /\ q \in Handler /\ Progress(q) /\ q.step = "rename"
        /\ q.slug # Keep
    BY <1>1 DEF PatchInv, CatalogInv, CatalogTypeOK, RenameCategory, At, HandlerSound, AtOwnStep
  <1>3. /\ "name" \in AskedParts(q)
        /\ q.width = Keep => AskedParts(q) = {"name"}
        /\ q.width # Keep => AskedParts(q) \ {"width"} = {"name"}
    BY <1>2 DEF AskedParts
  <1>4. {{}, {"name"}} \subseteq SUBSET Parts /\ {"width", "done"} \subseteq Steps
        /\ {200, 404, 409} \subseteq Codes
    BY DEF Parts, Steps, Codes
  <1>5. CASE RenameCode(q) = 200
    <2>1. PICK next, m : /\ m = Applied(q, {"name"}, 200, next) /\ Becomes(r, m)
                         /\ next = IF q.width # Keep THEN "width" ELSE "done"
      BY <1>1, <1>5 DEF RenameCategory
    <2>2. /\ m.code = 200 /\ m.did = {"name"} /\ m.step = next /\ m.by = q.by
          /\ m.id = q.id /\ m.slug = q.slug /\ m.width = q.width /\ m.op = q.op
      BY <1>2, <1>4, <2>1, AppliedEffect
    <2>3. q.id \in Categories /\ category[q.id].owner = q.by
      BY <1>5 DEF RenameCode, OwnsCategory
    <2>4. /\ q.id \in minted'
          /\ q.id \in Categories' => category'[q.id].owner = q.by
      BY <2>3 DEF GoneForGood, CatalogInv, Categories
    <2>5. AskedParts(m) = AskedParts(q)
      BY <2>2 DEF AskedParts
    <2>6. Progress(m)'
      BY <1>3, <2>1, <2>2, <2>4, <2>5 DEF Progress
    <2>. QED
      BY <2>1, <2>6, OneMoves
  <1>6. CASE RenameCode(q) # 200
    <2>1. PICK code, m : /\ m = Applied(q, {}, code, "done") /\ Becomes(r, m)
                         /\ code \in {404, 409}
      BY <1>1, <1>6 DEF RenameCategory, RenameCode
    <2>2. m.code = code /\ m.did = {} /\ m.step = "done" /\ m.slug = q.slug
          /\ m.width = q.width
      BY <1>2, <1>4, <2>1, AppliedEffect
    <2>3. AskedParts(m) = AskedParts(q)
      BY <2>2 DEF AskedParts
    <2>4. Progress(m)'
      BY <1>3, <2>1, <2>2, <2>3 DEF Progress
    <2>. QED
      BY <2>1, <2>4, OneMoves
  <1>. QED
    BY <1>5, <1>6

\* The second statement finds the category gone only if it was deleted in
\* between: the first one found it.
LEMMA WidensHonestly ==
  ASSUME CatalogInv, PatchInv, GoneForGood, NEW r \in Request, SetCategoryWidth(r)
  PROVE  PatchInv'
  <1>1. PICK q : q = req[r]
    OBVIOUS
  <1>2. /\ q \in Handler /\ Progress(q) /\ q.step = "width"
        /\ q.width # Keep
    BY <1>1 DEF PatchInv, CatalogInv, CatalogTypeOK, SetCategoryWidth, At, HandlerSound,
                AtOwnStep
  <1>3. /\ "width" \in AskedParts(q)
        /\ (AskedParts(q) \ {"width"}) \cup {"width"} = AskedParts(q)
    BY <1>2 DEF AskedParts
  <1>4. /\ \A did \in SUBSET Parts : did \cup {"width"} \in SUBSET Parts
        /\ "done" \in Steps /\ 200 \in Codes /\ 404 \in Codes /\ q.did \in SUBSET Parts
    BY <1>2 DEF Parts, Steps, Codes, Handler
  <1>5. CASE OwnsCategory(q.by, q.id)
    <2>1. PICK m : m = Applied(q, q.did \cup {"width"}, 200, "done") /\ Becomes(r, m)
      BY <1>1, <1>5 DEF SetCategoryWidth, WidthCode
    <2>2. /\ m.code = 200 /\ m.did = q.did \cup {"width"} /\ m.step = "done" /\ m.by = q.by
          /\ m.id = q.id /\ m.slug = q.slug /\ m.width = q.width /\ m.op = q.op
      BY <1>2, <1>4, <2>1, AppliedEffect
    <2>3. /\ q.id \in minted'
          /\ q.id \in Categories' => category'[q.id].owner = q.by
      BY <1>5 DEF GoneForGood, CatalogInv, Categories, OwnsCategory
    <2>4. AskedParts(m) = AskedParts(q)
      BY <2>2 DEF AskedParts
    <2>5. Progress(m)'
      BY <1>2, <1>3, <2>2, <2>3, <2>4 DEF Progress
    <2>. QED
      BY <2>1, <2>5, OneMoves
  <1>6. CASE ~OwnsCategory(q.by, q.id)
    <2>1. PICK m : m = Applied(q, q.did, 404, "done") /\ Becomes(r, m)
      BY <1>1, <1>6 DEF SetCategoryWidth, WidthCode
    <2>2. /\ m.code = 404 /\ m.did = q.did /\ m.step = "done" /\ m.by = q.by
          /\ m.id = q.id /\ m.slug = q.slug /\ m.width = q.width /\ m.op = q.op
      BY <1>2, <1>4, <2>1, AppliedEffect
    <2>3. AskedParts(m) = AskedParts(q)
      BY <2>2 DEF AskedParts
    <2>4. UNCHANGED category
      BY <1>1, <1>6 DEF SetCategoryWidth
    <2>5. q.op = "updateCategory" =>
            /\ q.did = AskedParts(q) \ {"width"}
            /\ q.did # {} => q.id \in minted' /\ q.id \notin Categories'
      BY <1>2, <1>6, <2>4 DEF Progress, GoneForGood, OwnsCategory, Categories
    <2>6. Progress(m)'
      BY <1>3, <2>2, <2>3, <2>5 DEF Progress
    <2>. QED
      BY <2>1, <2>6, OneMoves
  <1>. QED
    BY <1>5, <1>6

LEMMA FailsHonestly ==
  ASSUME CatalogInv, PatchInv, GoneForGood, NEW r \in Request, StatementFails(r)
  PROVE  PatchInv'
  <1>1. PICK q, m : q = req[r] /\ m = Failed(req[r])
    OBVIOUS
  <1>2. q \in Handler /\ Progress(q) /\ q.step # "done" /\ Becomes(r, m)
    BY <1>1 DEF PatchInv, CatalogInv, CatalogTypeOK, StatementFails, At
  <1>3. /\ m.code = 500 /\ m.did = q.did /\ m.step = "done" /\ m.by = q.by
        /\ m.id = q.id /\ m.slug = q.slug /\ m.width = q.width /\ m.op = q.op
    BY <1>1, <1>2, FailedEffect
  <1>4. AskedParts(m) = AskedParts(q)
    BY <1>3 DEF AskedParts
  <1>5. q.op = "updateCategory" => q.did # AskedParts(q)
    BY <1>2 DEF Progress, AskedParts
  <1>6. q.op = "updateCategory" /\ q.did # {} =>
          /\ q.id \in minted'
          /\ q.id \in Categories' => category'[q.id].owner = q.by
    BY <1>2 DEF Progress, GoneForGood, Categories
  <1>7. Progress(m)'
    BY <1>3, <1>4, <1>5, <1>6 DEF Progress
  <1>. QED
    BY <1>2, <1>7, OneMoves

LEMMA PatchInvInit == CatalogInit => PatchInv
  BY FreeEffect DEF CatalogInit, PatchInv, Progress

LEMMA PatchInvKept ==
  ASSUME CatalogInv, PatchInv, [CatalogNext]_catalogVars
  PROVE  PatchInv'
  <1>1. CASE UNCHANGED catalogVars
    <2>1. GoneForGood
      BY <1>1 DEF GoneForGood, Categories, catalogVars
    <2>. QED
      BY <1>1, <2>1, NoneMoves DEF catalogVars
  <1>2. CASE CatalogNext
    <2>. USE <1>2, NothingComesBack
    <2>1. CASE UNCHANGED req
      BY <2>1, NoneMoves
    <2>2. ASSUME NEW ids \in SUBSET Service, SetKidServices(ids)
          PROVE  PatchInv'
      BY <2>2, AllWatchPatch
    <2>3. ASSUME NEW r \in Request, NEW a \in Admin, NEW n \in Name \cup {Keep},
                 NEW c \in Category, NEW w \in {4, Keep}, UpdateCategory(r, a, c, n, w)
          PROVE  PatchInv'
      BY <2>3, PatchArrives
    <2>4. ASSUME NEW r \in Request,
                 \/ \E a \in Admin, n \in Name \cup {Keep}, s \in Service,
                       c \in Category \cup {None, Keep} : UpdateService(r, a, s, n, c)
                 \/ \E op \in Ops, s \in Service \cup {None} :
                       op # "updateCategory" /\ KidRequest(r, op, s)
          PROVE  PatchInv'
      BY <2>4, AnotherArrives
    <2>5. ASSUME NEW r \in Request,
                 \/ CheckCategory(r) \/ WriteService(r) \/ ReadCategories(r)
                 \/ ReadVisible(r) \/ ReadServices(r) \/ WriteFavorite(r) \/ Answered(r)
          PROVE  PatchInv'
      BY <2>5, OthersMove
    <2>6. ASSUME NEW r \in Request,
                 RenameCategory(r) \/ SetCategoryWidth(r) \/ StatementFails(r)
          PROVE  PatchInv'
      BY <2>6, RenamesHonestly, WidensHonestly, FailsHonestly
    <2>7. ASSUME NEW a \in Admin,
                 \/ \E s \in Service : \/ \E n \in Name : CreateService(a, s, n)
                                       \/ DeleteService(a, s)
                 \/ \E c \in Category : \/ \E n \in Name : CreateCategory(a, c, n)
                                        \/ DeleteCategory(a, c)
          PROVE  PatchInv'
      BY <2>1, <2>7 DEF CreateService, DeleteService, CreateCategory, DeleteCategory
    <2>. QED
      BY <2>2, <2>3, <2>4, <2>5, <2>6, <2>7 DEF CatalogNext
  <1>. QED
    BY <1>1, <1>2

\* What a PATCH of a category has written, statement by statement.
THEOREM PatchInvariant == CatalogSpec => []PatchInv
  BY PatchInvInit, PatchInvKept, CatalogInvariant, PTL DEF CatalogSpec

\* handleUpdateCategory renames in one statement and sets the width in another:
\* it answers 200 exactly when it did all it was asked, and an error after it
\* had renamed only of a category that is gone, or when a statement failed.
THEOREM CategoryPatchAlwaysHonest == CatalogSpec => []CategoryPatchIsHonest
  <1>1. PatchInv => CategoryPatchIsHonest
    BY DEF PatchInv, Progress, CategoryPatchIsHonest, At
  <1>. QED
    BY <1>1, PatchInvariant, PTL

-----------------------------------------------------------------------------
(* The icons                                                               *)

\* The handler of a request is at a step of its own operation.
AtOwnPhase(q) ==
  /\ q.phase # "free" => q.service \in Iconed
  /\ q.phase # "done" => q.code = 0
  /\ q.kind = "fetch" => q.variant = "light"
  /\ q.phase \in {"url", "page", "link", "fallback"} => q.kind = "fetch"
  /\ q.phase \in {"page", "link", "fallback"} => q.url \in Url
  /\ q.phase = "check" => q.kind \in {"upload", "fetch"}
  /\ q.phase = "write" => q.kind # "read"
  /\ q.phase \in {"visible", "catalog", "read"} => q.kind = "read"

\* An image on its way to the table is an upload or is from its service's site,
\* and has been checked by the time it is written.
Origin(image, s, v) == image.from = "upload" \/ (v = "light" /\ image.from \in had[s])

CarriesOwn(q) ==
  /\ q.phase \in {"page", "link", "fallback"} => q.url \in had[q.service]
  /\ q.kind \in {"upload", "fetch"} /\ q.phase \in {"check", "own", "write"} =>
       q.image \in Image /\ Origin(q.image, q.service, q.variant)
  /\ q.kind \in {"upload", "fetch"} /\ q.phase \in {"own", "write"} => q.image.usable
  /\ q.kind = "delete" => q.image = NoImage

\* A request knows whether its service was permitted since it arrived, and no
\* kid's is past the gate otherwise.
PassedTheGate(q) ==
  /\ q.phase \notin {"free", "done"} /\ q.service \in permitted => q.admitted
  /\ q.kind = "read" /\ q.kid /\ q.phase \in {"catalog", "own", "read"} => q.admitted
  /\ q.kind = "read" /\ q.code = 200 => (q.kid => q.admitted) /\ q.image.usable

IconSound(q) == AtOwnPhase(q) /\ CarriesOwn(q) /\ PassedTheGate(q)

IconsInv ==
  /\ IconsTypeOK
  /\ \A s \in Iconed : Exists(s) => url[s] \in had[s]
  /\ IconIsUploadOrOwnSite
  /\ \A r \in IconCall : IconSound(request[r])

\* What each step makes of a request, field by field.
LEMMA MovedToEffect ==
  ASSUME NEW q \in IconRequest, NEW phase \in IconPhases
  PROVE  LET m == MovedTo(q, phase)
         IN  /\ m \in IconRequest /\ m.phase = phase
             /\ m.kind = q.kind /\ m.service = q.service /\ m.variant = q.variant
             /\ m.kid = q.kid /\ m.url = q.url /\ m.image = q.image
             /\ m.code = q.code /\ m.admitted = q.admitted
  BY DEF IconRequest, MovedTo

LEMMA RepliedEffect ==
  ASSUME NEW q \in IconRequest, NEW code \in IconCodes
  PROVE  LET m == Replied(q, code)
         IN  /\ m \in IconRequest /\ m.phase = "done" /\ m.code = code
             /\ m.kind = q.kind /\ m.service = q.service /\ m.variant = q.variant
             /\ m.kid = q.kid /\ m.url = q.url /\ m.image = q.image
             /\ m.admitted = q.admitted
  BY DEF IconRequest, Replied, IconPhases

LEMMA AdmittedEffect ==
  ASSUME NEW q \in IconRequest
  PROVE  LET m == Admitted(q)
         IN  /\ m \in IconRequest /\ m.phase = q.phase /\ m.code = q.code
             /\ m.kind = q.kind /\ m.service = q.service /\ m.variant = q.variant
             /\ m.kid = q.kid /\ m.url = q.url /\ m.image = q.image
             /\ m.admitted = TRUE
  BY DEF IconRequest, Admitted

LEMMA WithUrlEffect ==
  ASSUME NEW q \in IconRequest, NEW u \in Url
  PROVE  LET m == WithUrl(q, u)
         IN  /\ m \in IconRequest /\ m.phase = "page" /\ m.url = u
             /\ m.kind = q.kind /\ m.service = q.service /\ m.variant = q.variant
             /\ m.kid = q.kid /\ m.image = q.image
             /\ m.code = q.code /\ m.admitted = q.admitted
  BY DEF IconRequest, WithUrl, IconPhases

LEMMA FoundEffect ==
  ASSUME NEW q \in IconRequest, NEW usable \in BOOLEAN, q.url \in Url
  PROVE  LET m == Found(q, usable)
         IN  /\ m \in IconRequest /\ m.phase = "check"
             /\ m.image = [from |-> q.url, usable |-> usable] /\ m.image \in Image
             /\ m.kind = q.kind /\ m.service = q.service /\ m.variant = q.variant
             /\ m.kid = q.kid /\ m.url = q.url
             /\ m.code = q.code /\ m.admitted = q.admitted
  <1>1. [from |-> q.url, usable |-> usable] \in Image
    BY DEF Image
  <1>. QED
    BY <1>1 DEF IconRequest, Found, IconPhases

LEMMA ServedEffect ==
  ASSUME NEW q \in IconRequest, NEW image \in Image
  PROVE  LET m == Served(q, image)
         IN  /\ m \in IconRequest /\ m.phase = "done" /\ m.code = 200
             /\ m.image = image
             /\ m.kind = q.kind /\ m.service = q.service /\ m.variant = q.variant
             /\ m.kid = q.kid /\ m.url = q.url /\ m.admitted = q.admitted
  <1>1. "done" \in IconPhases /\ 200 \in IconCodes
    BY DEF IconPhases, IconCodes
  <1>2. Served(q, image) \in IconRequest
    <2>1. [q EXCEPT !.phase = "done"] \in IconRequest
      BY <1>1 DEF IconRequest
    <2>2. ASSUME NEW p \in IconRequest PROVE [p EXCEPT !.code = 200] \in IconRequest
      BY <1>1 DEF IconRequest
    <2>3. ASSUME NEW p \in IconRequest PROVE [p EXCEPT !.image = image] \in IconRequest
      BY DEF IconRequest
    <2>. QED
      BY <2>1, <2>2, <2>3 DEF Served
  <1>3. LET m == Served(q, image)
        IN  /\ m.phase = "done" /\ m.code = 200 /\ m.image = image
            /\ m.kind = q.kind /\ m.service = q.service /\ m.variant = q.variant
            /\ m.kid = q.kid /\ m.url = q.url /\ m.admitted = q.admitted
    BY DEF IconRequest, Served
  <1>. QED
    BY <1>2, <1>3

LEMMA ArrivedEffect ==
  ASSUME NEW kind \in Kinds, NEW s \in Iconed, NEW v \in Variant, NEW kid \in BOOLEAN,
         NEW image \in Image \cup {NoImage}
  PROVE  LET m == Arrived(kind, s, v, kid, image)
         IN  /\ m \in IconRequest
             /\ m.phase = FirstPhaseOf(kind) /\ m.kind = kind /\ m.service = s
             /\ m.variant = v /\ m.kid = kid /\ m.image = image /\ m.code = 0
             /\ m.admitted = (s \in permitted)
             /\ kind = "upload" => m.phase = "check"
             /\ kind = "fetch" => m.phase = "url"
             /\ kind = "delete" => m.phase = "own"
             /\ kind = "read" => m.phase = "visible"
  <1>1. /\ FirstPhaseOf(kind) \in IconPhases
        /\ kind = "upload" => FirstPhaseOf(kind) = "check"
        /\ kind = "fetch" => FirstPhaseOf(kind) = "url"
        /\ kind = "delete" => FirstPhaseOf(kind) = "own"
        /\ kind = "read" => FirstPhaseOf(kind) = "visible"
    BY DEF FirstPhaseOf, Kinds, IconPhases
  <1>2. 0 \in IconCodes
    BY DEF IconCodes
  <1>. QED
    BY <1>1, <1>2 DEF Arrived, IconRequest

LEMMA FreshIcon == Fresh \in IconRequest /\ IconSound(Fresh)
  <1>1. "free" \in IconPhases /\ "read" \in Kinds /\ "light" \in Variant /\ 0 \in IconCodes
    BY DEF IconPhases, Kinds, Variant, IconCodes
  <1>2. Fresh \in IconRequest
    BY <1>1 DEF Fresh, IconRequest
  <1>. QED
    BY <1>2 DEF Fresh, IconSound, AtOwnPhase, CarriesOwn, PassedTheGate

\* A step of one request that leaves the store alone leaves a sound one.
LEMMA RequestMoves ==
  ASSUME IconsInv, NEW r \in IconCall, NEW q \in IconRequest, IconSound(q),
         To(r, q), UNCHANGED Stored
  PROVE  IconsInv'
  <1>1. /\ UNCHANGED <<url, icon, permitted, had>>
        /\ request' = [request EXCEPT ![r] = q]
    BY DEF Stored, To
  <1>2. IconsTypeOK'
    BY <1>1 DEF IconsInv, IconsTypeOK
  <1>3. \A s \in Iconed : Exists(s)' => url'[s] \in had'[s]
    BY <1>1 DEF IconsInv, Exists
  <1>4. IconIsUploadOrOwnSite'
    BY <1>1 DEF IconsInv, IconIsUploadOrOwnSite, Exists
  <1>5. ASSUME NEW x \in IconCall PROVE IconSound(request[x])'
    <2>1. request'[x] = (IF x = r THEN q ELSE request[x])
      BY <1>1 DEF IconsInv, IconsTypeOK
    <2>2. IconSound(request'[x])
      BY <2>1 DEF IconsInv
    <2>. QED
      BY <1>1, <2>2 DEF IconSound, AtOwnPhase, CarriesOwn, PassedTheGate, Origin
  <1>. QED
    BY <1>2, <1>3, <1>4, <1>5 DEF IconsInv

\* Any request may be answered with anything but an icon, and so may a write.
LEMMA RepliesSound ==
  ASSUME IconsInv, NEW r \in IconCall, NEW code \in IconCodes,
         ~In(r, "free"), code = 200 => request[r].kind # "read"
  PROVE  Replied(request[r], code) \in IconRequest /\ IconSound(Replied(request[r], code))
  <1>1. request[r] \in IconRequest /\ IconSound(request[r])
    BY DEF IconsInv, IconsTypeOK
  <1>. QED
    BY <1>1, RepliedEffect DEF In, IconSound, AtOwnPhase, CarriesOwn, PassedTheGate

LEMMA CodesOfReplies == \A c \in {200, 204, 404, 422, 500} : c \in IconCodes
  BY DEF IconCodes

LEMMA Refuses ==
  ASSUME IconsInv, NEW r \in IconCall, NEW code \in {204, 404, 422, 500},
         ~In(r, "free"), Replies(r, code), UNCHANGED Stored
  PROVE  IconsInv'
  <1>1. code \in IconCodes /\ code # 200
    BY CodesOfReplies
  <1>. QED
    BY <1>1, RepliesSound, RequestMoves DEF Replies

-----------------------------------------------------------------------------
LEMMA IconsInvInit == IconsInit => IconsInv
  <1>. SUFFICES ASSUME IconsInit PROVE IconsInv
    OBVIOUS
  <1>1. IconsTypeOK
    BY FreshIcon DEF IconsInit, IconsTypeOK
  <1>2. \A s \in Iconed : Exists(s) => url[s] \in had[s]
    BY DEF IconsInit
  <1>3. IconIsUploadOrOwnSite
    BY DEF IconsInit, IconIsUploadOrOwnSite
  <1>4. \A r \in IconCall : IconSound(request[r])
    BY FreshIcon DEF IconsInit
  <1>. QED
    BY <1>1, <1>2, <1>3, <1>4 DEF IconsInv

\* What has been fetched stays something its service has had.
LEMMA EditUrlKeeps ==
  ASSUME IconsInv, NEW s \in Iconed, NEW u \in Url, EditUrl(s, u)
  PROVE  IconsInv'
  <1>1. /\ url' = [url EXCEPT ![s] = u] /\ had' = [had EXCEPT ![s] = @ \cup {u}]
        /\ UNCHANGED <<icon, permitted, request>> /\ Exists(s)
    BY DEF EditUrl
  <1>2. IconsTypeOK'
    BY <1>1 DEF IconsInv, IconsTypeOK
  <1>3. \A x \in Iconed : had[x] \subseteq had'[x]
    BY <1>1 DEF IconsInv, IconsTypeOK
  <1>4. \A x \in Iconed : Exists(x)' => url'[x] \in had'[x]
    BY <1>1, <1>3 DEF IconsInv, IconsTypeOK, Exists
  <1>5. IconIsUploadOrOwnSite'
    <2>1. \A x \in Iconed : Exists(x) => Exists(x)'
      BY <1>1, IconsAssumption DEF IconsInv, IconsTypeOK, Exists
    <2>. QED
      BY <1>1, <1>3, <2>1 DEF IconsInv, IconIsUploadOrOwnSite
  <1>6. ASSUME NEW x \in IconCall PROVE IconSound(request[x])'
    <2>1. request'[x] = request[x] /\ IconSound(request[x]) /\ permitted' = permitted
      BY <1>1 DEF IconsInv
    <2>2. request[x].phase # "free" => request[x].service \in Iconed
      BY <2>1 DEF IconSound, AtOwnPhase
    <2>3. CarriesOwn(request[x])'
      BY <2>1, <2>2, <1>3 DEF IconSound, CarriesOwn, Origin
    <2>. QED
      BY <2>1, <2>3 DEF IconSound, AtOwnPhase, PassedTheGate
  <1>. QED
    BY <1>2, <1>4, <1>5, <1>6 DEF IconsInv

LEMMA DeleteIconedKeeps ==
  ASSUME IconsInv, NEW s \in Iconed, DeleteIconed(s)
  PROVE  IconsInv'
  <1>1. /\ url' = [url EXCEPT ![s] = NoUrl]
        /\ icon' = [icon EXCEPT ![s] = [v \in Variant |-> NoImage]]
        /\ permitted' = permitted \ {s} /\ UNCHANGED <<had, request>>
    BY DEF DeleteIconed
  <1>2. IconsTypeOK'
    BY <1>1 DEF IconsInv, IconsTypeOK
  <1>3. \A x \in Iconed : Exists(x)' => url'[x] \in had'[x]
    BY <1>1 DEF IconsInv, IconsTypeOK, Exists
  <1>4. IconIsUploadOrOwnSite'
    BY <1>1 DEF IconsInv, IconsTypeOK, IconIsUploadOrOwnSite, Exists
  <1>5. \A x \in IconCall : IconSound(request[x])'
    BY <1>1 DEF IconsInv, IconSound, AtOwnPhase, CarriesOwn, PassedTheGate, Origin
  <1>. QED
    BY <1>2, <1>3, <1>4, <1>5 DEF IconsInv

LEMMA AllowKeeps ==
  ASSUME IconsInv, NEW S \in SUBSET Iconed, Allow(S)
  PROVE  IconsInv'
  <1>1. /\ permitted' = S /\ UNCHANGED <<url, icon, had>>
        /\ request' = [r \in IconCall |->
             IF request[r].service \in S /\ ~In(r, "done")
             THEN Admitted(request[r]) ELSE request[r]]
    BY DEF Allow
  <1>2. \A r \in IconCall : request[r] \in IconRequest /\ IconSound(request[r])
    BY DEF IconsInv, IconsTypeOK
  <1>3. request' \in [IconCall -> IconRequest]
    BY <1>1, <1>2, AdmittedEffect
  <1>4. IconsTypeOK'
    BY <1>1, <1>3 DEF IconsInv, IconsTypeOK
  <1>5. ASSUME NEW r \in IconCall PROVE IconSound(request[r])'
    <2>1. CASE request[r].service \in S /\ ~In(r, "done")
      <3>1. request'[r] = Admitted(request[r])
        BY <1>1, <2>1
      <3>2. /\ request'[r].phase = request[r].phase
            /\ request'[r].code = request[r].code
            /\ request'[r].kind = request[r].kind
            /\ request'[r].service = request[r].service
            /\ request'[r].variant = request[r].variant
            /\ request'[r].kid = request[r].kid
            /\ request'[r].url = request[r].url
            /\ request'[r].image = request[r].image
            /\ request'[r].admitted
        <4>1. request[r] \in IconRequest
          BY <1>2
        <4>2. LET m == Admitted(request[r])
              IN  /\ m.phase = request[r].phase /\ m.code = request[r].code
                  /\ m.kind = request[r].kind /\ m.service = request[r].service
                  /\ m.variant = request[r].variant /\ m.kid = request[r].kid
                  /\ m.url = request[r].url /\ m.image = request[r].image /\ m.admitted
          BY <4>1, AdmittedEffect
        <4>. QED
          BY <3>1, <4>2
      <3>3. IconSound(request[r]) /\ request[r].phase # "done"
        BY <1>2, <2>1 DEF In
      <3>4. AtOwnPhase(request[r])' /\ CarriesOwn(request[r])'
        BY <1>1, <3>2, <3>3 DEF IconSound, AtOwnPhase, CarriesOwn, Origin
      <3>5. PassedTheGate(request[r])'
        BY <3>2, <3>3 DEF IconSound, AtOwnPhase, PassedTheGate
      <3>. QED
        BY <3>4, <3>5 DEF IconSound
    <2>2. CASE ~(request[r].service \in S /\ ~In(r, "done"))
      <3>1. request'[r] = request[r]
        BY <1>1, <2>2
      <3>. QED
        BY <1>1, <1>2, <2>2, <3>1
           DEF In, IconSound, AtOwnPhase, CarriesOwn, PassedTheGate, Origin
    <2>. QED
      BY <2>1, <2>2
  <1>6. \A s \in Iconed : Exists(s)' => url'[s] \in had'[s]
    BY <1>1 DEF IconsInv, Exists
  <1>7. IconIsUploadOrOwnSite'
    BY <1>1 DEF IconsInv, IconIsUploadOrOwnSite, Exists
  <1>. QED
    BY <1>4, <1>5, <1>6, <1>7 DEF IconsInv

LEMMA UploadIsImage ==
  ASSUME NEW usable \in BOOLEAN
  PROVE  Upload(usable) \in Image /\ Upload(usable).from = "upload"
  BY DEF Upload, Image

\* A request arrives at the first phase of its kind, past no gate yet.
LEMMA AskKeeps ==
  ASSUME IconsInv, NEW r \in IconCall, NEW kind \in Kinds, NEW s \in Iconed,
         NEW v \in Variant, NEW kid \in BOOLEAN, Ask(r, kind, s, v, kid)
  PROVE  IconsInv'
  <1>1. PICK image \in IF kind = "upload" THEN {Upload(TRUE), Upload(FALSE)} ELSE {NoImage} :
          To(r, Arrived(kind, s, v, kid, image))
    BY DEF Ask
  <1>2. /\ kind = "fetch" => v = "light"
        /\ UNCHANGED Stored
    BY DEF Ask
  <1>3. image \in Image \cup {NoImage}
    BY <1>1, UploadIsImage
  <1>4. kind = "upload" => image \in Image /\ image.from = "upload"
    BY <1>1, UploadIsImage
  <1>5. kind # "upload" => image = NoImage
    BY <1>1
  <1>6. Arrived(kind, s, v, kid, image) \in IconRequest
    BY <1>3, ArrivedEffect
  <1>7. AtOwnPhase(Arrived(kind, s, v, kid, image))
    BY <1>2, <1>3, ArrivedEffect DEF AtOwnPhase, Kinds
  <1>8. CarriesOwn(Arrived(kind, s, v, kid, image))
    BY <1>3, <1>4, <1>5, ArrivedEffect DEF CarriesOwn, Origin, Kinds
  <1>9. PassedTheGate(Arrived(kind, s, v, kid, image))
    <2>. DEFINE m == Arrived(kind, s, v, kid, image)
    <2>1. /\ m.kind = kind /\ m.service = s /\ m.code = 0
          /\ kind = "read" => m.phase = "visible"
      BY <1>3, ArrivedEffect
    <2>2. m.admitted = (s \in permitted)
      BY <1>3, ArrivedEffect
    <2>. HIDE DEF m
    <2>3. m.service \in permitted => m.admitted
      BY <2>1, <2>2
    <2>4. PassedTheGate(m)
      BY <2>1, <2>3 DEF PassedTheGate
    <2>. QED
      BY <2>4 DEF m
  <1>. QED
    BY <1>1, <1>2, <1>6, <1>7, <1>8, <1>9, RequestMoves DEF IconSound

LEMMA ReadUrlKeeps ==
  ASSUME IconsInv, NEW r \in IconCall, ReadUrl(r)
  PROVE  IconsInv'
  <1>. DEFINE q == request[r]
  <1>1. /\ q \in IconRequest /\ AtOwnPhase(q) /\ CarriesOwn(q) /\ PassedTheGate(q)
        /\ q.phase = "url" /\ UNCHANGED Stored /\ q.service \in Iconed
    BY DEF IconsInv, IconsTypeOK, ReadUrl, In, IconSound, AtOwnPhase
  <1>2. CASE Exists(q.service)
    <2>1. url[q.service] \in had[q.service] /\ url[q.service] \in Url
      BY <1>1, <1>2 DEF IconsInv, IconsTypeOK, Exists
    <2>2. To(r, WithUrl(q, url[q.service]))
      BY <1>2 DEF ReadUrl
    <2>3. WithUrl(q, url[q.service]) \in IconRequest
      BY <1>1, <2>1, WithUrlEffect
    <2>4. AtOwnPhase(WithUrl(q, url[q.service]))
      BY <1>1, <2>1, WithUrlEffect DEF AtOwnPhase
    <2>5. CarriesOwn(WithUrl(q, url[q.service]))
      BY <1>1, <2>1, WithUrlEffect DEF CarriesOwn, AtOwnPhase
    <2>6. PassedTheGate(WithUrl(q, url[q.service]))
      BY <1>1, <2>1, WithUrlEffect DEF PassedTheGate, AtOwnPhase
    <2>. QED
      BY <1>1, <2>2, <2>3, <2>4, <2>5, <2>6, RequestMoves DEF IconSound
  <1>3. CASE ~Exists(q.service)
    BY <1>1, <1>3, Refuses DEF ReadUrl, In
  <1>. QED
    BY <1>2, <1>3

\* A request that only moves on is sound if it may be at the phase it moves to.
LEMMA MovesOn ==
  ASSUME IconsInv, NEW r \in IconCall, NEW phase \in IconPhases,
         Moves(r, phase), UNCHANGED Stored,
         LET q == request[r]
         IN  \/ q.phase = "page" /\ phase \in {"link", "fallback"}
             \/ q.phase = "link" /\ phase = "fallback"
             \/ q.phase = "check" /\ phase = "own" /\ q.image.usable
             \/ q.phase = "own" /\ phase = "write" /\ q.kind # "read"
             \/ q.phase = "own" /\ phase = "read" /\ q.kind = "read"
             \/ q.phase = "visible" /\ phase = "catalog" /\ (q.kid => q.service \in permitted)
             \/ q.phase = "catalog" /\ phase = "own"
  PROVE  IconsInv'
  <1>. DEFINE q == request[r]
  <1>1. q \in IconRequest /\ AtOwnPhase(q) /\ CarriesOwn(q) /\ PassedTheGate(q)
    BY DEF IconsInv, IconsTypeOK, IconSound
  <1>2. MovedTo(q, phase) \in IconRequest
    BY <1>1, MovedToEffect
  <1>3. AtOwnPhase(MovedTo(q, phase))
    BY <1>1, MovedToEffect DEF AtOwnPhase
  <1>4. CarriesOwn(MovedTo(q, phase))
    BY <1>1, MovedToEffect DEF CarriesOwn, AtOwnPhase
  <1>5. PassedTheGate(MovedTo(q, phase))
    BY <1>1, MovedToEffect DEF PassedTheGate, AtOwnPhase
  <1>. QED
    BY <1>2, <1>3, <1>4, <1>5, RequestMoves DEF Moves, IconSound

LEMMA PhasesExist ==
  \A p \in {"link", "fallback", "own", "write", "read", "catalog"} : p \in IconPhases
  BY DEF IconPhases

LEMMA ReadPageKeeps ==
  ASSUME IconsInv, NEW r \in IconCall, ReadPage(r)
  PROVE  IconsInv'
  BY PhasesExist, MovesOn DEF ReadPage, In

LEMMA DownloadKeeps ==
  ASSUME IconsInv, NEW r \in IconCall, Download(r)
  PROVE  IconsInv'
  <1>. DEFINE q == request[r]
  <1>1. /\ q \in IconRequest /\ AtOwnPhase(q) /\ CarriesOwn(q) /\ PassedTheGate(q)
        /\ q.phase \in {"link", "fallback"} /\ UNCHANGED Stored
    BY DEF IconsInv, IconsTypeOK, Download, In, IconSound
  <1>2. ASSUME NEW usable \in BOOLEAN, To(r, Found(q, usable)) PROVE IconsInv'
    <2>1. q.url \in Url /\ q.url \in had[q.service] /\ q.variant = "light"
      BY <1>1 DEF AtOwnPhase, CarriesOwn
    <2>2. Found(q, usable) \in IconRequest
      BY <1>1, <2>1, FoundEffect
    <2>3. AtOwnPhase(Found(q, usable))
      BY <1>1, <2>1, FoundEffect DEF AtOwnPhase
    <2>4. CarriesOwn(Found(q, usable))
      <3>. DEFINE m == Found(q, usable)
      <3>1. /\ m.phase = "check" /\ m.image = [from |-> q.url, usable |-> usable]
            /\ m.image \in Image /\ m.service = q.service /\ m.variant = q.variant
            /\ m.kind = q.kind
        BY <1>1, <2>1, FoundEffect
      <3>2. m.image.from = q.url /\ q.kind = "fetch"
        BY <1>1, <3>1 DEF AtOwnPhase
      <3>. HIDE DEF m
      <3>3. CarriesOwn(m)
        BY <2>1, <3>1, <3>2 DEF CarriesOwn, Origin
      <3>. QED
        BY <3>3 DEF m
    <2>5. PassedTheGate(Found(q, usable))
      BY <1>1, <2>1, FoundEffect DEF PassedTheGate, AtOwnPhase
    <2>. QED
      BY <1>1, <1>2, <2>2, <2>3, <2>4, <2>5, RequestMoves DEF IconSound
  <1>3. CASE In(r, "link") /\ Moves(r, "fallback")
    BY <1>1, <1>3, PhasesExist, MovesOn DEF In
  <1>4. CASE Replies(r, 422)
    BY <1>1, <1>4, Refuses DEF In
  <1>. QED
    BY <1>2, <1>3, <1>4 DEF Download

LEMMA CheckImageKeeps ==
  ASSUME IconsInv, NEW r \in IconCall, CheckImage(r)
  PROVE  IconsInv'
  <1>1. In(r, "check") /\ UNCHANGED Stored
    BY DEF CheckImage
  <1>2. CASE request[r].image.usable
    BY <1>1, <1>2, PhasesExist, MovesOn DEF CheckImage, In
  <1>3. CASE ~request[r].image.usable
    BY <1>1, <1>3, Refuses DEF CheckImage, In
  <1>. QED
    BY <1>2, <1>3

LEMMA CheckOwnedKeeps ==
  ASSUME IconsInv, NEW r \in IconCall, CheckOwned(r)
  PROVE  IconsInv'
  <1>1. In(r, "own") /\ UNCHANGED Stored
    BY DEF CheckOwned
  <1>2. CASE ~Exists(request[r].service)
    BY <1>1, <1>2, Refuses DEF CheckOwned, In
  <1>3. CASE Exists(request[r].service) /\ request[r].kind = "read"
    BY <1>1, <1>3, PhasesExist, MovesOn DEF CheckOwned, In
  <1>4. CASE Exists(request[r].service) /\ request[r].kind # "read"
    BY <1>1, <1>4, PhasesExist, MovesOn DEF CheckOwned, In
  <1>. QED
    BY <1>2, <1>3, <1>4

\* The row written is of a service there is, checked, and its own.
LEMMA WriteIconKeeps ==
  ASSUME IconsInv, NEW r \in IconCall, WriteIcon(r)
  PROVE  IconsInv'
  <1>. DEFINE q == request[r]
  <1>1. /\ q \in IconRequest /\ AtOwnPhase(q) /\ CarriesOwn(q) /\ PassedTheGate(q)
        /\ q.phase = "write" /\ UNCHANGED <<url, permitted, had>>
        /\ q.service \in Iconed /\ q.kind \in {"upload", "fetch", "delete"}
        /\ q.variant \in Variant /\ q.image \in Image \cup {NoImage}
    BY DEF IconsInv, IconsTypeOK, WriteIcon, In, IconSound, AtOwnPhase, IconRequest, Kinds
  <1>2. CASE q.kind # "delete" /\ ~Exists(q.service)
    <2>1. Replies(r, 404) /\ UNCHANGED Stored
      BY <1>1, <1>2 DEF WriteIcon, Stored
    <2>. QED
      BY <1>1, <2>1, Refuses DEF In
  <1>3. CASE ~(q.kind # "delete" /\ ~Exists(q.service))
    <2>1. icon' = [icon EXCEPT ![q.service][q.variant] = q.image]
      BY <1>3 DEF WriteIcon
    <2>2. PICK code \in {200, 204, 500} : Replies(r, code) /\ (code = 200 => q.kind = "fetch")
      BY <1>1, <1>3 DEF WriteIcon
    <2>3. /\ Replied(q, code) \in IconRequest /\ IconSound(Replied(q, code))
          /\ request' = [request EXCEPT ![r] = Replied(q, code)]
      <3>1. code \in IconCodes /\ ~In(r, "free")
        BY <1>1, <2>2, CodesOfReplies DEF In
      <3>. QED
        BY <3>1, <2>2, RepliesSound DEF Replies, To
    <2>4. IconsTypeOK'
      BY <1>1, <2>1, <2>3 DEF IconsInv, IconsTypeOK
    <2>5. \A s \in Iconed : Exists(s)' => url'[s] \in had'[s]
      BY <1>1 DEF IconsInv, Exists
    <2>6. \A s \in Iconed, v \in Variant :
            icon'[s][v] = IF s = q.service /\ v = q.variant THEN q.image ELSE icon[s][v]
      BY <1>1, <2>1 DEF IconsInv, IconsTypeOK
    <2>7. q.image # NoImage =>
            Exists(q.service) /\ q.image.usable /\ Origin(q.image, q.service, q.variant)
      BY <1>1, <1>3 DEF CarriesOwn
    <2>8. IconIsUploadOrOwnSite'
      BY <1>1, <2>6, <2>7 DEF IconsInv, IconIsUploadOrOwnSite, Exists, Origin
    <2>9. ASSUME NEW x \in IconCall PROVE IconSound(request[x])'
      <3>1. request'[x] = (IF x = r THEN Replied(q, code) ELSE request[x])
        BY <2>3 DEF IconsInv, IconsTypeOK
      <3>2. IconSound(request'[x])
        BY <2>3, <3>1 DEF IconsInv
      <3>. QED
        BY <1>1, <3>2 DEF IconSound, AtOwnPhase, CarriesOwn, PassedTheGate, Origin
    <2>. QED
      BY <2>4, <2>5, <2>8, <2>9 DEF IconsInv
  <1>. QED
    BY <1>2, <1>3

\* What a kid is given has passed the gate, and is in the table.
LEMMA ReadIconKeeps ==
  ASSUME IconsInv, NEW r \in IconCall, ReadIcon(r)
  PROVE  IconsInv'
  <1>. DEFINE q == request[r]
             image == icon[q.service][q.variant]
  <1>1. /\ q \in IconRequest /\ AtOwnPhase(q) /\ CarriesOwn(q) /\ PassedTheGate(q)
        /\ UNCHANGED Stored
    BY DEF IconsInv, IconsTypeOK, ReadIcon, IconSound
  <1>2. CASE In(r, "visible") /\ q.kid /\ q.service \notin permitted
    BY <1>1, <1>2, Refuses DEF ReadIcon, In, Visible
  <1>3. CASE In(r, "visible") /\ ~(q.kid /\ q.service \notin permitted)
    <2>1. Moves(r, "catalog")
      BY <1>3 DEF ReadIcon, In, Visible
    <2>. QED
      BY <1>1, <1>3, <2>1, PhasesExist, MovesOn DEF In
  <1>4. CASE In(r, "catalog")
    BY <1>1, <1>4, PhasesExist, MovesOn DEF ReadIcon, In
  <1>5. CASE In(r, "read") /\ image = NoImage
    BY <1>1, <1>5, Refuses DEF ReadIcon, In
  <1>6. CASE In(r, "read") /\ image # NoImage
    <2>1. To(r, Served(q, image))
      BY <1>6 DEF ReadIcon, In
    <2>2. q.service \in Iconed /\ q.variant \in Variant /\ q.kind = "read"
      BY <1>1, <1>6 DEF In, AtOwnPhase, IconRequest
    <2>3. image \in Image /\ image.usable
      BY <1>6, <2>2 DEF IconsInv, IconsTypeOK, IconIsUploadOrOwnSite
    <2>4. PICK m \in IconRequest :
            /\ m = Served(q, image) /\ m.phase = "done" /\ m.code = 200 /\ m.image = image
            /\ m.kind = q.kind /\ m.service = q.service /\ m.variant = q.variant
            /\ m.kid = q.kid /\ m.url = q.url /\ m.admitted = q.admitted
      BY <1>1, <2>3, ServedEffect
    <2>5. AtOwnPhase(m) /\ CarriesOwn(m)
      BY <2>2, <2>4 DEF AtOwnPhase, CarriesOwn
    <2>6. PassedTheGate(m)
      BY <1>1, <1>6, <2>2, <2>3, <2>4 DEF PassedTheGate, In
    <2>. QED
      BY <1>1, <2>1, <2>4, <2>5, <2>6, RequestMoves DEF IconSound
  <1>. QED
    BY <1>2, <1>3, <1>4, <1>5, <1>6 DEF ReadIcon

LEMMA IconFailsKeeps ==
  ASSUME IconsInv, NEW r \in IconCall, IconFails(r)
  PROVE  IconsInv'
  BY Refuses DEF IconFails, In

LEMMA IconsInvKept ==
  ASSUME IconsInv, [IconsNext]_iconsVars
  PROVE  IconsInv'
  <1>1. CASE UNCHANGED iconsVars
    <2>1. UNCHANGED <<url, icon, permitted, had, request>>
      BY <1>1 DEF iconsVars
    <2>2. IconsTypeOK' /\ IconIsUploadOrOwnSite'
      BY <2>1 DEF IconsInv, IconsTypeOK, IconIsUploadOrOwnSite, Exists
    <2>3. \A r \in IconCall : IconSound(request[r])'
      BY <2>1 DEF IconsInv, IconSound, AtOwnPhase, CarriesOwn, PassedTheGate, Origin
    <2>. QED
      BY <2>1, <2>2, <2>3 DEF IconsInv, Exists
  <1>2. CASE IconsNext
    BY <1>2, EditUrlKeeps, DeleteIconedKeeps, AllowKeeps, AskKeeps, ReadUrlKeeps,
       ReadPageKeeps, DownloadKeeps, CheckImageKeeps, CheckOwnedKeeps, WriteIconKeeps,
       ReadIconKeeps, IconFailsKeeps
       DEF IconsNext
  <1>. QED
    BY <1>1, <1>2

\* The invariant from which the promises of the icons follow.
THEOREM IconsInvariant == IconsSpec => []IconsInv
  BY IconsInvInit, IconsInvKept, PTL DEF IconsSpec

\* Every variable of the icons always stays in its type.
THEOREM IconsAlwaysTyped == IconsSpec => []IconsTypeOK
  <1>1. IconsInv => IconsTypeOK
    BY DEF IconsInv
  <1>. QED
    BY <1>1, IconsInvariant, PTL

\* However uploads, fetches, deletions and edits of URLs overlap (handleUpload-
\* Icon, handleFetchIcon, Store.PutIcon), an icon is a usable PNG, of a service
\* there is, and an admin's upload or from a URL the service has had.
THEOREM AlwaysUploadOrOwnSite == IconsSpec => []IconIsUploadOrOwnSite
  <1>1. IconsInv => IconIsUploadOrOwnSite
    BY DEF IconsInv
  <1>. QED
    BY <1>1, IconsInvariant, PTL

\* An icon a kid was given (handleGetIcon) is that of a service it was permitted
\* at some moment of the request.
THEOREM IconReadsAlwaysAllowed == IconsSpec => []IconReadWasAllowed
  <1>1. IconsInv => IconReadWasAllowed
    BY DEF IconsInv, IconSound, PassedTheGate, IconReadWasAllowed
  <1>. QED
    BY <1>1, IconsInvariant, PTL
=============================================================================
