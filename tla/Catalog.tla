------------------------------ MODULE Catalog ------------------------------
(***************************************************************************)
(* The shared catalog (internal/api: services.go, categories.go,           *)
(* favorites.go, kids.go; internal/storage: storage.go, categories.go,     *)
(* kids.go): services and categories that admins edit, and the kid's view  *)
(* of them through its allow-list.  Handlers run concurrently, one SQL     *)
(* statement per step; replacing the allow-list is atomic (WholeSetPut).   *)
(* Adults are never filtered, so only a kid's reads are modelled.          *)
(***************************************************************************)
EXTENDS Integers

CONSTANTS
  Admin, First,        \* the admins; the first, SharedCatalogOwnerID
  Service, Category,   \* ids a run can mint
  Name,                \* slugs of services, names of categories
  Request,             \* slots for handlers of several statements
  None, Keep,          \* NULL or "no such row"; a field a PATCH leaves out
  Faults               \* may a statement fail?

ASSUME CatalogAssumption ==
  /\ First \in Admin
  /\ None \notin Admin \cup Category \cup Name
  /\ Keep \notin Category \cup Name \cup {None}
  /\ Faults \in BOOLEAN

ServiceRow == [owner : Admin, slug : Name, category : Category \cup {None}]
CategoryRow == [owner : Admin, name : Name, width : {3, 4, 6, 12}]
ASSUME RowAssumption == None \notin ServiceRow \cup CategoryRow

VARIABLES
  service, category,   \* rows by id, or None
  minted,              \* ids used so far; gen_random_uuid never repeats one
  allowed,             \* the kid's allow-list
  favorite,            \* the kid's favorites
  req

catalogVars == <<service, category, minted, allowed, favorite, req>>

Ops == {"updateService", "updateCategory", "list", "categories",
        "favorite", "unfavorite"}
Steps == {"free", "check", "update", "rename", "width",
          "cats", "visible", "again", "list", "favorite", "unfavorite", "done"}

Codes == {0, 200, 404, 409, 500}
Parts == {"name", "width"}

\* What a handler holds, what it has answered with (a category with the service
\* it is shown for), and as a history everything the allow-list held while it ran
\* and, of a category's PATCH, what it applied.
Handler ==
  [step : Steps, op : Ops, by : Admin, id : Service \cup Category \cup {None},
   slug : Name \cup {Keep}, to : Category \cup {None, Keep}, width : {4, Keep},
   cats : SUBSET Category, vis : SUBSET Service, seen : SUBSET Service,
   seenCats : SUBSET (Service \X Category), window : SUBSET Service,
   code : Codes, did : SUBSET Parts]

Free == [step |-> "free", op |-> "list", by |-> First, id |-> None,
         slug |-> Keep, to |-> Keep, width |-> Keep,
         cats |-> {}, vis |-> {}, seen |-> {}, seenCats |-> {}, window |-> {},
         code |-> 0, did |-> {}]

Services == {s \in Service : service[s] # None}
Categories == {c \in Category : category[c] # None}
Shared == {s \in Services : service[s].owner = First}
OwnsService(a, s) == s \in Services /\ service[s].owner = a
OwnsCategory(a, c) == c \in Categories /\ category[c].owner = a
SlugTaken(a, n, s) == \E x \in Services \ {s} : OwnsService(a, x) /\ service[x].slug = n
NameTaken(a, n, c) == \E x \in Categories \ {c} : OwnsCategory(a, x) /\ category[x].name = n

At(r, step) == req[r].step = step
Becomes(r, q) == req' = [req EXCEPT ![r] = q]
AtStep(q, step) == [q EXCEPT !.step = step]
Goto(r, step) == Becomes(r, AtStep(req[r], step))

\* The requests, each knowing what the allow-list held while it ran.
Watched(q, now) == [q EXCEPT !.window = @ \cup now]
Watch(now) == [r \in Request |-> IF At(r, "free") THEN req[r] ELSE Watched(req[r], now)]

CatalogInit ==
  /\ service = [s \in Service |-> None]
  /\ category = [c \in Category |-> None]
  /\ minted = {} /\ allowed = {} /\ favorite = {}
  /\ req = [r \in Request |-> Free]

-----------------------------------------------------------------------------
(* Handlers of one statement (requireAdmin apart)                          *)

NewService(a, n) == [owner |-> a, slug |-> n, category |-> None]
NewCategory(a, n) == [owner |-> a, name |-> n, width |-> 6]

CreateService(a, s, n) ==
  /\ s \notin minted /\ ~SlugTaken(a, n, s)          \* 409 otherwise
  /\ service' = [service EXCEPT ![s] = NewService(a, n)]
  /\ minted' = minted \cup {s}
  /\ UNCHANGED <<category, allowed, favorite, req>>

\* Favorites and allow-list entries cascade.
DeleteService(a, s) ==
  /\ OwnsService(a, s)                               \* 404 otherwise
  /\ service' = [service EXCEPT ![s] = None]
  /\ allowed' = allowed \ {s}
  /\ favorite' = favorite \ {s}
  /\ UNCHANGED <<category, minted, req>>

CreateCategory(a, c, n) ==
  /\ c \notin minted /\ ~NameTaken(a, n, c)
  /\ category' = [category EXCEPT ![c] = NewCategory(a, n)]
  /\ minted' = minted \cup {c}
  /\ UNCHANGED <<service, allowed, favorite, req>>

\* ON DELETE SET NULL.
OutOfCategory(row) == [row EXCEPT !.category = None]
Uncategorized(c) ==
  [s \in Service |-> IF s \in Services /\ service[s].category = c
                     THEN OutOfCategory(service[s]) ELSE service[s]]

DeleteCategory(a, c) ==
  /\ OwnsCategory(a, c)                              \* no effect otherwise
  /\ service' = Uncategorized(c)
  /\ category' = [category EXCEPT ![c] = None]
  /\ UNCHANGED <<minted, allowed, favorite, req>>

\* SetKidServices counts the ids among the shared owner's services.
Allowable == Shared

SetKidServices(ids) ==
  /\ ids \subseteq Allowable                         \* 400 otherwise
  /\ allowed' = ids
  /\ req' = Watch(ids)
  /\ UNCHANGED <<service, category, minted, favorite>>

-----------------------------------------------------------------------------
(* PATCH /api/services/{id}: the category is checked, then the row written *)

\* Mutant of CategoryChecked: the foreign key is left to refuse it.
CategoryCheckedByKey(a, c) == TRUE

CategoryChecked(a, c) == OwnsCategory(a, c)

PatchingService(a, s, n, c) ==
  [Free EXCEPT !.op = "updateService", !.by = a, !.id = s, !.slug = n, !.to = c,
               !.step = IF c \in Category THEN "check" ELSE "update"]

UpdateService(r, a, s, n, c) ==
  /\ At(r, "free")
  /\ Becomes(r, PatchingService(a, s, n, c))
  /\ UNCHANGED <<service, category, minted, allowed, favorite>>

CheckCategory(r) ==
  /\ At(r, "check")
  /\ Goto(r, IF CategoryChecked(req[r].by, req[r].to) THEN "update" ELSE "done")
  /\ UNCHANGED <<service, category, minted, allowed, favorite>>

\* Mutant of Patched: a field left out overwrites what was stored.
PatchedVerbatim(old, new) == new

\* An omitted field keeps its value.
Patched(old, new) == IF new = Keep THEN old ELSE new

Rewritten(row, n, c) ==
  [row EXCEPT !.slug = Patched(@, n), !.category = Patched(@, c)]

\* 404, 409, or a category deleted since the check (the key refuses it: 500).
WriteService(r) ==
  /\ At(r, "update")
  /\ LET q == req[r]
         ok == /\ OwnsService(q.by, q.id)
               /\ q.slug # Keep => ~SlugTaken(q.by, q.slug, q.id)
               /\ q.to \in Category => q.to \in Categories
     IN  service' = IF ~ok THEN service
                    ELSE [service EXCEPT ![q.id] = Rewritten(@, q.slug, q.to)]
  /\ Goto(r, "done")
  /\ UNCHANGED <<category, minted, allowed, favorite>>

-----------------------------------------------------------------------------
(* PATCH /api/categories/{id}: rename, then set the width                  *)

PatchingCategory(a, c, n, w) ==
  [Free EXCEPT !.op = "updateCategory", !.by = a, !.id = c, !.slug = n, !.width = w,
               !.step = IF n # Keep THEN "rename" ELSE "width"]
Renamed(row, n) == [row EXCEPT !.name = n]
Widened(row, w) == [row EXCEPT !.width = w]

UpdateCategory(r, a, c, n, w) ==
  /\ At(r, "free") /\ (n # Keep \/ w # Keep)
  /\ Becomes(r, PatchingCategory(a, c, n, w))
  /\ UNCHANGED <<service, category, minted, allowed, favorite>>

\* What came of a statement, what has been written by then, what is next.
Applied(q, did, code, next) == [q EXCEPT !.did = did, !.code = code, !.step = next]

RenameCode(q) ==
  IF ~OwnsCategory(q.by, q.id) THEN 404
  ELSE IF NameTaken(q.by, q.slug, q.id) THEN 409 ELSE 200

RenameCategory(r) ==
  /\ At(r, "rename")
  /\ LET q == req[r]
         next == IF q.width # Keep THEN "width" ELSE "done"
     IN  IF RenameCode(q) = 200
         THEN /\ category' = [category EXCEPT ![q.id] = Renamed(@, q.slug)]
              /\ Becomes(r, Applied(q, {"name"}, 200, next))
         ELSE Becomes(r, Applied(q, {}, RenameCode(q), "done")) /\ UNCHANGED category
  /\ UNCHANGED <<service, minted, allowed, favorite>>

\* Mutant of WidthCode: no row updated is no error.
WidthCodeUnread(q) == 200

WidthCode(q) == IF OwnsCategory(q.by, q.id) THEN 200 ELSE 404

SetCategoryWidth(r) ==
  /\ At(r, "width")
  /\ LET q == req[r]
     IN  IF OwnsCategory(q.by, q.id)
         THEN /\ category' = [category EXCEPT ![q.id] = Widened(@, q.width)]
              /\ Becomes(r, Applied(q, q.did \cup {"width"}, WidthCode(q), "done"))
         ELSE Becomes(r, Applied(q, q.did, WidthCode(q), "done")) /\ UNCHANGED category
  /\ UNCHANGED <<service, minted, allowed, favorite>>

-----------------------------------------------------------------------------
(* The kid's handlers: every one goes through VisibleServiceIDs            *)

KidAsking(op, s) ==
  [Free EXCEPT !.op = op, !.id = s, !.window = allowed,
               !.step = IF op = "categories" THEN "cats" ELSE "visible"]

KidRequest(r, op, s) ==
  /\ At(r, "free")
  /\ op \in {"list", "categories"} <=> s = None
  /\ Becomes(r, KidAsking(op, s))
  /\ UNCHANGED <<service, category, minted, allowed, favorite>>

WithCategories(q, cats) == [q EXCEPT !.step = "visible", !.cats = cats]

\* ListCategories of the shared owner, unfiltered.
ReadCategories(r) ==
  /\ At(r, "cats")
  /\ Becomes(r, WithCategories(req[r], {c \in Categories : OwnsCategory(First, c)}))
  /\ UNCHANGED <<service, category, minted, allowed, favorite>>

AfterVisible(q) ==
  CASE q.op = "list" -> "list"
    [] q.op = "categories" -> IF q.step = "visible" THEN "again" ELSE "list"
    [] q.op \notin {"list", "categories"} -> IF q.id \in q.vis THEN q.op ELSE "done"

\* Mutant of Visibles: an error reads as nil, and nil allows everything.
VisiblesFailOpen == {allowed} \cup (IF Faults THEN {Service} ELSE {})

\* What VisibleServiceIDs may return when it does not fail.
Visibles == {allowed}

WithVisible(q, vis) == [q EXCEPT !.vis = vis]

\* visibleServices; GET /api/categories asks twice and keeps the second.
ReadVisible(r) ==
  /\ At(r, "visible") \/ At(r, "again")
  /\ \E vis \in Visibles :
       LET q == WithVisible(req[r], vis) IN Becomes(r, AtStep(q, AfterVisible(q)))
  /\ UNCHANGED <<service, category, minted, allowed, favorite>>

ShownServices(q, seen) == [q EXCEPT !.step = "done", !.seen = seen]
ShownCategories(q, shown) == [q EXCEPT !.step = "done", !.seenCats = shown]

\* ListServices of the shared owner, filtered by what was visible.
ReadServices(r) ==
  /\ At(r, "list")
  /\ LET q == req[r]
         seen == Shared \cap q.vis
         shown == {<<s, service[s].category>> :
                     s \in {x \in seen : service[x].category \in q.cats}}
     IN  Becomes(r, IF q.op = "list" THEN ShownServices(q, seen)
                    ELSE ShownCategories(q, shown))
  /\ UNCHANGED <<service, category, minted, allowed, favorite>>

\* The service may be gone by now: the foreign key makes that a 404.
WriteFavorite(r) ==
  /\ At(r, "favorite") \/ At(r, "unfavorite")
  /\ LET q == req[r]
     IN  favorite' = IF At(r, "unfavorite") THEN favorite \ {q.id}
                     ELSE favorite \cup ({q.id} \cap Services)
  /\ Goto(r, "done")
  /\ UNCHANGED <<service, category, minted, allowed>>

-----------------------------------------------------------------------------
Failed(q) == Applied(q, q.did, 500, "done")

\* A statement fails: 500, and nothing more is done.
StatementFails(r) ==
  /\ Faults
  /\ ~At(r, "free") /\ ~At(r, "done")
  /\ Becomes(r, Failed(req[r]))
  /\ UNCHANGED <<service, category, minted, allowed, favorite>>

Answered(r) ==
  /\ At(r, "done")
  /\ Becomes(r, Free)
  /\ UNCHANGED <<service, category, minted, allowed, favorite>>

CatalogNext ==
  \/ \E a \in Admin :
       \/ \E s \in Service : \/ \E n \in Name : CreateService(a, s, n)
                             \/ DeleteService(a, s)
       \/ \E c \in Category : \/ \E n \in Name : CreateCategory(a, c, n)
                              \/ DeleteCategory(a, c)
  \/ \E ids \in SUBSET Service : SetKidServices(ids)
  \/ \E r \in Request :
       \/ \E a \in Admin, n \in Name \cup {Keep} :
            \/ \E s \in Service, c \in Category \cup {None, Keep} :
                 UpdateService(r, a, s, n, c)
            \/ \E c \in Category, w \in {4, Keep} : UpdateCategory(r, a, c, n, w)
       \/ \E op \in Ops, s \in Service \cup {None} :
            op \notin {"updateService", "updateCategory"} /\ KidRequest(r, op, s)
       \/ CheckCategory(r) \/ WriteService(r)
       \/ RenameCategory(r) \/ SetCategoryWidth(r)
       \/ ReadCategories(r) \/ ReadVisible(r) \/ ReadServices(r) \/ WriteFavorite(r)
       \/ StatementFails(r) \/ Answered(r)

CatalogSpec == CatalogInit /\ [][CatalogNext]_catalogVars

-----------------------------------------------------------------------------
\* Every variable stays in its type.
CatalogTypeOK ==
  /\ service \in [Service -> ServiceRow \cup {None}]
  /\ category \in [Category -> CategoryRow \cup {None}]
  /\ minted \subseteq Service \cup Category
  /\ allowed \subseteq Service /\ favorite \subseteq Service
  /\ req \in [Request -> Handler]

\* A service is in a category of its own owner or in none, though the check
\* and the write are two statements and the category may go in between.
CategoryOfOwner ==
  \A s \in Services : service[s].category # None =>
    OwnsCategory(service[s].owner, service[s].category)

\* What a kid is shown was on its allow-list at some moment of the request,
\* and each category it is shown held, when read, a service that was -- whatever
\* admins change meanwhile, and whichever statement fails.
KidSeesAllowed ==
  \A r \in Request : At(r, "done") =>
    /\ req[r].seen \subseteq req[r].window
    /\ \A shown \in req[r].seenCats : shown[1] \in req[r].window

\* A favorite is added only for a service that exists and was allowed at some
\* moment of the request that added it.
FavoritesWereAllowed ==
  [][\A s \in favorite' \ favorite :
       s \in Services /\ \E r \in Request : s \in req[r].window]_catalogVars

AskedParts(q) == (IF q.slug # Keep THEN {"name"} ELSE {})
                   \cup (IF q.width # Keep THEN {"width"} ELSE {})

\* A PATCH of a category is two statements without a transaction: 200 is given
\* when it applied all that was asked, and only then; 409 when nothing; 404
\* when nothing too, or of a category that was deleted in between.  A name
\* without its width is left behind by a failure alone.
CategoryPatchIsHonest ==
  \A r \in Request : At(r, "done") /\ req[r].op = "updateCategory" =>
    LET q == req[r]
    IN  /\ q.code = 200 <=> q.did = AskedParts(q)
        /\ q.code \in {404, 409} /\ q.did # {} =>
             q.code = 404 /\ q.id \notin Categories

-----------------------------------------------------------------------------
\* handleCreateService says the new row is "owned by the acting admin (the
\* shared-catalog owner)": every service an admin created is in the catalog.
CreatedIsShared == Services = Shared
=============================================================================
