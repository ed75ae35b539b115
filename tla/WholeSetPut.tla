---------------------------- MODULE WholeSetPut ----------------------------
(***************************************************************************)
(* The PUTs of a whole set or order.  Three replace rows: a user's layout  *)
(* (SetLayout), a user's collapsed categories (SetCollapsedCategories) and *)
(* a kid's allow-list (SetKidServices) are each a transaction that deletes *)
(* the owner's rows and inserts the new ones.  Two renumber rows: the      *)
(* order of the categories (SetCategoryOrder) and of the App Library       *)
(* (SetLibraryOrder) are one UPDATE per id; here the rows are the items    *)
(* themselves.  PUTs for one owner overlap with each other and with the    *)
(* deletion of the things the rows refer to or are.                        *)
(* PostgreSQL is external: READ COMMITTED, row locks, unique and foreign   *)
(* keys, the deadlock detector.                                            *)
(***************************************************************************)
EXTENDS Integers, Sequences, FiniteSets

CONSTANTS
  Tables,     \* which of the PUTs a run exercises
  Item,       \* services; categories for "collapsed"; either order's rows
  Owner,      \* the user or kid whose rows they are
  Put,        \* the PUTs of a run, each sent once
  Before,     \* whoever wrote the rows there are at first
  MinLen, MaxLen,  \* bounds on the length of a PUT's list
  MaxDeletes       \* bound on the deletions of a run

ASSUME PutAssumption ==
  /\ Tables # {} /\ Tables \subseteq {"layout", "collapsed", "allow", "order"}
  /\ Owner \notin Item /\ (Item \cup {Owner, Before}) \cap Put = {}
  /\ MinLen \in Nat /\ MaxLen \in Nat /\ MaxDeletes \in Nat

Target == Item \cup {Owner}      \* what a concurrent DELETE may hit

ListsOf(lengths) == UNION {[1..n -> Item] : n \in lengths}
Order == ListsOf(MinLen..MaxLen)

\* A row version: the item, its sort_index (0 where there is none), its writer.
Row == [item : Item, pos : Nat, by : Put \cup {Before}]

VARIABLES
  table,      \* which PUT: those of a behaviour are all of a kind
  rows,       \* committed rows of the owner
  gone,       \* targets deleted and committed
  deleting,   \* targets locked by a DELETE that has not cascaded yet
  put,        \* put[t]: the transaction of PUT t
  wanted      \* history: item -> position the last committed PUT gave it

putVars == <<table, rows, gone, deleting, put, wanted>>

Phases == {"idle", "lock", "snapshot", "delete", "select", "insert",
           "update", "done"}

PutCodes == {0, 204, 400, 404, 500}

\* A transaction: its list, the rows its DELETE will touch and those it has
\* touched, the rows it wrote, the ids it has still to write, its answer; as a
\* history, the PUTs answered before it was sent.
Transaction ==
  [phase : Phases, order : Seq(Item), snap : SUBSET Row, dead : SUBSET Row,
   mine : SUBSET Row, todo : Seq(Item), code : PutCodes, earlier : SUBSET Put]

Unsent == [phase |-> "idle", order |-> <<>>, snap |-> {}, dead |-> {},
           mine |-> {}, todo |-> <<>>, code |-> 0, earlier |-> {}]

InPhase(t, phase) == put[t].phase = phase
Active(t) == ~InPhase(t, "idle") /\ ~InPhase(t, "done")
Others(t) == Put \ {t}
Items(S) == {r.item : r \in S}
Members(order) == {order[i] : i \in DOMAIN order}

\* The locks a transaction holds on parent rows: FOR UPDATE on the kid, and
\* KEY SHARE from the foreign keys of the rows it inserted.
OwnerLocked(t) == table = "allow" /\ Active(t) /\ ~InPhase(t, "lock")
Shares(t) == Items(put[t].mine) \cup (IF put[t].mine # {} THEN {Owner} ELSE {})

Change(t, p) == put' = [put EXCEPT ![t] = p]

\* Mutant of Ended: an early return that forgets the deferred rollback.
EndedKeepsLocks(q, code) ==
  [Unsent EXCEPT !.phase = "done", !.order = q.order, !.code = code,
                 !.earlier = q.earlier,
                 !.mine = IF code = 204 THEN {} ELSE q.mine,
                 !.dead = IF code = 204 THEN {} ELSE q.dead]

\* Whatever the transaction had done is gone, and so are its locks.
Ended(q, code) == [Unsent EXCEPT !.phase = "done", !.order = q.order, !.code = code,
                                 !.earlier = q.earlier]

Fail(t, code) == Change(t, Ended(put[t], code)) /\ UNCHANGED <<rows, wanted>>

Last(S) == CHOOSE i \in S : \A j \in S : j <= i
Distinct(order) == \A i, j \in DOMAIN order : order[i] = order[j] => i = j

Positioned == table \in {"layout", "order"}

\* The item -> position map an order asks for; of a repeated id, the last.
Positions(order) ==
  [x \in Members(order) |->
     IF Positioned THEN Last({i \in DOMAIN order : order[i] = x}) - 1 ELSE 0]

PutInit ==
  /\ table \in Tables
  /\ \E order \in {o \in Order : Distinct(o)} :
       /\ table = "order" => Members(order) = Item
       /\ wanted = Positions(order)
       /\ rows = {[item |-> x, pos |-> wanted[x], by |-> Before] : x \in Members(order)}
  /\ gone = {} /\ deleting = {}
  /\ put = [t \in Put |-> Unsent]

-----------------------------------------------------------------------------
(* The statements, in order.  A statement that must wait is not enabled.   *)

FirstPhase == CASE table = "allow" -> "lock"
                [] table = "order" -> "update"
                [] table \in {"layout", "collapsed"} -> "snapshot"

Begun(order) ==
  [Unsent EXCEPT !.phase = FirstPhase, !.order = order,
                 !.todo = IF table = "order" THEN order ELSE <<>>,
                 !.earlier = {u \in Put : InPhase(u, "done")}]

Send(t, order) ==
  /\ InPhase(t, "idle")
  /\ Change(t, Begun(order))
  /\ UNCHANGED <<table, rows, gone, deleting, wanted>>

\* Mutant of LockWaits: SELECT 1 without FOR UPDATE.
LockWaitsNever(t) == {}

LockWaits(t) == {q \in Others(t) : OwnerLocked(q)} \cup (deleting \cap {Owner})

Locked(q) == [q EXCEPT !.phase = "snapshot"]

\* SetKidServices: SELECT ... FOR UPDATE on the kid, then every id must name
\* a service of the shared catalog.
LockOwner(t) ==
  /\ InPhase(t, "lock") /\ LockWaits(t) = {}
  /\ IF Owner \in gone THEN Fail(t, 404)
     ELSE IF Members(put[t].order) \cap gone # {} THEN Fail(t, 400)
     ELSE Change(t, Locked(put[t])) /\ UNCHANGED <<rows, wanted>>
  /\ UNCHANGED <<table, gone, deleting>>

Snapped(q) == [q EXCEPT !.phase = "delete", !.snap = rows]

\* DELETE ... WHERE user_id starts: it will touch the rows committed by now.
StartDelete(t) ==
  /\ InPhase(t, "snapshot")
  /\ Change(t, Snapped(put[t]))
  /\ UNCHANGED <<table, rows, gone, deleting, wanted>>

DeleteWaits(t) == {q \in Others(t) : put[q].dead \cap put[t].snap # {}}

\* Mutant of Emptied: a layout deletes only what it is about to write again.
EmptiedOfListed(q) ==
  [q EXCEPT !.phase = IF table = "layout" THEN "insert" ELSE "select",
            !.dead = {r \in q.snap \cap rows : table = "layout" => r.item \in Members(q.order)},
            !.todo = q.order]

Emptied(q) ==
  [q EXCEPT !.phase = IF table = "layout" THEN "insert" ELSE "select",
            !.dead = q.snap \cap rows, !.todo = q.order]

\* ... and deletes those that are still there when nobody else is at them.
DeleteRows(t) ==
  /\ InPhase(t, "delete") /\ DeleteWaits(t) = {}
  /\ Change(t, Emptied(put[t]))
  /\ UNCHANGED <<table, rows, gone, deleting, wanted>>

Selected(q, todo) == [q EXCEPT !.phase = "insert", !.todo = todo]

\* INSERT ... SELECT takes the ids that name a live row, each once, in the
\* order the scan finds them.
SelectLive(t) ==
  /\ InPhase(t, "select")
  /\ \E todo \in {o \in ListsOf(0..MaxLen) : Distinct(o)} :
       /\ Members(todo) = Members(put[t].order) \ gone
       /\ Change(t, Selected(put[t], todo))
  /\ UNCHANGED <<table, rows, gone, deleting, wanted>>

Next1(t) == Head(put[t].todo)

\* Mutant of Position: counts from the end of the list.
PositionFromEnd(t) == Len(put[t].todo) - Len(put[t].order)

Position(t) == IF Positioned
               THEN Len(put[t].order) - Len(put[t].todo) ELSE 0

\* The row that is next, and a transaction that has written it: an UPDATE over
\* what it wrote of that row before.  ON CONFLICT DO NOTHING passes it over.
NextRow(t) == [item |-> Next1(t), pos |-> Position(t), by |-> t]
Wrote(q, row) == [q EXCEPT !.todo = Tail(@),
                           !.mine = {r \in @ : r.item # row.item} \cup {row}]
Passed(q) == [q EXCEPT !.todo = Tail(@)]

\* The unique key waits for whoever is inserting or deleting that row; the
\* foreign keys for whoever is deleting what it refers to.
InsertWaits(t) ==
  {q \in Others(t) : Next1(t) \in Items(put[q].mine) \cup Items(put[q].dead)}
    \cup {x \in deleting : x = Next1(t) \/ (x = Owner /\ put[t].mine = {})}

InsertRow(t) ==
  /\ InPhase(t, "insert") /\ put[t].todo # <<>> /\ InsertWaits(t) = {}
  /\ LET taken == Next1(t) \in Items((rows \ put[t].dead) \cup put[t].mine)
     IN  IF Next1(t) \in gone \/ Owner \in gone
         THEN Fail(t, IF table = "layout" THEN 404 ELSE 500)
         ELSE IF taken /\ table # "collapsed" THEN Fail(t, 500)
         ELSE /\ Change(t, IF taken THEN Passed(put[t]) ELSE Wrote(put[t], NextRow(t)))
              /\ UNCHANGED <<rows, wanted>>
  /\ UNCHANGED <<table, gone, deleting>>

\* An UPDATE waits for whoever has updated the row, or is deleting it.
UpdateWaits(t) ==
  {q \in Others(t) : Next1(t) \in Items(put[q].mine)} \cup (deleting \cap {Next1(t)})

\* SetCategoryOrder, SetLibraryOrder: UPDATE ... SET sort_index WHERE id; no
\* row, no order.
UpdateRow(t) ==
  /\ InPhase(t, "update") /\ put[t].todo # <<>> /\ UpdateWaits(t) = {}
  /\ IF Next1(t) \in gone THEN Fail(t, 404)
     ELSE /\ Change(t, Wrote(put[t], NextRow(t)))
          /\ UNCHANGED <<rows, wanted>>
  /\ UNCHANGED <<table, gone, deleting>>

\* What the transaction leaves of the rows committed before it.
Kept(t) == IF table = "order" THEN {r \in rows : r.item \notin Items(put[t].mine)}
           ELSE rows \ put[t].dead

\* A renumbering leaves the rows it does not list where they are.
Commit(t) ==
  /\ InPhase(t, "insert") \/ InPhase(t, "update")
  /\ put[t].todo = <<>>
  /\ rows' = Kept(t) \cup put[t].mine
  /\ wanted' = LET asked == Positions(put[t].order)
               IN  IF table = "order"
                   THEN [x \in DOMAIN wanted \cup DOMAIN asked |->
                           IF x \in DOMAIN asked THEN asked[x] ELSE wanted[x]]
                   ELSE asked
  /\ Change(t, Ended(put[t], 204))
  /\ UNCHANGED <<table, gone, deleting>>

\* The client goes away or the connection breaks: the deferred Rollback.
Abort(t) ==
  /\ Active(t)
  /\ Fail(t, 500)
  /\ UNCHANGED <<table, gone, deleting>>

-----------------------------------------------------------------------------
(* DELETE of a service, a category, an offer or a kid: one statement that  *)
(* locks its row, cascades into the owner's rows and commits.  The owner   *)
(* of an order is an admin, whom nothing deletes.                          *)

LockTarget(x) ==
  /\ x \notin gone \cup deleting /\ ~(table = "order" /\ x = Owner)
  /\ Cardinality(gone \cup deleting) < MaxDeletes
  /\ \A t \in Put : x \notin Shares(t) /\ ~(x = Owner /\ OwnerLocked(t))
  /\ deleting' = deleting \cup {x}
  /\ UNCHANGED <<table, rows, gone, put, wanted>>

Refers(S, x) == {r \in S : x \in {r.item, Owner}}
CascadeWaits(x) == {t \in Put : Refers(put[t].dead, x) # {}}

\* Mutant of Cascade: the foreign key has no ON DELETE CASCADE, nor a check.
CascadeNothing(x) ==
  /\ x \in deleting /\ CascadeWaits(x) = {}
  /\ gone' = gone \cup {x}
  /\ deleting' = deleting \ {x}
  /\ UNCHANGED <<table, rows, put, wanted>>

Cascade(x) ==
  /\ x \in deleting /\ CascadeWaits(x) = {}
  /\ rows' = rows \ Refers(rows, x)
  /\ gone' = gone \cup {x}
  /\ deleting' = deleting \ {x}
  /\ UNCHANGED <<table, put, wanted>>

-----------------------------------------------------------------------------
(* The deadlock detector: in a set whose members all wait for one another, *)
(* a victim is rolled back.                                                *)

WaitsFor(a) ==
  IF a \in Put
  THEN CASE InPhase(a, "lock") -> LockWaits(a)
         [] InPhase(a, "delete") -> DeleteWaits(a)
         [] InPhase(a, "insert") /\ put[a].todo # <<>> -> InsertWaits(a)
         [] InPhase(a, "update") /\ put[a].todo # <<>> -> UpdateWaits(a)
         [] OTHER -> {}
  ELSE IF a \in deleting THEN CascadeWaits(a) ELSE {}

Deadlocked(S) == \A a \in S : WaitsFor(a) \cap S # {}

DeadlockVictim(a) ==
  /\ \E S \in SUBSET (Put \cup Target) : a \in S /\ Deadlocked(S)
  /\ IF a \in Put THEN Fail(a, 500) /\ UNCHANGED deleting
     ELSE deleting' = deleting \ {a} /\ UNCHANGED <<rows, put, wanted>>
  /\ UNCHANGED <<table, gone>>

Statement(t) ==
  \/ LockOwner(t) \/ StartDelete(t) \/ DeleteRows(t) \/ SelectLive(t)
  \/ InsertRow(t) \/ UpdateRow(t) \/ Commit(t)

AllAnswered == (\A t \in Put : InPhase(t, "done")) /\ UNCHANGED putVars

PutNext ==
  \/ \E t \in Put : \/ \E order \in Order : Send(t, order)
                    \/ Statement(t) \/ Abort(t)
  \/ \E x \in Target : LockTarget(x) \/ Cascade(x)
  \/ \E a \in Put \cup Target : DeadlockVictim(a)
  \/ AllAnswered

PutSpec == PutInit /\ [][PutNext]_putVars

\* The server runs every transaction it has begun, grants a contended lock to
\* those who queue for it (strong fairness), and looks for deadlocks.
PutFairSpec ==
  /\ PutSpec
  /\ \A t \in Put : SF_putVars(Statement(t))
  /\ \A x \in Target : WF_putVars(Cascade(x))
  /\ \A a \in Put \cup Target : WF_putVars(DeadlockVictim(a))

-----------------------------------------------------------------------------
\* Every variable stays in its type.
PutTypeOK ==
  /\ table \in Tables
  /\ rows \subseteq Row
  /\ gone \subseteq Target /\ deleting \subseteq Target
  /\ put \in [Put -> Transaction]
  /\ DOMAIN wanted \subseteq Item

\* "The swap runs in one transaction so a failure leaves the prior order
\* intact": what readers see changes with an accepted PUT or a deletion only.
FailureKeepsPriorSet ==
  [][rows' # rows =>
       gone' # gone \/ \E t \in Put : Active(t) /\ put'[t].code = 204]_putVars

\* No row outlives what it refers to, however the deletion and the PUTs that
\* name it overlap.
NoGhostRows == \A r \in rows : {r.item, Owner} \cap gone = {}

\* Every PUT that was sent is answered, even when it waits in a cycle with
\* another PUT or with a deletion.
PutsAreAnswered == \A t \in Put : Active(t) ~> InPhase(t, "done")

Replaced ==
  {<<r.item, r.pos>> : r \in rows} =
    {<<x, wanted[x]>> : x \in {y \in DOMAIN wanted : {y, Owner} \cap gone = {}}}

\* SetKidServices takes the kid's row lock first, and a reorder writes only
\* rows it holds until it commits: an allow-list or an order is always what the
\* last accepted PUT of it listed, less what was deleted since, never a mix.
LockedSetReplaced == table \in {"allow", "order"} => Replaced

\* Every other PUT that was accepted so far was answered before t was sent.
Unovertaken(t) == \A u \in Others(t) : put[u].code = 204 => u \in put[t].earlier

\* What t lists, as rows, less what has been deleted.
ListedRows(t) ==
  {[item |-> put[t].order[i], pos |-> IF Positioned THEN i - 1 ELSE 0, by |-> t] :
     i \in {j \in DOMAIN put[t].order : put[t].order[j] \notin gone}}

\* "A full replacement": a layout, a collapse and an allow-list are exactly the
\* list of the PUT just accepted, unless another one was accepted while it ran
\* -- although neither of the first two takes a lock.
ReplacedUnlessOverlapped ==
  [][\A t \in Put :
       table # "order" /\ put[t].code = 0 /\ put'[t].code = 204 /\ Unovertaken(t) =>
         rows' = ListedRows(t)]_putVars

\* What whoever sends a PUT sees of it.
Sent == {t \in Put : ~InPhase(t, "idle")}
Asked == [t \in Put |-> put[t].order]
Earlier == [t \in Put |-> put[t].earlier]
Answers == [t \in Put |-> put[t].code]

Atomic == INSTANCE AtomicSet WITH
            sent <- Sent, asked <- Asked, earlier <- Earlier, answer <- Answers

\* To whoever sends them the PUTs are atomic: a 204 is all of a list at one
\* instant, anything else nothing of it, and a PUT that overlaps with no other
\* leaves exactly what it lists.
ImplementsAtomicSet == Atomic!AtomicSpec

-----------------------------------------------------------------------------
\* SetLayout: "It is a full replacement: ids the user previously placed but
\* omitted here are dropped"; SetCollapsedCategories: "a whole-set replace,
\* like SetLayout": the rows are what there was before any PUT, or the list of
\* one accepted PUT, whichever of them came last, but never rows of two.
WholeSetReplaced ==
  \/ \A r \in rows : r.by = Before
  \/ \E t \in Put : put[t].code = 204 /\ rows = ListedRows(t)
=============================================================================
