------------------------- MODULE WholeSetPut_proofs -------------------------
(***************************************************************************)
(* Proofs about the PUTs of a whole set or order, for any number of PUTs,  *)
(* items and deletions and lists of any length: types, no row that         *)
(* outlives what it refers to, nothing half done, an allow-list or an      *)
(* order that is one PUT's, and the refinement of AtomicSet.               *)
(*                                                                         *)
(* PutInv says, besides the properties, of every transaction:              *)
(*   - AtOwnPhase: the phases a PUT of its kind goes through;              *)
(*   - MineLive: what it has written refers to nothing that is gone or     *)
(*     being deleted, as its own locks see to;                             *)
(*   - InOrder: where positions count, what remains to be written is the   *)
(*     rest of the list;                                                   *)
(*   - Exclusive: while it holds the kid's row, the rows it will delete    *)
(*     are all there are, and its own are the list's, less what is gone;   *)
(*   - Numbered: a reorder has written each id so far at its last place.   *)
(* And of them all: only one holds the kid's row, and nobody deletes the   *)
(* kid meanwhile.  AtomicInv, further down, adds what the refinement needs *)
(* of the tables nobody locks.                                             *)
(***************************************************************************)
EXTENDS WholeSetPut, SequenceTheorems, TLAPS

\* How much of its list a transaction has been through.
Behind(q) == Len(q.order) - Len(q.todo)

Rest(q) ==
  /\ Len(q.todo) <= Len(q.order)
  /\ \A i \in 1..Len(q.todo) : q.todo[i] = q.order[Behind(q) + i]

AtOwnPhase(q) ==
  /\ table = "order" => q.phase \in {"idle", "update", "done"}
  /\ table # "order" => q.phase # "update"
  /\ q.phase = "lock" => table = "allow"
  /\ q.phase = "select" => table # "layout"

MineLive(q) == \A r \in q.mine : {r.item, Owner} \cap (gone \cup deleting) = {}

InOrder(q) == Positioned /\ q.phase \in {"insert", "update"} => Rest(q)

Exclusive(q) ==
  table = "allow" =>
    /\ q.phase = "delete" => rows \subseteq q.snap
    /\ q.phase \in {"select", "insert"} => rows \subseteq q.dead
    /\ \A r \in q.mine : r.pos = 0 /\ r.item \in Members(q.order)
    /\ q.phase = "insert" =>
         /\ Members(q.todo) \subseteq Members(q.order)
         /\ Members(q.order) \ gone \subseteq Items(q.mine) \cup Members(q.todo)

Numbered(q) ==
  table = "order" /\ q.phase = "update" =>
    /\ \A i \in 1..Behind(q) : q.order[i] \in Items(q.mine)
    /\ \A r \in q.mine :
         /\ r.pos + 1 \in 1..Behind(q) /\ q.order[r.pos + 1] = r.item
         /\ \A j \in 1..Behind(q) : q.order[j] = r.item => j <= r.pos + 1

PutSound(q) ==
  AtOwnPhase(q) /\ MineLive(q) /\ InOrder(q) /\ Exclusive(q) /\ Numbered(q)

\* Does a transaction hold the kid's row?
Holds(q) == table = "allow" /\ q.phase \notin {"idle", "done", "lock"}

OneHolder ==
  \A t \in Put : Holds(put[t]) =>
    /\ Owner \notin gone \cup deleting
    /\ \A u \in Others(t) : ~Holds(put[u])

PutInv ==
  /\ PutTypeOK /\ NoGhostRows /\ LockedSetReplaced /\ OneHolder
  /\ gone \cap deleting = {}
  /\ table = "order" => Owner \notin gone \cup deleting
  /\ \A t \in Put : PutSound(put[t])

-----------------------------------------------------------------------------
(* Lists and transactions                                                  *)

LEMMA ListsAreSequences ==
  ASSUME NEW N, N \subseteq Nat, NEW order \in ListsOf(N)
  PROVE  order \in Seq(Item)
  BY SeqDef DEF ListsOf

LEMMA OrdersAreSequences ==
  ASSUME NEW order \in Order
  PROVE  order \in Seq(Item)
  BY ListsAreSequences, PutAssumption DEF Order

LEMMA MembersAreItems ==
  ASSUME NEW order \in Seq(Item)
  PROVE  Members(order) \subseteq Item
  BY DEF Members

\* What remains of a list after its first id.
LEMMA RestOfList ==
  ASSUME NEW todo \in Seq(Item), todo # <<>>
  PROVE  /\ Head(todo) = todo[1] /\ Head(todo) \in Item
         /\ Tail(todo) \in Seq(Item)
         /\ Len(todo) \in Nat /\ Len(todo) > 0 /\ Len(Tail(todo)) = Len(todo) - 1
         /\ \A i \in 1..(Len(todo) - 1) : Tail(todo)[i] = todo[i + 1]
         /\ Members(todo) = {Head(todo)} \cup Members(Tail(todo))
  <1>1. /\ Head(todo) = todo[1] /\ Head(todo) \in Item
        /\ Tail(todo) \in Seq(Item)
        /\ Len(todo) \in Nat /\ Len(todo) > 0 /\ Len(Tail(todo)) = Len(todo) - 1
    BY HeadTailProperties, EmptySeq
  <1>2. \A i \in 1..(Len(todo) - 1) : Tail(todo)[i] = todo[i + 1]
    BY HeadTailProperties
  <1>3. DOMAIN todo = 1..Len(todo) /\ DOMAIN Tail(todo) = 1..(Len(todo) - 1)
    BY <1>1, LenProperties
  <1>4. ASSUME NEW i \in DOMAIN todo
        PROVE  todo[i] \in {Head(todo)} \cup Members(Tail(todo))
    <2>1. CASE i = 1
      BY <1>1, <2>1
    <2>2. CASE i # 1
      <3>1. i - 1 \in 1..(Len(todo) - 1) /\ (i - 1) + 1 = i
        BY <1>1, <1>3, <2>2
      <3>2. Tail(todo)[i - 1] = todo[i]
        BY <1>2, <3>1
      <3>. QED
        BY <1>3, <3>1, <3>2 DEF Members
    <2>. QED
      BY <2>1, <2>2
  <1>5. ASSUME NEW i \in DOMAIN Tail(todo) PROVE Tail(todo)[i] \in Members(todo)
    <2>1. i + 1 \in DOMAIN todo /\ Tail(todo)[i] = todo[i + 1]
      BY <1>1, <1>2, <1>3
    <2>. QED
      BY <2>1 DEF Members
  <1>6. Head(todo) \in Members(todo)
    BY <1>1, <1>3 DEF Members
  <1>7. Members(todo) \subseteq {Head(todo)} \cup Members(Tail(todo))
    BY <1>4 DEF Members
  <1>8. Members(Tail(todo)) \subseteq Members(todo)
    BY <1>5 DEF Members
  <1>. QED
    BY <1>1, <1>2, <1>6, <1>7, <1>8

\* The last place of an id is the one no other place of it comes after.
LEMMA LastPlace ==
  ASSUME NEW order \in Seq(Item), NEW p \in DOMAIN order,
         \A j \in DOMAIN order : order[j] = order[p] => j <= p
  PROVE  Last({i \in DOMAIN order : order[i] = order[p]}) = p
  <1>. DEFINE S == {i \in DOMAIN order : order[i] = order[p]}
  <1>1. S \subseteq Nat /\ p \in S /\ \A j \in S : j <= p
    BY LenProperties
  <1>2. \A i \in S : (\A j \in S : j <= i) => i = p
    BY <1>1
  <1>. QED
    BY <1>1, <1>2 DEF Last

LEMMA Fields ==
  ASSUME NEW q \in Transaction
  PROVE  /\ q.phase \in Phases /\ q.order \in Seq(Item) /\ q.todo \in Seq(Item)
         /\ q.snap \subseteq Row /\ q.dead \subseteq Row /\ q.mine \subseteq Row
         /\ q.code \in PutCodes /\ q.earlier \subseteq Put
         /\ Len(q.order) \in Nat /\ Len(q.todo) \in Nat
         /\ DOMAIN q.order = 1..Len(q.order) /\ DOMAIN q.todo = 1..Len(q.todo)
  BY LenProperties DEF Transaction

LEMMA UnsentEffect ==
  /\ Unsent \in Transaction
  /\ Unsent.phase = "idle" /\ Unsent.mine = {} /\ Unsent.dead = {}
  /\ Unsent.order = <<>> /\ Unsent.earlier = {} /\ Unsent.code = 0
  <1>1. <<>> \in Seq(Item)
    BY EmptySeq
  <1>. QED
    BY <1>1 DEF Unsent, Transaction, Phases, PutCodes

LEMMA EndedEffect ==
  ASSUME NEW q \in Transaction, NEW code \in PutCodes
  PROVE  LET m == Ended(q, code)
         IN  /\ m \in Transaction /\ m.phase = "done" /\ m.mine = {} /\ m.code = code
             /\ m.order = q.order /\ m.earlier = q.earlier
  <1>1. <<>> \in Seq(Item) /\ q.order \in Seq(Item) /\ q.earlier \subseteq Put
    BY EmptySeq, Fields
  <1>2. Ended(q, code) \in Transaction
    BY <1>1, UnsentEffect DEF Ended, Transaction, Phases
  <1>3. /\ Ended(q, code).phase = "done" /\ Ended(q, code).mine = {}
        /\ Ended(q, code).code = code
        /\ Ended(q, code).order = q.order /\ Ended(q, code).earlier = q.earlier
    BY UnsentEffect DEF Ended, Transaction
  <1>. QED
    BY <1>2, <1>3

LEMMA BegunEffect ==
  ASSUME NEW order \in Seq(Item), table \in Tables
  PROVE  LET m == Begun(order)
         IN  /\ m \in Transaction /\ m.order = order /\ m.mine = {}
             /\ m.phase = FirstPhase
             /\ table = "order" => m.todo = order
             /\ m.earlier = {u \in Put : InPhase(u, "done")} /\ m.code = 0
  <1>1. <<>> \in Seq(Item)
    BY EmptySeq
  <1>2. FirstPhase \in {"lock", "update", "snapshot"}
    BY PutAssumption DEF FirstPhase
  <1>. DEFINE todo == IF table = "order" THEN order ELSE <<>>
              answered == {u \in Put : InPhase(u, "done")}
  <1>3. todo \in Seq(Item) /\ (table = "order" => todo = order)
    BY <1>1
  <1>4. Begun(order) = [Unsent EXCEPT !.phase = FirstPhase, !.order = order, !.todo = todo,
                                 !.earlier = answered]
    BY DEF Begun
  <1>. HIDE DEF todo
  <1>5. /\ Begun(order).order = order /\ Begun(order).phase = FirstPhase
        /\ Begun(order).todo = todo /\ Begun(order).mine = {}
        /\ Begun(order).earlier = answered /\ Begun(order).code = 0
    BY <1>4 DEF Unsent
  <1>6. FirstPhase \in Phases
    BY <1>2 DEF Phases
  <1>7. Begun(order) \in Transaction
    BY <1>3, <1>4, <1>6, UnsentEffect DEF Transaction
  <1>. QED
    BY <1>2, <1>3, <1>5, <1>7

LEMMA LockedEffect ==
  ASSUME NEW q \in Transaction
  PROVE  LET m == Locked(q)
         IN  /\ m \in Transaction /\ m.phase = "snapshot"
             /\ m.order = q.order /\ m.mine = q.mine
             /\ m.earlier = q.earlier /\ m.code = q.code /\ m.dead = q.dead
  BY DEF Locked, Transaction, Phases

LEMMA SnappedEffect ==
  ASSUME NEW q \in Transaction, rows \subseteq Row
  PROVE  LET m == Snapped(q)
         IN  /\ m \in Transaction /\ m.phase = "delete" /\ m.snap = rows
             /\ m.order = q.order /\ m.mine = q.mine
             /\ m.earlier = q.earlier /\ m.code = q.code /\ m.dead = q.dead
  BY DEF Snapped, Transaction, Phases

LEMMA EmptiedEffect ==
  ASSUME NEW q \in Transaction
  PROVE  LET m == Emptied(q)
         IN  /\ m \in Transaction
             /\ m.phase = IF table = "layout" THEN "insert" ELSE "select"
             /\ m.dead = q.snap \cap rows /\ m.todo = q.order
             /\ m.order = q.order /\ m.mine = q.mine
             /\ m.earlier = q.earlier /\ m.code = q.code
  BY DEF Emptied, Transaction, Phases

LEMMA SelectedEffect ==
  ASSUME NEW q \in Transaction, NEW todo \in Seq(Item)
  PROVE  LET m == Selected(q, todo)
         IN  /\ m \in Transaction /\ m.phase = "insert" /\ m.todo = todo
             /\ m.order = q.order /\ m.mine = q.mine /\ m.dead = q.dead
             /\ m.earlier = q.earlier /\ m.code = q.code
  BY DEF Selected, Transaction, Phases

LEMMA PassedEffect ==
  ASSUME NEW q \in Transaction, q.todo # <<>>
  PROVE  LET m == Passed(q)
         IN  /\ m \in Transaction /\ m.phase = q.phase /\ m.todo = Tail(q.todo)
             /\ m.order = q.order /\ m.mine = q.mine /\ m.dead = q.dead
             /\ m.earlier = q.earlier /\ m.code = q.code
  <1>1. Tail(q.todo) \in Seq(Item)
    BY Fields, RestOfList
  <1>. QED
    BY <1>1 DEF Passed, Transaction

LEMMA WroteEffect ==
  ASSUME NEW q \in Transaction, q.todo # <<>>, NEW row \in Row
  PROVE  LET m == Wrote(q, row)
         IN  /\ m \in Transaction /\ m.phase = q.phase /\ m.todo = Tail(q.todo)
             /\ m.order = q.order /\ m.dead = q.dead
             /\ m.earlier = q.earlier /\ m.code = q.code
             /\ m.mine = {r \in q.mine : r.item # row.item} \cup {row}
             /\ Items(m.mine) = Items(q.mine) \cup {row.item}
  <1>. DEFINE rest == {r \in q.mine : r.item # row.item} \cup {row}
  <1>1. Tail(q.todo) \in Seq(Item) /\ rest \subseteq Row
    BY Fields, RestOfList
  <1>2. Wrote(q, row).mine = rest
    BY DEF Wrote, Transaction
  <1>3. Items(rest) = Items(q.mine) \cup {row.item}
    BY DEF Items
  <1>4. Wrote(q, row) = [q EXCEPT !.todo = Tail(q.todo), !.mine = rest]
    BY DEF Wrote
  <1>. HIDE DEF rest
  <1>5. [q EXCEPT !.todo = Tail(q.todo), !.mine = rest] \in Transaction
    BY <1>1 DEF Transaction
  <1>6. /\ Wrote(q, row).phase = q.phase /\ Wrote(q, row).todo = Tail(q.todo)
        /\ Wrote(q, row).order = q.order /\ Wrote(q, row).dead = q.dead
        /\ Wrote(q, row).earlier = q.earlier /\ Wrote(q, row).code = q.code
    BY <1>4 DEF Transaction
  <1>. QED
    BY <1>2, <1>3, <1>4, <1>5, <1>6 DEF rest

-----------------------------------------------------------------------------
(* A step of one transaction                                               *)

\* It may begin to hold the kid's row only when nobody else has it.
MayHold(t, m) ==
  Holds(m) => \/ Holds(put[t])
              \/ /\ Owner \notin gone \cup deleting
                 /\ \A u \in Others(t) : ~Holds(put[u])

LEMMA OneMoves ==
  ASSUME PutInv, NEW t \in Put, NEW m \in Transaction, Change(t, m),
         UNCHANGED <<table, rows, gone, deleting, wanted>>,
         PutSound(m), MayHold(t, m)
  PROVE  PutInv'
  <1>1. /\ put \in [Put -> Transaction]
        /\ put' \in [Put -> Transaction] /\ put'[t] = m
        /\ \A u \in Put \ {t} : put'[u] = put[u]
    BY DEF Change, PutInv, PutTypeOK
  <1>2. PutTypeOK' /\ NoGhostRows' /\ LockedSetReplaced'
    BY <1>1 DEF PutInv, PutTypeOK, NoGhostRows, LockedSetReplaced, Replaced
  <1>3. ASSUME NEW u \in Put PROVE PutSound(put[u])'
    <2>1. PutSound(put'[u])
      BY <1>1 DEF PutInv
    <2>. QED
      BY <2>1 DEF PutSound, AtOwnPhase, MineLive, InOrder, Positioned, Exclusive, Numbered,
                  Rest, Behind, Items, Members
  <1>4. OneHolder'
    <2>. SUFFICES ASSUME NEW a \in Put, Holds(put'[a])
                  PROVE  /\ Owner \notin gone \cup deleting
                         /\ \A b \in Others(a) : ~Holds(put'[b])
      BY DEF OneHolder, Others, Holds
    <2>1. OneHolder
      BY DEF PutInv
    <2>2. CASE a = t
      <3>1. Holds(m)
        BY <1>1, <2>2
      <3>2. /\ Owner \notin gone \cup deleting
            /\ \A b \in Others(t) : ~Holds(put[b])
        BY <2>1, <3>1 DEF MayHold, OneHolder
      <3>. QED
        BY <1>1, <2>2, <3>2 DEF Others
    <2>3. CASE a # t
      <3>1. Holds(put[a])
        BY <1>1, <2>3
      <3>2. /\ Owner \notin gone \cup deleting
            /\ \A b \in Others(a) : ~Holds(put[b])
        BY <2>1, <3>1 DEF OneHolder
      <3>3. ~Holds(put[t])
        BY <2>3, <3>2 DEF Others
      <3>4. ~Holds(m)
        BY <2>3, <3>1, <3>3 DEF MayHold, Others
      <3>. QED
        BY <1>1, <3>2, <3>4 DEF Others
    <2>. QED
      BY <2>2, <2>3
  <1>. QED
    BY <1>2, <1>3, <1>4 DEF PutInv

\* A transaction that is over has neither rows nor locks.
LEMMA OverIsSound ==
  ASSUME NEW m, m.phase \in {"idle", "done"}, m.mine = {}
  PROVE  PutSound(m) /\ ~Holds(m)
  BY DEF PutSound, AtOwnPhase, MineLive, InOrder, Exclusive, Numbered, Holds

\* At first all of the list remains.
LEMMA WholeIsRest ==
  ASSUME NEW q, Len(q.order) \in Nat, q.todo = q.order
  PROVE  Rest(q) /\ Behind(q) = 0
  <1>1. Behind(q) = 0
    BY DEF Behind
  <1>2. \A i \in 1..Len(q.order) : 0 + i = i
    OBVIOUS
  <1>. QED
    BY <1>1, <1>2 DEF Rest

LEMMA FailKeeps ==
  ASSUME PutInv, NEW t \in Put, NEW code \in PutCodes, Fail(t, code),
         UNCHANGED <<table, gone, deleting>>
  PROVE  PutInv'
  <1>1. put[t] \in Transaction
    BY DEF PutInv, PutTypeOK
  <1>2. PICK m \in Transaction : m = Ended(put[t], code) /\ m.phase = "done" /\ m.mine = {}
    BY <1>1, EndedEffect
  <1>3. PutSound(m) /\ ~Holds(m)
    BY <1>2, OverIsSound
  <1>. QED
    BY <1>2, <1>3, OneMoves DEF Fail, MayHold

LEMMA SendKeeps ==
  ASSUME PutInv, NEW t \in Put, NEW order \in Order, Send(t, order)
  PROVE  PutInv'
  <1>1. table \in Tables /\ order \in Seq(Item)
    BY OrdersAreSequences DEF PutInv, PutTypeOK
  <1>2. PICK m \in Transaction :
          /\ m = Begun(order) /\ m.order = order /\ m.mine = {} /\ m.phase = FirstPhase
          /\ table = "order" => m.todo = order
    BY <1>1, BegunEffect
  <1>3. FirstPhase = IF table = "allow" THEN "lock"
                     ELSE IF table = "order" THEN "update" ELSE "snapshot"
    BY <1>1, PutAssumption DEF FirstPhase
  <1>4. table = "order" => Rest(m) /\ Behind(m) = 0
    <2>1. Len(m.order) \in Nat /\ (table = "order" => m.todo = m.order)
      BY <1>2, Fields
    <2>. QED
      BY <2>1, WholeIsRest
  <1>5. PutSound(m)
    BY <1>2, <1>3, <1>4 DEF PutSound, AtOwnPhase, MineLive, InOrder, Positioned, Exclusive,
                            Numbered
  <1>6. ~Holds(m)
    BY <1>2, <1>3 DEF Holds
  <1>. QED
    BY <1>2, <1>5, <1>6, OneMoves DEF Send, MayHold

LEMMA LockOwnerKeeps ==
  ASSUME PutInv, NEW t \in Put, LockOwner(t)
  PROVE  PutInv'
  <1>1. put[t] \in Transaction /\ PutSound(put[t]) /\ put[t].phase = "lock"
    BY DEF PutInv, PutTypeOK, LockOwner, InPhase
  <1>2. CASE Change(t, Locked(put[t])) /\ UNCHANGED <<rows, wanted>> /\ Owner \notin gone
    <2>1. PICK m \in Transaction :
            /\ m = Locked(put[t]) /\ m.phase = "snapshot"
            /\ m.order = put[t].order /\ m.mine = put[t].mine
      BY <1>1, LockedEffect
    <2>2. table = "allow"
      BY <1>1 DEF PutSound, AtOwnPhase
    <2>3. PutSound(m)
      BY <1>1, <2>1, <2>2 DEF PutSound, AtOwnPhase, MineLive, InOrder, Exclusive, Numbered
    <2>4. \A u \in Others(t) : ~OwnerLocked(u)
      BY DEF LockOwner, LockWaits
    <2>5. Owner \notin gone \cup deleting
      BY <1>2 DEF LockOwner, LockWaits
    <2>6. MayHold(t, m)
      BY <2>4, <2>5 DEF MayHold, Holds, OwnerLocked, Active, InPhase
    <2>. QED
      BY <1>2, <2>1, <2>3, <2>6, OneMoves DEF LockOwner
  <1>3. CASE Fail(t, 404) \/ Fail(t, 400)
    BY <1>3, FailKeeps DEF LockOwner, PutCodes
  <1>. QED
    BY <1>2, <1>3 DEF LockOwner

LEMMA StartDeleteKeeps ==
  ASSUME PutInv, NEW t \in Put, StartDelete(t)
  PROVE  PutInv'
  <1>1. put[t] \in Transaction /\ PutSound(put[t]) /\ put[t].phase = "snapshot" /\ rows \subseteq Row
    BY DEF PutInv, PutTypeOK, StartDelete, InPhase
  <1>2. PICK m \in Transaction :
          /\ m = Snapped(put[t]) /\ m.phase = "delete" /\ m.snap = rows
          /\ m.order = put[t].order /\ m.mine = put[t].mine
    BY <1>1, SnappedEffect
  <1>3. PutSound(m)
    BY <1>1, <1>2 DEF PutSound, AtOwnPhase, MineLive, InOrder, Exclusive, Numbered
  <1>4. MayHold(t, m)
    BY <1>1 DEF MayHold, Holds
  <1>. QED
    BY <1>2, <1>3, <1>4, OneMoves DEF StartDelete

LEMMA DeleteRowsKeeps ==
  ASSUME PutInv, NEW t \in Put, DeleteRows(t)
  PROVE  PutInv'
  <1>1. put[t] \in Transaction /\ PutSound(put[t]) /\ put[t].phase = "delete"
    BY DEF PutInv, PutTypeOK, DeleteRows, InPhase
  <1>2. PICK m \in Transaction :
          /\ m = Emptied(put[t])
          /\ m.phase = IF table = "layout" THEN "insert" ELSE "select"
          /\ m.dead = put[t].snap \cap rows /\ m.todo = put[t].order
          /\ m.order = put[t].order /\ m.mine = put[t].mine
    BY <1>1, EmptiedEffect
  <1>3. table # "order"
    BY <1>1 DEF PutSound, AtOwnPhase
  <1>4. Rest(m)
    BY <1>2, Fields, WholeIsRest
  <1>5. PutSound(m)
    BY <1>1, <1>2, <1>3, <1>4 DEF PutSound, AtOwnPhase, MineLive, InOrder, Exclusive, Numbered
  <1>6. MayHold(t, m)
    BY <1>1 DEF MayHold, Holds
  <1>. QED
    BY <1>2, <1>5, <1>6, OneMoves DEF DeleteRows

LEMMA SelectLiveKeeps ==
  ASSUME PutInv, NEW t \in Put, SelectLive(t)
  PROVE  PutInv'
  <1>1. put[t] \in Transaction /\ PutSound(put[t]) /\ put[t].phase = "select"
    BY DEF PutInv, PutTypeOK, SelectLive, InPhase
  <1>2. PICK todo \in ListsOf(0..MaxLen) :
          Members(todo) = Members(put[t].order) \ gone /\ Change(t, Selected(put[t], todo))
    BY DEF SelectLive
  <1>3. todo \in Seq(Item)
    BY <1>2, ListsAreSequences, PutAssumption
  <1>4. PICK m \in Transaction :
          /\ m = Selected(put[t], todo) /\ m.phase = "insert" /\ m.todo = todo
          /\ m.order = put[t].order /\ m.mine = put[t].mine /\ m.dead = put[t].dead
    BY <1>1, <1>3, SelectedEffect
  <1>5. table \notin {"order", "layout"}
    BY <1>1 DEF PutSound, AtOwnPhase
  <1>6. Exclusive(m)
    BY <1>1, <1>2, <1>4 DEF PutSound, Exclusive
  <1>7. PutSound(m)
    BY <1>1, <1>4, <1>5, <1>6 DEF PutSound, AtOwnPhase, MineLive, InOrder, Positioned, Numbered
  <1>8. MayHold(t, m)
    BY <1>1 DEF MayHold, Holds
  <1>. QED
    BY <1>2, <1>4, <1>7, <1>8, OneMoves DEF SelectLive

-----------------------------------------------------------------------------
(* Rows are written one at a time                                          *)

\* What remains is still the rest of the list when an id has been dealt with.
LEMMA RestShrinks ==
  ASSUME NEW q \in Transaction, NEW m \in Transaction, q.todo # <<>>, Rest(q),
         m.order = q.order, m.todo = Tail(q.todo)
  PROVE  /\ Rest(m) /\ Behind(m) = Behind(q) + 1 /\ Behind(q) \in Nat
         /\ Behind(m) \in 1..Len(q.order) /\ Head(q.todo) = q.order[Behind(m)]
  <1>1. q.todo \in Seq(Item) /\ Len(q.order) \in Nat
    BY Fields
  <1>2. /\ Head(q.todo) = q.todo[1] /\ Len(q.todo) \in Nat /\ Len(q.todo) > 0
        /\ Len(m.todo) = Len(q.todo) - 1
        /\ \A i \in 1..(Len(q.todo) - 1) : m.todo[i] = q.todo[i + 1]
    BY <1>1, RestOfList
  <1>3. Behind(m) = Behind(q) + 1 /\ Behind(q) \in Nat /\ Behind(m) \in 1..Len(q.order)
    <2>1. Len(q.todo) <= Len(q.order) /\ Len(q.order) \in Nat
      BY <1>1 DEF Rest
    <2>2. Len(q.todo) \in Nat /\ Len(q.todo) > 0 /\ Len(m.todo) = Len(q.todo) - 1
      BY <1>2
    <2>3. Behind(q) = Len(q.order) - Len(q.todo) /\ Behind(m) = Len(q.order) - Len(m.todo)
      BY DEF Behind
    <2>5. Behind(q) \in Nat
      BY <2>1, <2>2, <2>3
    <2>6. Behind(m) = Behind(q) + 1
      BY <2>1, <2>2, <2>3
    <2>7. Behind(m) <= Len(q.order)
      BY <2>1, <2>2, <2>3
    <2>. QED
      BY <2>1, <2>5, <2>6, <2>7
  <1>4. ASSUME NEW i \in 1..Len(m.todo) PROVE m.todo[i] = m.order[Behind(m) + i]
    <2>1. i + 1 \in 1..Len(q.todo) /\ m.todo[i] = q.todo[i + 1]
      BY <1>2
    <2>2. q.todo[i + 1] = q.order[Behind(q) + (i + 1)]
      BY <2>1 DEF Rest
    <2>3. Behind(q) + (i + 1) = Behind(m) + i
      BY <1>3
    <2>. QED
      BY <2>1, <2>2, <2>3
  <1>5. Head(q.todo) = q.order[Behind(m)]
    BY <1>2, <1>3 DEF Rest
  <1>. QED
    BY <1>1, <1>2, <1>3, <1>4, <1>5 DEF Rest

\* The row a transaction is about to write.
LEMMA NextRowEffect ==
  ASSUME PutInv, NEW t \in Put, put[t].todo # <<>>, put[t].phase \in {"insert", "update"}
  PROVE  /\ NextRow(t) \in Row /\ NextRow(t).item = Head(put[t].todo)
         /\ NextRow(t).pos = IF Positioned THEN Behind(put[t]) ELSE 0
  <1>1. put[t] \in Transaction /\ InOrder(put[t])
    BY DEF PutInv, PutTypeOK, PutSound
  <1>2. Head(put[t].todo) \in Item
    BY <1>1, Fields, RestOfList
  <1>3. Position(t) = IF Positioned THEN Behind(put[t]) ELSE 0
    BY DEF Position, Behind
  <1>4. Positioned => Behind(put[t]) \in Nat
    <2>1. Positioned => Len(put[t].todo) <= Len(put[t].order)
      BY <1>1 DEF InOrder, Rest
    <2>. QED
      BY <1>1, <2>1, Fields DEF Behind
  <1>. QED
    BY <1>2, <1>3, <1>4 DEF NextRow, Next1, Row

LEMMA WrittenIsLive ==
  ASSUME NEW q \in Transaction, NEW m, NEW row \in Row, MineLive(q),
         m.mine = {r \in q.mine : r.item # row.item} \cup {row},
         {row.item, Owner} \cap (gone \cup deleting) = {}
  PROVE  MineLive(m)
  BY DEF MineLive

LEMMA InsertRowKeeps ==
  ASSUME PutInv, NEW t \in Put, InsertRow(t)
  PROVE  PutInv'
  <1>. DEFINE q == put[t]
              id == Head(put[t].todo)
  <1>1. q \in Transaction /\ PutSound(q) /\ q.phase = "insert" /\ q.todo # <<>>
    BY DEF PutInv, PutTypeOK, InsertRow, InPhase
  <1>2. table # "order"
    BY <1>1 DEF PutSound, AtOwnPhase
  <1>3. q.todo \in Seq(Item) /\ id \in Item /\ Members(q.todo) = {id} \cup Members(Tail(q.todo))
    BY <1>1, Fields, RestOfList
  <1>4. NextRow(t) \in Row /\ NextRow(t).item = id
        /\ NextRow(t).pos = IF Positioned THEN Behind(q) ELSE 0
    BY <1>1, NextRowEffect
  <1>5. CASE Fail(t, 404) \/ Fail(t, 500)
    BY <1>5, FailKeeps DEF InsertRow, PutCodes
  <1>6. ASSUME table = "collapsed", Change(t, Passed(q)), UNCHANGED <<rows, wanted>>
        PROVE  PutInv'
    <2>1. PICK m \in Transaction :
            /\ m = Passed(q) /\ m.phase = "insert" /\ m.todo = Tail(q.todo)
            /\ m.order = q.order /\ m.mine = q.mine /\ m.dead = q.dead
      BY <1>1, PassedEffect
    <2>2. PutSound(m)
      BY <1>1, <1>6, <2>1 DEF PutSound, AtOwnPhase, MineLive, InOrder, Positioned,
                              Exclusive, Numbered
    <2>3. MayHold(t, m)
      BY <1>6 DEF MayHold, Holds
    <2>. QED
      BY <1>6, <2>1, <2>2, <2>3, OneMoves DEF InsertRow
  <1>7. ASSUME id \notin gone, Owner \notin gone, Change(t, Wrote(q, NextRow(t))),
               UNCHANGED <<rows, wanted>>
        PROVE  PutInv'
    <2>1. PICK m \in Transaction :
            /\ m = Wrote(q, NextRow(t)) /\ m.phase = "insert" /\ m.todo = Tail(q.todo)
            /\ m.order = q.order /\ m.dead = q.dead
            /\ m.mine = {r \in q.mine : r.item # NextRow(t).item} \cup {NextRow(t)}
            /\ Items(m.mine) = Items(q.mine) \cup {NextRow(t).item}
      <3>1. NextRow(t) \in Row
        BY <1>4
      <3>2. LET m == Wrote(q, NextRow(t))
            IN  /\ m \in Transaction /\ m.phase = q.phase /\ m.todo = Tail(q.todo)
                /\ m.order = q.order /\ m.dead = q.dead
                /\ m.mine = {r \in q.mine : r.item # NextRow(t).item} \cup {NextRow(t)}
                /\ Items(m.mine) = Items(q.mine) \cup {NextRow(t).item}
        BY <1>1, <3>1, WroteEffect
      <3>. QED
        BY <1>1, <3>2
    <2>2. id \notin deleting /\ (q.mine = {} => Owner \notin deleting)
      <3>1. InsertWaits(t) = {} /\ Next1(t) = id
        BY DEF InsertRow, Next1
      <3>2. {y \in deleting : y = id \/ (y = Owner /\ q.mine = {})} = {}
        BY <3>1 DEF InsertWaits
      <3>. QED
        BY <3>2
    <2>3. MineLive(q)
      BY <1>1 DEF PutSound
    <2>4. Owner \notin deleting
      BY <2>2, <2>3 DEF MineLive
    <2>5. MineLive(m)
      BY <1>1, <1>4, <1>7, <2>1, <2>2, <2>3, <2>4, WrittenIsLive
    <2>6. InOrder(m)
      BY <1>1, <2>1, RestShrinks DEF PutSound, InOrder
    <2>7. Exclusive(m)
      <3>. SUFFICES ASSUME table = "allow" PROVE Exclusive(m)
        BY DEF Exclusive
      <3>1. /\ rows \subseteq q.dead /\ Members(q.todo) \subseteq Members(q.order)
            /\ Members(q.order) \ gone \subseteq Items(q.mine) \cup Members(q.todo)
            /\ \A r \in q.mine : r.pos = 0 /\ r.item \in Members(q.order)
        BY <1>1 DEF PutSound, Exclusive
      <3>2. ~Positioned
        BY DEF Positioned
      <3>3. NextRow(t).pos = 0 /\ NextRow(t).item \in Members(q.order)
        BY <1>3, <1>4, <3>1, <3>2
      <3>4. \A r \in m.mine : r.pos = 0 /\ r.item \in Members(m.order)
        BY <2>1, <3>1, <3>3
      <3>5. /\ Members(m.todo) \subseteq Members(m.order)
            /\ Members(m.order) \ gone \subseteq Items(m.mine) \cup Members(m.todo)
        BY <1>3, <1>4, <2>1, <3>1
      <3>. QED
        BY <2>1, <3>1, <3>4, <3>5 DEF Exclusive
    <2>8. PutSound(m)
      BY <1>1, <1>2, <2>1, <2>5, <2>6, <2>7 DEF PutSound, AtOwnPhase, Numbered
    <2>9. MayHold(t, m)
      BY <1>1 DEF MayHold, Holds
    <2>. QED
      BY <1>7, <2>1, <2>8, <2>9, OneMoves DEF InsertRow
  <1>. QED
    BY <1>5, <1>6, <1>7 DEF InsertRow, Next1

\* A reorder gives the next id its place, which is the last so far.
LEMMA NumberingGrows ==
  ASSUME NEW q \in Transaction, NEW m \in Transaction, NEW row \in Row,
         table = "order", q.phase = "update", q.todo # <<>>, Rest(q), Numbered(q),
         m.order = q.order, m.todo = Tail(q.todo),
         row.item = Head(q.todo), row.pos = Behind(q),
         m.mine = {r \in q.mine : r.item # row.item} \cup {row},
         Items(m.mine) = Items(q.mine) \cup {row.item}
  PROVE  Numbered(m)
  <1>1. /\ Behind(m) = Behind(q) + 1 /\ Behind(q) \in Nat
        /\ row.item = q.order[Behind(m)]
    BY RestShrinks
  <1>2. /\ \A i \in 1..Behind(q) : q.order[i] \in Items(q.mine)
        /\ \A r \in q.mine :
             /\ r.pos + 1 \in 1..Behind(q) /\ q.order[r.pos + 1] = r.item
             /\ \A j \in 1..Behind(q) : q.order[j] = r.item => j <= r.pos + 1
    BY DEF Numbered
  <1>3. \A i \in 1..Behind(m) : i \in 1..Behind(q) \/ i = Behind(m)
    BY <1>1
  <1>4. \A i \in 1..Behind(m) : m.order[i] \in Items(m.mine)
    BY <1>1, <1>2, <1>3
  <1>5. ASSUME NEW r \in q.mine, r.item # row.item
        PROVE  /\ r.pos + 1 \in 1..Behind(m) /\ m.order[r.pos + 1] = r.item
               /\ \A j \in 1..Behind(m) : m.order[j] = r.item => j <= r.pos + 1
    <2>1. r.pos + 1 \in 1..Behind(m)
      BY <1>1, <1>2
    <2>. QED
      BY <1>1, <1>2, <1>3, <1>5, <2>1
  <1>6. /\ row.pos + 1 \in 1..Behind(m) /\ m.order[row.pos + 1] = row.item
        /\ \A j \in 1..Behind(m) : j <= row.pos + 1
    BY <1>1
  <1>. QED
    BY <1>4, <1>5, <1>6 DEF Numbered

LEMMA UpdateRowKeeps ==
  ASSUME PutInv, NEW t \in Put, UpdateRow(t)
  PROVE  PutInv'
  <1>. DEFINE q == put[t]
              id == Head(put[t].todo)
  <1>1. q \in Transaction /\ PutSound(q) /\ q.phase = "update" /\ q.todo # <<>>
    BY DEF PutInv, PutTypeOK, UpdateRow, InPhase
  <1>2. table = "order" /\ Positioned
    BY <1>1 DEF PutSound, AtOwnPhase, Positioned
  <1>3. NextRow(t) \in Row /\ NextRow(t).item = id /\ NextRow(t).pos = Behind(q)
    BY <1>1, <1>2, NextRowEffect
  <1>4. CASE Fail(t, 404)
    BY <1>4, FailKeeps DEF UpdateRow, PutCodes
  <1>5. ASSUME id \notin gone, Change(t, Wrote(q, NextRow(t))), UNCHANGED <<rows, wanted>>
        PROVE  PutInv'
    <2>1. PICK m \in Transaction :
            /\ m = Wrote(q, NextRow(t)) /\ m.phase = "update" /\ m.todo = Tail(q.todo)
            /\ m.order = q.order /\ m.dead = q.dead
            /\ m.mine = {r \in q.mine : r.item # id} \cup {NextRow(t)}
            /\ Items(m.mine) = Items(q.mine) \cup {id}
      <3>1. NextRow(t) \in Row /\ NextRow(t).item = id
        BY <1>3
      <3>2. LET m == Wrote(q, NextRow(t))
            IN  /\ m \in Transaction /\ m.phase = q.phase /\ m.todo = Tail(q.todo)
                /\ m.order = q.order /\ m.dead = q.dead
                /\ m.mine = {r \in q.mine : r.item # NextRow(t).item} \cup {NextRow(t)}
                /\ Items(m.mine) = Items(q.mine) \cup {NextRow(t).item}
        BY <1>1, <3>1, WroteEffect
      <3>. QED
        BY <1>1, <3>1, <3>2
    <2>2. id \notin deleting
      BY DEF UpdateRow, UpdateWaits, Next1
    <2>3. Owner \notin gone \cup deleting
      BY <1>2 DEF PutInv
    <2>4. MineLive(q) /\ Rest(q) /\ Numbered(q)
      BY <1>1, <1>2 DEF PutSound, InOrder
    <2>5. MineLive(m)
      BY <1>1, <1>3, <1>5, <2>1, <2>2, <2>3, <2>4, WrittenIsLive
    <2>6. Rest(m)
      BY <1>1, <2>1, <2>4, RestShrinks
    <2>7. Numbered(m)
      BY <1>1, <1>2, <1>3, <2>1, <2>4, NumberingGrows
    <2>8. PutSound(m)
      BY <1>1, <1>2, <2>1, <2>5, <2>6, <2>7 DEF PutSound, AtOwnPhase, InOrder, Exclusive
    <2>9. MayHold(t, m)
      BY <1>2 DEF MayHold, Holds
    <2>. QED
      BY <1>5, <2>1, <2>8, <2>9, OneMoves DEF UpdateRow
  <1>. QED
    BY <1>4, <1>5 DEF UpdateRow, Next1

-----------------------------------------------------------------------------
(* Committing                                                              *)

\* Replaced of any rows, positions and deletions ...
SamePairs(R, W, G) ==
  {<<r.item, r.pos>> : r \in R} =
    {<<x, W[x]>> : x \in {y \in DOMAIN W : {y, Owner} \cap G = {}}}

\* ... and the same row by row and id by id.
RowsAreThose(R, W, G) ==
  /\ \A r \in R : /\ r.item \in DOMAIN W /\ {r.item, Owner} \cap G = {}
                  /\ r.pos = W[r.item]
  /\ \A x \in DOMAIN W : {x, Owner} \cap G = {} =>
       \E r \in R : r.item = x /\ r.pos = W[x]

LEMMA RowByRow ==
  ASSUME NEW R, NEW W, NEW G
  PROVE  SamePairs(R, W, G) <=> RowsAreThose(R, W, G)
  <1>. DEFINE Live == {y \in DOMAIN W : {y, Owner} \cap G = {}}
              Pairs == {<<r.item, r.pos>> : r \in R}
              Wanted == {<<x, W[x]>> : x \in Live}
  <1>1. ASSUME Pairs = Wanted, NEW r \in R
        PROVE  r.item \in Live /\ r.pos = W[r.item]
    <2>1. <<r.item, r.pos>> \in Wanted
      BY <1>1
    <2>2. PICK x \in Live : <<r.item, r.pos>> = <<x, W[x]>>
      BY <2>1
    <2>3. r.item = x /\ r.pos = W[x]
      BY <2>2
    <2>. QED
      BY <2>3
  <1>2. ASSUME Pairs = Wanted, NEW x \in Live
        PROVE  \E r \in R : r.item = x /\ r.pos = W[x]
    <2>1. <<x, W[x]>> \in Pairs
      BY <1>2
    <2>2. PICK r \in R : <<x, W[x]>> = <<r.item, r.pos>>
      BY <2>1
    <2>. QED
      BY <2>2
  <1>3. ASSUME \A r \in R : r.item \in Live /\ r.pos = W[r.item],
               \A x \in Live : \E r \in R : r.item = x /\ r.pos = W[x]
        PROVE  Pairs = Wanted
    <2>1. ASSUME NEW r \in R PROVE <<r.item, r.pos>> \in Wanted
      BY <1>3
    <2>2. ASSUME NEW x \in Live PROVE <<x, W[x]>> \in Pairs
      BY <1>3
    <2>. QED
      BY <2>1, <2>2
  <1>. QED
    BY <1>1, <1>2, <1>3 DEF SamePairs, RowsAreThose

\* An order gives each of its ids the last place it names it at.
LEMMA PositionsOf ==
  ASSUME NEW order \in Seq(Item), NEW p \in DOMAIN order,
         \A j \in DOMAIN order : order[j] = order[p] => j <= p
  PROVE  /\ order[p] \in DOMAIN Positions(order)
         /\ Positions(order)[order[p]] = IF Positioned THEN p - 1 ELSE 0
  <1>1. order[p] \in Members(order)
    BY DEF Members
  <1>2. Last({i \in DOMAIN order : order[i] = order[p]}) = p
    BY LastPlace
  <1>. QED
    BY <1>1, <1>2 DEF Positions

\* What an accepted reorder leaves is the old order with its own laid over it.
LEMMA ReorderReplaces ==
  ASSUME PutInv, NEW t \in Put, Commit(t), table = "order"
  PROVE  Replaced'
  <1>. DEFINE q == put[t]
              asked == Positions(q.order)
  <1>1. q \in Transaction /\ PutSound(q) /\ q.phase = "update" /\ q.todo = <<>>
    BY DEF PutInv, PutTypeOK, PutSound, AtOwnPhase, Commit, InPhase
  <1>2. q.order \in Seq(Item) /\ DOMAIN q.order = 1..Len(q.order) /\ Len(q.order) \in Nat
    BY <1>1, Fields
  <1>3. Behind(q) = Len(q.order)
    BY <1>1, <1>2, EmptySeq DEF Behind
  <1>4. /\ \A i \in DOMAIN q.order : q.order[i] \in Items(q.mine)
        /\ \A r \in q.mine :
             /\ r.pos + 1 \in DOMAIN q.order /\ q.order[r.pos + 1] = r.item
             /\ \A j \in DOMAIN q.order : q.order[j] = r.item => j <= r.pos + 1
    BY <1>1, <1>2, <1>3 DEF PutSound, Numbered
  <1>5. ASSUME NEW r \in q.mine
        PROVE  r.item \in DOMAIN asked /\ asked[r.item] = r.pos
    <2>1. r.pos \in Nat
      BY <1>1, Fields DEF Row
    <2>2. Positioned
      BY DEF Positioned
    <2>. HIDE DEF q
    <2>3. /\ q.order[r.pos + 1] \in DOMAIN Positions(q.order)
          /\ Positions(q.order)[q.order[r.pos + 1]] = (r.pos + 1) - 1
      BY <1>2, <1>4, <2>2, PositionsOf
    <2>. QED
      BY <1>4, <2>1, <2>3
  <1>6. DOMAIN asked = Items(q.mine)
    <2>1. DOMAIN asked = Members(q.order)
      BY DEF Positions
    <2>2. Members(q.order) \subseteq Items(q.mine)
      BY <1>4 DEF Members
    <2>3. Items(q.mine) \subseteq Members(q.order)
      BY <1>4 DEF Members, Items
    <2>. QED
      BY <2>1, <2>2, <2>3
  <1>7. RowsAreThose(rows, wanted, gone)
    <2>1. Replaced
      BY DEF PutInv, LockedSetReplaced
    <2>2. SamePairs(rows, wanted, gone)
      BY <2>1 DEF Replaced, SamePairs
    <2>. QED
      BY <2>2, RowByRow
  <1>8. /\ rows' = {r \in rows : r.item \notin Items(q.mine)} \cup q.mine
        /\ wanted' = [x \in DOMAIN wanted \cup DOMAIN asked |->
                        IF x \in DOMAIN asked THEN asked[x] ELSE wanted[x]]
        /\ gone' = gone
    BY DEF Commit, Kept
  <1>9. \A r \in q.mine : {r.item, Owner} \cap gone = {}
    BY <1>1 DEF PutSound, MineLive
  <1>. HIDE DEF q, asked
  <1>10. ASSUME NEW r \in rows'
         PROVE  /\ r.item \in DOMAIN wanted' /\ {r.item, Owner} \cap gone' = {}
                /\ r.pos = wanted'[r.item]
    <2>1. CASE r \in q.mine
      BY <1>5, <1>8, <1>9, <2>1
    <2>2. CASE r \in rows /\ r.item \notin Items(q.mine)
      BY <1>6, <1>7, <1>8, <2>2 DEF RowsAreThose
    <2>. QED
      BY <1>8, <2>1, <2>2
  <1>11. ASSUME NEW x \in DOMAIN wanted', {x, Owner} \cap gone' = {}
         PROVE  \E r \in rows' : r.item = x /\ r.pos = wanted'[x]
    <2>1. CASE x \in DOMAIN asked
      <3>1. PICK r \in q.mine : r.item = x
        BY <1>6, <2>1 DEF Items
      <3>. QED
        BY <1>5, <1>8, <2>1, <3>1
    <2>2. CASE x \notin DOMAIN asked
      <3>1. x \in DOMAIN wanted
        BY <1>8, <2>2
      <3>2. PICK r \in rows : r.item = x /\ r.pos = wanted[x]
        BY <1>7, <1>8, <1>11, <3>1 DEF RowsAreThose
      <3>. QED
        BY <1>6, <1>8, <2>2, <3>1, <3>2
    <2>. QED
      BY <2>1, <2>2
  <1>12. RowsAreThose(rows', wanted', gone')
    BY <1>10, <1>11 DEF RowsAreThose
  <1>13. SamePairs(rows', wanted', gone')
    BY <1>12, RowByRow
  <1>. QED
    BY <1>13 DEF Replaced, SamePairs

\* What an accepted allow-list leaves is its own rows and nothing else.
LEMMA AllowListReplaces ==
  ASSUME PutInv, NEW t \in Put, Commit(t), table = "allow"
  PROVE  Replaced'
  <1>. DEFINE q == put[t]
              asked == Positions(q.order)
  <1>1. q \in Transaction /\ PutSound(q) /\ q.phase = "insert" /\ q.todo = <<>>
    BY DEF PutInv, PutTypeOK, PutSound, AtOwnPhase, Commit, InPhase
  <1>2. Members(q.todo) = {}
    BY <1>1, EmptySeq DEF Members
  <1>3. /\ rows \subseteq q.dead /\ Members(q.order) \ gone \subseteq Items(q.mine)
        /\ \A r \in q.mine : r.pos = 0 /\ r.item \in Members(q.order)
    BY <1>1, <1>2 DEF PutSound, Exclusive
  <1>4. /\ DOMAIN asked = Members(q.order)
        /\ \A x \in Members(q.order) : asked[x] = 0
    BY DEF Positions, Positioned
  <1>5. rows' = q.mine /\ wanted' = asked /\ gone' = gone
    BY <1>3 DEF Commit, Kept
  <1>6. \A r \in q.mine : {r.item, Owner} \cap gone = {}
    BY <1>1 DEF PutSound, MineLive
  <1>. HIDE DEF q, asked
  <1>7. ASSUME NEW x \in DOMAIN wanted', {x, Owner} \cap gone' = {}
        PROVE  \E r \in rows' : r.item = x /\ r.pos = wanted'[x]
    BY <1>3, <1>4, <1>5, <1>7 DEF Items
  <1>8. RowsAreThose(rows', wanted', gone')
    BY <1>3, <1>4, <1>5, <1>6, <1>7 DEF RowsAreThose
  <1>9. SamePairs(rows', wanted', gone')
    BY <1>8, RowByRow
  <1>. QED
    BY <1>9 DEF Replaced, SamePairs

LEMMA CommitKeeps ==
  ASSUME PutInv, NEW t \in Put, Commit(t)
  PROVE  PutInv'
  <1>. DEFINE q == put[t]
  <1>1. q \in Transaction /\ PutSound(q) /\ q.phase \in {"insert", "update"}
    BY DEF PutInv, PutTypeOK, Commit, InPhase
  <1>2. PICK m \in Transaction : m = Ended(q, 204) /\ m.phase = "done" /\ m.mine = {}
    BY <1>1, EndedEffect DEF PutCodes
  <1>3. PutSound(m) /\ ~Holds(m)
    BY <1>2, OverIsSound
  <1>4. /\ put \in [Put -> Transaction]
        /\ put' \in [Put -> Transaction] /\ put'[t] = m
        /\ \A u \in Put \ {t} : put'[u] = put[u]
    BY <1>2 DEF Commit, Change, PutInv, PutTypeOK
  <1>5. rows' \subseteq rows \cup q.mine /\ UNCHANGED <<table, gone, deleting>>
    BY DEF Commit, Kept
  <1>6. DOMAIN wanted' \subseteq Item
    <2>1. DOMAIN Positions(q.order) \subseteq Item /\ DOMAIN wanted \subseteq Item
      BY <1>1, Fields, MembersAreItems DEF Positions, PutInv, PutTypeOK
    <2>2. DOMAIN wanted' \subseteq DOMAIN wanted \cup DOMAIN Positions(q.order)
      BY DEF Commit
    <2>. QED
      BY <2>1, <2>2
  <1>7. PutTypeOK'
    <2>1. rows' \subseteq Row
      BY <1>1, <1>5, Fields DEF PutInv, PutTypeOK
    <2>. QED
      BY <1>4, <1>5, <1>6, <2>1 DEF PutInv, PutTypeOK
  <1>8. NoGhostRows'
    BY <1>1, <1>5 DEF PutInv, NoGhostRows, PutSound, MineLive
  <1>9. LockedSetReplaced'
    BY <1>5, ReorderReplaces, AllowListReplaces DEF LockedSetReplaced
  <1>10. table = "allow" => Holds(q)
    BY <1>1 DEF Holds
  <1>11. \A u \in Put : Holds(put'[u]) => u # t /\ Holds(put[u])
    BY <1>3, <1>4
  <1>12. OneHolder'
    <2>. SUFFICES ASSUME NEW a \in Put, Holds(put'[a])
                  PROVE  /\ Owner \notin gone \cup deleting
                         /\ \A b \in Others(a) : ~Holds(put'[b])
      BY <1>5 DEF OneHolder, Others, Holds
    <2>1. OneHolder
      BY DEF PutInv
    <2>. QED
      BY <1>11, <2>1 DEF OneHolder, Others
  <1>13. ASSUME NEW u \in Put PROVE PutSound(put[u])'
    <2>1. CASE u = t
      <3>1. PutSound(put[u])' <=> PutSound(m)'
        BY <1>4, <2>1
      <3>. QED
        BY <1>2, <1>4, <1>5, <2>1
           DEF PutSound, AtOwnPhase, MineLive, InOrder, Exclusive, Numbered
    <2>2. CASE u # t
      <3>1. put'[u] = put[u] /\ PutSound(put[u])
        BY <1>4, <2>2 DEF PutInv
      <3>2. table = "allow" => ~Holds(put[u])
        BY <1>10, <2>2 DEF PutInv, OneHolder, Others
      <3>3. table = "allow" => put[u].phase \notin {"delete", "select", "insert"}
        BY <3>2 DEF Holds
      <3>4. Exclusive(put[u])'
        BY <1>5, <3>1, <3>3 DEF PutSound, Exclusive, Members
      <3>5. /\ AtOwnPhase(put[u])' /\ MineLive(put[u])' /\ InOrder(put[u])'
            /\ Numbered(put[u])'
        BY <1>5, <3>1 DEF PutSound, AtOwnPhase, MineLive, InOrder, Positioned, Rest, Behind,
                          Numbered, Items
      <3>. QED
        BY <3>4, <3>5 DEF PutSound
    <2>. QED
      BY <2>1, <2>2
  <1>. QED
    BY <1>5, <1>7, <1>8, <1>9, <1>12, <1>13 DEF PutInv

-----------------------------------------------------------------------------
(* Rollbacks and deletions                                                 *)

LEMMA AbortKeeps ==
  ASSUME PutInv, NEW t \in Put, Abort(t)
  PROVE  PutInv'
  BY FailKeeps DEF Abort, PutCodes

\* A deletion locks a target that no transaction has a share in, or lets go.
LEMMA DeletingKeeps ==
  ASSUME PutInv, UNCHANGED <<table, rows, gone, put, wanted>>,
         deleting' \subseteq Target,
         \A x \in deleting' \ deleting :
           /\ x \notin gone /\ ~(table = "order" /\ x = Owner)
           /\ \A t \in Put : x \notin Shares(t) /\ ~(x = Owner /\ OwnerLocked(t))
  PROVE  PutInv'
  <1>1. PutTypeOK' /\ NoGhostRows' /\ LockedSetReplaced'
    BY DEF PutInv, PutTypeOK, NoGhostRows, LockedSetReplaced, Replaced
  <1>2. gone' \cap deleting' = {}
    BY DEF PutInv
  <1>3. table' = "order" => Owner \notin gone' \cup deleting'
    BY DEF PutInv
  <1>4. OneHolder'
    <2>. SUFFICES ASSUME NEW t \in Put, Holds(put[t])
                  PROVE  Owner \notin deleting'
      BY DEF PutInv, OneHolder, Others, Holds
    <2>1. OwnerLocked(t) /\ Owner \notin deleting
      BY DEF PutInv, OneHolder, Holds, OwnerLocked, Active, InPhase
    <2>. QED
      BY <2>1
  <1>5. ASSUME NEW t \in Put PROVE PutSound(put[t])'
    <2>. DEFINE q == put[t]
    <2>1. PutSound(q)
      BY DEF PutInv
    <2>2. ASSUME NEW r \in q.mine PROVE {r.item, Owner} \cap (gone \cup deleting') = {}
      <3>1. r.item \in Shares(t) /\ Owner \in Shares(t)
        BY DEF Shares, Items
      <3>2. {r.item, Owner} \cap (gone \cup deleting) = {}
        BY <2>1 DEF PutSound, MineLive
      <3>. QED
        BY <3>1, <3>2
    <2>3. MineLive(q)'
      BY <2>2 DEF MineLive
    <2>4. q' = q /\ UNCHANGED <<table, rows, gone>>
      OBVIOUS
    <2>5. AtOwnPhase(q)' /\ InOrder(q)' /\ Numbered(q)'
      BY <2>1, <2>4 DEF PutSound, AtOwnPhase, InOrder, Positioned, Rest, Behind, Numbered, Items
    <2>6. Exclusive(q)'
      BY <2>1, <2>4 DEF PutSound, Exclusive, Members, Items
    <2>. QED
      BY <2>3, <2>5, <2>6 DEF PutSound
  <1>. QED
    BY <1>1, <1>2, <1>3, <1>4, <1>5 DEF PutInv

LEMMA LockTargetKeeps ==
  ASSUME PutInv, NEW x \in Target, LockTarget(x)
  PROVE  PutInv'
  <1>1. deleting' = deleting \cup {x} /\ deleting \subseteq Target
    BY DEF LockTarget, PutInv, PutTypeOK
  <1>2. /\ x \notin gone /\ ~(table = "order" /\ x = Owner)
        /\ \A t \in Put : x \notin Shares(t) /\ ~(x = Owner /\ OwnerLocked(t))
    BY DEF LockTarget
  <1>. QED
    BY <1>1, <1>2, DeletingKeeps DEF LockTarget

LEMMA DeadlockVictimKeeps ==
  ASSUME PutInv, NEW a \in Put \cup Target, DeadlockVictim(a)
  PROVE  PutInv'
  <1>1. CASE a \in Put
    BY <1>1, FailKeeps DEF DeadlockVictim, PutCodes
  <1>2. CASE a \notin Put
    <2>1. deleting' \subseteq deleting /\ deleting \subseteq Target
      BY <1>2 DEF DeadlockVictim, PutInv, PutTypeOK
    <2>2. UNCHANGED <<table, rows, gone, put, wanted>>
      BY <1>2 DEF DeadlockVictim
    <2>. QED
      BY <2>1, <2>2, DeletingKeeps
  <1>. QED
    BY <1>1, <1>2

\* A deletion takes with it every row that refers to what it deletes.
LEMMA CascadeKeeps ==
  ASSUME PutInv, NEW x \in Target, Cascade(x)
  PROVE  PutInv'
  <1>1. /\ x \in deleting /\ rows' = {r \in rows : x \notin {r.item, Owner}}
        /\ gone' = gone \cup {x} /\ deleting' = deleting \ {x}
        /\ UNCHANGED <<table, put, wanted>>
    BY DEF Cascade, Refers
  <1>2. gone' \cup deleting' = gone \cup deleting /\ gone' \cap deleting' = {}
    BY <1>1 DEF PutInv
  <1>3. PutTypeOK'
    BY <1>1 DEF PutInv, PutTypeOK
  <1>4. NoGhostRows'
    BY <1>1 DEF PutInv, NoGhostRows
  <1>5. LockedSetReplaced'
    <2>. SUFFICES ASSUME Replaced PROVE Replaced'
      BY <1>1 DEF PutInv, LockedSetReplaced
    <2>1. SamePairs(rows, wanted, gone)
      BY DEF Replaced, SamePairs
    <2>2. RowsAreThose(rows, wanted, gone)
      BY <2>1, RowByRow
    <2>3. RowsAreThose(rows', wanted', gone')
      BY <1>1, <2>2 DEF RowsAreThose
    <2>4. SamePairs(rows', wanted', gone')
      BY <2>3, RowByRow
    <2>. QED
      BY <2>4 DEF Replaced, SamePairs
  <1>6. OneHolder'
    BY <1>1, <1>2 DEF PutInv, OneHolder, Others, Holds
  <1>7. ASSUME NEW t \in Put PROVE PutSound(put[t])'
    <2>. DEFINE q == put[t]
    <2>1. PutSound(q) /\ q' = q
      BY <1>1 DEF PutInv
    <2>2. MineLive(q)'
      BY <1>2, <2>1 DEF PutSound, MineLive
    <2>3. AtOwnPhase(q)' /\ InOrder(q)' /\ Numbered(q)'
      BY <1>1, <2>1 DEF PutSound, AtOwnPhase, InOrder, Positioned, Rest, Behind, Numbered, Items
    <2>4. Exclusive(q)'
      <3>1. rows' \subseteq rows /\ gone \subseteq gone' /\ table' = table
        BY <1>1
      <3>. QED
        BY <2>1, <3>1 DEF PutSound, Exclusive, Members, Items
    <2>. QED
      BY <2>2, <2>3, <2>4 DEF PutSound
  <1>8. table' = "order" => Owner \notin gone' \cup deleting'
    BY <1>1, <1>2 DEF PutInv
  <1>. QED
    BY <1>2, <1>3, <1>4, <1>5, <1>6, <1>7, <1>8 DEF PutInv

-----------------------------------------------------------------------------
(* The specification                                                       *)

\* At first the rows are one list's, in its order, and nobody is at them.
LEMMA PutInitInv == PutInit => PutInv
  <1>. SUFFICES ASSUME PutInit PROVE PutInv
    OBVIOUS
  <1>1. PICK order \in Order :
          /\ Distinct(order) /\ wanted = Positions(order)
          /\ rows = {[item |-> x, pos |-> wanted[x], by |-> Before] : x \in Members(order)}
    BY DEF PutInit
  <1>2. order \in Seq(Item) /\ Members(order) \subseteq Item
    BY OrdersAreSequences, MembersAreItems
  <1>3. DOMAIN wanted = Members(order)
    BY <1>1 DEF Positions
  <1>4. ASSUME NEW x \in Members(order) PROVE wanted[x] \in Nat
    <2>1. PICK p \in DOMAIN order : order[p] = x
      BY DEF Members
    <2>2. \A j \in DOMAIN order : order[j] = order[p] => j <= p
      BY <1>1, <1>2, LenProperties DEF Distinct
    <2>3. wanted[x] = IF Positioned THEN p - 1 ELSE 0
      BY <1>1, <1>2, <2>1, <2>2, PositionsOf
    <2>4. p \in Nat /\ p >= 1
      BY <1>2, LenProperties
    <2>. QED
      BY <2>3, <2>4
  <1>5. rows \subseteq Row
    BY <1>1, <1>2, <1>4 DEF Row
  <1>6. gone = {} /\ deleting = {} /\ table \in Tables /\ put = [t \in Put |-> Unsent]
    BY DEF PutInit
  <1>7. PutTypeOK
    BY <1>2, <1>3, <1>5, <1>6, UnsentEffect DEF PutTypeOK
  <1>8. NoGhostRows /\ gone \cap deleting = {} /\ Owner \notin gone \cup deleting
    BY <1>6 DEF NoGhostRows
  <1>9. LockedSetReplaced
    <2>1. \A r \in rows : r.item \in DOMAIN wanted /\ r.pos = wanted[r.item]
      BY <1>1, <1>3
    <2>2. ASSUME NEW x \in DOMAIN wanted
          PROVE  \E r \in rows : r.item = x /\ r.pos = wanted[x]
      <3>1. [item |-> x, pos |-> wanted[x], by |-> Before] \in rows
        BY <1>1, <1>3
      <3>. QED
        BY <3>1
    <2>3. RowsAreThose(rows, wanted, gone)
      BY <1>6, <2>1, <2>2 DEF RowsAreThose
    <2>4. SamePairs(rows, wanted, gone)
      BY <2>3, RowByRow
    <2>. QED
      BY <2>4 DEF LockedSetReplaced, Replaced, SamePairs
  <1>10. \A t \in Put : PutSound(put[t]) /\ ~Holds(put[t])
    BY <1>6, UnsentEffect, OverIsSound
  <1>. QED
    BY <1>7, <1>8, <1>9, <1>10 DEF PutInv, OneHolder

LEMMA PutInvKept == PutInv /\ [PutNext]_putVars => PutInv'
  <1>. SUFFICES ASSUME PutInv, [PutNext]_putVars PROVE PutInv'
    OBVIOUS
  <1>1. ASSUME NEW t \in Put, NEW order \in Order, Send(t, order) PROVE PutInv'
    BY <1>1, SendKeeps
  <1>2. ASSUME NEW t \in Put, Statement(t) PROVE PutInv'
    BY <1>2, LockOwnerKeeps, StartDeleteKeeps, DeleteRowsKeeps, SelectLiveKeeps,
       InsertRowKeeps, UpdateRowKeeps, CommitKeeps DEF Statement
  <1>3. ASSUME NEW t \in Put, Abort(t) PROVE PutInv'
    BY <1>3, AbortKeeps
  <1>4. ASSUME NEW x \in Target, LockTarget(x) \/ Cascade(x) PROVE PutInv'
    BY <1>4, LockTargetKeeps, CascadeKeeps
  <1>5. ASSUME NEW a \in Put \cup Target, DeadlockVictim(a) PROVE PutInv'
    BY <1>5, DeadlockVictimKeeps
  <1>6. CASE UNCHANGED putVars
    <2>1. deleting \subseteq Target
      BY DEF PutInv, PutTypeOK
    <2>. QED
      BY <1>6, <2>1, DeletingKeeps DEF putVars
  <1>7. CASE AllAnswered
    BY <1>6, <1>7 DEF AllAnswered
  <1>. QED
    BY <1>1, <1>2, <1>3, <1>4, <1>5, <1>6, <1>7 DEF PutNext

\* The inductive invariant, whatever the PUTs and deletions and however their
\* statements interleave, wait, fail or are picked as deadlock victims.
THEOREM PutInvariant == PutSpec => []PutInv
  BY PutInitInv, PutInvKept, PTL DEF PutSpec

\* Every variable stays in its type.
THEOREM PutAlwaysTyped == PutSpec => []PutTypeOK
  <1>1. PutInv => PutTypeOK
    BY DEF PutInv
  <1>. QED
    BY <1>1, PutInvariant, PTL

\* No row outlives the service, category, offer or user it refers to: a PUT's
\* foreign keys and a DELETE's cascade see each other whatever the overlap.
THEOREM NeverGhostRows == PutSpec => []NoGhostRows
  <1>1. PutInv => NoGhostRows
    BY DEF PutInv
  <1>. QED
    BY <1>1, PutInvariant, PTL

\* A kid's allow-list and a global order are always what the last accepted PUT
\* listed, less what was deleted since: SetKidServices's FOR UPDATE and a
\* reorder's row locks are enough, for any number of PUTs at once.
THEOREM LockedSetAlwaysReplaced == PutSpec => []LockedSetReplaced
  <1>1. PutInv => LockedSetReplaced
    BY DEF PutInv
  <1>. QED
    BY <1>1, PutInvariant, PTL

\* A PUT that fails, waits or is rolled back leaves the rows as they were: they
\* change when one is answered 204 or something they refer to is deleted.
THEOREM FailureAlwaysKeepsPriorSet == PutSpec => FailureKeepsPriorSet
  <1>1. ASSUME PutInv, [PutNext]_putVars, rows' # rows
        PROVE  gone' # gone \/ \E t \in Put : Active(t) /\ put'[t].code = 204
    <2>1. ASSUME NEW t \in Put, Commit(t) PROVE Active(t) /\ put'[t].code = 204
      <3>1. put \in [Put -> Transaction]
        BY <1>1 DEF PutInv, PutTypeOK
      <3>2. Ended(put[t], 204).code = 204
        BY <3>1, EndedEffect DEF PutCodes
      <3>. QED
        BY <2>1, <3>1, <3>2 DEF Commit, Change, Active, InPhase
    <2>2. ASSUME NEW x \in Target, Cascade(x) PROVE gone' # gone
      BY <1>1, <2>2 DEF Cascade, PutInv
    <2>3. ASSUME NEW t \in Put, Statement(t) PROVE Commit(t)
      BY <1>1, <2>3 DEF Statement, LockOwner, StartDelete, DeleteRows, SelectLive, InsertRow,
                        UpdateRow, Fail
    <2>4. ASSUME NEW t \in Put, Abort(t) PROVE FALSE
      BY <1>1, <2>4 DEF Abort, Fail
    <2>5. ASSUME NEW t \in Put, NEW order \in Order, Send(t, order) PROVE FALSE
      BY <1>1, <2>5 DEF Send
    <2>6. ASSUME NEW x \in Target, LockTarget(x) PROVE FALSE
      BY <1>1, <2>6 DEF LockTarget
    <2>7. ASSUME NEW a \in Put \cup Target, DeadlockVictim(a) PROVE FALSE
      BY <1>1, <2>7 DEF DeadlockVictim, Fail
    <2>8. ~UNCHANGED putVars /\ ~AllAnswered
      BY <1>1 DEF AllAnswered, putVars
    <2>. QED
      BY <1>1, <2>1, <2>2, <2>3, <2>4, <2>5, <2>6, <2>7, <2>8 DEF PutNext
  <1>2. PutInv /\ [PutNext]_putVars
          => [rows' # rows =>
                gone' # gone \/ \E t \in Put : Active(t) /\ put'[t].code = 204]_putVars
    BY <1>1
  <1>. QED
    BY <1>2, PutInvariant, PTL DEF PutSpec, FailureKeepsPriorSet

-----------------------------------------------------------------------------
(* The PUTs are atomic                                                     *)

\* Rows it wrote are its own, of its list, one per item, and are there only
\* while it is writing; what it has still to write is of its list too.
OwnRows(t, q) ==
  /\ q.phase = "done" <=> q.code # 0
  /\ q.phase \notin {"insert", "update"} => q.mine = {}
  /\ \A r \in q.mine : r.by = t /\ r.item \in Members(q.order)
  /\ Atomic!OncePerItem(q.mine)
  /\ q.phase \in {"insert", "update"} => Members(q.todo) \subseteq Members(q.order)

\* The PUTs answered before it was sent are still answered, and of their rows
\* and of the first ones none escapes its DELETE.
Newer(q, r) == r.by \notin q.earlier \cup {Before}
Fresh(q) ==
  /\ \A u \in q.earlier : InPhase(u, "done")
  /\ table # "order" =>
       /\ q.phase = "delete" => \A r \in rows \ q.snap : Newer(q, r)
       /\ q.phase \in {"select", "insert"} => \A r \in rows \ q.dead : Newer(q, r)

\* Its rows collide with none of those it leaves: the unique key.
Apart(q) == table # "order" => Items(rows \ q.dead) \cap Items(q.mine) = {}

\* A layout has placed the first ids of its list.
Placed(t, q) ==
  table = "layout" /\ q.phase = "insert" =>
    /\ \A i \in 1..Behind(q) : [item |-> q.order[i], pos |-> i - 1, by |-> t] \in q.mine
    /\ \A r \in q.mine : r.pos + 1 \in 1..Behind(q) /\ q.order[r.pos + 1] = r.item

\* Collapsed are those it has been through, unless an overlapping PUT was first.
Overtaken(t, q) == \E u \in Others(t) \ q.earlier : put[u].code = 204
Collapsed(t, q) ==
  table = "collapsed" /\ q.phase = "insert" =>
    /\ \A r \in q.mine : r.pos = 0
    /\ \/ Members(q.order) \ gone \subseteq Items(q.mine) \cup Members(q.todo)
       \/ Overtaken(t, q)

AtomicSound(t, q) ==
  OwnRows(t, q) /\ Fresh(q) /\ Apart(q) /\ Placed(t, q) /\ Collapsed(t, q)

\* No two transactions have written the same item, and each row that is there
\* was there at first or is of a PUT that was accepted.
AtomicInv ==
  /\ \A t \in Put : AtomicSound(t, put[t])
  /\ \A t \in Put : \A u \in Others(t) : Items(put[t].mine) \cap Items(put[u].mine) = {}
  /\ Atomic!OncePerItem(rows)
  /\ \A r \in rows : r.by = Before \/ (r.by \in Put /\ put[r.by].code = 204)

-----------------------------------------------------------------------------
(* ... which each statement keeps                                          *)

\* A transaction that has no rows is sound if it is before its DELETE or over.
LEMMA EmptyIsAtomic ==
  ASSUME NEW t, NEW m, m.mine = {}, m.phase \notin {"delete", "select", "insert", "update"},
         m.phase = "done" <=> m.code # 0,
         \A u \in m.earlier : InPhase(u, "done")
  PROVE  AtomicSound(t, m)
  BY DEF AtomicSound, OwnRows, Atomic!OncePerItem, Fresh, Apart, Items, Placed, Collapsed

LEMMA OneMovesAtomic ==
  ASSUME PutInv, AtomicInv, NEW t \in Put, NEW m \in Transaction, Change(t, m),
         UNCHANGED <<table, rows, gone>>, put[t].phase # "done", AtomicSound(t, m),
         \A u \in Others(t) : Items(m.mine) \cap Items(put[u].mine) = {}
  PROVE  AtomicInv'
  <1>1. /\ put' \in [Put -> Transaction] /\ put'[t] = m
        /\ \A u \in Put \ {t} : put'[u] = put[u]
    BY DEF Change, PutInv, PutTypeOK
  <1>2. \A u \in Put : AtomicSound(u, put[u])
    BY DEF AtomicInv
  <1>3. \A u \in Put : InPhase(u, "done") => u # t /\ put'[u] = put[u]
    BY <1>1 DEF InPhase
  <1>4. \A u \in Put : put[u].code = 204 => u # t /\ put'[u] = put[u]
    BY <1>1, <1>2 DEF AtomicSound, OwnRows
  <1>5. ASSUME NEW u \in Put PROVE AtomicSound(u, put[u])'
    <2>. DEFINE q == put'[u]
    <2>1. AtomicSound(u, q) /\ q \in Transaction
      BY <1>1, <1>2
    <2>2. OwnRows(u, put[u])' /\ Placed(u, put[u])'
      BY <2>1 DEF AtomicSound, OwnRows, Placed, Members, Behind, Atomic!OncePerItem
    <2>3. Apart(put[u])'
      BY <2>1 DEF AtomicSound, Apart, Items
    <2>4. Fresh(put[u])'
      <3>1. \A v \in q.earlier : v \in Put /\ InPhase(v, "done")
        BY <2>1, Fields DEF AtomicSound, Fresh
      <3>2. \A v \in q.earlier : put'[v].phase = "done"
        BY <1>3, <3>1 DEF InPhase
      <3>. QED
        BY <2>1, <3>2 DEF AtomicSound, Fresh, Newer, InPhase
    <2>5. Overtaken(u, q) => Overtaken(u, put[u])'
      BY <1>4 DEF Overtaken, Others
    <2>6. Collapsed(u, put[u])'
      BY <2>1, <2>5 DEF AtomicSound, Collapsed, Items, Members
    <2>. QED
      BY <2>2, <2>3, <2>4, <2>6 DEF AtomicSound
  <1>6. ASSUME NEW u \in Put, NEW v \in Others(u)
        PROVE  Items(put'[u].mine) \cap Items(put'[v].mine) = {}
    <2>1. Items(put[u].mine) \cap Items(put[v].mine) = {}
      BY DEF AtomicInv
    <2>2. v \in Put /\ v # u
      BY DEF Others
    <2>3. CASE u = t
      BY <1>1, <2>2, <2>3 DEF Others
    <2>4. CASE v = t
      BY <1>1, <2>2, <2>4 DEF Others
    <2>5. CASE u # t /\ v # t
      BY <1>1, <2>1, <2>2, <2>5
    <2>. QED
      BY <2>3, <2>4, <2>5
  <1>7. Atomic!OncePerItem(rows)'
    BY DEF AtomicInv, Atomic!OncePerItem
  <1>8. \A r \in rows' : r.by = Before \/ (r.by \in Put /\ put'[r.by].code = 204)
    BY <1>4 DEF AtomicInv
  <1>9. (\A u \in Put : \A v \in Others(u) : Items(put[u].mine) \cap Items(put[v].mine) = {})'
    BY <1>6 DEF Others, Items
  <1>. QED
    BY <1>5, <1>7, <1>8, <1>9 DEF AtomicInv

LEMMA FailKeepsAtomic ==
  ASSUME PutInv, AtomicInv, NEW t \in Put, put[t].phase # "done",
         NEW code \in {400, 404, 500}, Fail(t, code), UNCHANGED <<table, gone>>
  PROVE  AtomicInv'
  <1>1. put[t] \in Transaction /\ AtomicSound(t, put[t])
    BY DEF PutInv, PutTypeOK, AtomicInv
  <1>2. PICK m \in Transaction :
          /\ m = Ended(put[t], code) /\ m.phase = "done" /\ m.mine = {} /\ m.code = code
          /\ m.earlier = put[t].earlier
    BY <1>1, EndedEffect DEF PutCodes
  <1>3. AtomicSound(t, m)
    <2>1. \A u \in m.earlier : InPhase(u, "done")
      BY <1>1, <1>2 DEF AtomicSound, Fresh
    <2>2. m.code # 0
      BY <1>2
    <2>. QED
      BY <1>2, <2>1, <2>2, EmptyIsAtomic
  <1>4. \A u \in Others(t) : Items(m.mine) \cap Items(put[u].mine) = {}
    BY <1>2 DEF Items
  <1>5. Change(t, m) /\ UNCHANGED rows
    BY <1>2 DEF Fail
  <1>. QED
    BY <1>3, <1>4, <1>5, OneMovesAtomic

LEMMA SendKeepsAtomic ==
  ASSUME PutInv, AtomicInv, NEW t \in Put, NEW order \in Order, Send(t, order)
  PROVE  AtomicInv'
  <1>1. table \in Tables /\ order \in Seq(Item)
    BY OrdersAreSequences DEF PutInv, PutTypeOK
  <1>2. PICK m \in Transaction :
          /\ m = Begun(order) /\ m.order = order /\ m.mine = {} /\ m.phase = FirstPhase
          /\ table = "order" => m.todo = order
          /\ m.earlier = {u \in Put : InPhase(u, "done")} /\ m.code = 0
    BY <1>1, BegunEffect
  <1>3. FirstPhase = IF table = "allow" THEN "lock"
                     ELSE IF table = "order" THEN "update" ELSE "snapshot"
    BY <1>1, PutAssumption DEF FirstPhase
  <1>4. AtomicSound(t, m)
    BY <1>2, <1>3 DEF AtomicSound, OwnRows, Atomic!OncePerItem, Fresh, Apart, Items, Placed,
                      Collapsed
  <1>5. put[t].phase # "done"
    BY DEF Send, InPhase
  <1>6. \A u \in Others(t) : Items(m.mine) \cap Items(put[u].mine) = {}
    BY <1>2 DEF Items
  <1>. QED
    BY <1>2, <1>4, <1>5, <1>6, OneMovesAtomic DEF Send

LEMMA LockOwnerKeepsAtomic ==
  ASSUME PutInv, AtomicInv, NEW t \in Put, LockOwner(t)
  PROVE  AtomicInv'
  <1>1. put[t] \in Transaction /\ AtomicSound(t, put[t]) /\ put[t].phase = "lock"
    BY DEF PutInv, PutTypeOK, AtomicInv, LockOwner, InPhase
  <1>2. CASE Change(t, Locked(put[t])) /\ UNCHANGED <<rows, wanted>>
    <2>1. PICK m \in Transaction :
            /\ m = Locked(put[t]) /\ m.phase = "snapshot"
            /\ m.order = put[t].order /\ m.mine = put[t].mine
            /\ m.earlier = put[t].earlier /\ m.code = put[t].code
      BY <1>1, LockedEffect
    <2>2. m.mine = {} /\ m.code = 0 /\ \A u \in m.earlier : InPhase(u, "done")
      BY <1>1, <2>1 DEF AtomicSound, OwnRows, Fresh
    <2>3. AtomicSound(t, m)
      BY <2>1, <2>2, EmptyIsAtomic
    <2>4. \A u \in Others(t) : Items(m.mine) \cap Items(put[u].mine) = {}
      BY <2>2 DEF Items
    <2>. QED
      BY <1>1, <1>2, <2>1, <2>3, <2>4, OneMovesAtomic DEF LockOwner
  <1>3. CASE Fail(t, 404) \/ Fail(t, 400)
    BY <1>1, <1>3, FailKeepsAtomic DEF LockOwner
  <1>. QED
    BY <1>2, <1>3 DEF LockOwner

LEMMA StartDeleteKeepsAtomic ==
  ASSUME PutInv, AtomicInv, NEW t \in Put, StartDelete(t)
  PROVE  AtomicInv'
  <1>1. /\ put[t] \in Transaction /\ AtomicSound(t, put[t]) /\ put[t].phase = "snapshot"
        /\ rows \subseteq Row
    BY DEF PutInv, PutTypeOK, AtomicInv, StartDelete, InPhase
  <1>2. PICK m \in Transaction :
          /\ m = Snapped(put[t]) /\ m.phase = "delete" /\ m.snap = rows
          /\ m.order = put[t].order /\ m.mine = put[t].mine
          /\ m.earlier = put[t].earlier /\ m.code = put[t].code
    BY <1>1, SnappedEffect
  <1>3. m.mine = {} /\ m.code = 0 /\ \A u \in m.earlier : InPhase(u, "done")
    BY <1>1, <1>2 DEF AtomicSound, OwnRows, Fresh
  <1>4. AtomicSound(t, m)
    BY <1>2, <1>3 DEF AtomicSound, OwnRows, Atomic!OncePerItem, Fresh, Apart, Items, Placed,
                      Collapsed
  <1>5. \A u \in Others(t) : Items(m.mine) \cap Items(put[u].mine) = {}
    BY <1>3 DEF Items
  <1>. QED
    BY <1>1, <1>2, <1>4, <1>5, OneMovesAtomic DEF StartDelete

LEMMA DeleteRowsKeepsAtomic ==
  ASSUME PutInv, AtomicInv, NEW t \in Put, DeleteRows(t)
  PROVE  AtomicInv'
  <1>1. /\ put[t] \in Transaction /\ AtomicSound(t, put[t]) /\ put[t].phase = "delete"
        /\ PutSound(put[t])
    BY DEF PutInv, PutTypeOK, AtomicInv, DeleteRows, InPhase
  <1>2. PICK m \in Transaction :
          /\ m = Emptied(put[t])
          /\ m.phase = IF table = "layout" THEN "insert" ELSE "select"
          /\ m.dead = put[t].snap \cap rows /\ m.todo = put[t].order
          /\ m.order = put[t].order /\ m.mine = put[t].mine
          /\ m.earlier = put[t].earlier /\ m.code = put[t].code
    BY <1>1, EmptiedEffect
  <1>3. /\ m.mine = {} /\ m.code = 0 /\ \A u \in m.earlier : InPhase(u, "done")
        /\ table # "order" /\ \A r \in rows \ put[t].snap : Newer(put[t], r)
    BY <1>1, <1>2 DEF AtomicSound, OwnRows, Fresh, PutSound, AtOwnPhase
  <1>4. Fresh(m)
    BY <1>2, <1>3 DEF Fresh, Newer
  <1>5. OwnRows(t, m) /\ Apart(m)
    BY <1>2, <1>3 DEF OwnRows, Apart, Atomic!OncePerItem, Items
  <1>6. Placed(t, m)
    <2>1. Behind(m) = 0
      BY <1>2, Fields, WholeIsRest
    <2>. QED
      BY <1>3, <2>1 DEF Placed
  <1>7. AtomicSound(t, m)
    BY <1>2, <1>4, <1>5, <1>6 DEF AtomicSound, Collapsed
  <1>8. \A u \in Others(t) : Items(m.mine) \cap Items(put[u].mine) = {}
    BY <1>3 DEF Items
  <1>. QED
    BY <1>1, <1>2, <1>7, <1>8, OneMovesAtomic DEF DeleteRows

LEMMA SelectLiveKeepsAtomic ==
  ASSUME PutInv, AtomicInv, NEW t \in Put, SelectLive(t)
  PROVE  AtomicInv'
  <1>1. /\ put[t] \in Transaction /\ AtomicSound(t, put[t]) /\ put[t].phase = "select"
        /\ PutSound(put[t])
    BY DEF PutInv, PutTypeOK, AtomicInv, SelectLive, InPhase
  <1>2. PICK todo \in ListsOf(0..MaxLen) :
          Members(todo) = Members(put[t].order) \ gone /\ Change(t, Selected(put[t], todo))
    BY DEF SelectLive
  <1>3. todo \in Seq(Item)
    BY <1>2, ListsAreSequences, PutAssumption
  <1>4. PICK m \in Transaction :
          /\ m = Selected(put[t], todo) /\ m.phase = "insert" /\ m.todo = todo
          /\ m.order = put[t].order /\ m.mine = put[t].mine /\ m.dead = put[t].dead
          /\ m.earlier = put[t].earlier /\ m.code = put[t].code
    BY <1>1, <1>3, SelectedEffect
  <1>5. m.mine = {} /\ m.code = 0 /\ table \notin {"order", "layout"}
    BY <1>1, <1>4 DEF AtomicSound, OwnRows, PutSound, AtOwnPhase
  <1>6. Fresh(m)
    BY <1>1, <1>4 DEF AtomicSound, Fresh, Newer
  <1>7. OwnRows(t, m) /\ Apart(m) /\ Collapsed(t, m)
    BY <1>2, <1>4, <1>5 DEF OwnRows, Apart, Collapsed, Atomic!OncePerItem, Items
  <1>8. AtomicSound(t, m)
    BY <1>5, <1>6, <1>7 DEF AtomicSound, Placed
  <1>9. \A u \in Others(t) : Items(m.mine) \cap Items(put[u].mine) = {}
    BY <1>5 DEF Items
  <1>. QED
    BY <1>1, <1>2, <1>4, <1>8, <1>9, OneMovesAtomic DEF SelectLive

\* An id in a row that a collapse leaves is there by an overlapping PUT.
LEMMA PassedIsOvertaken ==
  ASSUME AtomicInv, NEW t \in Put, put[t].phase = "insert", table = "collapsed",
         NEW r \in rows \ put[t].dead
  PROVE  Overtaken(t, put[t])
  <1>1. AtomicSound(t, put[t]) /\ put[t].code = 0
    BY DEF AtomicInv, AtomicSound, OwnRows
  <1>2. r.by \notin put[t].earlier \cup {Before}
    BY <1>1 DEF AtomicSound, Fresh, Newer
  <1>3. r.by \in Put /\ put[r.by].code = 204
    BY <1>2 DEF AtomicInv
  <1>. QED
    BY <1>1, <1>2, <1>3 DEF Overtaken, Others

\* One more row of its own, of an item that it has not written yet.
LEMMA OneMoreOwnRow ==
  ASSUME NEW t, NEW q, NEW m, NEW row,
         OwnRows(t, q), m.code = q.code, m.phase = q.phase, m.phase \in {"insert", "update"},
         m.order = q.order, row.by = t, row.item \in Members(q.order),
         Members(m.todo) \subseteq Members(q.todo),
         m.mine = {r \in q.mine : r.item # row.item} \cup {row}
  PROVE  OwnRows(t, m)
  <1>1. \A r \in m.mine : r.by = t /\ r.item \in Members(m.order)
    BY DEF OwnRows
  <1>2. Atomic!OncePerItem(m.mine)
    BY DEF OwnRows, Atomic!OncePerItem
  <1>. QED
    BY <1>1, <1>2 DEF OwnRows

\* A layout gives the next id the next place.
LEMMA PlacingGrows ==
  ASSUME NEW t, NEW q \in Transaction, NEW m \in Transaction, NEW row \in Row,
         table = "layout", q.phase = "insert", q.todo # <<>>, Rest(q), Placed(t, q),
         m.order = q.order, m.todo = Tail(q.todo),
         row.item = Head(q.todo), row.pos = Behind(q), row.by = t,
         m.mine = q.mine \cup {row}
  PROVE  Placed(t, m)
  <1>1. /\ Behind(m) = Behind(q) + 1 /\ Behind(q) \in Nat
        /\ row.item = q.order[Behind(m)]
    BY RestShrinks
  <1>2. /\ \A i \in 1..Behind(q) : [item |-> q.order[i], pos |-> i - 1, by |-> t] \in q.mine
        /\ \A r \in q.mine : r.pos + 1 \in 1..Behind(q) /\ q.order[r.pos + 1] = r.item
    BY DEF Placed
  <1>3. \A i \in 1..Behind(m) : i \in 1..Behind(q) \/ i = Behind(m)
    BY <1>1
  <1>4. row = [item |-> q.order[Behind(m)], pos |-> Behind(m) - 1, by |-> t]
    <2>1. row = [item |-> row.item, pos |-> row.pos, by |-> row.by]
      BY DEF Row
    <2>2. row.pos = Behind(m) - 1
      BY <1>1
    <2>. QED
      BY <1>1, <2>1, <2>2
  <1>5. \A i \in 1..Behind(m) : [item |-> m.order[i], pos |-> i - 1, by |-> t] \in m.mine
    BY <1>2, <1>3, <1>4
  <1>6. \A r \in q.mine : r.pos + 1 \in 1..Behind(m) /\ m.order[r.pos + 1] = r.item
    BY <1>1, <1>2
  <1>7. row.pos + 1 \in 1..Behind(m) /\ m.order[row.pos + 1] = row.item
    BY <1>1
  <1>. QED
    BY <1>5, <1>6, <1>7 DEF Placed

LEMMA InsertRowKeepsAtomic ==
  ASSUME PutInv, AtomicInv, NEW t \in Put, InsertRow(t)
  PROVE  AtomicInv'
  <1>. DEFINE q == put[t]
              id == Head(put[t].todo)
              row == NextRow(t)
  <1>1. /\ q \in Transaction /\ PutSound(q) /\ AtomicSound(t, q)
        /\ q.phase = "insert" /\ q.todo # <<>>
    BY DEF PutInv, PutTypeOK, AtomicInv, InsertRow, InPhase
  <1>2. table # "order" /\ OwnRows(t, q) /\ Fresh(q) /\ Apart(q)
    BY <1>1 DEF PutSound, AtOwnPhase, AtomicSound
  <1>3. q.todo \in Seq(Item) /\ id \in Item /\ Members(q.todo) = {id} \cup Members(Tail(q.todo))
    BY <1>1, Fields, RestOfList
  <1>4. id \in Members(q.order) /\ Members(Tail(q.todo)) \subseteq Members(q.order)
    BY <1>1, <1>2, <1>3 DEF OwnRows
  <1>5. row \in Row /\ row.item = id /\ row.pos = (IF Positioned THEN Behind(q) ELSE 0)
    BY <1>1, NextRowEffect
  <1>6. row.by = t
    BY DEF NextRow
  <1>7. CASE Fail(t, 404) \/ Fail(t, 500)
    BY <1>1, <1>7, FailKeepsAtomic DEF InsertRow
  <1>8. ASSUME table = "collapsed", id \in Items((rows \ q.dead) \cup q.mine),
               Change(t, Passed(q)), UNCHANGED <<rows, wanted>>
        PROVE  AtomicInv'
    <2>1. PICK m \in Transaction :
            /\ m = Passed(q) /\ m.phase = "insert" /\ m.todo = Tail(q.todo)
            /\ m.order = q.order /\ m.mine = q.mine /\ m.dead = q.dead
            /\ m.earlier = q.earlier /\ m.code = q.code
      <3>1. LET m == Passed(q)
            IN  /\ m \in Transaction /\ m.phase = q.phase /\ m.todo = Tail(q.todo)
                /\ m.order = q.order /\ m.mine = q.mine /\ m.dead = q.dead
                /\ m.earlier = q.earlier /\ m.code = q.code
        BY <1>1, PassedEffect
      <3>. QED
        BY <1>1, <3>1
    <2>2. OwnRows(t, m) /\ Fresh(m) /\ Apart(m)
      BY <1>1, <1>2, <1>4, <2>1 DEF OwnRows, Fresh, Newer, Apart
    <2>3. Overtaken(t, q) => Overtaken(t, m)
      BY <2>1 DEF Overtaken
    <2>4. Collapsed(t, m)
      <3>1. CASE id \in Items(q.mine)
        BY <1>1, <1>3, <1>8, <2>1, <2>3, <3>1 DEF AtomicSound, Collapsed
      <3>2. CASE id \in Items(rows \ q.dead)
        <4>1. PICK r \in rows \ q.dead : r.item = id
          BY <3>2 DEF Items
        <4>2. Overtaken(t, m)
          BY <1>1, <1>8, <2>3, PassedIsOvertaken
        <4>. QED
          BY <1>1, <1>8, <2>1, <4>2 DEF AtomicSound, Collapsed
      <3>. QED
        BY <1>8, <3>1, <3>2 DEF Items
    <2>5. AtomicSound(t, m)
      BY <1>8, <2>2, <2>4 DEF AtomicSound, Placed
    <2>6. \A u \in Others(t) : Items(m.mine) \cap Items(put[u].mine) = {}
      BY <2>1 DEF AtomicInv
    <2>. QED
      BY <1>1, <1>8, <2>1, <2>5, <2>6, OneMovesAtomic DEF InsertRow
  <1>9. ASSUME id \notin Items((rows \ q.dead) \cup q.mine), Change(t, Wrote(q, row)),
               UNCHANGED <<rows, wanted>>
        PROVE  AtomicInv'
    <2>1. PICK m \in Transaction :
            /\ m = Wrote(q, row) /\ m.phase = "insert" /\ m.todo = Tail(q.todo)
            /\ m.order = q.order /\ m.dead = q.dead
            /\ m.earlier = q.earlier /\ m.code = q.code
            /\ m.mine = {r \in q.mine : r.item # row.item} \cup {row}
            /\ Items(m.mine) = Items(q.mine) \cup {row.item}
      <3>1. LET m == Wrote(q, row)
            IN  /\ m \in Transaction /\ m.phase = q.phase /\ m.todo = Tail(q.todo)
                /\ m.order = q.order /\ m.dead = q.dead
                /\ m.earlier = q.earlier /\ m.code = q.code
                /\ m.mine = {r \in q.mine : r.item # row.item} \cup {row}
                /\ Items(m.mine) = Items(q.mine) \cup {row.item}
        BY <1>1, <1>5, WroteEffect
      <3>. QED
        BY <1>1, <3>1
    <2>2. id \notin Items(rows \ q.dead) /\ \A r \in q.mine : r.item # id
      BY <1>9 DEF Items
    <2>3. OwnRows(t, m)
      <3>1. Members(m.todo) \subseteq Members(q.todo)
        BY <1>3, <2>1
      <3>2. OwnRows(t, q) /\ m.code = q.code /\ m.phase = q.phase /\ m.phase = "insert"
            /\ m.order = q.order /\ row.by = t /\ row.item \in Members(q.order)
        BY <1>1, <1>2, <1>4, <1>5, <1>6, <2>1
      <3>. HIDE DEF q, row
      <3>. QED
        BY <2>1, <3>1, <3>2, OneMoreOwnRow
    <2>4. Fresh(m) /\ Apart(m)
      BY <1>1, <1>2, <1>5, <2>1, <2>2 DEF Fresh, Newer, Apart
    <2>5. Placed(t, m)
      <3>. SUFFICES ASSUME table = "layout" PROVE Placed(t, m)
        BY DEF Placed
      <3>1. Positioned /\ Rest(q) /\ Placed(t, q)
        BY <1>1 DEF Positioned, PutSound, InOrder, AtomicSound
      <3>2. m.mine = q.mine \cup {row} /\ row.pos = Behind(q)
        BY <1>5, <2>1, <2>2, <3>1
      <3>. HIDE DEF row
      <3>. QED
        BY <1>1, <1>5, <1>6, <2>1, <3>1, <3>2, PlacingGrows
    <2>6. Collapsed(t, m)
      <3>. SUFFICES ASSUME table = "collapsed" PROVE Collapsed(t, m)
        BY DEF Collapsed
      <3>1. /\ \A r \in q.mine : r.pos = 0
            /\ \/ Members(q.order) \ gone \subseteq Items(q.mine) \cup Members(q.todo)
               \/ Overtaken(t, q)
        BY <1>1 DEF AtomicSound, Collapsed
      <3>2. row.pos = 0
        BY <1>5 DEF Positioned
      <3>3. Overtaken(t, q) => Overtaken(t, m)
        BY <2>1 DEF Overtaken
      <3>. HIDE DEF q, row, id
      <3>. QED
        BY <1>3, <1>5, <2>1, <3>1, <3>2, <3>3 DEF Collapsed
    <2>7. AtomicSound(t, m)
      BY <2>3, <2>4, <2>5, <2>6 DEF AtomicSound
    <2>8. ASSUME NEW u \in Others(t) PROVE Items(m.mine) \cap Items(put[u].mine) = {}
      <3>1. Items(q.mine) \cap Items(put[u].mine) = {}
        BY DEF AtomicInv
      <3>2. id \notin Items(put[u].mine)
        BY DEF InsertRow, InsertWaits, Next1
      <3>. QED
        BY <1>5, <2>1, <3>1, <3>2
    <2>. QED
      BY <1>1, <1>9, <2>1, <2>7, <2>8, OneMovesAtomic DEF InsertRow
  <1>. QED
    BY <1>7, <1>8, <1>9 DEF InsertRow, Next1

LEMMA UpdateRowKeepsAtomic ==
  ASSUME PutInv, AtomicInv, NEW t \in Put, UpdateRow(t)
  PROVE  AtomicInv'
  <1>. DEFINE q == put[t]
              id == Head(put[t].todo)
              row == NextRow(t)
  <1>1. /\ q \in Transaction /\ PutSound(q) /\ AtomicSound(t, q)
        /\ q.phase = "update" /\ q.todo # <<>>
    BY DEF PutInv, PutTypeOK, AtomicInv, UpdateRow, InPhase
  <1>2. table = "order" /\ OwnRows(t, q) /\ Fresh(q)
    BY <1>1 DEF PutSound, AtOwnPhase, AtomicSound
  <1>3. q.todo \in Seq(Item) /\ id \in Item /\ Members(q.todo) = {id} \cup Members(Tail(q.todo))
    BY <1>1, Fields, RestOfList
  <1>4. id \in Members(q.order)
    BY <1>1, <1>2, <1>3 DEF OwnRows
  <1>5. row \in Row /\ row.item = id /\ row.by = t
    <2>1. row \in Row /\ row.item = id
      BY <1>1, NextRowEffect
    <2>2. row.by = t
      BY DEF NextRow
    <2>. QED
      BY <2>1, <2>2
  <1>6. CASE Fail(t, 404)
    BY <1>1, <1>6, FailKeepsAtomic DEF UpdateRow
  <1>7. ASSUME Change(t, Wrote(q, row)), UNCHANGED <<rows, wanted>>
        PROVE  AtomicInv'
    <2>1. PICK m \in Transaction :
            /\ m = Wrote(q, row) /\ m.phase = "update" /\ m.todo = Tail(q.todo)
            /\ m.order = q.order /\ m.earlier = q.earlier /\ m.code = q.code
            /\ m.mine = {r \in q.mine : r.item # row.item} \cup {row}
            /\ Items(m.mine) = Items(q.mine) \cup {row.item}
      <3>1. LET m == Wrote(q, row)
            IN  /\ m \in Transaction /\ m.phase = q.phase /\ m.todo = Tail(q.todo)
                /\ m.order = q.order /\ m.dead = q.dead
                /\ m.earlier = q.earlier /\ m.code = q.code
                /\ m.mine = {r \in q.mine : r.item # row.item} \cup {row}
                /\ Items(m.mine) = Items(q.mine) \cup {row.item}
        BY <1>1, <1>5, WroteEffect
      <3>. QED
        BY <1>1, <3>1
    <2>2. OwnRows(t, m)
      <3>1. Members(m.todo) \subseteq Members(q.todo)
        BY <1>3, <2>1
      <3>2. OwnRows(t, q) /\ m.code = q.code /\ m.phase = q.phase /\ m.phase = "update"
            /\ m.order = q.order /\ row.by = t /\ row.item \in Members(q.order)
        BY <1>1, <1>2, <1>4, <1>5, <2>1
      <3>. HIDE DEF q, row
      <3>. QED
        BY <2>1, <3>1, <3>2, OneMoreOwnRow
    <2>3. AtomicSound(t, m)
      BY <1>2, <2>1, <2>2 DEF AtomicSound, Fresh, Apart, Placed, Collapsed
    <2>4. ASSUME NEW u \in Others(t) PROVE Items(m.mine) \cap Items(put[u].mine) = {}
      <3>1. Items(q.mine) \cap Items(put[u].mine) = {}
        BY DEF AtomicInv
      <3>2. id \notin Items(put[u].mine)
        BY DEF UpdateRow, UpdateWaits, Next1
      <3>. QED
        BY <1>5, <2>1, <3>1, <3>2
    <2>. QED
      BY <1>1, <1>7, <2>1, <2>3, <2>4, OneMovesAtomic DEF UpdateRow
  <1>. QED
    BY <1>6, <1>7 DEF UpdateRow

\* What a commit leaves: rows that were kept and the transaction's own.
LEMMA CommitLeaves ==
  ASSUME PutInv, AtomicInv, NEW t \in Put, Commit(t)
  PROVE  /\ put[t].phase \in {"insert", "update"} /\ put[t].code = 0
         /\ rows' = Kept(t) \cup put[t].mine /\ Kept(t) \subseteq rows
         /\ Items(Kept(t)) \cap Items(put[t].mine) = {}
         /\ table # "order" => Kept(t) = rows \ put[t].dead
         /\ UNCHANGED <<table, gone, deleting>>
         /\ put' \in [Put -> Transaction]
         /\ put'[t].phase = "done" /\ put'[t].code = 204 /\ put'[t].mine = {}
         /\ put'[t].order = put[t].order /\ put'[t].earlier = put[t].earlier
         /\ \A u \in Others(t) : put'[u] = put[u]
  <1>. DEFINE q == put[t]
  <1>1. q \in Transaction /\ q.phase \in {"insert", "update"} /\ AtomicSound(t, q)
    BY DEF PutInv, PutTypeOK, AtomicInv, Commit, InPhase
  <1>2. PICK m \in Transaction :
          /\ m = Ended(q, 204) /\ m.phase = "done" /\ m.mine = {} /\ m.code = 204
          /\ m.order = q.order /\ m.earlier = q.earlier
    BY <1>1, EndedEffect DEF PutCodes
  <1>3. /\ put' \in [Put -> Transaction] /\ put'[t] = m
        /\ \A u \in Others(t) : put'[u] = put[u]
    BY <1>2 DEF Commit, Change, PutInv, PutTypeOK, Others
  <1>4. Items(Kept(t)) \cap Items(q.mine) = {}
    BY <1>1 DEF AtomicSound, Apart, Kept, Items
  <1>5. q.code = 0
    BY <1>1 DEF AtomicSound, OwnRows
  <1>6. Kept(t) \subseteq rows /\ (table # "order" => Kept(t) = rows \ q.dead)
    BY DEF Kept
  <1>7. rows' = Kept(t) \cup q.mine /\ UNCHANGED <<table, gone, deleting>>
    BY DEF Commit
  <1>. QED
    BY <1>1, <1>2, <1>3, <1>4, <1>5, <1>6, <1>7

LEMMA OncePerItemOfBoth ==
  ASSUME NEW A, NEW B, Atomic!OncePerItem(A), Atomic!OncePerItem(B),
         Items(A) \cap Items(B) = {}
  PROVE  Atomic!OncePerItem(A \cup B)
  BY DEF Atomic!OncePerItem, Items

LEMMA CommitKeepsAtomic ==
  ASSUME PutInv, AtomicInv, NEW t \in Put, Commit(t)
  PROVE  AtomicInv'
  <1>1. /\ put[t].phase \in {"insert", "update"} /\ put[t].code = 0
        /\ rows' = Kept(t) \cup put[t].mine /\ Kept(t) \subseteq rows
        /\ Items(Kept(t)) \cap Items(put[t].mine) = {}
        /\ UNCHANGED <<table, gone, deleting>>
        /\ put' \in [Put -> Transaction]
        /\ put'[t].phase = "done" /\ put'[t].code = 204 /\ put'[t].mine = {}
        /\ put'[t].order = put[t].order /\ put'[t].earlier = put[t].earlier
        /\ \A u \in Others(t) : put'[u] = put[u]
    BY CommitLeaves
  <1>2. \A u \in Put : AtomicSound(u, put[u])
    BY DEF AtomicInv
  <1>3. \A r \in rows' : r \in rows \/ r \in put[t].mine
    BY <1>1
  <1>4. \A u \in Put : put[u].phase = "done" => put'[u].phase = "done"
    BY <1>1 DEF Others
  <1>5. \A u \in Put : put[u].code = 204 => put'[u].code = 204
    BY <1>1 DEF Others
  <1>6. AtomicSound(t, put[t])'
    <2>1. \A u \in put'[t].earlier : put'[u].phase = "done"
      <3>1. \A u \in put[t].earlier : u \in Put /\ put[u].phase = "done"
        BY <1>2, Fields DEF AtomicSound, Fresh, InPhase, PutInv, PutTypeOK
      <3>. QED
        BY <1>1, <1>4, <3>1
    <2>2. OwnRows(t, put[t])' /\ Apart(put[t])'
      BY <1>1 DEF OwnRows, Apart, Atomic!OncePerItem, Items
    <2>3. Fresh(put[t])' /\ Placed(t, put[t])' /\ Collapsed(t, put[t])'
      BY <1>1, <2>1 DEF Fresh, Placed, Collapsed, InPhase
    <2>. QED
      BY <2>2, <2>3 DEF AtomicSound
  <1>7. ASSUME NEW u \in Others(t) PROVE AtomicSound(u, put[u])'
    <2>. DEFINE q == put[u]
    <2>1. u \in Put /\ u # t /\ q \in Transaction /\ AtomicSound(u, q) /\ put'[u] = q
      BY <1>1, <1>2 DEF Others, PutInv, PutTypeOK
    <2>2. OwnRows(u, put[u])' /\ Placed(u, put[u])'
      <3>1. OwnRows(u, q) /\ Placed(u, q) /\ table' = table
        BY <1>1, <2>1 DEF AtomicSound
      <3>2. OwnRows(u, put[u])'
        BY <2>1, <3>1 DEF OwnRows, Members, Atomic!OncePerItem
      <3>3. Placed(u, put[u])'
        BY <2>1, <3>1 DEF Placed, Behind
      <3>. QED
        BY <3>2, <3>3
    <2>3. Apart(put[u])'
      <3>1. Items(put[t].mine) \cap Items(q.mine) = {}
        BY DEF AtomicInv
      <3>2. table # "order" => Items(rows \ q.dead) \cap Items(q.mine) = {}
        BY <2>1 DEF AtomicSound, Apart
      <3>. QED
        BY <1>1, <1>3, <2>1, <3>1, <3>2 DEF Apart, Items
    <2>4. Fresh(put[u])'
      <3>1. \A v \in q.earlier : v \in Put /\ put[v].phase = "done"
        BY <2>1, Fields DEF AtomicSound, Fresh, InPhase
      <3>2. \A v \in q.earlier : put'[v].phase = "done"
        BY <1>4, <3>1
      <3>3. ASSUME NEW r \in put[t].mine PROVE Newer(q, r)
        <4>1. r.by = t /\ t # Before
          BY <1>2, PutAssumption DEF AtomicSound, OwnRows
        <4>2. t \notin q.earlier
          BY <1>1, <3>1
        <4>. QED
          BY <4>1, <4>2 DEF Newer
      <3>4. table # "order" =>
              /\ q.phase = "delete" => \A r \in rows \ q.snap : Newer(q, r)
              /\ q.phase \in {"select", "insert"} => \A r \in rows \ q.dead : Newer(q, r)
        BY <2>1 DEF AtomicSound, Fresh
      <3>5. table # "order" =>
              /\ q.phase = "delete" => \A r \in rows' \ q.snap : Newer(q, r)
              /\ q.phase \in {"select", "insert"} => \A r \in rows' \ q.dead : Newer(q, r)
        BY <1>3, <3>3, <3>4
      <3>. HIDE DEF q
      <3>. QED
        BY <1>1, <2>1, <3>2, <3>5 DEF Fresh, Newer, InPhase
    <2>5. Overtaken(u, q) => Overtaken(u, put[u])'
      BY <1>5, <2>1 DEF Overtaken, Others
    <2>6. Collapsed(u, put[u])'
      BY <1>1, <2>1, <2>5 DEF AtomicSound, Collapsed, Items, Members
    <2>. QED
      BY <2>2, <2>3, <2>4, <2>6 DEF AtomicSound
  <1>8. ASSUME NEW u \in Put, NEW v \in Others(u)
        PROVE  Items(put'[u].mine) \cap Items(put'[v].mine) = {}
    <2>1. Items(put[u].mine) \cap Items(put[v].mine) = {}
      BY DEF AtomicInv
    <2>2. \A w \in Put : Items(put'[w].mine) \subseteq Items(put[w].mine)
      BY <1>1 DEF Others, Items
    <2>. QED
      BY <2>1, <2>2 DEF Others
  <1>9. Atomic!OncePerItem(rows')
    <2>1. Atomic!OncePerItem(Kept(t))
      BY <1>1 DEF AtomicInv, Atomic!OncePerItem
    <2>2. Atomic!OncePerItem(put[t].mine)
      BY <1>2 DEF AtomicSound, OwnRows
    <2>. QED
      BY <1>1, <2>1, <2>2, OncePerItemOfBoth
  <1>10. \A r \in rows' : r.by = Before \/ (r.by \in Put /\ put'[r.by].code = 204)
    <2>1. \A r \in put[t].mine : r.by = t
      BY <1>2 DEF AtomicSound, OwnRows
    <2>. QED
      BY <1>1, <1>3, <1>5, <2>1 DEF AtomicInv
  <1>11. \A u \in Put : AtomicSound(u, put[u])'
    BY <1>6, <1>7 DEF Others
  <1>12. (\A u \in Put : \A v \in Others(u) : Items(put[u].mine) \cap Items(put[v].mine) = {})'
    BY <1>8 DEF Others, Items
  <1>13. Atomic!OncePerItem(rows)'
    BY <1>9 DEF Atomic!OncePerItem
  <1>. QED
    BY <1>10, <1>11, <1>12, <1>13 DEF AtomicInv

\* Rows that go, and things that are deleted, disturb nothing.
LEMMA ShrinkKeepsAtomic ==
  ASSUME AtomicInv, rows' \subseteq rows, gone \subseteq gone', UNCHANGED <<table, put>>
  PROVE  AtomicInv'
  <1>1. ASSUME NEW t \in Put PROVE AtomicSound(t, put[t])'
    <2>. DEFINE q == put[t]
    <2>1. AtomicSound(t, q)
      BY DEF AtomicInv
    <2>2. OwnRows(t, put[t])' /\ Placed(t, put[t])' /\ Apart(put[t])'
      <3>1. OwnRows(t, q) /\ Placed(t, q) /\ Apart(q)
        BY <2>1 DEF AtomicSound
      <3>2. OwnRows(t, put[t])'
        BY <3>1 DEF OwnRows, Members, Atomic!OncePerItem
      <3>3. Placed(t, put[t])'
        BY <3>1 DEF Placed, Behind
      <3>4. Apart(put[t])'
        BY <3>1 DEF Apart, Items
      <3>. QED
        BY <3>2, <3>3, <3>4
    <2>3. Fresh(put[t])'
      BY <2>1 DEF AtomicSound, Fresh, Newer, InPhase
    <2>4. Collapsed(t, put[t])'
      BY <2>1 DEF AtomicSound, Collapsed, Overtaken, Others, Items, Members
    <2>. QED
      BY <2>1, <2>2, <2>3, <2>4 DEF AtomicSound
  <1>2. Atomic!OncePerItem(rows)' /\ \A r \in rows' : r \in rows
    BY DEF AtomicInv, Atomic!OncePerItem
  <1>3. (\A u \in Put : \A v \in Others(u) : Items(put[u].mine) \cap Items(put[v].mine) = {})'
    BY DEF AtomicInv, Others, Items
  <1>. QED
    BY <1>1, <1>2, <1>3 DEF AtomicInv

LEMMA AtomicInitInv == PutInit => AtomicInv
  <1>. SUFFICES ASSUME PutInit PROVE AtomicInv
    OBVIOUS
  <1>1. put = [t \in Put |-> Unsent]
    BY DEF PutInit
  <1>2. \A t \in Put : AtomicSound(t, put[t])
    BY <1>1, UnsentEffect, EmptyIsAtomic
  <1>3. \A t \in Put : Items(put[t].mine) = {}
    BY <1>1, UnsentEffect DEF Items
  <1>4. PICK order \in Order :
          rows = {[item |-> x, pos |-> wanted[x], by |-> Before] : x \in Members(order)}
    BY DEF PutInit
  <1>5. Atomic!OncePerItem(rows) /\ \A r \in rows : r.by = Before
    BY <1>4 DEF Atomic!OncePerItem
  <1>. QED
    BY <1>2, <1>3, <1>5 DEF AtomicInv

\* Only a transaction that waits is picked as the victim of a deadlock.
LEMMA VictimsWait ==
  ASSUME NEW t \in Put, DeadlockVictim(t)
  PROVE  put[t].phase \notin {"idle", "done"}
  <1>1. WaitsFor(t) # {}
    BY DEF DeadlockVictim, Deadlocked
  <1>. QED
    BY <1>1 DEF WaitsFor, InPhase

LEMMA AtomicInvKept == PutInv /\ AtomicInv /\ [PutNext]_putVars => AtomicInv'
  <1>. SUFFICES ASSUME PutInv, AtomicInv, [PutNext]_putVars PROVE AtomicInv'
    OBVIOUS
  <1>1. ASSUME NEW t \in Put, NEW order \in Order, Send(t, order) PROVE AtomicInv'
    BY <1>1, SendKeepsAtomic
  <1>2. ASSUME NEW t \in Put, Statement(t) PROVE AtomicInv'
    BY <1>2, LockOwnerKeepsAtomic, StartDeleteKeepsAtomic, DeleteRowsKeepsAtomic,
       SelectLiveKeepsAtomic, InsertRowKeepsAtomic, UpdateRowKeepsAtomic, CommitKeepsAtomic
       DEF Statement
  <1>3. ASSUME NEW t \in Put, Abort(t) PROVE AtomicInv'
    BY <1>3, FailKeepsAtomic DEF Abort, Active, InPhase
  <1>4. ASSUME NEW x \in Target, LockTarget(x) \/ Cascade(x) PROVE AtomicInv'
    BY <1>4, ShrinkKeepsAtomic DEF LockTarget, Cascade
  <1>5. ASSUME NEW a \in Put \cup Target, DeadlockVictim(a) PROVE AtomicInv'
    <2>1. CASE a \in Put
      <3>1. Fail(a, 500) /\ UNCHANGED <<table, gone>> /\ put[a].phase # "done"
        BY <1>5, <2>1, VictimsWait DEF DeadlockVictim
      <3>. QED
        BY <2>1, <3>1, FailKeepsAtomic
    <2>2. CASE a \notin Put
      BY <1>5, <2>2, ShrinkKeepsAtomic DEF DeadlockVictim
    <2>. QED
      BY <2>1, <2>2
  <1>6. CASE UNCHANGED putVars
    BY <1>6, ShrinkKeepsAtomic DEF putVars
  <1>7. CASE AllAnswered
    BY <1>6, <1>7 DEF AllAnswered
  <1>. QED
    BY <1>1, <1>2, <1>3, <1>4, <1>5, <1>6, <1>7 DEF PutNext

\* What the PUTs' own rows are, how they keep apart from the rows of others, and
\* which rows may escape a transaction's DELETE: for any number of PUTs at once.
THEOREM AtomicInvariant == PutSpec => []AtomicInv
  BY AtomicInitInv, AtomicInvKept, PutInvariant, PTL DEF PutSpec

-----------------------------------------------------------------------------
(* The PUTs implement AtomicSet                                            *)

\* A statement that neither answers nor ends anything cannot be seen.
LEMMA Unseen ==
  ASSUME PutInv, NEW t \in Put, NEW m, Change(t, m), UNCHANGED <<table, rows, gone>>,
         m.phase # "idle", put[t].phase # "idle",
         m.order = put[t].order, m.earlier = put[t].earlier, m.code = put[t].code
  PROVE  UNCHANGED Atomic!setVars
  <1>1. put' = [put EXCEPT ![t] = m] /\ put \in [Put -> Transaction]
    BY DEF Change, PutInv, PutTypeOK
  <1>2. /\ \A u \in Put : put'[u].order = put[u].order /\ put'[u].earlier = put[u].earlier
        /\ \A u \in Put : put'[u].code = put[u].code
        /\ \A u \in Put : put'[u].phase = "idle" <=> put[u].phase = "idle"
    BY <1>1
  <1>3. Sent' = Sent /\ Asked' = Asked /\ Earlier' = Earlier /\ Answers' = Answers
    BY <1>2 DEF Sent, Asked, Earlier, Answers, InPhase
  <1>. QED
    BY <1>3 DEF Atomic!setVars

\* The answered are those that are over.
LEMMA AnsweredAreDone ==
  ASSUME AtomicInv
  PROVE  \A u \in Put : InPhase(u, "done") <=> put[u].code # 0
  BY DEF AtomicInv, AtomicSound, OwnRows, InPhase

\* An answer is given once, and is all that changes of what was asked.
LEMMA AnswerIsAnswer ==
  ASSUME PutInv, AtomicInv, NEW t \in Put, NEW code \in PutCodes,
         put[t].phase \notin {"idle", "done"}, Change(t, Ended(put[t], code)),
         UNCHANGED <<table, gone>>
  PROVE  Atomic!Answer(t, code) /\ Atomic!Listed(t) = Members(put[t].order)
  <1>1. put[t] \in Transaction /\ put[t].code = 0
    BY DEF PutInv, PutTypeOK, AtomicInv, AtomicSound, OwnRows
  <1>2. PICK m \in Transaction :
          /\ m = Ended(put[t], code) /\ m.phase = "done" /\ m.code = code
          /\ m.order = put[t].order /\ m.earlier = put[t].earlier
    BY <1>1, EndedEffect
  <1>3. put' = [put EXCEPT ![t] = m] /\ put \in [Put -> Transaction]
    BY <1>2 DEF Change, PutInv, PutTypeOK
  <1>4. /\ \A u \in Put : put'[u].order = put[u].order /\ put'[u].earlier = put[u].earlier
        /\ \A u \in Put : put'[u].phase = "idle" <=> put[u].phase = "idle"
        /\ put'[t].code = code /\ \A u \in Put \ {t} : put'[u].code = put[u].code
    BY <1>2, <1>3
  <1>5. Sent' = Sent /\ Asked' = Asked /\ Earlier' = Earlier /\ t \in Sent
    BY <1>4 DEF Sent, Asked, Earlier, InPhase
  <1>6. Answers' = [Answers EXCEPT ![t] = code] /\ Answers[t] = 0
    BY <1>1, <1>4 DEF Answers
  <1>7. Atomic!Listed(t) = Members(put[t].order)
    BY DEF Atomic!Listed, Members, Asked
  <1>. QED
    BY <1>5, <1>6, <1>7 DEF Atomic!Answer

\* A refusal that names something missing is right about it.
LEMMA FailRefuses ==
  ASSUME PutInv, AtomicInv, NEW t \in Put, NEW code \in {400, 404, 500}, Fail(t, code),
         put[t].phase \notin {"idle", "done"}, UNCHANGED <<table, gone>>,
         code # 500 => (Members(put[t].order) \cup {Owner}) \cap gone # {}
  PROVE  Atomic!Refuse(t, code)
  <1>1. code \in PutCodes
    BY DEF PutCodes
  <1>2. Atomic!Answer(t, code) /\ Atomic!Listed(t) = Members(put[t].order)
    BY <1>1, AnswerIsAnswer DEF Fail
  <1>. QED
    BY <1>2 DEF Atomic!Refuse, Fail

LEMMA SendAsks ==
  ASSUME PutInv, AtomicInv, NEW t \in Put, NEW order \in Order, Send(t, order)
  PROVE  Atomic!Ask(t)
  <1>1. table \in Tables /\ order \in Seq(Item) /\ put[t].phase = "idle"
    BY OrdersAreSequences DEF PutInv, PutTypeOK, Send, InPhase
  <1>2. PICK m \in Transaction :
          /\ m = Begun(order) /\ m.order = order /\ m.phase = FirstPhase
          /\ m.earlier = {u \in Put : InPhase(u, "done")} /\ m.code = 0
    BY <1>1, BegunEffect
  <1>3. FirstPhase # "idle"
    BY <1>1, PutAssumption DEF FirstPhase
  <1>4. put' = [put EXCEPT ![t] = m] /\ put \in [Put -> Transaction]
    BY <1>2 DEF Send, Change, PutInv, PutTypeOK
  <1>5. put[t].code = 0
    BY <1>1 DEF AtomicInv, AtomicSound, OwnRows
  <1>6. Sent' = Sent \cup {t} /\ t \notin Sent
    BY <1>1, <1>2, <1>3, <1>4 DEF Sent, InPhase
  <1>7. Asked' = [Asked EXCEPT ![t] = order]
    BY <1>2, <1>4 DEF Asked
  <1>8. Answers' = Answers
    BY <1>2, <1>4, <1>5 DEF Answers
  <1>9. {u \in Put : InPhase(u, "done")} = {u \in Put : Answers[u] # 0}
    BY AnsweredAreDone DEF Answers
  <1>10. Earlier' = [Earlier EXCEPT ![t] = {u \in Put : Answers[u] # 0}]
    BY <1>2, <1>4, <1>9 DEF Earlier
  <1>11. Asked'[t] = order
    BY <1>7 DEF Asked
  <1>. QED
    BY <1>1, <1>6, <1>7, <1>8, <1>10, <1>11 DEF Atomic!Ask, Send

LEMMA LockOwnerImplements ==
  ASSUME PutInv, AtomicInv, NEW t \in Put, LockOwner(t)
  PROVE  Atomic!AtomicNext \/ UNCHANGED Atomic!setVars
  <1>1. put[t] \in Transaction /\ put[t].phase = "lock" /\ UNCHANGED <<table, gone>>
    BY DEF PutInv, PutTypeOK, LockOwner, InPhase
  <1>2. CASE Change(t, Locked(put[t])) /\ UNCHANGED <<rows, wanted>>
    <2>1. PICK m \in Transaction :
            /\ m = Locked(put[t]) /\ m.phase = "snapshot" /\ m.order = put[t].order
            /\ m.earlier = put[t].earlier /\ m.code = put[t].code
      BY <1>1, LockedEffect
    <2>. QED
      BY <1>1, <1>2, <2>1, Unseen
  <1>3. CASE Owner \in gone /\ Fail(t, 404)
    BY <1>1, <1>3, FailRefuses DEF Atomic!AtomicNext
  <1>4. CASE Members(put[t].order) \cap gone # {} /\ Fail(t, 400)
    BY <1>1, <1>4, FailRefuses DEF Atomic!AtomicNext
  <1>. QED
    BY <1>2, <1>3, <1>4 DEF LockOwner

LEMMA StartDeleteImplements ==
  ASSUME PutInv, NEW t \in Put, StartDelete(t)
  PROVE  UNCHANGED Atomic!setVars
  <1>1. put[t] \in Transaction /\ put[t].phase = "snapshot" /\ rows \subseteq Row
    BY DEF PutInv, PutTypeOK, StartDelete, InPhase
  <1>2. PICK m \in Transaction :
          /\ m = Snapped(put[t]) /\ m.phase = "delete" /\ m.order = put[t].order
          /\ m.earlier = put[t].earlier /\ m.code = put[t].code
    BY <1>1, SnappedEffect
  <1>. QED
    BY <1>1, <1>2, Unseen DEF StartDelete

LEMMA DeleteRowsImplements ==
  ASSUME PutInv, NEW t \in Put, DeleteRows(t)
  PROVE  UNCHANGED Atomic!setVars
  <1>1. put[t] \in Transaction /\ put[t].phase = "delete"
    BY DEF PutInv, PutTypeOK, DeleteRows, InPhase
  <1>2. PICK m \in Transaction :
          /\ m = Emptied(put[t]) /\ m.phase \in {"insert", "select"}
          /\ m.order = put[t].order
          /\ m.earlier = put[t].earlier /\ m.code = put[t].code
    BY <1>1, EmptiedEffect
  <1>. QED
    BY <1>1, <1>2, Unseen DEF DeleteRows

LEMMA SelectLiveImplements ==
  ASSUME PutInv, NEW t \in Put, SelectLive(t)
  PROVE  UNCHANGED Atomic!setVars
  <1>1. put[t] \in Transaction /\ put[t].phase = "select"
    BY DEF PutInv, PutTypeOK, SelectLive, InPhase
  <1>2. PICK todo \in ListsOf(0..MaxLen) : Change(t, Selected(put[t], todo))
    BY DEF SelectLive
  <1>3. todo \in Seq(Item)
    BY <1>2, ListsAreSequences, PutAssumption
  <1>4. PICK m \in Transaction :
          /\ m = Selected(put[t], todo) /\ m.phase = "insert" /\ m.order = put[t].order
          /\ m.earlier = put[t].earlier /\ m.code = put[t].code
    BY <1>1, <1>3, SelectedEffect
  <1>. QED
    BY <1>1, <1>2, <1>4, Unseen DEF SelectLive

\* The id that is next is one of the list.
LEMMA NextIsListed ==
  ASSUME PutInv, AtomicInv, NEW t \in Put, put[t].phase \in {"insert", "update"},
         put[t].todo # <<>>
  PROVE  Head(put[t].todo) \in Members(put[t].order)
  <1>1. put[t] \in Transaction /\ OwnRows(t, put[t])
    BY DEF PutInv, PutTypeOK, AtomicInv, AtomicSound
  <1>2. Head(put[t].todo) \in Members(put[t].todo)
    BY <1>1, Fields, RestOfList
  <1>. QED
    BY <1>1, <1>2 DEF OwnRows

\* One row more or one passed over: nobody sees it before the commit.
LEMMA WritingUnseen ==
  ASSUME PutInv, NEW t \in Put, put[t].phase \in {"insert", "update"}, put[t].todo # <<>>,
         UNCHANGED <<table, rows, gone>>,
         Change(t, Wrote(put[t], NextRow(t))) \/ Change(t, Passed(put[t]))
  PROVE  UNCHANGED Atomic!setVars
  <1>. DEFINE q == put[t]
  <1>1. q \in Transaction /\ NextRow(t) \in Row
    BY NextRowEffect DEF PutInv, PutTypeOK
  <1>2. /\ Wrote(q, NextRow(t)).phase = q.phase /\ Wrote(q, NextRow(t)).order = q.order
        /\ Wrote(q, NextRow(t)).earlier = q.earlier /\ Wrote(q, NextRow(t)).code = q.code
    BY <1>1, WroteEffect
  <1>3. /\ Passed(q).phase = q.phase /\ Passed(q).order = q.order
        /\ Passed(q).earlier = q.earlier /\ Passed(q).code = q.code
    BY <1>1, PassedEffect
  <1>. QED
    BY <1>2, <1>3, Unseen

LEMMA InsertRowImplements ==
  ASSUME PutInv, AtomicInv, NEW t \in Put, InsertRow(t)
  PROVE  Atomic!AtomicNext \/ UNCHANGED Atomic!setVars
  <1>1. put[t].phase = "insert" /\ put[t].todo # <<>> /\ UNCHANGED <<table, gone>>
    BY DEF InsertRow, InPhase
  <1>2. Next1(t) \in Members(put[t].order)
    BY <1>1, NextIsListed DEF Next1
  <1>3. CASE Fail(t, 404) /\ (Next1(t) \in gone \/ Owner \in gone)
    BY <1>1, <1>2, <1>3, FailRefuses DEF Atomic!AtomicNext
  <1>4. CASE Fail(t, 500)
    BY <1>1, <1>4, FailRefuses DEF Atomic!AtomicNext
  <1>5. CASE /\ UNCHANGED <<rows, wanted>>
             /\ Change(t, Wrote(put[t], NextRow(t))) \/ Change(t, Passed(put[t]))
    BY <1>1, <1>5, WritingUnseen
  <1>. QED
    BY <1>3, <1>4, <1>5 DEF InsertRow

LEMMA UpdateRowImplements ==
  ASSUME PutInv, AtomicInv, NEW t \in Put, UpdateRow(t)
  PROVE  Atomic!AtomicNext \/ UNCHANGED Atomic!setVars
  <1>1. put[t].phase = "update" /\ put[t].todo # <<>> /\ UNCHANGED <<table, gone>>
    BY DEF UpdateRow, InPhase
  <1>2. Next1(t) \in Members(put[t].order)
    BY <1>1, NextIsListed DEF Next1
  <1>3. CASE Fail(t, 404) /\ Next1(t) \in gone
    BY <1>1, <1>2, <1>3, FailRefuses DEF Atomic!AtomicNext
  <1>4. CASE UNCHANGED <<rows, wanted>> /\ Change(t, Wrote(put[t], NextRow(t)))
    BY <1>1, <1>4, WritingUnseen
  <1>. QED
    BY <1>3, <1>4 DEF UpdateRow

-----------------------------------------------------------------------------
(* A commit is the acceptance, of each of the four sets                    *)

\* A row of a transaction is an entry of what it asked for.
LEMMA OwnRowsAreEntries ==
  ASSUME PutInv, AtomicInv, NEW t \in Put, NEW r \in put[t].mine
  PROVE  r = Atomic!Entry(t, r.item, r.pos) /\ r.pos \in Nat /\ r.item \in Members(put[t].order)
  <1>1. r \in Row /\ r.by = t /\ r.item \in Members(put[t].order)
    BY Fields DEF PutInv, PutTypeOK, AtomicInv, AtomicSound, OwnRows
  <1>. QED
    BY <1>1 DEF Row, Atomic!Entry

\* Where positions do not count, an entry for each item of its rows is all.
LEMMA UnplacedEntries ==
  ASSUME PutInv, AtomicInv, NEW t \in Put, \A r \in put[t].mine : r.pos = 0
  PROVE  put[t].mine = {Atomic!Entry(t, x, 0) : x \in Items(put[t].mine)}
  <1>. DEFINE E == {Atomic!Entry(t, x, 0) : x \in Items(put[t].mine)}
  <1>1. ASSUME NEW r \in put[t].mine PROVE r \in E
    BY OwnRowsAreEntries DEF Items
  <1>2. ASSUME NEW e \in E PROVE e \in put[t].mine
    <2>1. PICK r \in put[t].mine : e = Atomic!Entry(t, r.item, 0)
      BY DEF Items
    <2>2. r = Atomic!Entry(t, r.item, 0)
      BY OwnRowsAreEntries
    <2>. QED
      BY <2>1, <2>2
  <1>. QED
    BY <1>1, <1>2

LEMMA ListedIsOrder ==
  ASSUME NEW t \in Put
  PROVE  Atomic!Listed(t) = Members(put[t].order)
  BY DEF Atomic!Listed, Members, Asked

LEMMA AllowImplements ==
  ASSUME PutInv, AtomicInv, NEW t \in Put, Commit(t), table = "allow"
  PROVE  Atomic!Allow(t)
  <1>. DEFINE q == put[t]
  <1>1. /\ q.phase \in {"insert", "update"} /\ PutSound(q)
        /\ rows' = Kept(t) \cup q.mine /\ Kept(t) = rows \ q.dead
    BY CommitLeaves DEF PutInv
  <1>2. q.phase = "insert" /\ Members(q.todo) = {}
    BY <1>1, EmptySeq DEF PutSound, AtOwnPhase, Commit, Members
  <1>3. /\ rows \subseteq q.dead /\ Members(q.order) \ gone \subseteq Items(q.mine)
        /\ \A r \in q.mine : r.pos = 0 /\ r.item \in Members(q.order) /\ r.item \notin gone
    BY <1>1, <1>2 DEF PutSound, Exclusive, MineLive
  <1>4. Items(q.mine) = Members(q.order) \ gone
    BY <1>3 DEF Items
  <1>5. q.mine = {Atomic!Entry(t, x, 0) : x \in Items(q.mine)}
    BY <1>3, UnplacedEntries
  <1>6. rows' = {Atomic!Entry(t, x, 0) : x \in Members(q.order) \ gone}
    BY <1>1, <1>3, <1>4, <1>5
  <1>. QED
    BY <1>6, ListedIsOrder DEF Atomic!Allow

LEMMA PlaceImplements ==
  ASSUME PutInv, AtomicInv, NEW t \in Put, Commit(t), table = "layout"
  PROVE  Atomic!Place(t)
  <1>. DEFINE q == put[t]
              placed == {Atomic!Entry(t, q.order[i], i - 1) : i \in DOMAIN q.order}
  <1>1. /\ q.phase \in {"insert", "update"} /\ PutSound(q) /\ AtomicSound(t, q)
        /\ rows' = Kept(t) \cup q.mine /\ Kept(t) = rows \ q.dead
        /\ q \in Transaction /\ q.todo = <<>>
    BY CommitLeaves DEF PutInv, PutTypeOK, AtomicInv, Commit
  <1>2. q.phase = "insert"
    BY <1>1 DEF PutSound, AtOwnPhase
  <1>3. DOMAIN q.order = 1..Behind(q)
    BY <1>1, Fields, EmptySeq DEF Behind
  <1>4. /\ \A i \in DOMAIN q.order : Atomic!Entry(t, q.order[i], i - 1) \in q.mine
        /\ \A r \in q.mine : r.pos + 1 \in DOMAIN q.order /\ q.order[r.pos + 1] = r.item
    BY <1>1, <1>2, <1>3 DEF AtomicSound, Placed, Atomic!Entry
  <1>5. q.mine = placed
    <2>1. ASSUME NEW r \in q.mine PROVE r \in placed
      <3>1. r = Atomic!Entry(t, r.item, r.pos) /\ r.pos \in Nat
        BY OwnRowsAreEntries
      <3>2. (r.pos + 1) - 1 = r.pos
        BY <3>1
      <3>3. r = Atomic!Entry(t, q.order[r.pos + 1], (r.pos + 1) - 1)
        BY <1>4, <3>1, <3>2
      <3>. QED
        BY <1>4, <3>3
    <2>. QED
      BY <1>4, <2>1
  <1>6. Members(q.order) \cap gone = {}
    <2>1. ASSUME NEW i \in DOMAIN q.order PROVE q.order[i] \notin gone
      <3>1. PICK r \in q.mine : r = Atomic!Entry(t, q.order[i], i - 1)
        BY <1>4
      <3>2. r.item = q.order[i]
        BY <3>1 DEF Atomic!Entry
      <3>. QED
        BY <1>1, <3>2 DEF PutSound, MineLive
    <2>. QED
      BY <2>1 DEF Members
  <1>7. Kept(t) \in SUBSET Atomic!Newer(t)
    BY <1>1, <1>2 DEF AtomicSound, Fresh, Newer, Atomic!Newer, Earlier
  <1>8. Atomic!OncePerItem(rows')
    BY CommitKeepsAtomic DEF AtomicInv, Atomic!OncePerItem
  <1>9. rows' = Kept(t) \cup {Atomic!Entry(t, Asked[t][i], i - 1) : i \in DOMAIN Asked[t]}
    BY <1>1, <1>5 DEF Asked
  <1>. QED
    BY <1>6, <1>7, <1>8, <1>9, ListedIsOrder DEF Atomic!Place

LEMMA CollapseImplements ==
  ASSUME PutInv, AtomicInv, NEW t \in Put, Commit(t), table = "collapsed"
  PROVE  Atomic!Collapse(t)
  <1>. DEFINE q == put[t]
              own == Items(put[t].mine)
  <1>1. /\ q.phase \in {"insert", "update"} /\ PutSound(q) /\ AtomicSound(t, q)
        /\ rows' = Kept(t) \cup q.mine /\ Kept(t) = rows \ q.dead
    BY CommitLeaves DEF PutInv, AtomicInv
  <1>2. q.phase = "insert" /\ Members(q.todo) = {}
    BY <1>1, EmptySeq DEF PutSound, AtOwnPhase, Commit, Members
  <1>3. /\ \A r \in q.mine : r.pos = 0
        /\ Members(q.order) \ gone \subseteq own \/ Overtaken(t, q)
    BY <1>1, <1>2 DEF AtomicSound, Collapsed
  <1>4. own \subseteq Members(q.order) \ gone
    BY <1>1 DEF PutSound, MineLive, AtomicSound, OwnRows, Items
  <1>5. q.mine = {Atomic!Entry(t, x, 0) : x \in own}
    BY <1>3, UnplacedEntries
  <1>6. Overtaken(t, q) => Atomic!Overtaken(t)
    BY DEF Overtaken, Atomic!Overtaken, Others, Earlier, Answers
  <1>7. own = Members(q.order) \ gone \/ Atomic!Overtaken(t)
    BY <1>3, <1>4, <1>6
  <1>8. Kept(t) \in SUBSET Atomic!Newer(t)
    BY <1>1, <1>2 DEF AtomicSound, Fresh, Newer, Atomic!Newer, Earlier
  <1>9. Atomic!OncePerItem(rows')
    BY CommitKeepsAtomic DEF AtomicInv, Atomic!OncePerItem
  <1>10. rows' = Kept(t) \cup {Atomic!Entry(t, x, 0) : x \in own}
    BY <1>1, <1>5
  <1>11. own \in SUBSET (Atomic!Listed(t) \ gone)
         /\ (own = Atomic!Listed(t) \ gone \/ Atomic!Overtaken(t))
    BY <1>4, <1>7, ListedIsOrder
  <1>. HIDE DEF own
  <1>. QED
    BY <1>8, <1>9, <1>10, <1>11 DEF Atomic!Collapse

LEMMA RenumberImplements ==
  ASSUME PutInv, AtomicInv, NEW t \in Put, Commit(t), table = "order"
  PROVE  Atomic!Renumber(t)
  <1>. DEFINE q == put[t]
              last == Atomic!LastPlaces(t)
              placed == {Atomic!Entry(t, q.order[i], i - 1) : i \in last}
  <1>1. /\ q \in Transaction /\ PutSound(q) /\ q.todo = <<>>
        /\ q.phase \in {"insert", "update"}
        /\ rows' = {r \in rows : r.item \notin Items(q.mine)} \cup q.mine
    BY CommitLeaves DEF PutInv, PutTypeOK, Commit, Kept
  <1>2. q.phase = "update"
    BY <1>1 DEF PutSound, AtOwnPhase
  <1>3. DOMAIN q.order = 1..Behind(q) /\ DOMAIN q.order \subseteq Nat
    BY <1>1, Fields, EmptySeq DEF Behind
  <1>4. /\ \A i \in DOMAIN q.order : q.order[i] \in Items(q.mine)
        /\ \A r \in q.mine :
             /\ r.pos + 1 \in DOMAIN q.order /\ q.order[r.pos + 1] = r.item
             /\ \A j \in DOMAIN q.order : q.order[j] = r.item => j <= r.pos + 1
    BY <1>1, <1>2, <1>3 DEF PutSound, Numbered
  <1>5. \A i : i \in last <=> /\ i \in DOMAIN q.order
                              /\ \A j \in DOMAIN q.order : q.order[j] = q.order[i] => j <= i
    BY DEF Atomic!LastPlaces, Asked
  <1>6. Items(q.mine) = Members(q.order)
    BY <1>4 DEF Items, Members
  <1>7. Members(q.order) \cap gone = {}
    BY <1>1, <1>6 DEF PutSound, MineLive, Items
  <1>8. ASSUME NEW r \in q.mine PROVE r \in placed
    <2>1. r = Atomic!Entry(t, r.item, r.pos) /\ r.pos \in Nat
      BY OwnRowsAreEntries
    <2>2. r.pos + 1 \in last /\ q.order[r.pos + 1] = r.item
      BY <1>4, <1>5
    <2>3. (r.pos + 1) - 1 = r.pos
      BY <2>1
    <2>4. r = Atomic!Entry(t, q.order[r.pos + 1], (r.pos + 1) - 1)
      BY <2>1, <2>2, <2>3
    <2>. QED
      BY <2>2, <2>4
  <1>9. ASSUME NEW i \in last PROVE Atomic!Entry(t, q.order[i], i - 1) \in q.mine
    <2>1. i \in DOMAIN q.order /\ \A j \in DOMAIN q.order : q.order[j] = q.order[i] => j <= i
      BY <1>5
    <2>2. PICK r \in q.mine : r.item = q.order[i]
      BY <1>4, <2>1 DEF Items
    <2>3. r = Atomic!Entry(t, r.item, r.pos) /\ r.pos \in Nat
      BY OwnRowsAreEntries
    <2>4. i <= r.pos + 1 /\ r.pos + 1 <= i /\ i \in Nat
      BY <1>3, <1>4, <2>1, <2>2
    <2>5. r.pos = i - 1
      BY <2>3, <2>4
    <2>. QED
      BY <2>2, <2>3, <2>5
  <1>. HIDE DEF last
  <1>10. q.mine = placed
    BY <1>8, <1>9
  <1>11. placed = {Atomic!Entry(t, Asked[t][i], i - 1) : i \in last}
    BY DEF Asked
  <1>12. Atomic!Listed(t) = Members(q.order)
    BY ListedIsOrder
  <1>13. rows' = {r \in rows : r.item \notin Atomic!Listed(t)}
                   \cup {Atomic!Entry(t, Asked[t][i], i - 1) : i \in last}
    BY <1>1, <1>6, <1>10, <1>11, <1>12
  <1>. QED
    BY <1>7, <1>12, <1>13 DEF Atomic!Renumber, last

LEMMA CommitImplements ==
  ASSUME PutInv, AtomicInv, NEW t \in Put, Commit(t)
  PROVE  Atomic!Accept(t)
  <1>1. put[t].phase \in {"insert", "update"} /\ UNCHANGED <<table, gone>>
    BY CommitLeaves
  <1>2. Atomic!Answer(t, 204)
    BY <1>1, AnswerIsAnswer DEF Commit, PutCodes
  <1>3. table \in {"layout", "collapsed", "allow", "order"}
    BY PutAssumption DEF PutInv, PutTypeOK
  <1>4. CASE table = "allow"
    BY <1>2, <1>4, AllowImplements DEF Atomic!Accept
  <1>5. CASE table = "order"
    BY <1>2, <1>5, RenumberImplements DEF Atomic!Accept
  <1>6. CASE table = "layout"
    BY <1>2, <1>6, PlaceImplements DEF Atomic!Accept
  <1>7. CASE table = "collapsed"
    BY <1>2, <1>7, CollapseImplements DEF Atomic!Accept
  <1>. QED
    BY <1>3, <1>4, <1>5, <1>6, <1>7

LEMMA CascadeImplements ==
  ASSUME PutInv, NEW x \in Target, Cascade(x)
  PROVE  Atomic!Vanish(x)
  <1>1. /\ x \in deleting /\ x \notin gone /\ gone' = gone \cup {x}
        /\ rows' = {r \in rows : x \notin {r.item, Owner}} /\ UNCHANGED <<table, put>>
    BY DEF PutInv, Cascade, Refers
  <1>2. UNCHANGED <<Sent, Asked, Earlier, Answers>>
    BY <1>1 DEF Sent, Asked, Earlier, Answers, InPhase
  <1>. QED
    BY <1>1, <1>2 DEF Atomic!Vanish

LEMMA InitImplements == PutInit => Atomic!AtomicInit
  <1>. SUFFICES ASSUME PutInit PROVE Atomic!AtomicInit
    OBVIOUS
  <1>1. gone = {} /\ put = [t \in Put |-> Unsent]
    BY DEF PutInit
  <1>2. PICK order \in Order :
          rows = {[item |-> x, pos |-> wanted[x], by |-> Before] : x \in Members(order)}
    BY DEF PutInit
  <1>3. Atomic!OncePerItem(rows) /\ \A r \in rows : r.by = Before
    BY <1>2 DEF Atomic!OncePerItem
  <1>4. /\ Sent = {} /\ Asked = [t \in Put |-> <<>>] /\ Earlier = [t \in Put |-> {}]
        /\ Answers = [t \in Put |-> 0]
    BY <1>1, UnsentEffect DEF Sent, Asked, Earlier, Answers, InPhase
  <1>. QED
    BY <1>1, <1>3, <1>4 DEF Atomic!AtomicInit

LEMMA StepImplements ==
  ASSUME PutInv, AtomicInv, [PutNext]_putVars
  PROVE  Atomic!AtomicNext \/ UNCHANGED Atomic!setVars
  <1>1. ASSUME NEW t \in Put, NEW order \in Order, Send(t, order) PROVE Atomic!AtomicNext
    BY <1>1, SendAsks DEF Atomic!AtomicNext
  <1>2. ASSUME NEW t \in Put, Statement(t)
        PROVE  Atomic!AtomicNext \/ UNCHANGED Atomic!setVars
    <2>1. CASE Commit(t)
      BY <2>1, CommitImplements DEF Atomic!AtomicNext
    <2>. QED
      BY <1>2, <2>1, LockOwnerImplements, StartDeleteImplements, DeleteRowsImplements,
         SelectLiveImplements, InsertRowImplements, UpdateRowImplements DEF Statement
  <1>3. ASSUME NEW t \in Put, put[t].phase \notin {"idle", "done"}, Fail(t, 500),
               UNCHANGED <<table, gone>>
        PROVE  Atomic!AtomicNext
    BY <1>3, FailRefuses DEF Atomic!AtomicNext
  <1>4. ASSUME NEW t \in Put, Abort(t) PROVE Atomic!AtomicNext
    BY <1>3, <1>4 DEF Abort, Active, InPhase
  <1>5. ASSUME UNCHANGED <<table, rows, gone, put>>
        PROVE  UNCHANGED Atomic!setVars
    BY <1>5 DEF Atomic!setVars, Sent, Asked, Earlier, Answers, InPhase
  <1>6. ASSUME NEW x \in Target, LockTarget(x) \/ Cascade(x)
        PROVE  Atomic!AtomicNext \/ UNCHANGED Atomic!setVars
    BY <1>5, <1>6, CascadeImplements DEF LockTarget, Target, Atomic!AtomicNext
  <1>7. ASSUME NEW a \in Put \cup Target, DeadlockVictim(a)
        PROVE  Atomic!AtomicNext \/ UNCHANGED Atomic!setVars
    <2>1. CASE a \in Put
      BY <1>3, <1>7, <2>1, VictimsWait DEF DeadlockVictim
    <2>2. CASE a \notin Put
      BY <1>5, <1>7, <2>2 DEF DeadlockVictim
    <2>. QED
      BY <2>1, <2>2
  <1>8. CASE UNCHANGED putVars \/ AllAnswered
    BY <1>5, <1>8 DEF putVars, AllAnswered
  <1>. QED
    BY <1>1, <1>2, <1>4, <1>6, <1>7, <1>8 DEF PutNext

\* However many PUTs of one set overlap with each other and with deletions,
\* whoever sends them sees AtomicSet: each takes effect at one instant or not at
\* all, a 400 or 404 is right about something missing, an allow-list or an order
\* shows nothing of the overlap, and a layout or a collapse is exactly what the
\* PUT listed unless another one overlapped with it.
THEOREM PutsImplementAtomicSet == PutSpec => ImplementsAtomicSet
  <1>1. PutInit => Atomic!AtomicInit
    BY InitImplements
  <1>2. PutInv /\ AtomicInv /\ [PutNext]_putVars => [Atomic!AtomicNext]_(Atomic!setVars)
    BY StepImplements
  <1>. QED
    BY <1>1, <1>2, PutInvariant, AtomicInvariant, PTL
       DEF PutSpec, ImplementsAtomicSet, Atomic!AtomicSpec

-----------------------------------------------------------------------------
(* ... of which a PUT that nobody overtook can tell nothing                *)

\* Where a 204 appears, a PUT took effect.
LEMMA OnlyAccept ==
  ASSUME PutInv, NEW t \in Put, put[t].code = 0, put'[t].code = 204,
         Atomic!AtomicNext \/ UNCHANGED Atomic!setVars
  PROVE  Atomic!Accept(t)
  <1>1. Answers[t] = 0 /\ Answers'[t] = 204
    BY DEF Answers
  <1>2. ASSUME NEW u \in Put, NEW code, Atomic!Answer(u, code)
        PROVE  u = t /\ code = 204
    <2>1. Answers' = [Answers EXCEPT ![u] = code] /\ t \in DOMAIN Answers
      BY <1>2 DEF Atomic!Answer, Answers
    <2>2. Answers'[t] = IF t = u THEN code ELSE Answers[t]
      BY <2>1
    <2>. QED
      BY <1>1, <2>2
  <1>3. Answers' # Answers
    BY <1>1
  <1>4. CASE \E u \in Put : Atomic!Accept(u)
    BY <1>2, <1>4 DEF Atomic!Accept
  <1>5. CASE \E u \in Put, code \in {400, 404, 500} : Atomic!Refuse(u, code)
    BY <1>2, <1>5 DEF Atomic!Refuse
  <1>. QED
    BY <1>3, <1>4, <1>5 DEF Atomic!AtomicNext, Atomic!Ask, Atomic!Vanish, Atomic!setVars

LEMMA NothingNewer ==
  ASSUME AtomicInv, NEW t \in Put, put[t].code = 0, Unovertaken(t)
  PROVE  Atomic!Newer(t) = {} /\ ~Atomic!Overtaken(t)
  <1>1. ASSUME NEW r \in rows PROVE r.by \in put[t].earlier \cup {Before}
    BY <1>1 DEF AtomicInv, Unovertaken, Others
  <1>2. Atomic!Newer(t) = {}
    BY <1>1 DEF Atomic!Newer, Earlier
  <1>3. ~Atomic!Overtaken(t)
    BY DEF Atomic!Overtaken, Unovertaken, Others, Earlier, Answers
  <1>. QED
    BY <1>2, <1>3

\* What an accepted PUT leaves is then its list.
LEMMA AcceptedIsListed ==
  ASSUME PutInv, NEW t \in Put, Atomic!Accept(t),
         Atomic!Newer(t) = {}, ~Atomic!Overtaken(t), table # "order"
  PROVE  rows' = ListedRows(t)
  <1>. DEFINE order == put[t].order
              here == {j \in DOMAIN put[t].order : put[t].order[j] \notin gone}
              places == {Atomic!Entry(t, order[i], i - 1) : i \in DOMAIN order}
              entries == {Atomic!Entry(t, x, 0) : x \in Members(order) \ gone}
  <1>1. table \in {"layout", "collapsed", "allow"}
    BY PutAssumption DEF PutInv, PutTypeOK
  <1>2. Atomic!Listed(t) = Members(order) /\ Asked[t] = order
    BY ListedIsOrder DEF Asked
  <1>3. CASE table = "layout"
    <2>1. Atomic!Place(t)
      BY <1>3 DEF Atomic!Accept
    <2>2. rows' = places /\ Members(order) \cap gone = {}
      BY <1>2, <2>1 DEF Atomic!Place
    <2>3. here = DOMAIN order
      BY <2>2 DEF Members
    <2>4. ListedRows(t) = places
      BY <1>3, <2>3 DEF ListedRows, Positioned, Atomic!Entry
    <2>. QED
      BY <2>2, <2>4
  <1>4. CASE table \in {"collapsed", "allow"}
    <2>1. Atomic!Collapse(t) \/ Atomic!Allow(t)
      BY <1>4 DEF Atomic!Accept
    <2>2. rows' = entries
      BY <1>2, <2>1 DEF Atomic!Collapse, Atomic!Allow
    <2>3. ListedRows(t) = {Atomic!Entry(t, order[i], 0) : i \in here}
      BY <1>4 DEF ListedRows, Positioned, Atomic!Entry
    <2>4. {Atomic!Entry(t, order[i], 0) : i \in here} = entries
      BY DEF Members
    <2>. QED
      BY <2>2, <2>3, <2>4
  <1>. QED
    BY <1>1, <1>3, <1>4

\* One accepted PUT that no other was accepted beside.
ReplacedWhole ==
  \A t \in Put :
    table # "order" /\ put[t].code = 0 /\ put'[t].code = 204 /\ Unovertaken(t) =>
      rows' = ListedRows(t)

\* A layout, a collapse or an allow-list is exactly the list of the PUT just
\* accepted, unless another was accepted since that one was sent: what SetLayout
\* and SetCollapsedCategories keep of "a full replacement" without a lock.
THEOREM AlwaysReplacedUnlessOverlapped == PutSpec => ReplacedUnlessOverlapped
  <1>1. PutInv /\ AtomicInv /\ [PutNext]_putVars => [ReplacedWhole]_putVars
    BY StepImplements, OnlyAccept, NothingNewer, AcceptedIsListed DEF ReplacedWhole
  <1>. QED
    BY <1>1, PutInvariant, AtomicInvariant, PTL
       DEF PutSpec, ReplacedUnlessOverlapped, ReplacedWhole

=============================================================================
