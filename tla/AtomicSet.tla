----------------------------- MODULE AtomicSet -----------------------------
(***************************************************************************)
(* What whoever PUTs a whole set or order may count on, whatever rows,     *)
(* snapshots and locks it is kept with: a PUT takes effect at one instant, *)
(* all of it, or not at all; what it finds deleted it says so; and when no *)
(* other PUT overlapped with it, what it leaves is what it listed.  Of two *)
(* that overlap an allow-list or an order still shows nothing; a layout    *)
(* may keep rows of the other one, and a collapse may also lose to it.     *)
(***************************************************************************)
EXTENDS Integers, Sequences

CONSTANTS
  Item, Put,  \* the things a set is of, and the requests to replace it
  Owner,      \* whose set it is
  Before      \* whoever wrote the rows there are at first

VARIABLES
  table,      \* which set: "allow", "order", "layout" or "collapsed"
  rows,       \* the set: item, position and the PUT it is there by
  gone,       \* items and owner that have been deleted
  sent,       \* the PUTs that have been sent
  asked,      \* asked[t]: the list t sends
  earlier,    \* earlier[t]: the PUTs answered before t was sent
  answer      \* answer[t]: its status, 0 until there is one

setVars == <<table, rows, gone, sent, asked, earlier, answer>>

Listed(t) == {asked[t][i] : i \in DOMAIN asked[t]}
Entry(t, x, i) == [item |-> x, pos |-> i, by |-> t]
OncePerItem(S) == \A r, s \in S : r.item = s.item => r = s

AtomicInit ==
  /\ OncePerItem(rows) /\ \A r \in rows : r.by = Before
  /\ gone = {} /\ sent = {}
  /\ asked = [t \in Put |-> <<>>] /\ earlier = [t \in Put |-> {}]
  /\ answer = [t \in Put |-> 0]

Ask(t) ==
  /\ t \notin sent /\ sent' = sent \cup {t}
  /\ asked'[t] \in Seq(Item) /\ asked' = [asked EXCEPT ![t] = asked'[t]]
  /\ earlier' = [earlier EXCEPT ![t] = {u \in Put : answer[u] # 0}]
  /\ UNCHANGED <<table, rows, gone, answer>>

Answer(t, code) ==
  /\ t \in sent /\ answer[t] = 0 /\ answer' = [answer EXCEPT ![t] = code]
  /\ UNCHANGED <<table, gone, sent, asked, earlier>>

\* An allow-list is the listed services that exist, and nothing else.
Allow(t) == rows' = {Entry(t, x, 0) : x \in Listed(t) \ gone}

\* An order gives each item the last place it is listed at, and leaves those
\* it does not list where they are.
LastPlaces(t) ==
  {i \in DOMAIN asked[t] : \A j \in DOMAIN asked[t] : asked[t][j] = asked[t][i] => j <= i}
Renumber(t) ==
  /\ Listed(t) \cap gone = {}
  /\ rows' = {r \in rows : r.item \notin Listed(t)}
               \cup {Entry(t, asked[t][i], i - 1) : i \in LastPlaces(t)}

\* Rows of PUTs that overlapped with t.
Newer(t) == {r \in rows : r.by \notin earlier[t] \cup {Before}}

\* A layout is every place of the list, and whatever an overlapping PUT placed
\* that does not collide with it.
Place(t) ==
  /\ Listed(t) \cap gone = {}
  /\ \E Kept \in SUBSET Newer(t) :
       rows' = Kept \cup {Entry(t, asked[t][i], i - 1) : i \in DOMAIN asked[t]}
  /\ OncePerItem(rows')

\* Collapsed are the listed categories that exist; an overlapping PUT may have
\* left more, or been there first with one and dropped it again.
Overtaken(t) == \E u \in Put \ ({t} \cup earlier[t]) : answer[u] = 204
Collapse(t) ==
  /\ \E Kept \in SUBSET Newer(t), Own \in SUBSET (Listed(t) \ gone) :
       /\ rows' = Kept \cup {Entry(t, x, 0) : x \in Own}
       /\ Own = Listed(t) \ gone \/ Overtaken(t)
  /\ OncePerItem(rows')

Accept(t) ==
  /\ Answer(t, 204)
  /\ CASE table = "allow" -> Allow(t)
       [] table = "order" -> Renumber(t)
       [] table = "layout" -> Place(t)
       [] table = "collapsed" -> Collapse(t)

Refuse(t, code) ==
  /\ Answer(t, code) /\ UNCHANGED rows
  /\ code # 500 => (Listed(t) \cup {Owner}) \cap gone # {}

\* What is deleted takes with it the rows that refer to it.
Vanish(x) ==
  /\ x \notin gone /\ gone' = gone \cup {x}
  /\ rows' = {r \in rows : x \notin {r.item, Owner}}
  /\ UNCHANGED <<table, sent, asked, earlier, answer>>

AtomicNext ==
  \/ \E t \in Put : Ask(t) \/ Accept(t) \/ \E code \in {400, 404, 500} : Refuse(t, code)
  \/ \E x \in Item \cup {Owner} : Vanish(x)

AtomicSpec == AtomicInit /\ [][AtomicNext]_setVars
=============================================================================
