----------------------------- MODULE MCLibrary -----------------------------
(***************************************************************************)
(* The start of processes over the widths any release has left ("startup"),*)
(* and over the App Library on small instances: all processes with one     *)
(* (name, url) for offers and services ("library"), or one process and one *)
(* service at a time, which may be renamed ("names").                      *)
(***************************************************************************)
EXTENDS Library, TLC

VARIABLE part

OneOfEach == /\ \A s, r \in Services : s = r
             /\ \A p, q \in Proc : p = q \/ "down" \in {proc[p], proc[q]}
OneName == /\ \A o \in Offers : offer[o].app \in Seed
           /\ \A s \in Services : service[s].app \in Seed

PartsInit ==
  /\ part \in {"startup", "library", "names"}
  /\ LibraryInit
  /\ part # "startup" => db.check = "none"
  /\ part = "startup" => cutover
  /\ part = "library" => OneName
  /\ part = "names" => OneOfEach

PartsNext ==
  /\ UNCHANGED part
  /\ \/ part = "startup" /\ StartupNext /\ UNCHANGED <<tableVars, add>>
     \/ part = "library" /\ LibraryNext /\ OneName'
     \/ part = "names" /\ LibraryNext /\ OneOfEach'

PartsSpec == PartsInit /\ [][PartsNext]_<<libraryVars, part>>

Symmetry == Permutations(Proc) \cup Permutations(Offer) \cup Permutations(Service)
=============================================================================
