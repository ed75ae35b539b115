----------------------------- MODULE MCCatalog -----------------------------
(***************************************************************************)
(* The catalog and the icons of its services.  The modules share no        *)
(* variable: a behaviour is one of one of them, and the other stays in one *)
(* initial state.                                                          *)
(***************************************************************************)
EXTENDS Catalog, Icons, TLC

VARIABLE part

partVars == <<catalogVars, iconsVars, part>>

PartsInit ==
  /\ part \in {"catalog", "icons"}
  /\ CatalogInit /\ IconsInit
  /\ part # "icons" =>
       permitted = {} /\ url = [s \in Iconed |-> CHOOSE u \in Url : TRUE]

PartsNext ==
  /\ UNCHANGED part
  /\ \/ part = "catalog" /\ CatalogNext /\ UNCHANGED iconsVars
     \/ part = "icons" /\ IconsNext /\ UNCHANGED catalogVars

PartsSpec == PartsInit /\ [][PartsNext]_partVars

\* Every variable stays in its type.
PartsTypeOK == CatalogTypeOK /\ IconsTypeOK

\* What may be renamed: IconCall is Service in the cfg, so that one permutation
\* serves both.
Symmetry == Permutations(Service)
=============================================================================
