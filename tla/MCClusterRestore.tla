-------------------------- MODULE MCClusterRestore --------------------------
(***************************************************************************)
(* Instances of ClusterRestore for TLC: what the configurations need that  *)
(* a configuration file cannot write.                                      *)
(***************************************************************************)
EXTENDS ClusterRestore, TLC

CONSTANTS r1, r2, d1, d2

\* One SlapdRestore, of the first database.
OneRequest == r1 :> d1
\* Two of the same database.
Rollbacks == r1 :> d1 @@ r2 :> d1

\* Job names of databases that differ within 24 characters.
OwnNames == [d \in Databases |-> d]
=============================================================================
