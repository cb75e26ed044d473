---------------------------- MODULE OfflineSwap -----------------------------
(***************************************************************************)
(* What a restore promises the clients of the directory, whatever steps it *)
(* takes: the content of the read-write replicas changes only while none   *)
(* of them is up, and replicas that are up hold the same, complete content *)
(* (docs/BACKUP.md: "all replicas come up identical").                     *)
(***************************************************************************)
EXTENDS Naturals

CONSTANTS
  Replicas,  \* the read-write replicas
  Trees,     \* the databases they serve
  Broken     \* the content of a copy that is not complete

VARIABLES
  up,        \* the replicas that are up
  copy       \* each replica's copy of each database

Complete(r) == \A t \in Trees : copy[r][t] # Broken

Init ==
  /\ up \subseteq Replicas
  /\ copy \in [Replicas -> [Trees -> Nat]]
  /\ \A r \in up : Complete(r)
  /\ \A q, r \in up : copy[q] = copy[r]

Stop(r) ==
  /\ r \in up
  /\ up' = up \ {r}
  /\ UNCHANGED copy

\* A replica joins with a complete copy that agrees with those already up.
Start(r) ==
  /\ Complete(r)
  /\ \A q \in up : copy[q] = copy[r]
  /\ up' = up \cup {r}
  /\ UNCHANGED copy

\* Any copy may be rewritten, step by step, while nothing is up.
Rewrite(r, t) ==
  /\ up = {}
  /\ copy'[r][t] \in Nat
  /\ copy' = [copy EXCEPT ![r][t] = copy'[r][t]]
  /\ UNCHANGED up

Next == \E r \in Replicas : \/ Stop(r)
                            \/ Start(r)
                            \/ \E t \in Trees : Rewrite(r, t)

Spec == Init /\ [][Next]_<<up, copy>>
=============================================================================
