--------------------------- MODULE MCSeedFounding ---------------------------
(***************************************************************************)
(* SeedFounding with a founder of one pod and a second site with a         *)
(* read-write and a read-only pod.                                         *)
(***************************************************************************)
EXTENDS SeedFounding

MCSites == {"a", "b"}
MCPods ==
  {[site |-> "a", ordinal |-> 0, readOnly |-> FALSE],
   [site |-> "b", ordinal |-> 0, readOnly |-> FALSE],
   [site |-> "b", ordinal |-> 0, readOnly |-> TRUE]}
MCFounders == {"a", Unset}
MCEvents == [f \in MCFounders |-> IF f = Unset THEN 0 ELSE 2]

\* At most one operator without an identity.
MCInit == Init /\ \A s, t \in Sites : siteName[s] = Unset /\ siteName[t] = Unset => s = t
MCSpec == MCInit /\ [][Next]_vars /\ Fairness

MCBase == [s \in MCSites |-> IF s = "a" THEN 0 ELSE 100]
=============================================================================
