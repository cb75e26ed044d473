--------------------------- MODULE MCReplication ---------------------------
(***************************************************************************)
(* Instances of Replication for TLC: a band of RIDs with two segments of   *)
(* two pods and three sites, one peer that is discovered and one with an   *)
(* address of its own.                                                     *)
(***************************************************************************)
EXTENDS Replication

MCLayout == [podsPerSite |-> 2, maxSites |-> 3]
NoLayout == [podsPerSite |-> 0, maxSites |-> 0]

Site(n, i) == [name |-> n, index |-> i]
Mesh(sites, layout) == [sites |-> sites, layout |-> layout, network |-> FALSE]

Plain == [replicas |-> 2, readReplicas |-> 0, meshRef |-> TRUE, peers |-> {},
          base |-> 0, network |-> FALSE, sites |-> {}, replicasPerPeer |-> 1,
          consumerOnly |-> FALSE]

\* Two pods and a reader under the mesh; three pods, one more than the layout
\* holds; a consumer of one hand-written peer.
MCSpecs == {[Plain EXCEPT !.readReplicas = 1],
            [Plain EXCEPT !.replicas = 3],
            [Plain EXCEPT !.replicas = 1, !.meshRef = FALSE,
               !.consumerOnly = TRUE, !.peers = {Site("c", 2)}]}

\* Two sites; the list reordered and grown; two sites on one slot; a layout of
\* two other segments.
TwoSites == Mesh(<<Site("a", 0), Site("b", 1)>>, NoLayout)
MCMeshes == {TwoSites,
             Mesh(<<Site("c", 2), Site("b", 1), Site("a", 0)>>, NoLayout),
             Mesh(<<Site("a", 0), Site("b", 0)>>, NoLayout),
             Mesh(<<Site("a", 0), Site("b", 1)>>,
                  [podsPerSite |-> 4, maxSites |-> 2])}

Remote1(n, o) == [pod |-> n, ordinal |-> o, running |-> TRUE, address |-> TRUE]

\* A healthy fleet, and one the label selector matches twice.
MCFleets == {{Remote1("x-0", 0), Remote1("x-1", 1)},
             {Remote1("x-0", 0), Remote1("y-0", 0)}}

\* Up to three edits of databases, or one of them and one event of any other
\* kind.
MCCost == [k \in Environment |-> IF k = "segment" THEN 1 ELSE 2]

\* The databases are interchangeable and the remote fleet breaks in a step:
\* one database on segment 0 and a healthy fleet and two sites to begin with.
MCInit ==
  /\ Init
  /\ LET first == CHOOSE d \in Databases : TRUE
     IN dbs[first].seg = 0 /\ dbs[first].policy = "Delete"
  /\ spec.readReplicas = 1 /\ mesh = TwoSites
  /\ \A n \in DOMAIN fleet : ProvidersFromPods(fleet[n]) # {}

MCSpec == MCInit /\ [][Next]_vars /\ Fairness

=============================================================================
