---------------------------- MODULE MCPodConfig ----------------------------
(***************************************************************************)
(* PodConfig with one database, the clusters that differ in what they want *)
(* of a read-write pod, and the database specs that differ in how they get *)
(* there.                                                                  *)
(***************************************************************************)
EXTENDS PodConfig

CONSTANT none   \* the value Unset has

Peered ==
  [enabled |-> TRUE, mode |-> "peer", replicas |-> 1, peers |-> TRUE,
   accesslogEnabled |-> none, tls |-> TRUE, noSync |-> none]

Consuming == [Peered EXCEPT !.mode = "consumer-only", !.tls = FALSE, !.replicas = 2]
Single == [Peered EXCEPT !.enabled = FALSE, !.peers = FALSE, !.tls = FALSE, !.noSync = TRUE]
MCClusterSpecs == {Peered, Consuming, Single}

\* The default; a session log in memory and no journal; no session log and
\* fixed tunables of its own; and a map size that is refused everywhere, with a
\* checkpoint that one of the clusters refuses before that.
Default ==
  [repl |-> none, delta |-> none, source |-> none, ops |-> none, acls |-> <<>>,
   indices |-> {}, limits |-> <<>>, search |-> none, maxSize |-> none,
   noSync |-> none, checkpoint |-> none, envFlags |-> {}, cleanup |-> "Delete"]

InMemory ==
  [Default EXCEPT !.delta = FALSE, !.source = "InMemory", !.acls = <<"user">>,
     !.indices = {"uid"}, !.limits = <<"user">>, !.search = ""]

Fixed ==
  [Default EXCEPT !.ops = 0, !.maxSize = 5, !.envFlags = {"writemap"},
     !.cleanup = "Retain"]

Invalid == [Default EXCEPT !.maxSize = 0, !.checkpoint = ""]

\* The journal switched off and nothing said of the session log.  A careful user
\* does not get there.
Refreshing == [Default EXCEPT !.delta = FALSE]

MCDatabaseSpecs == {Default, InMemory, Fixed, Invalid, Refreshing}
MCDatabases == {"d"}

\* The initial states the run starts from: <<pod, cluster, database>>.
Starts ==
  {<<"none", Peered, Default>>, <<"up", Peered, InMemory>>, <<"up", Single, Invalid>>,
   <<"up", Consuming, Fixed>>}

MCInit == Init /\ <<pod, cluster, crs["d"].spec>> \in Starts
MCSpec == MCInit /\ [][Next]_vars /\ Fairness
=============================================================================
