---------------------------- MODULE Replication ----------------------------
(***************************************************************************)
(* How the syncrepl stanzas of the databases of one SlapdCluster reach its *)
(* pods (operator/internal/controller: slapddatabase_controller.go,        *)
(* ridsegment.go, ridstanza.go, ridpeerresolve.go, providers.go,           *)
(* replidentity.go, slapddatabase_authdb.go, mesh_resolve.go).             *)
(*                                                                         *)
(* The SlapdDatabase controller has one worker: passes over the databases  *)
(* do not overlap, but users, pods, discovery and the SlapdCluster         *)
(* controller act between the steps of a pass.  A pass                     *)
(*   reads the cluster and derives its wiring from the mesh;               *)
(*   reads the mesh's layout and the other databases and judges whether    *)
(*   this database's stanzas can be given RIDs at all;                     *)
(*   reconciles the database on every pod and its replication identity;    *)
(*   resolves the external peers; writes each healthy pod's whole stanza   *)
(*   set, one pod after the other.                                         *)
(* olcSyncRepl is written with one Replace, so a short set is a deletion.  *)
(*                                                                         *)
(* Environment is the set of things that may happen around the operator:   *)
(*   "spec"    the user edits the cluster or the mesh                      *)
(*   "segment" the user declares, edits and deletes databases              *)
(*   "retain"  databases may be deleted with cleanupPolicy Retain          *)
(*   "reuse"   a segment is declared again once its database's CR is gone  *)
(*   "pods"    pods stop answering, lose their volumes, fail a reconcile   *)
(*   "peers"   remote fleets change, bind-password Secrets disappear       *)
(*   "crash"   the operator dies                                           *)
(***************************************************************************)
EXTENDS MeshWiring, FiniteSets

CONSTANTS
  Databases,      \* the SlapdDatabases that may name this cluster
  ClusterSpecs,   \* the SlapdCluster specs the user may declare
  Meshes,         \* the SlapdMesh specs the user may declare
  Segments,       \* the values a user may type as ridSegment
  Self,           \* SITE_NAME of this operator
  PeerNames,      \* the names external peers may have
  StaticPeers,    \* the ones with an address of their own, without discovery
  RemoteFleets,   \* what discovery may find at a peer: sets of remote pods
  Cost,           \* what an event of each kind counts for
  MaxEvents,      \* bound on what users do and on what goes wrong, together
  Environment

ASSUME ReplicationConstants ==
  /\ StaticPeers \subseteq PeerNames
  /\ MaxEvents \in Nat /\ Cost \in [Environment -> Nat \ {0}]
  /\ IsFiniteSet(ClusterSpecs)

\* The fields of a SlapdCluster's spec that matter here; an index may be unset.
Specs ==
  [replicas : Int, readReplicas : Int, replicasPerPeer : Int, base : Int,
   meshRef : BOOLEAN, network : BOOLEAN, consumerOnly : BOOLEAN, sites : SUBSET STRING,
   peers : SUBSET [name : STRING, index : Int \cup {Unset}]]

ASSUME DeclaredTypes ==
  /\ Segments \subseteq Int \cup {Unset}
  /\ ClusterSpecs \subseteq Specs
  /\ \A m \in Meshes :
       /\ m.layout \in Layouts
       /\ \A i \in DOMAIN m.sites : /\ m.sites[i].name \in STRING
                                    /\ m.sites[i].index \in Int \cup {Unset}

VARIABLES
  spec,        \* SlapdCluster.spec
  mesh,        \* SlapdMesh.spec
  readable,    \* the mesh can be read
  dbs,         \* the SlapdDatabases
  fleet,       \* the pods that run at each peer
  providers,   \* status.externalPeerStatuses[].discoveredProviders
  secrets,     \* the peers whose bind-password Secret can be read
  up,          \* the pods that answer
  authdb,      \* the pods with an authentication database
  identity,    \* the node-local replication identities, by pod and database
  served,      \* the databases in cn=config, by pod
  stanzas,     \* olcSyncRepl, by pod and database
  pass,        \* the pass that runs, or NoPass
  events       \* how often users and faults have acted

vars == <<spec, mesh, readable, dbs, fleet, providers, secrets, up, authdb, identity,
          served, stanzas, pass, events>>

declared == <<spec, mesh, readable, dbs>>
remote == <<fleet, providers, secrets>>
onPods == <<up, authdb, identity, served, stanzas>>

----------------------------------------------------------------------------
\* The pods.

\* replicas and readReplicas as every reader takes them.
DeclaredReplicas(sc) == IF sc.replicas <= 0 THEN 1 ELSE sc.replicas

RW(i) == <<"rw", i>>
RO(i) == <<"ro", i>>
RWPods(sc) == {RW(i) : i \in 0 .. DeclaredReplicas(sc) - 1}
ROPods(sc) == {RO(i) : i \in 0 .. sc.readReplicas - 1}
PodsOf(sc) == RWPods(sc) \cup ROPods(sc)
Pods == UNION {PodsOf(sc) : sc \in ClusterSpecs}

\* A pod outside the declared fleet has no process, only its volumes.
Reachable == up \cap PodsOf(spec)

\* layout is history: the one a stanza's RID was derived in.
Stanzas == [rid : 1 .. MaxRID, kind : Kinds, index : Nat, via : Nat,
            layout : Layouts]

\* What a read of the mesh returns.
MeshRead == IF readable THEN mesh ELSE Unset

\* A user acts or something goes wrong.
Event(kind) ==
  /\ kind \in Environment
  /\ events + Cost[kind] <= MaxEvents
  /\ events' = events + Cost[kind]

\* A pass holds what it has read: the cluster with its derived peers, this
\* database's segment and flag, the layout; then the verdict, the pods whose
\* database reconcile completed, the resolved peers and the pods to write.
NoPass == [step |-> "idle", db |-> Unset, sc |-> Unset, seg |-> Unset,
           repl |-> FALSE, layout |-> Unset, refused |-> FALSE,
           healthy |-> {}, peers |-> {}, todo |-> {}]

----------------------------------------------------------------------------
\* Judging whether stanzas can be given RIDs (reconcileRIDSegment).

Declares(d) == dbs[d].state # "absent"
Claims(d, segment) == Declares(d) /\ dbs[d].seg = segment

\* Only replicating siblings count.
Colliding_ReplicatingOnly(d, segment) ==
  \E e \in Databases \ {d} : Claims(e, segment) /\ dbs[e].repl

\* A sibling counts whether or not it replicates now: its stanzas may still be
\* on the pods from before the flag was flipped.
Colliding(d, segment) == \E e \in Databases \ {d} : Claims(e, segment)

JudgeRIDLayout(layout) ==
  IF layout = Unset THEN "RIDLayoutUnresolved"
  ELSE IF ~Validate(layout) THEN "RIDLayoutInvalid" ELSE ""

JudgeRIDSegment(d, segment, layout) ==
  IF segment = Unset THEN "RIDSegmentMissing"
  ELSE IF ~CheckSegment(layout, segment) THEN "RIDSegmentOutOfRange"
  ELSE IF Colliding(d, segment) THEN "RIDSegmentCollision"
  ELSE ""

JudgeClusterFleet(sc, layout) ==
  IF DeclaredReplicas(sc) > layout.podsPerSite THEN "PodsPerSiteExceeded"
  ELSE IF sc.consumerOnly /\ sc.readReplicas > 0
       THEN "ConsumerOnlyReadReplicasUnsupported" ELSE ""

ResolveReplicasPerPeer(sc) == IF sc.replicasPerPeer > 1 THEN sc.replicasPerPeer ELSE 1

JudgeExternalPeers(sc, layout) ==
  IF sc.peers # {} /\ ResolveReplicasPerPeer(sc) >= 2
  THEN "ReplicasPerPeerUnsupported"
  ELSE IF \E p \in sc.peers : p.index = Unset THEN "PeerSiteIndexMissing"
  ELSE IF \E p \in sc.peers : p.index < 0 \/ p.index >= layout.maxSites
       THEN "PeerSiteIndexOutOfRange"
  ELSE IF \E p, q \in sc.peers : p # q /\ p.index = q.index
       THEN "PeerSiteIndexCollision"
  ELSE ""

\* reconcileRIDSegment: layout, segment, fleet, peers, each judged only when
\* the question before it is answered.
Refuses(d, segment, sc, layout) ==
  \/ JudgeRIDLayout(layout) # ""
  \/ JudgeRIDSegment(d, segment, layout) # ""
  \/ JudgeClusterFleet(sc, layout) # ""
  \/ JudgeExternalPeers(sc, layout) # ""

----------------------------------------------------------------------------
\* External peers and their providers.

\* Discovery: one remote pod that cannot be identified, or two with one
\* ordinal, refuse the whole fleet, which is published as no provider.
ProvidersFromPods(pods) ==
  LET live == {r \in pods : r.running /\ r.address}
  IN IF \E r \in live : \/ r.ordinal = Unset
                        \/ \E q \in live \ {r} : q.ordinal = r.ordinal
     THEN {} ELSE {r.ordinal : r \in live}

\* A static peer is one provider at ordinal 0; the others are as discovered.
ExternalPeerProviders(name) ==
  IF name \in StaticPeers THEN {0} ELSE providers[name]

\* One outcome per declared peer, the failures included.
PeerOutcome(name) ==
  IF name \notin secrets THEN "PeerBindPasswordUnreadable"
  ELSE IF ExternalPeerProviders(name) = {} THEN "PeerProvidersUndiscovered"
  ELSE ""

\* The peers that failed are left out and the others converge.
PeersToWrite_Resolved(peers) ==
  {p \in peers : PeerOutcome(p.name) = ""}

\* judgePeerResolutions: every declared peer resolves or nothing is written.
PeersToWrite(peers) ==
  IF \A p \in peers : PeerOutcome(p.name) = "" THEN peers ELSE Unset

\* The k-th of a set of ordinals, in ascending order.
Nth(ordinals, k) ==
  CHOOSE o \in ordinals : Cardinality({q \in ordinals : q < o}) = k

\* Diagonal-first: which remote pod answers the link moves, its RID does not.
Via(ordinals, ordinal) == Nth(ordinals, ordinal % Cardinality(ordinals))

----------------------------------------------------------------------------
\* The stanza set of one pod (buildDatabaseSyncRepl, buildDatabaseSyncReplRO).

\* inClusterStanzaRIDs: every provider of the site but the asking pod itself.
InClusterStanzas(sc, layout, segment, others) ==
  {[rid |-> Local(layout, segment, i), kind |-> "local", index |-> i, via |-> i,
    layout |-> layout] : i \in IF sc.consumerOnly THEN {} ELSE others}

ExternalStanzas(ps, layout, segment, ordinal) ==
  {[rid |-> Remote(layout, segment, p.index), kind |-> "remote",
    index |-> p.index, via |-> Via(p.via, ordinal),
    layout |-> layout] : p \in ps}

Ordinals(sc) == 0 .. DeclaredReplicas(sc) - 1

\* A read-only pod consumes from every read-write pod and from nobody else.
BuildRO(sc, layout, segment) ==
  InClusterStanzas(sc, layout, segment, Ordinals(sc))

\* A read-write pod consumes from its siblings and from the peers.
BuildRW(sc, layout, segment, peers, ordinal) ==
  InClusterStanzas(sc, layout, segment, Ordinals(sc) \ {ordinal})
    \cup ExternalStanzas(peers, layout, segment, ordinal)

Build(sc, layout, segment, peers, pod) ==
  IF pod[1] = "ro" THEN BuildRO(sc, layout, segment)
  ELSE BuildRW(sc, layout, segment, peers, pod[2])

\* Pods are written in order, the read-write ones first.
Before(p, q) == (p[1] = "rw" /\ q[1] = "ro") \/ (p[1] = q[1] /\ p[2] < q[2])
NextPod(todo) == CHOOSE p \in todo : \A q \in todo \ {p} : Before(p, q)

----------------------------------------------------------------------------
\* A pass of the SlapdDatabase controller.

EndPass == pass' = NoPass

\* Reconcile up to the wiring.  A mesh that cannot be resolved ends the pass.
Begin(d) ==
  LET wiring == ResolveMeshWiring(MeshRead, spec, Self)
  IN /\ pass = NoPass
     /\ dbs[d].state = "declared"
     /\ wiring # Unset
     /\ pass' = [NoPass EXCEPT !.step = "judge", !.db = d,
                   !.sc = [spec EXCEPT !.peers = wiring.peers],
                   !.seg = dbs[d].seg, !.repl = dbs[d].repl]
     /\ UNCHANGED <<declared, remote, onPods, events>>

\* The layout is a second read of the mesh.  A refusal withholds the stanzas
\* and nothing else of the pass.
Judge ==
  LET layout == RidLayoutFor(MeshRead, pass.sc)
  IN /\ pass.step = "judge"
     /\ pass' = [pass EXCEPT !.step = "apply", !.layout = layout,
                   !.refused = pass.repl
                     /\ Refuses(pass.db, pass.seg, pass.sc, layout)]
     /\ UNCHANGED <<declared, remote, onPods, events>>

\* applyToPods: a pod that answers may still fail its database reconcile.
ApplyToPods ==
  LET answering == Reachable \cap PodsOf(pass.sc)
  IN /\ pass.step = "apply"
     /\ \E healthy \in SUBSET answering :
          /\ \/ healthy = answering /\ UNCHANGED events
             \/ /\ \E p \in answering : healthy = answering \ {p}
                /\ Event("pods")
          /\ served' = [p \in Pods |->
                          IF p \in healthy THEN served[p] \cup {pass.db}
                          ELSE served[p]]
          /\ pass' = [pass EXCEPT !.step = "identity", !.healthy = healthy]
     /\ UNCHANGED <<declared, remote, up, authdb, identity, stanzas>>

\* The identity is written, but nobody waits for it.
IdentityReady_Always(sc, converged) == TRUE

\* A consumer-only cluster that waits for identities nobody creates.
IdentityReady_ConsumersWait(sc, converged) == RWPods(sc) \subseteq converged

\* authIdentityReadyForStanzas: the read-write pods only; nothing binds to a
\* read-only pod, and nobody binds to a consumer-only cluster.
IdentityReady(sc, converged) ==
  sc.consumerOnly \/ RWPods(sc) \subseteq converged

\* reconcileReplicationIdentities: a pod is given the identity when it answers
\* and has its authentication database.
Converged ==
  IF pass.repl /\ ~pass.sc.consumerOnly
  THEN Reachable \cap authdb \cap PodsOf(pass.sc) ELSE {}

\* The identities, then the gate of step 10: a pass that is refused, not
\* replicating, without identities on every provider, or without any link to
\* write ends here.
Identities ==
  LET converged == Converged
  IN /\ pass.step = "identity"
     /\ identity' = [p \in Pods |->
                       IF p \in converged
                       THEN [identity[p] EXCEPT ![pass.db] = "held"]
                       ELSE identity[p]]
     /\ IF /\ pass.repl /\ ~pass.refused
           /\ IdentityReady(pass.sc, converged)
           /\ DeclaredReplicas(pass.sc) > 1 \/ pass.sc.peers # {}
        THEN pass' = [pass EXCEPT !.step = "resolve"]
        ELSE EndPass
     /\ UNCHANGED <<declared, remote, up, authdb, served, stanzas, events>>

\* The external peers are resolved; one that fails withholds the whole pass.
Resolve ==
  LET peers == PeersToWrite(pass.sc.peers)
  IN /\ pass.step = "resolve"
     /\ IF peers = Unset THEN EndPass
        ELSE pass' = [pass EXCEPT !.step = "write",
               !.peers = {[index |-> p.index,
                           via |-> ExternalPeerProviders(p.name)] : p \in peers},
               !.todo = PodsOf(pass.sc)]
     /\ UNCHANGED <<declared, remote, onPods, events>>

\* One Replace of the whole set, on a pod that answers and has the database.
ApplySyncreplToPod(p, d, desired) ==
  stanzas' = IF p \in Reachable /\ d \in served[p]
             THEN [stanzas EXCEPT ![p][d] = desired] ELSE stanzas

\* The next pod.  One whose database reconcile did not complete keeps what it
\* has.
WritePod ==
  LET p == NextPod(pass.todo)
      d == pass.db
  IN /\ pass.step = "write"
     /\ IF p \in pass.healthy
        THEN ApplySyncreplToPod(p, d,
               Build(pass.sc, pass.layout, pass.seg, pass.peers, p))
        ELSE UNCHANGED stanzas
     /\ IF pass.todo = {p} THEN EndPass
        ELSE pass' = [pass EXCEPT !.todo = @ \ {p}]
     /\ UNCHANGED <<declared, remote, up, authdb, identity, served, events>>

\* handleDeletion: under Delete the database comes off every pod of the fleet
\* before its finalizer goes; under Retain the pods are left alone.
HandleDeletion(d) ==
  LET pods == IF dbs[d].policy = "Delete" THEN PodsOf(spec) ELSE {}
      gone == pods \cap Reachable
  IN /\ pass = NoPass
     /\ dbs[d].state = "deleting"
     /\ served' = [p \in Pods |-> IF p \in gone THEN served[p] \ {d}
                                  ELSE served[p]]
     /\ stanzas' = [p \in Pods |-> IF p \in gone
                                   THEN [stanzas[p] EXCEPT ![d] = {}]
                                   ELSE stanzas[p]]
     /\ dbs' = IF pods \subseteq Reachable
               THEN [dbs EXCEPT ![d].state = "absent"] ELSE dbs
     /\ UNCHANGED <<spec, mesh, readable, remote, up, authdb, identity, pass,
                    events>>

----------------------------------------------------------------------------
\* The SlapdCluster controller, as far as this controller depends on it.

\* ensureAuthDB on every pod that answers.
EnsureAuthDB ==
  /\ ~(Reachable \subseteq authdb)
  /\ authdb' = authdb \cup Reachable
  /\ UNCHANGED <<declared, remote, up, identity, served, stanzas, pass, events>>

\* discoverExternalPeers: what the remote cluster runs now is published.
Discover(name) ==
  /\ providers[name] # ProvidersFromPods(fleet[name])
  /\ providers' = [providers EXCEPT ![name] = ProvidersFromPods(fleet[name])]
  /\ UNCHANGED <<declared, fleet, secrets, onPods, pass, events>>

----------------------------------------------------------------------------
\* Users.

NoDatabase == [state |-> "absent", seg |-> Unset, repl |-> FALSE,
               policy |-> "Delete"]
NewDatabases ==
  [state : {"declared"}, seg : Segments, repl : {TRUE},
   policy : {"Delete"} \cup IF "retain" \in Environment THEN {"Retain"} ELSE {}]

\* A database holds a segment while stanzas of its run are on some volume, or
\* a pass is under way that was allowed to write them.
Holds(d, segment) ==
  \/ \E p \in Pods : \E s \in stanzas[p][d] :
       Decode(s.layout, s.rid).segment = segment
  \/ pass.db = d /\ pass.seg = segment /\ pass.step # "judge" /\ ~pass.refused

\* What a careful user does: a number is declared only while every database
\* that holds it still declares it, so that the collision is refused.  With
\* "reuse" the number of a database whose CR is gone counts as free.
FreeFor(d, segment) ==
  \A e \in Databases \ {d} :
    Holds(e, segment) =>
      \/ dbs[e].state = "declared" /\ dbs[e].seg = segment
      \/ "reuse" \in Environment /\ dbs[e].state = "absent"

\* The newcomer of a collision moves away, and the database that holds the run
\* not before the newcomer's last pass under that number is over.
MayLeave(d) ==
  \A e \in Databases \ {d} :
    Claims(e, dbs[d].seg) \/ (pass.db = e /\ pass.seg = dbs[d].seg)
      => ~Holds(d, dbs[d].seg)

CreateDatabase(d) ==
  /\ Event("segment")
  /\ dbs[d].state = "absent"
  /\ \E new \in NewDatabases :
       /\ FreeFor(d, new.seg)
       /\ dbs' = [dbs EXCEPT ![d] = new]
  /\ UNCHANGED <<spec, mesh, readable, remote, onPods, pass>>

EditDatabase(d) ==
  /\ Event("segment")
  /\ dbs[d].state = "declared"
  /\ \/ \E seg \in Segments \ {dbs[d].seg} :
          /\ FreeFor(d, seg) /\ MayLeave(d)
          /\ dbs' = [dbs EXCEPT ![d].seg = seg]
     \/ dbs' = [dbs EXCEPT ![d].repl = ~@]
  /\ UNCHANGED <<spec, mesh, readable, remote, onPods, pass>>

DeleteDatabase(d) ==
  /\ Event("segment")
  /\ dbs[d].state = "declared" /\ MayLeave(d)
  /\ dbs' = [dbs EXCEPT ![d].state = "deleting"]
  /\ UNCHANGED <<spec, mesh, readable, remote, onPods, pass>>

EditCluster ==
  /\ Event("spec")
  /\ \E s \in ClusterSpecs \ {spec} : spec' = s
  /\ UNCHANGED <<mesh, readable, dbs, remote, onPods, pass>>

EditMesh ==
  /\ Event("spec")
  /\ \E m \in Meshes \ {mesh} : mesh' = m
  /\ UNCHANGED <<spec, readable, dbs, remote, onPods, pass>>

----------------------------------------------------------------------------
\* What goes wrong.

PodDown(p) ==
  /\ Event("pods") /\ p \in Reachable
  /\ up' = up \ {p}
  /\ UNCHANGED <<declared, remote, authdb, identity, served, stanzas, pass>>

PodUp(p) ==
  /\ p \in Pods \ up
  /\ up' = up \cup {p}
  /\ UNCHANGED <<declared, remote, authdb, identity, served, stanzas, pass, events>>

\* The pod comes back on empty volumes.
Wipe(p) ==
  /\ Event("pods") /\ p \in PodsOf(spec)
  /\ up' = up \ {p}
  /\ authdb' = authdb \ {p}
  /\ identity' = [identity EXCEPT ![p] = [d \in Databases |->
                    IF @[d] = "held" THEN "lost" ELSE @[d]]]
  /\ served' = [served EXCEPT ![p] = {}]
  /\ stanzas' = [stanzas EXCEPT ![p] = [d \in Databases |-> {}]]
  /\ UNCHANGED <<declared, remote, pass>>

RemoteFleetChanges(name) ==
  /\ Event("peers")
  /\ \E f \in RemoteFleets \ {fleet[name]} : fleet' = [fleet EXCEPT ![name] = f]
  /\ UNCHANGED <<declared, providers, secrets, onPods, pass>>

SecretGone(name) ==
  /\ Event("peers") /\ name \in secrets
  /\ secrets' = secrets \ {name}
  /\ UNCHANGED <<declared, fleet, providers, onPods, pass>>

SecretBack(name) ==
  /\ name \notin secrets
  /\ secrets' = secrets \cup {name}
  /\ UNCHANGED <<declared, fleet, providers, onPods, pass, events>>

MeshUnreadable ==
  /\ Event("peers") /\ readable
  /\ readable' = FALSE
  /\ UNCHANGED <<spec, mesh, dbs, remote, onPods, pass>>

MeshReadable ==
  /\ ~readable
  /\ readable' = TRUE
  /\ UNCHANGED <<spec, mesh, dbs, remote, onPods, pass, events>>

Crash ==
  /\ Event("crash") /\ pass # NoPass
  /\ EndPass
  /\ UNCHANGED <<declared, remote, onPods>>

----------------------------------------------------------------------------
Init ==
  /\ spec \in ClusterSpecs
  /\ mesh \in Meshes /\ readable = TRUE
  /\ \E old \in [Databases -> {NoDatabase} \cup NewDatabases] :
       /\ Cardinality({d \in Databases : old[d] # NoDatabase}) = 1
       /\ dbs = old
  /\ fleet \in [PeerNames \ StaticPeers -> RemoteFleets]
  /\ providers = [n \in PeerNames \ StaticPeers |-> {}]
  /\ secrets = PeerNames
  /\ up = Pods /\ authdb = {}
  /\ identity = [p \in Pods |-> [d \in Databases |-> "never"]]
  /\ served = [p \in Pods |-> {}]
  /\ stanzas = [p \in Pods |-> [d \in Databases |-> {}]]
  /\ pass = NoPass
  /\ events = 0

Controller ==
  \/ \E d \in Databases : Begin(d) \/ HandleDeletion(d)
  \/ Judge \/ ApplyToPods \/ Identities \/ Resolve \/ WritePod

User ==
  \/ \E d \in Databases : CreateDatabase(d) \/ EditDatabase(d) \/ DeleteDatabase(d)
  \/ EditCluster \/ EditMesh

Surroundings ==
  \/ \E p \in Pods : PodDown(p) \/ PodUp(p) \/ Wipe(p)
  \/ \E n \in PeerNames \ StaticPeers : Discover(n) \/ RemoteFleetChanges(n)
  \/ \E n \in PeerNames : SecretGone(n) \/ SecretBack(n)
  \/ EnsureAuthDB \/ MeshUnreadable \/ MeshReadable \/ Crash

Next == Controller \/ User \/ Surroundings

\* The work queue serves every database again and again, the SlapdCluster
\* controller keeps running, and what broke comes back.
Fairness ==
  /\ \A d \in Databases : SF_vars(Begin(d)) /\ SF_vars(HandleDeletion(d))
  /\ WF_vars(Judge \/ ApplyToPods \/ Identities \/ Resolve \/ WritePod)
  /\ \A p \in Pods : WF_vars(PodUp(p))
  /\ \A n \in PeerNames \ StaticPeers : WF_vars(Discover(n))
  /\ \A n \in PeerNames : WF_vars(SecretBack(n))
  /\ WF_vars(EnsureAuthDB) /\ WF_vars(MeshReadable)

Spec == Init /\ [][Next]_vars
FairSpec == Spec /\ Fairness

----------------------------------------------------------------------------
Steps == {"idle", "judge", "apply", "identity", "resolve", "write"}

\* Every variable has its type; in particular no stanza carries the reserved
\* RID 0 that a refused derivation returns.
TypeOK ==
  /\ spec \in ClusterSpecs /\ mesh \in Meshes /\ readable \in BOOLEAN
  /\ dbs \in [Databases -> [state : {"absent", "declared", "deleting"},
                            seg : Segments \cup {Unset}, repl : BOOLEAN,
                            policy : {"Delete", "Retain"}]]
  /\ fleet \in [PeerNames \ StaticPeers -> RemoteFleets]
  /\ DOMAIN providers = PeerNames \ StaticPeers /\ secrets \subseteq PeerNames
  /\ up \subseteq Pods /\ authdb \subseteq Pods
  /\ identity \in [Pods -> [Databases -> {"never", "held", "lost"}]]
  /\ served \in [Pods -> SUBSET Databases]
  /\ \A p \in Pods : \A d \in Databases : stanzas[p][d] \subseteq Stanzas
  /\ pass.step \in Steps
  /\ events \in 0 .. MaxEvents

\* A RID is unique per server: on no pod do the stanzas of two databases, or
\* two stanzas of one, carry the same number.  The one exception is a change of
\* the mesh's ridLayout ("permitted, not forbidden", adr-031:468), which
\* renumbers one database after the other: a new number may be an old one of a
\* database that is still to be renumbered.
NoSharedRids ==
  \A p \in Pods : \A d, e \in Databases :
    \A s \in stanzas[p][d], t \in stanzas[p][e] :
      s.rid = t.rid => \/ d = e /\ s = t
                       \/ d # e /\ s.layout # t.layout

\* A stanza never names a provider that was not given the identity the stanza
\* binds as (ADR-027: identity first, stanza second).  A provider that lost its
\* volumes since is being given it again.
IdentityBeforeStanza ==
  \A p \in Pods : \A d \in Databases : \A s \in stanzas[p][d] :
    s.kind = "local" => identity[RW(s.index)][d] # "never"

\* A fleet that fits a slot of serverIDs, or that the layout admits.
FitsSlot(sc) ==
  \/ DeclaredReplicas(sc) <= ServerIDStride
  \/ DeclaredReplicas(sc) <= MeshRIDLayout(mesh).podsPerSite

\* No pod of this site writes under the serverID of a pod of another site that
\* derives its wiring from the same mesh, whatever sites and fleets the users
\* declare.  The exception: the stanzas of a fleet above podsPerSite are
\* withheld, its serverIDs are not, and its seventeenth pod takes the first
\* serverID of the next slot.
SidsDisjoint ==
  \A other \in ClusterSpecs, b \in Names(mesh.sites) \ {Self} :
    LET here == ResolveMeshWiring(mesh, spec, Self)
        there == ResolveMeshWiring(mesh, other, b)
    IN /\ spec.meshRef /\ here # Unset /\ FitsSlot(spec)
       /\ other.meshRef /\ there # Unset /\ FitsSlot(other)
       => \A i \in Ordinals(spec), j \in Ordinals(other) :
            DesiredServerID(here.base, i) # DesiredServerID(there.base, j)

\* The links a cluster declares for a pod.
Declared(sc, p, s) ==
  IF s.kind = "local"
  THEN /\ ~sc.consumerOnly /\ s.index < DeclaredReplicas(sc)
       /\ ~(p[1] = "rw" /\ p[2] = s.index)
  ELSE p[1] = "rw" /\ \E q \in sc.peers : q.index = s.index

\* A pass never takes a link from a pod that the cluster it read declares: an
\* unreadable mesh, a peer that does not resolve or a Secret that is gone
\* leave every stanza where it is.
KeepsDeclaredLinks ==
  [][\A p \in Pods : \A d \in Databases : \A s \in stanzas[p][d] :
       /\ d \in served'[p]
       /\ pass.step = "write" => pass.db # d \/ Declared(pass.sc, p, s)
       => \E t \in stanzas'[p][d] : t.kind = s.kind /\ t.index = s.index]_vars

\* What a database's stanzas on a pod should be, once everything it needs is
\* declared and can be resolved.
Settled(d) ==
  LET wiring == ResolveMeshWiring(MeshRead, spec, Self)
      sc == [spec EXCEPT !.peers = wiring.peers]
  IN /\ dbs[d].state = "declared" /\ dbs[d].repl
     /\ wiring # Unset
     /\ ~Refuses(d, dbs[d].seg, sc, RidLayoutFor(MeshRead, spec))
     /\ DeclaredReplicas(sc) > 1 \/ sc.peers # {}
     /\ \A q \in sc.peers : PeerOutcome(q.name) = ""

\* They are numbered in the layout in force, also after it was changed.
Desired(d, p) ==
  LET wiring == ResolveMeshWiring(MeshRead, spec, Self)
  IN Build(spec, RidLayoutFor(MeshRead, spec), dbs[d].seg,
           {[index |-> q.index, via |-> ExternalPeerProviders(q.name)] :
              q \in wiring.peers}, p)

\* Once users and faults leave the cluster alone, every database that can be
\* given RIDs replicates: each pod carries exactly the links it should.
Converges ==
  <>[](\A d \in Databases : Settled(d) =>
         \A p \in PodsOf(spec) : stanzas[p][d] = Desired(d, p))

=============================================================================
