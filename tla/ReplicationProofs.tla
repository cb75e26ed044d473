------------------------- MODULE ReplicationProofs -------------------------
(***************************************************************************)
(* What the passes over the databases of a cluster keep on its pods: RIDs  *)
(* that are unique, providers that know the identity a stanza binds as,    *)
(* links that only a changed declaration takes away; and serverIDs that    *)
(* the sites of a mesh never share.  For every set of databases, cluster   *)
(* specs, meshes and peers, and every number of events.                    *)
(***************************************************************************)
EXTENDS Replication, RidCoordinatesProofs, TLAPS

-----------------------------------------------------------------------------
\* The wiring a mesh derives.

\* A derivation without a fault has found none of the faults it looks for.
LEMMA NoFault ==
  ASSUME NEW m, NEW sc, NEW name, DerivationFault(m, sc, name) = ""
  PROVE  /\ SiteIndicesFault(m.sites, MeshRIDLayout(m)) = ""
         /\ StrideFault(MeshRIDLayout(m)) = ""
         /\ MeshSiteFault(m.sites, name) = ""
         /\ SelectorFault(m.sites, sc.sites, name) = ""
  BY DEF DerivationFault

\* A mesh's layout is a layout.
LEMMA LayoutOfMesh ==
  ASSUME NEW m \in Meshes
  PROVE  MeshRIDLayout(m) \in Layouts
  BY DeclaredTypes, MeshConstants DEF MeshRIDLayout, Layouts

\* A site that is one of the mesh's has its own index, which no other site has.
LEMMA IndexFacts ==
  ASSUME NEW m \in Meshes, ~Malformed(m.sites), NEW a \in Names(m.sites)
  PROVE  /\ IndexOf(m.sites, a) \in Nat
         /\ \A b \in Names(m.sites) :
              IndexOf(m.sites, a) = IndexOf(m.sites, b) => a = b
<1> DEFINE at(n) == CHOOSE i \in DOMAIN m.sites : m.sites[i].name = n
<1>1. \A n \in Names(m.sites) :
        at(n) \in DOMAIN m.sites /\ m.sites[at(n)].name = n
              /\ IndexOf(m.sites, n) = m.sites[at(n)].index
  BY DEF Names, IndexOf
<1>2. \A i \in DOMAIN m.sites : m.sites[i].index \in Nat
  BY DeclaredTypes DEF Malformed
<1>3. \A i, j \in DOMAIN m.sites : m.sites[i].index = m.sites[j].index => i = j
  BY DEF Malformed
<1> HIDE DEF at
<1> QED BY <1>1, <1>2, <1>3

\* The slots of the sites do not overlap: a slot holds sixteen serverIDs, and a
\* layout that admits more pods than that derives nothing.
LEMMA SlotsDisjoint ==
  ASSUME mesh \in Meshes, NEW sc \in ClusterSpecs, sc.meshRef,
         NEW other \in ClusterSpecs, other.meshRef,
         NEW a, NEW b \in Names(mesh.sites), a # b,
         ResolveMeshWiring(mesh, sc, a) # Unset, FitsSlot(sc),
         ResolveMeshWiring(mesh, other, b) # Unset, FitsSlot(other),
         NEW i \in Ordinals(sc), NEW j \in Ordinals(other)
  PROVE  DesiredServerID(ResolveMeshWiring(mesh, sc, a).base, i) #
           DesiredServerID(ResolveMeshWiring(mesh, other, b).base, j)
<1> DEFINE m == mesh
           x == IndexOf(m.sites, a)
           y == IndexOf(m.sites, b)
<1>1. DerivationFault(m, sc, a) = "" /\ DerivationFault(m, other, b) = ""
  BY DEF ResolveMeshWiring
<1>2. /\ ResolveMeshWiring(m, sc, a).base = 16 * x
      /\ ResolveMeshWiring(m, other, b).base = 16 * y
  BY <1>1 DEF ResolveMeshWiring, ServerIDBaseForSite, ServerIDStride
<1>3. ~Malformed(m.sites) /\ a \in Names(m.sites)
  BY <1>1, NoFault DEF MeshSiteFault
<1>4. MeshRIDLayout(m).podsPerSite \in Int /\ MeshRIDLayout(m).podsPerSite <= 15
  <2>1. StrideFault(MeshRIDLayout(m)) = ""
    BY <1>1, NoFault
  <2> QED BY <2>1, LayoutOfMesh DEF Layouts, StrideFault, MaxPodsPerSite, ServerIDStride
<1>5. x \in Nat /\ y \in Nat /\ x # y
  BY <1>3, IndexFacts
<1>6. ASSUME NEW c \in ClusterSpecs, FitsSlot(c)
      PROVE  Ordinals(c) \subseteq 0 .. 15
  <2>1. DeclaredReplicas(c) \in Int
    BY DeclaredTypes DEF DeclaredReplicas, Specs
  <2>2. DeclaredReplicas(c) <= 16
    BY <1>4, <1>6, <2>1 DEF FitsSlot, ServerIDStride
  <2> QED BY <2>1, <2>2 DEF Ordinals
<1>7. i \in 0 .. 15 /\ j \in 0 .. 15
  BY <1>6
<1> HIDE DEF x, y
<1> QED BY <1>2, <1>5, <1>7 DEF DesiredServerID

\* The peers a cluster has, declared or derived, have an index or lack one.
LEMMA PeersOfWiring ==
  ASSUME NEW m, m \in Meshes \/ m = Unset, NEW sc \in ClusterSpecs, NEW name,
         ResolveMeshWiring(m, sc, name) # Unset
  PROVE  ResolveMeshWiring(m, sc, name).peers
           \in SUBSET [name : STRING, index : Int \cup {Unset}]
<1>1. CASE ~sc.meshRef
  BY <1>1, DeclaredTypes DEF ResolveMeshWiring, Specs
<1>2. CASE sc.meshRef
  <2>1. DerivationFault(m, sc, name) = "" /\ m \in Meshes
    BY <1>2 DEF ResolveMeshWiring
  <2>2. ~Malformed(m.sites)
    BY <2>1, NoFault DEF MeshSiteFault
  <2>3. Spans(m.sites, sc.sites) \subseteq Names(m.sites)
    <3>1. SelectorFault(m.sites, sc.sites, name) = ""
      BY <2>1, NoFault
    <3> DEFINE faults == {MeshSiteFault(m.sites, n) : n \in sc.sites} \ {""}
    <3>2. faults = {}
      <4> SUFFICES ASSUME faults # {} PROVE FALSE
        OBVIOUS
      <4>1. (CHOOSE f \in faults : TRUE) \in faults
        OBVIOUS
      <4>2. (CHOOSE f \in faults : TRUE) = ""
        BY <3>1 DEF SelectorFault
      <4> QED BY <4>1, <4>2
    <3>3. \A n \in sc.sites : MeshSiteFault(m.sites, n) = ""
      BY <3>2
    <3> QED BY <3>3, <2>2 DEF MeshSiteFault, Spans
  <2>4. ResolveMeshWiring(m, sc, name).peers
          = {[name |-> n, index |-> IndexOf(m.sites, n)] :
               n \in Spans(m.sites, sc.sites) \ {name}}
    BY <1>2, <2>1 DEF ResolveMeshWiring, ExternalPeersForSite
  <2>5. \A n \in Names(m.sites) : n \in STRING
    BY <2>1, DeclaredTypes DEF Names
  <2>6. \A n \in Spans(m.sites, sc.sites) : n \in STRING /\ IndexOf(m.sites, n) \in Nat
    BY <2>1, <2>2, <2>3, <2>5, IndexFacts
  <2> QED BY <2>4, <2>6
<1> QED BY <1>1, <1>2

-----------------------------------------------------------------------------
\* The stanzas a pass builds.

\* What a judgement that does not refuse has established of a cluster and a
\* segment: the run exists, and every provider and every peer has its place.
Addressable(sc, layout, segment) ==
  /\ sc \in Specs /\ layout \in Layouts /\ segment \in Int
  /\ CheckSegment(layout, segment)
  /\ DeclaredReplicas(sc) <= layout.podsPerSite
  /\ \A p \in sc.peers : p.index \in 0 .. layout.maxSites - 1
  /\ \A p, q \in sc.peers : p.index = q.index => p = q

\* The resolved peers are the declared ones, one for one.
Matches(peers, sc) ==
  /\ \A r \in peers : \E p \in sc.peers : r.index = p.index
  /\ \A p \in sc.peers : \E r \in peers : r.index = p.index
  /\ \A r, q \in peers : r.index = q.index => r = q

\* A coordinate inside of the run has a RID.
LEMMA HasRid ==
  ASSUME NEW layout \in Layouts, NEW segment \in Int, CheckSegment(layout, segment)
  PROVE  /\ \A o \in Nat : o < layout.podsPerSite =>
              Local(layout, segment, o) # Refused
         /\ \A o \in Nat : o < layout.maxSites =>
              Remote(layout, segment, o) # Refused
<1> DEFINE w == SegmentWidth(layout)
<1>1. Validate(layout) /\ segment \in Nat
  BY DEF CheckSegment
<1>2. w \in Nat /\ layout.podsPerSite \in Nat
  BY <1>1, LayoutFacts, BandConstants
<1>3. segment * w \in Nat
  BY <1>1, <1>2
<1> HIDE DEF w
<1>4. ASSUME NEW o \in Nat, o < layout.podsPerSite
      PROVE  Local(layout, segment, o) # Refused
  <2>1. Local(layout, segment, o) = 1 + segment * w + o
    BY <1>4 DEF Local, w
  <2> QED BY <1>3, <2>1 DEF Refused
<1>5. ASSUME NEW o \in Nat, o < layout.maxSites
      PROVE  Remote(layout, segment, o) # Refused
  <2>1. Remote(layout, segment, o)
          = 1 + segment * w + layout.podsPerSite + o
    BY <1>5 DEF Remote, w
  <2> QED BY <1>2, <1>3, <2>1 DEF Refused
<1> QED BY <1>4, <1>5

\* Every stanza of a built set lies in the run of its segment and names a
\* provider of the cluster or a peer, and no two share a RID.
LEMMA BuildFacts ==
  ASSUME NEW sc, NEW layout, NEW segment, Addressable(sc, layout, segment),
         NEW peers, Matches(peers, sc), NEW pod
  PROVE  LET S == Build(sc, layout, segment, peers, pod)
         IN /\ \A s \in S :
                 /\ s.layout = layout /\ Decode(layout, s.rid).segment = segment
                 /\ s.kind \in Kinds /\ s.index \in Nat
                 /\ s.kind = "local" => ~sc.consumerOnly /\ s.index \in Ordinals(sc)
            /\ \A s, t \in S : s.rid = t.rid => s = t
<1> DEFINE loc(i) == [rid |-> Local(layout, segment, i), kind |-> "local",
                      index |-> i, via |-> i, layout |-> layout]
           rem(p) == [rid |-> Remote(layout, segment, p.index), kind |-> "remote",
                      index |-> p.index, via |-> Via(p.via, pod[2]), layout |-> layout]
           S == Build(sc, layout, segment, peers, pod)
<1>1. \A s \in S : \/ ~sc.consumerOnly /\ \E i \in Ordinals(sc) : s = loc(i)
                   \/ \E p \in peers : s = rem(p)
  BY DEF Build, BuildRO, BuildRW, InClusterStanzas, ExternalStanzas
<1>2. layout \in Layouts /\ segment \in Int
  BY DEF Addressable
<1>3. \A i \in Ordinals(sc) : i \in Nat /\ i < layout.podsPerSite
  BY <1>2 DEF Ordinals, Addressable, DeclaredReplicas, Specs, Layouts
<1>4. \A p \in peers : p.index \in Nat /\ p.index < layout.maxSites
  BY <1>2 DEF Addressable, Matches, Layouts
<1>5. \A i \in Ordinals(sc) : Local(layout, segment, i) # Refused
  BY <1>2, <1>3, HasRid DEF Addressable
<1>6. \A p \in peers : Remote(layout, segment, p.index) # Refused
  BY <1>2, <1>4, HasRid DEF Addressable
<1>7. /\ \A i \in Ordinals(sc) : Decode(layout, loc(i).rid).segment = segment
      /\ \A p \in peers : Decode(layout, rem(p).rid).segment = segment
  <2>1. ASSUME NEW i \in Ordinals(sc)
        PROVE  Decode(layout, loc(i).rid).segment = segment
    <3>1. Decode(layout, Local(layout, segment, i))
            = [segment |-> segment, kind |-> "local", index |-> i]
      BY <1>2, <1>3, <1>5, DecodeInverts
    <3> QED BY <3>1
  <2>2. ASSUME NEW p \in peers
        PROVE  Decode(layout, rem(p).rid).segment = segment
    <3>1. Decode(layout, Remote(layout, segment, p.index))
            = [segment |-> segment, kind |-> "remote", index |-> p.index]
      BY <1>2, <1>4, <1>6, DecodeInverts
    <3> QED BY <3>1
  <2> QED BY <2>1, <2>2
<1>8. \A i, j \in Ordinals(sc) : loc(i).rid = loc(j).rid => loc(i) = loc(j)
  <2>1. ASSUME NEW i \in Ordinals(sc), NEW j \in Ordinals(sc),
               Local(layout, segment, i) = Local(layout, segment, j)
        PROVE  i = j
    BY <1>2, <1>3, <1>5, <2>1, RidsDistinct
  <2> QED BY <2>1
<1>9. \A p, q \in peers : rem(p).rid = rem(q).rid => rem(p) = rem(q)
  <2>1. ASSUME NEW p \in peers, NEW q \in peers,
               Remote(layout, segment, p.index) = Remote(layout, segment, q.index)
        PROVE  p = q
    <3>1. p.index = q.index
      BY <1>2, <1>4, <1>6, <2>1, RidsDistinct
    <3> QED BY <3>1 DEF Matches
  <2> QED BY <2>1
<1>10. \A i \in Ordinals(sc), p \in peers : loc(i).rid # rem(p).rid
  <2>1. ASSUME NEW i \in Ordinals(sc), NEW p \in peers
        PROVE  Local(layout, segment, i) # Remote(layout, segment, p.index)
    BY <1>2, <1>3, <1>4, <1>5, RidsDistinct
  <2> QED BY <2>1
<1>11. \A s \in S : /\ s.layout = layout /\ Decode(layout, s.rid).segment = segment
                    /\ s.kind \in Kinds /\ s.index \in Nat
                    /\ s.kind = "local" => ~sc.consumerOnly /\ s.index \in Ordinals(sc)
  BY <1>1, <1>3, <1>4, <1>7 DEF Kinds
<1>12. \A s, t \in S : s.rid = t.rid => s = t
  <2> HIDE DEF loc, rem, S
  <2> QED BY <1>1, <1>8, <1>9, <1>10
<1> QED BY <1>11, <1>12

\* Every link the cluster declares for a pod is in the set built for it.
LEMMA BuildKeeps ==
  ASSUME NEW sc \in Specs, NEW layout, NEW segment, NEW peers, Matches(peers, sc),
         NEW pod \in Pods, NEW s, s.index \in Nat, s.kind \in Kinds, Declared(sc, pod, s)
  PROVE  \E t \in Build(sc, layout, segment, peers, pod) :
           t.kind = s.kind /\ t.index = s.index
<1>1. CASE s.kind = "local"
  <2> DEFINE t == [rid |-> Local(layout, segment, s.index), kind |-> "local",
                   index |-> s.index, via |-> s.index, layout |-> layout]
  <2>1. s.index \in Ordinals(sc) /\ ~sc.consumerOnly
    BY <1>1 DEF Declared, Ordinals, DeclaredReplicas, Specs
  <2>2. t \in Build(sc, layout, segment, peers, pod)
    <3>1. CASE pod[1] = "ro"
      BY <2>1, <3>1 DEF Build, BuildRO, InClusterStanzas
    <3>2. CASE pod[1] # "ro"
      <4>1. pod[1] = "rw"
        BY <3>2 DEF Pods, PodsOf, RWPods, ROPods, RW, RO
      <4>2. s.index # pod[2]
        BY <1>1, <4>1 DEF Declared
      <4> QED BY <2>1, <3>2, <4>2 DEF Build, BuildRW, InClusterStanzas
    <3> QED BY <3>1, <3>2
  <2> QED BY <1>1, <2>2
<1>2. CASE s.kind # "local"
  <2>1. PICK r \in peers : r.index = s.index
    BY <1>2 DEF Declared, Matches
  <2> DEFINE t == [rid |-> Remote(layout, segment, r.index), kind |-> "remote",
                   index |-> r.index, via |-> Via(r.via, pod[2]), layout |-> layout]
  <2>2. pod[1] = "rw"
    BY <1>2 DEF Declared
  <2>3. t \in Build(sc, layout, segment, peers, pod)
    BY <2>2 DEF Build, BuildRW, ExternalStanzas
  <2>4. t.kind = s.kind /\ t.index = s.index
    BY <1>2, <2>1 DEF Kinds
  <2> QED BY <2>3, <2>4
<1> QED BY <1>1, <1>2

-----------------------------------------------------------------------------
\* The invariant.

DatabaseSpecs == [state : {"absent", "declared", "deleting"}, seg : Segments \cup {Unset},
                  repl : BOOLEAN, policy : {"Delete", "Retain"}]

PassesOver(P) ==
  [step : Steps, db : Databases \cup {Unset}, sc : Specs \cup {Unset},
   seg : Segments \cup {Unset}, repl : BOOLEAN, layout : Layouts \cup {Unset},
   refused : BOOLEAN, healthy : SUBSET Pods, peers : SUBSET P, todo : SUBSET Pods]

Typed ==
  /\ spec \in ClusterSpecs /\ mesh \in Meshes
  /\ dbs \in [Databases -> DatabaseSpecs]
  /\ up \subseteq Pods
  /\ identity \in [Pods -> [Databases -> {"never", "held", "lost"}]]
  /\ served \in [Pods -> SUBSET Databases]
  /\ \E L : stanzas \in [Pods -> [Databases -> SUBSET L]]
  /\ \E P : pass \in PassesOver(P)
  /\ pass.step # "idle" =>
       pass.db \in Databases /\ pass.sc \in Specs /\ PodsOf(pass.sc) \subseteq Pods

\* The pass may write stanzas of its segment.
MayWrite == pass.step \notin {"idle", "judge"} /\ pass.repl /\ ~pass.refused

\* What it was allowed to write it can address, in the layout it has read.
Licensed == MayWrite => Addressable(pass.sc, pass.layout, pass.seg)

\* Past the gate every provider was given the identity.
Introduced ==
  pass.step \in {"resolve", "write"} =>
    /\ MayWrite
    /\ pass.sc.consumerOnly \/
         \A i \in Ordinals(pass.sc) : identity[RW(i)][pass.db] # "never"

\* Pods are written only with every declared peer resolved.
Linked == pass.step = "write" => Matches(pass.peers, pass.sc)

\* The stanzas of one database on one pod.
WellFormed ==
  \A p \in Pods, d \in Databases :
    /\ \A s \in stanzas[p][d] :
         s.kind \in Kinds /\ s.index \in Nat /\ (s.kind = "local" => RW(s.index) \in Pods)
    /\ \A s, t \in stanzas[p][d] : s.rid = t.rid => s = t

\* A database wields a segment that its stanzas carry or that its pass may write.
Wields(d, segment) ==
  \/ \E p \in Pods : \E s \in stanzas[p][d] : Decode(s.layout, s.rid).segment = segment
  \/ MayWrite /\ pass.db = d /\ pass.seg = segment

AtWork(d, segment) == pass.step # "idle" /\ pass.db = d /\ pass.seg = segment

\* The number of a database whose CR is gone does not count as free.
NoReuse == "reuse" \notin Environment

\* No two databases wield one segment.
Exclusive ==
  NoReuse =>
    \A d, e \in Databases : \A segment : Wields(d, segment) /\ Wields(e, segment) => d = e

\* Whoever wields a segment that another database claims, or works under, still
\* declares it, so that the other is refused.
HoldersDeclare ==
  NoReuse =>
    \A d, e \in Databases : \A segment :
      d # e /\ Wields(e, segment) /\ (Claims(d, segment) \/ AtWork(d, segment)) =>
        dbs[e].state = "declared" /\ dbs[e].seg = segment

Inv ==
  /\ Typed /\ Licensed /\ Introduced /\ Linked
  /\ WellFormed /\ IdentityBeforeStanza /\ Exclusive /\ HoldersDeclare

-----------------------------------------------------------------------------
\* In the beginning there is no stanza and no pass.
LEMMA InitInv == Init => Inv
<1> SUFFICES ASSUME Init PROVE Inv
  OBVIOUS
<1>1. pass = NoPass /\ pass.step = "idle" /\ NoPass \in PassesOver({})
  BY DEF Init, NoPass, PassesOver, Steps
<1>2. NoDatabase \in DatabaseSpecs /\ NewDatabases \subseteq DatabaseSpecs
  BY DEF NoDatabase, NewDatabases, DatabaseSpecs
<1>3. dbs \in [Databases -> DatabaseSpecs]
  BY <1>2 DEF Init
<1>4. stanzas \in [Pods -> [Databases -> SUBSET {}]]
  BY DEF Init
<1>5. \A p \in Pods, d \in Databases : stanzas[p][d] = {}
  BY DEF Init
<1>6. Typed
  BY <1>1, <1>3, <1>4 DEF Init, Typed
<1>7. ~MayWrite /\ Licensed /\ Introduced /\ Linked
  BY <1>1 DEF MayWrite, Licensed, Introduced, Linked
<1>8. WellFormed /\ IdentityBeforeStanza
  BY <1>5 DEF WellFormed, IdentityBeforeStanza
<1>9. Exclusive /\ HoldersDeclare
  BY <1>5, <1>7 DEF Exclusive, HoldersDeclare, Wields
<1> QED BY <1>6, <1>7, <1>8, <1>9 DEF Inv

\* No pass is a pass without a step.
LEMMA NoPassFacts ==
  /\ NoPass.step = "idle" /\ \A P : NoPass \in PassesOver(P)
  BY DEF NoPass, PassesOver, Steps

\* Stanzas only go and nobody forgets that an identity was given: what is said
\* of the stanzas stays true.
LEMMA StanzasShrink ==
  ASSUME Inv,
         \A p \in Pods, d \in Databases : stanzas'[p][d] \subseteq stanzas[p][d],
         \A p \in Pods, d \in Databases : identity[p][d] # "never" => identity'[p][d] # "never"
  PROVE  WellFormed' /\ IdentityBeforeStanza'
  BY DEF Inv, WellFormed, IdentityBeforeStanza

\* The pass goes on as it is or ends, whatever happens around it.
LEMMA PassStays ==
  ASSUME Inv, pass' = pass \/ pass' = NoPass,
         \A p \in Pods, d \in Databases : identity[p][d] # "never" => identity'[p][d] # "never"
  PROVE  /\ Licensed' /\ Introduced' /\ Linked'
         /\ MayWrite' => MayWrite
         /\ pass'.step # "idle" => pass' = pass
<1>1. CASE pass' = NoPass
  BY <1>1, NoPassFacts DEF Licensed, Introduced, Linked, MayWrite
<1>2. CASE pass' = pass
  <2>1. MayWrite' <=> MayWrite
    BY <1>2 DEF MayWrite
  <2>2. Licensed' /\ Linked'
    BY <1>2, <2>1 DEF Inv, Licensed, Linked, Addressable
  <2>3. Introduced'
    <3>1. pass.step # "idle" => pass.db \in Databases /\ \A i \in Ordinals(pass.sc) : RW(i) \in Pods
      BY DEF Inv, Typed, PodsOf, RWPods, Ordinals
    <3> QED BY <1>2, <2>1, <3>1 DEF Inv, Introduced
  <2> QED BY <1>2, <2>1, <2>2, <2>3
<1> QED BY <1>1, <1>2

\* Nothing is wielded or worked under that was not before, and the databases are
\* declared as they were.
LEMMA NothingGained ==
  ASSUME Inv, dbs' = dbs,
         \A d \in Databases : \A segment : Wields(d, segment)' => Wields(d, segment),
         \A d \in Databases : \A segment : AtWork(d, segment)' =>
            AtWork(d, segment) \/ Claims(d, segment)
  PROVE  Exclusive' /\ HoldersDeclare'
  BY DEF Inv, Exclusive, HoldersDeclare, Claims, Declares

\* What users, pods and surroundings do without touching a database's
\* declaration or adding a stanza.
LEMMA Around ==
  ASSUME Inv, Typed', dbs' = dbs, pass' = pass \/ pass' = NoPass,
         \A p \in Pods, d \in Databases : stanzas'[p][d] \subseteq stanzas[p][d],
         \A p \in Pods, d \in Databases : identity[p][d] # "never" => identity'[p][d] # "never"
  PROVE  Inv'
<1>1. WellFormed' /\ IdentityBeforeStanza'
  BY StanzasShrink
<1>2. /\ Licensed' /\ Introduced' /\ Linked'
      /\ MayWrite' => MayWrite
      /\ pass'.step # "idle" => pass' = pass
  BY PassStays
<1>3. \A d \in Databases : \A segment : Wields(d, segment)' => Wields(d, segment)
  BY <1>2 DEF Wields, MayWrite
<1>4. \A d \in Databases : \A segment : AtWork(d, segment)' => AtWork(d, segment)
  BY <1>2 DEF AtWork
<1>5. Exclusive' /\ HoldersDeclare'
  BY <1>3, <1>4, NothingGained
<1> QED BY <1>1, <1>2, <1>5 DEF Inv

\* Nothing that the invariant speaks of changes but the pass and what a user
\* declared of the cluster and the mesh.
LEMMA SurroundingsStep ==
  ASSUME Inv, Surroundings \/ EditCluster \/ EditMesh
  PROVE  Inv'
<1>1. CASE /\ UNCHANGED <<dbs, identity, served, stanzas, pass>>
           /\ spec' \in ClusterSpecs /\ mesh' \in Meshes /\ up' \subseteq Pods
  <2>1. Typed'
    BY <1>1 DEF Inv, Typed
  <2> QED BY <1>1, <2>1, Around
<1>2. CASE Crash
  <2>1. Typed'
    BY <1>2, NoPassFacts DEF Inv, Typed, Crash, EndPass, declared, remote, onPods
  <2> QED BY <1>2, <2>1, Around DEF Crash, EndPass, declared, remote, onPods
<1>3. ASSUME NEW p \in Pods, Wipe(p) PROVE Inv'
  <2>1. /\ UNCHANGED <<spec, mesh, dbs, pass>> /\ up' \subseteq Pods
        /\ identity' = [identity EXCEPT ![p] = [d \in Databases |->
                          IF identity[p][d] = "held" THEN "lost" ELSE identity[p][d]]]
        /\ served' = [served EXCEPT ![p] = {}]
        /\ stanzas' = [stanzas EXCEPT ![p] = [d \in Databases |-> {}]]
    BY <1>3 DEF Wipe, declared, Inv, Typed
  <2>2. /\ identity' \in [Pods -> [Databases -> {"never", "held", "lost"}]]
        /\ \A q \in Pods, d \in Databases : identity[q][d] # "never" => identity'[q][d] # "never"
    BY <2>1 DEF Inv, Typed
  <2>3. PICK L : stanzas \in [Pods -> [Databases -> SUBSET L]]
    BY DEF Inv, Typed
  <2>4. /\ stanzas' \in [Pods -> [Databases -> SUBSET L]]
        /\ \A q \in Pods, d \in Databases : stanzas'[q][d] \subseteq stanzas[q][d]
    BY <2>1, <2>3
  <2>5. served' \in [Pods -> SUBSET Databases]
    BY <2>1 DEF Inv, Typed
  <2>6. Typed'
    BY <2>1, <2>2, <2>4, <2>5 DEF Inv, Typed
  <2> QED BY <2>1, <2>2, <2>4, <2>6, Around
<1>4. ASSUME NEW p \in Pods, PodDown(p) \/ PodUp(p) PROVE Inv'
  BY <1>1, <1>4 DEF PodDown, PodUp, declared, Inv, Typed
<1>5. ASSUME NEW n, Discover(n) \/ RemoteFleetChanges(n) \/ SecretGone(n) \/ SecretBack(n)
      PROVE  Inv'
  BY <1>1, <1>5 DEF Discover, RemoteFleetChanges, SecretGone, SecretBack, declared, onPods,
                    Inv, Typed
<1>6. CASE EnsureAuthDB \/ MeshUnreadable \/ MeshReadable
  BY <1>1, <1>6 DEF EnsureAuthDB, MeshUnreadable, MeshReadable, declared, onPods, Inv, Typed
<1>7. CASE EditCluster \/ EditMesh
  BY <1>1, <1>7 DEF EditCluster, EditMesh, onPods, Inv, Typed
<1> QED BY <1>2, <1>3, <1>4, <1>5, <1>6, <1>7 DEF Surroundings

\* A pass begins: it works under the segment that its database declares.
LEMMA BeginStep ==
  ASSUME Inv, NEW d \in Databases, Begin(d)
  PROVE  Inv'
<1> DEFINE wiring == ResolveMeshWiring(MeshRead, spec, Self)
           sc == [spec EXCEPT !.peers = wiring.peers]
<1>1. /\ UNCHANGED <<spec, mesh, dbs, up, identity, served, stanzas>>
      /\ dbs[d].state = "declared" /\ wiring # Unset
      /\ pass' = [NoPass EXCEPT !.step = "judge", !.db = d, !.sc = sc,
                    !.seg = dbs[d].seg, !.repl = dbs[d].repl]
  BY DEF Begin, declared, onPods
<1>2. sc \in Specs /\ PodsOf(sc) \subseteq Pods
  <2>1. spec \in ClusterSpecs /\ spec \in Specs
    BY DeclaredTypes DEF Inv, Typed
  <2>2. MeshRead \in Meshes \/ MeshRead = Unset
    BY DEF MeshRead, Inv, Typed
  <2>3. wiring.peers \in SUBSET [name : STRING, index : Int \cup {Unset}]
    BY <1>1, <2>1, <2>2, PeersOfWiring
  <2> HIDE DEF wiring
  <2>4. sc \in Specs /\ sc.replicas = spec.replicas /\ sc.readReplicas = spec.readReplicas
    BY <2>1, <2>3 DEF Specs
  <2>5. PodsOf(sc) = PodsOf(spec)
    BY <2>4 DEF PodsOf, RWPods, ROPods, DeclaredReplicas
  <2> QED BY <2>1, <2>4, <2>5 DEF Pods
<1>3. dbs[d].seg \in Segments \cup {Unset} /\ dbs[d].repl \in BOOLEAN
  BY DEF Inv, Typed, DatabaseSpecs
<1> HIDE DEF sc
<1>4. /\ pass' \in PassesOver({})
      /\ pass'.step = "judge" /\ pass'.db = d /\ pass'.sc = sc /\ pass'.seg = dbs[d].seg
  BY <1>1, <1>2, <1>3 DEF NoPass, PassesOver, Steps
<1>5. Typed'
  BY <1>1, <1>2, <1>4 DEF Inv, Typed
<1>6. ~MayWrite' /\ Licensed' /\ Introduced' /\ Linked'
  BY <1>4 DEF MayWrite, Licensed, Introduced, Linked
<1>7. WellFormed' /\ IdentityBeforeStanza'
  BY <1>1, StanzasShrink
<1>8. \A e \in Databases : \A segment : Wields(e, segment)' => Wields(e, segment)
  BY <1>1, <1>6 DEF Wields
<1>9. \A e \in Databases : \A segment : AtWork(e, segment)' => Claims(e, segment)
  BY <1>1, <1>4 DEF AtWork, Claims, Declares
<1>10. Exclusive' /\ HoldersDeclare'
  BY <1>1, <1>8, <1>9, NothingGained
<1> QED BY <1>5, <1>6, <1>7, <1>10 DEF Inv

\* What is not refused: every coordinate has its place in the layout, and no
\* other database claims the segment.
LEMMA NotRefused ==
  ASSUME Inv, NEW sc \in Specs, NEW segment \in Segments \cup {Unset}, NEW d,
         NEW layout, layout \in Layouts \cup {Unset},
         ~Refuses(d, segment, sc, layout)
  PROVE  /\ Addressable(sc, layout, segment)
         /\ ~Colliding(d, segment)
<1>1. /\ JudgeRIDLayout(layout) = "" /\ JudgeRIDSegment(d, segment, layout) = ""
      /\ JudgeClusterFleet(sc, layout) = "" /\ JudgeExternalPeers(sc, layout) = ""
  BY DEF Refuses
<1>2. layout \in Layouts
  BY <1>1 DEF JudgeRIDLayout
<1>3. /\ segment \in Int /\ CheckSegment(layout, segment)
      /\ ~Colliding(d, segment)
  BY <1>1, DeclaredTypes DEF JudgeRIDSegment
<1>4. DeclaredReplicas(sc) <= layout.podsPerSite
  <2>1. DeclaredReplicas(sc) \in Int /\ layout.podsPerSite \in Int
    BY <1>2 DEF DeclaredReplicas, Specs, Layouts
  <2>2. ~(DeclaredReplicas(sc) > layout.podsPerSite)
    BY <1>1 DEF JudgeClusterFleet
  <2> QED BY <2>1, <2>2
<1>5. /\ \A p \in sc.peers : p.index \in 0 .. layout.maxSites - 1
      /\ \A p, q \in sc.peers : p.index = q.index => p = q
  <2>1. layout.maxSites \in Int /\ \A p \in sc.peers : p.index \in Int \cup {Unset}
    BY <1>2 DEF Layouts, Specs
  <2>2. /\ \A p \in sc.peers : p.index # Unset
        /\ \A p \in sc.peers : ~(p.index < 0 \/ p.index >= layout.maxSites)
        /\ \A p, q \in sc.peers : ~(p # q /\ p.index = q.index)
    BY <1>1 DEF JudgeExternalPeers
  <2> QED BY <2>1, <2>2
<1> QED BY <1>2, <1>3, <1>4, <1>5 DEF Addressable

\* The judgement: a pass that may write has no rival, and nobody who wields its
\* segment without declaring it.
LEMMA JudgeStep ==
  ASSUME Inv, Judge
  PROVE  Inv'
<1> DEFINE layout == RidLayoutFor(MeshRead, pass.sc)
           refused == pass.repl /\ Refuses(pass.db, pass.seg, pass.sc, layout)
<1>1. /\ UNCHANGED <<spec, mesh, dbs, up, identity, served, stanzas>>
      /\ pass.step = "judge"
      /\ pass' = [pass EXCEPT !.step = "apply", !.layout = layout, !.refused = refused]
  BY DEF Judge, declared, onPods
<1>2. PICK P : pass \in PassesOver(P)
  BY DEF Inv, Typed
<1>3. pass.db \in Databases /\ pass.sc \in Specs /\ PodsOf(pass.sc) \subseteq Pods
  BY <1>1 DEF Inv, Typed
<1>4. layout \in Layouts \cup {Unset} /\ refused \in BOOLEAN
  <2>1. MeshRead \in Meshes \/ MeshRead = Unset
    BY DEF MeshRead, Inv, Typed
  <2>2. pass.repl \in BOOLEAN
    BY <1>2 DEF PassesOver
  <2>3. refused \in BOOLEAN
    BY <2>2 DEF Refuses
  <2>4. layout \in Layouts \cup {Unset}
    BY <2>1, LayoutOfMesh, MeshConstants DEF RidLayoutFor
  <2> QED BY <2>3, <2>4
<1>5. refused = FALSE /\ pass.repl =>
        /\ Addressable(pass.sc, layout, pass.seg)
        /\ ~Colliding(pass.db, pass.seg)
  BY <1>2, <1>3, <1>4, NotRefused DEF PassesOver
<1> HIDE DEF layout, refused
<1>6. /\ pass' \in PassesOver(P)
      /\ pass'.step = "apply" /\ pass'.layout = layout /\ pass'.refused = refused
      /\ pass'.db = pass.db /\ pass'.sc = pass.sc /\ pass'.seg = pass.seg
      /\ pass'.repl = pass.repl
  BY <1>1, <1>2, <1>4 DEF PassesOver, Steps
<1>7. Typed'
  BY <1>1, <1>3, <1>6 DEF Inv, Typed
<1>8. ~MayWrite /\ (MayWrite' => pass.repl /\ refused = FALSE)
  BY <1>1, <1>4, <1>6 DEF MayWrite
<1>9. Licensed' /\ Introduced' /\ Linked'
  BY <1>5, <1>6, <1>8 DEF Licensed, Introduced, Linked, Addressable
<1>10. WellFormed' /\ IdentityBeforeStanza'
  BY <1>1, StanzasShrink
<1>11. \A d \in Databases : \A segment :
         Wields(d, segment)' => \/ Wields(d, segment)
                                \/ MayWrite' /\ d = pass.db /\ segment = pass.seg
  BY <1>1, <1>6 DEF Wields
<1>12. \A d \in Databases : \A segment : AtWork(d, segment)' <=> AtWork(d, segment)
  BY <1>1, <1>6 DEF AtWork
<1>13. NoReuse /\ MayWrite' => \A e \in Databases :
         e # pass.db => ~Wields(e, pass.seg) /\ ~Claims(e, pass.seg)
  <2> SUFFICES ASSUME NoReuse, MayWrite', NEW e \in Databases, e # pass.db
               PROVE  ~Wields(e, pass.seg) /\ ~Claims(e, pass.seg)
    OBVIOUS
  <2>1. ~Claims(e, pass.seg)
    BY <1>5, <1>8 DEF Colliding
  <2>2. AtWork(pass.db, pass.seg)
    BY <1>1 DEF AtWork
  <2>3. Wields(e, pass.seg) => dbs[e].state = "declared" /\ dbs[e].seg = pass.seg
    BY <1>3, <2>2 DEF Inv, HoldersDeclare
  <2> QED BY <2>1, <2>3 DEF Claims, Declares
<1>14. Exclusive'
  BY <1>11, <1>13 DEF Inv, Exclusive
<1>15. HoldersDeclare'
  <2> SUFFICES ASSUME NoReuse, NEW d \in Databases, NEW e \in Databases, NEW segment, d # e,
                      Wields(e, segment)', Claims(d, segment)' \/ AtWork(d, segment)'
               PROVE  dbs[e].state = "declared" /\ dbs[e].seg = segment
    BY <1>1 DEF HoldersDeclare
  <2>1. Claims(d, segment) \/ AtWork(d, segment)
    BY <1>1, <1>12 DEF Claims, Declares
  <2>2. Wields(e, segment)
    <3> SUFFICES ASSUME MayWrite', e = pass.db, segment = pass.seg PROVE FALSE
      BY <1>11
    <3>1. ~Claims(d, segment)
      BY <1>13
    <3>2. ~AtWork(d, segment)
      BY DEF AtWork
    <3> QED BY <2>1, <3>1, <3>2
  <2> QED BY <2>1, <2>2 DEF Inv, HoldersDeclare
<1> QED BY <1>7, <1>9, <1>10, <1>14, <1>15 DEF Inv

\* A pass that is past its judgement goes on under the same licence.
LEMMA MovesOn ==
  ASSUME Inv, dbs' = dbs, pass.step \notin {"idle", "judge"},
         pass'.step \notin {"idle", "judge"},
         pass'.db = pass.db, pass'.sc = pass.sc, pass'.seg = pass.seg,
         pass'.repl = pass.repl, pass'.layout = pass.layout, pass'.refused = pass.refused,
         \A d \in Databases : \A segment : Wields(d, segment)' =>
           Wields(d, segment) \/ (MayWrite /\ pass.db = d /\ pass.seg = segment)
  PROVE  /\ MayWrite' <=> MayWrite
         /\ Licensed' /\ Exclusive' /\ HoldersDeclare'
<1>1. MayWrite' <=> MayWrite
  BY DEF MayWrite
<1>2. Licensed'
  BY <1>1 DEF Inv, Licensed, Addressable
<1>3. \A d \in Databases : \A segment : Wields(d, segment)' => Wields(d, segment)
  BY DEF Wields
<1>4. \A d \in Databases : \A segment : AtWork(d, segment)' => AtWork(d, segment)
  BY DEF AtWork
<1>5. Exclusive' /\ HoldersDeclare'
  BY <1>3, <1>4, NothingGained
<1> QED BY <1>1, <1>2, <1>5

\* The database is brought up on the pods that answer.
LEMMA ApplyToPodsStep ==
  ASSUME Inv, ApplyToPods
  PROVE  Inv'
<1>1. PICK healthy \in SUBSET (Reachable \cap PodsOf(pass.sc)) :
        /\ served' = [p \in Pods |-> IF p \in healthy THEN served[p] \cup {pass.db}
                                     ELSE served[p]]
        /\ pass' = [pass EXCEPT !.step = "identity", !.healthy = healthy]
  BY DEF ApplyToPods
<1>2. UNCHANGED <<spec, mesh, dbs, up, identity, stanzas>> /\ pass.step = "apply"
  BY DEF ApplyToPods, declared
<1>3. PICK P : pass \in PassesOver(P)
  BY DEF Inv, Typed
<1>4. /\ pass.db \in Databases /\ pass.sc \in Specs /\ PodsOf(pass.sc) \subseteq Pods
      /\ healthy \in SUBSET Pods
  BY <1>1, <1>2 DEF Inv, Typed
<1>5. /\ pass' \in PassesOver(P) /\ pass'.step = "identity"
      /\ pass'.db = pass.db /\ pass'.sc = pass.sc /\ pass'.seg = pass.seg
      /\ pass'.repl = pass.repl /\ pass'.layout = pass.layout /\ pass'.refused = pass.refused
  BY <1>1, <1>3, <1>4 DEF PassesOver, Steps
<1>6. served' \in [Pods -> SUBSET Databases]
  BY <1>1, <1>4 DEF Inv, Typed
<1>7. Typed'
  BY <1>2, <1>4, <1>5, <1>6 DEF Inv, Typed
<1>8. \A d \in Databases : \A segment : Wields(d, segment)' =>
        Wields(d, segment) \/ (MayWrite /\ pass.db = d /\ pass.seg = segment)
  BY <1>2, <1>5 DEF Wields, MayWrite
<1>9. Licensed' /\ Exclusive' /\ HoldersDeclare'
  BY <1>2, <1>5, <1>8, MovesOn
<1>10. Introduced' /\ Linked'
  BY <1>5 DEF Introduced, Linked
<1>11. WellFormed' /\ IdentityBeforeStanza'
  BY <1>2, StanzasShrink
<1> QED BY <1>7, <1>9, <1>10, <1>11 DEF Inv

\* The identities, and the gate: a pass goes on only when every provider of the
\* cluster has just been given this database's identity.
LEMMA IdentitiesStep ==
  ASSUME Inv, Identities
  PROVE  Inv'
<1>1. /\ UNCHANGED <<spec, mesh, dbs, up, served, stanzas>> /\ pass.step = "identity"
      /\ identity' = [p \in Pods |-> IF p \in Converged
                                     THEN [identity[p] EXCEPT ![pass.db] = "held"]
                                     ELSE identity[p]]
      /\ \/ pass' = NoPass
         \/ /\ pass' = [pass EXCEPT !.step = "resolve"]
            /\ pass.repl /\ ~pass.refused /\ IdentityReady(pass.sc, Converged)
  BY DEF Identities, EndPass, declared
<1>2. PICK P : pass \in PassesOver(P)
  BY DEF Inv, Typed
<1>3. pass.db \in Databases /\ pass.sc \in Specs /\ PodsOf(pass.sc) \subseteq Pods
  BY <1>1 DEF Inv, Typed
<1>4. /\ identity' \in [Pods -> [Databases -> {"never", "held", "lost"}]]
      /\ \A q \in Pods, d \in Databases : identity[q][d] # "never" => identity'[q][d] # "never"
      /\ \A q \in Pods : q \in Converged => identity'[q][pass.db] = "held"
  <2> HIDE DEF Converged
  <2> QED BY <1>1, <1>3 DEF Inv, Typed
<1>5. CASE pass' = NoPass
  <2>1. Typed'
    BY <1>1, <1>4, <1>5, NoPassFacts DEF Inv, Typed
  <2> QED BY <1>1, <1>4, <1>5, <2>1, Around
<1>6. CASE /\ pass' = [pass EXCEPT !.step = "resolve"]
           /\ pass.repl /\ ~pass.refused /\ IdentityReady(pass.sc, Converged)
  <2>1. /\ pass' \in PassesOver(P) /\ pass'.step = "resolve"
        /\ pass'.db = pass.db /\ pass'.sc = pass.sc /\ pass'.seg = pass.seg
        /\ pass'.repl = pass.repl /\ pass'.layout = pass.layout /\ pass'.refused = pass.refused
    BY <1>2, <1>6 DEF PassesOver, Steps
  <2>2. Typed'
    BY <1>1, <1>3, <1>4, <2>1 DEF Inv, Typed
  <2>3. \A d \in Databases : \A segment : Wields(d, segment)' =>
          Wields(d, segment) \/ (MayWrite /\ pass.db = d /\ pass.seg = segment)
    BY <1>1, <2>1 DEF Wields, MayWrite
  <2>4. Licensed' /\ Exclusive' /\ HoldersDeclare' /\ (MayWrite' <=> MayWrite)
    BY <1>1, <2>1, <2>3, MovesOn
  <2>5. Introduced'
    <3>1. MayWrite
      BY <1>1, <1>6 DEF MayWrite
    <3>2. ASSUME ~pass.sc.consumerOnly, NEW i \in Ordinals(pass.sc)
          PROVE  identity'[RW(i)][pass.db] # "never"
      <4>1. RW(i) \in RWPods(pass.sc)
        BY DEF RWPods, Ordinals
      <4>2. RW(i) \in Pods /\ RW(i) \in Converged
        BY <1>3, <1>6, <3>2, <4>1 DEF IdentityReady, PodsOf
      <4> QED BY <1>4, <4>2
    <3> QED BY <2>1, <2>4, <3>1, <3>2 DEF Introduced
  <2>6. Linked'
    BY <2>1 DEF Linked
  <2>7. WellFormed' /\ IdentityBeforeStanza'
    BY <1>1, <1>4, StanzasShrink
  <2> QED BY <2>2, <2>4, <2>5, <2>6, <2>7 DEF Inv
<1> QED BY <1>1, <1>5, <1>6

\* The peers: all of them or no write at all.
LEMMA ResolveStep ==
  ASSUME Inv, Resolve
  PROVE  Inv'
<1> DEFINE found == {[index |-> p.index, via |-> ExternalPeerProviders(p.name)] :
                       p \in pass.sc.peers}
<1>1. /\ UNCHANGED <<spec, mesh, dbs, up, identity, served, stanzas>> /\ pass.step = "resolve"
      /\ \/ pass' = NoPass
         \/ pass' = [pass EXCEPT !.step = "write", !.peers = found, !.todo = PodsOf(pass.sc)]
  BY DEF Resolve, PeersToWrite, EndPass, declared, onPods
<1>2. PICK P : pass \in PassesOver(P)
  BY DEF Inv, Typed
<1>3. pass.db \in Databases /\ pass.sc \in Specs /\ PodsOf(pass.sc) \subseteq Pods
  BY <1>1 DEF Inv, Typed
<1>4. CASE pass' = NoPass
  <2>1. Typed'
    BY <1>1, <1>4, NoPassFacts DEF Inv, Typed
  <2> QED BY <1>1, <1>4, <2>1, Around
<1>5. CASE pass' = [pass EXCEPT !.step = "write", !.peers = found, !.todo = PodsOf(pass.sc)]
  <2>1. Addressable(pass.sc, pass.layout, pass.seg) /\ MayWrite
    BY <1>1 DEF Inv, Licensed, Introduced
  <2>2. Matches(found, pass.sc)
    <3>1. \A p, q \in pass.sc.peers : p.index = q.index => p = q
      BY <2>1 DEF Addressable
    <3> DEFINE peer(p) == [index |-> p.index, via |-> ExternalPeerProviders(p.name)]
    <3>2. \A r \in found : \E p \in pass.sc.peers : r = peer(p)
      OBVIOUS
    <3>3. \A p \in pass.sc.peers : peer(p) \in found
      OBVIOUS
    <3>4. \A p : peer(p).index = p.index
      OBVIOUS
    <3> HIDE DEF peer, found
    <3>5. \A r, q \in found : r.index = q.index => r = q
      BY <3>1, <3>2, <3>4
    <3>6. \A r \in found : \E p \in pass.sc.peers : r.index = p.index
      BY <3>2, <3>4
    <3>7. \A p \in pass.sc.peers : \E r \in found : r.index = p.index
      BY <3>3, <3>4
    <3> QED BY <3>5, <3>6, <3>7 DEF Matches
  <2> HIDE DEF found
  <2>3. /\ pass' \in PassesOver(found) /\ pass'.step = "write" /\ pass'.peers = found
        /\ pass'.db = pass.db /\ pass'.sc = pass.sc /\ pass'.seg = pass.seg
        /\ pass'.repl = pass.repl /\ pass'.layout = pass.layout /\ pass'.refused = pass.refused
    BY <1>2, <1>3, <1>5 DEF PassesOver, Steps
  <2>4. Typed'
    BY <1>1, <1>3, <2>3 DEF Inv, Typed
  <2>5. \A d \in Databases : \A segment : Wields(d, segment)' =>
          Wields(d, segment) \/ (MayWrite /\ pass.db = d /\ pass.seg = segment)
    BY <1>1, <2>3 DEF Wields, MayWrite
  <2>6. Licensed' /\ Exclusive' /\ HoldersDeclare' /\ (MayWrite' <=> MayWrite)
    BY <1>1, <2>3, <2>5, MovesOn
  <2>7. Introduced'
    BY <1>1, <2>1, <2>3, <2>6 DEF Inv, Introduced
  <2>8. Linked'
    BY <2>2, <2>3 DEF Linked, Matches
  <2>9. WellFormed' /\ IdentityBeforeStanza'
    BY <1>1, StanzasShrink
  <2> QED BY <2>4, <2>6, <2>7, <2>8, <2>9 DEF Inv
<1> QED BY <1>1, <1>4, <1>5

\* The write to one pod: stanzas of the licensed run that name known providers.
LEMMA WritePodStep ==
  ASSUME Inv, WritePod
  PROVE  Inv'
<1> DEFINE p == NextPod(pass.todo)
           d == pass.db
           built == Build(pass.sc, pass.layout, pass.seg, pass.peers, p)
<1>1. /\ UNCHANGED <<spec, mesh, dbs, up, identity, served>> /\ pass.step = "write"
      /\ \/ stanzas' = stanzas
         \/ p \in pass.healthy /\ stanzas' = [stanzas EXCEPT ![p][d] = built]
      /\ \/ pass' = NoPass
         \/ pass' = [pass EXCEPT !.todo = @ \ {p}]
  BY DEF WritePod, ApplySyncreplToPod, EndPass, declared
<1>2. PICK P : pass \in PassesOver(P)
  BY DEF Inv, Typed
<1>3. /\ d \in Databases /\ pass.sc \in Specs /\ PodsOf(pass.sc) \subseteq Pods
      /\ pass.healthy \subseteq Pods
  BY <1>1, <1>2 DEF Inv, Typed, PassesOver
<1>4. PICK L : stanzas \in [Pods -> [Databases -> SUBSET L]]
  BY DEF Inv, Typed
<1>5. /\ MayWrite /\ Addressable(pass.sc, pass.layout, pass.seg)
      /\ Matches(pass.peers, pass.sc)
  BY <1>1 DEF Inv, Licensed, Introduced, Linked
<1>6. /\ \A s \in built :
           /\ Decode(s.layout, s.rid).segment = pass.seg
           /\ s.kind \in Kinds /\ s.index \in Nat
           /\ s.kind = "local" => ~pass.sc.consumerOnly /\ s.index \in Ordinals(pass.sc)
      /\ \A s, t \in built : s.rid = t.rid => s = t
  BY <1>5, BuildFacts
<1>7. \A s \in built : s.kind = "local" =>
        RW(s.index) \in Pods /\ identity[RW(s.index)][d] # "never"
  <2>1. \A i \in Ordinals(pass.sc) : RW(i) \in Pods
    BY <1>3 DEF PodsOf, RWPods, Ordinals
  <2> HIDE DEF built
  <2> QED BY <1>1, <1>6, <2>1 DEF Inv, Introduced
<1> HIDE DEF p, d, built
<1>8. /\ stanzas' \in [Pods -> [Databases -> SUBSET (L \cup built)]]
      /\ \A q \in Pods, e \in Databases :
           stanzas'[q][e] = stanzas[q][e] \/ (e = d /\ stanzas'[q][e] = built)
  BY <1>1, <1>3, <1>4
<1>9. WellFormed'
  <2> SUFFICES ASSUME NEW q \in Pods, NEW e \in Databases
               PROVE  /\ \A s \in stanzas'[q][e] :
                           /\ s.kind \in Kinds /\ s.index \in Nat
                           /\ s.kind = "local" => RW(s.index) \in Pods
                      /\ \A s, t \in stanzas'[q][e] : s.rid = t.rid => s = t
    BY DEF WellFormed
  <2>1. CASE stanzas'[q][e] = stanzas[q][e]
    BY <2>1 DEF Inv, WellFormed
  <2>2. CASE stanzas'[q][e] = built
    BY <1>6, <1>7, <2>2
  <2> QED BY <1>8, <2>1, <2>2
<1>10. IdentityBeforeStanza'
  BY <1>1, <1>7, <1>8 DEF Inv, IdentityBeforeStanza
<1>11. \A e \in Databases : \A segment :
         (\E q \in Pods : \E s \in stanzas'[q][e] : Decode(s.layout, s.rid).segment = segment)
           => Wields(e, segment)
  BY <1>5, <1>6, <1>8 DEF Wields, d
<1>12. CASE pass' = NoPass
  <2>1. Typed'
    BY <1>1, <1>8, <1>12, NoPassFacts DEF Inv, Typed
  <2>2. Licensed' /\ Introduced' /\ Linked' /\ ~MayWrite'
    BY <1>12, NoPassFacts DEF Licensed, Introduced, Linked, MayWrite
  <2>3. \A e \in Databases : \A segment : Wields(e, segment)' => Wields(e, segment)
    BY <1>11, <2>2 DEF Wields
  <2>4. \A e \in Databases : \A segment : AtWork(e, segment)' => AtWork(e, segment)
    BY <1>12, NoPassFacts DEF AtWork
  <2>5. Exclusive' /\ HoldersDeclare'
    BY <1>1, <2>3, <2>4, NothingGained
  <2> QED BY <1>9, <1>10, <2>1, <2>2, <2>5 DEF Inv
<1>13. CASE pass' = [pass EXCEPT !.todo = @ \ {p}]
  <2>1. /\ pass' \in PassesOver(P) /\ pass'.step = pass.step /\ pass'.peers = pass.peers
        /\ pass'.db = pass.db /\ pass'.sc = pass.sc /\ pass'.seg = pass.seg
        /\ pass'.repl = pass.repl /\ pass'.layout = pass.layout /\ pass'.refused = pass.refused
    BY <1>2, <1>13 DEF PassesOver
  <2>2. Typed'
    BY <1>1, <1>8, <2>1 DEF Inv, Typed
  <2>3. \A e \in Databases : \A segment : Wields(e, segment)' =>
          Wields(e, segment) \/ (MayWrite /\ pass.db = e /\ pass.seg = segment)
    BY <1>11, <2>1 DEF Wields, MayWrite
  <2>4. Licensed' /\ Exclusive' /\ HoldersDeclare' /\ (MayWrite' <=> MayWrite)
    BY <1>1, <2>1, <2>3, MovesOn
  <2>5. Introduced' /\ Linked'
    BY <1>1, <2>1, <2>4 DEF Inv, Introduced, Linked, Matches
  <2> QED BY <1>9, <1>10, <2>2, <2>4, <2>5 DEF Inv
<1> QED BY <1>1, <1>12, <1>13

\* One database is declared differently: it gains only a number that is free for
\* it, and gives up none that it wields and another one wants.
LEMMA Redeclared ==
  ASSUME Inv, Typed',
         NEW d \in Databases, \A e \in Databases \ {d} : dbs'[e] = dbs[e],
         pass' = pass, identity' = identity,
         \A p \in Pods, e \in Databases : stanzas'[p][e] \subseteq stanzas[p][e],
         \A g : Claims(d, g)' => Claims(d, g) \/ FreeFor(d, g),
         NoReuse => \A g :
           Wields(d, g) /\ (\E e \in Databases \ {d} : Claims(e, g) \/ AtWork(e, g))
             => dbs'[d].state = "declared" /\ dbs'[d].seg = g
  PROVE  Inv'
<1>1. Licensed' /\ Introduced' /\ Linked' /\ (MayWrite' => MayWrite)
  BY PassStays
<1>2. WellFormed' /\ IdentityBeforeStanza'
  BY StanzasShrink
<1>3. /\ \A e \in Databases : \A g : Wields(e, g)' => Wields(e, g)
      /\ \A e \in Databases : \A g : AtWork(e, g)' => AtWork(e, g)
      /\ \A e \in Databases \ {d} : \A g : Claims(e, g)' => Claims(e, g)
  BY <1>1 DEF Wields, AtWork, Claims, Declares
<1>4. \A e \in Databases : \A g : Wields(e, g) => Holds(e, g)
  BY DEF Wields, Holds, MayWrite
<1>5. Exclusive'
  BY <1>3 DEF Inv, Exclusive
<1>6. HoldersDeclare'
  <2> SUFFICES ASSUME NoReuse, NEW c \in Databases, NEW e \in Databases, NEW g, c # e,
                      Wields(e, g)',
                      Claims(c, g)' \/ AtWork(c, g)'
               PROVE  dbs'[e].state = "declared" /\ dbs'[e].seg = g
    BY DEF HoldersDeclare
  <2>1. CASE e = d
    BY <1>3, <2>1
  <2>2. CASE e # d /\ (Claims(c, g) \/ AtWork(c, g))
    BY <1>3, <2>2 DEF Inv, HoldersDeclare
  <2>3. CASE e # d /\ FreeFor(d, g)
    <3>1. Holds(e, g) => dbs[e].state = "declared" /\ dbs[e].seg = g
      BY <2>3 DEF FreeFor, NoReuse
    <3> QED BY <1>3, <1>4, <2>3, <3>1
  <2> QED BY <1>3, <2>1, <2>2, <2>3
<1> QED BY <1>1, <1>2, <1>5, <1>6 DEF Inv

\* What a user does to a database who does as asked: no number is taken that is
\* held elsewhere, and none is left that is.
LEMMA UserStep ==
  ASSUME Inv, NEW d \in Databases,
         CreateDatabase(d) \/ EditDatabase(d) \/ DeleteDatabase(d)
  PROVE  Inv'
<1>1. UNCHANGED <<spec, mesh, up, identity, served, stanzas, pass>>
  BY DEF CreateDatabase, EditDatabase, DeleteDatabase, onPods
<1>2. \A g : /\ Wields(d, g) => Holds(d, g)
             /\ \A e \in Databases : AtWork(e, g) => pass.db = e /\ pass.seg = g
  BY DEF Wields, Holds, MayWrite, AtWork
<1>3. NoReuse => \A g :
        Wields(d, g) /\ (\E e \in Databases \ {d} : Claims(e, g) \/ AtWork(e, g))
          => dbs[d].state = "declared" /\ dbs[d].seg = g
  BY DEF Inv, HoldersDeclare
<1>4. NoReuse /\ MayLeave(d) => \A g :
        ~(Wields(d, g) /\ \E e \in Databases \ {d} : Claims(e, g) \/ AtWork(e, g))
  BY <1>2, <1>3 DEF MayLeave
<1>5. dbs \in [Databases -> DatabaseSpecs]
  BY DEF Inv, Typed
<1>6. ASSUME NEW new \in DatabaseSpecs, dbs' = [dbs EXCEPT ![d] = new],
             \A g : (new.state # "absent" /\ new.seg = g) => Claims(d, g) \/ FreeFor(d, g),
             \/ new.state = dbs[d].state /\ new.seg = dbs[d].seg
             \/ dbs[d].state = "absent"
             \/ MayLeave(d)
      PROVE  Inv'
  <2>1. Typed'
    BY <1>1, <1>5, <1>6 DEF Inv, Typed
  <2>2. dbs'[d] = new /\ \A e \in Databases \ {d} : dbs'[e] = dbs[e]
    BY <1>5, <1>6
  <2>3. \A g : Claims(d, g)' => Claims(d, g) \/ FreeFor(d, g)
    BY <1>6, <2>2 DEF Claims, Declares
  <2>4. NoReuse => \A g :
          Wields(d, g) /\ (\E e \in Databases \ {d} : Claims(e, g) \/ AtWork(e, g))
            => dbs'[d].state = "declared" /\ dbs'[d].seg = g
    BY <1>3, <1>4, <1>6, <2>2
  <2> QED BY <1>1, <2>1, <2>2, <2>3, <2>4, Redeclared
<1>7. CASE CreateDatabase(d)
  <2>1. PICK new \in NewDatabases : FreeFor(d, new.seg) /\ dbs' = [dbs EXCEPT ![d] = new]
    BY <1>7 DEF CreateDatabase
  <2>2. new \in DatabaseSpecs
    BY DEF NewDatabases, DatabaseSpecs
  <2> QED BY <1>6, <1>7, <2>1, <2>2 DEF CreateDatabase
<1>8. CASE EditDatabase(d)
  <2>1. dbs[d] \in DatabaseSpecs /\ dbs[d].state = "declared"
    BY <1>5, <1>8 DEF EditDatabase
  <2>2. ASSUME NEW seg \in Segments, FreeFor(d, seg), MayLeave(d),
               dbs' = [dbs EXCEPT ![d].seg = seg]
        PROVE  Inv'
    <3> DEFINE new == [dbs[d] EXCEPT !.seg = seg]
    <3>1. new \in DatabaseSpecs /\ new.seg = seg /\ dbs' = [dbs EXCEPT ![d] = new]
      BY <2>1, <2>2 DEF DatabaseSpecs
    <3> HIDE DEF new
    <3> QED BY <1>6, <2>2, <3>1
  <2>3. ASSUME dbs' = [dbs EXCEPT ![d].repl = ~@] PROVE Inv'
    <3> DEFINE new == [dbs[d] EXCEPT !.repl = ~@]
    <3>1. /\ new \in DatabaseSpecs /\ dbs' = [dbs EXCEPT ![d] = new]
          /\ new.state = dbs[d].state /\ new.seg = dbs[d].seg
      BY <2>1, <2>3 DEF DatabaseSpecs
    <3> HIDE DEF new
    <3>2. \A g : new.seg = g => Claims(d, g)
      BY <2>1, <3>1 DEF Claims, Declares
    <3> QED BY <1>6, <3>1, <3>2
  <2> QED BY <1>8, <2>2, <2>3 DEF EditDatabase
<1>9. CASE DeleteDatabase(d)
  <2> DEFINE new == [dbs[d] EXCEPT !.state = "deleting"]
  <2>1. dbs[d] \in DatabaseSpecs /\ dbs[d].state = "declared" /\ MayLeave(d)
    BY <1>5, <1>9 DEF DeleteDatabase
  <2>2. new \in DatabaseSpecs /\ dbs' = [dbs EXCEPT ![d] = new] /\ new.seg = dbs[d].seg
    BY <1>9, <2>1 DEF DatabaseSpecs, DeleteDatabase
  <2> HIDE DEF new
  <2>3. \A g : new.seg = g => Claims(d, g)
    BY <2>1, <2>2 DEF Claims, Declares
  <2> QED BY <1>6, <2>1, <2>2, <2>3
<1> QED BY <1>7, <1>8, <1>9

\* A database that is being deleted leaves its segment only behind on pods under
\* Retain, where nobody may take it.
LEMMA HandleDeletionStep ==
  ASSUME Inv, NEW d \in Databases, HandleDeletion(d)
  PROVE  Inv'
<1>1. /\ UNCHANGED <<spec, mesh, up, identity, pass>> /\ dbs[d].state = "deleting"
      /\ dbs' = dbs \/ dbs' = [dbs EXCEPT ![d].state = "absent"]
  BY DEF HandleDeletion
<1>2. PICK gone : /\ served' = [p \in Pods |-> IF p \in gone THEN served[p] \ {d} ELSE served[p]]
                  /\ stanzas' = [p \in Pods |-> IF p \in gone
                                                THEN [stanzas[p] EXCEPT ![d] = {}]
                                                ELSE stanzas[p]]
  BY DEF HandleDeletion
<1>3. PICK L : stanzas \in [Pods -> [Databases -> SUBSET L]]
  BY DEF Inv, Typed
<1>4. /\ stanzas' \in [Pods -> [Databases -> SUBSET L]]
      /\ \A p \in Pods, e \in Databases : stanzas'[p][e] \subseteq stanzas[p][e]
  BY <1>2, <1>3
<1>5. served' \in [Pods -> SUBSET Databases]
  BY <1>2 DEF Inv, Typed
<1>6. /\ dbs' \in [Databases -> DatabaseSpecs]
      /\ \A e \in Databases \ {d} : dbs'[e] = dbs[e]
      /\ dbs'[d].seg = dbs[d].seg
  <2>1. dbs \in [Databases -> DatabaseSpecs]
    BY DEF Inv, Typed
  <2> DEFINE new == [dbs[d] EXCEPT !.state = "absent"]
  <2>2. new \in DatabaseSpecs /\ new.seg = dbs[d].seg
    BY <2>1 DEF DatabaseSpecs
  <2>3. dbs' = dbs \/ dbs' = [dbs EXCEPT ![d] = new]
    BY <1>1
  <2> HIDE DEF new
  <2> QED BY <2>1, <2>2, <2>3
<1>7. Typed'
  BY <1>1, <1>4, <1>5, <1>6 DEF Inv, Typed
<1>8. \A g : Claims(d, g)' => Claims(d, g)
  BY <1>1, <1>6 DEF Claims, Declares
<1>9. NoReuse => \A g : ~(Wields(d, g) /\ (\E e \in Databases \ {d} : Claims(e, g) \/ AtWork(e, g)))
  BY <1>1 DEF Inv, HoldersDeclare
<1> QED BY <1>1, <1>4, <1>6, <1>7, <1>8, <1>9, Redeclared

-----------------------------------------------------------------------------
\* The invariant of the passes: their licence, the identities behind the gate,
\* and who wields and who declares which segment.
THEOREM InvHolds == Spec => []Inv
<1>1. Init => Inv
  BY InitInv
<1>2. Inv /\ [Next]_vars => Inv'
  <2> SUFFICES ASSUME Inv, [Next]_vars PROVE Inv'
    OBVIOUS
  <2>1. CASE Controller
    BY <2>1, BeginStep, HandleDeletionStep, JudgeStep, ApplyToPodsStep, IdentitiesStep,
       ResolveStep, WritePodStep DEF Controller
  <2>2. CASE User
    BY <2>2, UserStep, SurroundingsStep DEF User
  <2>3. CASE Surroundings
    BY <2>3, SurroundingsStep
  <2>4. CASE UNCHANGED vars
    <3>1. Typed'
      BY <2>4 DEF vars, Inv, Typed
    <3> QED BY <2>4, <3>1, Around DEF vars
  <2> QED BY <2>1, <2>2, <2>3, <2>4 DEF Next
<1> QED BY <1>1, <1>2, PTL DEF Spec

\* On no pod two stanzas carry one RID, whatever databases are declared, edited
\* and deleted, whichever layouts the mesh goes through and wherever passes are
\* interrupted (reconcileRIDSegment and the writes it allows), but for those of
\* two databases that were numbered in different layouts; as long as the number
\* of a database whose CR is gone is not given to another one: its stanzas may
\* still be on a pod.
THEOREM NoSharedRidsHolds ==
  ASSUME "reuse" \notin Environment
  PROVE  Spec => []NoSharedRids
<1>1. Inv => NoSharedRids
  <2> SUFFICES ASSUME Inv, NEW p \in Pods, NEW d \in Databases, NEW e \in Databases,
                      NEW s \in stanzas[p][d], NEW t \in stanzas[p][e], s.rid = t.rid
               PROVE  (d = e /\ s = t) \/ (d # e /\ s.layout # t.layout)
    BY DEF NoSharedRids
  <2>1. CASE d = e
    BY <2>1 DEF Inv, WellFormed
  <2>2. CASE s.layout = t.layout
    <3> DEFINE segment == Decode(s.layout, s.rid).segment
    <3>1. Wields(d, segment) /\ Wields(e, segment)
      BY <2>2 DEF Wields
    <3> HIDE DEF segment
    <3>2. d = e
      BY <3>1 DEF Inv, Exclusive, NoReuse
    <3> QED BY <2>1, <3>2
  <2> QED BY <2>1, <2>2
<1> QED BY <1>1, InvHolds, PTL

\* No stanza names a provider that was never given the identity the stanza binds
\* as (authIdentityReadyForStanzas before applySyncRepl, ADR-027).
THEOREM IdentityBeforeStanzaHolds == Spec => []IdentityBeforeStanza
<1>1. Inv => IdentityBeforeStanza
  BY DEF Inv
<1> QED BY <1>1, InvHolds, PTL

\* Two sites of one mesh never write under one serverID, for every list of sites,
\* every layout and every two specs whose fleets fit a slot or the layout
\* (deriveServerIDBase and its refusals).
THEOREM SidsDisjointHolds == Spec => []SidsDisjoint
<1> DEFINE Declarations == spec \in ClusterSpecs /\ mesh \in Meshes
<1>1. Init => Declarations
  BY DEF Init
<1>2. Declarations /\ [Next]_vars => Declarations'
  <2> SUFFICES ASSUME Declarations, [Next]_vars PROVE Declarations'
    OBVIOUS
  <2>1. CASE Controller
    BY <2>1 DEF Controller, Begin, HandleDeletion, Judge, ApplyToPods, Identities, Resolve,
                WritePod, declared
  <2>2. CASE User
    BY <2>2 DEF User, CreateDatabase, EditDatabase, DeleteDatabase, EditCluster, EditMesh
  <2>3. CASE Surroundings
    BY <2>3 DEF Surroundings, PodDown, PodUp, Wipe, Discover, RemoteFleetChanges, SecretGone,
                SecretBack, EnsureAuthDB, MeshUnreadable, MeshReadable, Crash, declared
  <2>4. CASE UNCHANGED vars
    BY <2>4 DEF vars
  <2> QED BY <2>1, <2>2, <2>3, <2>4 DEF Next
<1>3. Declarations => SidsDisjoint
  BY SlotsDisjoint DEF SidsDisjoint
<1> QED BY <1>1, <1>2, <1>3, PTL DEF Spec

\* A step takes a link from a pod only when the cluster that the pass has read
\* does not declare it, or the database is gone from the pod: no mesh that cannot
\* be read, no unresolved peer and no missing Secret does.
THEOREM KeepsDeclaredLinksHolds == Spec => KeepsDeclaredLinks
<1> DEFINE Kept == \A p \in Pods : \A d \in Databases : \A s \in stanzas[p][d] :
             /\ d \in served'[p]
             /\ pass.step = "write" => pass.db # d \/ Declared(pass.sc, p, s)
             => \E t \in stanzas'[p][d] : t.kind = s.kind /\ t.index = s.index
<1>1. Inv /\ [Next]_vars => [Kept]_vars
  <2> SUFFICES ASSUME Inv, Next PROVE Kept
    BY DEF vars
  <2>1. CASE stanzas' = stanzas
    BY <2>1
  <2>2. CASE WritePod
    <3> DEFINE q == NextPod(pass.todo)
               built == Build(pass.sc, pass.layout, pass.seg, pass.peers, q)
    <3>1. /\ pass.step = "write"
          /\ \/ stanzas' = stanzas
             \/ q \in pass.healthy /\ stanzas' = [stanzas EXCEPT ![q][pass.db] = built]
      BY <2>2 DEF WritePod, ApplySyncreplToPod
    <3> SUFFICES ASSUME q \in pass.healthy,
                        stanzas' = [stanzas EXCEPT ![q][pass.db] = built],
                        NEW p \in Pods, NEW d \in Databases, NEW s \in stanzas[p][d],
                        pass.db # d \/ Declared(pass.sc, p, s)
                 PROVE  \E t \in stanzas'[p][d] : t.kind = s.kind /\ t.index = s.index
      BY <2>1, <3>1
    <3>2. /\ pass.sc \in Specs /\ pass.db \in Databases
          /\ Matches(pass.peers, pass.sc) /\ s.index \in Nat /\ s.kind \in Kinds
      BY <3>1 DEF Inv, Typed, Linked, WellFormed
    <3>3. PICK L : stanzas \in [Pods -> [Databases -> SUBSET L]]
      BY DEF Inv, Typed
    <3>4. CASE p = q /\ d = pass.db
      <4>1. \E t \in built : t.kind = s.kind /\ t.index = s.index
        BY <3>2, <3>4, BuildKeeps
      <4> HIDE DEF built, q
      <4>2. stanzas'[p][d] = built
        BY <3>2, <3>3, <3>4
      <4> QED BY <4>1, <4>2
    <3>5. CASE ~(p = q /\ d = pass.db)
      <4> HIDE DEF built, q
      <4>1. stanzas'[p][d] = stanzas[p][d]
        BY <3>2, <3>3, <3>5
      <4> QED BY <4>1
    <3> QED BY <3>4, <3>5
  <2>3. ASSUME NEW d \in Databases, HandleDeletion(d) PROVE Kept
    <3>1. PICK gone : /\ served' = [p \in Pods |-> IF p \in gone THEN served[p] \ {d}
                                                   ELSE served[p]]
                      /\ stanzas' = [p \in Pods |-> IF p \in gone
                                                    THEN [stanzas[p] EXCEPT ![d] = {}]
                                                    ELSE stanzas[p]]
      BY <2>3 DEF HandleDeletion
    <3>2. PICK L : stanzas \in [Pods -> [Databases -> SUBSET L]]
      BY DEF Inv, Typed
    <3>3. \A p \in Pods, e \in Databases :
            stanzas'[p][e] = stanzas[p][e] \/ e \notin served'[p]
      BY <3>1, <3>2
    <3> QED BY <3>3
  <2>4. ASSUME NEW q \in Pods, Wipe(q) PROVE Kept
    <3>1. PICK L : stanzas \in [Pods -> [Databases -> SUBSET L]]
      BY DEF Inv, Typed
    <3>2. /\ served \in [Pods -> SUBSET Databases]
          /\ served' = [served EXCEPT ![q] = {}]
          /\ stanzas' = [stanzas EXCEPT ![q] = [e \in Databases |-> {}]]
      BY <2>4 DEF Wipe, Inv, Typed
    <3>3. \A p \in Pods, e \in Databases :
            stanzas'[p][e] = stanzas[p][e] \/ e \notin served'[p]
      BY <3>1, <3>2
    <3> QED BY <3>3
  <2>5. CASE Controller
    BY <2>1, <2>2, <2>3, <2>5
       DEF Controller, Begin, Judge, ApplyToPods, Identities, Resolve, onPods
  <2>6. CASE User
    BY <2>1, <2>6 DEF User, CreateDatabase, EditDatabase, DeleteDatabase, EditCluster, EditMesh,
                      onPods
  <2>7. CASE Surroundings
    BY <2>1, <2>4, <2>7
       DEF Surroundings, PodDown, PodUp, Discover, RemoteFleetChanges, SecretGone,
           SecretBack, EnsureAuthDB, MeshUnreadable, MeshReadable, Crash, onPods
  <2> QED BY <2>5, <2>6, <2>7 DEF Next
<1> QED BY <1>1, InvHolds, PTL DEF Spec, KeepsDeclaredLinks

=============================================================================
