---------------------------- MODULE MeshWiring -----------------------------
(***************************************************************************)
(* What a SlapdMesh contributes to one SlapdCluster at one site            *)
(* (operator/internal/controller/mesh_derive.go, mesh_resolve.go): the     *)
(* site's serverID slot and its external peers, or the reason why neither  *)
(* can be derived.                                                         *)
(*                                                                         *)
(* A site is a record of its name and its declared serverIDIndex.  Names   *)
(* stand for their trimmed form; Blank is a name that trims to nothing.    *)
(***************************************************************************)
EXTENDS Integers, Sequences, RidCoordinates

CONSTANTS
  Blank,         \* the empty name
  Unset,         \* a field that is not set
  DefaultLayout  \* ridcoord.DefaultLayout, podsPerSite 8 and maxSites 12

ASSUME MeshConstants ==
  /\ Unset \notin Int
  /\ DefaultLayout \in Layouts
  /\ DefaultLayout.podsPerSite > 0 /\ DefaultLayout.maxSites > 0

\* A site owns one slot of serverIDs: its base is reserved, its pods follow.
ServerIDStride == 16
MaxSiteIndex == 4094 \div ServerIDStride
MaxPodsPerSite == ServerIDStride - 1

\* The site list is judged as a whole: one bad entry fails every derivation.
Malformed_IndicesMayRepeat(sites) ==
  \/ sites = <<>>
  \/ \E i \in DOMAIN sites :
       \/ sites[i].name = Blank
       \/ sites[i].index = Unset
       \/ sites[i].index < 0
       \/ \E j \in DOMAIN sites \ {i} : sites[j].name = sites[i].name

\* Two sites with one name or one index would share a serverID slot.
Malformed(sites) ==
  \/ sites = <<>>
  \/ \E i \in DOMAIN sites :
       \/ sites[i].name = Blank
       \/ sites[i].index = Unset
       \/ sites[i].index < 0
       \/ \E j \in DOMAIN sites \ {i} : \/ sites[j].name = sites[i].name
                                        \/ sites[j].index = sites[i].index

Names(sites) == {sites[i].name : i \in DOMAIN sites}

\* Why a name is not the name of a site, or "" when it is.
MeshSiteFault(sites, name) ==
  IF Malformed(sites) THEN "MeshSitesInvalid"
  ELSE IF name = Blank THEN "SiteIdentityMissing"
  ELSE IF name \notin Names(sites) THEN "SiteNotInMesh"
  ELSE ""

\* The index declared for a site: the field, never the place in the list.
IndexOf(sites, name) ==
  LET i == CHOOSE i \in DOMAIN sites : sites[i].name = name
  IN sites[i].index

\* The layout a mesh declares, defaulted per axis: zero reads as unset.
MeshRIDLayout(mesh) ==
  [podsPerSite |-> IF mesh.layout.podsPerSite # 0
                   THEN mesh.layout.podsPerSite
                   ELSE DefaultLayout.podsPerSite,
   maxSites    |-> IF mesh.layout.maxSites # 0
                   THEN mesh.layout.maxSites
                   ELSE DefaultLayout.maxSites]

\* The first site whose index cannot be addressed decides the reason.
SiteIndicesFault(sites, layout) ==
  LET bad == {i \in DOMAIN sites :
                /\ sites[i].index # Unset
                /\ \/ sites[i].index > MaxSiteIndex
                   \/ sites[i].index >= layout.maxSites}
      first == CHOOSE i \in bad : \A j \in bad : i <= j
  IN IF bad = {} THEN ""
     ELSE IF sites[first].index > MaxSiteIndex
          THEN "ServerIDCeilingExceeded" ELSE "SiteIndexPastRIDLayout"

\* More pods than a slot holds: the last one would take the next site's base.
StrideFault(layout) ==
  IF layout.podsPerSite > MaxPodsPerSite THEN "MeshSitesInvalid" ELSE ""

\* A typed serverIDBase may stay when the mesh hands out that slot to a site;
\* the scan stops at the first site that declares no index.
SlotOfMesh(sites, base) ==
  \E i \in DOMAIN sites :
    /\ \A j \in 1 .. i : sites[j].index # Unset
    /\ sites[i].index * ServerIDStride = base

\* A cluster that references a mesh and also writes what the mesh derives.
SpecConflicts(mesh, spec) ==
  \/ spec.peers # {}
  \/ mesh.network /\ spec.network
  \/ spec.base # 0 /\ ~SlotOfMesh(mesh.sites, spec.base)

\* The sites a cluster spans: all of them, or the ones its selector names.
SelectorFault(sites, selector, identity) ==
  LET faults == {MeshSiteFault(sites, n) : n \in selector} \ {""}
  IN IF faults # {} THEN CHOOSE f \in faults : TRUE
     ELSE IF selector # {} /\ identity \notin selector THEN "SiteNotSelected"
     ELSE ""

Spans(sites, selector) == IF selector = {} THEN Names(sites) ELSE selector

\* Every other site the cluster spans, with its declared index.
ExternalPeersForSite(sites, selector, identity) ==
  {[name |-> n, index |-> IndexOf(sites, n)] :
     n \in Spans(sites, selector) \ {identity}}

ServerIDBaseForSite(sites, identity) ==
  ServerIDStride * IndexOf(sites, identity)

\* The reasons are tried in this order; the first one found is reported.
DerivationFault(mesh, spec, identity) ==
  LET layout == MeshRIDLayout(mesh)
      indices == SiteIndicesFault(mesh.sites, layout)
      stride == StrideFault(layout)
      site == MeshSiteFault(mesh.sites, identity)
  IN IF SpecConflicts(mesh, spec) THEN "SpecConflictsWithMesh"
     ELSE IF indices # "" THEN indices
     ELSE IF stride # "" THEN stride
     ELSE IF site # "" THEN site
     ELSE SelectorFault(mesh.sites, spec.sites, identity)

\* resolveMeshWiring: the wiring in force, or Unset and the cluster is left as
\* it is.  A cluster without a meshRef keeps what it declares; an unreadable
\* mesh derives nothing.
ResolveMeshWiring(mesh, spec, identity) ==
  IF ~spec.meshRef
  THEN [base |-> spec.base, peers |-> spec.peers]
  ELSE IF mesh = Unset \/ DerivationFault(mesh, spec, identity) # ""
       THEN Unset
       ELSE [base  |-> ServerIDBaseForSite(mesh.sites, identity),
             peers |-> ExternalPeersForSite(mesh.sites, spec.sites, identity)]

\* ridLayoutFor: the defaults without a meshRef, the mesh's layout with one,
\* and Unset when the mesh cannot be read.
RidLayoutFor(mesh, spec) ==
  IF ~spec.meshRef THEN DefaultLayout
  ELSE IF mesh = Unset THEN Unset ELSE MeshRIDLayout(mesh)

\* desiredServerID: what pod `ordinal` of a site writes its CSNs under.
DesiredServerID(base, ordinal) == base + ordinal + 1

=============================================================================
