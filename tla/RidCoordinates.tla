--------------------------- MODULE RidCoordinates ---------------------------
(***************************************************************************)
(* The replica IDs of syncrepl stanzas as coordinates in a matrix          *)
(* (operator/internal/ridcoord/ridcoord.go):                               *)
(*                                                                         *)
(*     rid = 1 + segment * M + offset         M = podsPerSite + maxSites   *)
(*                                                                         *)
(* A segment belongs to one database.  The first podsPerSite offsets name  *)
(* the providers of the reader's own site by pod ordinal, the others name  *)
(* the reader's links to peer sites by site index.                         *)
(***************************************************************************)
EXTENDS Integers

CONSTANTS
  MaxRID,   \* slapd's ceiling on a replica ID, 999 in the code
  IntMax    \* the largest int32, 2^31 - 1 in the code

ASSUME BandConstants ==
  /\ MaxRID \in Nat \ {0}
  /\ IntMax \in Nat
  /\ IntMax >= 2 * MaxRID

\* What a refused derivation returns in place of a coordinate.
Refused == 0

Layouts == [podsPerSite : Int, maxSites : Int]

Kinds == {"local", "remote"}
Coordinates == [segment : Nat, kind : Kinds, index : Nat]

\* int32 addition: a sum beyond IntMax wraps to the negative numbers.
Add32(a, b) ==
  IF a + b > IntMax THEN a + b - 2 * (IntMax + 1) ELSE a + b

\* Each axis is bounded on its own before the two are added.
Validate(l) ==
  /\ l.podsPerSite >= 1 /\ l.maxSites >= 1
  /\ l.podsPerSite <= MaxRID /\ l.maxSites <= MaxRID
  /\ Add32(l.podsPerSite, l.maxSites) <= MaxRID

SegmentWidth(l) == IF Validate(l) THEN Add32(l.podsPerSite, l.maxSites) ELSE 0

MaxSegments(l) ==
  IF SegmentWidth(l) = 0 THEN 0 ELSE MaxRID \div SegmentWidth(l)

CheckSegment(l, segment) ==
  /\ Validate(l)
  /\ segment >= 0 /\ segment < MaxSegments(l)

\* The RID of the provider at pod ordinal `ordinal` of the reader's own site.
Local(l, segment, ordinal) ==
  IF CheckSegment(l, segment) /\ ordinal >= 0 /\ ordinal < l.podsPerSite
  THEN 1 + segment * SegmentWidth(l) + ordinal
  ELSE Refused

\* The RID of a pod's link to the peer site with index `siteIndex`.
Remote(l, segment, siteIndex) ==
  IF CheckSegment(l, segment) /\ siteIndex >= 0 /\ siteIndex < l.maxSites
  THEN 1 + segment * SegmentWidth(l) + l.podsPerSite + siteIndex
  ELSE Refused

\* The RIDs the layout can produce; the tail up to MaxRID belongs to nobody.
Decodable(l, rid) ==
  Validate(l) /\ rid >= 1 /\ rid <= MaxSegments(l) * SegmentWidth(l)

\* The coordinate a RID stands for.
Decode(l, rid) ==
  LET offset == (rid - 1) % SegmentWidth(l)
  IN [segment |-> (rid - 1) \div SegmentWidth(l),
      kind    |-> IF offset < l.podsPerSite THEN "local" ELSE "remote",
      index   |-> IF offset < l.podsPerSite
                  THEN offset ELSE offset - l.podsPerSite]

=============================================================================
