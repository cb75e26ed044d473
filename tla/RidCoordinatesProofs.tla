------------------------ MODULE RidCoordinatesProofs ------------------------
(***************************************************************************)
(* The RID matrix neither leaves slapd's band nor gives one number to two  *)
(* coordinates, for every layout the operator accepts.                     *)
(***************************************************************************)
EXTENDS RidCoordinates, TLAPS

\* A layout that passes Validate has a width that did not wrap and at least
\* one segment, and all its segments fit below MaxRID.
LEMMA LayoutFacts ==
  ASSUME NEW l \in Layouts, Validate(l)
  PROVE  /\ SegmentWidth(l) = l.podsPerSite + l.maxSites
         /\ SegmentWidth(l) \in 2 .. MaxRID
         /\ l.podsPerSite \in Nat \ {0} /\ l.maxSites \in Nat \ {0}
         /\ MaxSegments(l) \in Nat \ {0}
         /\ MaxSegments(l) * SegmentWidth(l) <= MaxRID
<1>1. /\ l.podsPerSite \in 1 .. MaxRID /\ l.maxSites \in 1 .. MaxRID
      /\ Add32(l.podsPerSite, l.maxSites) = l.podsPerSite + l.maxSites
      /\ l.podsPerSite + l.maxSites <= MaxRID
  BY BandConstants DEF Validate, Layouts, Add32
<1>2. /\ SegmentWidth(l) = l.podsPerSite + l.maxSites
      /\ SegmentWidth(l) \in 2 .. MaxRID
  BY <1>1, BandConstants DEF SegmentWidth
<1>3. MaxSegments(l) = MaxRID \div SegmentWidth(l)
  BY <1>2 DEF MaxSegments
<1>4. ASSUME NEW a \in Nat, NEW m \in 1 .. a
      PROVE  a \div m \in Nat \ {0} /\ (a \div m) * m <= a
  OBVIOUS
<1>5. /\ MaxSegments(l) \in Nat \ {0}
      /\ MaxSegments(l) * SegmentWidth(l) <= MaxRID
  BY <1>2, <1>3, <1>4, BandConstants
<1> QED
  BY <1>1, <1>2, <1>5

\* Two numbers in consecutive runs of width m are equal only when both the
\* run and the place in it are.
LEMMA UniqueQuotient ==
  ASSUME NEW m \in Nat \ {0},
         NEW s \in Nat, NEW t \in Nat,
         NEW a \in 0 .. m - 1, NEW b \in 0 .. m - 1,
         1 + s * m + a = 1 + t * m + b
  PROVE  s = t /\ a = b
<1>0. s * m \in Int /\ t * m \in Int
  OBVIOUS
<1>1. ASSUME NEW u \in Nat, NEW v \in Nat, u < v
      PROVE  u * m + m <= v * m
  <2>1. PICK k \in Nat : v = u + 1 + k
    <3>1. v - u - 1 \in Nat /\ v = u + 1 + (v - u - 1)
      BY <1>1
    <3> QED BY <3>1
  <2>2. v * m = u * m + m + k * m /\ k * m >= 0
    BY <2>1
  <2> QED BY <2>2
<1>2. ~(s < t)
  BY <1>0, <1>1
<1>3. ~(t < s)
  BY <1>0, <1>1
<1> QED
  BY <1>0, <1>2, <1>3

\* The RID of a coordinate is where the coordinate lies in the matrix.
LEMMA RunOf ==
  ASSUME NEW l \in Layouts, NEW s \in Int, NEW o \in Int
  PROVE  /\ Local(l, s, o) # Refused =>
              /\ Validate(l) /\ s \in 0 .. MaxSegments(l) - 1
              /\ o \in 0 .. l.podsPerSite - 1
              /\ Local(l, s, o) = 1 + s * SegmentWidth(l) + o
         /\ Remote(l, s, o) # Refused =>
              /\ Validate(l) /\ s \in 0 .. MaxSegments(l) - 1
              /\ o \in 0 .. l.maxSites - 1
              /\ Remote(l, s, o) =
                   1 + s * SegmentWidth(l) + (l.podsPerSite + o)
<1>1. Validate(l) => MaxSegments(l) \in Nat /\ l.podsPerSite \in Nat
                       /\ l.maxSites \in Nat
  BY LayoutFacts
<1>2. ASSUME NEW w \in Int, NEW p \in Nat
      PROVE  1 + s * w + p + o = 1 + s * w + (p + o)
  <2>1. s * w \in Int
    OBVIOUS
  <2> QED BY <2>1
<1>3. Validate(l) => SegmentWidth(l) \in Int
  BY LayoutFacts, BandConstants
<1> QED
  BY <1>1, <1>2, <1>3 DEF Local, Remote, CheckSegment, Refused

\* A number of run s below C runs of width m lies between 1 and C * m.
LEMMA InBand ==
  ASSUME NEW m \in Nat \ {0}, NEW c \in Nat,
         NEW s \in 0 .. c - 1, NEW a \in 0 .. m - 1
  PROVE  /\ 1 + s * m + a \in Nat
         /\ 1 + s * m + a >= 1 /\ 1 + s * m + a <= c * m
<1>1. PICK k \in Nat : c = s + 1 + k
  <2>1. c - s - 1 \in Nat /\ c = s + 1 + (c - s - 1)
    OBVIOUS
  <2> QED BY <2>1
<1>2. c * m = s * m + m + k * m /\ k * m >= 0 /\ s * m >= 0
  BY <1>1
<1> QED
  BY <1>2

\* Every RID that ridcoord.Local or ridcoord.Remote hands out lies in slapd's
\* band 1..999 and is never the reserved 0.
THEOREM RidsInBand ==
  ASSUME NEW l \in Layouts, NEW s \in Int, NEW o \in Int
  PROVE  /\ Local(l, s, o) # Refused => Local(l, s, o) \in 1 .. MaxRID
         /\ Remote(l, s, o) # Refused => Remote(l, s, o) \in 1 .. MaxRID
<1>1. ASSUME Local(l, s, o) # Refused
      PROVE  Local(l, s, o) \in 1 .. MaxRID
  <2>1. /\ o \in 0 .. SegmentWidth(l) - 1 /\ s \in 0 .. MaxSegments(l) - 1
        /\ Local(l, s, o) = 1 + s * SegmentWidth(l) + o
    BY <1>1, RunOf, LayoutFacts
  <2>2. /\ SegmentWidth(l) \in Nat \ {0} /\ MaxSegments(l) \in Nat
        /\ MaxSegments(l) * SegmentWidth(l) <= MaxRID
    BY <1>1, RunOf, LayoutFacts, BandConstants
  <2>3. /\ Local(l, s, o) \in Nat /\ Local(l, s, o) >= 1
        /\ Local(l, s, o) <= MaxSegments(l) * SegmentWidth(l)
    BY <2>1, <2>2, InBand
  <2> QED BY <2>2, <2>3, BandConstants
<1>2. ASSUME Remote(l, s, o) # Refused
      PROVE  Remote(l, s, o) \in 1 .. MaxRID
  <2>1. /\ l.podsPerSite + o \in 0 .. SegmentWidth(l) - 1
        /\ s \in 0 .. MaxSegments(l) - 1
        /\ Remote(l, s, o) = 1 + s * SegmentWidth(l) + (l.podsPerSite + o)
    BY <1>2, RunOf, LayoutFacts
  <2>2. /\ SegmentWidth(l) \in Nat \ {0} /\ MaxSegments(l) \in Nat
        /\ MaxSegments(l) * SegmentWidth(l) <= MaxRID
    BY <1>2, RunOf, LayoutFacts, BandConstants
  <2>3. /\ Remote(l, s, o) \in Nat /\ Remote(l, s, o) >= 1
        /\ Remote(l, s, o) <= MaxSegments(l) * SegmentWidth(l)
    BY <2>1, <2>2, InBand
  <2> QED BY <2>2, <2>3, BandConstants
<1> QED
  BY <1>1, <1>2

\* Never one number for two coordinates: equal RIDs name the same segment, and
\* within it the same provider or the same peer site, and a provider's number
\* is never a peer site's.
THEOREM RidsDistinct ==
  ASSUME NEW l \in Layouts, NEW s \in Int, NEW t \in Int,
         NEW a \in Int, NEW b \in Int
  PROVE  /\ Local(l, s, a) # Refused /\ Local(l, s, a) = Local(l, t, b)
              => s = t /\ a = b
         /\ Remote(l, s, a) # Refused /\ Remote(l, s, a) = Remote(l, t, b)
              => s = t /\ a = b
         /\ Local(l, s, a) # Refused => Local(l, s, a) # Remote(l, t, b)
<1> DEFINE m == SegmentWidth(l)
<1>1. ASSUME Validate(l)
      PROVE  /\ m \in Nat \ {0} /\ m = l.podsPerSite + l.maxSites
             /\ l.podsPerSite \in Nat /\ l.maxSites \in Nat
             /\ MaxSegments(l) \in Nat
  BY <1>1, LayoutFacts, BandConstants
<1>2. ASSUME Local(l, s, a) # Refused, Local(l, s, a) = Local(l, t, b)
      PROVE  s = t /\ a = b
  <2>1. /\ m \in Nat \ {0} /\ s \in Nat /\ t \in Nat
        /\ a \in 0 .. m - 1 /\ b \in 0 .. m - 1
        /\ Local(l, s, a) = 1 + s * m + a /\ Local(l, t, b) = 1 + t * m + b
    BY <1>1, <1>2, RunOf
  <2> HIDE DEF m
  <2>2. 1 + s * m + a = 1 + t * m + b
    BY <1>2, <2>1
  <2> QED BY <2>1, <2>2, UniqueQuotient
<1>3. ASSUME Remote(l, s, a) # Refused, Remote(l, s, a) = Remote(l, t, b)
      PROVE  s = t /\ a = b
  <2> DEFINE x == l.podsPerSite + a
             y == l.podsPerSite + b
  <2>1. /\ m \in Nat \ {0} /\ s \in Nat /\ t \in Nat
        /\ x \in 0 .. m - 1 /\ y \in 0 .. m - 1
        /\ Remote(l, s, a) = 1 + s * m + x /\ Remote(l, t, b) = 1 + t * m + y
    BY <1>1, <1>3, RunOf
  <2> HIDE DEF m, x, y
  <2>2. 1 + s * m + x = 1 + t * m + y
    BY <1>3, <2>1
  <2>3. s = t /\ x = y
    BY <2>1, <2>2, UniqueQuotient
  <2> QED BY <1>1, <1>3, <2>3, RunOf DEF x, y
<1>4. ASSUME Local(l, s, a) # Refused, Local(l, s, a) = Remote(l, t, b)
      PROVE  FALSE
  <2> DEFINE y == l.podsPerSite + b
  <2>1. /\ m \in Nat \ {0} /\ s \in Nat /\ t \in Nat
        /\ a \in 0 .. m - 1 /\ y \in 0 .. m - 1
        /\ a < l.podsPerSite /\ y >= l.podsPerSite /\ l.podsPerSite \in Nat
        /\ Local(l, s, a) = 1 + s * m + a /\ Remote(l, t, b) = 1 + t * m + y
    BY <1>1, <1>4, RunOf
  <2> HIDE DEF m, y
  <2>2. 1 + s * m + a = 1 + t * m + y
    BY <1>4, <2>1
  <2>3. a = y
    BY <2>1, <2>2, UniqueQuotient
  <2> QED BY <2>1, <2>3
<1> QED
  BY <1>2, <1>3, <1>4

\* Division undoes what a run and a place in it were added up from.
LEMMA DivideBack ==
  ASSUME NEW m \in Nat \ {0}, NEW s \in Nat, NEW a \in 0 .. m - 1
  PROVE  (s * m + a) \div m = s /\ (s * m + a) % m = a
<1> DEFINE x == s * m + a
           q == x \div m
           r == x % m
<1>1. x \in Nat
  OBVIOUS
<1>2. q \in Nat /\ r \in 0 .. m - 1 /\ x = q * m + r
  BY <1>1
<1>3. q * m \in Int /\ s * m \in Int
  BY <1>2
<1>4. 1 + q * m + r = 1 + s * m + a
  BY <1>2, <1>3
<1> HIDE DEF q, r
<1>5. q = s /\ r = a
  BY <1>2, <1>4, UniqueQuotient
<1> QED
  BY <1>5 DEF q, r

\* Decode inverts Local and Remote: the RID on a stanza tells which database,
\* which block and which provider or peer site it stands for.
THEOREM DecodeInverts ==
  ASSUME NEW l \in Layouts, NEW s \in Int, NEW o \in Int
  PROVE  /\ Local(l, s, o) # Refused =>
              /\ Decodable(l, Local(l, s, o))
              /\ Decode(l, Local(l, s, o)) =
                   [segment |-> s, kind |-> "local", index |-> o]
         /\ Remote(l, s, o) # Refused =>
              /\ Decodable(l, Remote(l, s, o))
              /\ Decode(l, Remote(l, s, o)) =
                   [segment |-> s, kind |-> "remote", index |-> o]
<1>1. ASSUME NEW x \in Nat, NEW rid \in Int,
             x < SegmentWidth(l), Validate(l), s \in 0 .. MaxSegments(l) - 1,
             rid = 1 + s * SegmentWidth(l) + x
      PROVE  /\ Decodable(l, rid)
             /\ (rid - 1) \div SegmentWidth(l) = s
             /\ (rid - 1) % SegmentWidth(l) = x
  <2>1. PICK m \in Nat \ {0} : m = SegmentWidth(l)
    BY <1>1, LayoutFacts, BandConstants
  <2>2. MaxSegments(l) \in Nat /\ s \in Nat /\ x \in 0 .. m - 1
    BY <1>1, <2>1, LayoutFacts
  <2>3. s * m \in Nat /\ rid - 1 = s * m + x
    BY <1>1, <2>1, <2>2
  <2>4. (s * m + x) \div m = s /\ (s * m + x) % m = x
    BY <2>2, DivideBack
  <2>5. rid >= 1 /\ rid <= MaxSegments(l) * m
    BY <1>1, <2>1, <2>2, InBand
  <2> QED BY <1>1, <2>1, <2>3, <2>4, <2>5 DEF Decodable
<1>2. ASSUME Local(l, s, o) # Refused
      PROVE  /\ Decodable(l, Local(l, s, o))
             /\ Decode(l, Local(l, s, o)) =
                  [segment |-> s, kind |-> "local", index |-> o]
  <2>1. PICK rid \in Int : rid = Local(l, s, o)
    BY <1>2, RidsInBand
  <2>2. /\ Validate(l) /\ s \in 0 .. MaxSegments(l) - 1
        /\ o \in Nat /\ o < l.podsPerSite /\ o < SegmentWidth(l)
        /\ rid = 1 + s * SegmentWidth(l) + o
    BY <1>2, <2>1, RunOf, LayoutFacts
  <2>3. /\ Decodable(l, rid) /\ (rid - 1) \div SegmentWidth(l) = s
        /\ (rid - 1) % SegmentWidth(l) = o
    BY <1>1, <2>2
  <2>4. Decode(l, rid) = [segment |-> s, kind |-> "local", index |-> o]
    BY <2>2, <2>3 DEF Decode
  <2> QED BY <2>1, <2>3, <2>4
<1>3. ASSUME Remote(l, s, o) # Refused
      PROVE  /\ Decodable(l, Remote(l, s, o))
             /\ Decode(l, Remote(l, s, o)) =
                  [segment |-> s, kind |-> "remote", index |-> o]
  <2>1. PICK rid \in Int : rid = Remote(l, s, o)
    BY <1>3, RidsInBand
  <2>2. PICK x \in Nat : x = l.podsPerSite + o
    BY <1>3, RunOf, LayoutFacts
  <2>3. /\ Validate(l) /\ s \in 0 .. MaxSegments(l) - 1
        /\ ~(x < l.podsPerSite) /\ x - l.podsPerSite = o
        /\ x < SegmentWidth(l)
    <3>1. /\ Validate(l) /\ s \in 0 .. MaxSegments(l) - 1
          /\ o \in 0 .. l.maxSites - 1
      BY <1>3, RunOf
    <3>2. /\ SegmentWidth(l) = l.podsPerSite + l.maxSites
          /\ l.podsPerSite \in Nat /\ l.maxSites \in Nat
      BY <3>1, LayoutFacts
    <3> QED BY <2>2, <3>1, <3>2
  <2>4. rid = 1 + s * SegmentWidth(l) + x
    BY <1>3, <2>1, <2>2, RunOf
  <2>5. /\ Decodable(l, rid) /\ (rid - 1) \div SegmentWidth(l) = s
        /\ (rid - 1) % SegmentWidth(l) = x
    BY <1>1, <2>3, <2>4
  <2>6. Decode(l, rid) = [segment |-> s, kind |-> "remote", index |-> o]
    BY <2>3, <2>5 DEF Decode
  <2> QED BY <2>1, <2>5, <2>6
<1> QED
  BY <1>2, <1>3

=============================================================================
