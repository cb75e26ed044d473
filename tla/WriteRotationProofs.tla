------------------------ MODULE WriteRotationProofs -------------------------
(***************************************************************************)
(* The rotating write endpoint, for every size of the cluster, every       *)
(* declaration and every grid: the arithmetic of PurgeGrid first, then the *)
(* invariant of the two controllers and the clock.                         *)
(***************************************************************************)
EXTENDS WriteRotation, WellFoundedInduction, TLAPS

-----------------------------------------------------------------------------
(***************************************************************************)
(* Division.                                                               *)
(***************************************************************************)

\* A number splits into a quotient and a remainder.
LEMMA Division ==
  ASSUME NEW x \in Int, NEW m \in Nat \ {0}
  PROVE  /\ x \div m \in Int /\ x % m \in 0 .. m - 1
         /\ (x \div m) * m \in Int
         /\ x = (x \div m) * m + (x % m)
<1>1. x \div m \in Int /\ x % m \in 0 .. m - 1
  OBVIOUS
<1>2. x = (x \div m) * m + (x % m)
  OBVIOUS
<1>3. \A y \in Int : y * m \in Int
  OBVIOUS
<1> QED
  BY <1>1, <1>2, <1>3

\* There is one way to split it.
LEMMA OneSplit ==
  ASSUME NEW m \in Nat \ {0}, NEW s \in Int, NEW t \in Int,
         NEW a \in 0 .. m - 1, NEW b \in 0 .. m - 1,
         s * m + a = t * m + b
  PROVE  s = t /\ a = b
<1>0. s * m \in Int /\ t * m \in Int
  OBVIOUS
<1>1. ASSUME NEW u \in Int, NEW v \in Int, u < v
      PROVE  u * m + m <= v * m
  <2>1. PICK k \in Nat : v = u + 1 + k
    <3>1. v - u - 1 \in Nat /\ v = u + 1 + (v - u - 1)
      BY <1>1
    <3> QED BY <3>1
  <2>2. v * m = u * m + m + k * m /\ k * m >= 0
    BY <2>1
  <2> QED BY <2>2
<1>2. ~(s < t)
  BY <1>0, <1>1
<1>3. ~(t < s)
  BY <1>0, <1>1
<1> QED
  BY <1>0, <1>2, <1>3

\* So a number that is split has that quotient and that remainder.
LEMMA SplitIs ==
  ASSUME NEW m \in Nat \ {0}, NEW q \in Int, NEW r \in 0 .. m - 1,
         NEW x \in Int, x = q * m + r
  PROVE  x \div m = q /\ x % m = r
<1>1. /\ x \div m \in Int /\ x % m \in 0 .. m - 1
      /\ x = (x \div m) * m + (x % m)
  BY Division
<1>2. (x \div m) * m + (x % m) = q * m + r
  BY <1>1
<1> QED
  BY <1>1, <1>2, OneSplit

\* The remainder is 0 exactly for the multiples.
LEMMA Multiple ==
  ASSUME NEW m \in Nat \ {0}, NEW x \in Int
  PROVE  /\ x % m = 0 => x = (x \div m) * m
         /\ \A c \in Int : x = c * m => x % m = 0
<1>1. x % m = 0 => x = (x \div m) * m
  BY Division
<1>2. ASSUME NEW c \in Int, x = c * m
      PROVE  x % m = 0
  <2>1. 0 \in 0 .. m - 1 /\ c * m \in Int /\ x = c * m + 0
    BY <1>2
  <2> QED BY <2>1, SplitIs
<1> QED
  BY <1>1, <1>2

\* Dividing by s and then by q is dividing by q * s.
LEMMA NestedDivision ==
  ASSUME NEW x \in Int, NEW s \in Nat \ {0}, NEW q \in Nat \ {0}
  PROVE  (x \div s) \div q = x \div (q * s)
<1> DEFINE a == x \div s
           r == x % s
           b == a \div q
           c == a % q
<1>1. a \in Int /\ r \in 0 .. s - 1 /\ x = a * s + r
  BY Division
<1>2. b \in Int /\ c \in 0 .. q - 1 /\ a = b * q + c
  BY <1>1, Division
<1> HIDE DEF a, r, b, c
<1>3. PICK k \in Nat : q = c + 1 + k
  <2>1. q - c - 1 \in Nat /\ q = c + 1 + (q - c - 1)
    BY <1>2
  <2> QED BY <2>1
<1>4. q * s = c * s + s + k * s /\ c * s >= 0 /\ k * s >= 0
      /\ q * s \in Nat \ {0} /\ c * s \in Int /\ k * s \in Int
  BY <1>2, <1>3
<1>5. c * s + r \in 0 .. (q * s) - 1
  BY <1>1, <1>2, <1>4
<1>6. x = b * (q * s) + (c * s + r)
  <2>1. a * s = b * (q * s) + c * s
    BY <1>2
  <2> QED BY <1>1, <1>2, <1>4, <2>1
<1>7. x \div (q * s) = b
  <2>1. \A m \in Nat \ {0} : \A w \in 0 .. m - 1 :
          x = b * m + w => x \div m = b
    BY <1>2, SplitIs
  <2> QED BY <1>4, <1>5, <1>6, <2>1
<1> QED
  BY <1>7 DEF a, b

\* A remainder does not see what is added in whole divisors.
LEMMA RemainderShift ==
  ASSUME NEW m \in Nat \ {0}, NEW x \in Int, NEW c \in Int
  PROVE  (x + c * m) % m = x % m
<1> DEFINE q == x \div m
           r == x % m
<1>1. q \in Int /\ r \in 0 .. m - 1 /\ q * m \in Int /\ x = q * m + r
  BY Division
<1> HIDE DEF q, r
<1>2. c * m \in Int /\ q + c \in Int /\ (q + c) * m = q * m + c * m
  BY <1>1
<1>3. x + c * m \in Int /\ x + c * m = (q + c) * m + r
  BY <1>1, <1>2
<1>4. (x + c * m) % m = r
  BY <1>1, <1>2, <1>3, SplitIs
<1> QED
  BY <1>4 DEF r

-----------------------------------------------------------------------------
(***************************************************************************)
(* The grid.                                                               *)
(***************************************************************************)

\* slapd reads back from "[ddd+]hh:mm:ss" the whole seconds that formatLogAge
\* wrote, whatever the number of days.
LEMMA LogAgeRoundTrip ==
  ASSUME NEW d \in Nat
  PROVE  /\ Seconds(d) \in Nat
         /\ FormatLogAge(d) \in LogAges
         /\ ParseLogAge(FormatLogAge(d)) = Seconds(d)
<1> DEFINE s == Seconds(d)
<1>1. s \in Nat
  BY GridConstants DEF Seconds
<1> HIDE DEF s
<1>2. FormatLogAge(d) =
        [days |-> s \div 86400, hh |-> (s % 86400) \div 3600,
         mm |-> ((s % 86400) % 3600) \div 60, ss |-> (s % 86400) % 60]
  BY DEF FormatLogAge, SecondsPerDay, s
<1>3. /\ s \div 86400 \in Nat /\ (s % 86400) \div 3600 \in 0 .. 23
      /\ ((s % 86400) % 3600) \div 60 \in 0 .. 59
      /\ (s % 86400) % 60 \in 0 .. 59
      /\ (((s \div 86400) * 24 + ((s % 86400) \div 3600)) * 60
           + (((s % 86400) % 3600) \div 60)) * 60 + ((s % 86400) % 60) = s
  BY <1>1
<1> QED
  BY <1>1, <1>2, <1>3 DEF LogAges, ParseLogAge, s

\* A slot of whole seconds.
SlotLengths == {t \in Nat \ {0} : t % Second = 0}

\* On a slot of whole seconds the code's arithmetic in seconds is that of the
\* clock: the slot is a division, and the next boundary is what is left of it.
LEMMA SlotIs ==
  ASSUME NEW x \in Int, NEW t \in SlotLengths, NEW n \in Nat \ {0}
  PROVE  /\ Seconds(t) \in Nat \ {0} /\ t = Seconds(t) * Second
         /\ RotationSlot(x, t, n) = (x \div t) % n
         /\ NextSlotBoundary(x, t) = t - (x % t)
         /\ NextSlotBoundary(x, t) \in 1 .. t
<1>0. t \in Nat \ {0} /\ t % Second = 0 /\ Second \in Nat \ {0}
  BY GridConstants DEF SlotLengths
<1> DEFINE q == t \div Second
<1>1. q \in Int /\ q * Second \in Int /\ t = q * Second
  BY <1>0, Division
<1>2. q \in Nat \ {0}
  <2> HIDE DEF q
  <2> QED BY <1>0, <1>1
<1>3. (x \div Second) \div q = x \div (q * Second)
  <2> HIDE DEF q
  <2> QED BY <1>0, <1>2, NestedDivision
<1>4. RotationSlot(x, t, n) = (x \div t) % n
  BY <1>1, <1>2, <1>3 DEF RotationSlot, Seconds
<1>5. x % t \in 0 .. t - 1
  BY <1>0, Division
<1>6. NextSlotBoundary(x, t) = t - (x % t)
  BY <1>0, <1>1, <1>2 DEF NextSlotBoundary, Seconds
<1>7. NextSlotBoundary(x, t) \in 1 .. t
  BY <1>0, <1>5, <1>6
<1> QED
  BY <1>1, <1>2, <1>4, <1>6, <1>7 DEF Seconds

\* Until the next boundary the slot stays, and the boundary comes nearer.
LEMMA SlotSteady ==
  ASSUME NEW x \in Int, NEW t \in SlotLengths, NEW n \in Nat \ {0},
         NEW i \in Nat, i < NextSlotBoundary(x, t)
  PROVE  /\ RotationSlot(x + i, t, n) = RotationSlot(x, t, n)
         /\ NextSlotBoundary(x + i, t) = NextSlotBoundary(x, t) - i
<1> DEFINE q == x \div t
           r == x % t
<1>0. t \in Nat \ {0}
  BY DEF SlotLengths
<1>1. q \in Int /\ r \in 0 .. t - 1 /\ q * t \in Int /\ x = q * t + r
  BY <1>0, Division
<1>2. NextSlotBoundary(x, t) = t - r
  BY SlotIs
<1> HIDE DEF q, r
<1>3. r + i \in 0 .. t - 1 /\ x + i \in Int /\ x + i = q * t + (r + i)
  <2>1. ASSUME NEW y \in Int, x = y + r
        PROVE  r + i \in 0 .. t - 1 /\ x + i \in Int /\ x + i = y + (r + i)
    BY <1>0, <1>1, <1>2, <2>1
  <2> QED BY <1>1, <2>1
<1>4. (x + i) \div t = q /\ (x + i) % t = r + i
  <2>1. ASSUME NEW y \in Int, NEW w \in 0 .. t - 1, y = q * t + w
        PROVE  y \div t = q /\ y % t = w
    BY <1>0, <1>1, <2>1, SplitIs
  <2> QED BY <1>3, <2>1
<1>5. RotationSlot(x + i, t, n) = q % n
  BY <1>3, <1>4, SlotIs
<1>6. RotationSlot(x, t, n) = q % n
  BY SlotIs DEF q
<1>7. NextSlotBoundary(x + i, t) = t - (r + i)
  BY <1>3, <1>4, SlotIs
<1> QED
  BY <1>0, <1>1, <1>2, <1>5, <1>6, <1>7

\* The grid repeats after a period of n slots, and so after any number of
\* periods.
LEMMA SlotWraps ==
  ASSUME NEW x \in Int, NEW t \in SlotLengths, NEW n \in Nat \ {0},
         NEW c \in Nat, c % (n * t) = 0
  PROVE  /\ RotationSlot(x + c, t, n) = RotationSlot(x, t, n)
         /\ NextSlotBoundary(x + c, t) = NextSlotBoundary(x, t)
<1> DEFINE q == x \div t
           r == x % t
           p == c \div (n * t)
<1>0. t \in Nat \ {0} /\ n * t \in Nat \ {0}
  BY DEF SlotLengths
<1>1. q \in Int /\ r \in 0 .. t - 1 /\ q * t \in Int /\ x = q * t + r
  BY <1>0, Division
<1>2. p \in Int /\ c = p * (n * t)
  <2>1. \A m \in Nat \ {0} : c % m = 0 => c \div m \in Int /\ c = (c \div m) * m
    BY Division
  <2> QED BY <1>0, <2>1
<1> HIDE DEF q, r, p
<1>3. p * n \in Int /\ c = (p * n) * t
  BY <1>0, <1>2
<1>4. q + p * n \in Int /\ (q + p * n) * t = q * t + (p * n) * t
  BY <1>0, <1>1, <1>3
<1>5. x + c \in Int /\ x + c = (q + p * n) * t + r
  <2>1. ASSUME NEW y \in Int, NEW z \in Int, x = y + r
        PROVE  x + z \in Int /\ x + z = (y + z) + r
    BY <1>1, <2>1
  <2> QED BY <1>1, <1>3, <1>4, <2>1
<1>6. (x + c) \div t = q + p * n /\ (x + c) % t = r
  <2>1. ASSUME NEW y \in Int, NEW u \in Int, y = u * t + r
        PROVE  y \div t = u /\ y % t = r
    BY <1>0, <1>1, <2>1, SplitIs
  <2> QED BY <1>4, <1>5, <2>1
<1>7. (q + p * n) % n = q % n
  BY <1>1, <1>2, RemainderShift
<1>8. RotationSlot(x + c, t, n) = q % n /\ NextSlotBoundary(x + c, t) = t - r
  BY <1>5, <1>6, <1>7, SlotIs
<1> QED
  BY <1>8, SlotIs DEF q, r

-----------------------------------------------------------------------------
(***************************************************************************)
(* The write target.                                                       *)
(***************************************************************************)

\* The least number principle, for a set.
LEMMA LeastElement ==
  ASSUME NEW K \in SUBSET Nat, K # {}
  PROVE  \E k \in K : \A i \in K : k <= i
<1> DEFINE below == {ss \in Nat \X Nat : ss[1] < ss[2]}
<1>1. IsWellFoundedOn(below, Nat)
  BY NatLessThanWellFounded, Zenon DEF OpToRel
<1>2. PICK k \in K : \A i \in K : ~(<<i, k>> \in below)
  <2> HIDE DEF below
  <2> QED BY <1>1, WFMin, Zenon
<1>3. \A i \in K : ~(i < k)
  BY <1>2
<1> QED BY <1>3

\* Where a number is its own remainder, and where it is one divisor too many.
LEMMA SmallRemainder ==
  ASSUME NEW n \in Nat \ {0}, NEW r \in 0 .. n - 1
  PROVE  r % n = r /\ (r + n) % n = r
<1>1. r \in Int /\ r = 0 * n + r /\ r + n \in Int /\ r + n = 1 * n + r
  OBVIOUS
<1> QED
  BY <1>1, SplitIs

\* An offset is a displacement of less than a turn.
LEMMA OffsetRange ==
  ASSUME NEW n \in Nat \ {0}, NEW v \in Nat \ {0}, NEW k \in Nat
  PROVE  Offset(v, k, n) \in 0 .. n - 1
<1>1. v % n \in 0 .. n - 1
  BY Division
<1>2. \E p \in Int : Offset(v, k, n) = (p + k * 1) % n
  BY <1>1 DEF Offset
<1>3. \A p \in Int : (p + k * 1) % n \in 0 .. n - 1
  BY Division
<1> QED
  BY <1>2, <1>3

\* The walk of a positive displacement comes by every offset.
LEMMA OffsetReaches ==
  ASSUME NEW n \in Nat \ {0}, NEW v \in Nat \ {0}, NEW r \in 0 .. n - 1
  PROVE  \E k \in 0 .. n - 1 : Offset(v, k, n) = r
<1>1. v % n \in 0 .. n - 1
  BY Division
<1>2. PICK p \in Int : \A k \in Nat : Offset(v, k, n) = (p + k) % n
  <2>1. \A k \in Nat : Offset(v, k, n)
                         = ((IF v % n = 0 THEN 1 ELSE v % n) + k) % n
    BY <1>1 DEF Offset
  <2>2. (IF v % n = 0 THEN 1 ELSE v % n) \in Int
    BY <1>1
  <2> QED BY <2>1, <2>2
<1> DEFINE d == r - p
           a == d \div n
           k == d % n
<1>3. d \in Int
  OBVIOUS
<1>4. a \in Int /\ k \in 0 .. n - 1 /\ a * n \in Int /\ d = a * n + k
  <2> HIDE DEF d
  <2> QED BY <1>3, Division
<1>5. r = p + d
  OBVIOUS
<1> HIDE DEF d, a, k
<1>6. -a \in Int /\ (-a) * n = -(a * n)
  BY <1>4
<1>7. p + k = r + (-a) * n
  <2>1. ASSUME NEW y \in Int, d = y + k
        PROVE  p + k = r + (-y)
    BY <1>3, <1>4, <1>5, <2>1
  <2> QED BY <1>4, <1>6, <2>1
<1>8. (p + k) % n = r % n
  <2>1. ASSUME NEW c \in Int, NEW y \in Int, y = r + c * n
        PROVE  y % n = r % n
    <3>1. r \in Int
      OBVIOUS
    <3>2. (r + c * n) % n = r % n
      BY <3>1, RemainderShift, Zenon
    <3> QED BY <2>1, <3>2
  <2>2. p + k \in Int
    BY <1>4
  <2> QED BY <1>6, <1>7, <2>1, <2>2
<1>9. r % n = r
  BY SmallRemainder
<1>10. k \in Nat
  BY <1>4
<1>11. Offset(v, k, n) = r
  BY <1>2, <1>8, <1>9, <1>10
<1> QED
  BY <1>4, <1>11

\* An offset other than 0 leads away from where it started.
LEMMA OffsetLeaves ==
  ASSUME NEW n \in Nat \ {0}, NEW s \in 0 .. n - 1, NEW o \in 1 .. n - 1
  PROVE  (s + o) % n \in 0 .. n - 1 /\ (s + o) % n # s
<1>1. CASE s + o < n
  <2>1. s + o \in 0 .. n - 1
    BY <1>1
  <2> QED BY <2>1, SmallRemainder
<1>2. CASE s + o >= n
  <2>1. s + o - n \in 0 .. n - 1 /\ (s + o - n) + n = s + o
    BY <1>2
  <2> QED BY <2>1, SmallRemainder
<1> QED
  BY <1>1, <1>2

\* Every other pod is on offer if it is eligible.
LEMMA OffersOthers ==
  ASSUME NEW n \in Nat \ {0}, NEW v \in Nat \ {0}, NEW eligible,
         NEW s \in 0 .. n - 1, NEW e \in 0 .. n - 1, e \in eligible, e # s
  PROVE  Offers(s, n, v, eligible) # {}
<1>1. PICK o \in 1 .. n - 1 : (s + o) % n = e
  <2>1. CASE e > s
    <3>1. e - s \in 1 .. n - 1 /\ s + (e - s) = e
      BY <2>1
    <3> QED BY <3>1, SmallRemainder
  <2>2. CASE e < s
    <3>1. e - s + n \in 1 .. n - 1 /\ s + (e - s + n) = e + n
      BY <2>2
    <3> QED BY <3>1, SmallRemainder
  <2> QED BY <2>1, <2>2
<1>2. PICK k \in 0 .. n - 1 : Offset(v, k, n) = o
  BY OffsetReaches
<1> QED
  BY <1>1, <1>2 DEF Offers

(***************************************************************************)
(* writeTarget picks an eligible pod of the cluster, finds one whenever    *)
(* there is one, and picks the pod that purges in the slot only when no    *)
(* other is eligible.                                                      *)
(***************************************************************************)
LEMMA TargetIs ==
  ASSUME NEW n \in Nat \ {0}, NEW v \in Nat \ {0}, NEW eligible,
         NEW s \in 0 .. n - 1
  PROVE  LET pods   == eligible \cap 0 .. n - 1
             target == WriteTarget(s, n, v, eligible)
         IN  /\ target \subseteq pods
             /\ pods # {} => target # {}
             /\ s \in target => pods = {s}
<1> DEFINE pods   == eligible \cap 0 .. n - 1
           target == WriteTarget(s, n, v, eligible)
           offers == Offers(s, n, v, eligible)
           least  == {k \in offers : \A i \in offers : k <= i}
<1> SUFFICES /\ target \subseteq pods
             /\ pods # {} => target # {}
             /\ s \in target => pods = {s}
  OBVIOUS
<1>1. s % n = s
  BY SmallRemainder
<1>2. target = IF offers = {} THEN {s} \cap eligible
               ELSE {(s + Offset(v, k, n)) % n : k \in least}
  BY <1>1 DEF WriteTarget
<1>3. \A k \in offers : /\ k \in Nat /\ Offset(v, k, n) # 0
                        /\ (s + Offset(v, k, n)) % n \in eligible
  BY DEF Offers
<1>4. \A k \in offers : /\ (s + Offset(v, k, n)) % n \in pods
                        /\ (s + Offset(v, k, n)) % n # s
  <2>1. \A k \in offers : Offset(v, k, n) \in 1 .. n - 1
    BY <1>3, OffsetRange
  <2>2. \A k \in offers : /\ (s + Offset(v, k, n)) % n \in 0 .. n - 1
                          /\ (s + Offset(v, k, n)) % n # s
    BY <2>1, OffsetLeaves
  <2> QED BY <1>3, <2>2
<1>5. offers # {} => least # {}
  <2>1. offers \in SUBSET Nat
    BY <1>3
  <2> HIDE DEF offers
  <2> QED BY <2>1, LeastElement
<1>6. \A e \in pods : e # s => offers # {}
  BY OffersOthers
<1> HIDE DEF offers, target
<1>7. CASE offers = {}
  BY <1>2, <1>6, <1>7
<1>8. CASE offers # {}
  <2>1. target = {(s + Offset(v, k, n)) % n : k \in least}
    BY <1>2, <1>8
  <2> QED BY <1>4, <1>5, <1>8, <2>1
<1> QED
  BY <1>7, <1>8

-----------------------------------------------------------------------------
(***************************************************************************)
(* The plan, and the value of it that is on a pod.                         *)
(***************************************************************************)

\* The one element of an option, or the default.
LEMMA OptionIs ==
  /\ \A option : option # {} => Get(option) \in option
  /\ \A option, default : option \subseteq Int /\ default \in Int
                            => GetOr(option, default) \in Int
<1>1. \A option : option # {} => Get(option) \in option
  BY Zenon DEF Get
<1> QED
  BY <1>1 DEF GetOr

\* What the gate let through: a rotation has whole slots of some seconds, a
\* lead that is not negative, a displacement that is not a whole turn, and, if
\* it schedules the purges, an interval of one slot for each pod.
LEMMA PlanIs ==
  ASSUME NEW n \in 1 .. MaxN, NEW d \in Declarations,
         NEW plan, plan = EvaluateRotation(n, d)
  PROVE  /\ plan.writerActive \in BOOLEAN /\ plan.phasesActive \in BOOLEAN
         /\ plan.replicas = n /\ plan.interval \in Int
         /\ plan.writerActive \/ plan.phasesActive =>
              /\ plan.slotLength \in SlotLengths
              /\ plan.leadTime \in Nat
              /\ plan.slotsFromWriteToPurge \in Nat \ {0}
              /\ Cycle % (n * plan.slotLength) = 0
         /\ plan.phasesActive => plan.interval = n * plan.slotLength
<1>0. n \in Nat \ {0}
  BY RotationConstants
<1>1. /\ d.slotLength \subseteq Int /\ d.slotsFromWriteToPurge \subseteq Int
      /\ d.leadTime \subseteq Int /\ d.interval \subseteq Int
  BY DeclaredTypes
<1>2. GetOr(d.interval, DefaultInterval) \in Int /\ DefaultInterval \in Int
  BY <1>1, OptionIs, GridConstants
<1>3. CASE RotationReason(n, d) # "RotationActive"
  <2>1. \E i \in Int : \E r : plan = FlatPlan(n, i, r)
    BY <1>2, <1>3 DEF EvaluateRotation
  <2> QED BY <2>1 DEF FlatPlan
<1>4. CASE RotationReason(n, d) = "RotationActive"
  <2>1. /\ d.slotLength # {} /\ ~Unusable(d.slotLength) /\ ~LeadOutOfRange(n, d)
    BY <1>4 DEF RotationReason
  <2>2. Get(d.slotLength) \in SlotLengths
    BY <1>1, <2>1, OptionIs DEF Unusable, SlotLengths
  <2>3. ResolvedLead(d) \in Nat
    <3>1. ResolvedLead(d) \in Int
      BY <1>1, OptionIs DEF ResolvedLead
    <3> QED BY <2>1, <3>1 DEF LeadOutOfRange
  <2>4. ResolvedSlots(n, d) \in Nat \ {0}
    <3>1. GetOr(d.slotsFromWriteToPurge, 1) \in Int
      BY <1>1, OptionIs
    <3>2. GetOr(d.slotsFromWriteToPurge, 1) % n \in 0 .. n - 1
      BY <1>0, <3>1, Division
    <3> QED BY <1>0, <3>2 DEF ResolvedSlots
  <2>5. Cycle % (n * Get(d.slotLength)) = 0
    BY <1>4, CycleIsPeriod
  <2>6. n * Get(d.slotLength) \in Int
    BY <1>0, <2>2 DEF SlotLengths
  <2>7. DeclaresSchedule(d) \in BOOLEAN /\ (d.mode # "PurgeOnly") \in BOOLEAN
    BY DEF DeclaresSchedule
  <2>8. plan = [phasesActive |-> DeclaresSchedule(d),
                writerActive |-> d.mode # "PurgeOnly",
                slotLength |-> Get(d.slotLength), leadTime |-> ResolvedLead(d),
                interval |-> IF DeclaresSchedule(d) THEN n * Get(d.slotLength)
                             ELSE GetOr(d.interval, DefaultInterval),
                replicas |-> n, slotsFromWriteToPurge |-> ResolvedSlots(n, d),
                reason |-> "RotationActive"]
    BY <1>4 DEF EvaluateRotation
  <2>9. /\ plan.phasesActive = DeclaresSchedule(d)
        /\ plan.writerActive = (d.mode # "PurgeOnly")
        /\ plan.slotLength = Get(d.slotLength)
        /\ plan.leadTime = ResolvedLead(d)
        /\ plan.interval = IF DeclaresSchedule(d) THEN n * Get(d.slotLength)
                           ELSE GetOr(d.interval, DefaultInterval)
        /\ plan.replicas = n
        /\ plan.slotsFromWriteToPurge = ResolvedSlots(n, d)
    <3>1. plan.phasesActive = DeclaresSchedule(d)
      BY <2>8, <2>7
    <3>2. plan.writerActive = (d.mode # "PurgeOnly")
      BY <2>8, <2>7
    <3>3. /\ plan.slotLength = Get(d.slotLength)
          /\ plan.leadTime = ResolvedLead(d)
          /\ plan.replicas = n
          /\ plan.slotsFromWriteToPurge = ResolvedSlots(n, d)
      BY <2>8
    <3>4. plan.interval = IF DeclaresSchedule(d) THEN n * Get(d.slotLength)
                          ELSE GetOr(d.interval, DefaultInterval)
      BY <2>8
    <3> QED BY <3>1, <3>2, <3>3, <3>4, Zenon
  <2>10. plan.interval \in Int
    BY <1>2, <2>6, <2>9
  <2> QED
    BY <2>2, <2>3, <2>4, <2>5, <2>7, <2>9, <2>10, Zenon
<1> QED
  BY <1>3, <1>4

\* The interval and the phase of a rotation, as slapd reads them.
LEMMA PhaseIs ==
  ASSUME NEW n \in Nat \ {0}, NEW t \in SlotLengths, NEW k \in 0 .. n - 1
  PROVE  LET q == Seconds(t)
         IN  /\ PurgePhase(k, n, t) \in Nat /\ n * t \in Nat
             /\ Seconds(PurgePhase(k, n, t)) = k * q
             /\ Seconds(n * t) = n * q
             /\ k * q \in Nat /\ n * q \in Nat \ {0} /\ k * q < n * q
<1> DEFINE q == Seconds(t)
<1>0. t \in Nat \ {0} /\ q \in Nat \ {0} /\ t = q * Second /\ Second \in Nat \ {0}
  BY SlotIs, GridConstants DEF SlotLengths
<1> HIDE DEF q
<1>1. ASSUME NEW j \in Nat
      PROVE  j * t \in Nat /\ Seconds(j * t) = j * q /\ j * q \in Nat
  <2>1. j * t \in Nat /\ j * q \in Nat /\ j * t = (j * q) * Second
    BY <1>0
  <2>2. ASSUME NEW x \in Nat, NEW y \in Nat, x = y * Second
        PROVE  x \div Second = y
    <3>1. 0 \in 0 .. Second - 1 /\ y * Second \in Int /\ x = y * Second + 0
      BY <1>0, <2>2
    <3> QED BY <1>0, <3>1, SplitIs
  <2> QED BY <2>1, <2>2 DEF Seconds
<1>2. PurgePhase(k, n, t) = k * t
  BY <1>0 DEF PurgePhase
<1>3. k * q < n * q
  <2>1. PICK i \in Nat : n = k + 1 + i
    <3>1. n - k - 1 \in Nat /\ n = k + 1 + (n - k - 1)
      OBVIOUS
    <3> QED BY <3>1
  <2>2. n * q = k * q + q + i * q /\ i * q >= 0
    BY <1>0, <2>1
  <2> QED BY <1>0, <1>1, <2>1, <2>2
<1>4. n * q # 0
  BY <1>0
<1> QED
  BY <1>1, <1>2, <1>3, <1>4 DEF q

(***************************************************************************)
(* A pod that knows phases and has the value of the plan purges only at    *)
(* the beginning of its own slot.                                          *)
(***************************************************************************)
LEMMA PurgesInOwnSlot ==
  ASSUME replicas \in 1 .. MaxN, decl \in Declarations, now \in Nat,
         Plan.phasesActive, NEW k \in 0 .. replicas - 1,
         k \in Patched, Converged(k), Purges(k)
  PROVE  \E i \in Int : now = (k + i * replicas) * Plan.slotLength
<1> DEFINE n == replicas
           t == Plan.slotLength
           q == Seconds(t)
           phase == PurgePhase(k, n, t)
           value == [retention |-> FormatLogAge(ResolveRetention(db)),
                     interval  |-> FormatLogAge(n * t),
                     phase     |-> {FormatLogAge(p) : p \in {phase}}]
<1>1. n \in Nat \ {0}
  BY RotationConstants
<1>2. t \in SlotLengths /\ Plan.interval = n * t /\ Plan.replicas = n
  BY PlanIs DEF Plan
<1>3. q \in Nat \ {0} /\ t = q * Second /\ t \in Nat \ {0}
  <2>1. ASSUME NEW y \in SlotLengths
        PROVE  /\ Seconds(y) \in Nat \ {0} /\ y = Seconds(y) * Second
               /\ y \in Nat \ {0}
    BY <1>1, SlotIs DEF SlotLengths
  <2> QED BY <1>2, <2>1
<1>4. /\ phase \in Nat /\ n * t \in Nat
      /\ Seconds(phase) = k * q /\ Seconds(n * t) = n * q
      /\ k * q \in Nat /\ n * q \in Nat \ {0} /\ k * q < n * q
  BY <1>1, <1>2, PhaseIs
<1>5. PlanPodPurge(Plan, db, k).value \in {{}, {value}}
  BY <1>2 DEF PlanPodPurge, ComposePurge
<1> HIDE DEF t, q, phase
<1>6. /\ ParseLogAge(FormatLogAge(n * t)) = n * q
      /\ ParseLogAge(FormatLogAge(phase)) = k * q
  BY <1>4, LogAgeRoundTrip
<1>7. /\ value.phase = {FormatLogAge(phase)}
      /\ value.interval = FormatLogAge(n * t)
  OBVIOUS
<1> HIDE DEF value
<1>8. SlapdAccepts(k, value)
  BY <1>4, <1>6, <1>7 DEF SlapdAccepts
<1>9. Get({value}) = value
  BY OptionIs
<1>10. cfg[k] \in {{}, {value}}
  BY <1>5, <1>8, <1>9 DEF Converged, EnsureAccesslogPurge
<1>11. now % Second = 0 /\ (Seconds(now) - (k * q)) % (n * q) = 0
  <2>1. {ParseLogAge(a) : a \in value.phase} = {k * q}
    BY <1>6, <1>7
  <2>2. GetOr({ParseLogAge(a) : a \in value.phase}, 0) = k * q
    BY <2>1, OptionIs DEF GetOr
  <2>3. \A w \in cfg[k] : w = value
    BY <1>10
  <2> QED BY <1>6, <1>7, <2>2, <2>3 DEF Purges
<1> DEFINE z == Seconds(now)
<1>12. z \in Int /\ now = z * Second
  BY <1>11, GridConstants, Division DEF Seconds
<1> HIDE DEF z
<1>13. PICK i \in Int : z - (k * q) = i * (n * q)
  <2>1. ASSUME NEW m \in Nat \ {0}, NEW x \in Int, x % m = 0
        PROVE  \E i \in Int : x = i * m
    <3>1. x = (x \div m) * m /\ x \div m \in Int
      BY <2>1, Multiple, Division
    <3> QED BY <3>1
  <2>2. z - (k * q) \in Int
    BY <1>4, <1>12
  <2> QED BY <1>4, <1>11, <2>1, <2>2 DEF z
<1>14. z = (k + i * n) * q
  <2>1. (k + i * n) * q = k * q + i * (n * q) /\ i * (n * q) \in Int
    BY <1>1, <1>3
  <2>2. ASSUME NEW x \in Int, z - (k * q) = x
        PROVE  z = k * q + x
    BY <1>4, <1>12, <2>2
  <2> QED BY <1>13, <2>1, <2>2
<1>15. now = (k + i * n) * t
  <2>1. k + i * n \in Int
    BY <1>1
  <2>2. \A x \in Int : (x * q) * Second = x * (q * Second)
    BY <1>3, GridConstants
  <2> QED BY <1>3, <1>12, <1>14, <2>1, <2>2
<1> QED
  BY <1>15 DEF t

\* The phases of two pods are different beginnings of slots.
LEMMA SlotsDiffer ==
  ASSUME NEW n \in Nat \ {0}, NEW t \in Nat \ {0},
         NEW j \in 0 .. n - 1, NEW k \in 0 .. n - 1,
         NEW a \in Int, NEW b \in Int,
         (j + a * n) * t = (k + b * n) * t
  PROVE  j = k
<1>1. a * n \in Int /\ b * n \in Int /\ j + a * n \in Int /\ k + b * n \in Int
  OBVIOUS
<1>2. j + a * n = k + b * n
  <2>1. ASSUME NEW x \in Int, NEW y \in Int, x * t = y * t
        PROVE  x = y
    <3>1. 0 \in 0 .. t - 1 /\ x * t + 0 = y * t + 0
      BY <2>1
    <3> QED BY <3>1, OneSplit
  <2> QED BY <1>1, <2>1
<1>3. a * n + j = b * n + k
  BY <1>1, <1>2
<1> QED
  BY <1>3, OneSplit

\* While the writer's next move is more than a tick away, a tick of the clock
\* leaves its slot and brings the move nearer, over the wrap as well.
LEMMA TickInSlot ==
  ASSUME NEW t \in SlotLengths, NEW n \in Nat \ {0}, NEW lead \in Nat,
         Cycle % (n * t) = 0, NEW x \in 0 .. Cycle - 1,
         NextWriterMove(x, lead, t) > 1
  PROVE  /\ WriterSlot((x + 1) % Cycle, lead, t, n) = WriterSlot(x, lead, t, n)
         /\ NextWriterMove((x + 1) % Cycle, lead, t)
              = NextWriterMove(x, lead, t) - 1
<1>0. Cycle \in Nat \ {0}
  BY RotationConstants
<1>1. /\ RotationSlot((x + lead) + 1, t, n) = RotationSlot(x + lead, t, n)
      /\ NextSlotBoundary((x + lead) + 1, t) = NextSlotBoundary(x + lead, t) - 1
  <2>1. x + lead \in Int /\ 1 \in Nat /\ 1 < NextSlotBoundary(x + lead, t)
    BY <1>0, SlotIs DEF NextWriterMove
  <2> QED BY <2>1, SlotSteady
<1>2. CASE x + 1 < Cycle
  <2>1. x + 1 \in 0 .. Cycle - 1 /\ (x + 1) + lead = (x + lead) + 1
    BY <1>0, <1>2
  <2>2. (x + 1) % Cycle = x + 1
    BY <1>0, <2>1, SmallRemainder
  <2> QED BY <1>1, <2>1, <2>2 DEF WriterSlot, NextWriterMove
<1>3. CASE x + 1 = Cycle
  <2>1. 0 \in 0 .. Cycle - 1 /\ x + 1 = 0 + Cycle
        /\ (x + lead) + 1 = (0 + lead) + Cycle /\ 0 + lead \in Int
        /\ Cycle \in Nat
    BY <1>0, <1>3
  <2>2. (x + 1) % Cycle = 0
    BY <1>0, <2>1, SmallRemainder
  <2>3. /\ RotationSlot((0 + lead) + Cycle, t, n) = RotationSlot(0 + lead, t, n)
        /\ NextSlotBoundary((0 + lead) + Cycle, t) = NextSlotBoundary(0 + lead, t)
    BY <2>1, SlotWraps
  <2> QED BY <1>1, <2>1, <2>2, <2>3 DEF WriterSlot, NextWriterMove
<1> QED
  BY <1>0, <1>2, <1>3

\* The writer's slot at the beginning of pod k's slot is k, for a lead of less
\* than a slot.
LEMMA LeadsFromOwnSlot ==
  ASSUME NEW t \in SlotLengths, NEW n \in Nat \ {0}, NEW k \in 0 .. n - 1,
         NEW i \in Int, NEW lead \in Nat, lead < t
  PROVE  WriterSlot((k + i * n) * t, lead, t, n) = k
<1>0. t \in Nat \ {0} /\ lead \in 0 .. t - 1
  BY DEF SlotLengths
<1> DEFINE x == k + i * n
<1>1. x \in Int /\ x % n = k
  <2>1. i * n \in Int /\ x = i * n + k
    OBVIOUS
  <2>2. \A y \in Int : y = i * n + k => y % n = k
    BY SplitIs
  <2> QED BY <2>1, <2>2
<1> HIDE DEF x
<1>2. x * t + lead \in Int
  BY <1>0, <1>1
<1>3. (x * t + lead) \div t = x
  <2>1. \A y \in Int : y = x * t + lead => y \div t = x
    BY <1>0, <1>1, SplitIs
  <2> QED BY <1>2, <2>1
<1>4. RotationSlot(x * t + lead, t, n) = k
  BY <1>1, <1>2, <1>3, SlotIs
<1> QED
  BY <1>4 DEF WriterSlot, x

-----------------------------------------------------------------------------
(***************************************************************************)
(* The type invariant.                                                     *)
(***************************************************************************)

\* MaxWait bounds what a pass may ask for.
LEMMA MaxWaitIs ==
  /\ MaxWait \in Nat
  /\ Cycle <= MaxWait /\ RetryAfter <= MaxWait
  /\ CsnCheck <= MaxWait /\ HoldRetry <= MaxWait
<1>1. Bounds \cup {Cycle} = {RetryAfter, CsnCheck, HoldRetry, Cycle}
  BY DEF Bounds
<1>2. {RetryAfter, CsnCheck, HoldRetry, Cycle} \subseteq Nat
  BY RotationConstants
<1>3. ASSUME NEW a \in Nat, NEW b \in Nat, NEW c \in Nat, NEW d \in Nat
      PROVE  \E m \in {a, b, c, d} : a <= m /\ b <= m /\ c <= m /\ d <= m
  OBVIOUS
<1>4. \E m \in Bounds \cup {Cycle} : \A b \in Bounds \cup {Cycle} : b <= m
  BY <1>1, <1>2, <1>3
<1>5. /\ MaxWait \in Bounds \cup {Cycle}
      /\ \A b \in Bounds \cup {Cycle} : b <= MaxWait
  BY <1>4, Zenon DEF MaxWait
<1> QED
  BY <1>1, <1>2, <1>5

\* A value on a pod has the fields log_age_parse takes.
Aged(value) ==
  /\ value.retention \in LogAges /\ value.interval \in LogAges
  /\ \A age \in value.phase : age \in LogAges

\* composePurge writes such values.
LEMMA ComposedAged ==
  ASSUME NEW keep \in Int, NEW interval \in Int, NEW phase \in SUBSET Nat
  PROVE  \A value \in ComposePurge(keep, interval, phase) : Aged(value)
<1>1. SUFFICES ASSUME keep > 0, interval > 0
               PROVE  Aged([retention |-> FormatLogAge(keep),
                            interval  |-> FormatLogAge(interval),
                            phase     |-> {FormatLogAge(p) : p \in phase}])
  BY DEF ComposePurge
<1>2. keep \in Nat /\ interval \in Nat
  BY <1>1
<1> QED
  BY <1>2, LogAgeRoundTrip DEF Aged

\* So planPodPurge offers such values only.
LEMMA PlannedAged ==
  ASSUME replicas \in 1 .. MaxN, decl \in Declarations, db \in Retentions,
         NEW k \in Ordinals
  PROVE  \A value \in PlanPodPurge(Plan, db, k).value
                        \cup PlanPodPurge(Plan, db, k).fallback : Aged(value)
<1> DEFINE keep  == ResolveRetention(db)
           phase == IF Plan.phasesActive
                      THEN {PurgePhase(k, Plan.replicas, Plan.slotLength)}
                      ELSE {}
<1>1. keep \in Int
  BY DeclaredTypes, OptionIs, GridConstants DEF ResolveRetention
<1>2. Plan.interval \in Int
  BY PlanIs DEF Plan
<1>3. phase \in SUBSET Nat
  <2>1. CASE Plan.phasesActive
    <3>1. Plan.slotLength \in Nat /\ k \in Nat
      BY <2>1, PlanIs, RotationConstants DEF Plan, SlotLengths, Ordinals
    <3>2. PurgePhase(k, Plan.replicas, Plan.slotLength) \in Nat
      BY <3>1 DEF PurgePhase
    <3> QED BY <2>1, <3>2
  <2> QED BY <2>1
<1>4. /\ PlanPodPurge(Plan, db, k).value = ComposePurge(keep, Plan.interval, phase)
      /\ PlanPodPurge(Plan, db, k).fallback
           \in {{}, ComposePurge(keep, Plan.interval, {})}
  BY DEF PlanPodPurge
<1> HIDE DEF keep, phase
<1>5. /\ \A value \in ComposePurge(keep, Plan.interval, phase) : Aged(value)
      /\ \A value \in ComposePurge(keep, Plan.interval, {}) : Aged(value)
  BY <1>1, <1>2, <1>3, ComposedAged
<1> QED
  BY <1>4, <1>5

\* A divisor of a positive number is at most that number.
LEMMA DivisorBound ==
  ASSUME NEW c \in Nat \ {0}, NEW n \in Nat \ {0}, NEW t \in Nat \ {0},
         c % (n * t) = 0
  PROVE  t <= c
<1>1. n * t \in Nat \ {0} /\ t <= n * t
  <2>1. PICK i \in Nat : n = i + 1
    <3>1. n - 1 \in Nat /\ n = (n - 1) + 1
      OBVIOUS
    <3> QED BY <3>1
  <2>2. n * t = i * t + t /\ i * t \in Nat
    BY <2>1
  <2> QED BY <2>2
<1>2. ASSUME NEW m \in Nat \ {0}, c % m = 0
      PROVE  m <= c
  <2>1. CASE c < m
    <3>1. c \in 0 .. m - 1
      BY <2>1
    <3>2. c % m = c
      BY <3>1, SmallRemainder
    <3> QED BY <1>2, <3>2
  <2> QED BY <2>1
<1> QED
  BY <1>1, <1>2

\* The requeue a pass asks for: within the bounds and, while the writer
\* rotates, never zero and never beyond the writer's next move.
LEMMA RequeueIs ==
  ASSUME replicas \in 1 .. MaxN, decl \in Declarations, now \in Nat,
         NEW up \in BOOLEAN, NEW w, w = RequeueAfterFor(up, RotationRequeue(Plan))
  PROVE  /\ w \in 0 .. MaxWait
         /\ Plan.writerActive =>
              w \in 1 .. NextWriterMove(now, Plan.leadTime, Plan.slotLength)
<1> DEFINE move == NextWriterMove(now, Plan.leadTime, Plan.slotLength)
           base == IF ~up THEN RetryAfter ELSE IF Replicated THEN CsnCheck ELSE 0
<1>1. base \in 0 .. MaxWait
  BY MaxWaitIs, RotationConstants
<1>2. Plan.writerActive => move \in Nat \ {0} /\ move <= MaxWait
  <2> SUFFICES ASSUME Plan.writerActive PROVE move \in Nat \ {0} /\ move <= MaxWait
    OBVIOUS
  <2>1. /\ Plan.slotLength \in SlotLengths /\ Plan.leadTime \in Nat
        /\ Cycle % (replicas * Plan.slotLength) = 0
    BY PlanIs DEF Plan
  <2>2. replicas \in Nat \ {0} /\ Plan.slotLength \in Nat \ {0}
        /\ Cycle \in Nat \ {0}
    BY <2>1, RotationConstants DEF SlotLengths
  <2>3. Plan.slotLength <= Cycle
    BY <2>1, <2>2, DivisorBound
  <2>4. now + Plan.leadTime \in Int
    BY <2>1
  <2>5. move \in 1 .. Plan.slotLength
    BY <2>1, <2>2, <2>4, SlotIs DEF NextWriterMove
  <2> QED BY <2>2, <2>3, <2>5, MaxWaitIs
<1>3. Plan.writerActive \in BOOLEAN
  BY PlanIs DEF Plan
<1> HIDE DEF move, base
<1>4. w = MergeRequeue(base, IF Plan.writerActive THEN move ELSE 0)
  BY DEF RequeueAfterFor, RotationRequeue, move, base
<1>5. CASE Plan.writerActive
  <2>1. w = MergeRequeue(base, move)
    BY <1>4, <1>5
  <2>2. w \in 1 .. move
    BY <1>1, <1>2, <1>5, <2>1, MaxWaitIs DEF MergeRequeue
  <2> QED BY <1>2, <1>5, <2>2, MaxWaitIs DEF move
<1>6. CASE ~Plan.writerActive
  <2>1. w = MergeRequeue(base, 0)
    BY <1>4, <1>6
  <2>2. w \in 0 .. MaxWait
    BY <1>1, <2>1, MaxWaitIs DEF MergeRequeue
  <2> QED BY <1>6, <2>2
<1> QED
  BY <1>3, <1>5, <1>6

\* The Service a pass leaves: pinned to a pod of the cluster that is ready, on
\* target whenever the pods could be listed, and unpinned without rotation.
WriteSlot == WriterSlot(now, Plan.leadTime, Plan.slotLength, replicas)
Target    == WriteTarget(WriteSlot, replicas, Plan.slotsFromWriteToPurge, ready)
Selectors == {NoService, Fleet} \cup {Writer(k) : k \in Ordinals}

\* The slot of the writer is a pod of the declared size.
LEMMA WriteSlotIs ==
  ASSUME replicas \in 1 .. MaxN, decl \in Declarations, now \in Nat,
         Plan.writerActive
  PROVE  WriteSlot \in 0 .. replicas - 1
<1>1. Plan.slotLength \in SlotLengths /\ Plan.leadTime \in Nat
  BY PlanIs DEF Plan
<1>2. replicas \in Nat \ {0} /\ now + Plan.leadTime \in Int
  BY <1>1, RotationConstants
<1>3. WriteSlot = ((now + Plan.leadTime) \div Plan.slotLength) % replicas
  BY <1>1, <1>2, SlotIs DEF WriteSlot, WriterSlot
<1>4. (now + Plan.leadTime) \div Plan.slotLength \in Int
  BY <1>1, <1>2, Division DEF SlotLengths
<1> QED
  BY <1>2, <1>3, <1>4, Division

\* writeService selects everyone, or one pod, and that one by the plan.
LEMMA WriteServiceIs ==
  ASSUME replicas \in 1 .. MaxN, decl \in Declarations, now \in Nat,
         ready \subseteq Ordinals, selector \in Selectors,
         NEW listed \in SUBSET Ordinals, NEW s, s = WriteService(Plan, listed)
  PROVE  /\ s \in Selectors
         /\ ~Plan.writerActive => s.kind # "pod"
         /\ Plan.writerActive /\ Candidates # {} /\ listed = Ordinals =>
              /\ s.kind = "pod" /\ s.pod \in Target /\ s.pod \in Candidates
<1>0. Plan.writerActive \in BOOLEAN
  BY PlanIs DEF Plan
<1>1. CASE ~Plan.writerActive
  <2>1. s = RetireWriteService(selector)
    BY <1>1 DEF WriteService
  <2> QED
    BY <1>1, <2>1 DEF RetireWriteService, Selectors, Fleet, NoService, Writer
<1>2. CASE Plan.writerActive
  <2> DEFINE target == WriteTarget(WriteSlot, replicas,
                                   Plan.slotsFromWriteToPurge, ready \cap listed)
  <2>1. Plan.replicas = replicas /\ Plan.slotsFromWriteToPurge \in Nat \ {0}
    BY <1>2, PlanIs DEF Plan
  <2>2. s = IF target = {} THEN selector ELSE Writer(Get(target))
    BY <1>2, <2>1 DEF WriteService, Eligible, WriteSlot
  <2>3. replicas \in Nat \ {0} /\ WriteSlot \in 0 .. replicas - 1
    BY <1>2, WriteSlotIs, RotationConstants
  <2>4. /\ target \subseteq (ready \cap listed) \cap 0 .. replicas - 1
        /\ (ready \cap listed) \cap 0 .. replicas - 1 # {} => target # {}
    BY <2>1, <2>3, TargetIs
  <2>5. listed = Ordinals => target = Target /\ ready \cap listed = ready
    BY DEF Target
  <2> HIDE DEF target
  <2>6. target # {} => Get(target) \in target
    BY OptionIs
  <2>7. target # {} => s = Writer(Get(target)) /\ Get(target) \in Ordinals
    BY <2>2, <2>4, <2>6
  <2>8. s \in Selectors
    BY <2>2, <2>7 DEF Selectors
  <2>9. Candidates # {} /\ listed = Ordinals =>
          s.kind = "pod" /\ s.pod \in Target /\ s.pod \in Candidates
    <3> SUFFICES ASSUME Candidates # {}, listed = Ordinals
                 PROVE  s.kind = "pod" /\ s.pod \in Target /\ s.pod \in Candidates
      OBVIOUS
    <3>1. target = Target /\ target # {} /\ target \subseteq Candidates
      BY <2>4, <2>5 DEF Candidates
    <3>2. s = Writer(Get(target)) /\ Get(target) \in target
      BY <2>6, <2>7, <3>1
    <3>3. s.kind = "pod" /\ s.pod = Get(target)
      BY <3>2 DEF Writer
    <3> QED BY <3>1, <3>2, <3>3
  <2> QED BY <1>2, <2>8, <2>9
<1> QED
  BY <1>0, <1>1, <1>2

(***************************************************************************)
(* TypeOK, with its parts named.                                           *)
(***************************************************************************)
Declared  == /\ now \in 0 .. Cycle - 1
             /\ replicas \in 1 .. MaxN /\ decl \in Declarations
             /\ db \in Retentions /\ ready \subseteq Ordinals
Flags     == /\ running \in BOOLEAN /\ pending \in BOOLEAN
             /\ alive \in BOOLEAN /\ held \in BOOLEAN
PodValues == /\ DOMAIN cfg = Ordinals
             /\ \A k \in Ordinals : \A value \in cfg[k] : Aged(value)

\* The type invariant, in the parts the actions disturb.
LEMMA TypeParts ==
  TypeOK <=> /\ Declared /\ Flags /\ PodValues
             /\ selector \in Selectors /\ wait \in 0 .. MaxWait
BY DEF TypeOK, Declared, Flags, PodValues, Selectors, Aged

\* Initially, and after every step, by action.
LEMMA TypeInit == Init => TypeOK
<1> SUFFICES ASSUME Init PROVE TypeOK
  OBVIOUS
<1>1. Declared /\ Flags
  <2>1. replicas \in 1 .. MaxN /\ ready = 0 .. replicas - 1 /\ MaxN \in Nat
    BY RotationConstants DEF Init
  <2>2. ready \subseteq Ordinals
    BY <2>1 DEF Ordinals
  <2>3. now = 0 /\ 0 \in 0 .. Cycle - 1
    BY RotationConstants DEF Init
  <2> QED BY <2>1, <2>2, <2>3 DEF Init, Declared, Flags
<1>2. PodValues
  BY DEF Init, PodValues
<1>3. selector \in Selectors /\ wait \in 0 .. MaxWait
  BY MaxWaitIs DEF Init, Selectors
<1> QED
  BY <1>1, <1>2, <1>3, TypeParts

\* A listing of pods names pods.
LEMMA ListingsAre == Listings \subseteq SUBSET Ordinals
BY DEF Listings

\* Every step keeps the types.
LEMMA TypeStep == TypeOK /\ [Next]_vars => TypeOK'
<1> SUFFICES ASSUME TypeOK, [Next]_vars PROVE TypeOK'
  OBVIOUS
<1>1. /\ Declared /\ Flags /\ PodValues
      /\ selector \in Selectors /\ wait \in 0 .. MaxWait /\ now \in Nat
  BY TypeParts, RotationConstants DEF Declared
<1>2. SUFFICES Declared' /\ Flags' /\ PodValues'
               /\ selector' \in Selectors /\ wait' \in 0 .. MaxWait
  <2>1. Ordinals' = Ordinals /\ Selectors' = Selectors /\ MaxWait' = MaxWait
    BY DEF Ordinals, Selectors, MaxWait, Bounds, NoService, Fleet, Writer
  <2> QED BY <1>2, <2>1 DEF TypeOK, Declared, Flags, PodValues, Selectors, Aged
<1>3. ASSUME NEW listed \in SUBSET Ordinals
      PROVE  WriteService(Plan, listed) \in Selectors
  BY <1>1, WriteServiceIs DEF Declared
<1>4. CASE Pass
  <2>1. Declared'
    BY <1>1, <1>4 DEF Pass, Declared
  <2>2. Flags'
    BY <1>1, <1>4 DEF Pass, Flags, AllReady
  <2>3. PodValues'
    BY <1>1, <1>4 DEF Pass, PodValues
  <2>4. selector' \in Selectors
    BY <1>3, <1>4, ListingsAre DEF Pass
  <2>5. wait' \in 0 .. MaxWait
    <3>1. AllReady \in BOOLEAN
      BY DEF AllReady
    <3>2. RequeueAfterFor(AllReady, RotationRequeue(Plan)) \in 0 .. MaxWait
      BY <1>1, <3>1, RequeueIs DEF Declared
    <3> QED BY <1>1, <1>4, <3>2, MaxWaitIs, RotationConstants DEF Pass, Flags
  <2> QED BY <2>1, <2>2, <2>3, <2>4, <2>5
<1>5. CASE PassDies
  BY <1>1, <1>3, <1>5 DEF PassDies, Declared, Flags, PodValues
<1>6. CASE \E reached \in SUBSET Candidates : ApplyToPods(reached)
  <2>1. PICK reached \in SUBSET Candidates : ApplyToPods(reached)
    BY <1>6
  <2>2. cfg' = [k \in Ordinals |->
                  IF k \in reached
                    THEN EnsureAccesslogPurge(k, PlanPodPurge(Plan, db, k), cfg[k])
                    ELSE cfg[k]]
    BY <2>1 DEF ApplyToPods
  <2>3. ASSUME NEW k \in Ordinals
        PROVE  \A value \in cfg'[k] : Aged(value)
    <3>1. cfg'[k] \in {PlanPodPurge(Plan, db, k).value,
                       PlanPodPurge(Plan, db, k).fallback, cfg[k]}
      BY <2>2 DEF EnsureAccesslogPurge
    <3>2. \A value \in PlanPodPurge(Plan, db, k).value
                         \cup PlanPodPurge(Plan, db, k).fallback : Aged(value)
      BY <1>1, PlannedAged DEF Declared
    <3> QED BY <1>1, <3>1, <3>2 DEF PodValues
  <2>4. PodValues'
    <3>1. DOMAIN cfg' = Ordinals
      BY <2>2
    <3> QED BY <2>3, <3>1 DEF PodValues, Ordinals, Aged
  <2>5. UNCHANGED <<now, replicas, decl, db, ready, held, selector, running,
                    wait, pending, alive>>
    BY <2>1 DEF ApplyToPods
  <2> QED BY <1>1, <2>4, <2>5 DEF Declared, Flags
<1>7. CASE Tick
  <2>1. now' \in 0 .. Cycle - 1
    <3>1. now + 1 \in Int /\ Cycle \in Nat \ {0}
      BY <1>1, RotationConstants
    <3>2. (now + 1) % Cycle \in 0 .. Cycle - 1
      BY <3>1, Division
    <3> QED BY <1>7, <3>2 DEF Tick
  <2>2. wait' \in 0 .. MaxWait
    BY <1>1, <1>7, MaxWaitIs DEF Tick
  <2>3. pending' \in BOOLEAN
    BY <1>1, <1>7 DEF Tick, Flags
  <2>4. UNCHANGED <<replicas, decl, db, ready, held, selector, running, alive, cfg>>
    BY <1>7 DEF Tick
  <2> QED BY <1>1, <2>1, <2>2, <2>3, <2>4 DEF Declared, Flags, PodValues
<1>8. CASE Crash
  BY <1>1, <1>8 DEF Crash, Declared, Flags, PodValues
<1>9. CASE Restart
  BY <1>1, <1>9, MaxWaitIs DEF Restart, Declared, Flags, PodValues
<1>10. CASE \E k \in Ordinals : PodFlaps(k)
  <2>1. PICK k \in Ordinals : PodFlaps(k)
    BY <1>10
  <2>2. ready' \subseteq Ordinals
    BY <1>1, <2>1 DEF PodFlaps, Declared
  <2> QED BY <1>1, <2>1, <2>2 DEF PodFlaps, Declared, Flags, PodValues, Ordinals
<1>11. CASE Edit
  BY <1>1, <1>11 DEF Edit, Declared, Flags, PodValues
<1>12. CASE Hold
  BY <1>1, <1>12 DEF Hold, Declared, Flags, PodValues
<1>13. CASE UNCHANGED vars
  BY <1>1, <1>13 DEF vars, Declared, Flags, PodValues
<1> QED
  BY <1>4, <1>5, <1>6, <1>7, <1>8, <1>9, <1>10, <1>11, <1>12, <1>13 DEF Next

\* Every value on a pod is one log_age_parse takes, every Service the endpoint
\* could select exists, and no requeue exceeds the bounds.
THEOREM TypeHolds == Spec => []TypeOK
<1> QED
  BY TypeInit, TypeStep, PTL DEF Spec

-----------------------------------------------------------------------------
(***************************************************************************)
(* The invariant.                                                          *)
(***************************************************************************)

\* An operator that is up and has answered every event sleeps no further than
\* the writer's next move: until then the slot is that of its last pass.
Sleeps ==
  Settled /\ Plan.writerActive /\ ~held =>
    wait \in 1 .. NextWriterMove(now, Plan.leadTime, Plan.slotLength)

\* While a pod is ready the endpoint names a ready one, and outside a restore's
\* preflight it names the target of the present slot.
Endpoint ==
  Settled /\ Plan.writerActive /\ Candidates # {} =>
    /\ selector.kind = "pod" /\ selector.pod \in Candidates
    /\ ~held => selector.pod \in Target

\* A step after which the operator is settled is a pass, or it leaves the plan,
\* the pods and the endpoint alone and only the clock may tick.
LEMMA SettledStep ==
  ASSUME TypeOK, [Next]_vars, Settled'
  PROVE  \/ Pass
         \/ /\ Settled
            /\ UNCHANGED <<replicas, decl, ready, held, selector>>
            /\ \/ UNCHANGED <<now, wait>>
               \/ Tick /\ wait # 1
<1>1. Flags /\ wait \in 0 .. MaxWait
  BY TypeParts
<1>2. alive' = TRUE /\ pending' = FALSE
  <2>1. Flags'
    BY TypeStep, TypeParts DEF TypeOK, Flags
  <2> QED BY <2>1 DEF Settled, Flags
<1>3. CASE PassDies
  BY <1>2, <1>3 DEF PassDies
<1>4. CASE \E reached \in SUBSET Candidates : ApplyToPods(reached)
  <2>1. UNCHANGED <<now, replicas, decl, ready, held, selector, wait, pending,
                    alive>>
    BY <1>4 DEF ApplyToPods
  <2> QED BY <1>2, <2>1 DEF Settled
<1>5. CASE Tick
  <2>0. /\ alive' = alive /\ pending' = (pending \/ (alive /\ wait = 1))
        /\ UNCHANGED <<replicas, decl, ready, held, selector>>
    BY <1>5 DEF Tick
  <2>1. /\ alive = TRUE /\ (pending \/ (alive /\ wait = 1)) = FALSE
        /\ UNCHANGED <<replicas, decl, ready, held, selector>>
    BY <1>2, <2>0, Zenon
  <2>2. ~pending /\ wait # 1
    BY <2>1, Zenon
  <2> QED BY <1>5, <2>1, <2>2 DEF Settled
<1>6. CASE Crash
  BY <1>2, <1>6 DEF Crash
<1>7. CASE Restart
  BY <1>2, <1>7 DEF Restart
<1>8. CASE \E k \in Ordinals : PodFlaps(k)
  BY <1>2, <1>8 DEF PodFlaps
<1>9. CASE Edit
  BY <1>2, <1>9 DEF Edit
<1>10. CASE Hold
  BY <1>2, <1>10 DEF Hold
<1>11. CASE UNCHANGED vars
  BY <1>2, <1>11 DEF vars, Settled
<1> QED
  BY <1>3, <1>4, <1>5, <1>6, <1>7, <1>8, <1>9, <1>10, <1>11 DEF Next

\* OffUnpinsWriter is inductive as it stands.
LEMMA OffStep == TypeOK /\ OffUnpinsWriter /\ [Next]_vars => OffUnpinsWriter'
<1> SUFFICES ASSUME TypeOK, OffUnpinsWriter, [Next]_vars, Settled',
                    ~(Plan.writerActive)'
             PROVE  (selector.kind # "pod")'
  BY DEF OffUnpinsWriter
<1>1. CASE Pass
  <2>1. PICK listed \in SUBSET Ordinals : selector' = WriteService(Plan, listed)
    BY <1>1, ListingsAre DEF Pass
  <2>2. ~Plan.writerActive
    BY <1>1 DEF Pass, Plan
  <2>3. Declared /\ selector \in Selectors /\ now \in Nat
    BY TypeParts, RotationConstants DEF Declared
  <2>4. WriteService(Plan, listed).kind # "pod"
    BY <2>2, <2>3, WriteServiceIs DEF Declared
  <2> QED BY <2>1, <2>4
<1>2. CASE /\ Settled
           /\ UNCHANGED <<replicas, decl, ready, held, selector>>
  BY <1>2 DEF OffUnpinsWriter, Plan
<1> QED
  BY <1>1, <1>2, SettledStep

\* Every step keeps the wake-ups.
LEMMA SleepsStep == TypeOK /\ Sleeps /\ [Next]_vars => Sleeps'
<1> SUFFICES ASSUME TypeOK, Sleeps, [Next]_vars, Settled',
                    (Plan.writerActive)', ~held'
             PROVE  (wait \in 1 .. NextWriterMove(now, Plan.leadTime,
                                                  Plan.slotLength))'
  BY DEF Sleeps
<1>0. Declared /\ now \in Nat /\ wait \in Nat
  BY TypeParts, RotationConstants, MaxWaitIs DEF Declared
<1>1. CASE Pass
  <2>1. Plan' = Plan /\ now' = now /\ held' = held
    BY <1>1 DEF Pass, Plan
  <2>2. wait' = RequeueAfterFor(AllReady, RotationRequeue(Plan))
    BY <1>1, <2>1 DEF Pass
  <2>3. AllReady \in BOOLEAN
    BY DEF AllReady
  <2>4. wait' \in 1 .. NextWriterMove(now, Plan.leadTime, Plan.slotLength)
    BY <1>0, <2>1, <2>2, <2>3, RequeueIs DEF Declared
  <2> QED BY <2>1, <2>4
<1>2. CASE /\ Settled
           /\ UNCHANGED <<replicas, decl, ready, held, selector>>
           /\ \/ UNCHANGED <<now, wait>>
              \/ Tick /\ wait # 1
  <2>1. Plan' = Plan /\ Plan.writerActive /\ ~held
    BY <1>2 DEF Plan
  <2>2. wait \in 1 .. NextWriterMove(now, Plan.leadTime, Plan.slotLength)
    BY <1>2, <2>1 DEF Sleeps
  <2>3. CASE UNCHANGED <<now, wait>>
    BY <2>1, <2>2, <2>3
  <2>4. CASE Tick /\ wait # 1
    <3>1. /\ Plan.slotLength \in SlotLengths /\ Plan.leadTime \in Nat
          /\ Cycle % (replicas * Plan.slotLength) = 0
          /\ replicas \in Nat \ {0}
      BY <1>0, <2>1, PlanIs, RotationConstants DEF Plan, Declared
    <3>2. NextWriterMove(now, Plan.leadTime, Plan.slotLength) \in Int
      BY <1>0, <3>1, SlotIs DEF NextWriterMove
    <3>3. NextWriterMove(now, Plan.leadTime, Plan.slotLength) > 1
      BY <1>0, <2>2, <2>4, <3>2
    <3>4. NextWriterMove((now + 1) % Cycle, Plan.leadTime, Plan.slotLength)
            = NextWriterMove(now, Plan.leadTime, Plan.slotLength) - 1
      BY <1>0, <3>1, <3>3, TickInSlot DEF Declared
    <3>5. now' = (now + 1) % Cycle /\ wait' = wait - 1
      BY <1>0, <1>2, <2>2, <2>4, <3>2 DEF Tick, Settled
    <3> QED BY <1>0, <2>1, <2>2, <2>4, <3>2, <3>4, <3>5
  <2> QED BY <1>2, <2>3, <2>4
<1> QED
  BY <1>1, <1>2, SettledStep

\* Every step keeps what is known of the endpoint.
LEMMA EndpointStep ==
  ASSUME "blind" \notin Environment
  PROVE  TypeOK /\ Sleeps /\ Endpoint /\ [Next]_vars => Endpoint'
<1> SUFFICES ASSUME TypeOK, Sleeps, Endpoint, [Next]_vars, Settled',
                    (Plan.writerActive)', (Candidates # {})'
             PROVE  (/\ selector.kind = "pod" /\ selector.pod \in Candidates
                     /\ ~held => selector.pod \in Target)'
  BY DEF Endpoint
<1>0. Declared /\ selector \in Selectors /\ now \in Nat /\ wait \in Nat
  BY TypeParts, RotationConstants, MaxWaitIs DEF Declared
<1>1. CASE Pass
  <2>1. selector' = WriteService(Plan, Ordinals)
    BY <1>1 DEF Pass, Listings
  <2>2. Plan' = Plan /\ now' = now /\ ready' = ready /\ replicas' = replicas
    BY <1>1 DEF Pass, Plan
  <2>3. Candidates' = Candidates /\ Target' = Target
    BY <2>2 DEF Candidates, Target, WriteSlot
  <2>4. Plan.writerActive /\ Candidates # {}
    BY <2>2, <2>3
  <2>5. WriteService(Plan, Ordinals).kind = "pod"
        /\ WriteService(Plan, Ordinals).pod \in Target
        /\ WriteService(Plan, Ordinals).pod \in Candidates
    BY <1>0, <2>4, WriteServiceIs DEF Declared
  <2> QED BY <2>1, <2>3, <2>5
<1>2. CASE /\ Settled
           /\ UNCHANGED <<replicas, decl, ready, held, selector>>
           /\ \/ UNCHANGED <<now, wait>>
              \/ Tick /\ wait # 1
  <2>1. /\ Plan' = Plan /\ Candidates' = Candidates
        /\ selector' = selector /\ held' = held
    BY <1>2 DEF Plan, Candidates
  <2>2. /\ selector.kind = "pod" /\ selector.pod \in Candidates
        /\ ~held => selector.pod \in Target
    BY <1>2, <2>1 DEF Endpoint
  <2>3. ASSUME ~held PROVE Target' = Target
    <3>1. SUFFICES WriteSlot' = WriteSlot
      BY <1>2, <2>1, <3>1 DEF Target
    <3>2. CASE UNCHANGED <<now, wait>>
      BY <1>2, <2>1, <3>2 DEF WriteSlot
    <3>3. CASE Tick /\ wait # 1
      <4>1. /\ Plan.slotLength \in SlotLengths /\ Plan.leadTime \in Nat
            /\ Cycle % (replicas * Plan.slotLength) = 0
            /\ replicas \in Nat \ {0}
        BY <1>0, <2>1, PlanIs, RotationConstants DEF Plan, Declared
      <4>2. NextWriterMove(now, Plan.leadTime, Plan.slotLength) \in Int
        BY <1>0, <4>1, SlotIs DEF NextWriterMove
      <4>3. NextWriterMove(now, Plan.leadTime, Plan.slotLength) > 1
        BY <1>0, <1>2, <2>1, <2>3, <3>3, <4>2 DEF Sleeps
      <4>4. WriterSlot((now + 1) % Cycle, Plan.leadTime, Plan.slotLength, replicas)
              = WriterSlot(now, Plan.leadTime, Plan.slotLength, replicas)
        BY <1>0, <4>1, <4>3, TickInSlot DEF Declared
      <4>5. now' = (now + 1) % Cycle
        BY <3>3 DEF Tick
      <4> QED BY <1>2, <2>1, <4>4, <4>5 DEF WriteSlot
    <3> QED BY <1>2, <3>2, <3>3
  <2> QED BY <2>1, <2>2, <2>3
<1> QED
  BY <1>1, <1>2, SettledStep

-----------------------------------------------------------------------------
(***************************************************************************)
(* The theorems.                                                           *)
(***************************************************************************)

\* Turning the rotation off, or declaring it so that it is refused, leaves no
\* pod pinned as the writer once a pass has seen it, whatever dies or is edited
\* in between.
THEOREM OffUnpinsWriterHolds == Spec => []OffUnpinsWriter
<1>1. Init => OffUnpinsWriter
  BY DEF Init, OffUnpinsWriter, Settled
<1> QED
  BY <1>1, TypeHolds, OffStep, PTL DEF Spec

\* The requeue of requeueAfterFor always lands before the writer's slot
\* changes, for every slot length, lead and size, over edits, crashes and
\* passes that could not list the pods.
THEOREM WakesForNextMoveHolds == Spec => []WakesForNextMove
<1>1. Init => Sleeps
  BY DEF Init, Sleeps, Settled
<1>2. TypeOK /\ Sleeps => WakesForNextMove
  <2> SUFFICES ASSUME TypeOK, Sleeps, Settled, Plan.writerActive, ~held,
                      NEW i \in 0 .. wait - 1
               PROVE  /\ wait > 0
                      /\ WriterSlot(now + i, Plan.leadTime, Plan.slotLength, replicas)
                           = WriterSlot(now, Plan.leadTime, Plan.slotLength, replicas)
    <3>1. TypeOK /\ Sleeps /\ Settled /\ Plan.writerActive /\ ~held => wait > 0
      BY TypeParts, MaxWaitIs DEF Sleeps
    <3> QED BY <3>1 DEF WakesForNextMove
  <2>1. Declared /\ now \in Nat /\ wait \in Nat
    BY TypeParts, RotationConstants, MaxWaitIs DEF Declared
  <2>2. /\ Plan.slotLength \in SlotLengths /\ Plan.leadTime \in Nat
        /\ replicas \in Nat \ {0}
    BY <2>1, PlanIs, RotationConstants DEF Plan, Declared
  <2> DEFINE x == now + Plan.leadTime
  <2>3. x \in Int /\ i \in Nat /\ (now + i) + Plan.leadTime = x + i
    BY <2>1, <2>2
  <2>4. NextSlotBoundary(x, Plan.slotLength) \in Int
    BY <2>2, <2>3, SlotIs
  <2>5. wait \in 1 .. NextSlotBoundary(x, Plan.slotLength)
    BY DEF Sleeps, NextWriterMove
  <2> HIDE DEF x
  <2>6. i < NextSlotBoundary(x, Plan.slotLength)
    BY <2>1, <2>4, <2>5
  <2>7. RotationSlot(x + i, Plan.slotLength, replicas)
          = RotationSlot(x, Plan.slotLength, replicas)
    BY <2>2, <2>3, <2>6, SlotSteady
  <2> QED BY <2>1, <2>3, <2>4, <2>5, <2>7 DEF WriterSlot, x
<1> QED
  BY <1>1, <1>2, TypeHolds, SleepsStep, PTL DEF Spec

\* Two pods whose slapd knows phases and which hold the values of the plan
\* never begin to purge at one instant, for every number of pods, slot length
\* and retention, the rendering as "[ddd+]hh:mm:ss" included.
THEOREM StaggeredPurgesHolds == Spec => []StaggeredPurges
<1>1. TypeOK => StaggeredPurges
  <2> SUFFICES ASSUME TypeOK, Plan.phasesActive,
                      NEW j \in 0 .. replicas - 1, NEW k \in 0 .. replicas - 1,
                      {j, k} \subseteq Patched, Converged(j), Converged(k),
                      Purges(j), Purges(k)
               PROVE  j = k
    BY DEF StaggeredPurges
  <2>1. Declared /\ now \in Nat
    BY TypeParts, RotationConstants DEF Declared
  <2>2. PICK a \in Int : now = (j + a * replicas) * Plan.slotLength
    BY <2>1, PurgesInOwnSlot DEF Declared
  <2>3. PICK b \in Int : now = (k + b * replicas) * Plan.slotLength
    BY <2>1, PurgesInOwnSlot DEF Declared
  <2>4. replicas \in Nat \ {0} /\ Plan.slotLength \in Nat \ {0}
    BY <2>1, PlanIs, RotationConstants DEF Plan, Declared, SlotLengths
  <2> QED BY <2>2, <2>3, <2>4, SlotsDiffer
<1> QED
  BY <1>1, TypeHolds, PTL

\* As long as every pass can list the pods: whenever a pod is ready the
\* endpoint selects a ready one, and with a lead of less than a slot no pod
\* begins to purge while it is the writer, unless no other pod is ready.
THEOREM WriterReadyAndQuietHolds ==
  ASSUME "blind" \notin Environment
  PROVE  Spec => []WriterReadyAndQuiet
<1>1. Init => Sleeps /\ Endpoint
  BY DEF Init, Sleeps, Endpoint, Settled
<1>2. TypeOK /\ Endpoint => WriterReadyAndQuiet
  <2> SUFFICES ASSUME TypeOK, Endpoint, Settled, Plan.writerActive,
                      Plan.phasesActive, ~held, Plan.leadTime < Plan.slotLength,
                      NEW k \in Candidates \cap Patched,
                      Purges(k), Converged(k), selector = Writer(k)
               PROVE  Candidates = {k}
    BY DEF WriterReadyAndQuiet, Endpoint
  <2>1. Declared /\ now \in Nat
    BY TypeParts, RotationConstants DEF Declared
  <2>2. /\ Plan.slotLength \in SlotLengths /\ Plan.leadTime \in Nat
        /\ Plan.slotsFromWriteToPurge \in Nat \ {0} /\ replicas \in Nat \ {0}
    BY <2>1, PlanIs, RotationConstants DEF Plan, Declared
  <2>3. k \in 0 .. replicas - 1 /\ k \in Patched
    BY DEF Candidates
  <2>4. PICK i \in Int : now = (k + i * replicas) * Plan.slotLength
    BY <2>1, <2>3, PurgesInOwnSlot DEF Declared
  <2>5. WriteSlot = k
    BY <2>2, <2>3, <2>4, LeadsFromOwnSlot DEF WriteSlot
  <2>6. k \in Target
    BY DEF Endpoint, Writer
  <2>7. ready \cap 0 .. replicas - 1 = {k}
    BY <2>2, <2>3, <2>5, <2>6, TargetIs DEF Target
  <2> QED BY <2>7 DEF Candidates
<1>3. Spec => [](TypeOK /\ Sleeps /\ Endpoint)
  BY <1>1, TypeInit, TypeStep, SleepsStep, EndpointStep, PTL DEF Spec
<1> QED
  BY <1>2, <1>3, PTL
=============================================================================
