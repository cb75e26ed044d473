------------------------ MODULE BackupScheduleProofs ------------------------
(***************************************************************************)
(* Proofs about BackupSchedule: what the cron loop finds due, and what     *)
(* retention deletes.                                                      *)
(***************************************************************************)
EXTENDS BackupSchedule, FiniteSetTheorems, WellFoundedInduction, TLAPS

-----------------------------------------------------------------------------
(***************************************************************************)
(* Ticks, and the one the loop of dueTime stops at.                        *)
(***************************************************************************)

\* The least number principle, for a set.
LEMMA LeastElement ==
  ASSUME NEW K \in SUBSET Nat, K # {}
  PROVE  \E k \in K : \A i \in K : k <= i
<1> DEFINE below == {ss \in Nat \X Nat : ss[1] < ss[2]}
<1>1. IsWellFoundedOn(below, Nat)
  BY NatLessThanWellFounded, Zenon DEF OpToRel
<1>2. PICK k \in K : \A i \in K : ~(<<i, k>> \in below)
  <2> HIDE DEF below
  <2> QED BY <1>1, WFMin, Zenon
<1>3. \A i \in K : ~(i < k)
  BY <1>2
<1> QED BY <1>3

\* A bounded set of numbers has a greatest one.
LEMMA GreatestElement ==
  ASSUME NEW K \in SUBSET Nat, K # {}, NEW n \in Nat, \A k \in K : k <= n
  PROVE  \E k \in K : \A i \in K : i <= k
<1> DEFINE gaps == {n - k : k \in K}
<1>0. \A k \in K : n - k \in Nat
  OBVIOUS
<1>1. gaps \in SUBSET Nat /\ gaps # {}
  BY <1>0, Zenon
<1>2. PICK g \in gaps : \A i \in gaps : g <= i
  <2> HIDE DEF gaps
  <2> QED BY <1>1, LeastElement
<1>3. PICK k \in K : g = n - k
  BY <1>2
<1>4. \A i \in K : n - k <= n - i
  BY <1>2, <1>3
<1> QED BY <1>4

\* Sets of times are finite.
LEMMA TimesFinite ==
  ASSUME NEW S \in SUBSET Times
  PROVE  IsFiniteSet(S) /\ Cardinality(S) \in Nat
<1>1. IsFiniteSet(Times)
  BY ScheduleConstants, FS_Interval DEF Times
<1> QED BY <1>1, FS_Subset, FS_CardinalityType

\* The ticks after t up to n.
LEMMA TicksAre ==
  ASSUME NEW t \in Times, NEW n \in Times
  PROVE  /\ TicksIn(t, n) \in SUBSET Times
         /\ \A u \in TicksIn(t, n) : t < u /\ u <= n
BY ScheduleConstants DEF TicksIn, Times

\* dueTime's loop comes to rest at a tick exactly where there is one: the last
\* of those with at most maxMissedSchedules before them.
LEMMA LastScannedIs ==
  ASSUME NEW t \in Times, NEW n \in Times
  PROVE  LET ticks == TicksIn(t, n)
             Before(u) == {v \in ticks : v < u}
             last == LastScanned(t, n)
         IN  /\ ticks = {} => last = Unset
             /\ ticks # {} => /\ last \in ticks
                              /\ Cardinality(Before(last)) <= MaxMissed
                              /\ \A u \in ticks : Cardinality(Before(u)) <= MaxMissed
                                                    => u <= last
<1> DEFINE ticks == TicksIn(t, n)
           scanned == {u \in ticks :
                         Cardinality({v \in ticks : v < u}) <= MaxMissed}
<1>1. ticks \in SUBSET Times /\ Times \in SUBSET Nat /\ \A u \in ticks : u <= Horizon
  BY TicksAre, ScheduleConstants DEF Times
<1>2. /\ ticks = {} => LastScanned(t, n) = Unset
      /\ ticks # {} => LastScanned(t, n) =
                         CHOOSE u \in scanned : \A v \in scanned : v <= u
  BY DEF LastScanned
<1> HIDE DEF ticks
<1>3. ASSUME ticks # {}
      PROVE  /\ LastScanned(t, n) \in scanned
             /\ \A v \in scanned : v <= LastScanned(t, n)
  <2>1. PICK u \in ticks : \A v \in ticks : u <= v
    BY <1>1, <1>3, LeastElement
  <2>a. \A v \in ticks : ~(v < u)
    BY <1>1, <2>1
  <2>2. {v \in ticks : v < u} = {}
    BY <2>a, Zenon
  <2>3. u \in scanned
    BY <2>1, <2>2, FS_EmptySet, ScheduleConstants
  <2>4. scanned \in SUBSET Nat /\ \A v \in scanned : v <= Horizon
    BY <1>1
  <2>5. \E w \in scanned : \A v \in scanned : v <= w
    <3> HIDE DEF scanned
    <3> QED BY <2>3, <2>4, GreatestElement, ScheduleConstants
  <2> HIDE DEF scanned
  <2> QED BY <1>2, <1>3, <2>5
<1> QED BY <1>2, <1>3 DEF ticks

\* No tick follows the one the loop stops at, unless the cap stopped it.
LEMMA LastScannedStops ==
  ASSUME NEW t \in Times, NEW n \in Times, TicksIn(t, n) # {}
  PROVE  \/ TicksIn(LastScanned(t, n), n) = {}
         \/ Cardinality(TicksIn(t, LastScanned(t, n))) = MaxMissed + 1
<1> DEFINE ticks == TicksIn(t, n)
           Before(u) == {v \in ticks : v < u}
           last == LastScanned(t, n)
           after == TicksIn(last, n)
           upto == TicksIn(t, last)
<1>1. /\ last \in ticks /\ Cardinality(Before(last)) <= MaxMissed
      /\ \A u \in ticks : Cardinality(Before(u)) <= MaxMissed => u <= last
  BY LastScannedIs
<1>2. /\ t \in Nat /\ n \in Nat /\ last \in Nat /\ t < last /\ last <= n
      /\ ticks \in SUBSET Times /\ Times \in SUBSET Nat /\ last \in Times
  BY <1>1, TicksAre DEF Times
<1> HIDE DEF last
<1>3. /\ upto = {v \in ticks : v <= last}
      /\ after = {v \in ticks : last < v}
  BY <1>2 DEF TicksIn
<1> HIDE DEF ticks, after, upto
<1>4. Cardinality(upto) <= MaxMissed + 1 /\ Cardinality(upto) \in Nat
  <2>1. upto = Before(last) \cup {last} /\ last \notin Before(last)
    <3>1. \A v \in ticks : v <= last <=> v < last \/ v = last
      BY <1>2
    <3>2. ~(last < last)
      BY <1>2
    <3> QED BY <1>1, <1>3, <3>1, <3>2, Zenon
  <2>2. Before(last) \in SUBSET Times
    BY <1>2
  <2> DEFINE before == Before(last)
  <2> HIDE DEF Before
  <2>3. IsFiniteSet(before) /\ Cardinality(before) \in Nat
    BY <2>2, TimesFinite
  <2>4. Cardinality(before \cup {last}) = Cardinality(before) + 1
    BY <2>1, <2>3, FS_AddElement
  <2> QED BY <1>1, <2>1, <2>3, <2>4, ScheduleConstants
<1>5. ASSUME after # {}
      PROVE  Cardinality(upto) > MaxMissed
  <2>1. after \in SUBSET Nat
    BY <1>2, <1>3
  <2>2. PICK w \in after : \A v \in after : w <= v
    BY <1>5, <2>1, LeastElement
  <2>3. w \in ticks /\ last < w /\ w \in Nat
    BY <1>2, <1>3, <2>2
  <2>4. Before(w) = upto
    <3>1. \A v \in ticks : v < w <=> v <= last
      BY <1>2, <1>3, <2>2, <2>3
    <3> QED BY <1>3, <3>1, Zenon
  <2>5. ~(Cardinality(Before(w)) <= MaxMissed)
    BY <1>1, <1>2, <2>3
  <2> HIDE DEF Before
  <2> QED BY <1>4, <2>4, <2>5, ScheduleConstants
<1>6. after = {} \/ Cardinality(upto) = MaxMissed + 1
  BY <1>4, <1>5, ScheduleConstants
<1> QED BY <1>6 DEF after, upto, last

\* What is due is a time that has come, and the last such unless the cap made
\* it an earlier one.
LEMMA DueTimeIs ==
  ASSUME NEW st \in Statuses, NEW n \in Times, DueTime(st, n) # Unset
  PROVE  /\ DueTime(st, n) \in 0 .. n
         /\ \/ TicksIn(DueTime(st, n), n) = {}
            \/ Cardinality(TicksIn(IF st.last = Unset THEN 0 ELSE st.last,
                                   DueTime(st, n))) = MaxMissed + 1
<1> DEFINE since == IF st.last = Unset THEN 0 ELSE st.last
           due == DueTime(st, n)
<1>1. /\ since \in Times /\ n \in Nat /\ 0 \in Times /\ Times \in SUBSET Nat
  BY ScheduleConstants DEF Statuses, TimeOrUnset, Times
<1>2. \/ Immediate /\ due = n
      \/ due = LastScanned(since, n)
  BY DEF DueTime
<1> HIDE DEF since
<1>3. CASE due = n
  BY <1>1, <1>3 DEF TicksIn
<1>4. CASE due = LastScanned(since, n)
  <2>1. TicksIn(since, n) # {} /\ due \in TicksIn(since, n)
    BY <1>1, <1>4, LastScannedIs
  <2>2. due \in Nat /\ due <= n
    BY <1>1, <2>1, TicksAre
  <2> HIDE DEF due
  <2>3. \/ TicksIn(due, n) = {}
        \/ Cardinality(TicksIn(since, due)) = MaxMissed + 1
    BY <1>1, <1>4, <2>1, LastScannedStops
  <2> QED BY <1>1, <2>2, <2>3 DEF since, due
<1> QED BY <1>2, <1>3, <1>4

\* The next tick is a number.
LEMMA NextTickType ==
  ASSUME NEW t \in Times
  PROVE  NextTick(t) \in Nat
<1>1. Period \in Nat \ {0} /\ t \in Nat
  BY ScheduleConstants DEF Times
<1>2. ASSUME NEW q \in Nat, NEW p \in Nat
      PROVE  p * (q + 1) \in Nat
  OBVIOUS
<1>3. t \div Period \in Nat
  BY <1>1
<1> QED BY <1>1, <1>2, <1>3 DEF NextTick

-----------------------------------------------------------------------------
(***************************************************************************)
(* Types, and what a record of a backup looks like.                        *)
(***************************************************************************)
Existing == {t \in Times : backups[t].phase # "absent"}

\* What is not there has no creation time, what is there was created by now,
\* and so did the pass begin that runs.
WellFormed ==
  /\ \A t \in Times \ Existing : backups[t] = Absent
  /\ \A t \in Existing : backups[t].created \in 0 .. now
  /\ \A t \in Completed(backups) : backups[t].completed \in 0 .. now
  /\ pass # Unset => pass.at <= now

\* A pass begins: its backup is created now.
LEMMA PassCreatesFormed ==
  ASSUME TypeOK, WellFormed, PassCreates
  PROVE  TypeOK' /\ WellFormed'
<1> DEFINE due == DueTime(ssb, now)
           st == IF due = Unset THEN ssb ELSE [ssb EXCEPT !.last = due]
           new == [Absent EXCEPT !.phase = "Pending", !.created = now]
<1>1. /\ ssb \in Statuses /\ now \in Times /\ now \in Nat
      /\ due # Unset => due \in Times
      /\ Times \in SUBSET Nat
  <2>1. ssb \in Statuses /\ now \in Times /\ now \in Nat /\ now <= Horizon
    BY ScheduleConstants DEF TypeOK, Times
  <2>2. due # Unset => due \in 0 .. now
    BY <2>1, DueTimeIs
  <2>3. 0 .. now \in SUBSET Times /\ Times \in SUBSET Nat
    BY <2>1, ScheduleConstants DEF Times
  <2> QED BY <2>1, <2>2, <2>3
<1>2. /\ pass' = [at |-> now, st |-> st]
      /\ \/ backups' = backups
         \/ due # Unset /\ backups' = [backups EXCEPT ![due] = new]
      /\ UNCHANGED <<now, mode, ssb, s3, timers, up, faults>>
      /\ queued' \in BOOLEAN /\ shared' \subseteq shared \cup {now}
  BY DEF PassCreates
<1>3. st \in Statuses
  BY <1>1 DEF Statuses, TimeOrUnset
<1>4. /\ new \in Records /\ new.phase = "Pending" /\ new.created = now
  BY <1>1 DEF Absent, Records, TimeOrUnset
<1> HIDE DEF due, st, new
<1>5. pass' \in [at : Times, st : Statuses] /\ pass'.at = now
  BY <1>1, <1>2, <1>3
<1>6. /\ backups' \in [Times -> Records]
      /\ \A t \in Times : \/ backups'[t] = backups[t]
                          \/ backups'[t] = new
  BY <1>1, <1>2, <1>4 DEF TypeOK
<1>7. TypeOK'
  BY <1>1, <1>2, <1>5, <1>6 DEF TypeOK
<1>8. WellFormed'
  BY <1>1, <1>2, <1>4, <1>5, <1>6 DEF WellFormed, Existing, Completed
<1> QED BY <1>7, <1>8

\* Retention takes records away and changes none.
LEMMA PruneFormed ==
  ASSUME TypeOK, WellFormed, NEW objs \in SUBSET Times, NEW recs \in SUBSET Times,
         Prune(objs, recs), now' = now, pass' = Unset
  PROVE  /\ backups' \in [Times -> Records] /\ s3' \subseteq Times
         /\ WellFormed'
<1>1. Absent \in Records /\ Absent.phase = "absent"
  BY DEF Absent, Records, TimeOrUnset
<1>2. /\ backups' \in [Times -> Records]
      /\ \A t \in Times : \/ backups'[t] = backups[t]
                          \/ backups'[t] = Absent
  BY <1>1 DEF Prune, TypeOK
<1>3. s3' \subseteq Times
  BY DEF Prune, TypeOK
<1>4. WellFormed'
  BY <1>1, <1>2 DEF WellFormed, Existing, Completed
<1> QED BY <1>2, <1>3, <1>4

\* What the two parts of retention propose are Completed backups.
LEMMA PruneProposals ==
  ASSUME TypeOK, NEW beyond \in BeyondCount(backups), NEW n
  PROVE  /\ beyond \in SUBSET Completed(backups)
         /\ TooOld(backups, n) \in SUBSET Completed(backups)
         /\ Completed(backups) \in SUBSET Times
         /\ \A prune \in SUBSET Times : \A done \in PartlyPruned(prune) :
              /\ done[1] \in SUBSET Times /\ done[2] \in SUBSET Times
              /\ done[1] \in SUBSET prune /\ done[2] \in SUBSET done[1]
<1>1. beyond \in SUBSET Completed(backups)
  BY DEF BeyondCount
<1>2. TooOld(backups, n) \in SUBSET Completed(backups)
  BY DEF TooOld
<1>3. Completed(backups) \in SUBSET Times
  BY DEF Completed
<1> QED BY <1>1, <1>2, <1>3 DEF PartlyPruned

\* A pass that ends, or dies, prunes this much of what may go: objects, and
\* the records of some of them.
Pruning ==
  \E beyond \in BeyondCount(backups) :
    \E objs \in SUBSET (beyond \cup TooOld(backups, pass.at)) :
      \E recs \in SUBSET objs : Prune(objs, recs)

\* The rest of a pass, and its death, do that.
LEMMA PassPrunesIs ==
  ASSUME TypeOK, PassPrunes \/ PassDies
  PROVE  /\ pass # Unset /\ pass \in [at : Times, st : Statuses]
         /\ Pruning /\ pass' = Unset /\ UNCHANGED <<now, mode, shared>>
         /\ ssb' \in {ssb, [pass.st EXCEPT !.next = NextTick(pass.at),
                                           !.reason = "Scheduled"]}
         /\ \/ timers' = timers \/ timers' = timers \cup {NextTick(pass.at)}
         /\ up' \in BOOLEAN /\ queued' \in BOOLEAN /\ faults' \in 0 .. MaxFaults
<1>1. pass # Unset /\ pass \in [at : Times, st : Statuses]
  BY DEF PassPrunes, PassDies, TypeOK
<1> DEFINE Half(beyond) == \E done \in PartlyPruned(beyond \cup TooOld(backups, pass.at)) :
                             Prune(done[1], done[2])
<1>2. ASSUME NEW beyond \in BeyondCount(backups),
             \/ Prune(beyond \cup TooOld(backups, pass.at),
                      beyond \cup TooOld(backups, pass.at))
             \/ Half(beyond)
      PROVE  Pruning
  <2> DEFINE prune == beyond \cup TooOld(backups, pass.at)
  <2>1. prune \in SUBSET Times
    BY PruneProposals
  <2>2. CASE Prune(prune, prune)
    BY <2>2 DEF Pruning
  <2>3. CASE Half(beyond)
    <3>1. PICK done \in PartlyPruned(prune) : Prune(done[1], done[2])
      BY <2>3
    <3>2. done[1] \in SUBSET prune /\ done[2] \in SUBSET done[1]
      <4> HIDE DEF prune
      <4> QED BY <2>1, PruneProposals
    <3> QED BY <3>1, <3>2 DEF Pruning
  <2> QED BY <1>2, <2>2, <2>3
<1>3. faults' \in 0 .. MaxFaults
  <2>1. faults' = faults \/ (\E kind : Fault(kind))
    BY DEF PassPrunes, PassDies, Written, ApplyLost
  <2>2. \/ faults' = faults
        \/ \E cost \in Nat : faults + cost <= MaxFaults /\ faults' = faults + cost
    BY <2>1, ScheduleConstants DEF Fault
  <2> QED BY <2>2, ScheduleConstants DEF TypeOK
<1>4. CASE PassPrunes
  <2>1. PICK beyond \in BeyondCount(backups) :
          LET prune == beyond \cup TooOld(backups, pass.at)
              status == [pass.st EXCEPT !.next = NextTick(pass.at),
                                        !.reason = "Scheduled"]
          IN  \/ /\ Prune(prune, prune)
                 /\ Written(status) \/ ApplyLost
              \/ /\ \E done \in PartlyPruned(prune) : Prune(done[1], done[2])
                 /\ Fault("s3fail")
                 /\ ssb' = status
    BY <1>4 DEF PassPrunes
  <2>2. Pruning
    BY <1>2, <2>1
  <2>3. ssb' \in {ssb, [pass.st EXCEPT !.next = NextTick(pass.at),
                                       !.reason = "Scheduled"]}
    BY <2>1 DEF Written, ApplyLost
  <2>4. queued' \in BOOLEAN /\ up' \in BOOLEAN
    BY <1>4 DEF PassPrunes, TypeOK
  <2> QED BY <1>1, <1>3, <1>4, <2>2, <2>3, <2>4 DEF PassPrunes, Requeue
<1>5. CASE PassDies
  <2>1. Pruning
    BY <1>2, <1>5 DEF PassDies
  <2> QED BY <1>1, <1>3, <1>5, <2>1 DEF PassDies, TypeOK
<1> QED BY <1>4, <1>5

\* So they keep the types.
LEMMA PassPrunesFormed ==
  ASSUME TypeOK, WellFormed, PassPrunes \/ PassDies
  PROVE  TypeOK' /\ WellFormed'
<1>1. PICK beyond \in BeyondCount(backups) :
        \E objs \in SUBSET (beyond \cup TooOld(backups, pass.at)) :
          \E recs \in SUBSET objs : Prune(objs, recs)
  BY PassPrunesIs DEF Pruning
<1>2. PICK objs \in SUBSET Times, recs \in SUBSET Times : Prune(objs, recs)
  BY <1>1, PruneProposals
<1>3. /\ backups' \in [Times -> Records] /\ s3' \subseteq Times
      /\ WellFormed'
  BY <1>2, PruneFormed, PassPrunesIs
<1>4. ssb' \in Statuses /\ timers' \subseteq Nat
  <2>1. NextTick(pass.at) \in Nat
    BY PassPrunesIs, NextTickType
  <2>2. pass.st \in Statuses
    BY PassPrunesIs
  <2>3. [pass.st EXCEPT !.next = NextTick(pass.at), !.reason = "Scheduled"] \in Statuses
    BY <2>1, <2>2 DEF Statuses
  <2> QED BY <2>1, <2>3, PassPrunesIs DEF TypeOK
<1> QED BY <1>3, <1>4, PassPrunesIs DEF TypeOK

\* A backup ends now.
LEMMA BackupEndsFormed ==
  ASSUME TypeOK, WellFormed, NEW t \in Times, BackupEnds(t)
  PROVE  /\ TypeOK' /\ WellFormed'
         /\ \A u \in Times \ {t} : backups'[u] = backups[u]
         /\ backups[t].phase = "Pending" /\ backups'[t].phase \in {"Completed", "Failed"}
         /\ backups'[t].created = backups[t].created
         /\ backups'[t].completed = now
<1>1. /\ backups \in [Times -> Records] /\ now \in Times /\ now \in Nat
      /\ backups[t].phase = "Pending" /\ backups[t] \in Records
  BY ScheduleConstants DEF BackupEnds, TypeOK, Times
<1>2. backups[t].created \in 0 .. now
  BY <1>1 DEF WellFormed, Existing
<1>3. 0 .. now \in SUBSET Times
  BY <1>1, ScheduleConstants DEF Times
<1>4. /\ backups' \in [Times -> Records]
      /\ \A u \in Times \ {t} : backups'[u] = backups[u]
      /\ backups'[t].phase \in {"Completed", "Failed"}
      /\ backups'[t].created = backups[t].created
      /\ backups'[t].completed = now
  <2>1. PICK ph \in {"Completed", "Failed"} :
          backups' = [backups EXCEPT ![t].phase = ph, ![t].completed = now]
    BY DEF BackupEnds
  <2> DEFINE new == [backups[t] EXCEPT !.phase = ph, !.completed = now]
  <2>2. /\ new \in Records /\ new.phase = ph /\ new.created = backups[t].created
        /\ new.completed = now
    BY <1>1 DEF Records, TimeOrUnset
  <2>3. backups' = [backups EXCEPT ![t] = new]
    BY <1>1, <2>1
  <2> HIDE DEF new
  <2> QED BY <1>1, <2>2, <2>3
<1>5. s3' \subseteq Times /\ queued' \in BOOLEAN
      /\ UNCHANGED <<now, mode, ssb, pass, timers, up, shared>>
  BY <1>2, <1>3 DEF BackupEnds, TypeOK
<1>f. faults' \in 0 .. MaxFaults
  BY ScheduleConstants DEF BackupEnds, Fault, TypeOK
<1>6. TypeOK'
  BY <1>4, <1>5, <1>f DEF TypeOK
<1>7. WellFormed'
  BY <1>1, <1>2, <1>4, <1>5 DEF WellFormed, Existing, Completed
<1> QED BY <1>1, <1>4, <1>6, <1>7

\* A pass over a schedule that is not on writes the status, and the remaining
\* steps leave the backups and the status alone.
LEMMA OtherStepIs ==
  ASSUME TypeOK, WellFormed,
         \/ PassIdle \/ Fires \/ Tick \/ Crash \/ Restart \/ Edit \/ Resume
         \/ UNCHANGED vars
  PROVE  /\ UNCHANGED <<backups, s3, shared>> /\ pass' \in {pass, Unset}
         /\ ssb' \in Statuses /\ ssb'.last = ssb.last
         /\ now' \in Times /\ now <= now' /\ (now' = now \/ now' > now)
         /\ TypeOK' /\ WellFormed'
<1>1. UNCHANGED <<backups, s3, shared>> /\ pass' \in {pass, Unset}
  BY DEF PassIdle, Fires, Tick, Crash, Restart, Edit, Resume, vars
<1>2. ssb' \in Statuses /\ ssb'.last = ssb.last
  <2>1. \/ ssb' = ssb
        \/ ssb' = [ssb EXCEPT !.next = Unset, !.reason = "Suspended"]
        \/ ssb' = [ssb EXCEPT !.reason = "Invalid"]
    BY DEF PassIdle, Fires, Tick, Crash, Restart, Edit, Resume, vars, Written, ApplyLost
  <2> QED BY <2>1 DEF TypeOK, Statuses
<1>3. now' \in Times /\ now <= now' /\ (now' = now \/ now' > now) /\ now \in Nat
  BY ScheduleConstants
     DEF PassIdle, Fires, Tick, Crash, Restart, Edit, Resume, vars, TypeOK, Times
<1>4. faults' \in 0 .. MaxFaults
  BY ScheduleConstants
     DEF PassIdle, Fires, Tick, Crash, Restart, Edit, Resume, vars, TypeOK, Fault,
         Written, ApplyLost
<1>5. /\ mode' \in {"on", "suspended", "invalid"} /\ timers' \subseteq Nat
      /\ queued' \in BOOLEAN /\ up' \in BOOLEAN
  BY DEF PassIdle, Fires, Tick, Crash, Restart, Edit, Resume, vars, TypeOK
<1>6. TypeOK'
  BY <1>1, <1>2, <1>3, <1>4, <1>5 DEF TypeOK
<1>7. WellFormed'
  BY <1>1, <1>3 DEF WellFormed, Existing, Completed, TypeOK, Times
<1> QED BY <1>1, <1>2, <1>3, <1>6, <1>7

\* Every step keeps the types.
LEMMA StepFormed ==
  ASSUME TypeOK, WellFormed, [Next]_vars
  PROVE  TypeOK' /\ WellFormed'
BY PassCreatesFormed, PassPrunesFormed, BackupEndsFormed, OtherStepIs DEF Next, Pass

\* So do the initial states.
LEMMA InitFormed ==
  ASSUME Init
  PROVE  TypeOK /\ WellFormed
<1>1. Absent \in Records /\ Absent.phase = "absent"
  BY DEF Absent, Records, TimeOrUnset
<1>2. \A t \in Times : backups[t] = Absent
  BY DEF Init
<1>3. TypeOK
  BY <1>1, ScheduleConstants DEF Init, TypeOK, Times, Statuses, TimeOrUnset
<1> QED BY <1>1, <1>2, <1>3 DEF WellFormed, Existing, Completed, Init

\* Types: every status, record, key and timer stays what the API types allow,
\* a record of a backup carries the times the controller and the Job wrote into
\* it, and none of them lies in the future.
THEOREM TypeHolds == Spec => [](TypeOK /\ WellFormed)
<1>1. Init => TypeOK /\ WellFormed
  BY InitFormed
<1>2. TypeOK /\ WellFormed /\ [Next]_vars => (TypeOK /\ WellFormed)'
  BY StepFormed
<1> QED BY <1>1, <1>2, PTL DEF Spec

-----------------------------------------------------------------------------
(***************************************************************************)
(* One backup for a pass, and the most recent.                             *)
(***************************************************************************)

\* A pass creates the backup that is due, and no other step creates one.
LEMMA CreatedIsDue ==
  ASSUME TypeOK, WellFormed, [Next]_vars, NEW t \in Times,
         backups[t].phase = "absent", backups'[t].phase # "absent"
  PROVE  PassCreates /\ t = DueTime(ssb, now) /\ t # Unset /\ backups'[t].created = now
<1>1. ASSUME PassPrunes \/ PassDies
      PROVE  FALSE
  <2>1. PICK objs \in SUBSET Times, recs \in SUBSET Times : Prune(objs, recs)
    BY <1>1, PassPrunesIs, PruneProposals DEF Pruning
  <2>2. backups'[t] \in {backups[t], Absent} /\ Absent.phase = "absent"
    BY <2>1 DEF Prune, Absent
  <2> QED BY <2>2
<1>2. ~\E u \in Times : BackupEnds(u)
  BY BackupEndsFormed
<1>3. PassCreates
  BY <1>1, <1>2, OtherStepIs DEF Next, Pass
<1> DEFINE due == DueTime(ssb, now)
           new == [Absent EXCEPT !.phase = "Pending", !.created = now]
<1>4. \/ backups' = backups
      \/ due # Unset /\ backups' = [backups EXCEPT ![due] = new]
  BY <1>3 DEF PassCreates
<1>5. new.created = now
  BY DEF Absent
<1> HIDE DEF due, new
<1>6. t = due /\ due # Unset /\ backups'[t] = new
  BY <1>4 DEF TypeOK
<1> QED BY <1>3, <1>5, <1>6 DEF due

\* "We only ever create the single most-recent due backup, never backfill":
\* no tick lies between the time a new backup is due at and now, however many
\* went by unseen and for every cap, unless the cap cut the walk short; then
\* the backup is for the tick the walk got to.
THEOREM MostRecentOnlyHolds == Spec => MostRecentOnly
<1> DEFINE Latest == \A t \in Times :
             backups[t].phase = "absent" /\ backups'[t].phase = "Pending" =>
               \/ TicksIn(t, now) = {}
               \/ Cardinality(TicksIn(IF ssb.last = Unset THEN 0 ELSE ssb.last, t))
                    = MaxMissed + 1
<1>1. TypeOK /\ WellFormed /\ [Next]_vars => [Latest]_vars
  <2> SUFFICES ASSUME TypeOK, WellFormed, [Next]_vars, NEW t \in Times,
                      backups[t].phase = "absent", backups'[t].phase = "Pending"
               PROVE  \/ TicksIn(t, now) = {}
                      \/ Cardinality(TicksIn(IF ssb.last = Unset THEN 0 ELSE ssb.last, t))
                           = MaxMissed + 1
    OBVIOUS
  <2>1. t = DueTime(ssb, now) /\ t # Unset
    BY CreatedIsDue
  <2>2. ssb \in Statuses /\ now \in Times
    BY DEF TypeOK
  <2> QED BY <2>1, <2>2, DueTimeIs
<1> QED BY <1>1, TypeHolds, PTL DEF Spec, MostRecentOnly

\* Records of one creation time, which names their objects, are remembered.
KeysOwn ==
  \A t, u \in Existing : backups[t].created = backups[u].created =>
    t = u \/ backups[t].created \in shared

\* The pass that creates.
LEMMA PassCreatesOwn ==
  ASSUME TypeOK, WellFormed, KeysOwn, PassCreates
  PROVE  KeysOwn'
<1> DEFINE due == DueTime(ssb, now)
           new == [Absent EXCEPT !.phase = "Pending", !.created = now]
<1>1. /\ \/ backups' = backups
         \/ /\ due # Unset /\ backups[due].phase = "absent"
            /\ backups' = [backups EXCEPT ![due] = new]
      /\ shared \subseteq shared'
      /\ backups' # backups /\ (\E t \in Times : backups[t].created = now)
           => now \in shared'
  BY DEF PassCreates
<1>2. backups \in [Times -> Records]
  BY DEF TypeOK
<1>3. new.created = now
  BY DEF Absent
<1> HIDE DEF due, new
<1>4. CASE backups' = backups
  BY <1>1, <1>4 DEF KeysOwn, Existing
<1>5. CASE /\ backups' # backups
           /\ backups' = [backups EXCEPT ![due] = new]
  <2>1. \A t \in Existing' : \/ t \in Existing /\ backups'[t] = backups[t]
                             \/ t = due /\ backups'[t].created = now
    BY <1>2, <1>3, <1>5 DEF Existing
  <2>2. \A t \in Existing : backups[t].created = now => now \in shared'
    BY <1>1, <1>5 DEF Existing
  <2> QED BY <1>1, <2>1, <2>2 DEF KeysOwn
<1> QED BY <1>1, <1>4, <1>5

\* No other step creates a record or changes a creation time.
LEMMA StepOwn ==
  ASSUME TypeOK, WellFormed, KeysOwn, [Next]_vars
  PROVE  KeysOwn'
<1>1. CASE PassPrunes \/ PassDies
  <2>1. PICK objs \in SUBSET Times, recs \in SUBSET Times : Prune(objs, recs)
    BY <1>1, PassPrunesIs, PruneProposals DEF Pruning
  <2>2. \A t \in Existing' : t \in Existing /\ backups'[t] = backups[t]
    <3>1. Absent.phase = "absent"
      BY DEF Absent
    <3> QED BY <2>1, <3>1 DEF Prune, Existing
  <2>3. shared' = shared
    BY <1>1 DEF PassPrunes, PassDies
  <2> QED BY <2>2, <2>3 DEF KeysOwn
<1>2. ASSUME NEW e \in Times, BackupEnds(e)
      PROVE  KeysOwn'
  <2>1. \A t \in Existing' : t \in Existing /\ backups'[t].created = backups[t].created
    BY <1>2, BackupEndsFormed DEF Existing
  <2>2. shared' = shared
    BY <1>2 DEF BackupEnds
  <2> QED BY <2>1, <2>2 DEF KeysOwn
<1>3. CASE \/ PassIdle \/ Fires \/ Tick \/ Crash \/ Restart \/ Edit \/ Resume
           \/ UNCHANGED vars
  <2>1. backups' = backups /\ shared' = shared
    BY <1>3, OtherStepIs
  <2> QED BY <2>1 DEF KeysOwn, Existing
<1> QED BY <1>1, <1>2, <1>3, PassCreatesOwn DEF Next, Pass

-----------------------------------------------------------------------------
(***************************************************************************)
(* Retention: what is pruned is in excess, and what is in excess and was   *)
(* not pruned stays so.                                                    *)
(***************************************************************************)
Newer(t) == {u \in Completed(backups) \ {t} :
               backups[u].completed >= backups[t].completed}
ByCount(t) == MaxCount > 0 /\ Cardinality(Newer(t)) >= MaxCount
ByAge(t) == MaxAge > 0 /\ backups[t].completed + MaxAge < now

\* The two ways to be in excess.
LEMMA ExcessIs ==
  ASSUME NEW t
  PROVE  Excess(t) <=> ByCount(t) \/ ByAge(t)
BY DEF Excess, ByCount, ByAge, Newer

\* What enforceRetention finds beyond maxCount leaves maxCount newer ones.
LEMMA BeyondCountIs ==
  ASSUME TypeOK, WellFormed, NEW beyond \in BeyondCount(backups),
         beyond # {} \/ (MaxCount > 0 /\ Cardinality(Completed(backups)) > MaxCount)
  PROVE  LET kept == Completed(backups) \ beyond
         IN  /\ MaxCount > 0 /\ Cardinality(kept) = MaxCount
             /\ \A p \in beyond, q \in kept :
                  backups[p].completed <= backups[q].completed
<1> DEFINE done == Completed(backups)
           kept == done \ beyond
<1>1. done \in SUBSET Times
  BY DEF Completed
<1>2. ~(MaxCount = 0 \/ Cardinality(done) <= MaxCount)
  <2>1. Cardinality(done) \in Nat
    BY <1>1, TimesFinite
  <2>2. CASE beyond # {}
    BY <2>2 DEF BeyondCount
  <2> QED BY <2>1, <2>2, ScheduleConstants
<1>3. /\ beyond \in SUBSET done /\ Cardinality(beyond) = Cardinality(done) - MaxCount
      /\ \A p \in beyond, q \in kept : backups[p].completed <= backups[q].completed
  BY <1>2 DEF BeyondCount
<1> HIDE DEF done
<1>4. /\ kept \in SUBSET Times /\ beyond \in SUBSET Times
      /\ kept \cup beyond = done /\ kept \cap beyond = {}
  BY <1>1, <1>3
<1>5. /\ IsFiniteSet(kept) /\ IsFiniteSet(beyond) /\ Cardinality(kept) \in Nat
      /\ Cardinality(beyond) \in Nat /\ Cardinality(done) \in Nat
  BY <1>1, <1>4, TimesFinite
<1> HIDE DEF kept
<1>6. Cardinality(done) = Cardinality(kept) + Cardinality(beyond) - 0
  BY <1>4, <1>5, FS_Union, FS_EmptySet
<1>7. Cardinality(kept) = MaxCount /\ MaxCount > 0
  BY <1>2, <1>3, <1>5, <1>6, ScheduleConstants
<1> QED BY <1>3, <1>7 DEF kept, done

\* Sets of newer backups compare as their sizes.
LEMMA NewerSize ==
  ASSUME TypeOK, NEW S \in SUBSET Times, NEW T \in SUBSET S
  PROVE  /\ Cardinality(T) <= Cardinality(S)
         /\ Cardinality(S) \in Nat /\ Cardinality(T) \in Nat
BY TimesFinite, FS_Subset

\* Whatever enforceRetention proposes is in excess.
LEMMA PrunedIsExcess ==
  ASSUME TypeOK, WellFormed, pass # Unset, NEW beyond \in BeyondCount(backups),
         NEW t \in beyond \cup TooOld(backups, pass.at)
  PROVE  t \in Completed(backups) /\ Excess(t)
<1>1. t \in Completed(backups) /\ Completed(backups) \in SUBSET Times
  BY PruneProposals
<1>2. \A u \in Completed(backups) : backups[u].completed \in Nat
  BY DEF WellFormed, TypeOK, Times
<1>3. CASE t \in beyond
  <2> DEFINE kept == Completed(backups) \ beyond
  <2>1. /\ MaxCount > 0 /\ Cardinality(kept) = MaxCount
        /\ \A q \in kept : backups[t].completed <= backups[q].completed
    BY <1>3, BeyondCountIs
  <2>2. kept \in SUBSET Newer(t)
    BY <1>1, <1>2, <1>3, <2>1 DEF Newer
  <2>3. Newer(t) \in SUBSET Times
    BY <1>1 DEF Newer
  <2> HIDE DEF kept
  <2>4. Cardinality(Newer(t)) >= MaxCount
    BY <2>1, <2>2, <2>3, NewerSize, ScheduleConstants
  <2> QED BY <1>1, <2>1, <2>4, ExcessIs DEF ByCount
<1>4. CASE t \in TooOld(backups, pass.at)
  <2>1. MaxAge # 0 /\ backups[t].completed + MaxAge < pass.at
    BY <1>4 DEF TooOld
  <2>2. pass.at \in Nat /\ now \in Nat /\ pass.at <= now
    BY ScheduleConstants DEF TypeOK, WellFormed, Times
  <2>3. ByAge(t)
    BY <1>1, <1>2, <2>1, <2>2, ScheduleConstants DEF ByAge
  <2> QED BY <1>1, <2>3, ExcessIs
<1> QED BY <1>3, <1>4

\* Retention deletes only what exceeds maxCount or maxAge, and never a backup
\* that is not Completed, whether a pass prunes all of it, fails or dies on the
\* way, and whether time passes meanwhile.
THEOREM PrunesOnlyExcessHolds == Spec => PrunesOnlyExcess
<1> DEFINE Rightly == \A t \in Times :
             backups[t].phase # "absent" /\ backups'[t].phase = "absent" =>
               backups[t].phase = "Completed" /\ Excess(t)
<1>1. TypeOK /\ WellFormed /\ [Next]_vars => [Rightly]_vars
  <2> SUFFICES ASSUME TypeOK, WellFormed, [Next]_vars, NEW t \in Times,
                      backups[t].phase # "absent", backups'[t].phase = "absent"
               PROVE  backups[t].phase = "Completed" /\ Excess(t)
    OBVIOUS
  <2>1. ~\E u \in Times : BackupEnds(u)
    BY BackupEndsFormed
  <2>2. ~PassCreates
    <3> DEFINE new == [Absent EXCEPT !.phase = "Pending", !.created = now]
    <3>1. new.phase = "Pending"
      BY DEF Absent
    <3> HIDE DEF new
    <3>2. PassCreates => \/ backups' = backups
                         \/ backups' = [backups EXCEPT ![DueTime(ssb, now)] = new]
      BY DEF PassCreates, new
    <3> QED BY <3>1, <3>2 DEF TypeOK
  <2>3. PassPrunes \/ PassDies
    BY <2>1, <2>2, OtherStepIs DEF Next, Pass
  <2>4. PICK beyond \in BeyondCount(backups) :
          \E objs \in SUBSET (beyond \cup TooOld(backups, pass.at)) :
            \E recs \in SUBSET objs : Prune(objs, recs)
    BY <2>3, PassPrunesIs DEF Pruning
  <2>5. t \in beyond \cup TooOld(backups, pass.at)
    BY <2>4 DEF Prune
  <2> QED BY <2>3, <2>5, PassPrunesIs, PrunedIsExcess DEF Completed
<1> QED BY <1>1, TypeHolds, PTL DEF Spec, PrunesOnlyExcess

\* No two backups end at one time.
DistinctEnds ==
  \A t, u \in Completed(backups) : backups[t].completed = backups[u].completed => t = u

\* Then what is beyond maxCount is proposed by every pass until it is gone.
LEMMA ExcessIsProposed ==
  ASSUME TypeOK, WellFormed, DistinctEnds, NEW beyond \in BeyondCount(backups),
         NEW t \in Completed(backups), ByCount(t)
  PROVE  /\ t \in beyond
         /\ LET kept == Completed(backups) \ beyond
            IN  kept \in SUBSET Newer(t) /\ Cardinality(kept) = MaxCount
<1> DEFINE done == Completed(backups)
           kept == done \ beyond
<1>1. /\ done \in SUBSET Times /\ \A u \in done : backups[u].completed \in Nat
  BY DEF WellFormed, TypeOK, Times, Completed
<1>2. /\ Newer(t) \in SUBSET (done \ {t}) /\ MaxCount > 0 /\ MaxCount \in Nat
      /\ Cardinality(Newer(t)) >= MaxCount
  BY ScheduleConstants DEF Newer, ByCount
<1>3. IsFiniteSet(done) /\ Cardinality(done) \in Nat
  BY <1>1, TimesFinite
<1>4. Cardinality(done \ {t}) = Cardinality(done) - 1
  BY <1>3, FS_RemoveElement
<1>5. Cardinality(Newer(t)) <= Cardinality(done \ {t}) /\ Cardinality(Newer(t)) \in Nat
  BY <1>1, <1>2, NewerSize
<1>6. Cardinality(done) > MaxCount
  BY <1>2, <1>3, <1>4, <1>5
<1>7. /\ Cardinality(kept) = MaxCount
      /\ \A p \in beyond, q \in kept : backups[p].completed <= backups[q].completed
  BY <1>2, <1>6, BeyondCountIs
<1>8. t \in beyond
  <2> SUFFICES ASSUME t \notin beyond
               PROVE  FALSE
    OBVIOUS
  <2>1. t \in kept
    OBVIOUS
  <2>2. ASSUME NEW u \in Newer(t)
        PROVE  u \in kept \ {t}
    <3>1. u \in done /\ u # t /\ backups[u].completed >= backups[t].completed
      BY <2>2 DEF Newer
    <3>2. backups[u].completed # backups[t].completed
      BY <3>1 DEF DistinctEnds
    <3>3. u \notin beyond
      BY <1>1, <1>7, <2>1, <3>1, <3>2
    <3> QED BY <3>1, <3>3
  <2>3. kept \in SUBSET Times /\ Newer(t) \in SUBSET (kept \ {t})
    BY <1>1, <2>2
  <2> HIDE DEF kept
  <2>4. IsFiniteSet(kept) /\ Cardinality(kept) \in Nat
    BY <2>3, TimesFinite
  <2>5. Cardinality(kept \ {t}) = Cardinality(kept) - 1
    BY <2>1, <2>4, FS_RemoveElement
  <2>6. Cardinality(Newer(t)) <= Cardinality(kept \ {t})
    BY <2>3, NewerSize
  <2> QED BY <1>2, <1>5, <1>7, <2>4, <2>5, <2>6
<1>9. kept \in SUBSET Newer(t)
  BY <1>1, <1>7, <1>8 DEF Newer
<1> QED BY <1>7, <1>8, <1>9

\* What is in excess stays so when other Completed backups are added.
LEMMA ExcessGrows ==
  ASSUME TypeOK, TypeOK', WellFormed, now <= now',
         Completed(backups) \in SUBSET Completed(backups)',
         \A u \in Completed(backups) : backups'[u].completed = backups[u].completed,
         NEW t \in Completed(backups), Excess(t)
  PROVE  Excess(t)'
<1>1. CASE ByCount(t)
  <2>1. Newer(t) \in SUBSET Newer(t)' /\ Newer(t)' \in SUBSET Times
    BY DEF Newer, Completed
  <2>2. /\ Cardinality(Newer(t)) <= Cardinality(Newer(t)')
        /\ Cardinality(Newer(t)) \in Nat /\ Cardinality(Newer(t)') \in Nat
    BY <2>1, NewerSize
  <2>3. ByCount(t)'
    BY <1>1, <2>2, ScheduleConstants DEF ByCount
  <2> QED BY <2>3 DEF Excess, ByCount, Newer
<1>2. CASE ByAge(t)
  <2>1. backups[t].completed \in Nat /\ now \in Nat /\ now' \in Nat
    BY ScheduleConstants DEF WellFormed, TypeOK, Times
  <2>2. ByAge(t)'
    BY <1>2, <2>1, ScheduleConstants DEF ByAge
  <2> QED BY <2>2 DEF Excess, ByAge
<1> QED BY <1>1, <1>2, ExcessIs

\* What is in excess stays so when a pass prunes others: the ones kept are the
\* newer ones, and what is older than one that is too old is too old.
LEMMA ExcessOutlastsPruning ==
  ASSUME TypeOK, WellFormed, DistinctEnds, pass # Unset, now' = now,
         NEW beyond \in BeyondCount(backups),
         NEW recs \in SUBSET (beyond \cup TooOld(backups, pass.at)),
         backups' = [u \in Times |-> IF u \in recs THEN Absent ELSE backups[u]],
         NEW t \in Completed(backups) \ recs, Excess(t)
  PROVE  Excess(t)'
<1>1. /\ \A u \in Completed(backups) : backups[u].completed \in Nat
      /\ now \in Nat /\ pass.at \in Nat /\ pass.at <= now
      /\ Completed(backups) \in SUBSET Times
  BY DEF WellFormed, TypeOK, Times, Completed
<1>2. Absent.phase = "absent"
  BY DEF Absent
<1>3. /\ \A u \in Times \ recs : backups'[u] = backups[u]
      /\ Completed(backups)' = Completed(backups) \ recs
  BY <1>2 DEF Completed
<1>4. ASSUME ByAge(t)
      PROVE  Excess(t)'
  BY <1>1, <1>3, <1>4 DEF Excess, ByAge
<1>5. CASE ByCount(t)
  <2> DEFINE kept == Completed(backups) \ beyond
  <2>1. kept \in SUBSET Newer(t) /\ Cardinality(kept) = MaxCount /\ MaxCount > 0
    BY <1>5, ExcessIsProposed DEF ByCount
  <2>2. CASE kept \cap recs = {}
    <3>1. kept \in SUBSET Newer(t)' /\ Newer(t)' \in SUBSET Times
      BY <1>1, <1>3, <2>1, <2>2 DEF Newer
    <3> HIDE DEF kept
    <3>2. Cardinality(Newer(t)') >= MaxCount
      BY <2>1, <3>1, NewerSize, ScheduleConstants
    <3> QED BY <2>1, <3>2 DEF Excess, Newer
  <2>3. ASSUME NEW q \in kept \cap recs
        PROVE  ByAge(t)
    <3>1. q \in TooOld(backups, pass.at)
      BY <2>3
    <3>2. MaxAge # 0 /\ backups[q].completed + MaxAge < pass.at /\ q \in Completed(backups)
      BY <3>1 DEF TooOld
    <3>3. backups[q].completed >= backups[t].completed
      BY <2>1, <2>3 DEF Newer
    <3> QED BY <1>1, <3>2, <3>3, ScheduleConstants DEF ByAge
  <2> QED BY <1>4, <2>2, <2>3
<1> QED BY <1>4, <1>5, ExcessIs

\* The invariant behind RecordsMatchObjects.
Kept == KeysOwn /\ DistinctEnds /\ RecordsMatchObjects

\* Pruning takes a record only with its object, and an object only of what is
\* in excess.
LEMMA PruningKeeps ==
  ASSUME TypeOK, WellFormed, Kept, PassPrunes \/ PassDies
  PROVE  DistinctEnds' /\ RecordsMatchObjects'
<1>0. shared' = shared
  BY PassPrunesIs
<1>1. pass # Unset /\ now' = now
  BY PassPrunesIs
<1>2. PICK beyond \in BeyondCount(backups) :
        \E objs \in SUBSET (beyond \cup TooOld(backups, pass.at)) :
          \E recs \in SUBSET objs : Prune(objs, recs)
  BY PassPrunesIs DEF Pruning
<1>3. PICK objs \in SUBSET (beyond \cup TooOld(backups, pass.at)) :
        \E recs \in SUBSET objs : Prune(objs, recs)
  BY <1>2
<1>4. PICK recs \in SUBSET objs : Prune(objs, recs)
  BY <1>3
<1>5. /\ s3' = s3 \ {backups[t].created : t \in objs}
      /\ backups' = [t \in Times |-> IF t \in recs THEN Absent ELSE backups[t]]
  BY <1>4 DEF Prune
<1>6. Absent.phase = "absent"
  BY DEF Absent
<1>7. /\ \A t \in Times \ recs : backups'[t] = backups[t]
      /\ Completed(backups)' = Completed(backups) \ recs
      /\ Completed(backups) \in SUBSET Existing
  BY <1>5, <1>6 DEF Completed, Existing
<1>8. \A t \in objs : t \in Completed(backups) /\ Excess(t)
  BY <1>1, PrunedIsExcess
<1>9. ASSUME NEW t \in Completed(backups)'
      PROVE  (backups[t].created \in s3 \cup shared \/ Excess(t))'
  <2>1. t \in Completed(backups) \ recs /\ t \in Times /\ backups'[t] = backups[t]
    BY <1>7, <1>9 DEF Completed
  <2>2. ASSUME Excess(t)
        PROVE  Excess(t)'
    BY <1>1, <1>5, <2>1, <2>2, ExcessOutlastsPruning DEF Kept
  <2>3. CASE backups[t].created \in s3 /\ t \notin objs
    <3>1. \A u \in objs : \/ backups[u].created # backups[t].created
                          \/ backups[t].created \in shared
      BY <1>7, <1>8, <2>1, <2>3 DEF Kept, KeysOwn
    <3> QED BY <1>0, <1>5, <2>1, <2>3, <3>1
  <2>4. CASE backups[t].created \in shared
    BY <1>0, <2>1, <2>4
  <2>5. Excess(t) \/ (backups[t].created \in s3 \cup shared /\ t \notin objs)
    BY <1>8, <2>1 DEF Kept, RecordsMatchObjects
  <2> QED BY <2>2, <2>3, <2>4, <2>5
<1>10. ASSUME NEW k \in s3'
       PROVE  \E t \in Times : backups'[t].created = k
  <2>1. k \in s3 /\ \A t \in objs : backups[t].created # k
    BY <1>5, <1>10
  <2>2. PICK t \in Times : backups[t].created = k
    BY <2>1 DEF Kept, RecordsMatchObjects
  <2>3. t \notin recs
    BY <2>1, <2>2
  <2> QED BY <1>7, <2>2, <2>3
<1>11. DistinctEnds'
  BY <1>7 DEF Kept, DistinctEnds, Completed
<1> QED BY <1>9, <1>10, <1>11 DEF RecordsMatchObjects

\* A backup ends with its object in the bucket, at a time of its own.
LEMMA EndKeeps ==
  ASSUME "tie" \notin Environment, TypeOK, WellFormed, Kept,
         NEW e \in Times, BackupEnds(e)
  PROVE  DistinctEnds' /\ RecordsMatchObjects'
<1>1. /\ \A u \in Times \ {e} : backups'[u] = backups[u]
      /\ backups[e].phase = "Pending" /\ backups'[e].phase \in {"Completed", "Failed"}
      /\ backups'[e].created = backups[e].created /\ backups'[e].completed = now
      /\ TypeOK'
  BY BackupEndsFormed
<1>2. /\ \A u \in Times : backups[u].completed # now
      /\ now' = now /\ shared' = shared
      /\ s3 \subseteq s3' /\ s3' \subseteq s3 \cup {backups[e].created}
  BY DEF BackupEnds
<1>3. backups'[e].phase = "Completed" => backups[e].created \in s3'
  <2>1. \A ph : [backups EXCEPT ![e].phase = ph, ![e].completed = now][e].phase = ph
    BY DEF TypeOK, Records
  <2> QED BY <2>1 DEF BackupEnds
<1>4. /\ Completed(backups) \in SUBSET Completed(backups)'
      /\ Completed(backups)' \in SUBSET (Completed(backups) \cup {e})
      /\ e \notin Completed(backups)
      /\ \A u \in Completed(backups) : backups'[u] = backups[u]
  BY <1>1 DEF Completed
<1>5. now <= now'
  BY <1>2, ScheduleConstants DEF TypeOK, Times
<1>6. \A t \in Completed(backups) : Excess(t) => Excess(t)'
  BY <1>1, <1>4, <1>5, ExcessGrows
<1>7. ASSUME NEW t \in Completed(backups)'
      PROVE  (backups[t].created \in s3 \cup shared \/ Excess(t))'
  <2>1. CASE t = e
    BY <1>1, <1>3, <1>7, <2>1 DEF Completed
  <2>2. CASE t \in Completed(backups)
    <3>1. backups[t].created \in s3 \cup shared \/ Excess(t)
      BY <2>2 DEF Kept, RecordsMatchObjects
    <3> QED BY <1>2, <1>4, <1>6, <2>2, <3>1
  <2> QED BY <1>4, <1>7, <2>1, <2>2
<1>8. \A k \in s3' : \E t \in Times : backups'[t].created = k
  BY <1>1, <1>2 DEF Kept, RecordsMatchObjects
<1>9. DistinctEnds'
  BY <1>1, <1>2, <1>4 DEF Kept, DistinctEnds, Completed
<1> QED BY <1>7, <1>8, <1>9 DEF RecordsMatchObjects

\* A backup that is created has no object yet.
LEMMA CreationKeeps ==
  ASSUME TypeOK, WellFormed, Kept, PassCreates
  PROVE  DistinctEnds' /\ RecordsMatchObjects'
<1> DEFINE due == DueTime(ssb, now)
           new == [Absent EXCEPT !.phase = "Pending", !.created = now]
<1>1. /\ UNCHANGED <<now, s3>> /\ shared \subseteq shared'
      /\ \/ backups' = backups
         \/ /\ due # Unset /\ backups[due].phase = "absent"
            /\ backups' = [backups EXCEPT ![due] = new]
  BY DEF PassCreates
<1>2. new.phase = "Pending" /\ Absent.phase = "absent" /\ Absent.created = Unset
  BY DEF Absent
<1>3. TypeOK' /\ now <= now'
  BY <1>1, PassCreatesFormed, ScheduleConstants DEF TypeOK, Times
<1> HIDE DEF due, new
<1>4. /\ \A t \in Times : backups[t].phase # "absent" => backups'[t] = backups[t]
      /\ Completed(backups)' = Completed(backups)
  BY <1>1, <1>2 DEF Completed, TypeOK
<1>5. \A t \in Completed(backups) : backups'[t] = backups[t]
  BY <1>4 DEF Completed
<1>6. \A t \in Completed(backups) : Excess(t) => Excess(t)'
  BY <1>3, <1>4, <1>5, ExcessGrows
<1>7. \A t \in Completed(backups)' : (backups[t].created \in s3 \cup shared \/ Excess(t))'
  BY <1>1, <1>4, <1>5, <1>6 DEF Kept, RecordsMatchObjects
<1>8. ASSUME NEW k \in s3'
      PROVE  \E t \in Times : backups'[t].created = k
  <2>1. k \in Nat /\ k \in s3
    BY <1>1, <1>8 DEF TypeOK, Times
  <2>2. PICK t \in Times : backups[t].created = k
    BY <2>1 DEF Kept, RecordsMatchObjects
  <2>3. backups[t].phase # "absent"
    BY <1>2, <2>1, <2>2, ScheduleConstants DEF WellFormed, Existing
  <2> QED BY <1>4, <2>2, <2>3
<1>9. DistinctEnds'
  BY <1>4, <1>5 DEF Kept, DistinctEnds
<1> QED BY <1>7, <1>8, <1>9 DEF RecordsMatchObjects

\* Every step keeps records and objects together.
LEMMA StepKeeps ==
  ASSUME "tie" \notin Environment, TypeOK, WellFormed, Kept, [Next]_vars
  PROVE  Kept'
<1>1. KeysOwn'
  BY StepOwn DEF Kept
<1>2. CASE \/ PassIdle \/ Fires \/ Tick \/ Crash \/ Restart \/ Edit \/ Resume
           \/ UNCHANGED vars
  <2>1. UNCHANGED <<backups, s3, shared>> /\ now <= now' /\ TypeOK'
    BY <1>2, OtherStepIs
  <2>2. Completed(backups)' = Completed(backups)
    BY <2>1 DEF Completed
  <2>3. \A t \in Completed(backups) : Excess(t) => Excess(t)'
    BY <2>1, <2>2, ExcessGrows
  <2>4. DistinctEnds' /\ RecordsMatchObjects'
    BY <2>1, <2>2, <2>3 DEF Kept, DistinctEnds, RecordsMatchObjects
  <2> QED BY <1>1, <2>4 DEF Kept
<1>3. CASE PassPrunes \/ PassDies
  BY <1>1, <1>3, PruningKeeps DEF Kept
<1>4. CASE PassCreates
  BY <1>1, <1>4, CreationKeeps DEF Kept
<1>5. CASE \E e \in Times : BackupEnds(e)
  BY <1>1, <1>5, EndKeeps DEF Kept
<1> QED BY <1>2, <1>3, <1>4, <1>5 DEF Next, Pass

\* Records and objects never come apart, wherever a pruning failed or died and
\* whether time passed meanwhile: a Completed backup that is to be kept has its
\* object, and every object has a record that leads to it.  Backups that end at
\* one time are excluded: sort.Slice orders them either way.
THEOREM RecordsMatchObjectsHolds ==
  ASSUME "tie" \notin Environment
  PROVE  Spec => []RecordsMatchObjects
<1>1. Init => Kept
  <2> SUFFICES ASSUME Init
               PROVE  Kept
    OBVIOUS
  <2>1. Absent.phase = "absent"
    BY DEF Absent
  <2>2. Existing = {} /\ Completed(backups) = {} /\ s3 = {}
    BY <2>1 DEF Init, Existing, Completed
  <2> QED BY <2>2 DEF Kept, KeysOwn, DistinctEnds, RecordsMatchObjects
<1>2. TypeOK /\ WellFormed /\ Kept /\ [Next]_vars => Kept'
  BY StepKeeps
<1>3. Kept => RecordsMatchObjects
  BY DEF Kept
<1> QED BY <1>1, <1>2, <1>3, TypeHolds, PTL DEF Spec
=============================================================================
