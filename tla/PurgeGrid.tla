------------------------------ MODULE PurgeGrid -----------------------------
(***************************************************************************)
(* The purge and write rotation as arithmetic                              *)
(* (operator/internal/controller/purgerotation.go, rotation_gate.go,       *)
(* writeservice.go and planPodPurge of accesslog_purge_converged.go).      *)
(*                                                                         *)
(* Durations and instants are integers in ticks, Second of them to the     *)
(* second: the code's time.Duration counts nanoseconds, and all that       *)
(* matters of that is that some durations are not whole seconds.  An       *)
(* optional field of a spec is a set with at most one element.             *)
(*                                                                         *)
(* A definition whose name has an underscore is a faulty variant of the    *)
(* one it precedes.                                                        *)
(***************************************************************************)
EXTENDS Integers

CONSTANTS
  Second,            \* ticks per second
  DefaultInterval,   \* defaultPurgeInterval, in ticks
  DefaultRetention   \* defaultPurgeRetention, in ticks

ASSUME GridConstants ==
  /\ Second \in Nat \ {0}
  /\ DefaultInterval \in Nat \ {0} /\ DefaultInterval % Second = 0
  /\ DefaultRetention \in Nat \ {0} /\ DefaultRetention % Second = 0

Get(option) == CHOOSE x \in option : TRUE
GetOr(option, default) == IF option = {} THEN default ELSE Get(option)
Seconds(d) == d \div Second

-----------------------------------------------------------------------------
(***************************************************************************)
(* The rendering of olcAccessLogPurge.                                     *)
(***************************************************************************)
SecondsPerDay == 24 * 60 * 60

\* formatLogAge: the fields of "[ddd+]hh:mm:ss"; no days, no prefix.
FormatLogAge(d) ==
  LET secs == IF d < 0 THEN 0 ELSE Seconds(d)
      rest == secs % SecondsPerDay
  IN  [days |-> secs \div SecondsPerDay, hh |-> rest \div 3600,
       mm |-> (rest % 3600) \div 60,     ss |-> rest % 60]

\* slapd's log_age_parse, in seconds.
ParseLogAge(a) == ((a.days * 24 + a.hh) * 60 + a.mm) * 60 + a.ss

\* composePurge: no value at all, or the two or three fields slapd reads.
ComposePurge(retention, interval, phase) ==
  IF retention <= 0 \/ interval <= 0 THEN {}
  ELSE {[retention |-> FormatLogAge(retention),
         interval  |-> FormatLogAge(interval),
         phase     |-> {FormatLogAge(p) : p \in phase}]}

-----------------------------------------------------------------------------
(***************************************************************************)
(* The grid.                                                               *)
(***************************************************************************)
PurgePhase_OneBased(ordinal, n, t) ==
  IF n <= 0 \/ t <= 0 \/ ordinal <= 1 THEN 0 ELSE (ordinal - 1) * t

\* purgePhase
PurgePhase(ordinal, n, t) ==
  IF n <= 0 \/ t <= 0 \/ ordinal <= 0 THEN 0 ELSE ordinal * t

\* rotationSlot
RotationSlot(now, t, n) ==
  IF n <= 0 \/ Seconds(t) <= 0 THEN 0
  ELSE (Seconds(now) \div Seconds(t)) % n

\* nextSlotBoundary; noGridRequeue is ten seconds
NextSlotBoundary(now, t) ==
  LET step == Seconds(t) * Second
  IN  IF step <= 0 THEN 10 * Second ELSE step - (now % step)

WriterSlot(now, lead, t, n) == RotationSlot(now + lead, t, n)

NextWriterMove_IgnoresLead(now, lead, t) == NextSlotBoundary(now, t)

NextWriterMove(now, lead, t) == NextSlotBoundary(now + lead, t)

(***************************************************************************)
(* writeTarget: walk the offsets from v in the direction of its sign,      *)
(* never offering the pod that purges in this slot, and take that pod only *)
(* when nothing else is eligible.  The answer is empty when nothing is.    *)
(***************************************************************************)
Offset(v, k, n) ==
  LET step      == IF v < 0 THEN -1 ELSE 1
      preferred == IF v % n = 0 THEN 1 ELSE v % n
  IN  (preferred + k * step) % n

Offers(slot, n, v, eligible) ==
  {k \in 0 .. n - 1 : /\ Offset(v, k, n) # 0
                      /\ (slot + Offset(v, k, n)) % n \in eligible}

WriteTarget_OffersPurger(slot, n, v, eligible) ==
  LET offers == {k \in 0 .. n - 1 : (slot + Offset(v, k, n)) % n \in eligible}
  IN  {(slot + Offset(v, k, n)) % n :
         k \in {k \in offers : \A i \in offers : k <= i}}

WriteTarget(slot, n, v, eligible) ==
  LET offers == Offers(slot % n, n, v, eligible)
  IN  IF n <= 0 THEN {}
      ELSE IF offers = {} THEN {slot % n} \cap eligible
      ELSE {((slot % n) + Offset(v, k, n)) % n :
              k \in {k \in offers : \A i \in offers : k <= i}}

-----------------------------------------------------------------------------
(***************************************************************************)
(* evaluateRotation: spec.accesslogPurge and spec.rotation become a plan.  *)
(* A declaration is a record of the fields                                 *)
(*   enabled, mode, slotLength, slotsFromWriteToPurge, leadTime, interval  *)
(* the last being spec.accesslogPurge.interval.                            *)
(***************************************************************************)
Modes == {"PurgeAndWrite", "PurgeOnly", "WriteOnly"}

DeclaresSchedule(decl) == decl.mode # "WriteOnly"
Unusable(option)       == \E d \in option : d <= 0 \/ d % Second # 0

\* Rotation of a single pod: every displacement is a multiple of n.
ResolvedSlots(n, decl) ==
  LET v == GetOr(decl.slotsFromWriteToPurge, 1) % n IN IF v = 0 THEN 1 ELSE v

ResolvedLead(decl) == GetOr(decl.leadTime, 0)

LeadOutOfRange(n, decl) ==
  LET lead == ResolvedLead(decl)
  IN  lead < 0 \/ (lead > 0 /\ lead >= (n - 1) * Get(decl.slotLength))

\* The reason RotationConfigured publishes: the first check that speaks.
RotationReason(n, decl) ==
  IF decl.enabled /\ DeclaresSchedule(decl) /\ decl.interval # {}
    THEN "ScheduleDeclaredTwice"
  ELSE IF Unusable(decl.interval) THEN "PurgeIntervalNotUsable"
  ELSE IF ~decl.enabled THEN "RotationDisabled"
  ELSE IF decl.slotLength = {} THEN "SlotLengthMissing"
  ELSE IF Get(decl.slotLength) <= 0 THEN "SlotLengthNotPositive"
  ELSE IF Unusable(decl.slotLength) THEN "SlotLengthNotWholeSeconds"
  ELSE IF /\ decl.mode # "PurgeAndWrite"
          /\ decl.slotsFromWriteToPurge \cup decl.leadTime # {}
    THEN "FieldHasNoReferentInMode"
  ELSE IF n > 1 /\ \E v \in decl.slotsFromWriteToPurge : v % n = 0
    THEN "WriteSlotCollidesWithPurge"
  ELSE IF LeadOutOfRange(n, decl) THEN "LeadTimeOutOfRange"
  ELSE "RotationActive"

\* A plan that does not rotate still purges, on the declared interval when
\* rotation is off and on the default one when the declaration was refused.
FlatPlan(n, interval, reason) ==
  [phasesActive |-> FALSE, writerActive |-> FALSE, slotLength |-> 0,
   leadTime |-> 0, interval |-> interval, replicas |-> n,
   slotsFromWriteToPurge |-> 0, reason |-> reason]

EvaluateRotation(n, decl) ==
  LET reason == RotationReason(n, decl)
      t      == Get(decl.slotLength)
      flat   == GetOr(decl.interval, DefaultInterval)
  IN  IF reason = "RotationDisabled" THEN FlatPlan(n, flat, reason)
      ELSE IF reason # "RotationActive" THEN FlatPlan(n, DefaultInterval, reason)
      ELSE [phasesActive |-> DeclaresSchedule(decl),
            writerActive |-> decl.mode # "PurgeOnly",
            slotLength |-> t, leadTime |-> ResolvedLead(decl),
            interval |-> IF DeclaresSchedule(decl) THEN n * t ELSE flat,
            replicas |-> n, slotsFromWriteToPurge |-> ResolvedSlots(n, decl),
            reason |-> reason]

-----------------------------------------------------------------------------
(***************************************************************************)
(* resolveRetention and planPodPurge: the value for one pod, and the one   *)
(* to fall back to when its slapd does not know the phase.  A database's   *)
(* declaration has the fields enabled and retention.                       *)
(***************************************************************************)
ResolveRetention(db) ==
  IF ~db.enabled THEN 0
  ELSE IF Unusable(db.retention) THEN DefaultRetention
  ELSE GetOr(db.retention, DefaultRetention)

PlanPodPurge(plan, db, ordinal) ==
  LET keep  == ResolveRetention(db)
      phase == IF plan.phasesActive
                 THEN {PurgePhase(ordinal, plan.replicas, plan.slotLength)}
                 ELSE {}
  IN  [value    |-> ComposePurge(keep, plan.interval, phase),
       fallback |-> IF plan.phasesActive
                      THEN ComposePurge(keep, plan.interval, {}) ELSE {}]
=============================================================================
