--------------------------- MODULE WriteRotation ----------------------------
(***************************************************************************)
(* The rotating write endpoint and the purge schedule on the pods, over    *)
(* the grid of PurgeGrid (operator/internal/controller/writerotation.go,   *)
(* the end of Reconcile in slapdcluster_controller.go, and the purge half  *)
(* of slapddatabase_controller.go).                                        *)
(*                                                                         *)
(* Two controllers and every pod's slapd share one clock.  A pass of the   *)
(* SlapdCluster controller reads the clock once, points the Service        *)
(* <cluster>-write at one pod, and asks to be woken again; a pass of the   *)
(* SlapdDatabase controller writes olcAccessLogPurge on the pods it can    *)
(* reach; slapd purges at the instants its own value names.  Passes take   *)
(* no time: the clock stands while one is due.                             *)
(*                                                                         *)
(* Environment is the set of adverse behaviours the environment may show:  *)
(*   "flap"     pods become unready and ready again                        *)
(*   "edit"     the user edits spec.replicas, rotation and retention       *)
(*   "down"     the operator dies, also within a pass, and comes back      *)
(*   "blind"    a pass may fail to list the pods                           *)
(*   "held"     a restore's preflight keeps failing: passes return early   *)
(***************************************************************************)
EXTENDS PurgeGrid, FiniteSets

CONSTANTS
  MaxN,          \* bound on spec.replicas
  Cycle,         \* the clock counts ticks modulo this multiple of every period
  Declarations,  \* the purge and rotation declarations a user may write
  Retentions,    \* the accesslogPurge declarations of the SlapdDatabase
  Replicated,    \* spec.replication.enabled
  RetryAfter,    \* the requeue of a cluster that is not Running, ten seconds
  CsnCheck,      \* csnCheckInterval
  HoldRetry,     \* the requeue of a preflight that failed, thirty seconds
  Patched,       \* the pods whose slapd knows the phase of olcAccessLogPurge
  Environment    \* the adverse behaviours of the environment, see above

ASSUME RotationConstants ==
  /\ MaxN \in Nat \ {0}
  /\ Cycle \in Nat \ {0} /\ Cycle % Second = 0
  /\ Replicated \in BOOLEAN
  /\ {RetryAfter, CsnCheck, HoldRetry} \subseteq Nat \ {0}

\* The fields of the two specs: metav1.Duration and int pointers.
ASSUME DeclaredTypes ==
  /\ \A d \in Declarations :
       /\ d.enabled \in BOOLEAN /\ d.mode \in Modes
       /\ d.slotLength \cup d.slotsFromWriteToPurge \cup d.leadTime
            \cup d.interval \subseteq Int
  /\ \A r \in Retentions : r.enabled \in BOOLEAN /\ r.retention \subseteq Int

\* The clock wraps between two periods of any rotation the gate accepts.
ASSUME CycleIsPeriod ==
  \A n \in 1 .. MaxN, d \in Declarations :
    RotationReason(n, d) = "RotationActive"
      => Cycle % (n * Get(d.slotLength)) = 0

VARIABLES
  now,       \* the clock, in ticks modulo Cycle
  replicas,  \* spec.replicas
  decl,      \* spec.accesslogPurge.interval and spec.rotation
  db,        \* the SlapdDatabase's spec.replication.accesslogPurge
  ready,     \* the read-write pods that report Ready
  held,      \* a restore is in Preflight, and passes return early
  selector,  \* what the Service <cluster>-write selects
  running,   \* SlapdCluster.status.phase = Running
  wait,      \* ticks until RequeueAfter fires; 0 for no requeue
  pending,   \* an event or an elapsed requeue asks for a pass
  alive,     \* the operator is up
  cfg        \* each pod's olcAccessLogPurge: empty, or the value's fields

vars == <<now, replicas, decl, db, ready, held, selector, running, wait,
          pending, alive, cfg>>

Ordinals   == 0 .. MaxN - 1
Plan       == EvaluateRotation(replicas, decl)
NoService  == [kind |-> "absent", pod |-> 0]
Fleet      == [kind |-> "fleet", pod |-> 0]
Writer(k)  == [kind |-> "pod", pod |-> k]
Bounds     == {RetryAfter, CsnCheck, HoldRetry}
MaxWait    == CHOOSE m \in Bounds \cup {Cycle} :
                \A b \in Bounds \cup {Cycle} : b <= m
LogAges    == [days : Nat, hh : 0 .. 23, mm : 0 .. 59, ss : 0 .. 59]
PurgeValues == [retention : LogAges, interval : LogAges,
                phase : {{}} \cup {{a} : a \in LogAges}]

(***************************************************************************)
(* The type invariant: in particular every value on a pod has the fields   *)
(* log_age_parse takes, and no requeue asks for more than the bounds.      *)
(***************************************************************************)
TypeOK ==
  /\ now \in 0 .. Cycle - 1
  /\ replicas \in 1 .. MaxN
  /\ decl \in Declarations
  /\ db \in Retentions
  /\ ready \subseteq Ordinals
  /\ selector \in {NoService, Fleet} \cup {Writer(k) : k \in Ordinals}
  /\ wait \in 0 .. MaxWait
  /\ {running, pending, alive, held} \subseteq BOOLEAN
  /\ DOMAIN cfg = Ordinals
  /\ \A k \in Ordinals : \A value \in cfg[k] :
       /\ value.retention \in LogAges /\ value.interval \in LogAges
       /\ \A age \in value.phase : age \in LogAges

\* A cluster that is up, as the operator finds it when it starts.
Init ==
  /\ now = 0
  /\ replicas \in 1 .. MaxN
  /\ decl \in Declarations
  /\ db \in Retentions
  /\ ready = 0 .. replicas - 1
  /\ held = FALSE
  /\ selector = NoService
  /\ running = FALSE
  /\ wait = 0
  /\ pending = TRUE
  /\ alive = TRUE
  /\ cfg = [k \in Ordinals |-> {}]

-----------------------------------------------------------------------------
(***************************************************************************)
(* A pass of the SlapdCluster controller.                                  *)
(***************************************************************************)

\* mergeRequeue
MergeRequeue(a, b) == IF a <= 0 THEN (IF b > 0 THEN b ELSE 0)
                      ELSE IF b <= 0 \/ a <= b THEN a ELSE b

RequeueAfterFor_InsideReplication(isRunning, rotation) ==
  IF ~isRunning THEN MergeRequeue(RetryAfter, rotation)
  ELSE IF Replicated THEN MergeRequeue(CsnCheck, rotation) ELSE 0

\* requeueAfterFor
RequeueAfterFor(isRunning, rotation) ==
  MergeRequeue(IF ~isRunning THEN RetryAfter
               ELSE IF Replicated THEN CsnCheck ELSE 0, rotation)

RetireWriteService_LeftAlone(current) == current

\* retireWriteService: a Service that names a pod becomes the whole fleet's.
RetireWriteService(current) == IF current.kind = "pod" THEN Fleet ELSE current

\* readyOrdinals and eligibleForWrites, of the pods the pass could list
Eligible(listed) == ready \cap listed

\* reconcileWriteService: the Service it leaves, and the requeue it asks for.
WriteService(plan, listed) ==
  LET slot   == WriterSlot(now, plan.leadTime, plan.slotLength, plan.replicas)
      target == WriteTarget(slot, plan.replicas, plan.slotsFromWriteToPurge,
                            Eligible(listed))
  IN  IF ~plan.writerActive THEN RetireWriteService(selector)
      ELSE IF target = {} THEN selector ELSE Writer(Get(target))

RotationRequeue(plan) ==
  IF plan.writerActive
    THEN NextWriterMove(now, plan.leadTime, plan.slotLength) ELSE 0

\* setReadyPhase reaches Running
AllReady == Cardinality(ready) >= replicas

Listings == {Ordinals} \cup (IF "blind" \in Environment THEN {{}} ELSE {})

\* A pass the restore handles takes the restore's requeue, and says Running.
Pass ==
  /\ alive /\ pending
  /\ \E plan \in {Plan}, listed \in Listings :
       /\ selector' = WriteService(plan, listed)
       /\ wait' = IF held THEN HoldRetry
                  ELSE RequeueAfterFor(AllReady, RotationRequeue(plan))
  /\ running' = (held \/ AllReady)
  /\ pending' = FALSE
  /\ UNCHANGED <<now, replicas, decl, db, ready, held, alive, cfg>>

\* The operator dies in the middle of a pass, after it applied the Service.
PassDies ==
  /\ "down" \in Environment
  /\ alive /\ pending
  /\ selector' = WriteService(Plan, Ordinals)
  /\ alive' = FALSE
  /\ UNCHANGED <<now, replicas, decl, db, ready, held, running, wait,
                 pending, cfg>>

-----------------------------------------------------------------------------
(***************************************************************************)
(* A pass of the SlapdDatabase controller, and slapd.                      *)
(***************************************************************************)

\* slapd takes a value whose interval is positive and above its phase; one
\* without the patch refuses any phase (isPurgeArityRejection).
SlapdAccepts(k, value) ==
  /\ ParseLogAge(value.interval) > 0
  /\ \A age \in value.phase : /\ k \in Patched
                              /\ ParseLogAge(age) < ParseLogAge(value.interval)

EnsureAccesslogPurge_NoFallback(k, pp, live) ==
  IF pp.value = {} \/ SlapdAccepts(k, Get(pp.value)) THEN pp.value ELSE live

\* ensureAccesslogPurge: what the pod holds after the value, then perhaps the
\* fallback, was offered to it.
EnsureAccesslogPurge(k, pp, live) ==
  IF pp.value = {} \/ SlapdAccepts(k, Get(pp.value)) THEN pp.value
  ELSE IF k \notin Patched /\ pp.fallback # {} THEN pp.fallback
  ELSE live

\* applyToPods on the declared pods that answer.  The pass needs a Running
\* cluster.
ApplyToPods(reached) ==
  /\ alive /\ running
  /\ \E plan \in {Plan} :
       cfg' = [k \in Ordinals |->
                 IF k \in reached
                   THEN EnsureAccesslogPurge(k, PlanPodPurge(plan, db, k), cfg[k])
                   ELSE cfg[k]]
  /\ UNCHANGED <<now, replicas, decl, db, ready, held, selector, running,
                 wait, pending, alive>>

\* Pods of the declared size that are ready.
Candidates == ready \cap 0 .. replicas - 1

\* slapd's purge task: due at phase + i * interval, counted from the epoch, of
\* its present value.  The one run off this grid, right after slapd starts or
\* the value first appears, is left out, and a task without a phase, which
\* counts from its last run, is put on the grid of phase 0.
Purges(k) ==
  \E value \in cfg[k] :
    LET interval == ParseLogAge(value.interval)
        phase    == GetOr({ParseLogAge(a) : a \in value.phase}, 0)
    IN  /\ now % Second = 0
        /\ (Seconds(now) - phase) % interval = 0

-----------------------------------------------------------------------------
(***************************************************************************)
(* The clock, the operator's process, the pods and the user.               *)
(***************************************************************************)
Tick ==
  /\ ~(alive /\ pending)
  /\ now' = (now + 1) % Cycle
  /\ wait' = IF alive /\ wait > 0 THEN wait - 1 ELSE wait
  /\ pending' = (pending \/ (alive /\ wait = 1))
  /\ UNCHANGED <<replicas, decl, db, ready, held, selector, running, alive, cfg>>

\* A new process lists everything, which asks for a pass.
Crash ==
  /\ "down" \in Environment /\ alive
  /\ alive' = FALSE
  /\ UNCHANGED <<now, replicas, decl, db, ready, held, selector, running,
                 wait, pending, cfg>>

Restart ==
  /\ ~alive
  /\ alive' = TRUE /\ pending' = TRUE /\ wait' = 0
  /\ UNCHANGED <<now, replicas, decl, db, ready, held, selector, running, cfg>>

\* The StatefulSet's status tells the controller of every readiness change.
PodFlaps(k) ==
  /\ k \in ready => "flap" \in Environment \/ k >= replicas
  /\ k \notin ready => k < replicas
  /\ ready' = IF k \in ready THEN ready \ {k} ELSE ready \cup {k}
  /\ pending' = TRUE
  /\ UNCHANGED <<now, replicas, decl, db, held, selector, running, wait, alive,
                 cfg>>

Edit ==
  /\ "edit" \in Environment
  /\ \/ replicas' \in 1 .. MaxN /\ UNCHANGED <<decl, db>>
     \/ decl' \in Declarations /\ UNCHANGED <<replicas, db>>
     \/ db' \in Retentions /\ UNCHANGED <<replicas, decl>>
  /\ pending' = TRUE
  /\ UNCHANGED <<now, ready, held, selector, running, wait, alive, cfg>>

Hold ==
  /\ "held" \in Environment
  /\ held' = ~held
  /\ pending' = TRUE
  /\ UNCHANGED <<now, replicas, decl, db, ready, selector, running, wait,
                 alive, cfg>>

Next ==
  \/ Pass \/ PassDies
  \/ \E reached \in SUBSET Candidates : ApplyToPods(reached)
  \/ Tick
  \/ Crash \/ Restart
  \/ \E k \in Ordinals : PodFlaps(k)
  \/ Edit
  \/ Hold

Spec == Init /\ [][Next]_vars

(***************************************************************************)
(* Fairness: time passes, the workqueue runs what is due, both controllers *)
(* come round, a dead operator is restarted, pods become ready.            *)
(***************************************************************************)
Fairness ==
  /\ WF_vars(Tick) /\ WF_vars(Pass) /\ WF_vars(Restart)
  /\ WF_vars(ApplyToPods(Candidates))
  /\ \A k \in Ordinals : WF_vars(k \notin ready /\ PodFlaps(k))

FairSpec == Spec /\ Fairness

-----------------------------------------------------------------------------
(***************************************************************************)
(* Safety.                                                                 *)
(***************************************************************************)

\* The operator is up and has answered every event.
Settled == alive /\ ~pending

\* The SlapdDatabase controller has reached pod k since the last edit.
Converged(k) ==
  cfg[k] = EnsureAccesslogPurge(k, PlanPodPurge(Plan, db, k), cfg[k])

\* "It must never select NOTHING" (writeservice.go:53): whenever a pod of the
\* declared size is ready, the endpoint selects a ready one, the purging pod
\* included when it is the last.  And "follow the write Service and no purge
\* ever runs where your writes land" (writeservice.go:42): with the phases of the
\* plan on the pods, a lead of less than a slot and no restore in Preflight, no
\* pod begins to purge while it is selected, unless no other could be.
WriterReadyAndQuiet ==
  Settled /\ Plan.writerActive =>
    /\ Candidates # {} => selector.kind = "pod" /\ selector.pod \in Candidates
    /\ Plan.phasesActive /\ ~held /\ Plan.leadTime < Plan.slotLength =>
         \A k \in Candidates \cap Patched :
           Purges(k) /\ Converged(k) /\ Candidates # {k} => selector # Writer(k)

\* Turning the rotation off, or declaring it so that it is refused, leaves no
\* pod pinned as the writer (retireWriteService).
OffUnpinsWriter == Settled /\ ~Plan.writerActive => selector.kind # "pod"

\* The synchronised purge the feature exists to remove: two pods with the
\* phases of the plan never begin to purge at the same instant.
StaggeredPurges ==
  Plan.phasesActive =>
    \A j, k \in 0 .. replicas - 1 :
      j # k /\ {j, k} \subseteq Patched /\ Converged(j) /\ Converged(k)
        => ~(Purges(j) /\ Purges(k))

\* A waiting controller sleeps no further than the next move of the writer,
\* with or without replication (requeueAfterFor), and never polls at zero.
WakesForNextMove ==
  Settled /\ Plan.writerActive /\ ~held =>
    /\ wait > 0
    /\ \A i \in 0 .. wait - 1 :
         WriterSlot(now + i, Plan.leadTime, Plan.slotLength, replicas)
           = WriterSlot(now, Plan.leadTime, Plan.slotLength, replicas)

(***************************************************************************)
(* Liveness.                                                               *)
(***************************************************************************)

\* While no pod flaps and nothing is edited, the endpoint visits every pod.
VisitsEveryPod ==
  \A k \in Ordinals :
    k < replicas /\ Plan.writerActive ~> selector = Writer(k)

\* An unpurged journal ends in stalled writes: whatever the cluster and the
\* database declare short of enabled: false, and whatever the image knows of
\* phases, every pod keeps purging.
JournalsBounded ==
  \A k \in Ordinals : k < replicas /\ db.enabled ~> Purges(k)
=============================================================================
