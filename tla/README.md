# A TLA+ verification of slaptain

slaptain is a Kubernetes operator that runs OpenLDAP. This directory holds TLA+
models of the parts of the operator where the order of events matters, the TLC
configurations that check them on small instances, and TLAPS proofs of what
matters most for every size. All paths below are relative to `src/`; `C/` stands
for `operator/internal/controller/`.

Files: `X.tla` is a model, `MCX.tla` instantiates it for TLC, `XProofs.tla`
holds theorems, `*.cfg` are the runs. `PROJECT.json` maps every
definition to the lines it models and lists runs, mutants, hazards, findings and
theorems. A definition whose name has an underscore (`Targets_FirstPodOnly`) is a
faulty variant of the one it precedes: putting it in that one's place must make
TLC report the property it is listed with.

To check a run: `tlc -config RestoreSafety.cfg MCClusterRestore`. To check the
proofs: `tlapm` on each of the eight `*Proofs.tla` (`ClusterRestoreProofs`,
`WriteRotationProofs`, `BackupRunProofs`, `BackupScheduleProofs`,
`RidCoordinatesProofs`, `ReplicationProofs`, `PodConfigProofs`,
`SeedFoundingProofs`).

## 1. The system

| Component | State it keeps | Operations | Hard behaviour | What makes it correct |
|---|---|---|---|---|
| **Restore machine** of the SlapdCluster controller (`C/slapdcluster_restore.go`, `restore_job.go`, `job_reap.go`) | `status.restore`, the SlapdRestores' status, `status.restoreApplied` of each SlapdDatabase, one Job per pod and database | start (bootstrapFrom or SlapdRestore), Preflight, ScalingDown, Restoring, ScalingUp, Failed | five API objects written one after the other by passes that may stop anywhere and that read a cache; destructive Jobs; full downtime | a volume belongs to slapd or to one Job; a half-restored directory is never served; every restore ends; nothing is done twice or skipped |
| **Purge and write rotation** (`C/purgerotation.go`, `rotation_gate.go`, `writeservice.go`, `writerotation.go`, `accesslog_purge_converged.go`) | the Service `<cluster>-write`, `olcAccessLogPurge` on each pod | the gate, the grid, the choice of a writer, requeueing, writing the value with its fallback | three clocks' worth of actors (two controllers, each slapd) that must agree without talking; boundaries, modulo, leads | no purge starts on the writer, writers rotate, journals stay bounded whatever is declared |
| **SlapdCluster controller** (`C/slapdcluster_controller.go`) | `status.phase`, StatefulSets, Services, ConfigMaps | one long pass with early returns (suspend, mesh, TLS gate, restore) | a stale `status.restore` steers the StatefulSet of the same pass | the StatefulSets follow the restore, the requeue never starves a duty |
| **SlapdDatabase controller** (`C/slapddatabase_controller.go`, 4270 lines) | `cn=config` of every pod, `status.seedApplied`, `dataObserved`, phase | per-pod database, overlays, tunables, seed, identities, stanzas, teardown | partial failure per pod; an atomic Replace of `olcSyncRepl` that deletes what it does not list; a one-shot seed that races replication | stanzas only to healthy pods with identities everywhere; never a short set; seeded at most once, at one site |
| **Backups** (`C/slapdbackup_controller.go`, `backup_source.go`, `backup_job.go`) | `status` of a SlapdBackup, its Job, the object in S3 | pending, record source CSN, create Job, observe, terminal, reap | status writes whose failure is swallowed; a Job that expires; a CSN read that races slapcat | terminal once, recorded CSN no newer than the dump, volumes released |
| **Scheduled backups** (`C/slapdscheduledbackup_controller.go`) | `lastScheduleTime`, child SlapdBackups | due time, create child, retention | missed ticks, stale status, name and key collisions in one second | one backup per due time, retention never deletes what another still needs |
| **Directory Jobs** (`C/dirjob.go`, `database_dirs.go`) | hash-named Jobs per pod | ensure directories, reap the superseded | lease on a volume a restore wants | released before anything else takes the volume |
| **RIDs** (`operator/internal/ridcoord`, `C/ridsegment.go`, `ridstanza.go`, `ridpeerresolve.go`) | `status` condition, `olcSyncRepl` | validate a layout, local/remote/decode, judge a segment, build stanzas | 999 ids shared by databases, pods and sites; a failed list must not be read as "no collision" | no two links of one pod share an id; withhold keeps what is there |
| **Mesh** (`C/mesh_derive.go`, `mesh_resolve.go`) | none (derived) | derive serverID bases and peers per site, resolve Secrets | each site derives alone and all must agree | serverIDs disjoint, peers symmetric |
| **CSN convergence, observations** (`C/csn*.go`, `obsrecord.go`, `obscollector.go`, `obsmetrics/store.go`) | conditions, the observation store | compare contextCSNs, record, render on scrape | a partial pass must not look fresh | staleness visible |
| **TLS gate, startup configuration** (`C/tls_gate.go`, `startup_config*.go`, `startup_only_guard.go`, `images/slapd-init`) | ConfigMap, condition | withhold the StatefulSet, apply the table at start | values only a restart takes | the verdict describes what the pods run |
| **Schemas** (`C/slapdschema_controller.go`) | `cn=schema,cn=config` of each pod | add, modify per pod | pods that differ | additive only |
| **Tunables** (`C/*tunables.go`) | attributes in `cn=config` | converge value by value | attributes slapd refuses live | reported, never half applied |
| S3 client, exporter, metrics, slctl, charts and images | none | I/O, rendering | - | - |

How they interact: the SlapdCluster controller owns the StatefulSets and forces
them to zero during a restore; it waits for each SlapdDatabase to be Running
before it starts one, and a SlapdDatabase waits for the SlapdCluster to be
Running before it touches a pod. Both evaluate the same pure rotation gate. The
restore, backup and directory Jobs and the pods compete for the same volumes.
Everything the controllers read comes from informer caches; status goes out as
forced server-side apply (SlapdCluster, SlapdDatabase, SlapdBackup) or as an
update that a stale resourceVersion rejects (SlapdRestore).

## 2. Plan

| Stage | Modules | State |
|---|---|---|
| A. Restore | `ClusterRestore`, abstract `OfflineSwap`, proofs of the safety core and of the refinement | done |
| B. Rotation | `PurgeGrid` (arithmetic), `WriteRotation` (actors), proofs of its safety properties | done |
| C. Backups | `BackupRun`, `BackupSchedule`, proofs of the safety properties of both | done; left: the composition of `BackupRun` with `ClusterRestore` over pod 0's volume |
| D. RIDs, mesh, stanzas | `RidCoordinates`, `MeshWiring`, `Replication` composes both; proofs of the arithmetic and of the composition | done |
| E. A pod's configuration | `CnConfig` (what is wanted, the entries), `PodConfig` (everybody who writes it), proofs of its safety properties | done |
| F. Founding | `SeedFounding` with proofs | done |
| G. Observations | CSN convergence, observation store, metrics | left out: nothing acts on them |

## 3. The restore

### 3.1 `ClusterRestore`

| Variable | Code |
|---|---|
| `spec` | `spec.replicas`, `spec.readReplicas` (0 is read as 1 by the code; sizes start at 1) |
| `sts` | `spec.replicas` of the two StatefulSets |
| `pods` | every pod: gone, starting, ready; a pod that is not gone holds its volumes |
| `data` | what each pod's volume holds of each database: `Wiped`, `Original`, or the id of the restore that loaded it |
| `restore`, `seen` | `status.restore` at the API server, and as the cache returns it to the next pass |
| `scPhase`, `dbPhase`, `restoreApplied` | status of the SlapdCluster and the SlapdDatabases |
| `sr`, `srSeen`, `born` | phase of each SlapdRestore, at the API server and in the cache; its age |
| `jobs` | the restore Jobs with what they have done |
| `started`, `usable` | source of restore ids; whether an artifact passes the preflight |

`Pass(ok)` is one pass of `Reconcile`: it always applies the StatefulSets from
the status it *read*, then runs the handler of the phase it read, then writes the
status (`ok`) or stops before that (`~ok`: the operator dies, or an update is
rejected). A handler that creates Jobs, marks databases or updates the request
before the status write may be stopped after any part of that work. Pods, Jobs,
the SlapdDatabase controller, syncrepl, the cache and the user are actions of
their own. `Environment` names the adverse behaviours a run admits: `crash`,
`lag` (stale cache), `jobfail`, `ttl` (finished Jobs expire), `unready`,
`edit`, `delete`, `source` (the artifact comes and goes), `noimage`.

What is abstracted: S3, LDIF and password checks are one verdict per artifact
(`usable`); a Job is download, wipe, load; the cache jumps to the latest version
(it never shows an intermediate one); StatefulSets and Jobs are read as they are;
ordinals above the declared size keep the volumes of an earlier, larger size;
`JobBase` is the first 24 characters of a database's name, all a Job name keeps
of it. A pass that returns before the restore (suspend, mesh error, TLS gate)
does nothing here and is a stutter. `DatabasePass` knows of pods and of the
cluster's phase only, not of other pending work.

### 3.2 `OfflineSwap`

The promise to a client, with two variables: replicas that are up hold one
complete content, and content changes only while none is up. `ClusterRestore`
implements it for the read-write pods (`ImplementsSwap`), whatever the operator,
the cache and the Jobs do, as long as nobody edits `spec.replicas` meanwhile.

### 3.3 Runs

| Run | Bounds | Checks |
|---|---|---|
| `restore_safety` (246 000 states) | 2 rw pods, 1 ro pod, every size up to that; 2 databases, one with bootstrapFrom; 1 SlapdRestore of the other; 3 restores; crash, lag, jobfail, delete, unready, noimage | `JobsBelongToRestore`, `BootstrapOnce`, the inductive `Coordinated`; `ForwardOnly`, `MarkedMeansLoaded`, `ImplementsSwap` |
| `restore_edit` (709 000) | 1 database, 1 request, 2 restores; crash, ttl, jobfail, edit, source, delete | `ExclusiveVolumes`, `HalfRestoredNeverServes` |
| `restore_live` (50 000) | 1 database with bootstrapFrom and two SlapdRestores, 4 restores; crash, jobfail; fair | `RequestsComplete`, `ServiceReturns` |

Two read-write pods are enough to have one loaded and one not; one read-only pod
to have one left behind; two databases to restore one and not the other, or share
a Job name; `MaxRestores` lets each restore be followed by another.

Fairness (`Fairness`): the controller's pass with its status write, because every
waiting phase requeues itself and every object it waits for is watched, and an
operator that dies is restarted; the StatefulSet controller and kubelet, the
Jobs, syncrepl and the cache, which are Kubernetes' and slapd's own loops. Nothing
is assumed of the user, and nothing makes a Job fail.

### 3.4 Observations

Made with this model and not kept as runs. Restore Job names keep 24 characters of
the database's name (`C/slapdcluster_restore.go:499`): two databases that agree in
them share Jobs, and one is marked restored without having been loaded, which
`MarkedMeansLoaded` shows as soon as `JobBase` maps both to one name. Deleting the
SlapdRestore during Restoring makes every pass fail (`:449`; the comment at `:367`
says "the machine continues regardless") and the cluster stays at zero replicas.
After a failed restore a new SlapdRestore is not read (`:216`; the comment below it
says "issue a new SlapdRestore").

With one slow pod, a fast pod's finished Job expires (600 s), looks as if it had never
been created, and wipes and loads again (`C/restore_job.go:205`; the comment there
calls the TTL "only a backstop for the case where the operator dies"); nothing waits
for read-only pods before their volumes are wiped (`C/slapdcluster_restore.go:147`,
where ADR-014 says "wait for pods gone / PVCs released"); a SlapdRestore that
completed can start a second time while the cache still shows it Restoring
(`C/slapdcluster_restore.go:335`); a SlapdRestore reported Failed can go on to
Completed when the failed Job expires before `status.restore` was written (`:168`); a
pod added by an edit of `spec.replicas` during a restore comes up with what its volume
held before, and a scale-down leaves the restore in ScalingUp, which waits for the
original count (`:192`). Stale reads together with expiring Jobs (`lag` and `ttl`) can
take the machine back to Restoring; the runs and the theorems exclude the combination
(`ReadsOrJobsLast`). With `crash` and `ttl` a database of a bootstrap is restored twice:
the pass that finds every Job complete marks the databases and dies before it writes
ScalingUp (`C/slapdcluster_restore.go:180`), the Jobs expire before the next pass, which
finds none and creates them again; `JobsOutlastCrashes` is the hypothesis that excludes
it.

### 3.5 Proofs

`ClusterRestoreProofs` proves for all sizes, databases, requests and environments

- `TypeCorrect`: `Spec => []TypeOK`;

and, assuming `ReadsOrJobsLast` (not both `lag` and `ttl`) and `DistinctNames`
(no two databases share a Job name; 3.4 tells what happens otherwise),

- `CoordinationHolds`: `Spec => []Coordinated`, and from it
- `VolumesExclusive`, `HalfRestoredStaysDown`, `JobsReaped`, `MachineForwardOnly`.

None of the four is inductive by itself. That no Job meets a pod depends on the
pods having been gone when the phase became Restoring, and on no later pass
scaling up again, although a pass may act on a status one phase old. `Coordinated`
is the strengthening, in six parts: the cached status is at most one step behind
(`StatusFollows`); the pods are held down from the moment Restoring is written
until a pass *reads* that it is over (`HeldDown`); Jobs are those of the cached
restore (`JobsTracked`); whoever reads, or is about to read, ScalingUp finds all
targets loaded (`LoadedBeforeUp`), and whoever is about to read Failed still finds
the failed Job (`FailureRemembered`), so that a pass on a stale status comes to
the verdict the newer one already holds; and a finished Job's volume holds its
restore (`VolumesTracked`). The proof has one lemma per handler and part.

`BootstrapOnceHolds` needs more: a Job of a bootstrap and the mark of its database are
written by different passes, and the mark comes before the phase that ends the
restore. `OneShot` adds that cached and stored status are of one request, that a
restore before its Jobs, or failed, has marked nothing, and that where Restoring is
read with something marked every Job is there and complete, so that the pass creates
none. Its hypothesis is `JobsOutlastCrashes`: Jobs do not expire where passes die or
read a stale status.

The last part of `ClusterRestoreProofs` proves `MarkedOnlyWhenLoaded` under the same
assumptions and, assuming also that nobody edits `spec.replicas` (`NoEdits`),

- `AgreementHolds`: every pod that may run is a target of the restore, and pods
  agree on databases not being restored;
- `NeverMixed`: `Spec => []NoMixedServing`;
- `RestoreImplementsSwap`: `Spec => Swap!Spec`, by the refinement mapping
  `up = pods that are not gone`, `copy = data`.

## 4. The rotation

### 4.1 `PurgeGrid` and `WriteRotation`

`PurgeGrid` is the arithmetic: the gate `EvaluateRotation` with its order of
refusals, `RotationSlot`, `PurgePhase`, `WriteTarget`, `NextWriterMove`, and the
rendering of `olcAccessLogPurge` as the fields `log_age_parse` reads
(`FormatLogAge`, `ParseLogAge`). Time is in ticks, `Second` of them to the second,
so that durations may be no whole number of seconds. An optional field is a set of
at most one element.

`WriteRotation` has the clock, the declarations, the ready pods, the Service's
selector, the controller's requeue (`wait`) and pending events, the operator's
process and each pod's `olcAccessLogPurge`. `Pass` is the rotation's part of the
SlapdCluster pass: choose the writer, apply or retire the Service, ask for the
requeue; `ApplyToPods` is the SlapdDatabase controller writing the value to any
subset of the ready pods, with the fallback for a slapd without the phase patch;
`Purges` is when slapd begins to purge. `Environment`: `flap`, `edit`, `down`,
`blind` (the pods cannot be listed), `held` (a restore in Preflight takes the
pass over).

What is abstracted: passes take no time, the clock stands while one is due; the
clock runs modulo `Cycle`, a multiple of every period; only the start of a purge
is modelled, not how long it takes; slapd's one purge off the grid, right after it
starts or first sees a value, is left out, and a task without a phase is put on the
grid of phase 0. The published conditions are left out.

### 4.2 Runs

| Run | Bounds | Checks |
|---|---|---|
| `rotation_writer` (327 000 states) | up to 3 pods, 5 accepted declarations with slots of 1 and 2 s, leads below a slot; flap, down | `WriterReadyAndQuiet`, `StaggeredPurges` |
| `rotation_edit` (592 000) | up to 2 pods; rotation on, off, write-only and refused; edit, blind, held | `OffUnpinsWriter`, `WakesForNextMove` |
| `rotation_live` (5 700) | up to 3 pods, pod 2 without the patch, every kind of declaration, retention on, unusable and off; fair | `VisitsEveryPod`, `JournalsBounded` |

Fairness: time passes; the workqueue runs what is due; a dead operator restarts;
pods become ready; the SlapdDatabase controller, which resyncs by itself, reaches
all ready pods.

### 4.3 Observations

Made with the model and not kept as runs: `slotsFromWriteToPurge: -1` degrades to
+1 when its pod is not ready, because the gate reduces it modulo n before
`writeTarget` looks at its sign (`C/rotation_gate.go:305`; `docs/PURGE-ROTATION.md`
says "`-1` degrades to `-2`, not to `+1`"); on three pods with displacement -1 the
gate accepts a lead of one slot and a half, with which each writer is selected
before its own purge begins (`C/rotation_gate.go:345`), which is why
`WriterReadyAndQuiet` asks for a lead below one slot; while a restore stays in
Preflight its requeue of 30 s replaces the rotation's, so that the endpoint misses
its move (`C/slapdcluster_controller.go:356`), which is why the property asks for
no such restore.

### 4.4 Proofs

`WriteRotationProofs` proves, for every number of pods, every clock and every set of
declarations of the types of the API (`DeclaredTypes`), on a clock whose `Cycle` is a
multiple of every period on it (`CycleIsPeriod`; the code's clock does not wrap at
all):

- `TypeHolds`, `OffUnpinsWriterHolds`, `WakesForNextMoveHolds`,
  `StaggeredPurgesHolds`;
- `WriterReadyAndQuietHolds`, when no listing of the pods fails (`blind`): a pass that
  cannot list them falls back to all pods, as the code means it to.

The first part is arithmetic on any slot length and size, from the uniqueness of
quotient and remainder (`OneSplit`): the slot is steady until the next boundary and
wraps with the cycle (`SlotSteady`, `SlotWraps`), the offsets `WriteTarget` tries reach
every other pod and never the purging one (`OffsetReaches`, `OffsetLeaves`), so that it
yields that pod only when no other is a candidate, `FormatLogAge` loses nothing
(`LogAgeRoundTrip`), and what a pod reads back of a plan puts its purges where the plan
has them. The second part is the actors. Neither property of the endpoint is
inductive: a tick of the clock may begin a slot. `Sleeps` says that a settled
controller's requeue falls no later than the writer's next move, and `Endpoint` that
until then the selector names the target of the present slot. The least number
principle (`LeastElement`, from the library's well-founded minimum of a set) takes the
place of induction in `WriteTarget`'s search.

## 5. The backups

### 5.1 `BackupRun`

| Variable | Code |
|---|---|
| `sb`, `seen` | `status` of the SlapdBackup at the API server, and as the cache shows it: phase, jobName, whether the source's circumstances are recorded (and with the late caveat), `sourceContextCSN` |
| `job`, `jobSeen` | the Job, what its last slapcat saw, and its conditions as the cache shows them |
| `s3` | what the uploaded object holds |
| `pos` | the contextCSN of pod-0, a number that grows with every write |
| `ready` | database and cluster exist, the cluster is Running, an operator image is set |
| `wake` | a pass is queued or a requeue runs |
| `misread` | history: some pass acted on a cache that was not current |

Each branch of `Reconcile` is one action and ends in `Finish`: the status the pass
read, changed, goes out as a whole; or the apply fails and nobody notices; or the
operator dies before it. `PassDone` is the finished backup, `PassPending` the four
waits, `PassCreates`, `PassWaits` and `PassObserves` the life of the Job. The Job
dumps, uploads, tries again, gives up, and expires. `JobExpires` is the one timed
assumption: ten minutes are longer than a cache lags and than the 10 s between
polls, so that a Job expires only when no pass is due, when passes end at an unready
cluster, or when the operator is down.

Left out: what the conditions mirror of the cluster's convergence, sizes, messages,
deletion of the SlapdBackup, and errors that end a pass before it changed anything
(they are retried: a stutter).

### 5.2 `BackupSchedule`

Time is counted; the cron expression fires at the multiples of `Period`; a backup
is known by the time it is due at (its name) and its object by the time it was
created at (`backupObjectKey`). A pass has two steps, `PassCreates` and
`PassPrunes`, because pruning waits for S3; in between backups may end. A pruning
that fails, or dies, has deleted any part of what it should, but no record before
its object. `timers` are the requeues asked for, which are lost with the operator.
A pass takes no time against cron's minute (`AtRest`) unless `slow`.

Left out: stale reads of the list and of the status, and a second schedule whose
backups share a name (40 characters) or an object key (one second).

### 5.3 Runs

| Run | Bounds | Checks |
|---|---|---|
| `backup_run` (163 000 states) | 3 positions, 3 faults; crash, lost, outage, ttl, jobfail, lag; fair | `FinishedIsRecorded`, `LowerBound`, `TruthfulEnd`, `LeaseReleased`, `FinishedIsFinal`, `BackupEnds` |
| `backup_schedule` (301 000) | a tick every 2 steps, 7 steps, an immediate backup, maxCount 1, maxAge 2, `MaxMissed` 1, 2 faults or an edit; crash, lost, s3fail, fail, suspend; fair | `RecordsMatchObjects`, `MostRecentOnly`, `PrunesOnlyExcess`, `KeepsUp` |

Three positions put a write before and one after a dump; three faults allow a lost
record, a lost verdict and a crash in one run. Seven steps hold three ticks besides
the immediate backup, so that one backup exceeds maxCount and one maxAge; two faults
(a failed backup is one) let a failed deletion meet a crash. The cap of the walk over
missed ticks, `maxMissedSchedules` 100 in the code, is scaled to 1, so that three
ticks missed by an operator that is down, or by a suspended schedule, exceed it. An
edit counts for two faults (`EditCost`).

Fairness: a queued pass runs, timers fire, the operator restarts, the cluster
recovers, the caches catch up, time passes. A Job that is tried again and again
uploads or gives up, since its attempts are bounded (`backoffLimit` 2): hence strong
fairness of `JobUpload \/ JobFails`. Neither run may be held to deadlock freedom: a
finished backup and the end of time are where they stop.

### 5.4 Observations

Beyond `maxMissedSchedules` missed ticks the walk of `dueTime` stops at a tick in the
past (`C/slapdscheduledbackup_controller.go:142`); the backup is created for it, the
status write queues the next pass, and so on until the present is reached: a backfill
of one backup per 101 ticks, where the comment at `:43` says "We only ever create the
single most-recent due backup, never backfill". `MostRecentOnly` states the comment
with that exception and no other: a backup that is not the most recent one is for the
very tick the cap stopped the walk at. Without the exception TLC violates it in 12
states. Two backups of such a backfill are created at the same time, share a key, and
pruning one takes the object of the other; `RecordsMatchObjects` excepts the creation
times two backups had (`shared`, a history variable), and TLC violates it otherwise
(21 states). With the cap at 100 and six steps, slow passes included, `shared` stays
empty: nothing but the backfill makes a schedule collide with itself. On a stale read of the Job the
record is written without the caveat although the Create meets AlreadyExists, a case
the caveat's own text names (`C/backup_source.go:287`); a lost terminal write, or an
outage longer than the Job's TTL, makes the backup run a second time, and replace
its object, although the API calls it run-once (`operator/api/v1alpha1/slapdbackup_types.go:65`);
`immediate` fires again when its status write is lost; with passes that outlast a
tick (`slow`) and a lost apply the requeue is not positive, no event follows, and
the schedule stalls until something else happens (`C/slapdscheduledbackup_controller.go:123`).
The key of an object has a resolution of one second and does not name the schedule
(`C/slapdbackup_controller.go:266`): two backups of one database created in the same
second share an object, and pruning one takes the other's; the model has one
schedule, whose backups are created at different times.

### 5.5 Proofs

`BackupRunProofs` proves, for every number of positions and faults and every
environment, with no assumption beyond the types of the constants (`Unset` is no
number):

- `TypeCorrect`, `RecordSurvives` (`FinishedIsRecorded`), `RecordIsLowerBound`
  (`LowerBound`), `EndIsTruthful` (`TruthfulEnd`), `FinishedStays`
  (`FinishedIsFinal`).

They follow from the inductive `Consistent`. `LowerBound` alone is not inductive: it
says nothing of the position of pod-0, which the next dump will take, nor that an
unrecorded status has no position. `RecordTruth` adds the first and `RecordWhole` the
second; `JobTruth` ties the states of the Job, in the cache as well, to the dump and
the bucket, so that Completed is true also when it is written on an old read;
`JobAtRest` is what no later Job spoils. What stale reads really break is left out by
`misread` and described above.

`LeaseIsReleased` (`LeaseReleased`) rests on `Leased`: a finished status names the Job
(so that `PassDone` finds it), and a condition in the cache was true of the Job that is
there; a controller that finishes a backup is woken by its own write.

`BackupScheduleProofs` proves for every period, horizon and retention:

- `TypeHolds`, with `WellFormed`: records carry the times that were written into them,
  none of the future, and a pass began in the past;
- `PrunesOnlyExcessHolds`, in every environment;
- `MostRecentOnlyHolds`, in every environment, for every cap and every number of
  missed ticks (`LastScannedStops`: the walk ends at the last tick, or at the one the
  cap stops it at);
- `RecordsMatchObjectsHolds`, assuming that no two backups end at the same time
  (`tie`), which is needed, as TLC shows: of two that ended together one pass may
  delete the object of the first and the next one the record of the second.

Passes may be as slow as they like (`slow`) in all four. The argument of the last: what
is pruned is in excess (`PrunedIsExcess`, counting the backups that are kept), and what
is in excess and lost its object but not its record stays in excess while others are
pruned (`ExcessOutlastsPruning`): it is among those every later pass proposes, and
whoever of the newer ones goes because of its age leaves it too old as well. That an
object is deleted for its own record only is `KeysOwn`: two backups have one creation
time only if that time is in `shared`.
The scan's result exists because a bounded set of numbers has a greatest one
(`GreatestElement`).

## 6. Replication

### 6.1 `RidCoordinates`, `MeshWiring`

`RidCoordinates` is `operator/internal/ridcoord`: a layout, the width of a segment
(with the saturation of the 32-bit sum), `Local`, `Remote` and `Decode` with their
refusals, `Refused` being the reserved 0.

`MeshWiring` is what a SlapdMesh gives to one cluster at one site: the refusals of
`deriveClusterWiring` in the order the code tries them, the serverID slot (stride
16), the external peers, the layout with its defaults. A name stands for its
trimmed form. The network block of a mesh is one flag, all a conflict looks at.

### 6.2 `Replication`

| Variable | Code |
|---|---|
| `spec`, `mesh`, `readable` | `spec` of the SlapdCluster and the SlapdMesh; whether the mesh can be read |
| `dbs` | the SlapdDatabases: segment, `replication.enabled`, cleanup policy, deletion |
| `fleet`, `providers`, `secrets` | pods at each peer; `status.externalPeerStatuses`; readable bind passwords |
| `up`, `authdb`, `identity`, `served`, `stanzas` | per pod: it answers, has the authentication database, the identity of each database (never, held, lost with its volume), the databases of `cn=config`, `olcSyncRepl` |
| `pass` | the one pass that runs, with all it has read |

The steps of a pass are actions: `Begin` reads cluster and mesh, `Judge` reads the
mesh again and the sibling databases, `ApplyToPods`, `Identities` with the gate
before the stanzas, `Resolve` for the external peers, and `WritePod` once per pod.
The controller has one worker (`MaxConcurrentReconciles` is not set), so passes do
not overlap; users, pods, discovery and the SlapdCluster controller act between any
two steps. `Environment` names what they may do; `Cost` weighs it against
`MaxEvents`.

Abstracted: a stanza is its RID, its coordinate, the remote ordinal it goes to and, as
history, the layout its RID was derived in; addresses, credentials and options are left out. The network addresses and the
delta-sync options do not decide whether a stanza is written.

Users are careful in two ways that `FreeFor` and `MayLeave` state: a segment is not
taken while stanzas of a database that no longer declares it are on a pod, and of
two databases in a collision the newcomer moves. The code refuses a collision but
does not remember who had the number; without these rules, or with a Retain database
whose CR is gone (`reuse`), one RID is on a pod twice (6.4).

| Run | Bounds | Checks |
|---|---|---|
| `replication` (166 000 states) | 2 databases on 2 segments; 3 cluster specs: 2 rw and 1 ro pods under the mesh, 3 pods (one too many for the layout), a consumer-only cluster with a hand-written peer; 4 meshes: 2 sites, the list reordered and grown, two sites on one index, a ridLayout of other segments; a discovered and a static peer; 3 edits of databases, or one and any other event; fair | `NoSharedRids`, `IdentityBeforeStanza`, `SidsDisjoint`; `KeepsDeclaredLinks`, `Converges` |

`MaxRID` is 12: two segments of the default layout (2 pods, 3 sites) take ten RIDs,
two of the other (4 pods, 2 sites) all twelve, so that a number of the one segment in
the new layout is one of the other in the old. Two databases make a collision; two pods have a link, and a third exceeds
the layout. Fairness: the queue comes back to every database (strong, since a pass
of one disables the start of the other), steps follow each other, and pods,
discovery, Secrets and the mesh recover. Users need not act at all.

### 6.3 Proofs

`RidCoordinatesProofs` proves for every ceiling, every layout (valid or not), every
segment, ordinal and site index:

- `RidsInBand`: what is given out lies in 1..MaxRID and is never 0;
- `RidsDistinct`: two coordinates of one layout never share a RID;
- `DecodeInverts`: `Decode` gives back segment, kind and index.

The only assumption is `BandConstants`: the integers are at least twice as wide as
the ceiling, which 2^31 - 1 and 999 are. `LayoutFacts` shows that a valid layout has
a width that neither overflows nor exceeds the ceiling, so that `Add32` is the sum;
`UniqueQuotient` and `RunOf` place a RID in one run and at one offset.

`ReplicationProofs` proves about `Replication`, for every set of pods, databases,
segments, cluster specs and meshes of the types of the API (`DeclaredTypes`):

- `InvHolds`: `Spec => []Inv`, and from it
- `NoSharedRidsHolds`, assuming no `reuse` (6.4 tells what happens otherwise), for
  every sequence of layouts too;
- `IdentityBeforeStanzaHolds`, `SidsDisjointHolds`, and the action property
  `KeepsDeclaredLinksHolds`.

`NoSharedRids` is about what is on the pods, and what a pass will write is decided
several steps earlier, from declarations that have changed since. `Inv` follows the
number from the one to the other: a database *wields* a segment when it is in one of
its stanzas or in the pass that runs for it, no two databases wield one (`Exclusive`),
and whoever wields one that another database claims, or works under, still declares
it, so that the other is refused (`HoldersDeclare`). What a pass may write it can
address in the layout it judged by (`Licensed`), and one Replace writes all stanzas of
a database on a pod, so that they are of one layout and differ (`WellFormed`, by
`RidsDistinct` and `DecodeInverts`). `SlotsDisjoint` is the arithmetic of
`SidsDisjoint` at the real stride of 16, which no fleet of the run comes near. `Introduced` says that a pass beyond the gate has
given the identity to every provider it will name, and `Linked` that what it resolved
covers what the cluster it read declares.

### 6.4 Observations

With `reuse`, a segment taken over from a Retain database whose CR is gone is on a
pod twice: `handleDeletion` leaves the pods alone (`C/slapddatabase_controller.go:3816`),
while ADR-031 (`docs/adrs/adr-031-rid-coordinates.md:406`) counts on the number being
free. Moving the *established* database of a collision lets the newcomer's pass,
judged before the move, write the same number for a moment.

A change of a mesh's `ridLayout` is "permitted, not forbidden"
(`docs/adrs/adr-031-rid-coordinates.md:468`) and renumbers one database after the
other: a number of the first in the new layout may be one of the second in the old.
`NoSharedRids` excepts two databases whose stanzas are of different layouts, and
nothing else; without the exception TLC violates it in 20 states. The overlap ends
with the second database's next pass, where that pass can write at all: when its
segment does not fit the new layout, the code withholds the stanzas of that database
only (`C/ridsegment.go:128`), the old ones stay, and the overlap is permanent (TLC,
with `MaxRID` 11), while the ADR (`:471`) says that such a change "is refused instead".

A fleet above `podsPerSite` has its stanzas withheld, while its serverIDs are still
derived by ordinal: the seventeenth pod of a site takes the first serverID of the next
slot, although the comment at `C/mesh_derive.go:470` counts on such a fleet being
refused. `SidsDisjoint` therefore speaks of fleets of at most 16, or within the layout
(which admits at most 16); a larger one is its exception (`FitsSlot`).

Read-only pods get no
stanza when the cluster has one replica and no peer (`:2991`), although
`readReplicas` is documented without that condition
(`operator/api/v1alpha1/slapdcluster_types.go:870`). Under `cleanupPolicy: Delete`
ordinals that were scaled away keep the database on their volumes.

## 7. A pod's configuration

### 7.1 `CnConfig`, `PodConfig`

`CnConfig` holds what a SlapdDatabase wants of a read-write pod (which overlays,
which session log, what each tunable resolves to) and the database entries of
`cn=config`, as a sequence: `olcDatabase={N}` is a position, and a delete moves the
later ones. `ConvergeOffline` is `startup_config.py`.

`PodConfig` has one pod and everybody who writes its configuration.

| Variable | Code |
|---|---|
| `cluster`, `crs`, `secret` | SlapdCluster, SlapdDatabases, TLS Secret |
| `dirsMap`, `table` | the ConfigMaps of directories and of startup-only attributes |
| `pod`, `volume`, `job` | the pod, the directories on its volumes, the mkdir Job |
| `config`, `server`, `auth`, `schema` | the databases, the other entries, the authentication database's content, the schema |
| `pass`, `status` | the pass that runs with the DN it looked up; the two conditions |

The SlapdDatabase pass is one action per write that another write depends on:
directories, the database, its attributes, the removals (overlay, journal,
`Reresolved`, syncprov), syncprov with its session log, the journal's directories,
the journal, its overlay, read-only, then identity and status. Any step may fail
(`StepFails`), the pod may restart under it, the operator may die. `ApplyWorkload`,
`ReconcileInfrastructure` are the SlapdCluster controller, `ApplySchemaToPod` the
SlapdSchema controller, `StartPod` the init container and slapd.

Abstracted: an attribute is a small value; three global tunables, one that a server
without TLS refuses, stand for all; the monitor and authentication databases have no
content but their ACL and the identities; `Resolves` is slapd's check of a
*populated* database (adr-034's amendment of 2026-10-15: on an empty one a dangling
reference stays latent). The ACLs, indices, scale tunables, modules and serverID are
one step (`EnsureAttrs`): the code writes them one by one, none reads another, and what
an interruption leaves of them the next pass writes. A search that fails makes the code
try to create the database (`C/slapddatabase_controller.go:805`); where it exists slapd
refuses, so that `Begin` takes this path only where there is none and leaves the other
to `StepFails`. Two controllers searching and adding one entry at the same
moment meet slapd's refusal, which is a failed step.

Users are careful in one way (`SafeFor`): they take a journal away only when nothing
names it. `find_stranded` drops that.

| Run | Bounds | Checks |
|---|---|---|
| `pod_config` (132 000 states) | 1 database; a peer, a consumer-only and a single cluster; 4 starts: nothing yet, a pod bootstrapped by an older operator, one with the journal of an interrupted teardown; default, in-memory, fixed and refused specs; 2 events of edit, restart, fault, crash, force; fair | `Bootable`; `TouchesOwnDatabase`, `KeepsSessionlog`, `TeardownComplete`, `Converges` |
| `find_stranded` | the same with careless edits | `NeverStranded`, violated |

One database has up to four entries in `cn=config`, whose order depends on the
history, so that a delete moves a position that a pass holds. Two events put a fault
or a restart into the middle of a transition. Fairness: each controller requeues
what is unfinished and resyncs what is not (every 5 minutes at the latest), the
kubelet starts the pod and the Job, the certificate is issued in the end.

### 7.2 Finding

`find_stranded`: `syncprovSessionlogSource` unset means Accesslog, whatever
`deltaSync` says. After `deltaSync: false` the controller removes the journal while
`olcSpSessionlogSource` still names it, the startup table keeps the database, and the
converger, which finds no such journal, leaves the value alone: at the next restart
slapd does not start, and `StartupConfigConverged` is True until then. The same holds
of `replication.enabled: false` on the database. The admission rule that excludes the
combination looks at the explicit value only.

Observations with the same model: a demotion to consumer-only removes the journal
one write before the overlay that names it, and a restart in between does not come
up; between an edit and the next write of the table the same window is open for
every journal that goes. A change from no session log to Accesslog leaves a running
provider without one until its restart (`planSessionlog` says so, and the condition
reports it). With `replication.enabled`, one replica and no peer, the journal is
wanted (`C/slapddatabase_controller.go:902`) and its volume and directory are not
(`C/dirjob.go:171`; `docs/BACKLOG.md:1544`), which the run's clusters exclude.
`TunablesConverged` starts every pass as True and stays so when the diverging pod
does not answer. An existing schema sub-entry is never extended
(`C/slapdschema_controller.go:203`), where the comment at `:171` says "Missing elements
are added".

### 7.3 Proofs

`PodConfigProofs` proves for every set of databases, every set of specs, every number
of events and every environment:

- `ConfigIsSound`: `Spec => []ConfigInv`, and from it `TypeCorrect`;
- `OthersAreUntouched` (`TouchesOwnDatabase`): no write of a pass or of a teardown
  reaches an entry of another database or of the authentication database;
- `NothingIsLeft` (`TeardownComplete`) and `SessionlogIsKept` (`KeepsSessionlog`);
- `SlapdCanStart`: `Careful => (Spec => []Bootable)`, where `Careful` is an
  environment without `careless`.

A write goes to the DN a pass looked up some steps before, and a DN is a position:
that it still belongs to the pass's database is true of the order of the steps only.
`ConfigInv` says it together with what makes it inductive. `GoodConfig`: no two
entries have one suffix, so that a search finds the only one; no overlay has two
session logs; a database has its directory, and an accesslog overlay its journal.
`PassCoherent`: what each step may rely on, among it that its DN is the position of
its own database, that what it is about to create is not there, and that the overlay
is off before the journal goes. `PassWrites` is what one step does to a
configuration, in terms of the set of its entries: four lemmas (`Appended`,
`Written`, `Deleted`, `FindFacts`) turn positions into sets once, and the rest of the
proof has one lemma per step.

`Bootable` also needs that no session log names a journal that is about to go, and
that is a fact about the users. `CarefulInv` adds that the journal a session log names
is configured (`SourceJournaled`), that a pass which is to remove a journal works on an
overlay that does not name it, although the spec it read may be old (`JournalMayGo`),
and for every listed database why its journal stays: it is wanted, or neither the
overlay nor the startup table names it, or there has not been an overlay and a journal
together (`Kept`). The third case is a database that has come back or been
declared anew: no overlay names a journal yet, and a pass that works on it has read
what is declared now. Without `Careful`
the statement is false: `find_stranded` is the counterexample. TLC checked both
invariants on the instance of `pod_config` before they were proved.

Assumed of the constants (`PodConfigConstants`): the marker of a missing value is no
database and no spec, and `tls` of a cluster is a Boolean.

## 8. Founding

### 8.1 `SeedFounding`

The database at every site of a mesh, each with an operator of its own. `dit` is
what each pod holds under the two names of the seed: nothing, an entry with its
entryUUID and the serverID of its creator, a placeholder (slapd's ancestor for a
child that came first), or the glue entry a conflict leaves. `pass` walks the seed
entry by entry on pod-0; `status` has both latches and the reason of DataPresent;
`held` and `minted` are history. `Replicate` brings any entry in any order;
`Merge` is slapd's conflict resolution as far as ADR-025 describes it, a
nondeterministic choice.

`WipePod` leaves out the founder's volume between its first seed entry and the
latch: the seed that follows then has new identities, and nothing in the code could
know. Restores, which also count as evidence of data, are left out.

| Run | Bounds | Checks |
|---|---|---|
| `seed` (147 000 states) | 2 sites, the second with a read-only pod; a founder declared, or none (then only the schedule varies); seeds at one or both sites; at most one operator without identity; 2 events of wipe, unreachable, unreadable, crash; fair | `SingleCreator`, `AlarmAfterData`; `SeedCompletes`, `ConditionSettles` |

Two entries are what a seed needs for replication to bring the child first and for a
crash to fall in between; one pod per site is what the seed writes to, the read-only
pod what the condition treats apart. Fairness: passes recur (10 s while not settled,
5 minutes after), replication delivers, a missing identity is set in the end.

### 8.2 Observations

A site that carries the seed of another founder latches `SeedApplied` when it
withholds (`C/slapddatabase_controller.go:512`), so that before anything has reached it
its empty directory is DataMissing and not NoDataYet, against
`docs/MULTI-SITE.md:704`; `AlarmAfterData` excepts the case. `seed.configMapRef` is
documented (`operator/api/v1alpha1/slapddatabase_types.go:442`) and read by nothing.

### 8.3 Proofs

`SeedFoundingProofs` proves for every set of sites and pods in which each site has a
pod-0 (`PodsOfSites`), every schedule of replication and every environment:

- `FoundingHolds`: `Spec => []Founding`, and from it `SingleCreatorHolds`
  (`SingleCreator`) and `AlarmAfterDataHolds` (`AlarmAfterData`).

`SingleCreator` alone says nothing of the pass that is about to create an entry.
`Founding` adds that only the founder has a pass inside the seed
(`OnlyFounderSeeds`), that what the founder created is still on its pod-0 until the
latch is set, so that a retry finds it (`FounderKeeps`), that all copies of an entry
are the one that was minted (`OneIdentity`), and what each latch and each memory of
data was earned by (`HeldIsRemembered`, `LatchIsEarned`).

## 9. Proved, checked, left out

- Proved for every value of the constants: of the restore (under the assumptions of
  3.5) the type invariant, exclusive volumes, half-restored data stays down, Jobs are
  reaped, the machine goes forward only, bootstrap is a one-shot, marked means loaded,
  pods agree, the refinement of `OfflineSwap`; of the rotation (4.4) all four
  invariants; of a backup the type invariant, that a finished one is recorded, its
  lower bound, its truth, its finality and the release of its lease; of a schedule
  (5.5) the most recent backup only, pruning of excess only, records with their
  objects; of the RIDs that they are in the band, distinct, decodable, and on the pods
  of a cluster (6.3) that none of one layout is there twice, identity before stanza, disjoint
  serverIDs and no declared link lost; of a pod's configuration (7.3) that slapd can
  start where users are careful, that no write reaches another database, that a session
  log is kept and a teardown complete; of the founding (8.3) the single creator and the
  truth of the alarm. Every invariant and every action property of the passing runs is
  the statement of a theorem.
- Model-checked only: all liveness (`RequestsComplete`, `ServiceReturns`,
  `VisitsEveryPod`, `JournalsBounded`, `BackupEnds`, `KeepsUp`, `Converges`,
  `SeedCompletes`, `ConditionSettles`), which is outside the prover's reach.
- The assumptions on constants (`ASSUME` in each module) are types of the API's fields
  and finiteness; they are evaluated in every run. The hypotheses of single theorems
  (`ReadsOrJobsLast`, `JobsOutlastCrashes`, `DistinctNames`, `NoEdits`, no
  `tie`, no `reuse`, no `blind`, `Careful`) are behaviours for which TLC, or the observations
  above, show the property violated.
- Not modelled: CSN convergence and the observation store, which report and on which
  nothing acts; S3, metrics, exporter, slctl and charts, which are I/O without state
  of their own; credentials and their rotation; a backup Job against a restore over
  the same volume, which needs both machines in one model.
