--------------------------- MODULE ClusterRestore ---------------------------
(***************************************************************************)
(* The offline restore machine of the SlapdCluster controller              *)
(* (operator/internal/controller/slapdcluster_restore.go, restore_job.go,  *)
(* job_reap.go, and the parts of slapdcluster_controller.go that apply the *)
(* StatefulSets and set the cluster phase).                                *)
(*                                                                         *)
(* A pass of the controller applies both StatefulSets from the status it   *)
(* read, runs the restore machine on that status, and writes the status    *)
(* back.  The reads come from the manager's informer cache, which may lag  *)
(* behind the API server; a pass may end before the status write.  The     *)
(* StatefulSet controller, the Job controller, the SlapdDatabase           *)
(* controller, syncrepl and the user act between passes.                   *)
(*                                                                         *)
(* Environment is the set of adverse behaviours the environment may show:  *)
(*   "crash"    the operator dies, or errors, before it writes status      *)
(*   "lag"      cached reads of SlapdCluster and SlapdRestore are stale    *)
(*   "ttl"      ttlSecondsAfterFinished removes a finished Job             *)
(*   "jobfail"  a restore Job exhausts its backoff limit                   *)
(*   "source"   a backup artifact becomes unusable, or usable again        *)
(*   "edit"     the user edits spec.replicas and spec.readReplicas         *)
(*   "delete"   the user deletes a SlapdRestore                            *)
(*   "unready"  a running pod's slapd restarts and is not ready meanwhile  *)
(*   "noimage"  the operator may run without OPERATOR_IMAGE                *)
(***************************************************************************)
EXTENDS Naturals, FiniteSets

CONSTANTS
  MaxRW,         \* read-write ordinals are 0 .. MaxRW-1
  MaxRO,         \* read-only ordinals are 0 .. MaxRO-1
  Databases,     \* the SlapdDatabases of this cluster
  Bootstrapped,  \* those with spec.bootstrapFrom
  Requests,      \* the SlapdRestore objects a user may create
  RequestDB,     \* spec.databaseRef of each SlapdRestore
  JobBase,       \* each database's name as its restore Jobs carry it
  None,          \* RequestRef of a restore driven by bootstrapFrom
  MaxRestores,   \* bound on the restores started
  Environment    \* the adverse behaviours of the environment, see above

ASSUME RestoreConstants ==
  /\ MaxRW \in Nat \ {0}
  /\ MaxRO \in Nat
  /\ Bootstrapped \subseteq Databases
  /\ IsFiniteSet(Requests) /\ RequestDB \in [Requests -> Databases]
  /\ DOMAIN JobBase = Databases
  /\ None \notin Requests
  /\ MaxRestores \in Nat

(***************************************************************************)
(* Pods are named by StatefulSet and ordinal.  Their volumes outlive them: *)
(* the StatefulSet retains the PersistentVolumeClaims when it scales down. *)
(***************************************************************************)
RWPods == {"rw"} \X (0 .. MaxRW - 1)
ROPods == {"ro"} \X (0 .. MaxRO - 1)
Pods   == RWPods \cup ROPods

VARIABLES
  spec,           \* spec.replicas and spec.readReplicas
  sts,            \* the replica counts last applied to the StatefulSets
  pods,           \* each pod: "gone", "starting" or "ready"
  data,           \* what each pod's volume holds of each database
  restore,        \* SlapdCluster.status.restore at the API server
  scPhase,        \* SlapdCluster.status.phase
  seen,           \* status.restore as the informer cache shows it
  dbPhase,        \* SlapdDatabase.status.phase
  restoreApplied, \* SlapdDatabase.status.restoreApplied
  sr,             \* the SlapdRestore objects: phase, or absent / deleted
  srSeen,         \* the same, as the informer cache shows them
  born,           \* creation order of the SlapdRestores
  jobs,           \* the restore Jobs that exist
  started,        \* the latest restore id (rand.String(6) in the code)
  usable          \* whether the artifact of a request / bootstrapFrom is good

vars == <<spec, sts, pods, data, restore, scPhase, seen, dbPhase,
          restoreApplied, sr, srSeen, born, jobs, started, usable>>

(***************************************************************************)
(* Contents of a volume's copy of a database: nothing usable, what was     *)
(* there from the start, or what the restore with that id loaded.          *)
(***************************************************************************)
Wiped    == 0
Original == 1

RestorePhases ==
  {"None", "Preflight", "ScalingDown", "Restoring", "ScalingUp", "Failed"}
RequestPhases == {"absent", "New", "Pending", "Preflight", "Restoring",
                  "Completed", "Failed", "deleted"}
Sizes == [rw : 0 .. MaxRW, ro : 0 .. MaxRO]
RestoreRecords ==
  [phase : RestorePhases, id : Nat, orig : Sizes,
   dbs : SUBSET Databases, req : Requests \cup {None}]
JobRecords == [id : Nat, pod : Pods, db : Databases,
               st : {"active", "loading", "complete", "failed"}]

\* status.restore = nil
NoRestore == [phase |-> "None", id |-> 0, orig |-> [rw |-> 0, ro |-> 0],
              dbs |-> {}, req |-> None]

Exists(p) == p \notin {"absent", "deleted"}

\* SlapdRestore.IsTerminal
Terminal(p) == p \in {"Completed", "Failed"}

(***************************************************************************)
(* The type invariant: every variable holds what the API types allow.      *)
(***************************************************************************)
TypeOK ==
  /\ spec \in Sizes /\ spec.rw # 0
  /\ sts \in Sizes
  /\ pods \in [Pods -> {"gone", "starting", "ready"}]
  /\ data \in [Pods -> [Databases -> Nat]]
  /\ restore \in RestoreRecords
  /\ seen \in RestoreRecords
  /\ scPhase \in {"Running", "Degraded", "Bootstrapping", "Restoring"}
  /\ dbPhase \in [Databases -> {"Pending", "Running"}]
  /\ restoreApplied \in [Databases -> BOOLEAN]
  /\ sr \in [Requests -> RequestPhases]
  /\ srSeen \in [Requests -> RequestPhases]
  /\ born \in [Requests -> Nat]
  /\ jobs \subseteq JobRecords
  /\ started \in Nat \ {0}
  /\ usable \in [Requests \cup {None} -> BOOLEAN]

(***************************************************************************)
(* Init: a cluster of any declared size that is up, its databases with     *)
(* bootstrapFrom not defined yet, and no SlapdRestore.  Ordinals above the *)
(* declared size have volumes of an earlier, larger size.                  *)
(***************************************************************************)
Init ==
  /\ spec \in {s \in Sizes : s.rw # 0}
  /\ sts = spec
  /\ pods = [p \in Pods |-> IF p[2] < spec[p[1]] THEN "ready" ELSE "gone"]
  /\ data = [p \in Pods |-> [d \in Databases |-> Original]]
  /\ restore = NoRestore
  /\ seen = NoRestore
  /\ scPhase = "Running"
  /\ dbPhase = [d \in Databases |->
                  IF d \in Bootstrapped THEN "Pending" ELSE "Running"]
  /\ restoreApplied = [d \in Databases |-> FALSE]
  /\ sr = [r \in Requests |-> "absent"]
  /\ srSeen = sr
  /\ born = [r \in Requests |-> 0]
  /\ jobs = {}
  /\ started = 1
  /\ usable = [s \in Requests \cup {None} |-> TRUE]

-----------------------------------------------------------------------------
(***************************************************************************)
(* What every pass does.                                                   *)
(***************************************************************************)

\* Names with an underscore are faulty variants of the definition they precede:
\* bugs this code could have, which the properties must notice.
RestoreHoldsDown_NotFailed(rst)    == rst.phase \in {"ScalingDown", "Restoring"}
RestoreHoldsDown_NotRestoring(rst) == rst.phase \in {"ScalingDown", "Failed"}
RestoreHoldsDown_UntilDone(rst)    == rst.phase \notin {"None", "Preflight"}

\* SlapdCluster.RestoreHoldsDown
RestoreHoldsDown(rst) == rst.phase \in {"ScalingDown", "Restoring", "Failed"}

\* reconcileStatefulSet and reconcileReadOnlyFleet, from the status the pass
\* read.  With readReplicas = 0 the read-only StatefulSet is left alone.
ApplyStatefulSets ==
  LET down == RestoreHoldsDown(seen)
  IN  sts' = [rw |-> IF down THEN 0 ELSE spec.rw,
              ro |-> IF spec.ro = 0 THEN sts.ro
                     ELSE IF down THEN 0 ELSE spec.ro]

\* What a cached read may return once the object changed from old to new.
Cached(old, new) == IF "lag" \in Environment THEN {old, new} ELSE {new}

\* applyStatus: a forced server-side apply, so it overwrites whatever the API
\* server holds.  ok = FALSE is a pass that ends before it.
WriteStatus(ok, rst, phase) ==
  IF ok THEN /\ restore' = rst
             /\ scPhase' = phase
             /\ seen' \in Cached(seen, rst)
        ELSE UNCHANGED <<restore, scPhase, seen>>

\* sts.Status.Replicas = 0
RWPodsGone == \A p \in RWPods : pods[p] = "gone"
\* sts.Status.ReadyReplicas
ReadyReplicas == Cardinality({p \in RWPods : pods[p] = "ready"})

\* setReadyPhase
ReadyPhase == IF ReadyReplicas = 0 THEN "Bootstrapping"
              ELSE IF ReadyReplicas < spec.rw THEN "Degraded" ELSE "Running"

(***************************************************************************)
(* setRestoreRequestPhase is an Update: it fails with a conflict when the  *)
(* cached SlapdRestore is stale, and writes nothing when the phase is      *)
(* already there.  A deleted SlapdRestore is no error.                     *)
(***************************************************************************)
Updates(r, phase) ==
  /\ r # None
  /\ Exists(srSeen[r])
  /\ srSeen[r] # phase

Conflict(r, phase) == Updates(r, phase) /\ srSeen[r] # sr[r]

SetRequestPhase(r, phase) ==
  IF Updates(r, phase) /\ ~Conflict(r, phase)
    THEN /\ sr' = [sr EXCEPT ![r] = phase]
         /\ \E p \in Cached(srSeen[r], phase) :
               srSeen' = [srSeen EXCEPT ![r] = p]
    ELSE UNCHANGED <<sr, srSeen>>

\* updateRestoreRequest inside a pass: a conflict ends the pass, and an
\* operator that dies does so before or after the update.
UpdateRequest(ok, r, phase) ==
  /\ ok => ~Conflict(r, phase)
  /\ ~ok => "crash" \in Environment \/ Conflict(r, phase)
  /\ \/ SetRequestPhase(r, phase)
     \/ ~ok /\ UNCHANGED <<sr, srSeen>>

\* A pass that writes no request ends early only when the operator dies.
NoRequestUpdate(ok) ==
  /\ ~ok => "crash" \in Environment
  /\ UNCHANGED <<sr, srSeen>>

-----------------------------------------------------------------------------
(***************************************************************************)
(* No restore in status.restore: decide whether to begin one.              *)
(***************************************************************************)

NeedingRestore_Always == Bootstrapped

\* databasesNeedingRestore
NeedingRestore == {d \in Bootstrapped : ~restoreApplied[d]}
AllDefined     == \A d \in NeedingRestore : dbPhase[d] = "Running"

Candidates_OnlyNew == {r \in Requests : /\ srSeen[r] = "New"
                                        /\ dbPhase[RequestDB[r]] = "Running"}

\* pendingRestoreRequest: the oldest non-terminal SlapdRestore whose database
\* is Running, or none.
Candidates == {r \in Requests : /\ Exists(srSeen[r])
                                /\ ~Terminal(srSeen[r])
                                /\ dbPhase[RequestDB[r]] = "Running"}
Pending == {r \in Candidates : \A q \in Candidates : born[r] <= born[q]}

\* The status.restore both ways of starting write.
StartedRestore(dbs, req) ==
  [phase |-> "Preflight", id |-> started + 1, orig |-> spec,
   dbs |-> dbs, req |-> req]

Begin(ok, dbs, req) ==
  /\ started < MaxRestores
  /\ started' = IF ok THEN started + 1 ELSE started
  /\ WriteStatus(ok, StartedRestore(dbs, req), "Running")

StartBootstrap(ok) ==
  /\ NeedingRestore # {} /\ AllDefined
  /\ Begin(ok, NeedingRestore, None)
  /\ NoRequestUpdate(ok)

\* The request's own status write is best effort here.
StartRequested(ok) ==
  /\ NeedingRestore = {}
  /\ ~ok => "crash" \in Environment
  /\ \E r \in Pending :
       /\ Begin(ok, {RequestDB[r]}, r)
       /\ SetRequestPhase(r, "Preflight")

\* Nothing to start: the normal ready-based phase, status.restore stays nil.
Idle(ok) ==
  /\ IF NeedingRestore = {} THEN Pending = {} ELSE ~AllDefined
  /\ WriteStatus(ok, NoRestore, ReadyPhase)
  /\ NoRequestUpdate(ok)
  /\ UNCHANGED started

\* Something to start and no image to start it with.
WithoutImage(ok) ==
  /\ "noimage" \in Environment
  /\ ~ok => "crash" \in Environment
  /\ WriteStatus(ok, NoRestore, ReadyPhase)
  /\ \/ NeedingRestore # {} /\ UNCHANGED <<sr, srSeen>>
     \/ NeedingRestore = {} /\ \E r \in Pending : SetRequestPhase(r, "Pending")
  /\ UNCHANGED started

PassNotRestoring(ok) ==
  /\ seen.phase = "None"
  /\ StartBootstrap(ok) \/ StartRequested(ok) \/ Idle(ok) \/ WithoutImage(ok)
  /\ UNCHANGED <<jobs, restoreApplied>>

-----------------------------------------------------------------------------
(***************************************************************************)
(* Preflight: the cluster serves while the artifact is validated.          *)
(***************************************************************************)

\* resolveRestoreSource finds the SlapdRestore of the restore, if it has one.
SourceResolves == seen.req # None => Exists(srSeen[seen.req])

\* resolveRestoreSource and backup.Preflight succeed for every database.
PreflightPasses == SourceResolves /\ usable[seen.req]

PassPreflight(ok) ==
  /\ seen.phase = "Preflight"
  /\ \/ /\ ~PreflightPasses
        /\ WriteStatus(ok, seen, "Running")
        /\ NoRequestUpdate(ok)
     \/ /\ PreflightPasses
        /\ UpdateRequest(ok, seen.req, "Restoring")
        /\ WriteStatus(ok, [seen EXCEPT !.phase = "ScalingDown"], "Running")
  /\ UNCHANGED <<jobs, restoreApplied, started>>

PassScalingDown_NoWait(ok) ==
  /\ seen.phase = "ScalingDown"
  /\ WriteStatus(ok, [seen EXCEPT !.phase = "Restoring"], "Restoring")
  /\ NoRequestUpdate(ok)
  /\ UNCHANGED <<jobs, restoreApplied, started>>

\* Waits for the read-write pods only.
PassScalingDown(ok) ==
  /\ seen.phase = "ScalingDown"
  /\ WriteStatus(ok, IF RWPodsGone THEN [seen EXCEPT !.phase = "Restoring"]
                                   ELSE seen, "Restoring")
  /\ NoRequestUpdate(ok)
  /\ UNCHANGED <<jobs, restoreApplied, started>>

-----------------------------------------------------------------------------
(***************************************************************************)
(* Restoring: one Job per pod and database of the restore.                 *)
(***************************************************************************)

Targets_FirstPodOnly(rst) == {p \in Pods : p[2] = 0} \X rst.dbs

\* restorePodTargets, for every database
Targets(rst) ==
  {p \in Pods : p[2] < rst.orig[p[1]]} \X rst.dbs

\* A Job is named after its pod and the first 24 characters of its database,
\* and the restore's id; it is found by that name, or by the id as a label.
JobName(t)   == <<t[1], JobBase[t[2]]>>
JobsOf(rst)  == {j \in jobs : j.id = rst.id}
Missing(rst) ==
  {t \in Targets(rst) :
     \A j \in JobsOf(rst) : JobName(<<j.pod, j.db>>) # JobName(t)}

\* What creating Jobs one after the other may leave of a set of targets: the
\* first of several with one name.
Creatable(targets) ==
  {made \in SUBSET targets :
     \A s, t \in made : JobName(s) = JobName(t) => s = t}

NewJobs(rst, targets) ==
  {[id |-> rst.id, pod |-> t[1], db |-> t[2], st |-> "active"] : t \in targets}

\* runRestoreJobs meets a failed Job.  It creates the missing Jobs that come
\* before it, in the order the databases were listed in.
JobFailed(ok) ==
  /\ \E j \in JobsOf(seen) : j.st = "failed"
  /\ \E early \in Creatable(Missing(seen)) :
        jobs' = jobs \cup NewJobs(seen, early)
  /\ UpdateRequest(ok, seen.req, "Failed")
  /\ WriteStatus(ok, [seen EXCEPT !.phase = "Failed"], "Restoring")
  /\ UNCHANGED restoreApplied

\* runRestoreJobs creates what is missing and waits for the rest.
JobsRunning(ok) ==
  /\ \A j \in JobsOf(seen) : j.st # "failed"
  /\ \/ Missing(seen) # {}
     \/ \E j \in JobsOf(seen) : j.st # "complete"
  /\ \E made \in Creatable(Missing(seen)) :
        /\ ok => \A t \in Missing(seen) :
                   \E s \in made : JobName(s) = JobName(t)
        /\ jobs' = jobs \cup NewJobs(seen, made)
  /\ WriteStatus(ok, seen, "Restoring")
  /\ NoRequestUpdate(ok)
  /\ UNCHANGED restoreApplied

JobsDone_ReapFirst(ok) ==
  /\ Missing(seen) = {}
  /\ \A j \in JobsOf(seen) : j.st = "complete"
  /\ jobs' = jobs \ JobsOf(seen)
  /\ WriteStatus(ok, [seen EXCEPT !.phase = "ScalingUp"], "Restoring")
  /\ NoRequestUpdate(ok)
  /\ UNCHANGED restoreApplied

\* Every Job is complete: markRestored (bootstrapFrom only), then scale up.
JobsDone(ok) ==
  /\ Missing(seen) = {}
  /\ \A j \in JobsOf(seen) : j.st = "complete"
  /\ \E marked \in SUBSET seen.dbs :
        /\ IF seen.req # None THEN marked = {} ELSE ok => marked = seen.dbs
        /\ restoreApplied' = [d \in Databases |->
                                restoreApplied[d] \/ d \in marked]
  /\ WriteStatus(ok, [seen EXCEPT !.phase = "ScalingUp"], "Restoring")
  /\ NoRequestUpdate(ok)
  /\ UNCHANGED jobs

PassRestoring(ok) ==
  /\ seen.phase = "Restoring"
  /\ SourceResolves
  /\ JobFailed(ok) \/ JobsRunning(ok) \/ JobsDone(ok)
  /\ UNCHANGED started

-----------------------------------------------------------------------------
(***************************************************************************)
(* The ends of a restore.                                                  *)
(***************************************************************************)

ReapJobs_Forgotten(all, rst) == UNCHANGED jobs

\* reapJobsByLabel deletes the Jobs one by one: all of them, or those that come
\* before the operator dies or whose deletion does not fail.
ReapJobs(all, rst) ==
  \E reaped \in SUBSET JobsOf(rst) :
    /\ all => reaped = JobsOf(rst)
    /\ jobs' = jobs \ reaped

ScaledUp == ReadyReplicas >= seen.orig.rw

PassScalingUp(ok) ==
  /\ seen.phase = "ScalingUp"
  /\ \/ /\ ~ScaledUp
        /\ WriteStatus(ok, seen, "Restoring")
        /\ NoRequestUpdate(ok)
        /\ UNCHANGED jobs
     \/ /\ ~ok /\ ScaledUp
        /\ ReapJobs(FALSE, seen)
        /\ WriteStatus(ok, seen, "Restoring")
        /\ NoRequestUpdate(ok)
     \/ /\ ScaledUp
        /\ ReapJobs(TRUE, seen)
        /\ UpdateRequest(ok, seen.req, "Completed")
        /\ WriteStatus(ok, NoRestore, ReadyPhase)
  /\ UNCHANGED <<restoreApplied, started>>

PassFailed(ok) ==
  /\ seen.phase = "Failed"
  /\ ReapJobs(ok, seen)
  /\ WriteStatus(ok, seen, "Restoring")
  /\ NoRequestUpdate(ok)
  /\ UNCHANGED <<restoreApplied, started>>

\* A pass that ends with an error, or with the operator, before the machine
\* has done anything.  A restore whose SlapdRestore is gone always does, and
\* one whose source is a SlapdBackup that is gone or no longer Completed.
PassEndsEarly ==
  /\ \/ "crash" \in Environment
     \/ seen.phase = "Restoring" /\ ~PreflightPasses
  /\ UNCHANGED <<restore, scPhase, seen, restoreApplied, sr, srSeen, jobs,
                 started>>

Outside == <<spec, pods, data, dbPhase, born, usable>>

Pass(ok) ==
  /\ ApplyStatefulSets
  /\ \/ PassNotRestoring(ok) \/ PassPreflight(ok) \/ PassScalingDown(ok)
     \/ PassRestoring(ok) \/ PassScalingUp(ok) \/ PassFailed(ok)
     \/ ~ok /\ PassEndsEarly
  /\ UNCHANGED Outside

-----------------------------------------------------------------------------
(***************************************************************************)
(* The other actors.                                                       *)
(***************************************************************************)
operatorVars == <<sts, restore, scPhase, restoreApplied, started>>
cacheVars    == <<seen, srSeen>>
userVars     == <<spec, sr, born, usable>>

\* The StatefulSet controllers and the kubelet.
Declared(p) == p[2] < sts[p[1]]

PodStep(p, state) ==
  /\ pods' = [pods EXCEPT ![p] = state]
  /\ UNCHANGED <<operatorVars, cacheVars, userVars, data, dbPhase, jobs>>

PodStart(p)   == Declared(p) /\ pods[p] = "gone" /\ PodStep(p, "starting")
PodReady(p)   == Declared(p) /\ pods[p] = "starting" /\ PodStep(p, "ready")
PodStop(p)    == ~Declared(p) /\ pods[p] # "gone" /\ PodStep(p, "gone")
PodUnready(p) == /\ "unready" \in Environment
                 /\ pods[p] = "ready"
                 /\ PodStep(p, "starting")

\* The container of a restore Job (buildRestoreJob).  On a read-write volume
\* it wipes the database and then loads the artifact; on a read-only one it
\* only wipes.  A failing download leaves the volume as it is.
JobStep(j, state, content) ==
  /\ jobs' = (jobs \ {j}) \cup {[j EXCEPT !.st = state]}
  /\ data' = [data EXCEPT ![j.pod][j.db] = content]
  /\ UNCHANGED <<operatorVars, cacheVars, userVars, pods, dbPhase>>

JobWipe(j) ==
  /\ j.st = "active"
  /\ JobStep(j, IF j.pod \in RWPods THEN "loading" ELSE "complete", Wiped)
JobLoad(j) == j.st = "loading" /\ JobStep(j, "complete", j.id)
JobFail(j) ==
  /\ "jobfail" \in Environment
  /\ j.st \in {"active", "loading"}
  /\ JobStep(j, "failed", data[j.pod][j.db])

\* The TTL controller: ttlSecondsAfterFinished
JobExpire(j) ==
  /\ "ttl" \in Environment
  /\ j.st \in {"complete", "failed"}
  /\ jobs' = jobs \ {j}
  /\ UNCHANGED <<operatorVars, cacheVars, userVars, pods, data, dbPhase>>

\* A running pod with an empty copy refreshes it from a read-write peer.
Refresh(p, d) ==
  /\ pods[p] # "gone" /\ data[p][d] = Wiped
  /\ \E q \in RWPods :
       /\ pods[q] = "ready" /\ data[q][d] # Wiped
       /\ data' = [data EXCEPT ![p][d] = data[q][d]]
  /\ UNCHANGED <<operatorVars, cacheVars, userVars, pods, dbPhase, jobs>>

\* The SlapdDatabase controller: Running once the database is on every pod of
\* the declared size of a Running cluster; "Pending" stands for every other
\* phase.  A pod that is not ready may answer all the same.
DeclaredPods == {p \in Pods : p[2] < spec[p[1]]}

DatabasePass(d) ==
  /\ \/ /\ scPhase = "Running" /\ \A p \in DeclaredPods : pods[p] # "gone"
        /\ dbPhase' = [dbPhase EXCEPT ![d] = "Running"]
     \/ /\ \/ scPhase # "Running"
           \/ \E p \in DeclaredPods : pods[p] # "ready"
        /\ dbPhase' = [dbPhase EXCEPT ![d] = "Pending"]
  /\ UNCHANGED <<operatorVars, cacheVars, userVars, pods, data, jobs>>

CacheSync ==
  /\ seen' = restore
  /\ UNCHANGED <<operatorVars, userVars, srSeen, pods, data, dbPhase, jobs>>

CacheSyncRequest(r) ==
  /\ srSeen' = [srSeen EXCEPT ![r] = sr[r]]
  /\ UNCHANGED <<operatorVars, userVars, seen, pods, data, dbPhase, jobs>>

\* The user.
Rest == <<operatorVars, seen, pods, data, dbPhase, jobs>>

CreateRequest(r) ==
  /\ sr[r] = "absent"
  /\ sr' = [sr EXCEPT ![r] = "New"]
  /\ \E p \in Cached(srSeen[r], "New") : srSeen' = [srSeen EXCEPT ![r] = p]
  /\ born' = [born EXCEPT ![r] =
                1 + Cardinality({q \in Requests : sr[q] # "absent"})]
  /\ UNCHANGED <<Rest, spec, usable>>

DeleteRequest(r) ==
  /\ "delete" \in Environment
  /\ Exists(sr[r])
  /\ sr' = [sr EXCEPT ![r] = "deleted"]
  /\ \E p \in Cached(srSeen[r], "deleted") :
        srSeen' = [srSeen EXCEPT ![r] = p]
  /\ UNCHANGED <<Rest, spec, born, usable>>

EditSpec ==
  /\ "edit" \in Environment
  /\ spec' \in {s \in Sizes : s.rw # 0}
  /\ UNCHANGED <<Rest, srSeen, sr, born, usable>>

\* None stands for the artifacts bootstrapFrom names.
ArtifactChanges(s) ==
  /\ "source" \in Environment
  /\ s = None => Bootstrapped # {}
  /\ usable' = [usable EXCEPT ![s] = ~usable[s]]
  /\ UNCHANGED <<Rest, srSeen, spec, sr, born>>

-----------------------------------------------------------------------------
PodNext(p)  == PodStart(p) \/ PodReady(p) \/ PodStop(p) \/ PodUnready(p)
JobNext(j)  == JobWipe(j) \/ JobLoad(j) \/ JobFail(j) \/ JobExpire(j)
UserNext    == \/ \E r \in Requests : CreateRequest(r) \/ DeleteRequest(r)
               \/ EditSpec
               \/ \E s \in Requests \cup {None} : ArtifactChanges(s)

Next ==
  \/ \E ok \in BOOLEAN : Pass(ok)
  \/ \E p \in Pods : PodNext(p)
  \/ \E j \in jobs : JobNext(j)
  \/ \E p \in Pods, d \in Databases : Refresh(p, d)
  \/ \E d \in Databases : DatabasePass(d)
  \/ CacheSync
  \/ \E r \in Requests : CacheSyncRequest(r)
  \/ UserNext

Spec == Init /\ [][Next]_vars

(***************************************************************************)
(* Fairness.  The controller requeues itself in every phase that waits and *)
(* is woken by every change of the SlapdCluster, its StatefulSets, the     *)
(* SlapdDatabases and the SlapdRestores, and an operator that dies comes   *)
(* back: a pass that would change something happens and ends with its      *)
(* status write.  Kubernetes' own controllers and syncrepl make progress.  *)
(* Nothing obliges the user, and nothing obliges a Job to fail.            *)
(***************************************************************************)
Fairness ==
  /\ WF_vars(Pass(TRUE))
  /\ \A p \in Pods : WF_vars(PodStart(p) \/ PodReady(p) \/ PodStop(p))
  /\ WF_vars(\E j \in jobs : JobWipe(j) \/ JobLoad(j))
  /\ \A p \in Pods, d \in Databases : WF_vars(Refresh(p, d))
  /\ \A d \in Databases : WF_vars(DatabasePass(d))
  /\ WF_vars(CacheSync)
  /\ \A r \in Requests : WF_vars(CacheSyncRequest(r))

FairSpec == Spec /\ Fairness

-----------------------------------------------------------------------------
(***************************************************************************)
(* Safety.                                                                 *)
(***************************************************************************)
Working(j) == j.st \in {"active", "loading"}

\* A restore Job never works on the volume of a read-write pod that exists:
\* slapadd and slapd on one LMDB environment corrupt it.  reconcileRestore
\* gates the Jobs on sts.Status.Replicas, RestoreHoldsDown keeps the pods away.
ExclusiveVolumes ==
  \A j \in jobs : Working(j) /\ j.pod \in RWPods => pods[j.pod] = "gone"

\* "held at 0 replicas rather than scaling up a half-restored DIT": a
\* read-write pod never runs on a volume a restore wiped and did not reload,
\* whichever pass failed, was lost or read a stale status.
HalfRestoredNeverServes ==
  \A p \in RWPods, d \in Databases : data[p][d] = Wiped => pods[p] = "gone"

\* Every Job in existence belongs to the restore in status.restore, whose id
\* is the only label reapJobsByLabel can find it by: no Job outlives its
\* restore and keeps its lease on a pod's volumes.
JobsBelongToRestore == \A j \in jobs : j.id = restore.id

\* All read-write pods that run hold the same content of every database: a
\* restore replaces it everywhere while no pod is up, or nowhere.
NoMixedServing ==
  \A p, q \in RWPods, d \in Databases :
    pods[p] # "gone" /\ pods[q] # "gone" => data[p][d] = data[q][d]

\* restoreApplied is a one-shot: once set, no Job of a bootstrapFrom restore
\* works on that database again.
BootstrapOnce ==
  \A j \in jobs :
    Working(j) /\ restore.req = None => ~restoreApplied[j.db]

\* The phase machine is forward-only: a restore that left Restoring never goes
\* back to it, even when a pass acts on a stale status (ADR-018 R3 rests on it).
ForwardOnly ==
  [][restore.phase \in {"ScalingUp", "Failed"}
       => ~(restore'.phase = "Restoring" /\ restore'.id = restore.id)]_vars

\* "fans a restore Job out across every pod of every restoring database"
\* (slapdcluster_restore.go:429): a database is marked restored, never to be
\* restored again, only when every read-write volume holds the artifact.
MarkedMeansLoaded ==
  [][\A d \in Databases : ~restoreApplied[d] /\ restoreApplied'[d] =>
       \A p \in RWPods : p[2] < seen.orig.rw => data[p][d] = seen.id]_vars

(***************************************************************************)
(* Why the volumes are safe.  The status a pass reads, the status it left, *)
(* the pods, the Jobs and the volumes hang together in six ways; with the  *)
(* type invariant these are inductive, provided that a stale read does not *)
(* meet an expired Job and that the databases' Jobs have distinct names.   *)
(***************************************************************************)
ReadsOrJobsLast == ~({"lag", "ttl"} \subseteq Environment)
DistinctNames == \A d, e \in Databases : JobBase[d] = JobBase[e] => d = e

\* The status at the API server is what some pass made of the one in the
\* cache: at most one phase ahead, of the same restore.
StatusFollows ==
  /\ <<seen.phase, restore.phase>> \in
       {<<"None", "None">>, <<"None", "Preflight">>,
        <<"Preflight", "Preflight">>, <<"Preflight", "ScalingDown">>,
        <<"ScalingDown", "ScalingDown">>, <<"ScalingDown", "Restoring">>,
        <<"Restoring", "Restoring">>, <<"Restoring", "ScalingUp">>,
        <<"Restoring", "Failed">>, <<"Failed", "Failed">>,
        <<"ScalingUp", "ScalingUp">>, <<"ScalingUp", "None">>}
  /\ seen.phase # "None" /\ restore.phase # "None" =>
       /\ restore.id = seen.id /\ restore.orig = seen.orig
       /\ restore.dbs = seen.dbs
  /\ seen.phase # "None" => seen.id # 0
  /\ restore.phase # "None" => restore.id # 0
  /\ "lag" \notin Environment => restore = seen

\* No read-write pod exists, and none can start, from the moment Restoring is
\* written until a pass reads that it is over.
HeldDown ==
  seen.phase \in {"Restoring", "Failed"} \/ restore.phase = "Restoring"
    => sts.rw = 0 /\ RWPodsGone

\* Jobs exist for the restore in the cache only, one for each of its targets,
\* and only until it is over.
JobsTracked ==
  /\ jobs # {} => seen.phase \in {"Restoring", "Failed", "ScalingUp"}
  /\ seen.phase = "ScalingUp" /\ restore.phase = "None" => jobs = {}
  /\ \A j \in jobs : j.id = seen.id /\ <<j.pod, j.db>> \in Targets(seen)
  /\ \A j, k \in jobs : j.pod = k.pod /\ j.db = k.db => j = k

\* Whoever reads ScalingUp, or is about to, finds every target loaded.
LoadedBeforeUp ==
  /\ seen.phase = "ScalingUp" => \A j \in jobs : j.st = "complete"
  /\ seen.phase = "Restoring" /\ restore.phase = "ScalingUp" =>
       Missing(seen) = {} /\ \A j \in jobs : j.st = "complete"

\* A pass that does not know yet that the restore failed finds out why.
FailureRemembered ==
  seen.phase = "Restoring" /\ restore.phase = "Failed" =>
    \E j \in jobs : j.st = "failed"

\* A finished Job's volume holds its restore; only a target of a restore that
\* holds the cluster down can be without content.
VolumesTracked ==
  /\ \A j \in jobs : j.st = "complete" /\ j.pod \in RWPods =>
       data[j.pod][j.db] = j.id
  /\ \A p \in RWPods, d \in Databases : data[p][d] = Wiped =>
       /\ seen.phase \in {"Restoring", "Failed"}
       /\ <<p, d>> \in Targets(seen)

\* reconcileRestore, buildStatefulSetSpec and reapJobsByLabel together.
Coordinated == /\ StatusFollows /\ HeldDown /\ JobsTracked
               /\ LoadedBeforeUp /\ FailureRemembered /\ VolumesTracked

\* Why the pods agree, as long as nobody edits spec.replicas: every pod that may
\* run is a target of the restore, and databases outside it are not touched.
Agreement ==
  /\ sts.rw \in {0, spec.rw}
  /\ \A p \in RWPods : pods[p] # "gone" => p[2] < spec.rw
  /\ \A rst \in {seen, restore} : rst.phase # "None" => rst.orig.rw = spec.rw
  /\ \A p, q \in RWPods, d \in Databases :
       /\ p[2] < spec.rw /\ q[2] < spec.rw
       /\ seen.phase \in {"Restoring", "Failed"} => d \notin seen.dbs
       => data[p][d] = data[q][d]

-----------------------------------------------------------------------------
(***************************************************************************)
(* The promise to the clients: the read-write pods implement OfflineSwap.  *)
(***************************************************************************)
Swap == INSTANCE OfflineSwap WITH
          Replicas <- RWPods, Trees <- Databases, Broken <- Wiped,
          up   <- {p \in RWPods : pods[p] # "gone"},
          copy <- [p \in RWPods |-> data[p]]

\* No client ever reads a partly restored directory: the content of the
\* read-write pods changes only while all of them are down, and those that
\* come up agree.
ImplementsSwap == Swap!Spec

(***************************************************************************)
(* Liveness.                                                               *)
(***************************************************************************)
Serving == /\ restore.phase = "None"
           /\ \A p \in RWPods : p[2] < spec.rw => pods[p] = "ready"

\* However many operators die on the way, a SlapdRestore whose artifact stays
\* good is picked up, behind the ones before it, and completes, unless a Job
\* fails.
RequestsComplete ==
  \A r \in Requests :
    sr[r] = "New" ~> sr[r] = "Completed" \/ restore.phase = "Failed"

ReadersFresh ==
  \A p \in ROPods, d \in Databases : p[2] < spec.ro => data[p][d] # Wiped

\* The downtime of a restore ends: once the machine has begun, the declared
\* read-write pods are all ready again and the read-only ones, which nothing in
\* the machine waits for, have their content back; or a Job failed, and the
\* restore has let go of every volume (ADR-018 R2).
ServiceReturns ==
  restore.phase # "None"
    ~> (Serving /\ ReadersFresh) \/ (restore.phase = "Failed" /\ jobs = {})

=============================================================================
