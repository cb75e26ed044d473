------------------------ MODULE ClusterRestoreProofs ------------------------
(***************************************************************************)
(* Proofs about ClusterRestore: type correctness, and that no restore Job  *)
(* ever shares a volume with a running read-write pod, for every number of *)
(* pods, databases, requests and restores; and that, as long as            *)
(* spec.replicas is not edited, the read-write pods of a cluster under     *)
(* restore implement OfflineSwap.                                          *)
(***************************************************************************)
EXTENDS ClusterRestore, FiniteSetTheorems, TLAPS

ClusterPhases == {"Running", "Degraded", "Bootstrapping", "Restoring"}

-----------------------------------------------------------------------------
(***************************************************************************)
(* Type correctness.                                                       *)
(***************************************************************************)

\* A pass writes a status of the right type (applyStatus).
LEMMA WriteStatusType ==
  ASSUME TypeOK, NEW ok \in BOOLEAN, NEW rst \in RestoreRecords,
         NEW phase \in ClusterPhases, WriteStatus(ok, rst, phase)
  PROVE  /\ restore' \in RestoreRecords
         /\ seen' \in RestoreRecords
         /\ scPhase' \in ClusterPhases
  BY DEF TypeOK, WriteStatus, Cached, ClusterPhases

\* A pass writes only phases of the right type on a SlapdRestore
\* (setRestoreRequestPhase).
LEMMA SetRequestPhaseType ==
  ASSUME TypeOK, NEW r, NEW phase \in RequestPhases, SetRequestPhase(r, phase)
  PROVE  sr' \in [Requests -> RequestPhases]
         /\ srSeen' \in [Requests -> RequestPhases]
  <1>1. CASE Updates(r, phase) /\ ~Conflict(r, phase)
    <2>1. sr' = [sr EXCEPT ![r] = phase]
      BY <1>1 DEF SetRequestPhase
    <2>2. PICK p \in Cached(srSeen[r], phase) : srSeen' = [srSeen EXCEPT ![r] = p]
      BY <1>1 DEF SetRequestPhase
    <2>3. r \in Requests => p \in RequestPhases
      BY <2>2 DEF Cached, TypeOK
    <2> QED BY <2>1, <2>2, <2>3 DEF TypeOK
  <1>2. CASE ~(Updates(r, phase) /\ ~Conflict(r, phase))
    BY <1>2 DEF SetRequestPhase, TypeOK
  <1> QED BY <1>1, <1>2

\* The same of the update inside a pass (updateRestoreRequest).
LEMMA UpdateRequestType ==
  ASSUME TypeOK, NEW ok \in BOOLEAN, NEW r, NEW phase \in RequestPhases,
         UpdateRequest(ok, r, phase)
  PROVE  sr' \in [Requests -> RequestPhases]
         /\ srSeen' \in [Requests -> RequestPhases]
  <1>1. CASE SetRequestPhase(r, phase)
    BY <1>1, SetRequestPhaseType
  <1>2. CASE UNCHANGED <<sr, srSeen>>
    BY <1>2 DEF TypeOK
  <1> QED BY <1>1, <1>2 DEF UpdateRequest

\* The replica counts applied are of the declared range (reconcileStatefulSet).
LEMMA ApplyType ==
  ASSUME TypeOK, ApplyStatefulSets
  PROVE  sts' \in Sizes
  BY RestoreConstants DEF TypeOK, ApplyStatefulSets, Sizes

\* setReadyPhase writes a phase of a cluster.
LEMMA ReadyPhaseType == ReadyPhase \in ClusterPhases
  BY DEF ReadyPhase, ClusterPhases

\* A cleared status.restore is a status.restore.
LEMMA NoRestoreType == NoRestore \in RestoreRecords
  BY RestoreConstants DEF NoRestore, RestoreRecords, RestorePhases, Sizes

\* The Jobs runRestoreJobs creates are of the right type.
LEMMA NewJobsType ==
  ASSUME TypeOK, NEW targets \in SUBSET Targets(seen)
  PROVE  NewJobs(seen, targets) \subseteq JobRecords
  BY DEF TypeOK, NewJobs, Targets, JobRecords, RestoreRecords

\* Every phase's handler keeps the types.
LEMMA PassType ==
  ASSUME TypeOK, NEW ok \in BOOLEAN, Pass(ok)
  PROVE  TypeOK'
  <1> DEFINE Goal == /\ restore' \in RestoreRecords
                     /\ seen' \in RestoreRecords
                     /\ scPhase' \in ClusterPhases
                     /\ restoreApplied' \in [Databases -> BOOLEAN]
                     /\ sr' \in [Requests -> RequestPhases]
                     /\ srSeen' \in [Requests -> RequestPhases]
                     /\ jobs' \subseteq JobRecords
                     /\ started' \in Nat \ {0}
  <1>0. /\ seen \in RestoreRecords
        /\ \A ph \in RestorePhases : [seen EXCEPT !.phase = ph] \in RestoreRecords
        /\ ReadyPhase \in ClusterPhases
        /\ "Running" \in ClusterPhases /\ "Restoring" \in ClusterPhases
    BY ReadyPhaseType DEF TypeOK, RestoreRecords, ClusterPhases
  <1>1. sts' \in Sizes
    BY ApplyType DEF Pass
  <1> SUFFICES Goal
    BY <1>1 DEF Pass, Outside, TypeOK, ClusterPhases
  <1>2. CASE PassNotRestoring(ok)
    <2>1. CASE StartBootstrap(ok)
      <3>1. StartedRestore(NeedingRestore, None) \in RestoreRecords
        BY RestoreConstants DEF StartedRestore, NeedingRestore, RestoreRecords,
           RestorePhases, TypeOK
      <3>2. WriteStatus(ok, StartedRestore(NeedingRestore, None), "Running")
        BY <2>1 DEF StartBootstrap, Begin
      <3> QED BY <1>0, <1>2, <2>1, <3>1, <3>2, WriteStatusType
              DEF PassNotRestoring, StartBootstrap, Begin, NoRequestUpdate, TypeOK
    <2>2. CASE StartRequested(ok)
      <3>1. PICK r \in Pending : /\ Begin(ok, {RequestDB[r]}, r)
                                 /\ SetRequestPhase(r, "Preflight")
        BY <2>2 DEF StartRequested
      <3>2. r \in Requests
        BY DEF Pending, Candidates
      <3>3. StartedRestore({RequestDB[r]}, r) \in RestoreRecords
        BY <3>2, RestoreConstants
        DEF StartedRestore, RestoreRecords, RestorePhases, TypeOK
      <3>4. WriteStatus(ok, StartedRestore({RequestDB[r]}, r), "Running")
        BY <3>1 DEF Begin
      <3>5. sr' \in [Requests -> RequestPhases] /\ srSeen' \in [Requests -> RequestPhases]
        BY <3>1, SetRequestPhaseType DEF RequestPhases
      <3> QED BY <1>0, <1>2, <3>1, <3>3, <3>4, <3>5, WriteStatusType
              DEF PassNotRestoring, Begin, TypeOK
    <2>3. CASE Idle(ok)
      BY <1>0, <1>2, <2>3, WriteStatusType, NoRestoreType
      DEF Idle, PassNotRestoring, NoRequestUpdate, TypeOK
    <2>4. CASE WithoutImage(ok)
      <3>1. sr' \in [Requests -> RequestPhases] /\ srSeen' \in [Requests -> RequestPhases]
        BY <2>4, SetRequestPhaseType DEF WithoutImage, RequestPhases, TypeOK
      <3> QED BY <1>0, <1>2, <2>4, <3>1, WriteStatusType, NoRestoreType
              DEF WithoutImage, PassNotRestoring, TypeOK
    <2> QED BY <1>2, <2>1, <2>2, <2>3, <2>4 DEF PassNotRestoring
  <1>3. CASE PassPreflight(ok)
    <2>1. sr' \in [Requests -> RequestPhases] /\ srSeen' \in [Requests -> RequestPhases]
      BY <1>3, UpdateRequestType
      DEF PassPreflight, NoRequestUpdate, RequestPhases, TypeOK
    <2>2. \E rst \in RestoreRecords : WriteStatus(ok, rst, "Running")
      BY <1>0, <1>3 DEF PassPreflight, RestorePhases
    <2> QED BY <1>0, <1>3, <2>1, <2>2, WriteStatusType DEF PassPreflight, TypeOK
  <1>4. CASE PassScalingDown(ok)
    <2>1. \E rst \in RestoreRecords : WriteStatus(ok, rst, "Restoring")
      BY <1>0, <1>4 DEF PassScalingDown, RestorePhases
    <2> QED BY <1>0, <1>4, <2>1, WriteStatusType
            DEF PassScalingDown, NoRequestUpdate, TypeOK
  <1>5. CASE PassRestoring(ok)
    <2>1. \E rst \in RestoreRecords : WriteStatus(ok, rst, "Restoring")
      BY <1>0, <1>5 DEF PassRestoring, JobFailed, JobsRunning, JobsDone, RestorePhases
    <2>2. sr' \in [Requests -> RequestPhases] /\ srSeen' \in [Requests -> RequestPhases]
      BY <1>5, UpdateRequestType
      DEF PassRestoring, JobFailed, JobsRunning, JobsDone, NoRequestUpdate,
          RequestPhases, TypeOK
    <2>3. jobs' \subseteq JobRecords
      <3>1. Missing(seen) \subseteq Targets(seen)
        BY DEF Missing
      <3> QED BY <1>5, <3>1, NewJobsType
              DEF PassRestoring, JobFailed, JobsRunning, JobsDone, Creatable, TypeOK
    <2>4. restoreApplied' \in [Databases -> BOOLEAN]
      BY <1>5 DEF PassRestoring, JobFailed, JobsRunning, JobsDone, TypeOK
    <2> QED BY <1>0, <1>5, <2>1, <2>2, <2>3, <2>4, WriteStatusType
            DEF PassRestoring, TypeOK
  <1>6. CASE PassScalingUp(ok)
    <2>1. \E rst \in RestoreRecords, ph \in ClusterPhases : WriteStatus(ok, rst, ph)
      BY <1>0, <1>6, NoRestoreType DEF PassScalingUp
    <2>2. sr' \in [Requests -> RequestPhases] /\ srSeen' \in [Requests -> RequestPhases]
      BY <1>6, UpdateRequestType DEF PassScalingUp, NoRequestUpdate, RequestPhases, TypeOK
    <2> QED BY <1>6, <2>1, <2>2, WriteStatusType DEF PassScalingUp, ReapJobs, TypeOK
  <1>7. CASE PassFailed(ok)
    BY <1>0, <1>7, WriteStatusType DEF PassFailed, ReapJobs, NoRequestUpdate, TypeOK
  <1>8. CASE PassEndsEarly
    BY <1>8 DEF PassEndsEarly, TypeOK, ClusterPhases
  <1> QED BY <1>2, <1>3, <1>4, <1>5, <1>6, <1>7, <1>8 DEF Pass

\* So do the pods, the Jobs, syncrepl, the SlapdDatabase controller, the cache
\* and the user.
LEMMA EnvironmentType ==
  ASSUME TypeOK,
         \/ \E p \in Pods : PodNext(p)
         \/ \E j \in jobs : JobNext(j)
         \/ \E p \in Pods, d \in Databases : Refresh(p, d)
         \/ \E d \in Databases : DatabasePass(d)
         \/ CacheSync
         \/ \E r \in Requests : CacheSyncRequest(r)
         \/ UserNext
  PROVE  TypeOK'
  <1>1. ASSUME NEW p \in Pods, PodNext(p)
        PROVE  TypeOK'
    <2>1. \E state \in {"gone", "starting", "ready"} : PodStep(p, state)
      BY <1>1 DEF PodNext, PodStart, PodReady, PodStop, PodUnready
    <2> QED BY <2>1 DEF PodStep, operatorVars, cacheVars, userVars, TypeOK
  <1>2. ASSUME NEW j \in jobs, JobNext(j)
        PROVE  TypeOK'
    <2>1. j \in JobRecords /\ j.pod \in Pods /\ j.db \in Databases /\ j.id \in Nat
      BY DEF TypeOK, JobRecords
    <2>2. CASE JobExpire(j)
      BY <2>2 DEF JobExpire, operatorVars, cacheVars, userVars, TypeOK
    <2>3. CASE JobWipe(j) \/ JobLoad(j) \/ JobFail(j)
      <3>1. PICK state \in {"active", "loading", "complete", "failed"},
                 content \in Nat : JobStep(j, state, content)
        BY <2>1, <2>3 DEF JobWipe, JobLoad, JobFail, Wiped, TypeOK
      <3>2. [j EXCEPT !.st = state] \in JobRecords
        BY <2>1 DEF JobRecords
      <3>3. data' \in [Pods -> [Databases -> Nat]]
        BY <2>1, <3>1 DEF JobStep, TypeOK
      <3> QED BY <3>1, <3>2, <3>3 DEF JobStep, operatorVars, cacheVars, userVars, TypeOK
    <2> QED BY <1>2, <2>2, <2>3 DEF JobNext
  <1>3. ASSUME NEW p \in Pods, NEW d \in Databases, Refresh(p, d)
        PROVE  TypeOK'
    <2>1. PICK q \in RWPods : data' = [data EXCEPT ![p][d] = data[q][d]]
      BY <1>3 DEF Refresh
    <2>2. data[q][d] \in Nat
      BY DEF TypeOK, Pods
    <2>3. data' \in [Pods -> [Databases -> Nat]]
      BY <2>1, <2>2 DEF TypeOK
    <2> QED BY <1>3, <2>3 DEF Refresh, operatorVars, cacheVars, userVars, TypeOK
  <1>4. ASSUME NEW d \in Databases, DatabasePass(d)
        PROVE  TypeOK'
    BY <1>4 DEF DatabasePass, operatorVars, cacheVars, userVars, TypeOK
  <1>5. CASE CacheSync
    BY <1>5 DEF CacheSync, operatorVars, userVars, TypeOK
  <1>6. ASSUME NEW r \in Requests, CacheSyncRequest(r)
        PROVE  TypeOK'
    BY <1>6 DEF CacheSyncRequest, operatorVars, userVars, TypeOK
  <1>7. ASSUME NEW r \in Requests, CreateRequest(r)
        PROVE  TypeOK'
    <2>1. PICK p \in Cached(srSeen[r], "New") : srSeen' = [srSeen EXCEPT ![r] = p]
      BY <1>7 DEF CreateRequest
    <2>2. p \in RequestPhases
      BY <2>1 DEF Cached, RequestPhases, TypeOK
    <2>3. Cardinality({q \in Requests : sr[q] # "absent"}) \in Nat
      BY FS_Subset, FS_CardinalityType, RestoreConstants
    <2> QED BY <1>7, <2>1, <2>2, <2>3
            DEF CreateRequest, Rest, operatorVars, RequestPhases, TypeOK
  <1>8. ASSUME NEW r \in Requests, DeleteRequest(r)
        PROVE  TypeOK'
    <2>1. PICK p \in Cached(srSeen[r], "deleted") : srSeen' = [srSeen EXCEPT ![r] = p]
      BY <1>8 DEF DeleteRequest
    <2>2. p \in RequestPhases
      BY <2>1 DEF Cached, RequestPhases, TypeOK
    <2> QED BY <1>8, <2>1, <2>2 DEF DeleteRequest, Rest, operatorVars, RequestPhases, TypeOK
  <1>9. CASE EditSpec
    BY <1>9 DEF EditSpec, Rest, operatorVars, TypeOK
  <1>10. ASSUME NEW x \in Requests \cup {None}, ArtifactChanges(x)
         PROVE  TypeOK'
    BY <1>10 DEF ArtifactChanges, Rest, operatorVars, TypeOK
  <1> QED BY <1>1, <1>2, <1>3, <1>4, <1>5, <1>6, <1>7, <1>8, <1>9, <1>10 DEF UserNext

\* Every variable holds what the API types allow, in every state the operator
\* and its environment reach: whatever Environment is, for any cluster.
THEOREM TypeCorrect == Spec => []TypeOK
  <1>1. Init => TypeOK
    <2> SUFFICES ASSUME Init PROVE TypeOK
      OBVIOUS
    <2>1. Pods \subseteq ({"rw", "ro"} \X Nat)
      BY RestoreConstants DEF Pods, RWPods, ROPods
    <2>2. spec \in Sizes /\ spec.rw # 0 /\ sts \in Sizes
      BY DEF Init
    <2>3. restore \in RestoreRecords /\ seen \in RestoreRecords
      BY NoRestoreType DEF Init
    <2>4. pods \in [Pods -> {"gone", "starting", "ready"}]
      BY DEF Init
    <2>5. data \in [Pods -> [Databases -> Nat]]
      BY DEF Init, Original
    <2> QED BY <2>2, <2>3, <2>4, <2>5 DEF Init, TypeOK, RequestPhases
  <1>2. TypeOK /\ [Next]_vars => TypeOK'
    <2> SUFFICES ASSUME TypeOK, [Next]_vars PROVE TypeOK'
      OBVIOUS
    <2>1. CASE \E ok \in BOOLEAN : Pass(ok)
      BY <2>1, PassType
    <2>2. CASE Next /\ ~\E ok \in BOOLEAN : Pass(ok)
      BY <2>2, EnvironmentType DEF Next
    <2>3. CASE UNCHANGED vars
      BY <2>3 DEF vars, TypeOK
    <2> QED BY <2>1, <2>2, <2>3
  <1> QED BY <1>1, <1>2, PTL DEF Spec

-----------------------------------------------------------------------------
(***************************************************************************)
(* The volumes.  Coordinated is preserved by every step; it is looked at   *)
(* phase by phase for a pass, whose reading of the status decides all.     *)
(***************************************************************************)

\* The phase is no part of what a restore's Jobs are for (restorePodTargets).
LEMMA PhaseKeepsTargets ==
  ASSUME NEW rst \in RestoreRecords, NEW ph
  PROVE  /\ Targets([rst EXCEPT !.phase = ph]) = Targets(rst)
         /\ [rst EXCEPT !.phase = ph].phase = ph
         /\ [rst EXCEPT !.phase = ph].id = rst.id
         /\ [rst EXCEPT !.phase = ph].orig = rst.orig
         /\ [rst EXCEPT !.phase = ph].dbs = rst.dbs
  BY DEF RestoreRecords, Targets

\* What applyStatus may leave: nothing new, or the new status at the API
\* server and, at once or later, in the cache.
LEMMA WriteStatusCases ==
  ASSUME NEW ok \in BOOLEAN, NEW rst, NEW ph, WriteStatus(ok, rst, ph)
  PROVE  \/ restore' = restore /\ seen' = seen
         \/ restore' = rst /\ seen' = rst
         \/ restore' = rst /\ seen' = seen /\ "lag" \in Environment
  BY DEF WriteStatus, Cached

\* A pass that read a phase that holds the cluster down scales to zero.
LEMMA HoldsDown ==
  ASSUME ApplyStatefulSets, seen.phase \in {"ScalingDown", "Restoring", "Failed"}
  PROVE  sts'.rw = 0
  BY DEF ApplyStatefulSets, RestoreHoldsDown

\* Nothing Coordinated speaks of has changed.
LEMMA CoordinatedUnchanged ==
  ASSUME Coordinated, UNCHANGED <<restore, seen, sts, pods, jobs, data>>
  PROVE  Coordinated'
  BY DEF Coordinated, StatusFollows, HeldDown, RWPodsGone, JobsTracked,
     LoadedBeforeUp, FailureRemembered, Missing, JobsOf, Targets, VolumesTracked

\* With distinct names a Job found for a target is the target's own.
LEMMA NamedByTarget ==
  ASSUME TypeOK, DistinctNames, Missing(seen) = {},
         NEW p, NEW d, <<p, d>> \in Targets(seen)
  PROVE  \E j \in jobs : <<j.pod, j.db>> = <<p, d>>
  <1>1. PICK j \in jobs : JobName(<<j.pod, j.db>>) = JobName(<<p, d>>)
    BY DEF Missing, JobsOf
  <1>2. j.db \in Databases /\ d \in Databases
    BY DEF TypeOK, JobRecords, Targets, RestoreRecords
  <1> QED BY <1>1, <1>2 DEF JobName, DistinctNames

\* Once every target has a finished Job, every read-write volume has content.
LEMMA AllLoaded ==
  ASSUME TypeOK, Coordinated, DistinctNames, seen.phase # "None",
         Missing(seen) = {}, \A j \in jobs : j.st = "complete"
  PROVE  \A p \in RWPods, d \in Databases : data[p][d] # Wiped
  <1> SUFFICES ASSUME NEW p \in RWPods, NEW d \in Databases, data[p][d] = Wiped
               PROVE  FALSE
    OBVIOUS
  <1>1. <<p, d>> \in Targets(seen)
    BY DEF Coordinated, VolumesTracked
  <1>2. PICK j \in jobs : <<j.pod, j.db>> = <<p, d>>
    BY <1>1, NamedByTarget
  <1>3. data[p][d] = j.id
    BY <1>2 DEF Coordinated, VolumesTracked
  <1>4. j.id = seen.id /\ seen.id # 0
    BY DEF Coordinated, JobsTracked, StatusFollows
  <1> QED BY <1>3, <1>4 DEF Wiped

\* Before anything is held down: the pass reads no restore, or one that is
\* still in its preflight.
LEMMA PassBeforeDown ==
  ASSUME TypeOK, Coordinated, NEW ok \in BOOLEAN, Pass(ok),
         PassNotRestoring(ok) \/ PassPreflight(ok)
  PROVE  Coordinated'
  <1>1. /\ jobs = {} /\ jobs' = {} /\ data' = data /\ pods' = pods
        /\ seen.phase \in {"None", "Preflight"}
        /\ \A p \in RWPods, d \in Databases : data[p][d] # Wiped
    BY DEF Pass, Outside, PassNotRestoring, PassPreflight, Coordinated,
       JobsTracked, VolumesTracked
  <1>2. StatusFollows' /\ restore'.phase # "Restoring"
          /\ seen'.phase \in {"None", "Preflight", "ScalingDown"}
    <2>1. CASE PassNotRestoring(ok)
      <3> DEFINE Written == \E rst, ph :
                              /\ WriteStatus(ok, rst, ph)
                              /\ rst.phase \in {"None", "Preflight"}
                              /\ rst.phase = "Preflight" => rst.id # 0
      <3>a. ASSUME NEW dbs, NEW req, Begin(ok, dbs, req)
            PROVE  Written
        <4>1. /\ StartedRestore(dbs, req).phase = "Preflight"
              /\ StartedRestore(dbs, req).id # 0
          BY DEF StartedRestore, TypeOK
        <4> QED BY <3>a, <4>1 DEF Begin
      <3>b. ASSUME NEW ph, WriteStatus(ok, NoRestore, ph)
            PROVE  Written
        <4>1. NoRestore.phase = "None"
          BY DEF NoRestore
        <4> QED BY <3>b, <4>1
      <3>1. Written
        BY <2>1, <3>a, <3>b
        DEF PassNotRestoring, StartBootstrap, StartRequested, Idle, WithoutImage
      <3>2. seen.phase = "None"
        BY <2>1 DEF PassNotRestoring
      <3> QED BY <3>1, <3>2, WriteStatusCases DEF Coordinated, StatusFollows
    <2>2. CASE PassPreflight(ok)
      <3>1. seen.phase = "Preflight" /\ seen \in RestoreRecords
        BY <2>2 DEF PassPreflight, TypeOK
      <3>2. PICK rst, ph : /\ WriteStatus(ok, rst, ph)
                           /\ rst \in {seen, [seen EXCEPT !.phase = "ScalingDown"]}
        BY <2>2 DEF PassPreflight
      <3>3. /\ rst.phase \in {"Preflight", "ScalingDown"}
            /\ rst.id = seen.id /\ rst.orig = seen.orig /\ rst.dbs = seen.dbs
        BY <3>1, <3>2 DEF RestoreRecords
      <3> QED BY <3>1, <3>2, <3>3, WriteStatusCases DEF Coordinated, StatusFollows
    <2> QED BY <2>1, <2>2
  <1> QED BY <1>1, <1>2 DEF Coordinated, HeldDown, JobsTracked, LoadedBeforeUp,
             FailureRemembered, VolumesTracked

\* Scaling down: Restoring is written only when the pods are gone.
LEMMA PassWhileScalingDown ==
  ASSUME TypeOK, Coordinated, NEW ok \in BOOLEAN, Pass(ok), PassScalingDown(ok)
  PROVE  Coordinated'
  <1>1. /\ seen.phase = "ScalingDown" /\ seen \in RestoreRecords
        /\ jobs = {} /\ jobs' = {} /\ data' = data /\ pods' = pods
        /\ sts'.rw = 0
        /\ \A p \in RWPods, d \in Databases : data[p][d] # Wiped
    BY HoldsDown DEF Pass, Outside, PassScalingDown, Coordinated, JobsTracked,
       VolumesTracked, TypeOK
  <1>2. PICK rst : /\ WriteStatus(ok, rst, "Restoring")
                   /\ \/ rst = seen
                      \/ RWPodsGone /\ rst = [seen EXCEPT !.phase = "Restoring"]
    BY DEF PassScalingDown
  <1>3. /\ rst.phase \in {"ScalingDown", "Restoring"}
        /\ rst.phase = "Restoring" => RWPodsGone
        /\ rst.id = seen.id /\ rst.orig = seen.orig /\ rst.dbs = seen.dbs
    BY <1>1, <1>2 DEF RestoreRecords
  <1>4. StatusFollows'
    BY <1>1, <1>2, <1>3, WriteStatusCases DEF Coordinated, StatusFollows
  <1>5. HeldDown'
    BY <1>1, <1>2, <1>3, WriteStatusCases DEF Coordinated, HeldDown, RWPodsGone
  <1>6. seen'.phase \in {"ScalingDown", "Restoring"}
        /\ restore'.phase \notin {"ScalingUp", "Failed"}
    BY <1>1, <1>2, <1>3, WriteStatusCases DEF Coordinated, StatusFollows
  <1> QED BY <1>1, <1>4, <1>5, <1>6
          DEF Coordinated, JobsTracked, LoadedBeforeUp, FailureRemembered,
              VolumesTracked

\* Creating Jobs for targets that have none keeps one Job to a target.
LEMMA NewJobsTracked ==
  ASSUME TypeOK, Coordinated, NEW made \in SUBSET Missing(seen),
         jobs' = jobs \cup NewJobs(seen, made)
  PROVE  /\ \A j \in jobs' : j.id = seen.id /\ <<j.pod, j.db>> \in Targets(seen)
         /\ \A j, k \in jobs' : j.pod = k.pod /\ j.db = k.db => j = k
         /\ \A j \in jobs' \ jobs : j.st = "active"
  <1>1. \A t \in made : /\ t \in Targets(seen) /\ t = <<t[1], t[2]>>
                        /\ \A j \in jobs : <<j.pod, j.db>> # t
    BY DEF Missing, JobsOf, Coordinated, JobsTracked, Targets
  <1>2. \A j \in jobs' \ jobs :
          /\ j.id = seen.id /\ j.st = "active"
          /\ <<j.pod, j.db>> \in made
          /\ j = [id |-> seen.id, pod |-> j.pod, db |-> j.db, st |-> "active"]
    BY <1>1 DEF NewJobs
  <1>3. \A j \in jobs : j.id = seen.id /\ <<j.pod, j.db>> \in Targets(seen)
    BY DEF Coordinated, JobsTracked
  <1>4. ASSUME NEW j \in jobs', NEW k \in jobs', j.pod = k.pod, j.db = k.db
        PROVE  j = k
    <2>1. CASE j \in jobs /\ k \in jobs
      BY <1>4, <2>1 DEF Coordinated, JobsTracked
    <2>2. CASE j \notin jobs /\ k \notin jobs
      <3>1. j = [id |-> seen.id, pod |-> j.pod, db |-> j.db, st |-> "active"]
        BY <1>2, <2>2
      <3>2. k = [id |-> seen.id, pod |-> k.pod, db |-> k.db, st |-> "active"]
        BY <1>2, <2>2
      <3> QED BY <1>4, <3>1, <3>2, Zenon
    <2>3. CASE j \in jobs /\ k \notin jobs
      BY <1>1, <1>2, <1>4, <2>3
    <2>4. CASE j \notin jobs /\ k \in jobs
      BY <1>1, <1>2, <1>4, <2>4
    <2> QED BY <2>1, <2>2, <2>3, <2>4
  <1> QED BY <1>1, <1>2, <1>3, <1>4

\* The restore runs its Jobs, or finds one failed, or all of them complete.
LEMMA PassWhileRestoring ==
  ASSUME TypeOK, Coordinated, DistinctNames, NEW ok \in BOOLEAN, Pass(ok),
         PassRestoring(ok)
  PROVE  Coordinated'
  <1>1. /\ seen.phase = "Restoring" /\ seen \in RestoreRecords /\ seen.id # 0
        /\ data' = data /\ pods' = pods /\ sts'.rw = 0 /\ RWPodsGone
    BY HoldsDown DEF Pass, Outside, PassRestoring, Coordinated, HeldDown,
       StatusFollows, TypeOK
  <1>2. JobsOf(seen) = jobs
    BY DEF JobsOf, Coordinated, JobsTracked
  <1>3. CASE JobFailed(ok) \/ JobsRunning(ok)
    <2>1. restore.phase # "ScalingUp"
      BY <1>1, <1>2, <1>3 DEF JobFailed, JobsRunning, Coordinated, LoadedBeforeUp
    <2>2. PICK made \in SUBSET Missing(seen) : jobs' = jobs \cup NewJobs(seen, made)
      BY <1>3 DEF JobFailed, JobsRunning, Creatable
    <2>3. PICK rst : /\ WriteStatus(ok, rst, "Restoring")
                     /\ rst \in {seen, [seen EXCEPT !.phase = "Failed"]}
      BY <1>3 DEF JobFailed, JobsRunning
    <2>4. /\ rst.phase \in {"Restoring", "Failed"} /\ rst.id = seen.id
          /\ rst.orig = seen.orig /\ rst.dbs = seen.dbs
      BY <1>1, <2>3 DEF RestoreRecords
    <2>5. /\ seen'.phase \in {"Restoring", "Failed"} /\ restore'.phase # "ScalingUp"
          /\ seen'.id = seen.id
          /\ seen'.orig = seen.orig /\ seen'.dbs = seen.dbs
      BY <1>1, <2>1, <2>3, <2>4, WriteStatusCases
    <2>6. StatusFollows'
      BY <1>1, <2>1, <2>3, <2>4, WriteStatusCases DEF Coordinated, StatusFollows
    <2>7. Targets(seen') = Targets(seen)
      BY <2>5 DEF Targets
    <2>8. JobsTracked'
      <3>1. /\ \A j \in jobs' : j.id = seen'.id /\ <<j.pod, j.db>> \in Targets(seen')
            /\ \A j, k \in jobs' : j.pod = k.pod /\ j.db = k.db => j = k
        BY <2>2, <2>5, <2>7, NewJobsTracked
      <3> QED BY <2>5, <3>1 DEF JobsTracked, Targets
    <2>9. VolumesTracked'
      <3>1. \A j \in jobs' : j.st = "complete" => j \in jobs
        BY <2>2, NewJobsTracked
      <3> QED BY <1>1, <2>5, <3>1 DEF VolumesTracked, Coordinated, Targets
    <2>10. HeldDown' /\ LoadedBeforeUp'
      BY <1>1, <2>5 DEF HeldDown, LoadedBeforeUp, RWPodsGone
    <2>11. FailureRemembered'
      <3>1. CASE JobFailed(ok)
        BY <1>2, <2>2, <3>1 DEF JobFailed, FailureRemembered
      <3>2. CASE JobsRunning(ok)
        <4>1. restore.phase # "Failed"
          BY <1>1, <1>2, <3>2 DEF JobsRunning, Coordinated, FailureRemembered
        <4>2. restore' \in {restore, seen}
          BY <3>2, WriteStatusCases DEF JobsRunning
        <4> QED BY <1>1, <4>1, <4>2 DEF FailureRemembered
      <3> QED BY <1>3, <3>1, <3>2
    <2> QED BY <2>6, <2>8, <2>9, <2>10, <2>11 DEF Coordinated
  <1>4. CASE JobsDone(ok)
    <2> DEFINE up == [seen EXCEPT !.phase = "ScalingUp"]
    <2>1. /\ WriteStatus(ok, up, "Restoring") /\ jobs' = jobs /\ Missing(seen) = {}
          /\ \A j \in jobs : j.st = "complete"
      BY <1>2, <1>4 DEF JobsDone
    <2>2. /\ up.phase = "ScalingUp" /\ up.id = seen.id
          /\ up.orig = seen.orig /\ up.dbs = seen.dbs
      BY <1>1 DEF RestoreRecords
    <2> HIDE DEF up
    <2>3. /\ seen'.phase \in {"Restoring", "ScalingUp"}
          /\ seen'.phase = "ScalingUp" => restore'.phase = "ScalingUp"
          /\ seen'.id = seen.id /\ seen'.orig = seen.orig /\ seen'.dbs = seen.dbs
      BY <1>1, <2>1, <2>2, WriteStatusCases
    <2>4. StatusFollows'
      BY <1>1, <2>1, <2>2, WriteStatusCases DEF Coordinated, StatusFollows
    <2>5. HeldDown'
      BY <1>1, <2>1, <2>3, <2>4 DEF HeldDown, RWPodsGone, StatusFollows
    <2>6. JobsTracked'
      BY <2>1, <2>3 DEF Coordinated, JobsTracked, Targets
    <2>7. LoadedBeforeUp'
      BY <2>1, <2>3 DEF LoadedBeforeUp, Missing, JobsOf, Targets
    <2>8. VolumesTracked'
      BY <1>1, <2>1, <2>3, AllLoaded DEF Coordinated, VolumesTracked
    <2>9. FailureRemembered'
      <3>1. restore.phase # "Failed"
        BY <1>1, <2>1 DEF Coordinated, FailureRemembered
      <3> QED BY <2>1, <2>2, <3>1, WriteStatusCases DEF FailureRemembered
    <2> QED BY <2>4, <2>5, <2>6, <2>7, <2>8, <2>9 DEF Coordinated
  <1> QED BY <1>3, <1>4 DEF PassRestoring

\* Scaling up again: the Jobs are reaped before the restore is forgotten.
LEMMA PassWhileScalingUp ==
  ASSUME TypeOK, Coordinated, NEW ok \in BOOLEAN, Pass(ok), PassScalingUp(ok)
  PROVE  Coordinated'
  <1>1. /\ seen.phase = "ScalingUp" /\ seen.id # 0
        /\ data' = data /\ pods' = pods
        /\ \A p \in RWPods, d \in Databases : data[p][d] # Wiped
    BY DEF Pass, Outside, PassScalingUp, Coordinated, VolumesTracked, StatusFollows
  <1>2. JobsOf(seen) = jobs
    BY DEF JobsOf, Coordinated, JobsTracked
  <1>3. NoRestore.phase = "None"
    BY DEF NoRestore
  <1>4. \/ jobs' \subseteq jobs /\ \E ph : WriteStatus(ok, seen, ph)
        \/ jobs' = {} /\ \E ph : WriteStatus(ok, NoRestore, ph)
    BY <1>2 DEF PassScalingUp, ReapJobs
  <1>5. /\ seen' \in {seen, NoRestore}
        /\ seen' = NoRestore => restore' = NoRestore /\ jobs' = {}
        /\ restore'.phase \in {"ScalingUp", "None"}
        /\ restore'.phase = "None" => jobs' = {}
        /\ jobs' \subseteq jobs
    BY <1>1, <1>3, <1>4, WriteStatusCases DEF Coordinated, StatusFollows, JobsTracked
  <1>6. StatusFollows'
    BY <1>1, <1>3, <1>4, WriteStatusCases DEF Coordinated, StatusFollows
  <1>7. JobsTracked'
    BY <1>1, <1>3, <1>5 DEF Coordinated, JobsTracked, Targets
  <1>8. LoadedBeforeUp' /\ FailureRemembered' /\ HeldDown' /\ VolumesTracked'
    BY <1>1, <1>3, <1>5
    DEF Coordinated, LoadedBeforeUp, FailureRemembered, HeldDown, VolumesTracked
  <1> QED BY <1>6, <1>7, <1>8 DEF Coordinated

\* A failed restore stays down and lets its Jobs go.
LEMMA PassAfterFailure ==
  ASSUME TypeOK, Coordinated, NEW ok \in BOOLEAN, Pass(ok), PassFailed(ok)
  PROVE  Coordinated'
  <1>1. /\ seen.phase = "Failed" /\ restore.phase = "Failed"
        /\ sts'.rw = 0 /\ RWPodsGone /\ pods' = pods /\ data' = data
    BY HoldsDown DEF Pass, Outside, PassFailed, Coordinated, HeldDown, StatusFollows
  <1>2. jobs' \subseteq jobs
    BY DEF PassFailed, ReapJobs
  <1>3. seen' = seen /\ restore' \in {seen, restore}
    BY WriteStatusCases DEF PassFailed
  <1>4. StatusFollows'
    BY <1>1, <1>3, WriteStatusCases DEF PassFailed, Coordinated, StatusFollows
  <1> QED BY <1>1, <1>2, <1>3, <1>4
          DEF Coordinated, HeldDown, RWPodsGone, JobsTracked, LoadedBeforeUp,
              FailureRemembered, VolumesTracked, Targets

\* A pass that ends early has applied the StatefulSets and nothing else.
LEMMA PassWithoutStatus ==
  ASSUME TypeOK, Coordinated, NEW ok \in BOOLEAN, Pass(ok), PassEndsEarly
  PROVE  Coordinated'
  <1>1. UNCHANGED <<restore, seen, jobs, pods, data>>
    BY DEF Pass, Outside, PassEndsEarly
  <1>2. HeldDown'
    BY <1>1, HoldsDown DEF Pass, Coordinated, HeldDown, RWPodsGone, StatusFollows
  <1> QED BY <1>1, <1>2
          DEF Coordinated, StatusFollows, JobsTracked, LoadedBeforeUp,
              FailureRemembered, Missing, JobsOf, Targets, VolumesTracked

\* A whole pass, whatever phase it read.
LEMMA PassCoordinated ==
  ASSUME TypeOK, Coordinated, DistinctNames, NEW ok \in BOOLEAN, Pass(ok)
  PROVE  Coordinated'
  BY PassBeforeDown, PassWhileScalingDown, PassWhileRestoring, PassWhileScalingUp,
     PassAfterFailure, PassWithoutStatus DEF Pass

\* No read-write pod starts while the StatefulSet is held at zero.
LEMMA PodCoordinated ==
  ASSUME TypeOK, Coordinated, NEW p \in Pods, PodNext(p)
  PROVE  Coordinated'
  <1>1. UNCHANGED <<restore, seen, jobs, data, sts>>
    BY DEF PodNext, PodStart, PodReady, PodStop, PodUnready, PodStep,
       operatorVars, cacheVars
  <1>2. ASSUME sts.rw = 0, RWPodsGone
        PROVE  RWPodsGone'
    <2>1. p \in RWPods => ~Declared(p) /\ pods[p] = "gone"
      BY <1>2 DEF Declared, RWPodsGone, RWPods
    <2>2. p \in ROPods => p \notin RWPods
      BY DEF RWPods, ROPods
    <2>3. p \notin RWPods
      BY <2>1 DEF PodNext, PodStart, PodReady, PodStop, PodUnready
    <2>4. PICK state : pods' = [pods EXCEPT ![p] = state]
      BY DEF PodNext, PodStart, PodReady, PodStop, PodUnready, PodStep
    <2> QED BY <1>2, <2>3, <2>4 DEF RWPodsGone, TypeOK, Pods
  <1>3. HeldDown'
    BY <1>1, <1>2 DEF Coordinated, HeldDown
  <1> QED BY <1>1, <1>3
          DEF Coordinated, StatusFollows, JobsTracked, LoadedBeforeUp,
              FailureRemembered, Missing, JobsOf, Targets, VolumesTracked

\* A Job that works does so while the cluster is held down, on a target of its
\* own; it finishes only with the content loaded.
LEMMA JobCoordinated ==
  ASSUME TypeOK, Coordinated, NEW j \in jobs,
         JobWipe(j) \/ JobLoad(j) \/ JobFail(j)
  PROVE  Coordinated'
  <1>1. /\ j.pod \in Pods /\ j.db \in Databases /\ j.id # 0 /\ j \in JobRecords
        /\ <<j.pod, j.db>> \in Targets(seen)
        /\ seen.phase \in {"Restoring", "Failed"}
        /\ restore.phase # "ScalingUp"
    BY DEF TypeOK, JobRecords, Coordinated, JobsTracked, LoadedBeforeUp,
       StatusFollows, JobWipe, JobLoad, JobFail
  <1>2. PICK state, content :
          /\ JobStep(j, state, content)
          /\ state = "complete" /\ j.pod \in RWPods => content = j.id
    BY DEF JobWipe, JobLoad, JobFail
  <1> DEFINE done == [j EXCEPT !.st = state]
  <1>3. /\ done.pod = j.pod /\ done.db = j.db /\ done.id = j.id /\ done.st = state
    BY <1>1 DEF JobRecords
  <1>4. /\ jobs' = (jobs \ {j}) \cup {done}
        /\ data' = [data EXCEPT ![j.pod][j.db] = content]
        /\ UNCHANGED <<restore, seen, sts, pods>>
    BY <1>2 DEF JobStep, operatorVars, cacheVars
  <1> HIDE DEF done
  <1>5. JobsTracked'
    BY <1>1, <1>3, <1>4 DEF Coordinated, JobsTracked, Targets
  <1>6. LoadedBeforeUp' /\ FailureRemembered'
    BY <1>1, <1>4
    DEF Coordinated, LoadedBeforeUp, FailureRemembered, JobWipe, JobLoad, JobFail
  <1>7. \A p \in Pods, d \in Databases :
          data'[p][d] = IF p = j.pod /\ d = j.db THEN content ELSE data[p][d]
    BY <1>1, <1>4 DEF TypeOK
  <1>8. VolumesTracked'
    <2>1. ASSUME NEW k \in jobs', k.st = "complete", k.pod \in RWPods
          PROVE  data'[k.pod][k.db] = k.id
      <3>1. CASE k = done
        BY <1>1, <1>2, <1>3, <1>7, <2>1, <3>1
      <3>2. CASE k \in jobs /\ k # j
        <4>1. /\ k.pod \in Pods /\ k.db \in Databases
              /\ ~(k.pod = j.pod /\ k.db = j.db)
              /\ data[k.pod][k.db] = k.id
          BY <2>1, <3>2 DEF TypeOK, JobRecords, Coordinated, JobsTracked, VolumesTracked
        <4> QED BY <1>7, <4>1
      <3> QED BY <1>4, <3>1, <3>2
    <2>2. ASSUME NEW p \in RWPods, NEW d \in Databases, data'[p][d] = Wiped
          PROVE  <<p, d>> \in Targets(seen)
      BY <1>1, <1>7, <2>2 DEF Coordinated, VolumesTracked, Pods
    <2> QED BY <1>1, <1>4, <2>1, <2>2 DEF VolumesTracked, Targets
  <1>9. StatusFollows' /\ HeldDown'
    BY <1>4 DEF Coordinated, StatusFollows, HeldDown, RWPodsGone
  <1> QED BY <1>5, <1>6, <1>8, <1>9 DEF Coordinated

\* ttlSecondsAfterFinished is harmless where reads are not stale: without the
\* Job of a target the restore is not over.
LEMMA ExpiryCoordinated ==
  ASSUME TypeOK, Coordinated, ReadsOrJobsLast, NEW j \in jobs, JobExpire(j)
  PROVE  Coordinated'
  <1>1. /\ jobs' = jobs \ {j} /\ UNCHANGED <<restore, seen, sts, pods, data>>
        /\ restore = seen
    BY DEF JobExpire, operatorVars, cacheVars, ReadsOrJobsLast, Coordinated,
       StatusFollows
  <1>2. JobsTracked'
    BY <1>1 DEF Coordinated, JobsTracked, Targets
  <1>3. LoadedBeforeUp' /\ FailureRemembered' /\ VolumesTracked'
    BY <1>1 DEF Coordinated, LoadedBeforeUp, FailureRemembered, VolumesTracked, Targets
  <1> QED BY <1>1, <1>2, <1>3 DEF Coordinated, StatusFollows, HeldDown, RWPodsGone

\* syncrepl refreshes read-only copies only: no read-write pod runs empty.
LEMMA RefreshCoordinated ==
  ASSUME TypeOK, Coordinated, NEW p \in Pods, NEW d \in Databases, Refresh(p, d)
  PROVE  Coordinated'
  <1>1. UNCHANGED <<restore, seen, sts, pods, jobs>>
    BY DEF Refresh, operatorVars, cacheVars
  <1>2. p \notin RWPods
    BY DEF Refresh, Coordinated, VolumesTracked, HeldDown, RWPodsGone
  <1>3. \A q \in RWPods : data'[q] = data[q]
    BY <1>2 DEF Refresh, TypeOK, Pods
  <1>4. VolumesTracked'
    BY <1>1, <1>3 DEF Coordinated, VolumesTracked, Targets
  <1> QED BY <1>1, <1>4
          DEF Coordinated, StatusFollows, HeldDown, RWPodsGone, JobsTracked,
              LoadedBeforeUp, FailureRemembered, Missing, JobsOf, Targets

\* The cache catches up with the API server.
LEMMA SyncCoordinated ==
  ASSUME TypeOK, Coordinated, DistinctNames, CacheSync
  PROVE  Coordinated'
  <1>1. seen' = restore /\ UNCHANGED <<restore, sts, pods, jobs, data>>
    BY DEF CacheSync, operatorVars
  <1>2. StatusFollows'
    BY <1>1 DEF Coordinated, StatusFollows
  <1>3. HeldDown'
    BY <1>1 DEF Coordinated, HeldDown, StatusFollows, RWPodsGone
  <1>4. jobs # {} => seen.phase # "None" /\ restore.phase # "None"
    BY DEF Coordinated, JobsTracked, StatusFollows
  <1>5. JobsTracked'
    BY <1>1, <1>4 DEF Coordinated, JobsTracked, StatusFollows, Targets
  <1>6. LoadedBeforeUp' /\ FailureRemembered'
    BY <1>1 DEF Coordinated, LoadedBeforeUp, FailureRemembered, StatusFollows,
       JobsTracked
  <1>7. VolumesTracked'
    <2>1. CASE seen.phase = "Restoring" /\ restore.phase = "ScalingUp"
      BY <1>1, <2>1, AllLoaded DEF Coordinated, LoadedBeforeUp, VolumesTracked
    <2>2. CASE ~(seen.phase = "Restoring" /\ restore.phase = "ScalingUp")
      BY <1>1, <2>2 DEF Coordinated, VolumesTracked, StatusFollows, Targets
    <2> QED BY <2>1, <2>2
  <1> QED BY <1>2, <1>3, <1>5, <1>6, <1>7 DEF Coordinated

\* Every step keeps the invariant.
LEMMA StepCoordinated ==
  ASSUME TypeOK, Coordinated, ReadsOrJobsLast, DistinctNames, [Next]_vars
  PROVE  Coordinated'
  <1>1. ASSUME NEW ok \in BOOLEAN, Pass(ok)
        PROVE  Coordinated'
    BY <1>1, PassCoordinated
  <1>2. ASSUME NEW p \in Pods, PodNext(p)
        PROVE  Coordinated'
    BY <1>2, PodCoordinated
  <1>3. ASSUME NEW j \in jobs, JobNext(j)
        PROVE  Coordinated'
    BY <1>3, JobCoordinated, ExpiryCoordinated DEF JobNext
  <1>4. ASSUME NEW p \in Pods, NEW d \in Databases, Refresh(p, d)
        PROVE  Coordinated'
    BY <1>4, RefreshCoordinated
  <1>5. CASE CacheSync
    BY <1>5, SyncCoordinated
  <1>6. CASE \/ \E d \in Databases : DatabasePass(d)
             \/ \E r \in Requests : CacheSyncRequest(r)
             \/ UserNext
             \/ UNCHANGED vars
    <2>1. UNCHANGED <<restore, seen, sts, pods, jobs, data>>
      BY <1>6 DEF DatabasePass, CacheSyncRequest, UserNext, CreateRequest,
         DeleteRequest, EditSpec, ArtifactChanges, Rest, operatorVars, cacheVars,
         userVars, vars
    <2> QED BY <2>1, CoordinatedUnchanged
  <1> QED BY <1>1, <1>2, <1>3, <1>4, <1>5, <1>6 DEF Next

\* A cluster begins with no restore, no Job and whole volumes.
LEMMA InitCoordinated == Init => Coordinated
  <1> SUFFICES ASSUME Init PROVE Coordinated
    OBVIOUS
  <1>1. /\ restore = NoRestore /\ seen = NoRestore /\ jobs = {}
        /\ NoRestore.phase = "None"
    BY DEF Init, NoRestore
  <1>2. \A p \in RWPods, d \in Databases : data[p][d] # Wiped
    BY DEF Init, Pods, Original, Wiped
  <1> QED BY <1>1, <1>2 DEF Coordinated, StatusFollows, HeldDown, JobsTracked,
             LoadedBeforeUp, FailureRemembered, VolumesTracked

\* The inductive invariant: cached status, written status, pods, Jobs and
\* volumes stay coordinated through crashes, stale reads, failing Jobs, edits
\* and deletions, if Jobs do not expire under a stale read.
THEOREM CoordinationHolds ==
  ASSUME ReadsOrJobsLast, DistinctNames
  PROVE  Spec => []Coordinated
  <1>1. Init => Coordinated
    BY InitCoordinated
  <1>2. TypeOK /\ Coordinated /\ [Next]_vars => Coordinated'
    BY StepCoordinated
  <1> QED BY <1>1, <1>2, TypeCorrect, PTL DEF Spec

\* reconcileRestore never lets slapadd and slapd share a volume: no restore
\* Job works on the volume of a read-write pod that exists.
THEOREM VolumesExclusive ==
  ASSUME ReadsOrJobsLast, DistinctNames
  PROVE  Spec => []ExclusiveVolumes
  <1>1. Coordinated => ExclusiveVolumes
    <2> SUFFICES ASSUME Coordinated, NEW j \in jobs, Working(j), j.pod \in RWPods
                 PROVE  pods[j.pod] = "gone"
      BY DEF ExclusiveVolumes
    <2>1. seen.phase \in {"Restoring", "Failed"}
      BY DEF Coordinated, JobsTracked, LoadedBeforeUp, Working
    <2> QED BY <2>1 DEF Coordinated, HeldDown, RWPodsGone
  <1> QED BY <1>1, CoordinationHolds, PTL

\* A read-write pod never runs on a volume that a restore wiped and did not
\* reload: buildStatefulSetSpec holds a failed restore at zero replicas.
THEOREM HalfRestoredStaysDown ==
  ASSUME ReadsOrJobsLast, DistinctNames
  PROVE  Spec => []HalfRestoredNeverServes
  <1>1. Coordinated => HalfRestoredNeverServes
    BY DEF Coordinated, VolumesTracked, HeldDown, RWPodsGone, HalfRestoredNeverServes
  <1> QED BY <1>1, CoordinationHolds, PTL

\* No Job outlives the restore whose id reapJobsByLabel finds it by.
THEOREM JobsReaped ==
  ASSUME ReadsOrJobsLast, DistinctNames
  PROVE  Spec => []JobsBelongToRestore
  <1>1. Coordinated => JobsBelongToRestore
    BY DEF Coordinated, JobsTracked, StatusFollows, JobsBelongToRestore
  <1> QED BY <1>1, CoordinationHolds, PTL

\* The machine is forward-only also under stale reads: no pass takes a restore
\* that left Restoring back to it, so no Job is created for it again.
THEOREM MachineForwardOnly ==
  ASSUME ReadsOrJobsLast, DistinctNames
  PROVE  Spec => ForwardOnly
  <1> DEFINE Over == restore.phase \in {"ScalingUp", "Failed"}
             Back == restore'.phase = "Restoring"
  <1>1. TypeOK /\ Coordinated /\ [Next]_vars =>
          [Over => ~(Back /\ restore'.id = restore.id)]_vars
    <2> SUFFICES ASSUME TypeOK, Coordinated, Next, Over, Back
                 PROVE  FALSE
      OBVIOUS
    <2>1. PICK ok \in BOOLEAN : Pass(ok)
      <3>1. restore' # restore
        OBVIOUS
      <3> QED BY <3>1 DEF Next, PodNext, PodStart, PodReady, PodStop, PodUnready,
              PodStep, JobNext, JobWipe, JobLoad, JobFail, JobExpire, JobStep,
              Refresh, DatabasePass, CacheSync, CacheSyncRequest, UserNext,
              CreateRequest, DeleteRequest, EditSpec, ArtifactChanges, Rest,
              operatorVars
    <2>2. seen.phase \in {"Restoring", "Failed", "ScalingUp"} /\ seen \in RestoreRecords
      BY DEF Coordinated, StatusFollows, TypeOK
    <2>3. CASE PassRestoring(ok)
      <3>1. seen.phase = "Restoring" /\ JobsOf(seen) = jobs
        BY <2>3 DEF PassRestoring, JobsOf, Coordinated, JobsTracked
      <3>2. ~JobsRunning(ok)
        BY <3>1 DEF JobsRunning, Coordinated, LoadedBeforeUp, FailureRemembered
      <3>3. PICK rst : /\ WriteStatus(ok, rst, "Restoring")
                       /\ rst \in {[seen EXCEPT !.phase = "Failed"],
                                  [seen EXCEPT !.phase = "ScalingUp"]}
        BY <2>3, <3>2 DEF PassRestoring, JobFailed, JobsDone
      <3>4. rst.phase # "Restoring"
        BY <2>2, <3>3 DEF RestoreRecords
      <3> QED BY <3>3, <3>4, WriteStatusCases
    <2>4. CASE PassScalingUp(ok) \/ PassFailed(ok)
      <3>1. seen.phase # "Restoring" /\ NoRestore.phase # "Restoring"
        BY <2>4 DEF PassScalingUp, PassFailed, NoRestore
      <3>2. restore' \in {restore, seen, NoRestore}
        BY <2>4, WriteStatusCases DEF PassScalingUp, PassFailed
      <3> QED BY <3>1, <3>2
    <2>5. CASE PassEndsEarly
      BY <2>5 DEF PassEndsEarly
    <2> QED BY <2>1, <2>2, <2>3, <2>4, <2>5
            DEF Pass, PassNotRestoring, PassPreflight, PassScalingDown
  <1> QED BY <1>1, TypeCorrect, CoordinationHolds, PTL DEF Spec, ForwardOnly

-----------------------------------------------------------------------------
(***************************************************************************)
(* The one-shot of bootstrapFrom.  A database is marked in the pass that   *)
(* finds every Job complete, and that pass may die, or its status may not  *)
(* be seen, before the machine moves on: what keeps the next pass from     *)
(* creating Jobs for a marked database is that the finished ones are still *)
(* there.  Hence the hypothesis: no Job expires where a pass may die or    *)
(* read a stale status.                                                    *)
(***************************************************************************)
JobsOutlastCrashes ==
  "ttl" \in Environment => "crash" \notin Environment /\ "lag" \notin Environment

\* The databases of a bootstrap restore, none of them marked.
Unmarked(rst) == rst.req = None => \A d \in rst.dbs : ~restoreApplied[d]

\* The two statuses are of one restore; nothing is marked before the Jobs have
\* run or where one failed; and where something is, all Jobs are there, done.
OneShot ==
  /\ seen.phase # "None" /\ restore.phase # "None" => restore.req = seen.req
  /\ \A rst \in {seen, restore} :
       rst.phase \in {"Preflight", "ScalingDown", "Failed"} => Unmarked(rst)
  /\ seen.phase = "Restoring" /\ ~Unmarked(seen) =>
       /\ "ttl" \notin Environment
       /\ Missing(seen) = {} /\ \A j \in jobs : j.st = "complete"

\* A status that differs in the phase alone is of the same request.
LEMMA PhaseKeepsRequest ==
  ASSUME NEW rst \in RestoreRecords, NEW ph
  PROVE  /\ [rst EXCEPT !.phase = ph].phase = ph
         /\ [rst EXCEPT !.phase = ph].req = rst.req
         /\ [rst EXCEPT !.phase = ph].dbs = rst.dbs
  BY DEF RestoreRecords

\* A pass that begins a bootstrap lists what is not marked.
LEMMA PassStartsOnce ==
  ASSUME TypeOK, OneShot, NEW ok \in BOOLEAN, PassNotRestoring(ok)
  PROVE  OneShot'
  <1>1. /\ seen.phase = "None" /\ restoreApplied' = restoreApplied
    BY DEF PassNotRestoring
  <1> DEFINE Written == \E rst, ph : /\ WriteStatus(ok, rst, ph)
                                     /\ rst.phase \in {"None", "Preflight"}
                                     /\ Unmarked(rst)
  <1>a. ASSUME NEW dbs, NEW req, Begin(ok, dbs, req),
               req = None => \A d \in dbs : ~restoreApplied[d]
        PROVE  Written
    <2>1. /\ StartedRestore(dbs, req).phase = "Preflight"
          /\ StartedRestore(dbs, req).req = req
          /\ StartedRestore(dbs, req).dbs = dbs
      BY DEF StartedRestore
    <2>2. Unmarked(StartedRestore(dbs, req))
      BY <1>a, <2>1 DEF Unmarked
    <2> QED BY <1>a, <2>1, <2>2 DEF Begin
  <1>b. ASSUME NEW ph, WriteStatus(ok, NoRestore, ph)
        PROVE  Written
    <2>1. NoRestore.phase = "None" /\ NoRestore.dbs = {}
      BY DEF NoRestore
    <2>2. Unmarked(NoRestore)
      BY <2>1 DEF Unmarked
    <2> QED BY <1>b, <2>1, <2>2
  <1>2. Written
    <2>1. CASE StartBootstrap(ok)
      <3>1. \A d \in NeedingRestore : ~restoreApplied[d]
        BY DEF NeedingRestore
      <3> QED BY <2>1, <3>1, <1>a DEF StartBootstrap
    <2>2. CASE StartRequested(ok)
      <3>1. PICK r \in Requests : Begin(ok, {RequestDB[r]}, r)
        BY <2>2 DEF StartRequested, Pending, Candidates
      <3>2. r # None
        BY RestoreConstants
      <3> QED BY <3>1, <3>2, <1>a
    <2>3. CASE Idle(ok) \/ WithoutImage(ok)
      BY <2>3, <1>b DEF Idle, WithoutImage
    <2> QED BY <2>1, <2>2, <2>3 DEF PassNotRestoring
  <1>c. PICK rst, ph : /\ WriteStatus(ok, rst, ph)
                       /\ rst.phase \in {"None", "Preflight"}
                       /\ Unmarked(rst)
    BY <1>2
  <1>3. /\ restore' \in {restore, rst} /\ seen' \in {seen, rst}
        /\ seen' = seen \/ seen' = restore'
    BY <1>c, WriteStatusCases
  <1> QED BY <1>1, <1>c, <1>3 DEF OneShot, Unmarked

\* Until the Jobs have run nothing is marked.
LEMMA PassWaitsOnce ==
  ASSUME TypeOK, Coordinated, OneShot, NEW ok \in BOOLEAN,
         PassPreflight(ok) \/ PassScalingDown(ok) \/ PassFailed(ok)
  PROVE  OneShot'
  <1>1. /\ seen.phase \in {"Preflight", "ScalingDown", "Failed"}
        /\ restoreApplied' = restoreApplied /\ seen \in RestoreRecords
    BY DEF PassPreflight, PassScalingDown, PassFailed, TypeOK
  <1>2. PICK rst, ph :
          /\ WriteStatus(ok, rst, ph)
          /\ rst \in {seen, [seen EXCEPT !.phase = "ScalingDown"],
                     [seen EXCEPT !.phase = "Restoring"]}
    BY DEF PassPreflight, PassScalingDown, PassFailed
  <1>3. rst.req = seen.req /\ rst.dbs = seen.dbs
    BY <1>1, <1>2 DEF RestoreRecords
  <1>4. /\ restore' \in {restore, rst} /\ seen' \in {seen, rst}
    BY <1>2, WriteStatusCases
  <1>5. Unmarked(seen)
    BY <1>1 DEF OneShot
  <1>6. Unmarked(rst) /\ Unmarked(seen')
    BY <1>3, <1>4, <1>5 DEF Unmarked
  <1>7. Unmarked(seen)' /\ (Unmarked(restore) => (restore' = restore => Unmarked(restore)'))
    BY <1>1, <1>6 DEF Unmarked
  <1>8. restore' = rst => Unmarked(restore)'
    BY <1>1, <1>6 DEF Unmarked
  <1>9. (seen.phase # "None" /\ restore.phase # "None" => restore.req = seen.req)'
    BY <1>1, <1>3, <1>4 DEF OneShot
  <1>10. (restore.phase \in {"Preflight", "ScalingDown", "Failed"} => Unmarked(restore))'
    BY <1>4, <1>7, <1>8 DEF OneShot
  <1> QED BY <1>7, <1>9, <1>10 DEF OneShot

\* Marking takes place when all Jobs are complete, and creating them when
\* nothing is marked.
LEMMA PassRestoresOnce ==
  ASSUME TypeOK, Coordinated, OneShot, JobsOutlastCrashes,
         NEW ok \in BOOLEAN, PassRestoring(ok)
  PROVE  OneShot'
  <1>1. seen.phase = "Restoring" /\ seen \in RestoreRecords /\ JobsOf(seen) = jobs
    BY DEF PassRestoring, TypeOK, JobsOf, Coordinated, JobsTracked
  <1>2. CASE JobFailed(ok) \/ JobsRunning(ok)
    <2>1. /\ restoreApplied' = restoreApplied
          /\ \/ Missing(seen) # {}
             \/ \E j \in jobs : j.st # "complete"
      BY <1>1, <1>2 DEF JobFailed, JobsRunning
    <2>2. Unmarked(seen)
      BY <1>1, <2>1 DEF OneShot
    <2>3. PICK rst : /\ WriteStatus(ok, rst, "Restoring")
                     /\ rst \in {seen, [seen EXCEPT !.phase = "Failed"]}
      BY <1>2 DEF JobFailed, JobsRunning
    <2>4. rst.req = seen.req /\ rst.dbs = seen.dbs
      BY <1>1, <2>3 DEF RestoreRecords
    <2>5. restore' \in {restore, rst} /\ seen' \in {seen, rst}
      BY <2>3, WriteStatusCases
    <2>6. Unmarked(seen)' /\ (restore' = rst => Unmarked(restore)')
          /\ (restore' = restore /\ Unmarked(restore) => Unmarked(restore)')
      BY <2>1, <2>2, <2>4, <2>5 DEF Unmarked
    <2>7. (seen.phase # "None" /\ restore.phase # "None" => restore.req = seen.req)'
      BY <1>1, <2>4, <2>5 DEF OneShot
    <2>8. (restore.phase \in {"Preflight", "ScalingDown", "Failed"} => Unmarked(restore))'
      BY <2>5, <2>6 DEF OneShot
    <2> QED BY <2>6, <2>7, <2>8 DEF OneShot
  <1>3. CASE JobsDone(ok)
    <2> DEFINE up == [seen EXCEPT !.phase = "ScalingUp"]
    <2>1. /\ WriteStatus(ok, up, "Restoring") /\ jobs' = jobs /\ Missing(seen) = {}
          /\ \A j \in jobs : j.st = "complete"
          /\ ~ok => "crash" \in Environment
      BY <1>1, <1>3 DEF JobsDone, NoRequestUpdate
    <2>2. up.phase = "ScalingUp" /\ up.req = seen.req
      BY <1>1, PhaseKeepsRequest
    <2> HIDE DEF up
    <2>3. restore.phase \in {"Restoring", "ScalingUp"}
      BY <1>1, <2>1 DEF Coordinated, StatusFollows, FailureRemembered
    <2>4. restore' \in {restore, up} /\ seen' \in {seen, up}
      BY <2>1, WriteStatusCases
    <2>5. seen' = seen => seen' = up \/ "ttl" \notin Environment
      BY <2>1 DEF WriteStatus, Cached, JobsOutlastCrashes
    <2>6. seen' = seen => (Missing(seen) = {})' /\ \A j \in jobs' : j.st = "complete"
      BY <2>1 DEF Missing, JobsOf
    <2>7. (seen.phase # "None" /\ restore.phase # "None" => restore.req = seen.req)'
      BY <1>1, <2>2, <2>4 DEF OneShot
    <2>8. /\ restore'.phase \in {"Restoring", "ScalingUp"}
          /\ seen'.phase \in {"Restoring", "ScalingUp"}
          /\ seen'.phase = "Restoring" => seen' = seen /\ seen' # up
      BY <1>1, <2>2, <2>3, <2>4
    <2> QED BY <2>5, <2>6, <2>7, <2>8 DEF OneShot
  <1> QED BY <1>2, <1>3 DEF PassRestoring

\* The rest of a pass marks nothing and creates nothing.
LEMMA PassOnce ==
  ASSUME TypeOK, Coordinated, OneShot, JobsOutlastCrashes,
         NEW ok \in BOOLEAN, Pass(ok)
  PROVE  OneShot'
  <1>1. CASE PassScalingUp(ok)
    <2>1. seen.phase = "ScalingUp" /\ restore.phase \in {"ScalingUp", "None"}
      BY <1>1 DEF PassScalingUp, Coordinated, StatusFollows
    <2>2. /\ restore' \in {restore, seen, NoRestore} /\ seen' \in {seen, NoRestore}
          /\ NoRestore.phase = "None"
      BY <1>1, WriteStatusCases DEF PassScalingUp, NoRestore
    <2> QED BY <2>1, <2>2 DEF OneShot
  <1>2. CASE PassEndsEarly
    BY <1>2 DEF PassEndsEarly, OneShot, Unmarked, Missing, JobsOf
  <1> QED
    BY <1>1, <1>2, PassStartsOnce, PassWaitsOnce, PassRestoresOnce DEF Pass

\* Every step keeps OneShot.
LEMMA StepOnce ==
  ASSUME TypeOK, Coordinated, OneShot, JobsOutlastCrashes, [Next]_vars
  PROVE  OneShot'
  <1>1. ASSUME NEW ok \in BOOLEAN, Pass(ok)
        PROVE  OneShot'
    BY <1>1, PassOnce
  <1>2. ASSUME NEW j \in jobs, JobNext(j)
        PROVE  OneShot'
    <2>1. UNCHANGED <<restore, seen, restoreApplied>>
      BY <1>2 DEF JobNext, JobWipe, JobLoad, JobFail, JobExpire, JobStep,
                  operatorVars, cacheVars
    <2>2. j.st # "complete" \/ "ttl" \in Environment
      BY <1>2 DEF JobNext, JobWipe, JobLoad, JobFail, JobExpire
    <2>3. seen.phase = "Restoring" => Unmarked(seen)
      BY <2>2 DEF OneShot
    <2> QED BY <2>1, <2>3 DEF OneShot, Unmarked
  <1>3. CASE CacheSync
    <2>1. seen' = restore /\ UNCHANGED <<restore, restoreApplied, jobs>>
      BY <1>3 DEF CacheSync, operatorVars
    <2>2. ASSUME restore.phase = "Restoring", ~Unmarked(restore)
          PROVE  /\ "ttl" \notin Environment
                 /\ Missing(restore) = {} /\ \A j \in jobs : j.st = "complete"
      <3>1. /\ seen.phase \in {"ScalingDown", "Restoring"}
            /\ restore.id = seen.id /\ restore.orig = seen.orig
            /\ restore.dbs = seen.dbs /\ restore.req = seen.req
        BY <2>2 DEF Coordinated, StatusFollows, OneShot
      <3>2. ~Unmarked(seen) /\ Missing(restore) = Missing(seen)
        BY <2>2, <3>1 DEF Unmarked, Missing, JobsOf, Targets
      <3> QED BY <3>1, <3>2 DEF OneShot
    <2> QED BY <2>1, <2>2 DEF OneShot, Unmarked, Missing, JobsOf
  <1>4. CASE \/ \E p \in Pods : PodNext(p)
             \/ \E p \in Pods, d \in Databases : Refresh(p, d)
             \/ \E d \in Databases : DatabasePass(d)
             \/ \E r \in Requests : CacheSyncRequest(r)
             \/ UserNext
             \/ UNCHANGED vars
    <2>1. UNCHANGED <<restore, seen, restoreApplied, jobs>>
      BY <1>4 DEF PodNext, PodStart, PodReady, PodStop, PodUnready, PodStep,
         Refresh, DatabasePass, CacheSyncRequest, UserNext, CreateRequest,
         DeleteRequest, EditSpec, ArtifactChanges, Rest, operatorVars, cacheVars,
         userVars, vars
    <2> QED BY <2>1 DEF OneShot, Unmarked, Missing, JobsOf
  <1> QED BY <1>1, <1>2, <1>3, <1>4 DEF Next

\* bootstrapFrom is a one-shot: no Job of a bootstrap works on a database that
\* is marked restored, whether passes die or read a stale status, as long as
\* the finished Jobs are there when the next pass looks.
THEOREM BootstrapOnceHolds ==
  ASSUME JobsOutlastCrashes, DistinctNames
  PROVE  Spec => []BootstrapOnce
  <1>1. Init => OneShot
    BY DEF Init, OneShot, NoRestore
  <1>2. TypeOK /\ Coordinated /\ OneShot /\ [Next]_vars => OneShot'
    BY StepOnce
  <1>3. TypeOK /\ Coordinated /\ OneShot => BootstrapOnce
    <2> SUFFICES ASSUME TypeOK, Coordinated, OneShot, NEW j \in jobs, Working(j),
                        restore.req = None
                 PROVE  ~restoreApplied[j.db]
      BY DEF BootstrapOnce
    <2>1. j.db \in seen.dbs /\ j.st # "complete"
      BY DEF Coordinated, JobsTracked, Targets, Working
    <2>2. seen.phase \in {"Restoring", "Failed"} /\ restore.phase # "None"
      BY <2>1 DEF Coordinated, JobsTracked, LoadedBeforeUp, StatusFollows
    <2>3. seen.req = None
      BY <2>2 DEF OneShot
    <2>4. Unmarked(seen)
      BY <2>1, <2>2 DEF OneShot
    <2> QED BY <2>1, <2>3, <2>4 DEF Unmarked
  <1>4. ReadsOrJobsLast
    BY DEF JobsOutlastCrashes, ReadsOrJobsLast
  <1> QED BY <1>1, <1>2, <1>3, <1>4, TypeCorrect, CoordinationHolds, PTL DEF Spec

-----------------------------------------------------------------------------
(***************************************************************************)
(* The refinement.  Coordinated says when the pods are down; Agreement     *)
(* says that those which may come up hold the same.                        *)
(***************************************************************************)

NoEdits == "edit" \notin Environment

\* The steps that neither touch a volume nor start a pod nor run a pass.
LEMMA AgreementUnchanged ==
  ASSUME Agreement, UNCHANGED <<spec, sts, seen, restore, pods, data>>
  PROVE  Agreement'
  BY DEF Agreement

\* Once every target has a finished Job, the read-write pods of the original
\* size hold the same of every database of the restore.
LEMMA TargetsAgree ==
  ASSUME TypeOK, Coordinated, DistinctNames, seen.phase # "None",
         Missing(seen) = {}, \A j \in jobs : j.st = "complete",
         NEW p \in RWPods, p[2] < seen.orig.rw, NEW d \in seen.dbs
  PROVE  data[p][d] = seen.id
  <1>1. p[1] = "rw" /\ p \in Pods
    BY DEF RWPods, Pods
  <1>2. <<p, d>> \in Targets(seen)
    BY <1>1 DEF Targets
  <1>3. PICK j \in jobs : <<j.pod, j.db>> = <<p, d>>
    BY <1>2, NamedByTarget
  <1> QED BY <1>3 DEF Coordinated, VolumesTracked, JobsTracked

\* A database is marked restored only when every read-write volume of the
\* original size holds the artifact (markRestored comes after the last Job).
THEOREM MarkedOnlyWhenLoaded ==
  ASSUME ReadsOrJobsLast, DistinctNames
  PROVE  Spec => MarkedMeansLoaded
  <1> DEFINE Marked == \A d \in Databases : ~restoreApplied[d] /\ restoreApplied'[d] =>
                         \A p \in RWPods : p[2] < seen.orig.rw => data[p][d] = seen.id
  <1>1. ASSUME TypeOK, Coordinated, [Next]_vars
        PROVE  Marked
    <2> SUFFICES ASSUME NEW d \in Databases, ~restoreApplied[d], restoreApplied'[d],
                        NEW p \in RWPods, p[2] < seen.orig.rw
                 PROVE  data[p][d] = seen.id
      OBVIOUS
    <2>1. PICK ok \in BOOLEAN : Pass(ok)
      BY <1>1 DEF Next, PodNext, PodStart, PodReady, PodStop, PodUnready, PodStep,
         JobNext, JobWipe, JobLoad, JobFail, JobStep, JobExpire, Refresh,
         DatabasePass, CacheSync, CacheSyncRequest, UserNext, CreateRequest,
         DeleteRequest, EditSpec, ArtifactChanges, Rest, operatorVars, vars
    <2>2. PassRestoring(ok) /\ JobsDone(ok)
      BY <2>1 DEF Pass, PassNotRestoring, PassPreflight, PassScalingDown,
         PassRestoring, JobFailed, JobsRunning, PassScalingUp, PassFailed,
         PassEndsEarly
    <2>3. d \in seen.dbs
      BY <1>1, <2>2 DEF JobsDone, TypeOK, RestoreRecords
    <2>4. seen.phase = "Restoring" /\ JobsOf(seen) = jobs
      BY <1>1, <2>2 DEF PassRestoring, JobsOf, Coordinated, JobsTracked
    <2> QED BY <1>1, <2>2, <2>3, <2>4, TargetsAgree DEF JobsDone
  <1> QED BY <1>1, TypeCorrect, CoordinationHolds, PTL DEF Spec, MarkedMeansLoaded

\* So nothing is lost when a pass first reads that the restore is over.
LEMMA AllAgree ==
  ASSUME TypeOK, Coordinated, DistinctNames, Agreement, seen.phase = "Restoring",
         Missing(seen) = {}, \A j \in jobs : j.st = "complete",
         NEW p \in RWPods, NEW q \in RWPods, NEW d \in Databases,
         p[2] < spec.rw, q[2] < spec.rw
  PROVE  data[p][d] = data[q][d]
  <1>1. seen.orig.rw = spec.rw
    BY DEF Agreement
  <1>2. CASE d \in seen.dbs
    BY <1>1, <1>2, TargetsAgree
  <1>3. CASE d \notin seen.dbs
    BY <1>3 DEF Agreement
  <1> QED BY <1>2, <1>3

\* What a pass writes to status.restore.
LEMMA PassWrites ==
  ASSUME TypeOK, NEW ok \in BOOLEAN, Pass(ok)
  PROVE  \/ UNCHANGED <<restore, seen>>
         \/ \E rst \in RestoreRecords : \E ph :
              /\ WriteStatus(ok, rst, ph)
              /\ \/ rst.phase = "None" /\ seen.phase \in {"None", "ScalingUp"}
                 \/ rst.orig = spec /\ seen.phase = "None" /\ rst.phase = "Preflight"
                 \/ /\ seen.phase # "None" /\ rst.orig = seen.orig /\ rst.dbs = seen.dbs
                    /\ seen.phase \in {"Restoring", "Failed"} =>
                         \/ rst.phase \in {"Restoring", "Failed"}
                         \/ PassRestoring(ok) /\ JobsDone(ok)
  <1>1. CASE PassNotRestoring(ok)
    <2>0. seen.phase = "None" /\ NoRestore.phase = "None" /\ NoRestore \in RestoreRecords
      BY <1>1, NoRestoreType DEF PassNotRestoring, NoRestore
    <2>1. ASSUME NEW dbs \in SUBSET Databases, NEW req \in Requests \cup {None},
                 Begin(ok, dbs, req)
          PROVE  \E rst \in RestoreRecords : \E ph :
                   /\ WriteStatus(ok, rst, ph)
                   /\ rst.orig = spec /\ rst.phase = "Preflight"
      <3>1. /\ StartedRestore(dbs, req).orig = spec
            /\ StartedRestore(dbs, req).phase = "Preflight"
            /\ StartedRestore(dbs, req) \in RestoreRecords
        BY DEF StartedRestore, TypeOK, RestoreRecords, RestorePhases
      <3> QED BY <2>1, <3>1 DEF Begin
    <2>2. CASE StartBootstrap(ok)
      <3>1. NeedingRestore \in SUBSET Databases
        BY RestoreConstants DEF NeedingRestore
      <3> QED BY <2>0, <2>1, <2>2, <3>1 DEF StartBootstrap
    <2>3. CASE StartRequested(ok)
      <3>1. PICK r \in Requests : Begin(ok, {RequestDB[r]}, r)
        BY <2>3 DEF StartRequested, Pending, Candidates
      <3>2. {RequestDB[r]} \in SUBSET Databases
        BY RestoreConstants
      <3> QED BY <2>0, <2>1, <3>1, <3>2
    <2>4. CASE Idle(ok) \/ WithoutImage(ok)
      BY <2>0, <2>4 DEF Idle, WithoutImage
    <2> QED BY <1>1, <2>2, <2>3, <2>4 DEF PassNotRestoring
  <1> DEFINE To(ph) == [seen EXCEPT !.phase = ph]
  <1>2. seen \in RestoreRecords
    BY DEF TypeOK
  <1>3. ASSUME NEW ph \in RestorePhases
        PROVE  /\ To(ph) \in RestoreRecords /\ To(ph).phase = ph
               /\ To(ph).orig = seen.orig /\ To(ph).dbs = seen.dbs
    BY <1>2 DEF RestoreRecords
  <1>4. CASE PassPreflight(ok)
    <2>1. seen.phase = "Preflight" /\ "ScalingDown" \in RestorePhases
      BY <1>4 DEF PassPreflight, RestorePhases
    <2>2. \E ph : WriteStatus(ok, seen, ph) \/ WriteStatus(ok, To("ScalingDown"), ph)
      BY <1>4 DEF PassPreflight
    <2> HIDE DEF To
    <2> QED BY <1>2, <1>3, <2>1, <2>2
  <1>5. CASE PassScalingDown(ok)
    <2>1. seen.phase = "ScalingDown" /\ "Restoring" \in RestorePhases
      BY <1>5 DEF PassScalingDown, RestorePhases
    <2>2. \E ph : WriteStatus(ok, seen, ph) \/ WriteStatus(ok, To("Restoring"), ph)
      BY <1>5 DEF PassScalingDown
    <2> HIDE DEF To
    <2> QED BY <1>2, <1>3, <2>1, <2>2
  <1>6. CASE PassRestoring(ok)
    <2>1. seen.phase = "Restoring" /\ {"Failed", "ScalingUp"} \subseteq RestorePhases
      BY <1>6 DEF PassRestoring, RestorePhases
    <2>2. \E ph : \/ WriteStatus(ok, seen, ph) \/ WriteStatus(ok, To("Failed"), ph)
                  \/ WriteStatus(ok, To("ScalingUp"), ph) /\ JobsDone(ok)
      BY <1>6 DEF PassRestoring, JobFailed, JobsRunning, JobsDone
    <2> HIDE DEF To
    <2> QED BY <1>2, <1>3, <1>6, <2>1, <2>2
  <1>7. CASE PassScalingUp(ok)
    <2>1. seen.phase = "ScalingUp" /\ NoRestore.phase = "None"
      BY <1>7 DEF PassScalingUp, NoRestore
    <2>2. \E ph : WriteStatus(ok, seen, ph) \/ WriteStatus(ok, NoRestore, ph)
      BY <1>7 DEF PassScalingUp
    <2> QED BY <1>2, <2>1, <2>2, NoRestoreType
  <1>8. CASE PassFailed(ok)
    <2>1. seen.phase = "Failed" /\ WriteStatus(ok, seen, "Restoring")
      BY <1>8 DEF PassFailed
    <2> QED BY <1>2, <2>1
  <1>9. CASE PassEndsEarly
    BY <1>9 DEF PassEndsEarly
  <1> QED BY <1>1, <1>4, <1>5, <1>6, <1>7, <1>8, <1>9 DEF Pass

\* A whole pass keeps the agreement.
LEMMA PassAgreement ==
  ASSUME TypeOK, Coordinated, DistinctNames, Agreement, NEW ok \in BOOLEAN,
         Pass(ok)
  PROVE  Agreement'
  <1>1. UNCHANGED <<spec, pods, data>> /\ sts'.rw \in {0, spec.rw}
    BY DEF Pass, Outside, ApplyStatefulSets
  <1>2. CASE UNCHANGED <<restore, seen>>
    BY <1>1, <1>2 DEF Agreement
  <1>3. ASSUME NEW rst \in RestoreRecords, NEW ph,
               WriteStatus(ok, rst, ph),
               \/ rst.phase = "None" /\ seen.phase \in {"None", "ScalingUp"}
               \/ rst.orig = spec /\ seen.phase = "None" /\ rst.phase = "Preflight"
               \/ /\ seen.phase # "None" /\ rst.orig = seen.orig /\ rst.dbs = seen.dbs
                  /\ seen.phase \in {"Restoring", "Failed"} =>
                       \/ rst.phase \in {"Restoring", "Failed"}
                       \/ PassRestoring(ok) /\ JobsDone(ok)
        PROVE  Agreement'
    <2>1. \A s \in {seen', restore'} : s.phase # "None" => s.orig.rw = spec.rw
      BY <1>3, WriteStatusCases DEF Agreement
    <2>2. ASSUME NEW p \in RWPods, NEW q \in RWPods, NEW d \in Databases,
                 p[2] < spec.rw, q[2] < spec.rw,
                 seen'.phase \in {"Restoring", "Failed"} => d \notin seen'.dbs
          PROVE  data[p][d] = data[q][d]
      <3>1. CASE seen.phase \in {"Restoring", "Failed"} => d \notin seen.dbs
        BY <2>2, <3>1 DEF Agreement
      <3>2. CASE seen.phase \in {"Restoring", "Failed"} /\ d \in seen.dbs
        <4>1. seen' # seen /\ seen' = rst
          BY <1>3, <2>2, <3>2, WriteStatusCases
        <4>2. CASE PassRestoring(ok) /\ JobsDone(ok)
          <5>1. /\ seen.phase = "Restoring" /\ Missing(seen) = {}
                /\ \A j \in jobs : j.st = "complete"
            BY <4>2 DEF PassRestoring, JobsDone, JobsOf, Coordinated, JobsTracked
          <5> QED BY <2>2, <5>1, AllAgree
        <4> QED BY <1>3, <2>2, <3>2, <4>1, <4>2
      <3> QED BY <3>1, <3>2
    <2> QED BY <1>1, <2>1, <2>2 DEF Agreement
  <1> QED BY <1>2, <1>3, PassWrites

\* No read-write pod starts beyond the declared size.
LEMMA PodAgreement ==
  ASSUME TypeOK, Agreement, NEW p \in Pods, PodNext(p)
  PROVE  Agreement'
  <1>1. UNCHANGED <<spec, sts, seen, restore, data>>
    BY DEF PodNext, PodStart, PodReady, PodStop, PodUnready, PodStep,
       operatorVars, cacheVars, userVars
  <1>2. PICK state : /\ pods' = [pods EXCEPT ![p] = state]
                     /\ state # "gone" => Declared(p) \/ pods[p] # "gone"
    BY DEF PodNext, PodStart, PodReady, PodStop, PodUnready, PodStep
  <1>3. ASSUME NEW q \in RWPods, pods'[q] # "gone"
        PROVE  q[2] < spec.rw
    <2>1. CASE pods[q] # "gone"
      BY <2>1 DEF Agreement
    <2>2. CASE pods[q] = "gone"
      <3>1. q = p /\ Declared(q)
        BY <1>2, <1>3, <2>2 DEF TypeOK, Pods
      <3>2. q[2] < sts.rw /\ q[2] \in Nat
        BY <3>1, RestoreConstants DEF Declared, RWPods
      <3> QED BY <3>2 DEF Agreement, TypeOK, Sizes
    <2> QED BY <2>1, <2>2
  <1> QED BY <1>1, <1>3 DEF Agreement

\* A Job writes only databases of its restore, while the pods are down.
LEMMA JobAgreement ==
  ASSUME TypeOK, Coordinated, Agreement, NEW j \in jobs,
         JobWipe(j) \/ JobLoad(j) \/ JobFail(j)
  PROVE  Agreement'
  <1>1. /\ seen.phase \in {"Restoring", "Failed"} /\ j.db \in seen.dbs
        /\ j.pod \in Pods /\ j.db \in Databases
    BY DEF TypeOK, JobRecords, Coordinated, JobsTracked, LoadedBeforeUp, Targets,
       JobWipe, JobLoad, JobFail
  <1>2. PICK content : data' = [data EXCEPT ![j.pod][j.db] = content]
    BY DEF JobWipe, JobLoad, JobFail, JobStep
  <1>3. UNCHANGED <<spec, sts, seen, restore, pods>>
    BY DEF JobWipe, JobLoad, JobFail, JobStep, operatorVars, cacheVars, userVars
  <1>4. \A p \in Pods, d \in Databases : d \notin seen.dbs => data'[p][d] = data[p][d]
    BY <1>1, <1>2 DEF TypeOK
  <1> QED BY <1>1, <1>3, <1>4 DEF Agreement, Pods

\* syncrepl writes read-only copies only.
LEMMA RefreshReadOnly ==
  ASSUME TypeOK, Coordinated, NEW p \in Pods, NEW d \in Databases, Refresh(p, d)
  PROVE  /\ \A q \in RWPods : data'[q] = data[q]
         /\ UNCHANGED <<spec, sts, seen, restore, pods>>
  <1>1. p \notin RWPods
    BY DEF Refresh, Coordinated, VolumesTracked, HeldDown, RWPodsGone
  <1> QED BY <1>1 DEF Refresh, TypeOK, Pods, operatorVars, cacheVars, userVars

\* The cache catches up: where it learns that the restore is over, all agree.
LEMMA SyncAgreement ==
  ASSUME TypeOK, Coordinated, DistinctNames, Agreement, CacheSync
  PROVE  Agreement'
  <1>1. seen' = restore /\ UNCHANGED <<spec, sts, restore, pods, data>>
    BY DEF CacheSync, operatorVars, userVars
  <1>2. ASSUME NEW p \in RWPods, NEW q \in RWPods, NEW d \in Databases,
               p[2] < spec.rw, q[2] < spec.rw,
               restore.phase \in {"Restoring", "Failed"} => d \notin restore.dbs
        PROVE  data[p][d] = data[q][d]
    <2>1. CASE seen.phase = "Restoring" /\ restore.phase = "ScalingUp"
      BY <1>2, <2>1, AllAgree DEF Coordinated, LoadedBeforeUp
    <2>2. CASE ~(seen.phase = "Restoring" /\ restore.phase = "ScalingUp")
      <3>1. seen.phase \in {"Restoring", "Failed"} => d \notin seen.dbs
        BY <1>2, <2>2 DEF Coordinated, StatusFollows
      <3> QED BY <1>2, <3>1 DEF Agreement
    <2> QED BY <2>1, <2>2
  <1> QED BY <1>1, <1>2 DEF Agreement

\* Every step keeps it.
LEMMA StepAgreement ==
  ASSUME TypeOK, Coordinated, DistinctNames, Agreement, NoEdits, [Next]_vars
  PROVE  Agreement'
  <1>1. ASSUME NEW ok \in BOOLEAN, Pass(ok)
        PROVE  Agreement'
    BY <1>1, PassAgreement
  <1>2. ASSUME NEW p \in Pods, PodNext(p)
        PROVE  Agreement'
    BY <1>2, PodAgreement
  <1>3. ASSUME NEW j \in jobs, JobNext(j)
        PROVE  Agreement'
    <2>1. CASE JobExpire(j)
      BY <2>1, AgreementUnchanged DEF JobExpire, operatorVars, cacheVars, userVars
    <2> QED BY <1>3, <2>1, JobAgreement DEF JobNext
  <1>4. ASSUME NEW p \in Pods, NEW d \in Databases, Refresh(p, d)
        PROVE  Agreement'
    BY <1>4, RefreshReadOnly DEF Agreement
  <1>5. CASE CacheSync
    BY <1>5, SyncAgreement
  <1>6. CASE \/ \E d \in Databases : DatabasePass(d)
             \/ \E r \in Requests : CacheSyncRequest(r)
             \/ UserNext
             \/ UNCHANGED vars
    <2>1. UNCHANGED <<spec, sts, seen, restore, pods, data>>
      BY <1>6 DEF DatabasePass, CacheSyncRequest, UserNext, CreateRequest,
         DeleteRequest, EditSpec, NoEdits, ArtifactChanges, Rest, operatorVars,
         cacheVars, userVars, vars
    <2> QED BY <2>1, AgreementUnchanged
  <1> QED BY <1>1, <1>2, <1>3, <1>4, <1>5, <1>6 DEF Next

\* A cluster begins with one content.
LEMMA InitAgreement == Init => Agreement
  <1> SUFFICES ASSUME Init PROVE Agreement
    OBVIOUS
  <1>1. NoRestore.phase = "None"
    BY DEF NoRestore
  <1>2. \A p \in RWPods : p \in Pods /\ p[1] = "rw"
    BY DEF RWPods, Pods
  <1> QED BY <1>1, <1>2 DEF Init, Agreement

\* While nobody edits spec.replicas, the pods a restore may start are exactly
\* its targets, and it leaves them with one content.
THEOREM AgreementHolds ==
  ASSUME ReadsOrJobsLast, DistinctNames, NoEdits
  PROVE  Spec => []Agreement
  <1>1. Init => Agreement
    BY InitAgreement
  <1>2. TypeOK /\ Coordinated /\ Agreement /\ [Next]_vars => Agreement'
    BY StepAgreement
  <1> QED BY <1>1, <1>2, TypeCorrect, CoordinationHolds, PTL DEF Spec

\* A volume without agreement or content belongs to a cluster held down.
LEMMA RunningAgree ==
  ASSUME TypeOK, Coordinated, Agreement,
         NEW p \in RWPods, NEW q \in RWPods, sts.rw # 0 \/ pods[p] # "gone",
         p[2] < spec.rw, q[2] < spec.rw
  PROVE  \A d \in Databases : data[p][d] = data[q][d] /\ data[p][d] # Wiped
  <1>1. seen.phase \notin {"Restoring", "Failed"}
    BY DEF Coordinated, HeldDown, RWPodsGone
  <1> QED BY <1>1 DEF Agreement, Coordinated, VolumesTracked

\* All read-write pods that run hold the same content of every database.
THEOREM NeverMixed ==
  ASSUME ReadsOrJobsLast, DistinctNames, NoEdits
  PROVE  Spec => []NoMixedServing
  <1>1. TypeOK /\ Coordinated /\ Agreement => NoMixedServing
    <2> SUFFICES ASSUME TypeOK, Coordinated, Agreement,
                        NEW p \in RWPods, NEW q \in RWPods, NEW d \in Databases,
                        pods[p] # "gone", pods[q] # "gone"
                 PROVE  data[p][d] = data[q][d]
      BY DEF NoMixedServing
    <2>1. p[2] < spec.rw /\ q[2] < spec.rw
      BY DEF Agreement
    <2> QED BY <2>1, RunningAgree
  <1> QED BY <1>1, TypeCorrect, CoordinationHolds, AgreementHolds, PTL

-----------------------------------------------------------------------------
(***************************************************************************)
(* The refinement.  Up and Copy are the mapping of Swap.                   *)
(***************************************************************************)
Up   == {p \in RWPods : pods[p] # "gone"}
Copy == [p \in RWPods |-> data[p]]

\* Initial states of the restore machine are initial states of the swap.
LEMMA SwapInit == Init => Swap!Init
  <1> SUFFICES ASSUME Init PROVE Swap!Init
    OBVIOUS
  <1>1. RWPods \subseteq Pods
    BY DEF Pods
  <1>2. Copy = [p \in RWPods |-> [d \in Databases |-> Original]]
    BY <1>1 DEF Init, Copy
  <1>3. /\ Copy \in [RWPods -> [Databases -> Nat]]
        /\ \A p, q \in RWPods : Copy[p] = Copy[q]
        /\ \A p \in RWPods, d \in Databases : Copy[p][d] # Wiped
    BY <1>2 DEF Original, Wiped
  <1>4. Up \subseteq RWPods
    BY DEF Up
  <1> QED BY <1>3, <1>4 DEF Swap!Init, Swap!Complete, Up, Copy

\* A pod starting is a replica that joins those that are up.
LEMMA PodSwap ==
  ASSUME TypeOK, Coordinated, Agreement, NEW p \in Pods, PodNext(p)
  PROVE  Swap!Next \/ UNCHANGED <<Up, Copy>>
  <1>1. data' = data /\ Copy' = Copy
    BY DEF PodNext, PodStart, PodReady, PodStop, PodUnready, PodStep, Copy
  <1>2. PICK state : /\ pods' = [pods EXCEPT ![p] = state]
                     /\ state # "gone" => Declared(p) \/ pods[p] # "gone"
    BY DEF PodNext, PodStart, PodReady, PodStop, PodUnready, PodStep
  <1>3. \A q \in Pods : pods'[q] = IF q = p THEN state ELSE pods[q]
    BY <1>2 DEF TypeOK
  <1>4. CASE \/ p \notin RWPods
             \/ (pods[p] = "gone") = (state = "gone")
    BY <1>1, <1>3, <1>4 DEF Up, Pods
  <1>5. CASE p \in RWPods /\ pods[p] # "gone" /\ state = "gone"
    <2>1. Up' = Up \ {p} /\ p \in Up
      BY <1>3, <1>5 DEF Up, Pods
    <2> QED BY <1>1, <1>5, <2>1 DEF Swap!Next, Swap!Stop, Up, Copy
  <1>6. CASE p \in RWPods /\ pods[p] = "gone" /\ state # "gone"
    <2>1. Up' = Up \cup {p}
      BY <1>3, <1>6 DEF Up, Pods
    <2>2. p[2] < sts.rw /\ p[2] \in Nat
      BY <1>2, <1>6, RestoreConstants DEF Declared, RWPods
    <2>3. sts.rw # 0 /\ p[2] < spec.rw
      BY <2>2 DEF Agreement, TypeOK, Sizes
    <2>4. \A q \in Up : q \in RWPods /\ q[2] < spec.rw
      BY DEF Up, Agreement
    <2>5. \A d \in Databases : Copy[p][d] # Wiped
      BY <1>6, <2>3, RunningAgree DEF Copy
    <2>6. ASSUME NEW q \in Up
          PROVE  Copy[q] = Copy[p]
      <3>1. \A d \in Databases : data[p][d] = data[q][d]
        BY <1>6, <2>3, <2>4, RunningAgree
      <3>2. data[p] \in [Databases -> Nat] /\ data[q] \in [Databases -> Nat]
        BY <1>6, <2>4 DEF TypeOK, Pods
      <3> QED BY <1>6, <2>4, <3>1, <3>2 DEF Copy
    <2> QED BY <1>1, <1>6, <2>1, <2>5, <2>6
            DEF Swap!Next, Swap!Start, Swap!Complete, Up, Copy
  <1> QED BY <1>4, <1>5, <1>6

\* A Job on a read-write volume rewrites a copy while nothing is up.
LEMMA JobSwap ==
  ASSUME TypeOK, Coordinated, NEW j \in jobs,
         JobWipe(j) \/ JobLoad(j) \/ JobFail(j)
  PROVE  Swap!Next \/ UNCHANGED <<Up, Copy>>
  <1>1. /\ seen.phase \in {"Restoring", "Failed"}
        /\ j.pod \in Pods /\ j.db \in Databases /\ j.id \in Nat
    BY DEF TypeOK, JobRecords, Coordinated, JobsTracked, LoadedBeforeUp,
       JobWipe, JobLoad, JobFail
  <1>2. Up = {} /\ Up' = Up
    BY <1>1 DEF Coordinated, HeldDown, RWPodsGone, Up,
       JobWipe, JobLoad, JobFail, JobStep
  <1>3. PICK content \in Nat : data' = [data EXCEPT ![j.pod][j.db] = content]
    <2>1. data[j.pod][j.db] \in Nat
      BY <1>1 DEF TypeOK
    <2> QED BY <1>1, <2>1 DEF JobWipe, JobLoad, JobFail, JobStep, Wiped
  <1>4. CASE j.pod \notin RWPods
    <2>1. \A p \in RWPods : data'[p] = data[p]
      BY <1>1, <1>3, <1>4 DEF TypeOK, Pods
    <2>2. Copy' = Copy
      BY <2>1 DEF Copy
    <2> QED BY <1>2, <2>2
  <1>5. CASE j.pod \in RWPods
    <2>1. Copy' = [Copy EXCEPT ![j.pod][j.db] = content]
      BY <1>1, <1>3, <1>5 DEF Copy, TypeOK, Pods
    <2>2. Copy'[j.pod][j.db] = content
      BY <1>1, <1>3, <1>5 DEF Copy, TypeOK, Pods
    <2> QED BY <1>1, <1>2, <1>5, <2>1, <2>2 DEF Swap!Next, Swap!Rewrite, Up, Copy
  <1> QED BY <1>4, <1>5

\* Every other step leaves what the clients see alone.
LEMMA StepSwap ==
  ASSUME TypeOK, Coordinated, Agreement, [Next]_vars
  PROVE  [Swap!Next]_<<Up, Copy>>
  <1>1. ASSUME NEW p \in Pods, PodNext(p)
        PROVE  Swap!Next \/ UNCHANGED <<Up, Copy>>
    BY <1>1, PodSwap
  <1>2. ASSUME NEW j \in jobs, JobWipe(j) \/ JobLoad(j) \/ JobFail(j)
        PROVE  Swap!Next \/ UNCHANGED <<Up, Copy>>
    BY <1>2, JobSwap
  <1>3. ASSUME NEW p \in Pods, NEW d \in Databases, Refresh(p, d)
        PROVE  UNCHANGED <<Up, Copy>>
    BY <1>3, RefreshReadOnly DEF Up, Copy
  <1>4. CASE \/ \E ok \in BOOLEAN : Pass(ok)
             \/ \E j \in jobs : JobExpire(j)
             \/ \E d \in Databases : DatabasePass(d)
             \/ CacheSync
             \/ \E r \in Requests : CacheSyncRequest(r)
             \/ UserNext
             \/ UNCHANGED vars
    <2>1. UNCHANGED <<pods, data>>
      BY <1>4 DEF Pass, Outside, JobExpire, DatabasePass, CacheSync,
         CacheSyncRequest, UserNext, CreateRequest, DeleteRequest, EditSpec,
         ArtifactChanges, Rest, vars
    <2> QED BY <2>1 DEF Up, Copy
  <1> QED BY <1>1, <1>2, <1>3, <1>4 DEF Next, JobNext

\* No client of the read-write pods reads a partly restored directory: what the
\* restore machine does to them is an OfflineSwap.
THEOREM RestoreImplementsSwap ==
  ASSUME ReadsOrJobsLast, DistinctNames, NoEdits
  PROVE  Spec => ImplementsSwap
  <1>1. Init => Swap!Init
    BY SwapInit
  <1>2. TypeOK /\ Coordinated /\ Agreement /\ [Next]_vars => [Swap!Next]_<<Up, Copy>>
    BY StepSwap
  <1> QED BY <1>1, <1>2, TypeCorrect, CoordinationHolds, AgreementHolds, PTL
          DEF Spec, ImplementsSwap, Swap!Spec, Up, Copy
=============================================================================
