----------------------------- MODULE BackupRun -----------------------------
(***************************************************************************)
(* One SlapdBackup and the controller that runs it                         *)
(* (operator/internal/controller/slapdbackup_controller.go,                *)
(* backup_source.go, backup_job.go, job_reap.go).                          *)
(*                                                                         *)
(* A pass reads the backup and its Job from the informer cache, records    *)
(* where in the replication timeline the source pod stands unless that     *)
(* record is there already, creates the Job or looks at it, and applies    *)
(* the whole status it read, changed, to the API server.  The apply        *)
(* carries no resource version, so the last writer wins; its error is      *)
(* logged and the pass goes on as if it had succeeded.  Between passes the *)
(* Job dumps pod-0 and uploads, and the pod keeps taking writes.           *)
(*                                                                         *)
(* Environment is the set of adverse behaviours the environment may show:  *)
(*   "crash"    the operator dies, also between two effects of a pass      *)
(*   "lost"     a status apply fails                                       *)
(*   "outage"   the database or the cluster is gone or not Running         *)
(*   "ttl"      ttlSecondsAfterFinished removes a finished Job             *)
(*   "jobfail"  an attempt of the Job fails, or the Job gives up           *)
(*   "lag"      cached reads of the backup and of its Job are stale        *)
(***************************************************************************)
EXTENDS Naturals

CONSTANTS
  MaxPos,       \* positions of the source pod's contextCSN are 0 .. MaxPos
  Unset,        \* a field or object that is not there
  MaxFaults,    \* bound on crashes, lost applies and outages
  Environment   \* the adverse behaviours of the environment, see above

ASSUME BackupConstants ==
  /\ MaxPos \in Nat /\ MaxFaults \in Nat
  /\ Unset \notin Nat

VARIABLES
  sb,       \* SlapdBackup.status at the API server
  seen,     \* the same, as the informer cache shows it
  job,      \* the backup Job, and what its last slapcat saw
  jobSeen,  \* the Job's state as the informer cache shows it
  s3,       \* the position the uploaded artifact holds
  pos,      \* the position of pod-0
  ready,    \* database and cluster found, the cluster Running, an image set
  up,       \* the operator runs
  wake,     \* a pass is queued, or a requeue timer is running
  faults,   \* crashes, lost applies and outages so far
  misread   \* history: a pass acted on a stale read

vars == <<sb, seen, job, jobSeen, s3, pos, ready, up, wake, faults, misread>>

Positions == (0 .. MaxPos) \cup {Unset}
Phases == {"New", "Pending", "Running", "Completed", "Failed"}
\* record: whether SourceConverged and SourceSuffixHealthy are on the object,
\* and whether the lateRecordingCaveat is in them.
Statuses == [phase : Phases, jobName : BOOLEAN,
             record : {"none", "timely", "late"}, csn : Positions]
JobStates == {"none", "active", "dumped", "complete", "failed"}
Jobs == [st : JobStates, dump : Positions]

NoJob == [st |-> "none", dump |-> Unset]

\* The type invariant: every variable holds what the API types allow.
TypeOK ==
  /\ sb \in Statuses /\ seen \in Statuses
  /\ job \in Jobs /\ jobSeen \in JobStates \ {"dumped"}
  /\ s3 \in Positions /\ pos \in 0 .. MaxPos
  /\ ready \in BOOLEAN /\ up \in BOOLEAN /\ wake \in BOOLEAN
  /\ faults \in 0 .. MaxFaults /\ misread \in BOOLEAN

Done(st) == st.phase \in {"Completed", "Failed"}

Init ==
  /\ sb = [phase |-> "New", jobName |-> FALSE, record |-> "none",
           csn |-> Unset]
  /\ seen = sb
  /\ job = NoJob /\ jobSeen = "none"
  /\ s3 = Unset /\ pos = 0
  /\ ready \in IF "outage" \in Environment THEN BOOLEAN ELSE {TRUE}
  /\ up = TRUE /\ wake = TRUE /\ faults = 0 /\ misread = FALSE

-----------------------------------------------------------------------------
(***************************************************************************)
(* What the caches show, and the events their changes are.                 *)
(***************************************************************************)
Cached(old, new) == IF "lag" \in Environment THEN {old, new} ELSE {new}

\* The conditions of a Job; that its slapcat is over is not among them.
Visible(j) == IF j.st = "dumped" THEN "active" ELSE j.st

Fault(kind) == /\ kind \in Environment
               /\ faults < MaxFaults
               /\ faults' = faults + 1

(***************************************************************************)
(* The ends of a pass.  Finish is the status apply; requeue says whether   *)
(* the pass returns RequeueAfter.  A change of the cached status queues a  *)
(* pass of its own.  The apply may fail, which the pass does not notice.   *)
(***************************************************************************)
Applied(st, requeue) ==
  /\ sb' = st
  /\ seen' \in Cached(seen, st)
  /\ wake' = (requeue \/ seen' # seen)
  /\ UNCHANGED <<up, faults>>

ApplyLost(requeue) ==
  /\ Fault("lost")
  /\ wake' = requeue
  /\ UNCHANGED <<sb, seen, up>>

DiesBeforeApply ==
  /\ Fault("crash")
  /\ up' = FALSE
  /\ UNCHANGED <<sb, seen, wake>>

Finish(st, requeue) ==
  Applied(st, requeue) \/ ApplyLost(requeue) \/ DiesBeforeApply

\* As it was before ADR-026: keyed on the Job's absence.
ShouldRecord_ByJob(st) == st.record = "none" /\ jobSeen = "none"

\* shouldRecordSourceCircumstances: keyed on the record, never on the Job.
ShouldRecord(st) == st.record = "none"

\* readSourceContextCSN: the position of pod-0, or nothing when its Secret, the
\* pod or the bind fails, which never fails the backup.
ReadSourceContextCSN == {pos, Unset}

\* As if the caveat were never added.
Recorded_NoCaveat(st, csn) ==
  IF ShouldRecord(st)
  THEN [st EXCEPT !.record = "timely",
                  !.csn = IF csn = Unset THEN st.csn ELSE csn]
  ELSE st

\* recordSource: the conditions, and the contextCSN vector when the read of
\* the source pod succeeds.
Recorded(st, csn) ==
  IF ShouldRecord(st)
  THEN [st EXCEPT !.record = IF jobSeen = "none" THEN "timely" ELSE "late",
                  !.csn = IF csn = Unset THEN st.csn ELSE csn]
  ELSE st

-----------------------------------------------------------------------------
(***************************************************************************)
(* The branches of Reconcile.  Each is a whole pass.                       *)
(***************************************************************************)
Outside == <<s3, pos, ready>>

\* As if nothing reaped the Job.
PassDone_NoReap ==
  /\ Done(seen)
  /\ wake' = FALSE
  /\ UNCHANGED <<Outside, job, jobSeen, sb, seen, up, faults>>

\* A finished backup: the Job is deleted with its pods, and nothing else.
PassDone ==
  /\ Done(seen)
  /\ job' = IF seen.jobName THEN NoJob ELSE job
  /\ jobSeen' \in Cached(jobSeen, Visible(job'))
  /\ wake' = (jobSeen' # jobSeen)
  /\ UNCHANGED <<Outside, sb, seen, up, faults>>

\* As if the controller waited for an event of the cluster, which it does not
\* watch.
PassPending_NoPoll ==
  /\ ~Done(seen) /\ ~ready
  /\ Finish([seen EXCEPT !.phase = "Pending"], FALSE)
  /\ UNCHANGED <<Outside, job, jobSeen>>

\* The four early returns that set Pending and poll.
PassPending ==
  /\ ~Done(seen) /\ ~ready
  /\ Finish([seen EXCEPT !.phase = "Pending"], TRUE)
  /\ UNCHANGED <<Outside, job, jobSeen>>

\* As if a finished backup were looked at again.
Proceeds_Always == ready

Proceeds == ~Done(seen) /\ ready

\* No Job in the cache: create it, tolerating AlreadyExists.
PassCreates ==
  /\ Proceeds /\ jobSeen = "none"
  /\ job' = IF job.st = "none" THEN [NoJob EXCEPT !.st = "active"] ELSE job
  /\ jobSeen' \in Cached(jobSeen, Visible(job'))
  /\ \E csn \in ReadSourceContextCSN :
       Finish([Recorded(seen, csn) EXCEPT !.phase = "Running",
                                          !.jobName = TRUE], TRUE)
  /\ UNCHANGED Outside

\* The Job is not finished: poll.
PassWaits ==
  /\ Proceeds /\ jobSeen = "active"
  /\ \E csn \in ReadSourceContextCSN :
       Finish([Recorded(seen, csn) EXCEPT !.phase = "Running",
                                          !.jobName = TRUE], TRUE)
  /\ UNCHANGED <<Outside, job, jobSeen>>

\* As if every end of a Job were its completion.
PassObserves_AnyEnd ==
  /\ Proceeds /\ jobSeen \in {"complete", "failed"}
  /\ \E csn \in ReadSourceContextCSN :
       Finish([Recorded(seen, csn) EXCEPT !.phase = "Completed",
                                          !.jobName = TRUE], FALSE)
  /\ UNCHANGED <<Outside, job, jobSeen>>

\* JobComplete or JobFailed: the terminal status, and no requeue.
PassObserves ==
  /\ Proceeds /\ jobSeen \in {"complete", "failed"}
  /\ \E csn \in ReadSourceContextCSN :
       Finish([Recorded(seen, csn) EXCEPT
                 !.phase = IF jobSeen = "complete" THEN "Completed"
                           ELSE "Failed",
                 !.jobName = TRUE], FALSE)
  /\ UNCHANGED <<Outside, job, jobSeen>>

Pass ==
  /\ up /\ wake
  /\ PassDone \/ PassPending \/ PassCreates \/ PassWaits \/ PassObserves
  /\ misread' = (misread \/ <<seen, jobSeen>> # <<sb, Visible(job)>>)

-----------------------------------------------------------------------------
(***************************************************************************)
(* The Job: an init container runs slapcat on pod-0's volume, the main     *)
(* container uploads.  Another attempt starts over.                        *)
(***************************************************************************)
JobBecomes(j) ==
  /\ job' = j
  /\ jobSeen' \in Cached(jobSeen, Visible(j))
  /\ wake' = (wake \/ jobSeen' # jobSeen)
  /\ UNCHANGED <<sb, seen, pos, ready, up, faults, misread>>

JobDump ==
  /\ job.st = "active"
  /\ JobBecomes([st |-> "dumped", dump |-> pos])
  /\ UNCHANGED s3

JobUpload ==
  /\ job.st = "dumped"
  /\ JobBecomes([job EXCEPT !.st = "complete"])
  /\ s3' = job.dump

JobRetry ==
  /\ "jobfail" \in Environment
  /\ job.st = "dumped"
  /\ JobBecomes([job EXCEPT !.st = "active"])
  /\ UNCHANGED s3

JobFails ==
  /\ "jobfail" \in Environment
  /\ job.st \in {"active", "dumped"}
  /\ JobBecomes([job EXCEPT !.st = "failed"])
  /\ UNCHANGED s3

\* The TTL of 600 s outlasts the lag of a cache and the 10 s between polls: it
\* ends a Job that no pass looks at, because none is due, because the cluster
\* is not ready, or because the operator is down.
JobExpires ==
  /\ "ttl" \in Environment
  /\ job.st \in {"complete", "failed"}
  /\ ~wake \/ ~ready \/ ~up
  /\ seen = sb /\ jobSeen = job.st
  /\ JobBecomes(NoJob)
  /\ UNCHANGED s3

(***************************************************************************)
(* The caches, the operator's process, the cluster and its clients.        *)
(***************************************************************************)
CacheSync ==
  /\ up
  /\ \/ seen # sb /\ seen' = sb /\ UNCHANGED jobSeen
     \/ /\ jobSeen # Visible(job) /\ jobSeen' = Visible(job)
        /\ UNCHANGED seen
  /\ wake' = TRUE
  /\ UNCHANGED <<sb, job, s3, pos, ready, up, faults, misread>>

Crash ==
  /\ up /\ Fault("crash")
  /\ up' = FALSE
  /\ UNCHANGED <<sb, seen, job, jobSeen, s3, pos, ready, wake, misread>>

Restart ==
  /\ ~up
  /\ up' = TRUE /\ wake' = TRUE
  /\ seen' = sb /\ jobSeen' = Visible(job)
  /\ UNCHANGED <<sb, job, s3, pos, ready, faults, misread>>

Outage ==
  /\ ready /\ Fault("outage")
  /\ ready' = FALSE
  /\ UNCHANGED <<sb, seen, job, jobSeen, s3, pos, up, wake, misread>>

Recovery ==
  /\ ~ready
  /\ ready' = TRUE
  /\ UNCHANGED <<sb, seen, job, jobSeen, s3, pos, up, wake, faults, misread>>

Write ==
  /\ pos < MaxPos
  /\ pos' = pos + 1
  /\ UNCHANGED <<sb, seen, job, jobSeen, s3, ready, up, wake, faults, misread>>

JobNext == JobDump \/ JobUpload \/ JobRetry \/ JobFails \/ JobExpires

Next == \/ Pass \/ JobNext \/ CacheSync
        \/ Crash \/ Restart \/ Outage \/ Recovery \/ Write

Spec == Init /\ [][Next]_vars

(***************************************************************************)
(* Fairness.  A queued pass runs and an operator that dies comes back; the *)
(* Job controller, the TTL controller and the caches make progress; the    *)
(* cluster is not down for ever.  Nothing obliges a client to write or a   *)
(* Job to fail; a Job's attempts are bounded by its backoffLimit, so an    *)
(* upload tried again and again succeeds or the Job fails.                 *)
(***************************************************************************)
Fairness ==
  /\ WF_vars(Pass) /\ WF_vars(Restart) /\ WF_vars(Recovery)
  /\ WF_vars(JobDump) /\ SF_vars(JobUpload \/ JobFails) /\ WF_vars(JobExpires)
  /\ WF_vars(CacheSync)

FairSpec == Spec /\ Fairness

-----------------------------------------------------------------------------
\* A finished backup carries the record of the circumstances it was taken
\* under, whichever status write was lost on the way (backup_source.go, ADR-026
\* R3: a Completed backup without it was seen on a live mesh).
FinishedIsRecorded == Done(sb) => sb.record # "none"

\* A contextCSN recorded without the caveat is a lower bound of the artifact:
\* "everything in it is certainly in the dump" (docs/BACKUP.md:143).
\* Unless a pass acted on a stale read.
LowerBound ==
  sb.record = "timely" /\ sb.csn # Unset /\ ~misread =>
    /\ job.dump # Unset => sb.csn <= job.dump
    /\ sb.phase = "Completed" => sb.csn <= s3

\* "Backups are immutable once finished": the status stays as it is, and no
\* Job replaces the artifact behind it (ADR-018 R3), unless a pass acted on a
\* stale read.
FinishedIsFinal == [][Done(sb) /\ ~misread' => sb' = sb /\ s3' = s3]_vars

\* Completed is never claimed of an object that is not in the bucket; and no
\* Job of a finished backup is at work, unless a pass acted on a stale read.
TruthfulEnd ==
  /\ sb.phase = "Completed" => s3 # Unset
  /\ Done(sb) /\ ~misread => job.st \notin {"active", "dumped"}

\* Every backup ends, although a lost terminal write is not retried: the
\* expiry of the Job wakes the controller, which then runs the backup again.
BackupEnds == <>[]Done(sb)

\* A controller at rest on a finished backup has let go of pod-0's volumes:
\* the Job's TTL is a backstop for an operator that is down (ADR-018 R1, R4).
LeaseReleased ==
  Done(sb) /\ up /\ ~wake /\ seen = sb /\ jobSeen = Visible(job)
    => job = NoJob
=============================================================================
