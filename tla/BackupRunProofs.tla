-------------------------- MODULE BackupRunProofs --------------------------
(***************************************************************************)
(* What a finished SlapdBackup says is true, for every number of writes,   *)
(* crashes, lost applies and outages and every environment.  The proofs    *)
(* rest on one inductive invariant, Consistent: what the Job, the bucket   *)
(* and the cached Job tell of each other, and, as long as no pass acted on *)
(* a stale read, what the record tells of the dump.                        *)
(***************************************************************************)
EXTENDS BackupRun, TLAPS

\* A Job past its slapcat has a dump, the dump of a finished Job is in the
\* bucket, and a Job was only ever seen complete when there is an artifact.
JobTruth ==
  /\ job.st = "none" => job.dump = Unset
  /\ job.st \in {"dumped", "complete"} => job.dump # Unset
  /\ job.st = "complete" => s3 = job.dump
  /\ jobSeen = "complete" => s3 # Unset
  /\ sb.phase = "Completed" => s3 # Unset

\* A position recorded without the caveat was reached before the dump.
RecordTruth ==
  ~misread /\ sb.record = "timely" /\ sb.csn # Unset =>
    /\ sb.csn <= pos
    /\ job.dump # Unset => sb.csn <= job.dump
    /\ sb.phase = "Completed" => sb.csn <= s3

\* The record is written as a whole.
RecordWhole == \A st \in {sb, seen} : st.record = "none" => st.csn = Unset

\* No Job works for a finished backup.
JobAtRest == ~misread /\ Done(sb) => job.st \notin {"active", "dumped"}

Consistent ==
  /\ TypeOK /\ FinishedIsRecorded /\ JobTruth /\ RecordWhole
  /\ RecordTruth /\ JobAtRest

-----------------------------------------------------------------------------
\* recordSource keeps the type of the status, leaves the record there, and
\* writes no position without a caveat while a Job is in sight.
LEMMA RecordedFacts ==
  ASSUME NEW st \in Statuses, NEW csn \in Positions
  PROVE  /\ Recorded(st, csn) \in Statuses
         /\ Recorded(st, csn).record # "none"
         /\ st.record # "none" => Recorded(st, csn) = st
         /\ Recorded(st, csn).record = "timely" /\ jobSeen # "none" =>
              Recorded(st, csn) = st
         /\ Recorded(st, csn).csn \in {st.csn, csn}
  BY DEF Recorded, ShouldRecord, Statuses, Positions

\* The first state is consistent.
LEMMA InitConsistent == Init => Consistent
  <1> SUFFICES ASSUME Init PROVE Consistent
    OBVIOUS
  <1>1. TypeOK
    <2>1. sb \in Statuses
      BY DEF Init, Statuses, Positions, Phases
    <2>2. job \in Jobs /\ jobSeen \in JobStates \ {"dumped"}
      BY DEF Init, Jobs, JobStates, Positions, NoJob
    <2>3. s3 \in Positions /\ pos \in 0 .. MaxPos /\ faults \in 0 .. MaxFaults
      BY BackupConstants DEF Init, Positions
    <2> QED BY <2>1, <2>2, <2>3 DEF Init, TypeOK
  <1>2. /\ FinishedIsRecorded /\ JobTruth /\ RecordWhole
        /\ RecordTruth /\ JobAtRest
    BY DEF Init, FinishedIsRecorded, JobTruth, RecordWhole, RecordTruth,
           JobAtRest, NoJob, Done
  <1> QED BY <1>1, <1>2 DEF Consistent

\* The status apply, or its failure, of a status of the right type.
LEMMA FinishTypes ==
  ASSUME TypeOK, NEW st \in Statuses, NEW requeue \in BOOLEAN,
         Finish(st, requeue)
  PROVE  /\ sb' \in {sb, st} /\ seen' \in {seen, st}
         /\ up' \in BOOLEAN /\ wake' \in BOOLEAN /\ faults' \in 0 .. MaxFaults
  <1>1. faults \in 0 .. MaxFaults /\ faults < MaxFaults
          => faults + 1 \in 0 .. MaxFaults
    BY BackupConstants
  <1> QED
    BY <1>1 DEF TypeOK, Finish, Applied, ApplyLost, DiesBeforeApply, Fault,
                Cached

\* A pass on a finished backup only takes the Job away.
LEMMA DoneStep ==
  ASSUME Consistent, PassDone,
         misread' = (misread \/ <<seen, jobSeen>> # <<sb, Visible(job)>>)
  PROVE  Consistent'
  <1> USE DEF Consistent, PassDone, Outside
  <1>1. job' \in {job, NoJob}
    OBVIOUS
  <1>2. jobSeen' \in {jobSeen, Visible(job')}
    BY DEF Cached
  <1>3. NoJob \in Jobs /\ NoJob.st = "none" /\ NoJob.dump = Unset
    BY DEF NoJob, Jobs, JobStates, Positions
  <1>4. TypeOK'
    BY <1>1, <1>2, <1>3 DEF TypeOK, Visible, Jobs, JobStates
  <1>5. FinishedIsRecorded'
    BY DEF FinishedIsRecorded, Done
  <1>6. JobTruth'
    BY <1>1, <1>2, <1>3 DEF TypeOK, JobTruth, Visible, Jobs, JobStates
  <1>7. RecordTruth'
    BY <1>1, <1>3 DEF TypeOK, RecordTruth
  <1>8. JobAtRest'
    BY <1>1, <1>3 DEF TypeOK, JobAtRest, Done
  <1>9. RecordWhole'
    BY <1>1, <1>3 DEF RecordWhole
  <1> QED BY <1>4, <1>5, <1>6, <1>7, <1>8, <1>9

\* A pass that waits for the cluster.
LEMMA PendingStep ==
  ASSUME Consistent, PassPending,
         misread' = (misread \/ <<seen, jobSeen>> # <<sb, Visible(job)>>)
  PROVE  Consistent'
  <1> DEFINE st == [seen EXCEPT !.phase = "Pending"]
  <1> USE DEF Consistent, PassPending, Outside
  <1>1. /\ st \in Statuses /\ st.phase = "Pending"
        /\ st.record = seen.record /\ st.csn = seen.csn
    BY DEF TypeOK, Statuses, Phases
  <1>2. Finish(st, TRUE)
    OBVIOUS
  <1> HIDE DEF st
  <1>3. /\ sb' \in {sb, st} /\ seen' \in {seen, st}
        /\ up' \in BOOLEAN /\ wake' \in BOOLEAN /\ faults' \in 0 .. MaxFaults
    BY <1>1, <1>2, FinishTypes
  <1>4. TypeOK'
    BY <1>1, <1>3 DEF TypeOK
  <1>5. FinishedIsRecorded'
    BY <1>1, <1>3 DEF FinishedIsRecorded, Done
  <1>6. JobTruth'
    BY <1>1, <1>3 DEF JobTruth
  <1>7. RecordTruth'
    BY <1>1, <1>3 DEF TypeOK, RecordTruth
  <1>8. JobAtRest'
    BY <1>1, <1>3 DEF TypeOK, JobAtRest, Done
  <1>9. RecordWhole'
    BY <1>1, <1>3 DEF RecordWhole
  <1> QED BY <1>4, <1>5, <1>6, <1>7, <1>8, <1>9

\* A pass that creates the Job, or finds that it exists after all.
LEMMA CreateStep ==
  ASSUME Consistent, PassCreates,
         misread' = (misread \/ <<seen, jobSeen>> # <<sb, Visible(job)>>)
  PROVE  Consistent'
  <1> USE DEF Consistent, PassCreates, Outside, ReadSourceContextCSN
  <1> PICK csn \in ReadSourceContextCSN :
        Finish([Recorded(seen, csn) EXCEPT !.phase = "Running",
                                           !.jobName = TRUE], TRUE)
    OBVIOUS
  <1> DEFINE rec == Recorded(seen, csn)
             st  == [rec EXCEPT !.phase = "Running", !.jobName = TRUE]
  <1>1. csn \in Positions /\ seen \in Statuses
    BY DEF TypeOK, Positions
  <1>2. /\ rec \in Statuses /\ rec.record # "none"
        /\ seen.record # "none" => rec = seen
        /\ rec.csn \in {seen.csn, csn}
    BY <1>1, RecordedFacts
  <1>3. Finish(st, TRUE)
    OBVIOUS
  <1> HIDE DEF rec
  <1>4. /\ st \in Statuses /\ st.phase = "Running"
        /\ st.record = rec.record /\ st.csn = rec.csn
    BY <1>2 DEF Statuses, Phases
  <1> HIDE DEF st
  <1>5. /\ sb' \in {sb, st} /\ seen' \in {seen, st}
        /\ up' \in BOOLEAN /\ wake' \in BOOLEAN /\ faults' \in 0 .. MaxFaults
    BY <1>3, <1>4, FinishTypes
  <1>6. /\ job' = IF job.st = "none" THEN [st |-> "active", dump |-> Unset]
                  ELSE job
        /\ jobSeen' \in {jobSeen, Visible(job')}
    BY DEF Cached, NoJob
  <1>7. TypeOK'
    BY <1>4, <1>5, <1>6
    DEF TypeOK, Visible, Jobs, JobStates, Positions
  <1>8. FinishedIsRecorded'
    BY <1>4, <1>5 DEF FinishedIsRecorded, Done
  <1>9. JobTruth'
    BY <1>4, <1>5, <1>6 DEF TypeOK, JobTruth, Visible, Jobs, JobStates
  <1>10. ~misread' => ~misread /\ seen = sb /\ job.st = "none"
    BY DEF TypeOK, Visible
  <1>11. RecordTruth'
    <2> SUFFICES ASSUME ~misread', sb'.record = "timely", sb'.csn # Unset
                 PROVE  /\ sb'.csn <= pos'
                        /\ job'.dump # Unset => sb'.csn <= job'.dump
                        /\ sb'.phase = "Completed" => sb'.csn <= s3'
      BY DEF RecordTruth
    <2>1. job'.dump = Unset
      BY <1>6, <1>10
    <2>2. CASE sb' = sb
      BY <1>10, <2>1, <2>2 DEF RecordTruth
    <2>3. CASE sb' = st
      <3>1. pos \in Nat
        BY BackupConstants DEF TypeOK
      <3>2. CASE rec = seen
        BY <1>4, <1>10, <2>1, <2>3, <3>2 DEF RecordTruth
      <3>3. CASE rec # seen
        <4>1. seen.record = "none"
          BY <1>2, <3>3
        <4>2. rec.csn \in {seen.csn, pos}
          BY <1>2, <1>4, <2>3
        <4>3. seen.csn # Unset => seen.csn <= pos
          BY <4>1 DEF RecordWhole
        <4> QED
          BY <1>4, <2>1, <2>3, <3>1, <4>2, <4>3
      <3> QED BY <3>2, <3>3
    <2> QED BY <1>5, <2>2, <2>3
  <1>12. JobAtRest'
    BY <1>4, <1>5, <1>10 DEF JobAtRest, Done, Proceeds
  <1>13. RecordWhole'
    BY <1>2, <1>4, <1>5 DEF RecordWhole
  <1> QED BY <1>7, <1>8, <1>9, <1>11, <1>12, <1>13

\* A pass that finds the Job at work, or finished.
LEMMA LookStep ==
  ASSUME Consistent, PassWaits \/ PassObserves,
         misread' = (misread \/ <<seen, jobSeen>> # <<sb, Visible(job)>>)
  PROVE  Consistent'
  <1> USE DEF Consistent
  <1>1. /\ jobSeen # "none" /\ ~Done(seen)
        /\ UNCHANGED <<s3, pos, ready, job, jobSeen>>
    BY DEF PassWaits, PassObserves, Outside, Proceeds
  <1>2. \E csn \in ReadSourceContextCSN,
           phase \in {"Running", "Completed", "Failed"},
           requeue \in BOOLEAN :
          /\ Finish([Recorded(seen, csn) EXCEPT !.phase = phase,
                                                !.jobName = TRUE], requeue)
          /\ phase = "Completed" => jobSeen = "complete"
          /\ phase = "Failed" => jobSeen = "failed"
    <2>1. CASE PassWaits
      BY <2>1 DEF PassWaits
    <2>2. CASE PassObserves
      <3>1. CASE jobSeen = "complete"
        BY <2>2, <3>1 DEF PassObserves
      <3>2. CASE jobSeen = "failed"
        BY <2>2, <3>2 DEF PassObserves
      <3> QED BY <2>2, <3>1, <3>2 DEF PassObserves
    <2> QED BY <2>1, <2>2
  <1> PICK csn \in ReadSourceContextCSN,
           phase \in {"Running", "Completed", "Failed"},
           requeue \in BOOLEAN :
          /\ Finish([Recorded(seen, csn) EXCEPT !.phase = phase,
                                                !.jobName = TRUE], requeue)
          /\ phase = "Completed" => jobSeen = "complete"
          /\ phase = "Failed" => jobSeen = "failed"
    BY <1>2
  <1> DEFINE rec == Recorded(seen, csn)
             st  == [rec EXCEPT !.phase = phase, !.jobName = TRUE]
  <1>3. csn \in Positions /\ seen \in Statuses
    BY DEF TypeOK, Positions, ReadSourceContextCSN
  <1>4. /\ rec \in Statuses /\ rec.record # "none"
        /\ rec.record = "timely" => rec = seen
    BY <1>1, <1>3, RecordedFacts
  <1>5. Finish(st, requeue)
    OBVIOUS
  <1> HIDE DEF rec
  <1>6. /\ st \in Statuses /\ st.phase = phase
        /\ st.record = rec.record /\ st.csn = rec.csn
    BY <1>4 DEF Statuses, Phases
  <1> HIDE DEF st
  <1>7. /\ sb' \in {sb, st} /\ seen' \in {seen, st}
        /\ up' \in BOOLEAN /\ wake' \in BOOLEAN /\ faults' \in 0 .. MaxFaults
    BY <1>5, <1>6, FinishTypes
  <1>8. TypeOK'
    BY <1>1, <1>6, <1>7 DEF TypeOK
  <1>9. FinishedIsRecorded'
    BY <1>4, <1>6, <1>7 DEF FinishedIsRecorded, Done
  <1>10. JobTruth'
    BY <1>1, <1>6, <1>7 DEF JobTruth
  <1>11. RecordWhole'
    BY <1>4, <1>6, <1>7 DEF RecordWhole
  <1>12. ~misread' => ~misread /\ seen = sb /\ jobSeen = Visible(job)
    BY DEF TypeOK
  <1>13. RecordTruth'
    <2> SUFFICES ASSUME ~misread', sb'.record = "timely", sb'.csn # Unset
                 PROVE  /\ sb'.csn <= pos'
                        /\ job'.dump # Unset => sb'.csn <= job'.dump
                        /\ sb'.phase = "Completed" => sb'.csn <= s3'
      BY DEF RecordTruth
    <2>1. CASE sb' = sb
      BY <1>1, <1>12, <2>1 DEF RecordTruth
    <2>2. CASE sb' = st
      <3>1. st.csn = sb.csn /\ sb.record = "timely"
        BY <1>4, <1>6, <1>12, <2>2
      <3>2. /\ sb.csn <= pos
            /\ job.dump # Unset => sb.csn <= job.dump
        BY <1>12, <2>2, <3>1 DEF RecordTruth
      <3>3. phase = "Completed" => job.st = "complete"
        BY <1>12 DEF Visible
      <3>4. phase = "Completed" => job.dump # Unset /\ s3 = job.dump
        BY <3>3 DEF JobTruth
      <3> QED
        BY <1>1, <1>6, <2>2, <3>1, <3>2, <3>4
    <2> QED BY <1>7, <2>1, <2>2
  <1>14. JobAtRest'
    BY <1>1, <1>6, <1>7, <1>12 DEF JobAtRest, Done, Visible
  <1> QED BY <1>8, <1>9, <1>10, <1>11, <1>13, <1>14

\* The Job's own steps.
LEMMA JobStep == ASSUME Consistent, JobNext PROVE Consistent'
  <1> USE DEF Consistent
  <1>1. /\ UNCHANGED <<sb, seen, pos, ready, up, faults, misread>>
        /\ wake' \in BOOLEAN
        /\ jobSeen' \in {jobSeen, Visible(job')}
    BY DEF JobNext, JobDump, JobUpload, JobRetry, JobFails, JobExpires,
           JobBecomes, Cached, TypeOK
  <1>2. /\ job' \in Jobs /\ s3' \in Positions
        /\ s3' = s3 \/ s3' # Unset
        /\ job'.st = "none" => job'.dump = Unset
        /\ job'.st \in {"dumped", "complete"} => job'.dump # Unset
        /\ job'.st = "complete" => s3' = job'.dump
    BY BackupConstants
    DEF TypeOK, JobTruth, JobNext, JobDump, JobUpload, JobRetry, JobFails,
        JobExpires, JobBecomes, NoJob, Jobs, JobStates, Positions
  <1>3. TypeOK'
    BY <1>1, <1>2 DEF TypeOK, Visible, Jobs, JobStates
  <1>4. FinishedIsRecorded' /\ RecordWhole'
    BY <1>1 DEF FinishedIsRecorded, RecordWhole, Done
  <1>5. JobTruth'
    BY <1>1, <1>2 DEF JobTruth, Visible, Jobs, JobStates
  <1>6. /\ job.st \in {"active", "dumped"} \/ (s3' = s3 /\ job' = NoJob)
        /\ job'.dump \in {job.dump, pos, Unset}
    <2>1. CASE JobDump
      BY <2>1 DEF JobDump, JobBecomes
    <2>2. CASE JobExpires
      BY <2>2 DEF JobExpires, JobBecomes, NoJob
    <2>3. CASE JobUpload \/ JobRetry \/ JobFails
      BY <2>3 DEF TypeOK, JobUpload, JobRetry, JobFails, JobBecomes, Jobs
    <2> QED BY <2>1, <2>2, <2>3 DEF JobNext
  <1>7. JobAtRest'
    BY <1>1, <1>6 DEF JobAtRest, NoJob, Done
  <1>8. RecordTruth'
    <2>1. ~misread /\ sb.phase = "Completed" => s3' = s3
      BY <1>6 DEF JobAtRest, Done
    <2> QED BY <1>1, <1>6, <2>1 DEF RecordTruth
  <1> QED BY <1>3, <1>4, <1>5, <1>7, <1>8

\* The cache, the process, the cluster and its clients.
LEMMA OutsideStep ==
  ASSUME Consistent,
         CacheSync \/ Crash \/ Restart \/ Outage \/ Recovery \/ Write
  PROVE  Consistent'
  <1> USE DEF Consistent
  <1>1. /\ UNCHANGED <<sb, job, s3, misread>>
        /\ seen' \in {seen, sb} /\ jobSeen' \in {jobSeen, Visible(job)}
        /\ up' \in BOOLEAN /\ wake' \in BOOLEAN /\ ready' \in BOOLEAN
    BY DEF CacheSync, Crash, Restart, Outage, Recovery, Write, TypeOK
  <1>2. /\ pos' \in 0 .. MaxPos /\ pos <= pos'
        /\ faults' \in 0 .. MaxFaults
    BY BackupConstants
    DEF CacheSync, Crash, Restart, Outage, Recovery, Write, TypeOK, Fault
  <1>3. TypeOK'
    BY <1>1, <1>2 DEF TypeOK, Visible, Jobs, JobStates
  <1>4. FinishedIsRecorded' /\ RecordWhole' /\ JobAtRest'
    BY <1>1 DEF FinishedIsRecorded, RecordWhole, JobAtRest, Done
  <1>5. JobTruth'
    BY <1>1 DEF JobTruth, Visible
  <1>6. RecordTruth'
    <2> SUFFICES ASSUME ~misread, sb.record = "timely", sb.csn # Unset
                 PROVE  sb.csn <= pos'
      BY <1>1 DEF RecordTruth
    <2>1. sb.csn \in Nat /\ pos \in Nat /\ pos' \in Nat /\ sb.csn <= pos
      BY <1>2, BackupConstants DEF TypeOK, Statuses, Positions, RecordTruth
    <2> QED BY <1>2, <2>1
  <1> QED BY <1>3, <1>4, <1>5, <1>6

\* Every step keeps Consistent.
LEMMA NextConsistent == Consistent /\ [Next]_vars => Consistent'
  <1> SUFFICES ASSUME Consistent, [Next]_vars PROVE Consistent'
    OBVIOUS
  <1>1. CASE Pass
    BY <1>1, DoneStep, PendingStep, CreateStep, LookStep DEF Pass
  <1>2. CASE JobNext
    BY <1>2, JobStep
  <1>3. CASE CacheSync \/ Crash \/ Restart \/ Outage \/ Recovery \/ Write
    BY <1>3, OutsideStep
  <1>4. CASE UNCHANGED vars
    BY <1>4
    DEF vars, Consistent, TypeOK, FinishedIsRecorded, JobTruth, RecordWhole,
        RecordTruth, JobAtRest, Done
  <1> QED BY <1>1, <1>2, <1>3, <1>4 DEF Next

\* Consistent holds always: the argument behind the theorems below.
THEOREM AlwaysConsistent == Spec => []Consistent
  BY InitConsistent, NextConsistent, PTL DEF Spec

\* The status, the Job and the bucket always hold what their types allow.
THEOREM TypeCorrect == Spec => []TypeOK
  <1>1. Consistent => TypeOK
    BY DEF Consistent
  <1> QED BY <1>1, AlwaysConsistent, PTL

\* A finished backup carries its record, however many status writes were lost
\* and however stale the reads (backup_source.go, ADR-026 R3).
THEOREM RecordSurvives == Spec => []FinishedIsRecorded
  <1>1. Consistent => FinishedIsRecorded
    BY DEF Consistent
  <1> QED BY <1>1, AlwaysConsistent, PTL

\* A position recorded without the caveat is a lower bound of the artifact.
THEOREM RecordIsLowerBound == Spec => []LowerBound
  <1>1. Consistent => LowerBound
    BY DEF Consistent, RecordTruth, LowerBound
  <1> QED BY <1>1, AlwaysConsistent, PTL

\* Completed is never claimed without an artifact.
THEOREM EndIsTruthful == Spec => []TruthfulEnd
  <1>1. Consistent => TruthfulEnd
    BY DEF Consistent, JobTruth, JobAtRest, TruthfulEnd
  <1> QED BY <1>1, AlwaysConsistent, PTL

\* A finished backup is not touched again: neither its status nor its
\* artifact (slapdbackup_controller.go:97, ADR-018 R3).
THEOREM FinishedStays == Spec => FinishedIsFinal
  <1>1. Consistent /\ [Next]_vars =>
          [Done(sb) /\ ~misread' => sb' = sb /\ s3' = s3]_vars
    <2> SUFFICES ASSUME Consistent, Next, Done(sb), ~misread'
                 PROVE  sb' = sb /\ s3' = s3
      BY DEF vars
    <2>1. CASE Pass
      <3>1. seen = sb
        BY <2>1 DEF Pass
      <3> QED
        BY <2>1, <3>1
        DEF Pass, PassDone, PassPending, PassCreates, PassWaits,
            PassObserves, Proceeds, Outside
    <2>2. CASE JobNext
      <3>1. ~misread /\ UNCHANGED sb
        BY <2>2 DEF JobNext, JobDump, JobUpload, JobRetry, JobFails,
                    JobExpires, JobBecomes
      <3> QED
        BY <2>2, <3>1
        DEF Consistent, JobAtRest, JobNext, JobDump, JobUpload, JobRetry,
            JobFails, JobExpires, JobBecomes
    <2>3. CASE CacheSync \/ Crash \/ Restart \/ Outage \/ Recovery \/ Write
      BY <2>3 DEF CacheSync, Crash, Restart, Outage, Recovery, Write
    <2> QED BY <2>1, <2>2, <2>3 DEF Next
  <1> QED BY <1>1, AlwaysConsistent, PTL DEF Spec, FinishedIsFinal

-----------------------------------------------------------------------------
(***************************************************************************)
(* The lease on pod-0's volumes.  Two more facts make LeaseReleased        *)
(* inductive: a finished status names its Job, so that the pass that meets *)
(* it deletes the Job; and a cache that shows a finished Job is ahead of   *)
(* no other Job, so that none comes to look the way the cache shows it     *)
(* without an event.                                                       *)
(***************************************************************************)
NamesJob == \A st \in {sb, seen} : Done(st) => st.jobName
SeenBehind == jobSeen \in {"complete", "failed"} => job.st \in {jobSeen, "none"}
Leased == NamesJob /\ SeenBehind /\ LeaseReleased

\* A status apply ends with a pass queued, or a dead operator, or a backup that
\* is not finished in the cache.
LEMMA FinishLeased ==
  ASSUME TypeOK, NamesJob, ~Done(seen),
         NEW st \in Statuses, NEW requeue \in BOOLEAN, Finish(st, requeue),
         Done(st) => st.jobName
  PROVE  /\ NamesJob'
         /\ up' /\ ~wake' /\ seen' = sb' => ~Done(sb')
  <1>1. sb' \in {sb, st} /\ seen' \in {seen, st}
    BY FinishTypes
  <1>2. NamesJob'
    BY <1>1 DEF NamesJob, Done
  <1>3. CASE Applied(st, requeue)
    <2>1. wake' = (requeue \/ seen' # seen)
      BY <1>3 DEF Applied
    <2> QED BY <1>2, <2>1
  <1>4. CASE ApplyLost(requeue)
    <2>1. seen' = seen
      BY <1>4 DEF ApplyLost
    <2> QED BY <1>2, <2>1
  <1>5. CASE DiesBeforeApply
    BY <1>2, <1>5 DEF DiesBeforeApply
  <1> QED BY <1>3, <1>4, <1>5 DEF Finish

\* Every step keeps Leased.
LEMMA NextLeased == TypeOK /\ Leased /\ [Next]_vars => Leased'
  <1> SUFFICES ASSUME TypeOK, Leased, [Next]_vars PROVE Leased'
    OBVIOUS
  <1>0. /\ sb \in Statuses /\ seen \in Statuses /\ job \in Jobs
        /\ NamesJob /\ SeenBehind /\ LeaseReleased
    BY DEF TypeOK, Leased
  <1>1. CASE PassDone
    <2>1. job' = NoJob /\ jobSeen' \in {jobSeen, Visible(NoJob)}
      BY <1>0, <1>1 DEF PassDone, NamesJob, Cached
    <2>2. NamesJob'
      BY <1>0, <1>1 DEF PassDone, NamesJob, Done
    <2> QED
      BY <2>1, <2>2 DEF Leased, SeenBehind, LeaseReleased, NoJob, Visible
  <1>2. CASE PassPending
    <2> DEFINE st == [seen EXCEPT !.phase = "Pending"]
    <2>1. st \in Statuses /\ ~Done(st)
      BY <1>0 DEF Statuses, Phases, Done
    <2>2. Finish(st, TRUE) /\ ~Done(seen)
      BY <1>2 DEF PassPending
    <2> HIDE DEF st
    <2>3. NamesJob' /\ (up' /\ ~wake' /\ seen' = sb' => ~Done(sb'))
      BY <1>0, <2>1, <2>2, FinishLeased
    <2>4. SeenBehind'
      BY <1>0, <1>2 DEF PassPending, SeenBehind
    <2> QED BY <2>3, <2>4 DEF Leased, LeaseReleased, Done
  <1>3. CASE PassCreates \/ PassWaits \/ PassObserves
    <2>1. PICK csn \in ReadSourceContextCSN, requeue \in BOOLEAN,
               phase \in {"Running", "Completed", "Failed"} :
            Finish([Recorded(seen, csn) EXCEPT !.phase = phase,
                                               !.jobName = TRUE], requeue)
      BY <1>3 DEF PassCreates, PassWaits, PassObserves
    <2> DEFINE rec == Recorded(seen, csn)
               st  == [rec EXCEPT !.phase = phase, !.jobName = TRUE]
    <2>2. rec \in Statuses
      BY <1>0, RecordedFacts DEF ReadSourceContextCSN, Positions, TypeOK
    <2>3. Finish(st, requeue)
      BY <2>1
    <2> HIDE DEF rec
    <2>4. st \in Statuses /\ st.jobName
      BY <2>2 DEF Statuses, Phases
    <2> HIDE DEF st
    <2>5. ~Done(seen)
      BY <1>3 DEF PassCreates, PassWaits, PassObserves, Proceeds
    <2>6. NamesJob' /\ (up' /\ ~wake' /\ seen' = sb' => ~Done(sb'))
      BY <1>0, <2>3, <2>4, <2>5, FinishLeased
    <2>7. SeenBehind'
      <3>1. CASE PassCreates
        BY <1>0, <3>1
        DEF PassCreates, SeenBehind, Cached, Visible, NoJob, Jobs, JobStates
      <3>2. CASE PassWaits \/ PassObserves
        BY <1>0, <3>2 DEF PassWaits, PassObserves, SeenBehind
      <3> QED BY <1>3, <3>1, <3>2
    <2> QED BY <2>6, <2>7 DEF Leased, LeaseReleased, Done
  <1>4. CASE JobNext
    <2>1. /\ UNCHANGED <<sb, seen, up>>
          /\ wake' = (wake \/ jobSeen' # jobSeen)
          /\ jobSeen' \in {jobSeen, Visible(job')}
      BY <1>4 DEF JobNext, JobDump, JobUpload, JobRetry, JobFails, JobExpires,
                  JobBecomes, Cached
    <2>2. NamesJob'
      BY <1>0, <2>1 DEF NamesJob, Done
    <2>3. \/ job.st \in {"active", "dumped"}
             /\ job'.st \in {"active", "dumped", "complete", "failed"}
          \/ job' = NoJob
      BY <1>0, <1>4 DEF JobNext, JobDump, JobUpload, JobRetry, JobFails,
                        JobExpires, JobBecomes, Jobs
    <2>4. SeenBehind'
      BY <1>0, <2>1, <2>3 DEF SeenBehind, Visible, NoJob
    <2>5. LeaseReleased'
      <3> SUFFICES ASSUME Done(sb)', up', ~wake', (seen = sb)',
                          (jobSeen = Visible(job))', job' # NoJob
                   PROVE  FALSE
        BY DEF LeaseReleased
      <3>1. /\ Done(sb) /\ up /\ ~wake /\ seen = sb
            /\ jobSeen = Visible(job') /\ job.st \in {"active", "dumped"}
            /\ job'.st \in {"active", "dumped", "complete", "failed"}
        BY <2>1, <2>3 DEF Done
      <3>2. CASE job'.st \in {"active", "dumped"}
        <4>1. jobSeen = Visible(job)
          BY <3>1, <3>2 DEF Visible
        <4> QED BY <1>0, <3>1, <4>1 DEF LeaseReleased, NoJob
      <3>3. CASE job'.st \in {"complete", "failed"}
        BY <1>0, <3>1, <3>3 DEF SeenBehind, Visible
      <3> QED BY <3>1, <3>2, <3>3
    <2> QED BY <2>2, <2>4, <2>5 DEF Leased
  <1>5. CASE CacheSync \/ Crash \/ Restart
    <2>1. /\ UNCHANGED <<sb, job>> /\ (up' => wake')
          /\ seen' \in {seen, sb} /\ jobSeen' \in {jobSeen, Visible(job)}
      BY <1>5 DEF CacheSync, Crash, Restart
    <2>2. NamesJob'
      BY <1>0, <2>1 DEF NamesJob, Done
    <2>3. SeenBehind'
      BY <1>0, <2>1 DEF SeenBehind, Visible
    <2> QED BY <2>1, <2>2, <2>3 DEF Leased, LeaseReleased
  <1>6. CASE Outage \/ Recovery \/ Write \/ UNCHANGED vars
    <2>1. UNCHANGED <<sb, seen, job, jobSeen, up, wake>>
      BY <1>6 DEF Outage, Recovery, Write, vars
    <2> QED
      BY <1>0, <2>1 DEF Leased, NamesJob, SeenBehind, LeaseReleased, Done,
                        Visible, NoJob
  <1> QED
    BY <1>1, <1>2, <1>3, <1>4, <1>5, <1>6 DEF Next, Pass

\* A controller at rest on a finished backup has let go of pod-0's volumes,
\* whatever the caches missed and whichever applies were lost.
THEOREM LeaseIsReleased == Spec => []LeaseReleased
  <1>1. Init => Leased
    BY DEF Init, Leased, NamesJob, SeenBehind, LeaseReleased, Done
  <1>2. Leased => LeaseReleased
    BY DEF Leased
  <1> QED BY <1>1, <1>2, TypeCorrect, NextLeased, PTL DEF Spec
=============================================================================
