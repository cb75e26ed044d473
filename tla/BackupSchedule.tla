--------------------------- MODULE BackupSchedule ---------------------------
(***************************************************************************)
(* A SlapdScheduledBackup and its controller                               *)
(* (operator/internal/controller/slapdscheduledbackup_controller.go).      *)
(*                                                                         *)
(* A pass takes the time once, creates the SlapdBackup that is due by it,  *)
(* prunes old ones with their S3 objects, writes the status and asks to be *)
(* requeued at the next cron tick.  Creating and pruning are steps of      *)
(* their own: pruning waits for S3.                                        *)
(*                                                                         *)
(* Time is counted in steps; the cron expression fires at the multiples of *)
(* Period.  A backup is named after the time it is due at and its object   *)
(* after the time it was created at (backupObjectKey).                     *)
(*                                                                         *)
(* Environment is the set of adverse behaviours the environment may show:  *)
(*   "crash"    the operator dies, also between two effects of a pass      *)
(*   "lost"     a status apply fails                                       *)
(*   "s3fail"   a deletion fails, of an object or of a backup              *)
(*   "fail"     a backup ends Failed                                       *)
(*   "suspend"  the user suspends and resumes the schedule, or breaks it   *)
(*   "slow"     time passes while a pass runs                              *)
(*   "tie"      two backups complete at the same time                      *)
(***************************************************************************)
EXTENDS Naturals, FiniteSets

CONSTANTS
  Period,       \* steps between two cron ticks
  Horizon,      \* time ends here
  Immediate,    \* spec.immediate
  MaxCount,     \* spec.retention.maxCount, 0 for none
  MaxAge,       \* spec.retention.maxAge, 0 for none
  MaxMissed,    \* maxMissedSchedules, 100 in the code
  MaxFaults,    \* bound on crashes, lost applies, failures, edits
  EditCost,     \* what an edit counts for against MaxFaults
  Unset,        \* a field that is not set
  Environment   \* the adverse behaviours of the environment, see above

ASSUME ScheduleConstants ==
  /\ Period \in Nat \ {0} /\ Horizon \in Nat
  /\ Immediate \in BOOLEAN
  /\ MaxCount \in Nat /\ MaxAge \in Nat
  /\ MaxMissed \in Nat /\ MaxFaults \in Nat /\ EditCost \in Nat
  /\ Unset \notin Nat

VARIABLES
  now,      \* the time
  mode,     \* spec: scheduling "on", "suspended", or "invalid" cron
  ssb,      \* SlapdScheduledBackup.status at the API server
  backups,  \* the SlapdBackups of this schedule, by the time they are due at
  s3,       \* the object keys in the bucket
  pass,     \* the running pass: the time and the status it read, or Unset
  timers,   \* the times the controller asked to be requeued at
  queued,   \* a pass is queued
  up,       \* the operator runs
  faults,   \* crashes, lost applies, failures, edits so far
  shared    \* history: the creation times two backups had, and so their keys

vars == <<now, mode, ssb, backups, s3, pass, timers, queued, up, faults,
          shared>>

Times == 0 .. Horizon
TimeOrUnset == Times \cup {Unset}
Statuses == [last : TimeOrUnset, next : Nat \cup {Unset},
             reason : {"None", "Suspended", "Invalid", "Scheduled"}]
Records == [phase : {"absent", "Pending", "Completed", "Failed"},
            created : TimeOrUnset, completed : TimeOrUnset]
Absent == [phase |-> "absent", created |-> Unset, completed |-> Unset]

\* The type invariant: every variable holds what the API types allow.
TypeOK ==
  /\ now \in Times /\ mode \in {"on", "suspended", "invalid"}
  /\ ssb \in Statuses
  /\ backups \in [Times -> Records]
  /\ s3 \subseteq Times
  /\ pass = Unset \/ pass \in [at : Times, st : Statuses]
  /\ timers \subseteq Nat
  /\ queued \in BOOLEAN /\ up \in BOOLEAN
  /\ faults \in 0 .. MaxFaults
  /\ shared \subseteq Times

\* The schedule is created at time 0, which is no tick it waits for.
Init ==
  /\ now = 0 /\ mode = "on"
  /\ ssb = [last |-> Unset, next |-> Unset, reason |-> "None"]
  /\ backups = [t \in Times |-> Absent]
  /\ s3 = {} /\ pass = Unset /\ timers = {}
  /\ queued = TRUE /\ up = TRUE /\ faults = 0 /\ shared = {}

-----------------------------------------------------------------------------
Fault(kind) ==
  LET cost == IF kind = "suspend" THEN EditCost ELSE 1
  IN  /\ kind \in Environment
      /\ faults + cost <= MaxFaults
      /\ faults' = faults + cost

\* cron.Schedule.Next: the first tick after t.
NextTick(t) == Period * (t \div Period + 1)

\* The ticks after t, up to time n, the way the loop of dueTime meets them.
TicksIn(t, n) == {u \in t + 1 .. n : u % Period = 0}

\* The loop stops at the tick that makes the count exceed maxMissedSchedules.
LastScanned(t, n) ==
  LET ticks == TicksIn(t, n)
      scanned == {u \in ticks :
                    Cardinality({v \in ticks : v < u}) <= MaxMissed}
  IN  IF ticks = {} THEN Unset
      ELSE CHOOSE u \in scanned : \A v \in scanned : v <= u

\* As if the first missed tick were the one to run.
DueTime_Oldest(st, n) ==
  LET ticks == TicksIn(IF st.last = Unset THEN 0 ELSE st.last, n)
  IN  IF Immediate /\ st.last = Unset THEN n
      ELSE IF ticks = {} THEN Unset
           ELSE CHOOSE u \in ticks : \A v \in ticks : u <= v

\* dueTime: the time of the backup to create, or Unset.
DueTime(st, n) ==
  IF Immediate /\ st.last = Unset THEN n
  ELSE LastScanned(IF st.last = Unset THEN 0 ELSE st.last, n)

-----------------------------------------------------------------------------
(***************************************************************************)
(* The status apply that ends a pass; a change of the object, or of one of *)
(* its backups, queues another one.  RequeueAfter counts when positive.    *)
(***************************************************************************)
Requeue_Never(t) == UNCHANGED timers

Requeue(t) == timers' = IF t > now THEN timers \cup {t} ELSE timers

Written(st) ==
  /\ ssb' = st
  /\ UNCHANGED faults

ApplyLost ==
  /\ Fault("lost")
  /\ UNCHANGED ssb

\* A suspended or invalid schedule: say so and wait for an edit.
PassIdle ==
  /\ up /\ queued /\ pass = Unset /\ mode # "on"
  /\ \/ Written(IF mode = "suspended"
                THEN [ssb EXCEPT !.next = Unset, !.reason = "Suspended"]
                ELSE [ssb EXCEPT !.reason = "Invalid"])
     \/ ApplyLost
  /\ queued' = (ssb' # ssb)
  /\ UNCHANGED <<now, mode, backups, s3, pass, timers, up, shared>>

\* Create, tolerating AlreadyExists, and remember it in the status to write.
PassCreates ==
  /\ up /\ queued /\ pass = Unset /\ mode = "on"
  /\ LET due == DueTime(ssb, now)
     IN  /\ pass' = [at |-> now, st |-> IF due = Unset THEN ssb
                                        ELSE [ssb EXCEPT !.last = due]]
         /\ backups' =
              IF due = Unset \/ backups[due].phase # "absent" THEN backups
              ELSE [backups EXCEPT ![due] =
                      [Absent EXCEPT !.phase = "Pending", !.created = now]]
  /\ shared' = shared \cup {n \in {now} : /\ backups' # backups
                                       /\ \E t \in Times : backups[t].created = n}
  /\ queued' = (backups' # backups)
  /\ UNCHANGED <<now, mode, ssb, s3, timers, up, faults>>

\* As if a failed backup counted as one to prune.
Completed_Ended(bs) ==
  {t \in Times : bs[t].phase \in {"Completed", "Failed"}}

Completed(bs) == {t \in Times : bs[t].phase = "Completed"}

\* The backups beyond maxCount, newest first; ties fall either way.
BeyondCount(bs) ==
  LET done == Completed(bs)
  IN  IF MaxCount = 0 \/ Cardinality(done) <= MaxCount THEN {{}}
      ELSE {P \in SUBSET done :
              /\ Cardinality(P) = Cardinality(done) - MaxCount
              /\ \A p \in P, q \in done \ P :
                   bs[p].completed <= bs[q].completed}

TooOld(bs, n) ==
  IF MaxAge = 0 THEN {}
  ELSE {t \in Completed(bs) : bs[t].completed + MaxAge < n}

\* As if the record went first.
PartlyPruned_RecordFirst(prune) ==
  {done \in (SUBSET prune) \X (SUBSET prune) : done[1] \subseteq done[2]}

\* What a loop over the pruned that fails or dies gets done: the object first,
\* and the record only when that succeeded.
PartlyPruned(prune) ==
  {done \in (SUBSET prune) \X (SUBSET prune) : done[2] \subseteq done[1]}

\* enforceRetention: deletes these objects and these records.
Prune(objs, recs) ==
  /\ s3' = s3 \ {backups[t].created : t \in objs}
  /\ backups' = [t \in Times |-> IF t \in recs THEN Absent ELSE backups[t]]

\* The rest of a pass: prune, write the status, requeue for the next tick.
PassPrunes ==
  /\ up /\ pass # Unset
  /\ \E beyond \in BeyondCount(backups) :
       LET prune == beyond \cup TooOld(backups, pass.at)
           status == [pass.st EXCEPT !.next = NextTick(pass.at),
                                     !.reason = "Scheduled"]
       IN  \/ /\ Prune(prune, prune)
              /\ Written(status) \/ ApplyLost
           \/ /\ \E done \in PartlyPruned(prune) : Prune(done[1], done[2])
              /\ Fault("s3fail")
              /\ ssb' = status
  /\ pass' = Unset
  /\ queued' = (queued \/ <<ssb', backups'>> # <<ssb, backups>>)
  /\ Requeue(NextTick(pass.at))
  /\ UNCHANGED <<now, mode, up, shared>>

\* The operator dies while it prunes.
PassDies ==
  /\ up /\ pass # Unset
  /\ Fault("crash")
  /\ \E beyond \in BeyondCount(backups) :
       \E done \in PartlyPruned(beyond \cup TooOld(backups, pass.at)) :
         Prune(done[1], done[2])
  /\ up' = FALSE /\ pass' = Unset
  /\ UNCHANGED <<now, mode, ssb, timers, queued, shared>>

-----------------------------------------------------------------------------
(***************************************************************************)
(* The backups themselves, the operator's process, and the user.           *)
(***************************************************************************)
BackupEnds(t) ==
  /\ backups[t].phase = "Pending"
  /\ "tie" \in Environment \/ \A u \in Times : backups[u].completed # now
  /\ \/ /\ backups' = [backups EXCEPT ![t].phase = "Completed",
                                      ![t].completed = now]
        /\ s3' = s3 \cup {backups[t].created}
        /\ UNCHANGED faults
     \/ /\ Fault("fail")
        /\ backups' = [backups EXCEPT ![t].phase = "Failed",
                                      ![t].completed = now]
        /\ UNCHANGED s3
  /\ queued' = TRUE
  /\ UNCHANGED <<now, mode, ssb, pass, timers, up, shared>>

Fires ==
  /\ up /\ \E t \in timers : t <= now
  /\ timers' = {t \in timers : t > now}
  /\ queued' = TRUE
  /\ UNCHANGED <<now, mode, ssb, backups, s3, pass, up, faults, shared>>

\* A pass is short against the minute that is cron's grain: unless "slow",
\* time stands still while the controller has something to do.
AtRest == /\ pass = Unset /\ ~queued /\ \A t \in timers : t > now

Tick ==
  /\ now < Horizon
  /\ ~up \/ AtRest \/ "slow" \in Environment
  /\ now' = now + 1
  /\ UNCHANGED <<mode, ssb, backups, s3, pass, timers, queued,
                 up, faults, shared>>

Crash ==
  /\ up /\ Fault("crash")
  /\ up' = FALSE /\ pass' = Unset
  /\ UNCHANGED <<now, mode, ssb, backups, s3, timers, queued, shared>>

Restart ==
  /\ ~up
  /\ up' = TRUE /\ queued' = TRUE /\ timers' = {}
  /\ UNCHANGED <<now, mode, ssb, backups, s3, pass, faults, shared>>

\* The user suspends the schedule or breaks its cron expression.
Edit ==
  /\ mode = "on" /\ Fault("suspend")
  /\ mode' \in {"suspended", "invalid"}
  /\ queued' = TRUE
  /\ UNCHANGED <<now, ssb, backups, s3, pass, timers, up, shared>>

Resume ==
  /\ mode # "on"
  /\ mode' = "on" /\ queued' = TRUE
  /\ UNCHANGED <<now, ssb, backups, s3, pass, timers, up, faults, shared>>

Pass == PassIdle \/ PassCreates \/ PassPrunes

Next == \/ Pass \/ PassDies \/ Fires \/ Tick \/ Crash \/ Restart \/ Edit \/ Resume
        \/ \E t \in Times : BackupEnds(t)

Spec == Init /\ [][Next]_vars

(***************************************************************************)
(* Fairness.  A queued pass runs to its end, timers fire, time passes and *)
(* an operator that dies comes back.  Nothing obliges a backup to end or   *)
(* the user to edit.                                                       *)
(***************************************************************************)
Fairness == /\ WF_vars(Pass) /\ WF_vars(Fires) /\ WF_vars(Tick)
            /\ WF_vars(Restart)

FairSpec == Spec /\ Fairness

-----------------------------------------------------------------------------
\* "We only ever create the single most-recent due backup, never backfill"
\* (slapdscheduledbackup_controller.go:43): no tick lies between the time a
\* new backup is due at and now.  The one exception is what the cap of that
\* comment makes of a longer gap: the backup is then for the tick the walk
\* stopped at, the maxMissedSchedules + 1-st after the last backup, and the
\* passes that follow do backfill, one such stride at a time.
MostRecentOnly ==
  [][\A t \in Times :
       backups[t].phase = "absent" /\ backups'[t].phase = "Pending" =>
         \/ TicksIn(t, now) = {}
         \/ Cardinality(TicksIn(IF ssb.last = Unset THEN 0 ELSE ssb.last, t))
              = MaxMissed + 1]_vars

\* Beyond maxCount or older than maxAge.
Excess(t) ==
  LET newer == {u \in Completed(backups) \ {t} :
                  backups[u].completed >= backups[t].completed}
  IN  \/ MaxCount > 0 /\ Cardinality(newer) >= MaxCount
      \/ MaxAge > 0 /\ backups[t].completed + MaxAge < now

\* Records and objects never come apart, wherever a pruning failed or stopped:
\* a Completed backup that is to be kept has its object in the bucket, and,
\* since "Delete the S3 object first - it isn't garbage-collected with the CR",
\* no object is left without the record that leads to it.  Where a backfill
\* created two backups at one time their keys are one (backupObjectKey), and
\* pruning either takes the object of both.
RecordsMatchObjects ==
  /\ \A t \in Completed(backups) :
       backups[t].created \in s3 \cup shared \/ Excess(t)
  /\ \A k \in s3 : \E t \in Times : backups[t].created = k

\* Retention deletes only what exceeds a limit, and never a backup that is not
\* Completed (docs/BACKUP.md:215).
PrunesOnlyExcess ==
  [][\A t \in Times :
       backups[t].phase # "absent" /\ backups'[t].phase = "absent" =>
         backups[t].phase = "Completed" /\ Excess(t)]_vars

\* "On each cron tick the controller creates a SlapdBackup": a schedule that is
\* on keeps up with its ticks, whatever passes, applies and events were lost.
KeepsUp ==
  \A t \in TicksIn(0, Horizon) :
    now >= t ~> \/ \E u \in t .. Horizon :
                     ssb.last = u \/ backups[u].phase # "absent"
                \/ mode # "on"
=============================================================================
