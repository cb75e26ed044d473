----------------------------- MODULE PodConfig -----------------------------
(***************************************************************************)
(* The configuration of one read-write pod and everybody who writes it     *)
(* (operator/internal/controller: slapddatabase_controller.go, dirjob.go,  *)
(* database_dirs.go, database_teardown.go, slapddatabase_authdb.go,        *)
(* slapdcluster_tunables.go, slapdcluster_authdb.go, startup_config.go,    *)
(* tls_gate.go, slapdschema_controller.go; images/slapd-init).             *)
(*                                                                         *)
(* Three controllers with one worker each write cn=config over LDAP: the   *)
(* SlapdDatabase controller (pass, one step per write that another depends *)
(* on), the SlapdCluster controller and the SlapdSchema controller.  A     *)
(* fourth writer is the init container, which converges what a running     *)
(* slapd cannot take while no slapd runs, from a table the operator        *)
(* publishes.                                                              *)
(*                                                                         *)
(* Any step may be the last one before the operator dies or the connection *)
(* to the pod breaks.  Environment is the set of things that happen around *)
(* the operator: "edit" (users edit, create and delete databases and       *)
(* change the cluster), "restart" (the pod or slapd restarts), "fault" (a  *)
(* write is refused or times out, a Job fails), "crash" (the operator      *)
(* dies), "force" (a finalizer is removed by hand) and "careless" (users   *)
(* take a journal away while the startup table or the overlay names it).   *)
(***************************************************************************)
EXTENDS CnConfig

CONSTANTS
  ClusterSpecs,    \* the SlapdCluster specs the user may declare
  DatabaseSpecs,   \* the SlapdDatabase specs the user may declare
  MaxEvents,       \* bound on what users do and on what goes wrong, together
  Environment

ASSUME PodConfigConstants ==
  /\ MaxEvents \in Nat
  /\ Environment \subseteq {"edit", "restart", "fault", "crash", "force", "careless"}
  /\ Unset \notin Databases /\ Unset \notin DatabaseSpecs
  /\ \A sc \in ClusterSpecs : sc.tls \in BOOLEAN

VARIABLES
  cluster,    \* SlapdCluster.spec
  crs,        \* the SlapdDatabase objects
  secret,     \* the TLS Secret exists
  dirsMap,    \* the database-dirs ConfigMap: a set of directories
  table,      \* the startup-config ConfigMap: the databases it names
  pod,        \* "none" (no StatefulSet), "down" or "up"
  config,     \* the databases of cn=config, on the config volume
  server,     \* the other entries of cn=config
  auth,       \* the content of the authentication database
  schema,     \* the SlapdSchema's sub-entry is in cn=config
  volume,     \* the directories on the data and accesslog volumes
  job,        \* the mkdir Job of this pod, or NoJob
  pass,       \* the SlapdDatabase pass that runs, or NoPass
  status,     \* the conditions on the SlapdDatabases
  events      \* how often users and faults have acted

vars == <<cluster, crs, secret, dirsMap, table, pod, config, server, auth, schema,
          volume, job, pass, status, events>>

declared == <<cluster, crs, secret>>
published == <<dirsMap, table>>
onPod == <<config, server, auth, schema>>
others == <<declared, published, pod, events>>

Event(kind) ==
  /\ kind \in Environment /\ events < MaxEvents
  /\ events' = events + 1

Listed == {d \in Databases : crs[d].state # "absent"}
Declared == [d \in Listed |-> crs[d].spec]

\* databaseDirsFor: every database of the cluster, whatever it wants today.
DatabaseDirs == {<<"data", d>> : d \in Listed} \cup {<<"log", d>> : d \in Listed}

\* databaseDirPaths: what the mkdir Job makes on a read-write pod.
DirPaths(sc) ==
  {<<"data", d>> : d \in Listed}
    \cup IF NeedsAccesslogVolume(sc) THEN {<<"log", d>> : d \in Listed} ELSE {}

NoJob == [paths |-> {}, state |-> "none"]
NoPass == [step |-> "idle", db |-> Unset, sd |-> Unset, sc |-> Unset, dn |-> 0,
           made |-> FALSE, tunables |-> TRUE, startup |-> "Unread"]

Goto(step) == pass' = [pass EXCEPT !.step = step]

\* An error on the pod ends its part of the pass; the rest of it goes on.
PodFails == Goto("identity")

----------------------------------------------------------------------------
\* The SlapdDatabase controller: reconcilePodDatabase.

\* Reconcile as far as the pods: the cluster is Running and the durability
\* settings are not refused.  The database's DN is looked up first.
Begin(d) ==
  LET dn == FindDataDB(config, d)
  IN /\ pass.step = "idle" /\ pod = "up"
     /\ crs[d].state = "declared"
     /\ ValidateDurability(cluster, crs[d].spec)
     /\ pass' = [NoPass EXCEPT !.step = IF dn = 0 THEN "dirs" ELSE "attrs", !.db = d,
                   !.sd = crs[d].spec, !.sc = cluster, !.dn = dn]
     /\ UNCHANGED <<others, onPod, volume, job, status>>

\* reapSupersededDirJobs: a Job of another set of paths is deleted.
Current(paths) == IF job.paths = paths THEN job ELSE NoJob

\* ensureDatabaseDirs, once per pass: a Job is created and waited for over as
\* many passes as it takes, and deleted when it has been seen to end.
EnsureDirs(step, next) ==
  LET paths == DirPaths(pass.sc)
      mine == Current(paths)
  IN /\ pass.step = step /\ pod = "up"
     /\ \/ /\ pass.made
           /\ Goto(next) /\ UNCHANGED job
        \/ /\ ~pass.made /\ mine.state = "succeeded"
           /\ job' = NoJob
           /\ pass' = [pass EXCEPT !.step = next, !.made = TRUE]
        \/ /\ ~pass.made /\ mine.state # "succeeded"
           /\ job' = CASE mine.state = "none" -> [paths |-> paths, state |-> "running"]
                       [] mine.state = "failed" -> NoJob
                       [] OTHER -> mine
           /\ PodFails
     /\ UNCHANGED <<others, onPod, volume, status>>

\* ensureMonitorBeforeDBAdd: best effort.
WithMonitor(cfg) ==
  IF FindMonitorDB(cfg) # 0 THEN cfg ELSE Append(cfg, MonitorEntry)

\* slapd opens the new database's directory at once and refuses without it.
AddDatabase(entry, dir, next) ==
  LET cfg == WithMonitor(config)
  IN IF dir \in volume /\ entry.maxSize # Unset
     THEN /\ config' = Append(cfg, entry)
          /\ pass' = [pass EXCEPT !.step = next,
                        !.dn = IF entry.kind = "data" THEN Len(cfg) + 1 ELSE @]
     ELSE config' = cfg /\ PodFails

CreateDatabase ==
  /\ pass.step = "create" /\ pod = "up"
  /\ AddDatabase(DataEntry(pass.sc, pass.db, pass.sd), <<"data", pass.db>>, "attrs")
  /\ UNCHANGED <<others, server, auth, schema, volume, job, status>>

\* A write to the data database's entry, wherever its DN leads now.
WriteData(entry, next) ==
  IF pass.dn \in DOMAIN config
  THEN /\ config' = [config EXCEPT ![pass.dn] = entry]
       /\ Goto(next)
  ELSE UNCHANGED config /\ PodFails

\* ensureModulesLoaded, for a pod that was bootstrapped without replication.
WantedModules(sc, sd) ==
  (IF WantsSyncProv(sc) THEN {"syncprov"} ELSE {})
    \cup IF WantsAccesslog(sc, sd) THEN {"accesslog"} ELSE {}
WithModules(srv, modules) == [srv EXCEPT !.modules = @ \cup modules]

\* ensureServerIDs: one value, which follows from the ordinal.
WithServerID(srv) == [srv EXCEPT !.sid = TRUE]

\* applyACLs, applyIndices, convergeScaleTunables, ensureModulesLoaded and
\* ensureServerIDs: writes that depend on none of each other, each made when
\* what it finds differs.  convergeProviderInfra then removes before it adds.
EnsureAttrs ==
  LET e == config[pass.dn]
      wanted == WantedModules(pass.sc, pass.sd)
      written == WithIndices(WithACLs(e, pass.sc, pass.sd),
                             pass.sd.indices \cup Baseline)
  IN /\ pass.step = "attrs" /\ pod = "up"
     /\ IF DesiredDataMaxSize(pass.sd) = Unset
        THEN /\ config' = [config EXCEPT ![pass.dn] = written]
             /\ PodFails /\ UNCHANGED server
        ELSE /\ config' = [config EXCEPT ![pass.dn] =
                  WithScaleTunables(written, pass.sc, pass.sd)]
             /\ server' = WithServerID(WithModules(server, wanted))
             /\ pass' = [pass EXCEPT
                  !.step = IF WantsAccesslog(pass.sc, pass.sd) THEN "provide"
                           ELSE "unjournal",
                  !.tunables = CheckMaxSize(e, pass.sd) /\ CheckEnvFlags(e, pass.sd)]
     /\ UNCHANGED <<others, auth, schema, volume, job, status>>

\* removeDataDBOverlay(accesslog), before the database the overlay names.
RemoveAccesslogOverlay ==
  LET entry == [config[pass.dn] EXCEPT !.accesslog = FALSE]
  IN /\ pass.step = "unjournal" /\ pod = "up"
     /\ WriteData(entry, "unlog")
     /\ UNCHANGED <<others, server, auth, schema, volume, job, status>>

\* The DN resolved at the start of the pass is used to its end.
Reresolved_Cached(cfg) == pass.dn

\* A database was deleted: the position of ours may have moved.
Reresolved(cfg) == FindDataDB(cfg, pass.db)

\* removeAccesslogDB: its overlays first.
RemoveAccesslogDB ==
  LET log == FindLogDB(config, pass.db)
      next == IF WantsSyncProv(pass.sc) THEN "provide" ELSE "unprovide"
  IN /\ pass.step = "unlog" /\ pod = "up"
     /\ IF log = 0 THEN UNCHANGED config /\ Goto(next)
        ELSE IF ~IsLeaf(config[log])
        THEN /\ config' = [config EXCEPT ![log] = WithoutNextOverlay(@)]
             /\ UNCHANGED pass
        ELSE /\ config' = Delete(config, log)
             /\ pass' = [pass EXCEPT !.step = next, !.dn = Reresolved(config')]
     /\ UNCHANGED <<others, server, auth, schema, volume, job, status>>

RemoveSyncProvOverlay ==
  LET entry == [config[pass.dn] EXCEPT !.syncprov = FALSE, !.mem = FALSE, !.source = FALSE]
  IN /\ pass.step = "unprovide" /\ pod = "up"
     /\ WriteData(entry, "readonly")
     /\ UNCHANGED <<others, server, auth, schema, volume, job, status>>

\* ensureSyncprovSessionlog: the session log is planned from what the overlay
\* carries.
WithSessionlog(e, kind) == [e EXCEPT !.mem = PlanSessionlog(@, kind, e.source)]

\* observeStartupConfig: the startup-only attribute is looked at and never
\* written.
Observed(e, kind) == IF e.source = (kind = "Accesslog") THEN "Same" ELSE "Differs"

\* ensureSyncProvOverlay: created with an in-memory log, then converged.
EnsureSyncProvOverlay ==
  LET kind == DesiredSessionlog(pass.sd)
      e == config[pass.dn]
      overlaid == IF e.syncprov THEN e
                  ELSE [e EXCEPT !.syncprov = TRUE,
                          !.mem = OverlayCreationSessionlog(kind)]
  IN /\ pass.step = "provide" /\ pod = "up"
     /\ IF pass.dn \in DOMAIN config
        THEN /\ config' = [config EXCEPT ![pass.dn] = WithSessionlog(overlaid, kind)]
             /\ pass' = [pass EXCEPT
                  !.step = IF ~WantsAccesslog(pass.sc, pass.sd) THEN "readonly"
                           ELSE IF FindLogDB(config, pass.db) = 0 THEN "logdirs"
                           ELSE "logattrs",
                  !.startup = Observed(e, kind)]
        ELSE UNCHANGED config /\ PodFails
     /\ UNCHANGED <<others, server, auth, schema, volume, job, status>>

CreateAccesslogDB ==
  /\ pass.step = "logcreate" /\ pod = "up"
  /\ AddDatabase(LogEntry(pass.sc, pass.db, pass.sd), <<"log", pass.db>>, "logattrs")
  /\ UNCHANGED <<others, server, auth, schema, volume, job, status>>

\* The rest of ensureAccesslogDB: its ACL, indices, limits and tunables, an
\* accesslog overlay that does not belong on a journal, its own syncprov.
EnsureAccesslogAttrs ==
  LET log == FindLogDB(config, pass.db)
  IN /\ pass.step = "logattrs" /\ pod = "up"
     /\ IF log = 0 THEN UNCHANGED config /\ PodFails
        ELSE /\ config' = [config EXCEPT ![log] =
                  WithBackendTunables(
                    [WithIndices(@, AccesslogIndices) EXCEPT !.acl = AccesslogACL,
                       !.limits = ReplicationLimits,
                       !.accesslog = FALSE, !.syncprov = TRUE],
                    DesiredNoSync(pass.sc, pass.sd), "journal")]
             /\ Goto("journal")
     /\ UNCHANGED <<others, server, auth, schema, volume, job, status>>

\* ensureAccesslogOverlay: slapd refuses an overlay whose database it does not
\* have.
EnsureAccesslogOverlay ==
  LET entry == [config[pass.dn] EXCEPT !.accesslog = TRUE]
  IN /\ pass.step = "journal" /\ pod = "up"
     /\ WriteData(entry, "readonly")
     /\ UNCHANGED <<others, server, auth, schema, volume, job, status>>

EnsureReadOnly ==
  LET entry == [config[pass.dn] EXCEPT !.readOnly = IsConsumerOnly(pass.sc)]
  IN /\ pass.step = "readonly" /\ pod = "up"
     /\ WriteData(entry, "identity")
     /\ UNCHANGED <<others, server, auth, schema, volume, job, status>>

\* aggregateStartupConfigConverged for one pod: what was not read indicts
\* nobody.
StartupCondition(kind, seen) ==
  CASE seen = "Differs" -> "False"
    [] seen = "Same" -> "True"
    [] OTHER -> IF kind = "Accesslog" THEN "Unknown" ELSE "True"

\* reconcileAuthIdentity: deferred while the database or its suffix entry is
\* missing.
WithIdentity(content, d) ==
  IF FindAuthDB(config) # 0 /\ content.entry
  THEN [content EXCEPT !.identity = @ \cup {d}] ELSE content

\* The identity, and the end of Reconcile, which publishes the conditions.
FinishPass ==
  /\ pass.step = "identity"
  /\ auth' = IF pod = "up" /\ WantsSyncProv(pass.sc) /\ pass.sd.repl # FALSE
             THEN WithIdentity(auth, pass.db) ELSE auth
  /\ status' = [status EXCEPT ![pass.db] =
       [tunables |-> pass.tunables,
        startup |-> StartupCondition(DesiredSessionlog(pass.sd), pass.startup)]]
  /\ pass' = NoPass
  /\ UNCHANGED <<others, config, server, schema, volume, job>>

\* A write is refused or its answer lost, or the pod cannot be reached.
StepFails ==
  /\ pass.step \notin {"idle", "identity", "delete"} /\ Event("fault")
  /\ PodFails
  /\ UNCHANGED <<declared, published, pod, onPod, volume, job, status>>

----------------------------------------------------------------------------
\* handleDeletion.

\* The finalizer is removed and the object is gone.
FinalizerGoes(d) == crs' = [crs EXCEPT ![d].state = "absent"]

BeginDeletion(d) ==
  /\ pass.step = "idle" /\ crs[d].state = "deleting"
  /\ IF crs[d].spec.cleanup = "Delete"
     THEN /\ pass' = [NoPass EXCEPT !.step = "delete", !.db = d]
          /\ UNCHANGED crs
     ELSE FinalizerGoes(d) /\ UNCHANGED pass
  /\ UNCHANGED <<cluster, secret, published, pod, events, onPod, volume, job,
                 status>>

\* The journal first: an interruption leaves an overlay that names nothing.
Leftovers_LogFirst(d) ==
  LET log == FindLogDB(config, d)
  IN IF log # 0 THEN {log} ELSE {FindDataDB(config, d)} \ {0}

\* The journal is left for nobody to find.
Leftovers_DataOnly(d) == {FindDataDB(config, d)} \ {0}

\* What deleteDatabaseFromPod has still to remove: the data database and then,
\* found by its own suffix, the journal.
Leftovers(d) ==
  LET data == FindDataDB(config, d)
  IN IF data # 0 THEN {data} ELSE {FindLogDB(config, d)} \ {0}

DeleteFromPod ==
  LET d == pass.db
  IN /\ pass.step = "delete"
     /\ IF pod # "up"
        THEN pass' = NoPass /\ UNCHANGED <<config, crs>>
        ELSE IF Leftovers(d) = {}
        THEN pass' = NoPass /\ FinalizerGoes(d) /\ UNCHANGED config
        ELSE LET i == CHOOSE i \in Leftovers(d) : TRUE
             IN /\ config' = IF IsLeaf(config[i]) THEN Delete(config, i)
                             ELSE [config EXCEPT ![i] = WithoutNextOverlay(@)]
                /\ UNCHANGED <<crs, pass>>
     /\ UNCHANGED <<cluster, secret, published, pod, events, server, auth,
                    schema, volume, job, status>>

\* The error keeps the finalizer, and the next pass starts the teardown over.
DeleteFails ==
  /\ pass.step = "delete" /\ Event("fault")
  /\ pass' = NoPass
  /\ UNCHANGED <<declared, published, pod, onPod, volume, job, status>>

----------------------------------------------------------------------------
\* The SlapdCluster controller.

\* evaluateTLSSecret: a cluster whose certificate is not issued gets no pod, a
\* pod that runs keeps running.
TLSReady(sc) == sc.tls => secret

\* reconcileDatabaseDirsConfigMap and reconcileStartupConfigMap, both before
\* the StatefulSet that mounts them.
ApplyWorkload ==
  /\ dirsMap' = DatabaseDirs
  /\ table' = StartupConfigFor(Declared)
  /\ pod' = IF pod = "none" /\ TLSReady(cluster) THEN "down" ELSE pod
  /\ UNCHANGED <<declared, events, onPod, volume, job, pass, status>>

Steps == <<"global", "monitor", "auth">>

\* The first step that fails ends the pod's infrastructure.
Executed_FailFast(failed) ==
  {Steps[i] : i \in {j \in DOMAIN Steps : \A k \in 1 .. j : Steps[k] \notin failed}}

\* runConvergenceSteps: every step runs, whatever became of the ones before.
Executed(failed) == {Steps[i] : i \in DOMAIN Steps} \ failed

Globals == {"olcToolThreads", "olcPasswordHash", "olcTLSProtocolMin"}
WantedGlobals(sc) == Globals \ IF sc.tls THEN {} ELSE {"olcTLSProtocolMin"}

\* A slapd that was bootstrapped without TLS refuses the TLS attributes.
Refused(attrs) == IF server.tls THEN {} ELSE attrs \cap {"olcTLSProtocolMin"}

\* ensureGlobalTunables: one step per attribute, and the password hash's copy
\* in the global entry retired.
WithGlobalTunables(srv, wanted) ==
  [srv EXCEPT !.globals = @ \cup (wanted \ Refused(wanted)), !.oldHash = FALSE]

\* ensureAuthDB: the database, where its directory is, and its ACLs.
WithAuthDB(cfg) ==
  LET i == FindAuthDB(cfg)
  IN IF i # 0 THEN [cfg EXCEPT ![i].acl = AuthEntry.acl]
     ELSE IF <<"auth">> \in volume THEN Append(cfg, AuthEntry) ELSE cfg

\* reconcilePodInfrastructure; steps fails, and so does the step in which a
\* tunable is refused for good.
ReconcileInfrastructure(fails) ==
  LET wanted == WantedGlobals(cluster)
      failed == fails \cup IF Refused(wanted) = {} THEN {} ELSE {"global"}
      done == Executed(failed)
      monitored == IF "monitor" \in done THEN WithMonitor(config) ELSE config
  IN /\ pod = "up"
     /\ server' = IF "global" \notin fails THEN WithGlobalTunables(server, wanted)
                  ELSE server
     /\ config' = IF "auth" \in done THEN WithAuthDB(monitored) ELSE monitored
     /\ auth' = IF "auth" \in done /\ FindAuthDB(config') # 0
                THEN [auth EXCEPT !.entry = TRUE] ELSE auth
     /\ UNCHANGED <<declared, published, pod, schema, volume, job, pass, status>>

ConvergeInfrastructure == ReconcileInfrastructure({}) /\ UNCHANGED events

InfrastructureFails ==
  /\ \E i \in DOMAIN Steps : ReconcileInfrastructure({Steps[i]})
  /\ Event("fault")

----------------------------------------------------------------------------
\* The SlapdSchema controller: the sub-entry is added where its name is not
\* listed, and never touched again.
ApplySchemaToPod ==
  /\ pod = "up" /\ ~schema
  /\ schema' = TRUE
  /\ UNCHANGED <<declared, published, pod, events, config, server, auth, volume,
                 job, pass, status>>

----------------------------------------------------------------------------
\* The pod, and the Job beside it.

\* What slapd needs in order to start.
Startable(cfg, dirs) ==
  /\ Resolves(cfg)
  /\ \A i \in DOMAIN cfg :
       /\ cfg[i].kind \in {"data", "log"} => <<cfg[i].kind, cfg[i].db>> \in dirs
       /\ cfg[i].kind = "auth" => <<"auth">> \in dirs

\* bootstrap.sh and then slapd: the directories of the ConfigMap and the
\* authentication database's, a configuration where there is none, the
\* startup-only attributes.
StartPod ==
  LET dirs == volume \cup dirsMap \cup {<<"auth">>}
      cfg == ConvergeOffline(config, table)
  IN /\ pod = "down"
     /\ volume' = dirs /\ config' = cfg
     /\ server' = IF ~server.fresh THEN server
                  ELSE [fresh |-> FALSE, tls |-> cluster.tls,
                        modules |-> {"accesslog", "syncprov"}, sid |-> TRUE,
                        globals |-> {}, oldHash |-> FALSE]
     /\ pod' = IF Startable(cfg, dirs) THEN "up" ELSE "down"
     /\ UNCHANGED <<declared, published, auth, schema, job, pass, status, events>>

\* The connections break, so a pass that was writing goes on without this pod.
RestartPod ==
  /\ Event("restart") /\ pod = "up"
  /\ pod' = "down"
  /\ IF pass.step \in {"idle", "identity"} THEN UNCHANGED pass
     ELSE IF pass.step = "delete" THEN pass' = NoPass ELSE PodFails
  /\ UNCHANGED <<declared, published, onPod, volume, job, status>>

RunJob ==
  /\ job.state = "running" /\ pod # "none"
  /\ \/ /\ volume' = volume \cup job.paths
        /\ job' = [job EXCEPT !.state = "succeeded"]
        /\ UNCHANGED events
     \/ /\ Event("fault")
        /\ job' = [job EXCEPT !.state = "failed"]
        /\ UNCHANGED volume
  /\ UNCHANGED <<declared, published, pod, onPod, pass, status>>

\* The operator dies and starts over.
Crash ==
  /\ Event("crash") /\ pass # NoPass
  /\ pass' = NoPass
  /\ UNCHANGED <<declared, published, pod, onPod, volume, job, status>>

----------------------------------------------------------------------------
\* Users.

\* The journal of a database may go once nothing names it and nothing will.
SafeFor(d, sc, sd) ==
  \/ "careless" \in Environment
  \/ WantsAccesslog(sc, sd)
  \/ /\ DesiredSessionlog(sd) # "Accesslog" /\ d \notin table
     /\ \A i \in DOMAIN config : config[i].db = d => ~config[i].source

CreateDatabaseCR(d) ==
  /\ Event("edit") /\ crs[d].state = "absent"
  /\ \E s \in DatabaseSpecs :
       /\ SafeFor(d, cluster, s)
       /\ crs' = [crs EXCEPT ![d] = [state |-> "declared", spec |-> s]]
  /\ UNCHANGED <<cluster, secret, published, pod, onPod, volume, job, pass, status>>

EditDatabaseCR(d) ==
  /\ Event("edit") /\ crs[d].state = "declared"
  /\ \E s \in DatabaseSpecs \ {crs[d].spec} :
       /\ SafeFor(d, cluster, s)
       /\ crs' = [crs EXCEPT ![d].spec = s]
  /\ UNCHANGED <<cluster, secret, published, pod, onPod, volume, job, pass, status>>

DeleteDatabaseCR(d) ==
  /\ Event("edit") /\ crs[d].state = "declared"
  /\ crs' = [crs EXCEPT ![d].state = "deleting"]
  /\ UNCHANGED <<cluster, secret, published, pod, onPod, volume, job, pass, status>>

\* The error of a deletion that does not succeed says so: remove the finalizer
\* by hand to force it.
ForceDeletion(d) ==
  /\ Event("force") /\ crs[d].state = "deleting" /\ pass.step # "delete"
  /\ FinalizerGoes(d)
  /\ UNCHANGED <<cluster, secret, published, pod, onPod, volume, job, pass, status>>

EditCluster ==
  /\ Event("edit")
  /\ \E s \in ClusterSpecs \ {cluster} :
       /\ \A d \in Listed : SafeFor(d, s, crs[d].spec)
       /\ cluster' = s
  /\ UNCHANGED <<crs, secret, published, pod, onPod, volume, job, pass, status>>

IssueCertificate ==
  /\ ~secret /\ secret' = TRUE
  /\ UNCHANGED <<cluster, crs, published, pod, onPod, volume, job, pass, status,
                 events>>

----------------------------------------------------------------------------

\* What a server carries that an older operator bootstrapped without
\* replication: no modules, no server identity, the hash in the old place.
OldServer ==
  [fresh |-> FALSE, tls |-> FALSE, modules |-> {}, sid |-> FALSE, globals |-> {},
   oldHash |-> TRUE]

\* A cluster about to be created; or one that runs: with an older server, or
\* with the journal that an interrupted teardown left behind when the finalizer
\* was removed by hand.
Init ==
  /\ cluster \in ClusterSpecs
  /\ crs \in [Databases -> {[state |-> "declared", spec |-> s] : s \in DatabaseSpecs}]
  /\ dirsMap = {} /\ table = {}
  /\ \/ /\ pod = "none" /\ config = <<>> /\ volume = {}
        /\ server = [OldServer EXCEPT !.fresh = TRUE, !.oldHash = FALSE]
        /\ secret = FALSE /\ schema = FALSE
     \/ /\ pod = "up" /\ config = <<>> /\ volume = {<<"auth">>}
        /\ server = OldServer
        /\ secret = TRUE /\ schema = TRUE
     \/ /\ pod = "up" /\ volume = {<<"auth">>} \cup DatabaseDirs
        /\ \E d \in Databases : config = <<LogEntry(cluster, d, crs[d].spec)>>
        /\ server = [OldServer EXCEPT !.modules = {"accesslog", "syncprov"}, !.sid = TRUE]
        /\ secret = TRUE /\ schema = TRUE
  /\ auth = [entry |-> FALSE, identity |-> {}]
  /\ job = NoJob /\ pass = NoPass
  /\ status = [d \in Databases |-> [tunables |-> TRUE, startup |-> "Unknown"]]
  /\ events = 0

ConvergePod ==
  \/ EnsureDirs("dirs", "create") \/ CreateDatabase
  \/ EnsureAttrs
  \/ RemoveAccesslogOverlay \/ RemoveAccesslogDB \/ RemoveSyncProvOverlay
  \/ EnsureSyncProvOverlay
  \/ EnsureDirs("logdirs", "logcreate") \/ CreateAccesslogDB
  \/ EnsureAccesslogAttrs \/ EnsureAccesslogOverlay
  \/ EnsureReadOnly \/ FinishPass

Faults ==
  \/ StepFails \/ DeleteFails \/ InfrastructureFails \/ RestartPod \/ Crash

Users ==
  \/ \E d \in Databases : \/ CreateDatabaseCR(d) \/ EditDatabaseCR(d)
                          \/ DeleteDatabaseCR(d) \/ ForceDeletion(d)
  \/ EditCluster

Next ==
  \/ \E d \in Databases : Begin(d) \/ BeginDeletion(d)
  \/ ConvergePod \/ DeleteFromPod
  \/ ApplyWorkload \/ ConvergeInfrastructure
  \/ ApplySchemaToPod
  \/ StartPod \/ RunJob
  \/ IssueCertificate
  \/ Faults \/ Users

\* Every controller requeues what is not finished, the kubelet restarts a pod
\* and runs a Job, and a certificate that was asked for is issued in the end.
\* The queue of the SlapdDatabases is shared, so each of them is strongly fair.
Fairness ==
  /\ \A d \in Databases : SF_vars(Begin(d)) /\ SF_vars(BeginDeletion(d))
  /\ WF_vars(ConvergePod \/ DeleteFromPod)
  /\ WF_vars(ApplyWorkload) /\ WF_vars(ConvergeInfrastructure)
  /\ WF_vars(ApplySchemaToPod)
  /\ WF_vars(StartPod) /\ WF_vars(RunJob)
  /\ WF_vars(IssueCertificate)

Spec == Init /\ [][Next]_vars /\ Fairness

----------------------------------------------------------------------------
\* Properties.

PassSteps ==
  {"idle", "dirs", "create", "attrs", "unjournal", "unlog", "unprovide", "provide",
   "logdirs", "logcreate", "logattrs", "journal", "readonly", "identity", "delete"}

Passes ==
  [step : PassSteps, db : Databases \cup {Unset}, sd : DatabaseSpecs \cup {Unset},
   sc : ClusterSpecs \cup {Unset}, dn : Nat, made : BOOLEAN, tunables : BOOLEAN,
   startup : {"Unread", "Same", "Differs"}]

Servers ==
  [fresh : BOOLEAN, tls : BOOLEAN, modules : SUBSET {"accesslog", "syncprov"},
   sid : BOOLEAN, globals : SUBSET Globals, oldHash : BOOLEAN]

Dirs == ({"data", "log"} \X Databases) \cup {<<"auth">>}

\* What an entry carries is the operator's own or resolved from a declared spec.
ACLs ==
  {<<>>, <<"monitor">>, <<"auth">>, AccesslogACL}
    \cup {sd.acls : sd \in DatabaseSpecs}
    \cup {<<"replication">> \o sd.acls : sd \in DatabaseSpecs}
Indices == Baseline \cup AccesslogIndices \cup UNION {sd.indices : sd \in DatabaseSpecs}
Limits ==
  {<<>>, ReplicationLimits}
    \cup {DesiredLimits(s[1], s[2]) : s \in ClusterSpecs \X DatabaseSpecs}
Searches == {"500", "unlimited"} \cup {sd.search : sd \in DatabaseSpecs}
NoSyncs ==
  {FALSE} \cup {DesiredNoSync(s[1], s[2]) : s \in ClusterSpecs \X DatabaseSpecs}
Checkpoints == {"", "journal"} \cup {DesiredCheckpoint(sd) : sd \in DatabaseSpecs}
MaxSizes == {1, AccesslogMaxSize} \cup {DesiredDataMaxSize(sd) : sd \in DatabaseSpecs}
EnvFlags == {{}} \cup {sd.envFlags : sd \in DatabaseSpecs}

Entry ==
  [kind : {"monitor", "auth", "data", "log"}, db : Databases \cup {Unset},
   syncprov : BOOLEAN, mem : BOOLEAN, source : BOOLEAN, accesslog : BOOLEAN,
   readOnly : BOOLEAN, acl : ACLs, index : SUBSET Indices, limits : Limits,
   search : Searches, noSync : NoSyncs, checkpoint : Checkpoints,
   maxSize : MaxSizes, envFlags : EnvFlags]

OnePerSuffix(cfg) ==
  \A i, j \in DOMAIN cfg : cfg[i].kind = cfg[j].kind /\ cfg[i].db = cfg[j].db => i = j

\* The variables keep their types, and cn=config never holds two databases with
\* one suffix (every add of the operator comes after a search, by controllers
\* that search and add concurrently).
TypeOK ==
  /\ cluster \in ClusterSpecs
  /\ crs \in [Databases -> [state : {"absent", "declared", "deleting"},
                            spec : DatabaseSpecs]]
  /\ secret \in BOOLEAN /\ schema \in BOOLEAN
  /\ dirsMap \subseteq Dirs
  /\ table \subseteq Databases
  /\ pod \in {"none", "down", "up"}
  /\ config \in Seq(Entry) /\ OnePerSuffix(config)
  /\ server \in Servers
  /\ auth \in [entry : BOOLEAN, identity : SUBSET Databases]
  /\ volume \subseteq Dirs
  /\ job \in [paths : SUBSET Dirs, state : {"none", "running", "succeeded", "failed"}]
  /\ pass \in Passes
  /\ status \in [Databases -> [tunables : BOOLEAN,
                               startup : {"Unknown", "True", "False"}]]
  /\ events \in 0 .. MaxEvents

\* Whatever the operator was doing when it stopped, slapd can start on the
\* configuration it left: every journal an overlay or a session log names is
\* configured, and every database has its directory.  This is what the order of
\* the steps, the teardown's included, is for (deleteDatabaseFromPod: "Order is
\* load-bearing"), and what a running slapd does not check.
Bootable ==
  pod # "none" =>
    Startable(ConvergeOffline(config, table), volume \cup dirsMap \cup {<<"auth">>})

\* The same for every edit a user may make, once a pass is over and the startup
\* table says what is declared (adr-034 R4: "The error it must never produce is
\* an unbootable pod").
NeverStranded ==
  pass = NoPass /\ table = StartupConfigFor(Declared) => Bootable

\* The entries that belong to no pass of d.
Foreign(cfg, d) ==
  {cfg[i] : i \in {j \in DOMAIN cfg : cfg[j].db # d /\ cfg[j].kind # "monitor"}}

\* A pass for one database, a teardown included, writes to no other: its DN is a
\* position, a delete moves it, and the comment in reconcilePodDatabase tells of
\* a journal that was made to journal into another one.
TouchesOwnDatabase ==
  [][ConvergePod \/ DeleteFromPod
       => Foreign(config', pass.db) = Foreign(config, pass.db)]_vars

\* The last session log of a provider that is to have one.
Logged(cfg, d) ==
  \E i \in DOMAIN cfg : cfg[i].kind = "data" /\ cfg[i].db = d
                           /\ (cfg[i].mem \/ cfg[i].source)

\* syncprov never has both session logs, which slapd refuses: the online planner
\* and the offline converger each own one of the two attributes.  And never
\* none: while slapd runs, a pass that has read what is declared does not take
\* the last one away from a provider that is to have one, since the change from
\* one kind to the other spans a restart and consumers depend on the log over it.
KeepsSessionlog ==
  [][/\ \A i \in DOMAIN config' : ~(config'[i].mem /\ config'[i].source)
     /\ \A d \in Databases :
          (/\ pod = "up" /\ pod' = "up" /\ Logged(config, d)
           /\ pass.db = d /\ pass.sd = crs[d].spec /\ pass.sc = cluster
           /\ WantsSyncProv(cluster) /\ DesiredSessionlog(crs[d].spec) # "None")
          => Logged(config', d)]_vars

\* The operator lets a SlapdDatabase with cleanupPolicy Delete go only when
\* nothing of it is left on the pod, however often the teardown was interrupted.
TeardownComplete ==
  [][\A d \in Databases :
       pass.step = "delete" /\ crs[d].state # "absent" /\ crs'[d].state = "absent"
       => FindDataDB(config', d) = 0 /\ FindLogDB(config', d) = 0]_vars

\* What the pod and the conditions show once a declared database has settled.
Settled(d) ==
  LET sd == crs[d].spec
      kind == DesiredSessionlog(sd)
      e == config[FindDataDB(config, d)]
      log == FindLogDB(config, d)
  IN /\ FindDataDB(config, d) # 0
     /\ e.syncprov = WantsSyncProv(cluster)
     /\ e.accesslog = WantsAccesslog(cluster, sd)
     /\ (log # 0) = WantsAccesslog(cluster, sd)
     /\ log # 0 => config[log].syncprov
     /\ e.readOnly = IsConsumerOnly(cluster)
     /\ e.noSync = DesiredNoSync(cluster, sd)
     /\ e.checkpoint = DesiredCheckpoint(sd)
     /\ e.acl = DesiredACLs(cluster, sd, e.acl)
     /\ e.limits = DesiredLimits(cluster, sd)
     /\ PlanIndices(e.index, sd.indices \cup Baseline) = {}
     /\ server.sid
     /\ WantsSyncProv(cluster) => "syncprov" \in server.modules
     /\ WantsSyncProv(cluster) =>
          /\ kind = "InMemory" => e.mem \/ e.source
          /\ kind = "Accesslog" => e.mem \/ e.source \/ status[d].startup = "False"
          /\ (status[d].startup = "True") = (e.source = (kind = "Accesslog"))
          /\ sd.repl # FALSE => d \in auth.identity
     /\ status[d].tunables = (CheckMaxSize(e, sd) /\ CheckEnvFlags(e, sd))

\* What the spec asks for and the operator does not refuse.
Accepts(d) ==
  /\ crs[d].state = "declared"
  /\ ValidateDurability(cluster, crs[d].spec)
  /\ DesiredDataMaxSize(crs[d].spec) # Unset

\* Once users and faults let up, a deletion ends, and a database that is
\* declared and not refused is on the pod as declared, with the conditions
\* saying what is live: through waiting for the mkdir Job, a pod that was
\* bootstrapped without the modules, and the authentication database coming
\* from another controller.  Every pod gets the monitor database, the
\* authentication database and the schema, also where slapd refuses a global
\* tunable for good.
Converges ==
  <>[](/\ FindMonitorDB(config) # 0 /\ FindAuthDB(config) # 0 /\ auth.entry /\ schema
       /\ \A d \in Databases : crs[d].state # "deleting" /\ (Accepts(d) => Settled(d)))

=============================================================================
