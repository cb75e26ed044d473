------------------------------ MODULE CnConfig ------------------------------
(***************************************************************************)
(* What one SlapdDatabase wants of a read-write pod's cn=config, and the   *)
(* database entries of a cn=config (operator/internal/controller:          *)
(* slapddatabase_controller.go, slapddatabase_tunables.go,                 *)
(* scale_tunables.go; operator/api/v1alpha1).                              *)
(*                                                                         *)
(* A cn=config is a sequence of databases: olcDatabase={N} is the position *)
(* N of the sequence, and deleting a database moves every later one down.  *)
(***************************************************************************)
EXTENDS Integers, Sequences, FiniteSets

CONSTANTS
  Unset,      \* a field the user has left out
  Databases   \* the SlapdDatabases of the cluster

----------------------------------------------------------------------------
\* What the API types answer about their own fields.

IsConsumerOnly(sc) == sc.enabled /\ sc.mode = "consumer-only"

DerivedAccesslog(sc) ==
  IF sc.accesslogEnabled # Unset THEN sc.accesslogEnabled
  ELSE sc.replicas > 1 \/ sc.peers

\* NeedsAccesslog and NeedsAccesslogVolume differ for consumer-only clusters:
\* the volume is there for a later promotion.
NeedsAccesslog(sc) == sc.enabled /\ ~IsConsumerOnly(sc) /\ DerivedAccesslog(sc)
NeedsAccesslogVolume(sc) == sc.enabled /\ DerivedAccesslog(sc)

DeltaSyncEnabled(sd) ==
  sd.repl # FALSE /\ (sd.delta = Unset \/ sd.delta = TRUE)

\* The two gates of reconcilePodDatabase, for a read-write pod.
WantsSyncProv(sc) == sc.enabled /\ ~IsConsumerOnly(sc)
WantsAccesslog(sc, sd) == WantsSyncProv(sc) /\ DeltaSyncEnabled(sd)

----------------------------------------------------------------------------
\* The session log of the data database's syncprov overlay.

Kinds == {"None", "InMemory", "Accesslog"}

\* desiredSessionlog: an explicit Accesslog outranks a size of zero, a size of
\* zero outranks the default, and the default is Accesslog.
DesiredSessionlog(sd) ==
  IF sd.source = "Accesslog" THEN "Accesslog"
  ELSE IF sd.ops # Unset /\ sd.ops <= 0 THEN "None"
  ELSE IF sd.source = "InMemory" THEN "InMemory" ELSE "Accesslog"

\* A new overlay has the in-memory log stand in for the journal, which cannot
\* be attached to a running slapd.
OverlayCreationSessionlog(kind) == kind # "None"

\* The in-memory log goes when the journal is declared.
PlanSessionlog_AtOnce(mem, kind, sourceLive) == kind = "InMemory"

\* The in-memory log goes only once the journal serves, and comes back only
\* once the journal is detached: both of that happens at a pod start.
PlanSessionlog(mem, kind, sourceLive) ==
  IF kind = "Accesslog" THEN mem /\ ~sourceLive
  ELSE IF sourceLive THEN mem ELSE kind = "InMemory"

\* startupConfigFor: the databases whose overlay is to name its journal at the
\* next pod start.
StartupConfigFor(declared) ==
  {d \in DOMAIN declared : DesiredSessionlog(declared[d]) = "Accesslog"}

----------------------------------------------------------------------------
\* Tunables: what each resolves to.

DefaultMaxSize == 2
AccesslogMaxSize == 3
Baseline == {"objectClass", "entryCSN", "entryUUID"}
AccesslogIndices == {"entryCSN", "objectClass", "reqStart"}
AccesslogACL == <<"journal">>

\* Zero and negative sizes are refused, and an unset one is the operator's.
ParseMaxSize(v) == IF v > 0 THEN v ELSE Unset
DesiredDataMaxSize(sd) ==
  IF sd.maxSize = Unset THEN DefaultMaxSize ELSE ParseMaxSize(sd.maxSize)

DesiredNoSync(sc, sd) ==
  IF sd.noSync # Unset THEN sd.noSync
  ELSE IF sc.noSync # Unset THEN sc.noSync ELSE FALSE

\* An empty string means no checkpoint at all.
DesiredCheckpoint(sd) ==
  IF sd.checkpoint = Unset THEN "default" ELSE sd.checkpoint

\* validateDurability: no fsync and no checkpoint together are refused.
ValidateDurability(sc, sd) == DesiredNoSync(sc, sd) => DesiredCheckpoint(sd) # ""

\* resolveSearchLimit: an empty string leaves the attribute alone.
ResolveSearchLimit(v, live) ==
  IF v = Unset THEN "unlimited" ELSE IF v = "" THEN live ELSE v

\* The identities' exemption first, whatever the user declares after it.
ReplicationLimits == <<"node-local identity", "legacy identity">>
DesiredLimits(sc, sd) ==
  (IF sc.enabled /\ sd.repl # FALSE /\ ~IsConsumerOnly(sc)
   THEN ReplicationLimits ELSE <<>>) \o sd.limits

\* planIndices and planUserIndices: back-mdb refuses a second definition of an
\* attribute, so only the missing attributes are added, and none is removed.
PlanIndices(current, want) == want \ current

\* applyACLs runs only when the user declares rules; the replication rule is
\* prepended then.
DesiredACLs(sc, sd, live) ==
  IF sd.acls = <<>> THEN live
  ELSE IF NeedsAccesslog(sc) THEN <<"replication">> \o sd.acls ELSE sd.acls

\* What a database carries at its creation and for good: checkMaxSize and
\* checkEnvFlags report a difference, nothing writes it.
CheckMaxSize(e, sd) == e.maxSize = DesiredDataMaxSize(sd)
CheckEnvFlags(e, sd) == e.envFlags = sd.envFlags

\* The writes, each made where what it reads differs.
WithACLs(e, sc, sd) == [e EXCEPT !.acl = DesiredACLs(sc, sd, @)]
WithIndices(e, attrs) == [e EXCEPT !.index = @ \cup PlanIndices(@, attrs)]
WithSearchLimits(e, sd) == [e EXCEPT !.search = ResolveSearchLimit(sd.search, @)]
WithLimits(e, limits) == [e EXCEPT !.limits = limits]
WithBackendTunables(e, noSync, checkpoint) ==
  [e EXCEPT !.noSync = noSync, !.checkpoint = checkpoint]

\* convergeScaleTunables, after the baseline indices and where spec.maxSize
\* parses.
WithScaleTunables(e, sc, sd) ==
  WithBackendTunables(
    WithLimits(WithSearchLimits(e, sd), DesiredLimits(sc, sd)),
    DesiredNoSync(sc, sd), DesiredCheckpoint(sd))

----------------------------------------------------------------------------
\* The entries.

NoEntry ==
  [kind |-> "none", db |-> Unset, syncprov |-> FALSE, mem |-> FALSE,
   source |-> FALSE, accesslog |-> FALSE, readOnly |-> FALSE,
   acl |-> <<>>, index |-> {}, limits |-> <<>>, search |-> "500",
   noSync |-> FALSE, checkpoint |-> "", maxSize |-> 1, envFlags |-> {}]

MonitorEntry == [NoEntry EXCEPT !.kind = "monitor", !.acl = <<"monitor">>]
AuthEntry == [NoEntry EXCEPT !.kind = "auth", !.acl = <<"auth">>]

\* createDatabase.
DataEntry(sc, d, sd) ==
  [NoEntry EXCEPT !.kind = "data", !.db = d, !.index = Baseline,
     !.search = ResolveSearchLimit(sd.search, "500"),
     !.noSync = DesiredNoSync(sc, sd), !.checkpoint = DesiredCheckpoint(sd),
     !.maxSize = DesiredDataMaxSize(sd), !.envFlags = sd.envFlags,
     !.readOnly = IsConsumerOnly(sc)]

\* The add in ensureAccesslogDB.
LogEntry(sc, d, sd) ==
  [NoEntry EXCEPT !.kind = "log", !.db = d, !.index = AccesslogIndices,
     !.acl = AccesslogACL, !.limits = ReplicationLimits,
     !.noSync = DesiredNoSync(sc, sd), !.checkpoint = "journal",
     !.maxSize = AccesslogMaxSize]

\* The searches by objectClass and by olcSuffix: a position, or 0.
Find(config, kind, d) ==
  LET at == {i \in DOMAIN config : config[i].kind = kind /\ config[i].db = d}
  IN IF at = {} THEN 0 ELSE CHOOSE i \in at : \A j \in at : i <= j

FindMonitorDB(config) == Find(config, "monitor", Unset)
FindAuthDB(config) == Find(config, "auth", Unset)
FindDataDB(config, d) == Find(config, "data", d)
FindLogDB(config, d) == Find(config, "log", d)

\* A delete renumbers.
Delete(config, i) == SubSeq(config, 1, i - 1) \o SubSeq(config, i + 1, Len(config))

\* slapd cascades nothing: an entry with overlays is not deleted.
IsLeaf(e) == ~e.syncprov /\ ~e.accesslog

\* planSubtreeDeletion: the next of an entry's overlays to go, in their order.
WithoutNextOverlay(e) ==
  IF e.syncprov THEN [e EXCEPT !.syncprov = FALSE, !.mem = FALSE, !.source = FALSE]
  ELSE [e EXCEPT !.accesslog = FALSE]

\* What slapd checks when it starts on a configuration: every journal an
\* overlay names is a configured database.
Resolves(config) ==
  \A i \in DOMAIN config :
    config[i].accesslog \/ config[i].source => FindLogDB(config, config[i].db) # 0

\* startup_config.py at a pod start: the attribute is taken from every database
\* the table does not name, and set on one that it names, with the in-memory
\* log dropped in the same record; where the journal is not configured the
\* existing value is left alone.
ConvergeOffline(config, table) ==
  [i \in DOMAIN config |->
     LET e == config[i]
     IN IF e.kind # "data" \/ ~e.syncprov THEN e
        ELSE IF e.db \notin table THEN [e EXCEPT !.source = FALSE]
        ELSE IF FindLogDB(config, e.db) = 0 THEN e
        ELSE [e EXCEPT !.source = TRUE, !.mem = FALSE]]

=============================================================================
