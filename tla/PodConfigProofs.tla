-------------------------- MODULE PodConfigProofs --------------------------
(***************************************************************************)
(* The configuration of a pod, for every set of databases, every number of *)
(* events and every spec: the DN a pass holds is the DN of its own         *)
(* database, syncprov has one session log and keeps it, a teardown leaves  *)
(* nothing, and, where users take no journal away that is still named,     *)
(* slapd can start at any moment.                                          *)
(***************************************************************************)
EXTENDS PodConfig, SequenceTheorems, WellFoundedInduction, TLAPS

\* The entries of a configuration, without their positions, and whether one of
\* a kind and a database is among them.
Entries(cfg) == {cfg[i] : i \in DOMAIN cfg}
Has(cfg, kind, d) == \E e \in Entries(cfg) : e.kind = kind /\ e.db = d

\* What holds of an entry by itself: only the overlay of a data database has a
\* session log or a journal, and never two session logs.
Sound(e) ==
  /\ ~(e.mem /\ e.source)
  /\ e.mem \/ e.source => e.syncprov
  /\ e.mem \/ e.source \/ e.accesslog => e.kind = "data"
  /\ e.kind \in {"data", "log"} <=> e.db \in Databases

\* Every entry is sound and its directory was made before it; no two have one
\* suffix; and the journal an accesslog overlay names is configured.
GoodConfig(cfg, dirs) ==
  /\ cfg \in Seq(Entry) /\ OnePerSuffix(cfg)
  /\ \A e \in Entries(cfg) :
       /\ Sound(e)
       /\ e.kind \in {"data", "log"} => <<e.kind, e.db>> \in dirs
       /\ e.accesslog => Has(cfg, "log", e.db)

\* Whether the overlay of a database is there, and whether it names the journal.
Provides(cfg, d) == \E e \in Entries(cfg) : e.kind = "data" /\ e.db = d /\ e.syncprov
Sourced(cfg, d) == \E e \in Entries(cfg) : e.db = d /\ e.source

DataSteps ==
  {"attrs", "unjournal", "unlog", "unprovide", "provide", "logdirs", "logcreate",
   "logattrs", "journal", "readonly"}
BusySteps == DataSteps \cup {"dirs", "create"}

Journals(p) == WantsAccesslog(p.sc, p.sd)

\* What each step of a pass may rely on.
PassCoherent ==
  /\ pass.step \in BusySteps => pod = "up"
  /\ pass.step \in BusySteps \cup {"identity"} =>
       /\ pass.db \in Databases
       /\ pass.sd \in DatabaseSpecs /\ pass.sc \in ClusterSpecs
  /\ pass.step = "delete" => pass.db \in Databases /\ pass.sd = Unset
  /\ pass.step \in DataSteps =>
       /\ pass.dn \in DOMAIN config
       /\ config[pass.dn].kind = "data" /\ config[pass.dn].db = pass.db
  /\ pass.step \in {"dirs", "create"} => ~Has(config, "data", pass.db)
  /\ pass.step \in {"logdirs", "logcreate"} => ~Has(config, "log", pass.db)
  /\ pass.step = "journal" => Has(config, "log", pass.db)
  /\ pass.step \in {"unjournal", "unlog", "unprovide"} => ~Journals(pass)
  /\ pass.step \in {"logdirs", "logcreate", "logattrs", "journal"} => Journals(pass)
  /\ pass.step = "unprovide" => ~WantsSyncProv(pass.sc)
  /\ pass.step = "unlog" => ~config[pass.dn].accesslog
  /\ pass.step = "provide" /\ ~Journals(pass) => ~Has(config, "log", pass.db)

\* What a step of a pass or of a teardown does to a configuration: nothing to a
\* database of somebody else, and to its own database only what the step is for.
PassWrites ==
  LET d == pass.db
  IN /\ Foreign(config', d) = Foreign(config, d)
     /\ Sourced(config', d) => Sourced(config, d)
     /\ Provides(config', d) => Provides(config, d) \/ pass.step = "provide"
     /\ Has(config', "log", d) => Has(config, "log", d) \/ pass.step = "logcreate"
     /\ Has(config, "log", d) => Has(config', "log", d) \/ pass.step \in {"unlog", "delete"}
     /\ Logged(config, d) =>
          \/ Logged(config', d) \/ pass.step \in {"unprovide", "delete"}
          \/ pass.step = "provide" /\ DesiredSessionlog(pass.sd) = "None"

\* The inductive invariant of the configuration.
ConfigInv == TypeOK /\ GoodConfig(config, volume) /\ PassCoherent

----------------------------------------------------------------------------
\* Where users are careful.

Careful == "careless" \notin Environment

\* The journal a session log names is configured.
SourceJournaled == \A d \in Databases : Sourced(config, d) => Has(config, "log", d)

\* Why the journal of a database is not taken away under its session log: it is
\* wanted; or nothing names it and no restart will make the overlay name it; or
\* there was never an overlay and a journal together, and no pass knows better.
Kept(d) ==
  LET sd == crs[d].spec
  IN \/ WantsAccesslog(cluster, sd)
     \/ DesiredSessionlog(sd) # "Accesslog" /\ d \notin table /\ ~Sourced(config, d)
     \/ /\ ~Sourced(config, d) /\ ~(Provides(config, d) /\ Has(config, "log", d))
        /\ pass.step \in BusySteps /\ pass.db = d => pass.sd = sd /\ pass.sc = cluster

\* A pass that is to remove the journal works on an overlay that does not name
\* it, whatever has been declared since the pass began.
JournalMayGo == pass.step \in BusySteps /\ ~Journals(pass) => ~Sourced(config, pass.db)

\* The inductive invariant of careful users.
CarefulInv ==
  SourceJournaled /\ JournalMayGo /\ \A d \in Listed : Kept(d)

----------------------------------------------------------------------------
(***************************************************************************)
(* The searches and the four ways a configuration changes.                 *)
(***************************************************************************)

\* A nonempty set of positions has a least one.
LEMMA LeastPosition ==
  ASSUME NEW at \in SUBSET Nat, at # {}
  PROVE  \E i \in at : \A j \in at : i <= j
  <1> DEFINE below == {ss \in Nat \X Nat : ss[1] < ss[2]}
  <1>1. IsWellFoundedOn(below, Nat)
    BY NatLessThanWellFounded, Zenon DEF OpToRel
  <1>2. PICK i \in at : \A j \in at : <<j, i>> \notin below
    <2> HIDE DEF below
    <2> QED BY <1>1, WFMin, Zenon
  <1>3. \A j \in at : ~(j < i)
    BY <1>2
  <1> QED BY <1>3

\* A search answers 0 where there is no such entry, and otherwise the position
\* of one.
LEMMA FindFacts ==
  ASSUME NEW cfg \in Seq(Entry), NEW kind, NEW d
  PROVE  /\ Find(cfg, kind, d) \in Nat
         /\ Find(cfg, kind, d) = 0 <=> ~Has(cfg, kind, d)
         /\ Find(cfg, kind, d) # 0 =>
              LET i == Find(cfg, kind, d)
              IN i \in DOMAIN cfg /\ cfg[i].kind = kind /\ cfg[i].db = d
  <1> DEFINE at == {i \in DOMAIN cfg : cfg[i].kind = kind /\ cfg[i].db = d}
  <1>1. DOMAIN cfg = 1 .. Len(cfg) /\ Len(cfg) \in Nat
    OBVIOUS
  <1>2. at \in SUBSET Nat /\ 0 \notin at
    BY <1>1
  <1>3. at = {} <=> ~Has(cfg, kind, d)
    BY DEF Has, Entries
  <1>4. CASE at = {}
    <2>1. Find(cfg, kind, d) = 0
      BY <1>4 DEF Find
    <2> QED BY <2>1, <1>3, <1>4
  <1>5. CASE at # {}
    <2>1. PICK i \in at : \A j \in at : i <= j
      BY <1>2, <1>5, LeastPosition
    <2>2. (CHOOSE k \in at : \A j \in at : k <= j) \in at
      BY <2>1
    <2>3. Find(cfg, kind, d) \in at
      BY <2>2, <1>5 DEF Find
    <2>4. Find(cfg, kind, d) # 0 /\ Find(cfg, kind, d) \in Nat
      BY <2>3, <1>2
    <2> QED BY <2>3, <2>4, <1>3, <1>5
  <1> QED BY <1>4, <1>5

\* An entry that is appended is the last one, the others stay where they are, and
\* its suffix is still the only one if it was not there before.
LEMMA Appended ==
  ASSUME NEW cfg \in Seq(Entry), OnePerSuffix(cfg), NEW e \in Entry,
         ~Has(cfg, e.kind, e.db)
  PROVE  LET new == Append(cfg, e)
         IN /\ new \in Seq(Entry) /\ OnePerSuffix(new)
            /\ DOMAIN new = 1 .. Len(cfg) + 1
            /\ new[Len(cfg) + 1] = e
            /\ \A i \in DOMAIN cfg : i \in DOMAIN new /\ new[i] = cfg[i]
            /\ Entries(new) = Entries(cfg) \cup {e}
  <1> DEFINE new == Append(cfg, e)
  <1>1. /\ new \in Seq(Entry) /\ Len(cfg) \in Nat
        /\ DOMAIN cfg = 1 .. Len(cfg) /\ DOMAIN new = 1 .. Len(cfg) + 1
        /\ new[Len(cfg) + 1] = e
        /\ \A i \in 1 .. Len(cfg) : new[i] = cfg[i]
    OBVIOUS
  <1> HIDE DEF new
  <1>2. \A i \in DOMAIN new : i \in DOMAIN cfg \/ i = Len(cfg) + 1
    BY <1>1
  <1>3. \A i \in DOMAIN cfg : i \in DOMAIN new /\ new[i] = cfg[i]
    BY <1>1
  <1>4. Len(cfg) + 1 \in DOMAIN new
    BY <1>1
  <1>5. Entries(new) = Entries(cfg) \cup {e}
    BY <1>1, <1>2, <1>3, <1>4 DEF Entries
  <1>6. ASSUME NEW i \in DOMAIN new, NEW j \in DOMAIN new,
               new[i].kind = new[j].kind, new[i].db = new[j].db
        PROVE  i = j
    <2>1. CASE i \in DOMAIN cfg /\ j \in DOMAIN cfg
      BY <2>1, <1>3, <1>6 DEF OnePerSuffix
    <2>2. CASE i \in DOMAIN cfg /\ j = Len(cfg) + 1
      BY <2>2, <1>1, <1>3, <1>6 DEF Has, Entries
    <2>3. CASE j \in DOMAIN cfg /\ i = Len(cfg) + 1
      BY <2>3, <1>1, <1>3, <1>6 DEF Has, Entries
    <2> QED BY <2>1, <2>2, <2>3, <1>2
  <1> QED BY <1>1, <1>3, <1>5, <1>6 DEF new, OnePerSuffix

\* An entry that is written keeps its place, and the others are untouched.
LEMMA Written ==
  ASSUME NEW cfg \in Seq(Entry), OnePerSuffix(cfg), NEW i \in DOMAIN cfg,
         NEW e \in Entry, e.kind = cfg[i].kind, e.db = cfg[i].db
  PROVE  LET new == [cfg EXCEPT ![i] = e]
         IN /\ new \in Seq(Entry) /\ OnePerSuffix(new)
            /\ DOMAIN new = DOMAIN cfg
            /\ new[i] = e
            /\ \A j \in DOMAIN cfg : j # i => new[j] = cfg[j]
            /\ Entries(new) = (Entries(cfg) \ {cfg[i]}) \cup {e}
  <1> DEFINE new == [cfg EXCEPT ![i] = e]
  <1>1. /\ new \in Seq(Entry) /\ DOMAIN new = DOMAIN cfg /\ new[i] = e
        /\ \A j \in DOMAIN cfg : j # i => new[j] = cfg[j]
    OBVIOUS
  <1> HIDE DEF new
  <1>2. \A j \in DOMAIN cfg : new[j].kind = cfg[j].kind /\ new[j].db = cfg[j].db
    BY <1>1
  <1>3. OnePerSuffix(new)
    BY <1>1, <1>2 DEF OnePerSuffix
  <1>4. \A j \in DOMAIN cfg : j # i => cfg[j] # cfg[i]
    BY DEF OnePerSuffix
  <1>5. Entries(new) = (Entries(cfg) \ {cfg[i]}) \cup {e}
    BY <1>1, <1>4 DEF Entries
  <1> QED BY <1>1, <1>3, <1>5 DEF new

\* An entry that is deleted is gone and the later ones move down by one.
LEMMA Deleted ==
  ASSUME NEW cfg \in Seq(Entry), OnePerSuffix(cfg), NEW i \in DOMAIN cfg
  PROVE  LET new == Delete(cfg, i)
         IN /\ new \in Seq(Entry) /\ OnePerSuffix(new)
            /\ Entries(new) = Entries(cfg) \ {cfg[i]}
  <1> DEFINE new == Delete(cfg, i)
             From(j) == IF j < i THEN j ELSE j + 1
  <1>1. Len(cfg) \in Nat /\ DOMAIN cfg = 1 .. Len(cfg) /\ i \in 1 .. Len(cfg)
    OBVIOUS
  <1>2. /\ new \in Seq(Entry) /\ DOMAIN new = 1 .. Len(cfg) - 1
        /\ \A j \in 1 .. Len(cfg) - 1 : new[j] = cfg[From(j)]
    <2> DEFINE lo == SubSeq(cfg, 1, i - 1)
               hi == SubSeq(cfg, i + 1, Len(cfg))
    <2>1. /\ lo \in Seq(Entry) /\ Len(lo) = i - 1
          /\ \A j \in 1 .. i - 1 : lo[j] = cfg[j]
      BY <1>1
    <2>2. /\ hi \in Seq(Entry) /\ Len(hi) = Len(cfg) - i
          /\ \A j \in 1 .. Len(cfg) - i : hi[j] = cfg[i + j]
      BY <1>1
    <2>3. new = lo \o hi
      BY DEF Delete
    <2> HIDE DEF lo, hi, new
    <2>4. /\ lo \o hi \in Seq(Entry) /\ Len(lo \o hi) = Len(lo) + Len(hi)
          /\ \A j \in 1 .. Len(lo) + Len(hi) :
               (lo \o hi)[j] = IF j <= Len(lo) THEN lo[j] ELSE hi[j - Len(lo)]
      BY <2>1, <2>2, ConcatProperties
    <2>5. new \in Seq(Entry) /\ DOMAIN new = 1 .. Len(cfg) - 1
      <3>1. Len(new) = Len(cfg) - 1 /\ new \in Seq(Entry)
        BY <2>1, <2>2, <2>3, <2>4, <1>1
      <3> QED BY <3>1
    <2>6. ASSUME NEW j \in 1 .. Len(cfg) - 1
          PROVE  new[j] = cfg[From(j)]
      <3>1. CASE j < i
        BY <3>1, <2>1, <2>2, <2>3, <2>4, <1>1
      <3>2. CASE ~(j < i)
        <4>1. j - Len(lo) \in 1 .. Len(cfg) - i /\ i + (j - Len(lo)) = j + 1
          BY <3>2, <2>1, <1>1
        <4>2. new[j] = hi[j - Len(lo)]
          BY <3>2, <2>1, <2>2, <2>3, <2>4, <1>1
        <4> QED BY <4>1, <4>2, <2>2, <3>2
      <3> QED BY <3>1, <3>2
    <2> QED BY <2>5, <2>6
  <1> HIDE DEF new
  <1>3. \A j \in DOMAIN new : From(j) \in DOMAIN cfg /\ From(j) # i
    BY <1>1, <1>2
  <1>4. \A k \in DOMAIN cfg : k # i => \E j \in DOMAIN new : k = From(j)
    <2> TAKE k \in DOMAIN cfg
    <2> HAVE k # i
    <2>1. CASE k < i
      BY <2>1, <1>1, <1>2
    <2>2. CASE k > i
      <3>1. k - 1 \in DOMAIN new /\ k = From(k - 1)
        BY <2>2, <1>1, <1>2
      <3> QED BY <3>1
    <2> QED BY <2>1, <2>2, <1>1
  <1>5. \A j, k \in DOMAIN new : From(j) = From(k) => j = k
    BY <1>1, <1>2
  <1>6. \A j \in DOMAIN new : new[j] = cfg[From(j)]
    BY <1>2
  <1> HIDE DEF From
  <1>7. OnePerSuffix(new)
    BY <1>3, <1>5, <1>6 DEF OnePerSuffix
  <1>8. \A j \in DOMAIN cfg : j # i => cfg[j] # cfg[i]
    BY DEF OnePerSuffix
  <1>9. Entries(new) = Entries(cfg) \ {cfg[i]}
    BY <1>3, <1>4, <1>6, <1>8 DEF Entries
  <1> QED BY <1>2, <1>7, <1>9 DEF new

----------------------------------------------------------------------------
(***************************************************************************)
(* What is written to an entry.                                            *)
(***************************************************************************)

\* Two entries of one database with the same overlays.
SameOverlays(e, f) ==
  /\ f.kind = e.kind /\ f.db = e.db
  /\ f.syncprov = e.syncprov /\ f.mem = e.mem
  /\ f.source = e.source /\ f.accesslog = e.accesslog

\* An entry with the overlays of a sound one is sound.
LEMMA SameIsSound ==
  ASSUME NEW e, NEW f, Sound(e), SameOverlays(e, f)
  PROVE  Sound(f)
  BY DEF Sound, SameOverlays

\* What the tunables of a database resolve to.
LEMMA Resolved ==
  ASSUME NEW sc \in ClusterSpecs, NEW sd \in DatabaseSpecs
  PROVE  /\ DesiredNoSync(sc, sd) \in NoSyncs
         /\ DesiredCheckpoint(sd) \in Checkpoints
         /\ DesiredDataMaxSize(sd) \in MaxSizes
         /\ sd.envFlags \in EnvFlags
         /\ DesiredLimits(sc, sd) \in Limits
         /\ \A live \in Searches : ResolveSearchLimit(sd.search, live) \in Searches
         /\ \A live \in ACLs : DesiredACLs(sc, sd, live) \in ACLs
         /\ sd.indices \cup Baseline \subseteq Indices
  <1>1. <<sc, sd>> \in ClusterSpecs \X DatabaseSpecs
        /\ <<sc, sd>>[1] = sc /\ <<sc, sd>>[2] = sd
    OBVIOUS
  <1>2. DesiredNoSync(sc, sd) \in NoSyncs
    BY <1>1 DEF NoSyncs
  <1>3. DesiredLimits(sc, sd) \in Limits
    BY <1>1 DEF Limits
  <1>4. /\ DesiredCheckpoint(sd) \in Checkpoints
        /\ DesiredDataMaxSize(sd) \in MaxSizes /\ sd.envFlags \in EnvFlags
    BY DEF Checkpoints, MaxSizes, EnvFlags
  <1>5. \A live \in Searches : ResolveSearchLimit(sd.search, live) \in Searches
    BY DEF Searches, ResolveSearchLimit
  <1>6. \A live \in ACLs : DesiredACLs(sc, sd, live) \in ACLs
    BY DEF ACLs, DesiredACLs
  <1>7. sd.indices \cup Baseline \subseteq Indices
    BY DEF Indices
  <1> QED BY <1>2, <1>3, <1>4, <1>5, <1>6, <1>7

\* The operator's own values.
LEMMA OwnValues ==
  /\ <<>> \in ACLs /\ <<"monitor">> \in ACLs /\ <<"auth">> \in ACLs
  /\ AccesslogACL \in ACLs /\ AccesslogIndices \subseteq Indices
  /\ Baseline \subseteq Indices /\ <<>> \in Limits /\ ReplicationLimits \in Limits
  /\ "500" \in Searches /\ FALSE \in NoSyncs
  /\ "" \in Checkpoints /\ "journal" \in Checkpoints
  /\ 1 \in MaxSizes /\ AccesslogMaxSize \in MaxSizes /\ {} \in EnvFlags
  BY DEF ACLs, Indices, Limits, Searches, NoSyncs, Checkpoints, MaxSizes, EnvFlags

\* The ACLs, the indices and the tunables leave the overlays alone.
LEMMA TunedEntry ==
  ASSUME NEW e \in Entry, NEW sc \in ClusterSpecs, NEW sd \in DatabaseSpecs
  PROVE  LET written == WithIndices(WithACLs(e, sc, sd), sd.indices \cup Baseline)
             tuned == WithScaleTunables(written, sc, sd)
         IN /\ written \in Entry /\ SameOverlays(e, written)
            /\ tuned \in Entry /\ SameOverlays(e, tuned)
  <1> DEFINE ruled == WithACLs(e, sc, sd)
             written == WithIndices(ruled, sd.indices \cup Baseline)
             searched == WithSearchLimits(written, sd)
             limited == WithLimits(searched, DesiredLimits(sc, sd))
             tuned == WithBackendTunables(limited, DesiredNoSync(sc, sd),
                                          DesiredCheckpoint(sd))
  <1>1. ruled \in Entry /\ SameOverlays(e, ruled)
    BY Resolved DEF WithACLs, Entry, SameOverlays
  <1>2. written \in Entry /\ SameOverlays(e, written)
    <2> HIDE DEF ruled
    <2> QED BY <1>1, Resolved DEF WithIndices, PlanIndices, Entry, SameOverlays
  <1> HIDE DEF written
  <1>3. searched \in Entry /\ SameOverlays(e, searched)
    BY <1>2, Resolved DEF WithSearchLimits, Entry, SameOverlays
  <1> HIDE DEF searched
  <1>4. limited \in Entry /\ SameOverlays(e, limited)
    BY <1>3, Resolved DEF WithLimits, Entry, SameOverlays
  <1> HIDE DEF limited
  <1>5. tuned \in Entry /\ SameOverlays(e, tuned)
    BY <1>4, Resolved DEF WithBackendTunables, Entry, SameOverlays
  <1>6. tuned = WithScaleTunables(written, sc, sd)
    BY DEF WithScaleTunables, limited, searched
  <1> QED BY <1>2, <1>5, <1>6 DEF written

\* The entries that the operator adds are sound.
LEMMA AddedEntries ==
  ASSUME NEW sc \in ClusterSpecs, NEW sd \in DatabaseSpecs, NEW d \in Databases
  PROVE  /\ DataEntry(sc, d, sd) \in Entry /\ Sound(DataEntry(sc, d, sd))
         /\ DataEntry(sc, d, sd).kind = "data" /\ DataEntry(sc, d, sd).db = d
         /\ ~DataEntry(sc, d, sd).accesslog /\ ~DataEntry(sc, d, sd).syncprov
         /\ LogEntry(sc, d, sd) \in Entry /\ Sound(LogEntry(sc, d, sd))
         /\ LogEntry(sc, d, sd).kind = "log" /\ LogEntry(sc, d, sd).db = d
         /\ ~LogEntry(sc, d, sd).accesslog /\ ~LogEntry(sc, d, sd).source
  <1>1. /\ DataEntry(sc, d, sd).kind = "data" /\ DataEntry(sc, d, sd).db = d
        /\ DataEntry(sc, d, sd).accesslog = FALSE
        /\ DataEntry(sc, d, sd).syncprov = FALSE
        /\ DataEntry(sc, d, sd).mem = FALSE /\ DataEntry(sc, d, sd).source = FALSE
    BY DEF DataEntry, NoEntry
  <1>2. DataEntry(sc, d, sd) \in Entry
    <2>1. IsConsumerOnly(sc) \in BOOLEAN
      BY DEF IsConsumerOnly
    <2> QED BY <2>1, Resolved, OwnValues DEF DataEntry, NoEntry, Entry
  <1>3. /\ LogEntry(sc, d, sd).kind = "log" /\ LogEntry(sc, d, sd).db = d
        /\ LogEntry(sc, d, sd).accesslog = FALSE
        /\ LogEntry(sc, d, sd).mem = FALSE /\ LogEntry(sc, d, sd).source = FALSE
    BY DEF LogEntry, NoEntry
  <1>4. LogEntry(sc, d, sd) \in Entry
    BY Resolved, OwnValues DEF LogEntry, NoEntry, Entry
  <1> QED BY <1>1, <1>2, <1>3, <1>4, PodConfigConstants DEF Sound

\* The entries of the server itself, monitor and authentication database, are sound
\* and have neither an overlay nor a database of the user.
LEMMA ServerEntries ==
  /\ MonitorEntry \in Entry /\ Sound(MonitorEntry)
  /\ MonitorEntry.kind = "monitor" /\ MonitorEntry.db = Unset
  /\ ~MonitorEntry.accesslog /\ ~MonitorEntry.source
  /\ AuthEntry \in Entry /\ Sound(AuthEntry)
  /\ AuthEntry.kind = "auth" /\ AuthEntry.db = Unset /\ ~AuthEntry.accesslog
  /\ AuthEntry.acl = <<"auth">> /\ ~AuthEntry.source
  <1>1. MonitorEntry \in Entry /\ AuthEntry \in Entry
    BY OwnValues DEF MonitorEntry, AuthEntry, NoEntry, Entry
  <1>2. /\ MonitorEntry.kind = "monitor" /\ MonitorEntry.db = Unset
        /\ MonitorEntry.mem = FALSE /\ MonitorEntry.source = FALSE
        /\ MonitorEntry.accesslog = FALSE
        /\ AuthEntry.kind = "auth" /\ AuthEntry.db = Unset
        /\ AuthEntry.mem = FALSE /\ AuthEntry.source = FALSE
        /\ AuthEntry.accesslog = FALSE /\ AuthEntry.acl = <<"auth">>
    BY DEF MonitorEntry, AuthEntry, NoEntry
  <1> QED BY <1>1, <1>2, PodConfigConstants DEF Sound

\* The steps of a pass and of a teardown on one entry.
LEMMA OverlayEntries ==
  ASSUME NEW e \in Entry, Sound(e)
  PROVE  /\ \A new \in {[e EXCEPT !.accesslog = FALSE],
                         [e EXCEPT !.syncprov = FALSE, !.mem = FALSE, !.source = FALSE],
                         WithoutNextOverlay(e)} :
              /\ new \in Entry /\ Sound(new)
              /\ new.kind = e.kind /\ new.db = e.db
              /\ new.accesslog => e.accesslog
              /\ new.syncprov => e.syncprov
              /\ new.source => e.source
         /\ ~[e EXCEPT !.accesslog = FALSE].accesslog
         /\ [e EXCEPT !.accesslog = FALSE].mem = e.mem
         /\ [e EXCEPT !.accesslog = FALSE].source = e.source
  <1>1. LET new == [e EXCEPT !.accesslog = FALSE]
        IN /\ new \in Entry /\ Sound(new)
           /\ new.kind = e.kind /\ new.db = e.db /\ new.syncprov = e.syncprov
           /\ new.accesslog = FALSE /\ new.source = e.source /\ new.mem = e.mem
    BY DEF Entry, Sound
  <1>2. LET new == [e EXCEPT !.syncprov = FALSE, !.mem = FALSE, !.source = FALSE]
        IN /\ new \in Entry /\ Sound(new)
           /\ new.kind = e.kind /\ new.db = e.db
           /\ new.accesslog = e.accesslog /\ new.source = FALSE /\ new.syncprov = FALSE
    BY DEF Entry, Sound
  <1> QED BY <1>1, <1>2 DEF WithoutNextOverlay

\* ensureReadOnly leaves the overlays as they are.
LEMMA ReadOnlyEntry ==
  ASSUME NEW e \in Entry, NEW b \in BOOLEAN
  PROVE  LET new == [e EXCEPT !.readOnly = b]
         IN new \in Entry /\ SameOverlays(e, new)
  BY DEF Entry, SameOverlays

\* ensureAccesslogOverlay adds the journal to a data database and nothing else.
LEMMA JournalEntry ==
  ASSUME NEW e \in Entry, Sound(e), e.kind = "data"
  PROVE  LET new == [e EXCEPT !.accesslog = TRUE]
         IN /\ new \in Entry /\ Sound(new)
            /\ new.kind = "data" /\ new.db = e.db /\ new.syncprov = e.syncprov
            /\ new.source = e.source /\ new.mem = e.mem /\ new.accesslog = TRUE
  BY DEF Entry, Sound

\* The attributes and overlays written to a journal leave it a sound journal.
LEMMA JournalAttrs ==
  ASSUME NEW e \in Entry, Sound(e), e.kind = "log",
         NEW sc \in ClusterSpecs, NEW sd \in DatabaseSpecs
  PROVE  LET new == WithBackendTunables(
                      [WithIndices(e, AccesslogIndices) EXCEPT !.acl = AccesslogACL,
                         !.limits = ReplicationLimits,
                         !.accesslog = FALSE, !.syncprov = TRUE],
                      DesiredNoSync(sc, sd), "journal")
         IN /\ new \in Entry /\ Sound(new)
            /\ new.kind = "log" /\ new.db = e.db
            /\ ~new.source /\ ~new.accesslog
  <1> DEFINE indexed == WithIndices(e, AccesslogIndices)
             mid == [indexed EXCEPT !.acl = AccesslogACL, !.limits = ReplicationLimits,
                       !.accesslog = FALSE, !.syncprov = TRUE]
  <1>1. indexed \in Entry /\ SameOverlays(e, indexed)
    BY OwnValues DEF WithIndices, PlanIndices, Entry, SameOverlays
  <1> HIDE DEF indexed
  <1>2. /\ mid \in Entry /\ mid.kind = "log" /\ mid.db = e.db
        /\ mid.source = e.source /\ mid.mem = e.mem /\ mid.accesslog = FALSE
    BY <1>1, OwnValues DEF Entry, SameOverlays
  <1>3. e.source = FALSE /\ e.mem = FALSE
    BY DEF Sound, Entry
  <1> HIDE DEF mid
  <1>4. LET new == WithBackendTunables(mid, DesiredNoSync(sc, sd), "journal")
        IN /\ new \in Entry /\ new.kind = "log" /\ new.db = e.db
           /\ new.source = FALSE /\ new.mem = FALSE /\ new.accesslog = FALSE
    BY <1>2, <1>3, Resolved, OwnValues DEF WithBackendTunables, Entry
  <1>5. e.db \in Databases
    BY DEF Sound
  <1> QED BY <1>4, <1>5 DEF Sound, mid, indexed

\* The session log that a pass leaves: never a second one, and never none where
\* one is to be and there was one.
LEMMA SessionlogEntry ==
  ASSUME NEW e \in Entry, Sound(e), e.kind = "data", NEW kind \in Kinds
  PROVE  LET overlaid == IF e.syncprov THEN e
                         ELSE [e EXCEPT !.syncprov = TRUE,
                                 !.mem = OverlayCreationSessionlog(kind)]
             new == WithSessionlog(overlaid, kind)
         IN /\ new \in Entry /\ Sound(new)
            /\ new.kind = "data" /\ new.db = e.db /\ new.accesslog = e.accesslog
            /\ new.source = e.source
            /\ kind # "None" /\ (e.mem \/ e.source) => new.mem \/ new.source
  <1> DEFINE overlaid == IF e.syncprov THEN e
                         ELSE [e EXCEPT !.syncprov = TRUE,
                                 !.mem = OverlayCreationSessionlog(kind)]
             new == WithSessionlog(overlaid, kind)
  <1>1. /\ overlaid \in Entry /\ overlaid.kind = "data" /\ overlaid.db = e.db
        /\ overlaid.accesslog = e.accesslog /\ overlaid.source = e.source
        /\ overlaid.syncprov = TRUE
    BY DEF OverlayCreationSessionlog, Entry
  <1>2. /\ ~(overlaid.mem /\ overlaid.source)
        /\ kind # "None" /\ (e.mem \/ e.source) => overlaid.mem \/ overlaid.source
    BY DEF OverlayCreationSessionlog, Entry, Sound
  <1> HIDE DEF overlaid
  <1>3. PlanSessionlog(overlaid.mem, kind, overlaid.source) \in BOOLEAN
    BY <1>1 DEF PlanSessionlog, Entry
  <1>4. /\ new \in Entry /\ new.kind = "data" /\ new.db = e.db
        /\ new.accesslog = e.accesslog /\ new.source = e.source /\ new.syncprov = TRUE
        /\ new.mem = PlanSessionlog(overlaid.mem, kind, overlaid.source)
    BY <1>1, <1>3 DEF WithSessionlog, Entry
  <1> HIDE DEF new
  <1>5. ~(new.mem /\ new.source)
    BY <1>1, <1>2, <1>4 DEF PlanSessionlog, Kinds
  <1>6. kind # "None" /\ (e.mem \/ e.source) => new.mem \/ new.source
    BY <1>1, <1>2, <1>4 DEF PlanSessionlog, Kinds
  <1>7. new.db \in Databases
    BY <1>4 DEF Sound
  <1>8. Sound(new)
    BY <1>4, <1>5, <1>7 DEF Sound
  <1> QED BY <1>4, <1>6, <1>8 DEF new, overlaid

\* A spec wants one of the three session logs.
LEMMA SessionlogKinds ==
  ASSUME NEW sd
  PROVE  DesiredSessionlog(sd) \in Kinds
  BY DEF DesiredSessionlog, Kinds

----------------------------------------------------------------------------
(***************************************************************************)
(* What is written to a configuration.                                     *)
(***************************************************************************)

\* More directories do no harm.
LEMMA MoreDirs ==
  ASSUME NEW cfg, NEW dirs, NEW more, dirs \subseteq more, GoodConfig(cfg, dirs)
  PROVE  GoodConfig(cfg, more)
  BY DEF GoodConfig

\* Adding an entry whose suffix is new and whose directory was made keeps a
\* configuration good and moves nothing.
LEMMA GoodAppend ==
  ASSUME NEW cfg, NEW dirs, GoodConfig(cfg, dirs), NEW e \in Entry, Sound(e),
         ~Has(cfg, e.kind, e.db), ~e.accesslog,
         e.kind \in {"data", "log"} => <<e.kind, e.db>> \in dirs
  PROVE  LET new == Append(cfg, e)
         IN /\ GoodConfig(new, dirs)
            /\ Entries(new) = Entries(cfg) \cup {e}
            /\ \A k, d : Has(new, k, d) <=> Has(cfg, k, d) \/ (e.kind = k /\ e.db = d)
            /\ \A i \in DOMAIN cfg : i \in DOMAIN new /\ new[i] = cfg[i]
            /\ Len(cfg) + 1 \in DOMAIN new /\ new[Len(cfg) + 1] = e
  <1> DEFINE new == Append(cfg, e)
  <1>1. cfg \in Seq(Entry) /\ OnePerSuffix(cfg)
    BY DEF GoodConfig
  <1>2. /\ new \in Seq(Entry) /\ OnePerSuffix(new)
        /\ DOMAIN new = 1 .. Len(cfg) + 1 /\ new[Len(cfg) + 1] = e
        /\ \A i \in DOMAIN cfg : i \in DOMAIN new /\ new[i] = cfg[i]
        /\ Entries(new) = Entries(cfg) \cup {e}
    BY <1>1, Appended
  <1>3. Len(cfg) + 1 \in DOMAIN new
    BY <1>1, <1>2
  <1> HIDE DEF new
  <1>4. \A k, d : Has(new, k, d) <=> Has(cfg, k, d) \/ (e.kind = k /\ e.db = d)
    BY <1>2 DEF Has
  <1>5. GoodConfig(new, dirs)
    BY <1>2, <1>4 DEF GoodConfig
  <1> QED BY <1>2, <1>3, <1>4, <1>5 DEF new

\* The new configuration differs in one entry.
Replaces(cfg, i, e, new) == new = [cfg EXCEPT ![i] = e]

\* An entry may be written unless it names a journal that is not there.
LEMMA GoodWrite ==
  ASSUME NEW cfg, NEW dirs, NEW i, NEW e, NEW new,
         GoodConfig(cfg, dirs), i \in DOMAIN cfg,
         e \in Entry, Sound(e), e.kind = cfg[i].kind, e.db = cfg[i].db,
         e.accesslog => Has(cfg, "log", e.db),
         Replaces(cfg, i, e, new)
  PROVE  /\ GoodConfig(new, dirs)
         /\ Entries(new) = (Entries(cfg) \ {cfg[i]}) \cup {e}
         /\ \A k, d : Has(new, k, d) <=> Has(cfg, k, d)
         /\ DOMAIN new = DOMAIN cfg /\ new[i] = e
         /\ \A j \in DOMAIN cfg : j # i => new[j] = cfg[j]
  <1>1. cfg \in Seq(Entry) /\ OnePerSuffix(cfg) /\ cfg[i] \in Entries(cfg)
    BY DEF GoodConfig, Entries
  <1>2. /\ new \in Seq(Entry) /\ OnePerSuffix(new)
        /\ DOMAIN new = DOMAIN cfg /\ new[i] = e
        /\ \A j \in DOMAIN cfg : j # i => new[j] = cfg[j]
        /\ Entries(new) = (Entries(cfg) \ {cfg[i]}) \cup {e}
    BY <1>1, Written DEF Replaces
  <1>3. \A k, d : Has(new, k, d) <=> Has(cfg, k, d)
    BY <1>1, <1>2 DEF Has
  <1>4. GoodConfig(new, dirs)
    BY <1>1, <1>2, <1>3 DEF GoodConfig
  <1> QED BY <1>2, <1>3, <1>4

\* A database may go unless it is a journal that an overlay names.
LEMMA GoodDelete ==
  ASSUME NEW cfg, NEW dirs, GoodConfig(cfg, dirs), NEW i \in DOMAIN cfg,
         cfg[i].kind = "log" =>
           \A e \in Entries(cfg) : e.accesslog => e.db # cfg[i].db
  PROVE  LET new == Delete(cfg, i)
         IN /\ GoodConfig(new, dirs)
            /\ Entries(new) = Entries(cfg) \ {cfg[i]}
            /\ \A k, d : Has(new, k, d) <=>
                         Has(cfg, k, d) /\ ~(cfg[i].kind = k /\ cfg[i].db = d)
  <1> DEFINE new == Delete(cfg, i)
  <1>1. cfg \in Seq(Entry) /\ OnePerSuffix(cfg) /\ cfg[i] \in Entries(cfg)
    BY DEF GoodConfig, Entries
  <1>2. /\ new \in Seq(Entry) /\ OnePerSuffix(new)
        /\ Entries(new) = Entries(cfg) \ {cfg[i]}
    BY <1>1, Deleted
  <1> HIDE DEF new
  <1>3. \A e \in Entries(cfg) : e.kind = cfg[i].kind /\ e.db = cfg[i].db => e = cfg[i]
    BY <1>1 DEF OnePerSuffix, Entries
  <1>4. \A k, d : Has(new, k, d) <=>
                 Has(cfg, k, d) /\ ~(cfg[i].kind = k /\ cfg[i].db = d)
    BY <1>2, <1>3 DEF Has
  <1>5. \A e \in Entries(new) : e.accesslog => Has(new, "log", e.db)
    BY <1>2, <1>4 DEF GoodConfig
  <1>6. GoodConfig(new, dirs)
    BY <1>2, <1>5 DEF GoodConfig
  <1> QED BY <1>2, <1>4, <1>6 DEF new

\* The monitor database is added where there is none.
LEMMA GoodMonitor ==
  ASSUME NEW cfg, NEW dirs, GoodConfig(cfg, dirs)
  PROVE  LET new == WithMonitor(cfg)
         IN /\ GoodConfig(new, dirs)
            /\ Entries(new) = Entries(cfg)
               \/ Entries(new) = Entries(cfg) \cup {MonitorEntry}
            /\ \A k \in {"data", "log", "auth"} : \A d : Has(new, k, d) <=> Has(cfg, k, d)
            /\ \A i \in DOMAIN cfg : i \in DOMAIN new /\ new[i] = cfg[i]
  <1>1. cfg \in Seq(Entry)
    BY DEF GoodConfig
  <1>2. CASE FindMonitorDB(cfg) # 0
    BY <1>2 DEF WithMonitor
  <1>3. CASE FindMonitorDB(cfg) = 0
    <2>1. ~Has(cfg, MonitorEntry.kind, MonitorEntry.db)
      BY <1>1, <1>3, FindFacts, ServerEntries DEF FindMonitorDB
    <2>2. WithMonitor(cfg) = Append(cfg, MonitorEntry)
      BY <1>3 DEF WithMonitor
    <2>3. MonitorEntry.kind \notin {"data", "log", "auth"}
      BY ServerEntries
    <2>4. MonitorEntry \in Entry /\ Sound(MonitorEntry) /\ ~MonitorEntry.accesslog
      BY ServerEntries
    <2>5. MonitorEntry.kind \in {"data", "log"} =>
            <<MonitorEntry.kind, MonitorEntry.db>> \in dirs
      BY <2>3
    <2>6. LET new == Append(cfg, MonitorEntry)
          IN /\ GoodConfig(new, dirs)
             /\ Entries(new) = Entries(cfg) \cup {MonitorEntry}
             /\ \A k, d : Has(new, k, d) <=>
                          Has(cfg, k, d) \/ (MonitorEntry.kind = k /\ MonitorEntry.db = d)
             /\ \A j \in DOMAIN cfg : j \in DOMAIN new /\ new[j] = cfg[j]
      BY <2>1, <2>4, <2>5, GoodAppend
    <2> QED BY <2>2, <2>3, <2>6
  <1> QED BY <1>2, <1>3

\* ensureAuthDB: its database is added where there is none, or gets its ACL.
LEMMA GoodAuth ==
  ASSUME NEW cfg, NEW dirs, GoodConfig(cfg, dirs)
  PROVE  LET new == WithAuthDB(cfg)
         IN /\ GoodConfig(new, dirs)
            /\ \A e \in Entries(cfg) : e.kind # "auth" => e \in Entries(new)
            /\ \A e \in Entries(new) :
                 e \in Entries(cfg) \/ (e.kind = "auth" /\ e.db = Unset)
            /\ \A k \in {"data", "log"} : \A d : Has(new, k, d) <=> Has(cfg, k, d)
            /\ \A i \in DOMAIN cfg : i \in DOMAIN new
                 /\ (cfg[i].kind # "auth" => new[i] = cfg[i])
  <1> DEFINE i == FindAuthDB(cfg)
  <1>1. cfg \in Seq(Entry)
    BY DEF GoodConfig
  <1>2. CASE i # 0
    <2>1. i \in DOMAIN cfg /\ cfg[i].kind = "auth" /\ cfg[i].db = Unset
      BY <1>1, <1>2, FindFacts DEF FindAuthDB
    <2>2. cfg[i] \in Entry /\ cfg[i] \in Entries(cfg)
      BY <1>1, <2>1 DEF Entries
    <2> DEFINE e == [cfg[i] EXCEPT !.acl = AuthEntry.acl]
    <2>3. e \in Entry /\ SameOverlays(cfg[i], e)
      BY <2>2, OwnValues, ServerEntries DEF Entry, SameOverlays
    <2>4. WithAuthDB(cfg) = [cfg EXCEPT ![i] = e]
      BY <1>2 DEF WithAuthDB
    <2> HIDE DEF e, i
    <2>5. Sound(cfg[i]) /\ ~cfg[i].accesslog
      BY <2>1, <2>2 DEF GoodConfig, Sound
    <2>6. Sound(e) /\ e.kind = cfg[i].kind /\ e.db = cfg[i].db /\ ~e.accesslog
      BY <2>3, <2>5, SameIsSound DEF SameOverlays
    <2> DEFINE new == WithAuthDB(cfg)
    <2> HIDE DEF new
    <2>7. Replaces(cfg, i, e, new)
      BY <2>4 DEF new, Replaces
    <2>8. /\ GoodConfig(new, dirs)
          /\ Entries(new) = (Entries(cfg) \ {cfg[i]}) \cup {e}
          /\ \A k, d : Has(new, k, d) <=> Has(cfg, k, d)
          /\ DOMAIN new = DOMAIN cfg
          /\ \A j \in DOMAIN cfg : j # i => new[j] = cfg[j]
      BY <2>1, <2>3, <2>6, <2>7, GoodWrite
    <2> QED BY <2>1, <2>6, <2>8 DEF new
  <1>3. CASE i = 0 /\ <<"auth">> \in volume
    <2>1. ~Has(cfg, AuthEntry.kind, AuthEntry.db)
      BY <1>1, <1>3, FindFacts, ServerEntries DEF FindAuthDB
    <2>2. WithAuthDB(cfg) = Append(cfg, AuthEntry)
      BY <1>3 DEF WithAuthDB
    <2>3. AuthEntry.kind \notin {"data", "log"}
      BY ServerEntries
    <2>4. LET new == Append(cfg, AuthEntry)
          IN /\ GoodConfig(new, dirs)
             /\ Entries(new) = Entries(cfg) \cup {AuthEntry}
             /\ \A k, d : Has(new, k, d) <=>
                          Has(cfg, k, d) \/ (AuthEntry.kind = k /\ AuthEntry.db = d)
             /\ \A j \in DOMAIN cfg : j \in DOMAIN new /\ new[j] = cfg[j]
      <3>1. AuthEntry \in Entry /\ Sound(AuthEntry) /\ ~AuthEntry.accesslog
        BY ServerEntries
      <3>2. AuthEntry.kind \in {"data", "log"} =>
              <<AuthEntry.kind, AuthEntry.db>> \in dirs
        BY <2>3
      <3> QED BY <2>1, <3>1, <3>2, GoodAppend
    <2> QED BY <2>2, <2>3, <2>4, ServerEntries
  <1>4. CASE i = 0 /\ <<"auth">> \notin volume
    BY <1>4 DEF WithAuthDB
  <1> QED BY <1>2, <1>3, <1>4

\* The offline converger writes the session log of the data databases and
\* nothing else.
LEMMA Converged ==
  ASSUME NEW cfg, NEW dirs, GoodConfig(cfg, dirs), NEW t
  PROVE  LET new == ConvergeOffline(cfg, t)
         IN /\ GoodConfig(new, dirs)
            /\ DOMAIN new = DOMAIN cfg
            /\ \A i \in DOMAIN cfg :
                 /\ new[i].kind = cfg[i].kind /\ new[i].db = cfg[i].db
                 /\ new[i].syncprov = cfg[i].syncprov
                 /\ new[i].accesslog = cfg[i].accesslog
                 /\ new[i].source =>
                      \/ cfg[i].source /\ (cfg[i].syncprov => cfg[i].db \in t)
                      \/ cfg[i].syncprov /\ cfg[i].kind = "data" /\ cfg[i].db \in t
                         /\ Has(cfg, "log", cfg[i].db)
            /\ \A k, d : Has(new, k, d) <=> Has(cfg, k, d)
  <1> DEFINE new == ConvergeOffline(cfg, t)
  <1>1. cfg \in Seq(Entry) /\ OnePerSuffix(cfg)
    BY DEF GoodConfig
  <1>2. DOMAIN cfg = 1 .. Len(cfg) /\ Len(cfg) \in Nat /\ DOMAIN new = DOMAIN cfg
    BY <1>1 DEF ConvergeOffline
  <1>3. ASSUME NEW i \in DOMAIN cfg
        PROVE  /\ new[i] \in Entry /\ Sound(new[i])
               /\ new[i].kind = cfg[i].kind /\ new[i].db = cfg[i].db
               /\ new[i].syncprov = cfg[i].syncprov
               /\ new[i].accesslog = cfg[i].accesslog
               /\ new[i].source =>
                    \/ cfg[i].source /\ (cfg[i].syncprov => cfg[i].db \in t)
                    \/ cfg[i].syncprov /\ cfg[i].kind = "data" /\ cfg[i].db \in t
                       /\ Has(cfg, "log", cfg[i].db)
    <2> DEFINE e == cfg[i]
    <2>1. e \in Entry /\ Sound(e)
      <3>1. e \in Entry
        BY <1>1
      <3>2. e \in Entries(cfg)
        BY DEF Entries
      <3> QED BY <3>1, <3>2 DEF GoodConfig
    <2>2. new[i] = IF e.kind # "data" \/ ~e.syncprov THEN e
                   ELSE IF e.db \notin t THEN [e EXCEPT !.source = FALSE]
                   ELSE IF FindLogDB(cfg, e.db) = 0 THEN e
                   ELSE [e EXCEPT !.source = TRUE, !.mem = FALSE]
      BY DEF ConvergeOffline
    <2>3. FindLogDB(cfg, e.db) = 0 <=> ~Has(cfg, "log", e.db)
      BY <1>1, FindFacts DEF FindLogDB
    <2> HIDE DEF new, e
    <2>4. CASE e.kind # "data" \/ ~e.syncprov
      BY <2>1, <2>2, <2>4 DEF Sound, e
    <2>5. CASE e.kind = "data" /\ e.syncprov /\ e.db \notin t
      <3>1. new[i] = [e EXCEPT !.source = FALSE]
        BY <2>2, <2>5
      <3>2. /\ new[i] \in Entry /\ new[i].source = FALSE /\ new[i].mem = e.mem
            /\ new[i].kind = e.kind /\ new[i].db = e.db
            /\ new[i].syncprov = e.syncprov /\ new[i].accesslog = e.accesslog
        BY <2>1, <3>1 DEF Entry
      <3> QED BY <2>1, <2>5, <3>2 DEF Sound, e
    <2>6. CASE e.kind = "data" /\ e.syncprov /\ e.db \in t /\ FindLogDB(cfg, e.db) = 0
      BY <2>1, <2>2, <2>6 DEF e
    <2>7. CASE e.kind = "data" /\ e.syncprov /\ e.db \in t /\ FindLogDB(cfg, e.db) # 0
      <3>1. new[i] = [e EXCEPT !.source = TRUE, !.mem = FALSE]
        BY <2>2, <2>7
      <3>2. /\ new[i] \in Entry /\ new[i].source = TRUE /\ new[i].mem = FALSE
            /\ new[i].kind = e.kind /\ new[i].db = e.db
            /\ new[i].syncprov = e.syncprov /\ new[i].accesslog = e.accesslog
        BY <2>1, <3>1 DEF Entry
      <3> QED BY <2>1, <2>3, <2>7, <3>2 DEF Sound, e
    <2> QED BY <2>4, <2>5, <2>6, <2>7
  <1>4. new \in Seq(Entry)
    <2>1. new \in [1 .. Len(cfg) -> Entry]
      BY <1>2, <1>3 DEF ConvergeOffline
    <2> HIDE DEF new
    <2> QED BY <1>2, <2>1, SeqDef
  <1> HIDE DEF new
  <1>5. OnePerSuffix(new)
    BY <1>1, <1>2, <1>3 DEF OnePerSuffix
  <1>6. \A k, d : Has(new, k, d) <=> Has(cfg, k, d)
    BY <1>2, <1>3 DEF Has, Entries
  <1>7. \A e \in Entries(new) :
          /\ Sound(e)
          /\ e.kind \in {"data", "log"} => <<e.kind, e.db>> \in dirs
          /\ e.accesslog => Has(new, "log", e.db)
    <2> TAKE e \in Entries(new)
    <2>1. PICK i \in DOMAIN cfg : e = new[i]
      BY <1>2 DEF Entries
    <2>2. cfg[i] \in Entries(cfg)
      BY DEF Entries
    <2> QED BY <2>1, <2>2, <1>3, <1>6 DEF GoodConfig
  <1>8. GoodConfig(new, dirs)
    BY <1>4, <1>5, <1>7 DEF GoodConfig
  <1> QED BY <1>2, <1>3, <1>6, <1>8 DEF new

\* The entry at a position.
LEMMA EntryAt ==
  ASSUME NEW cfg, NEW dirs, GoodConfig(cfg, dirs), NEW i \in DOMAIN cfg
  PROVE  cfg[i] \in Entry /\ cfg[i] \in Entries(cfg) /\ Sound(cfg[i])
  <1>1. cfg[i] \in Entry
    BY DEF GoodConfig
  <1>2. cfg[i] \in Entries(cfg)
    BY DEF Entries
  <1> QED BY <1>1, <1>2 DEF GoodConfig

\* What the properties say of positions, said of entries.
LEMMA ByEntries ==
  ASSUME NEW cfg, NEW d
  PROVE  /\ Foreign(cfg, d) = {e \in Entries(cfg) : e.db # d /\ e.kind # "monitor"}
         /\ Logged(cfg, d) <=> \E e \in Entries(cfg) :
                                 e.kind = "data" /\ e.db = d /\ (e.mem \/ e.source)
  BY DEF Foreign, Logged, Entries

\* Two configurations with the same entries of everybody else.
LEMMA SameForeign ==
  ASSUME NEW old, NEW new, NEW d,
         \A e \in Entries(old) : e.db # d /\ e.kind # "monitor" => e \in Entries(new),
         \A e \in Entries(new) : e.db # d /\ e.kind # "monitor" => e \in Entries(old)
  PROVE  Foreign(new, d) = Foreign(old, d)
  <1>1. /\ Foreign(old, d) = {e \in Entries(old) : e.db # d /\ e.kind # "monitor"}
        /\ Foreign(new, d) = {e \in Entries(new) : e.db # d /\ e.kind # "monitor"}
    BY ByEntries
  <1> QED BY <1>1

----------------------------------------------------------------------------
(***************************************************************************)
(* The steps of a pass.                                                    *)
(***************************************************************************)

\* What a step of a pass may make of an entry of its own database.
Allowed(e, new) ==
  /\ new \in Entry /\ Sound(new) /\ new.kind = e.kind /\ new.db = e.db
  /\ new.source => e.source
  /\ new.kind = "data" /\ new.syncprov => e.syncprov \/ pass.step = "provide"
  /\ e.mem \/ e.source =>
       \/ new.mem \/ new.source \/ pass.step \in {"unprovide", "delete"}
       \/ pass.step = "provide" /\ DesiredSessionlog(pass.sd) = "None"

\* A step that leaves the configuration alone.
LEMMA WritesNothing ==
  ASSUME config' = config
  PROVE  PassWrites
  BY DEF PassWrites

\* A write to one entry of the database of the pass.
LEMMA WriteAt ==
  ASSUME GoodConfig(config, volume), NEW i \in DOMAIN config, NEW entry,
         Allowed(config[i], entry), config[i].db = pass.db,
         config[i].kind \in {"data", "log"},
         entry.accesslog => Has(config, "log", pass.db),
         Replaces(config, i, entry, config')
  PROVE  /\ GoodConfig(config', volume)
         /\ DOMAIN config' = DOMAIN config /\ config'[i] = entry
         /\ \A j \in DOMAIN config : j # i => config'[j] = config[j]
         /\ \A k, d : Has(config', k, d) <=> Has(config, k, d)
         /\ PassWrites
  <1>1. /\ entry \in Entry /\ Sound(entry)
        /\ entry.kind = config[i].kind /\ entry.db = config[i].db
        /\ entry.accesslog => Has(config, "log", entry.db)
    BY DEF Allowed
  <1>2. config[i] \in Entries(config)
    BY DEF Entries
  <1>3. /\ GoodConfig(config', volume)
        /\ Entries(config') = (Entries(config) \ {config[i]}) \cup {entry}
        /\ \A k, d : Has(config', k, d) <=> Has(config, k, d)
        /\ DOMAIN config' = DOMAIN config /\ config'[i] = entry
        /\ \A j \in DOMAIN config : j # i => config'[j] = config[j]
    BY <1>1, GoodWrite
  <1>5. /\ \A e \in Entries(config') : e = entry \/ e \in Entries(config)
        /\ \A e \in Entries(config) : e = config[i] \/ e \in Entries(config')
        /\ entry \in Entries(config')
    BY <1>3
  <1>6. Foreign(config', pass.db) = Foreign(config, pass.db)
    <2>1. /\ \A e \in Entries(config) :
               e.db # pass.db /\ e.kind # "monitor" => e \in Entries(config')
          /\ \A e \in Entries(config') :
               e.db # pass.db /\ e.kind # "monitor" => e \in Entries(config)
      BY <1>1, <1>5
    <2> QED BY <2>1, SameForeign, Zenon
  <1>7. /\ Sourced(config', pass.db) => Sourced(config, pass.db)
        /\ Provides(config', pass.db) => Provides(config, pass.db) \/ pass.step = "provide"
    BY <1>2, <1>5 DEF Allowed, Sourced, Provides
  <1>8. Logged(config, pass.db) =>
          \/ Logged(config', pass.db) \/ pass.step \in {"unprovide", "delete"}
          \/ pass.step = "provide" /\ DesiredSessionlog(pass.sd) = "None"
    BY <1>5, ByEntries DEF Allowed
  <1>9. PassWrites
    <2>1. Has(config', "log", pass.db) <=> Has(config, "log", pass.db)
      BY <1>3
    <2> QED BY <2>1, <1>6, <1>7, <1>8, Zenon DEF PassWrites
  <1> QED BY <1>3, <1>9

\* What most steps of a pass leave alone keeps its type.
LEMMA TypeAfter ==
  ASSUME TypeOK, GoodConfig(config', volume'), pass' \in Passes,
         UNCHANGED <<others, server, auth, schema, volume, job, status>>
  PROVE  TypeOK'
  BY DEF TypeOK, others, declared, published, GoodConfig

\* A pass that goes on with its next step holds on to what it knows.
LEMMA Moved ==
  ASSUME pass \in Passes, NEW step \in PassSteps, Goto(step)
  PROVE  /\ pass' \in Passes /\ pass'.step = step
         /\ pass'.db = pass.db /\ pass'.sd = pass.sd /\ pass'.sc = pass.sc
         /\ pass'.dn = pass.dn /\ (Journals(pass)' <=> Journals(pass))
  BY DEF Goto, Passes, Journals

\* A pass that has failed on the pod writes nothing to it any more.
LEMMA Failed ==
  ASSUME ConfigInv, pass.step \in BusySteps, PodFails
  PROVE  /\ pass' \in Passes /\ PassCoherent' /\ pass'.step = "identity"
         /\ pass'.db = pass.db
  <1>1. /\ pass \in Passes /\ pass.db \in Databases
        /\ pass.sd \in DatabaseSpecs /\ pass.sc \in ClusterSpecs
    BY DEF ConfigInv, TypeOK, PassCoherent
  <1>2. "identity" \in PassSteps /\ Goto("identity")
    BY DEF PodFails, PassSteps
  <1>3. /\ pass' \in Passes /\ pass'.step = "identity"
        /\ pass'.db = pass.db /\ pass'.sd = pass.sd /\ pass'.sc = pass.sc
    BY <1>1, <1>2, Moved
  <1> QED BY <1>1, <1>3 DEF PassCoherent, DataSteps, BusySteps

\* Where no pass runs there is nothing to rely on.
LEMMA NoPassCoherent ==
  /\ NoPass \in Passes /\ NoPass.step = "idle"
  /\ pass' = NoPass => PassCoherent'
  <1>1. NoPass \in Passes /\ NoPass.step = "idle"
    BY DEF NoPass, Passes, PassSteps
  <1> QED BY <1>1 DEF PassCoherent, DataSteps, BusySteps

\* The entry a pass works on.
LEMMA OwnEntry ==
  ASSUME ConfigInv, pass.step \in DataSteps
  PROVE  /\ pod = "up" /\ pass.db \in Databases
         /\ pass.sd \in DatabaseSpecs /\ pass.sc \in ClusterSpecs
         /\ pass.dn \in DOMAIN config
         /\ config[pass.dn] \in Entry /\ config[pass.dn] \in Entries(config)
         /\ Sound(config[pass.dn])
         /\ config[pass.dn].kind = "data" /\ config[pass.dn].db = pass.db
         /\ config[pass.dn].accesslog => Has(config, "log", pass.db)
  <1>1. /\ pod = "up" /\ pass.db \in Databases
        /\ pass.sd \in DatabaseSpecs /\ pass.sc \in ClusterSpecs
        /\ pass.dn \in DOMAIN config
        /\ config[pass.dn].kind = "data" /\ config[pass.dn].db = pass.db
    BY DEF ConfigInv, PassCoherent, BusySteps
  <1>2. config[pass.dn] \in Entries(config)
    BY <1>1 DEF Entries
  <1>3. config[pass.dn] \in Entry
    BY <1>1 DEF ConfigInv, TypeOK
  <1> QED BY <1>1, <1>2, <1>3 DEF ConfigInv, GoodConfig

\* The start of a pass reads the specs and looks its database up.
LEMMA BeginKeeps ==
  ASSUME ConfigInv, NEW d \in Databases, Begin(d)
  PROVE  ConfigInv'
  <1> DEFINE dn == FindDataDB(config, d)
  <1>1. /\ TypeOK /\ GoodConfig(config, volume) /\ config \in Seq(Entry)
        /\ crs[d].spec \in DatabaseSpecs /\ cluster \in ClusterSpecs
        /\ config' = config /\ volume' = volume /\ pod' = "up"
    BY DEF ConfigInv, TypeOK, Begin, onPod, others
  <1>2. /\ dn \in Nat
        /\ dn = 0 <=> ~Has(config, "data", d)
        /\ dn # 0 => dn \in DOMAIN config
                      /\ config[dn].kind = "data" /\ config[dn].db = d
    BY <1>1, FindFacts DEF FindDataDB
  <1> HIDE DEF dn
  <1>3. pass' = [NoPass EXCEPT !.step = IF dn = 0 THEN "dirs" ELSE "attrs", !.db = d,
                   !.sd = crs[d].spec, !.sc = cluster, !.dn = dn]
    BY DEF Begin, dn
  <1>4. /\ pass' \in Passes /\ pass'.step = (IF dn = 0 THEN "dirs" ELSE "attrs")
        /\ pass'.db = d /\ pass'.sd = crs[d].spec /\ pass'.sc = cluster
        /\ pass'.dn = dn
    <2> DEFINE step == IF dn = 0 THEN "dirs" ELSE "attrs"
    <2>1. step \in PassSteps
      BY DEF PassSteps
    <2>2. pass' = [NoPass EXCEPT !.step = step, !.db = d, !.sd = crs[d].spec,
                                 !.sc = cluster, !.dn = dn]
      BY <1>3
    <2>3. dn \in Nat
      BY <1>2
    <2>4. NoPass \in Passes
      BY NoPassCoherent
    <2> HIDE DEF step
    <2>5. /\ pass' \in Passes /\ pass'.step = step
          /\ pass'.db = d /\ pass'.sd = crs[d].spec /\ pass'.sc = cluster
          /\ pass'.dn = dn
      BY <1>1, <2>1, <2>2, <2>3, <2>4 DEF Passes
    <2> QED BY <2>5 DEF step
  <1>5. TypeOK'
    BY <1>1, <1>4, TypeAfter DEF Begin, onPod
  <1>6. PassCoherent'
    BY <1>1, <1>2, <1>4 DEF PassCoherent, DataSteps, BusySteps
  <1> QED BY <1>1, <1>5, <1>6 DEF ConfigInv

\* The directories of a data database are made before it.
LEMMA EnsureDirsKeeps ==
  ASSUME ConfigInv,
         NEW step, NEW next, <<step, next>> \in {<<"dirs", "create">>, <<"logdirs", "logcreate">>},
         EnsureDirs(step, next)
  PROVE  ConfigInv' /\ PassWrites
  <1>1. /\ TypeOK /\ GoodConfig(config, volume) /\ pass \in Passes /\ pass.step = step
        /\ config' = config /\ volume' = volume /\ pod' = pod
        /\ \/ step = "dirs" /\ next = "create"
           \/ step = "logdirs" /\ next = "logcreate"
    BY DEF ConfigInv, TypeOK, EnsureDirs, onPod, others
  <1>2. job' \in [paths : SUBSET Dirs, state : {"none", "running", "succeeded", "failed"}]
    <2> DEFINE Jobs == [paths : SUBSET Dirs,
                        state : {"none", "running", "succeeded", "failed"}]
               mine == Current(DirPaths(pass.sc))
    <2>1. NoJob \in Jobs /\ job \in Jobs
      BY <1>1 DEF NoJob, TypeOK
    <2>2. mine \in Jobs
      BY <2>1 DEF Current
    <2>3. DirPaths(pass.sc) \in SUBSET Dirs
      BY DEF DirPaths, Dirs, Listed
    <2>4. [paths |-> DirPaths(pass.sc), state |-> "running"] \in Jobs
      BY <2>3
    <2>5. \/ job' = job \/ job' = NoJob \/ job' = mine
          \/ job' = [paths |-> DirPaths(pass.sc), state |-> "running"]
      <3> HIDE DEF Jobs
      <3>1. mine.state \in {"none", "running", "succeeded", "failed"}
        BY <2>2 DEF Jobs
      <3> QED BY <3>1 DEF EnsureDirs
    <2> QED BY <2>1, <2>2, <2>4, <2>5
  <1>3. PassWrites
    BY <1>1, WritesNothing
  <1>4. CASE PodFails
    <2>1. pass' \in Passes /\ PassCoherent'
      BY <1>1, <1>4, Failed DEF DataSteps, BusySteps
    <2>2. TypeOK'
      BY <1>1, <1>2, <2>1 DEF EnsureDirs, TypeOK, others, declared, published, onPod
    <2> QED BY <1>1, <1>3, <2>1, <2>2 DEF ConfigInv
  <1>5. CASE ~PodFails
    <2>1. pass' = [pass EXCEPT !.step = next]
          \/ pass' = [pass EXCEPT !.step = next, !.made = TRUE]
      BY <1>5 DEF EnsureDirs, Goto
    <2>2. /\ pass' \in Passes /\ pass'.step = next
          /\ pass'.db = pass.db /\ pass'.sd = pass.sd /\ pass'.sc = pass.sc
          /\ pass'.dn = pass.dn
      BY <1>1, <2>1 DEF Passes, PassSteps
    <2>3. PassCoherent'
      <3>1. CASE step = "dirs" /\ next = "create"
        BY <3>1, <1>1, <2>2 DEF ConfigInv, PassCoherent, DataSteps, BusySteps
      <3>2. CASE step = "logdirs" /\ next = "logcreate"
        BY <3>2, <1>1, <2>2 DEF ConfigInv, PassCoherent, DataSteps, BusySteps, Journals
      <3> QED BY <1>1, <3>1, <3>2
    <2>4. TypeOK'
      BY <1>1, <1>2, <2>2 DEF EnsureDirs, TypeOK, others, declared, published, onPod
    <2> QED BY <1>1, <1>3, <2>3, <2>4 DEF ConfigInv
  <1> QED BY <1>4, <1>5

\* An add either makes the database or leaves at most the monitor behind.
LEMMA AddDoes ==
  ASSUME ConfigInv, NEW entry \in Entry, NEW next, Sound(entry), ~entry.accesslog,
         entry.kind = "data" => ~entry.syncprov, entry.kind = "log" => pass.step = "logcreate",
         entry.kind \in {"data", "log"}, entry.db = pass.db,
         ~Has(config, entry.kind, entry.db),
         AddDatabase(entry, <<entry.kind, entry.db>>, next)
  PROVE  LET cfg == WithMonitor(config)
         IN /\ GoodConfig(config', volume) /\ PassWrites
            /\ \/ config' = cfg /\ PodFails
               \/ /\ config' = Append(cfg, entry)
                  /\ pass' = [pass EXCEPT !.step = next,
                                !.dn = IF entry.kind = "data" THEN Len(cfg) + 1 ELSE @]
                  /\ Len(cfg) + 1 \in DOMAIN config' /\ config'[Len(cfg) + 1] = entry
                  /\ Len(cfg) \in Nat
                  /\ \A i \in DOMAIN config : i \in DOMAIN config' /\ config'[i] = config[i]
                  /\ \A k \in {"data", "log"} : \A d :
                       Has(config', k, d) <=>
                         Has(config, k, d) \/ (entry.kind = k /\ entry.db = d)
  <1> DEFINE cfg == WithMonitor(config)
  <1>1. GoodConfig(config, volume)
    BY DEF ConfigInv
  <1>2. /\ GoodConfig(cfg, volume)
        /\ \A k \in {"data", "log", "auth"} : \A d : Has(cfg, k, d) <=> Has(config, k, d)
        /\ \A i \in DOMAIN config : i \in DOMAIN cfg /\ cfg[i] = config[i]
    BY <1>1, GoodMonitor
  <1>3. ~Has(cfg, entry.kind, entry.db)
    BY <1>2
  <1>4. Len(cfg) \in Nat
    BY <1>2 DEF GoodConfig
  <1>5. \/ config' = cfg /\ PodFails
        \/ /\ <<entry.kind, entry.db>> \in volume /\ config' = Append(cfg, entry)
           /\ pass' = [pass EXCEPT !.step = next,
                         !.dn = IF entry.kind = "data" THEN Len(cfg) + 1 ELSE @]
    BY DEF AddDatabase
  <1> HIDE DEF cfg
  <1>6. /\ \A e \in Entries(cfg) : e \in Entries(config) \/ e.kind = "monitor"
        /\ \A e \in Entries(config) : e \in Entries(cfg)
    BY <1>1, GoodMonitor, ServerEntries DEF cfg
  <1>7. /\ entry.source = FALSE /\ (entry.syncprov => entry.kind # "data")
    BY DEF Sound, Entry
  <1>8. ASSUME /\ \A e \in Entries(config') : e \in Entries(cfg) \/ e = entry
               /\ \A e \in Entries(cfg) : e \in Entries(config')
               /\ \A d : Has(config', "log", d) =>
                           Has(config, "log", d) \/ (entry.kind = "log" /\ entry.db = d)
               /\ \A d : Has(config, "log", d) => Has(config', "log", d)
               /\ GoodConfig(config', volume)
        PROVE  PassWrites
    <2>1. Foreign(config', pass.db) = Foreign(config, pass.db)
      BY <1>6, <1>8, SameForeign
    <2>2. \A e \in Entries(config') : e.source => e \in Entries(config)
      <3> SUFFICES ASSUME NEW e \in Entries(config'), e.source
                   PROVE  e \in Entries(config)
        OBVIOUS
      <3>1. Sound(e)
        BY <1>8 DEF GoodConfig
      <3>2. e.kind = "data"
        BY <3>1 DEF Sound
      <3> QED BY <1>6, <1>7, <1>8, <3>2
    <2>3. Sourced(config', pass.db) => Sourced(config, pass.db)
      BY <2>2 DEF Sourced
    <2>4. Provides(config', pass.db) => Provides(config, pass.db)
      BY <1>6, <1>7, <1>8 DEF Provides
    <2>5. Logged(config, pass.db) => Logged(config', pass.db)
      BY <1>6, <1>8, ByEntries
    <2> QED BY <1>8, <2>1, <2>3, <2>4, <2>5 DEF PassWrites
  <1>9. CASE config' = cfg /\ PodFails
    BY <1>2, <1>8, <1>9 DEF cfg
  <1>10. CASE /\ <<entry.kind, entry.db>> \in volume /\ config' = Append(cfg, entry)
              /\ pass' = [pass EXCEPT !.step = next,
                            !.dn = IF entry.kind = "data" THEN Len(cfg) + 1 ELSE @]
    <2>1. LET new == Append(cfg, entry)
          IN /\ GoodConfig(new, volume)
             /\ Entries(new) = Entries(cfg) \cup {entry}
             /\ \A k, d : Has(new, k, d) <=>
                          Has(cfg, k, d) \/ (entry.kind = k /\ entry.db = d)
             /\ \A i \in DOMAIN cfg : i \in DOMAIN new /\ new[i] = cfg[i]
             /\ Len(cfg) + 1 \in DOMAIN new /\ new[Len(cfg) + 1] = entry
      BY <1>2, <1>3, <1>10, GoodAppend
    <2>2. /\ \A i \in DOMAIN config : i \in DOMAIN config' /\ config'[i] = config[i]
          /\ \A k \in {"data", "log"} : \A d :
               Has(config', k, d) <=>
                 Has(config, k, d) \/ (entry.kind = k /\ entry.db = d)
      BY <1>2, <1>10, <2>1
    <2>3. PassWrites
      BY <1>8, <1>10, <2>1, <2>2
    <2> QED BY <1>4, <1>10, <2>1, <2>2, <2>3 DEF cfg
  <1> QED BY <1>5, <1>9, <1>10

\* A database that was searched for in vain is added, and its DN is the last one.
LEMMA CreateDatabaseKeeps ==
  ASSUME ConfigInv, CreateDatabase
  PROVE  ConfigInv' /\ PassWrites
  <1> DEFINE entry == DataEntry(pass.sc, pass.db, pass.sd)
             cfg == WithMonitor(config)
  <1>1. /\ TypeOK /\ pass \in Passes /\ pass.step = "create"
        /\ pass.db \in Databases /\ pass.sd \in DatabaseSpecs /\ pass.sc \in ClusterSpecs
        /\ volume' = volume /\ pod' = pod /\ pod = "up"
        /\ ~Has(config, "data", pass.db)
    BY DEF ConfigInv, TypeOK, CreateDatabase, others, PassCoherent, BusySteps
  <1>2. /\ entry \in Entry /\ Sound(entry) /\ ~entry.accesslog
        /\ ~entry.syncprov /\ entry.kind = "data" /\ entry.db = pass.db
    BY <1>1, AddedEntries
  <1>3. AddDatabase(entry, <<entry.kind, entry.db>>, "attrs")
    BY <1>2 DEF CreateDatabase
  <1> HIDE DEF entry
  <1>4. /\ GoodConfig(config', volume) /\ PassWrites
        /\ \/ PodFails
           \/ /\ pass' = [pass EXCEPT !.step = "attrs", !.dn = Len(cfg) + 1]
              /\ Len(cfg) + 1 \in DOMAIN config' /\ config'[Len(cfg) + 1] = entry
              /\ Len(cfg) \in Nat
    BY <1>1, <1>2, <1>3, AddDoes
  <1> HIDE DEF cfg
  <1>5. pass' \in Passes /\ PassCoherent'
    <2>1. CASE PodFails
      BY <1>1, <2>1, Failed DEF DataSteps, BusySteps
    <2>2. CASE ~PodFails
      <3>1. /\ pass' \in Passes /\ pass'.step = "attrs" /\ pass'.db = pass.db
            /\ pass'.sd = pass.sd /\ pass'.sc = pass.sc /\ pass'.dn = Len(cfg) + 1
        <4>1. pass' = [pass EXCEPT !.step = "attrs", !.dn = Len(cfg) + 1]
              /\ Len(cfg) + 1 \in Nat
          BY <1>4, <2>2
        <4> QED BY <1>1, <4>1 DEF Passes, PassSteps
      <3> QED BY <1>1, <1>2, <1>4, <2>2, <3>1 DEF PassCoherent, DataSteps, BusySteps
    <2> QED BY <2>1, <2>2
  <1>6. TypeOK'
    BY <1>1, <1>4, <1>5, TypeAfter DEF CreateDatabase
  <1> QED BY <1>1, <1>4, <1>5, <1>6 DEF ConfigInv

\* A journal that was searched for in vain is added behind the DN the pass holds.
LEMMA CreateAccesslogKeeps ==
  ASSUME ConfigInv, CreateAccesslogDB
  PROVE  ConfigInv' /\ PassWrites
  <1> DEFINE entry == LogEntry(pass.sc, pass.db, pass.sd)
             cfg == WithMonitor(config)
  <1>1. /\ TypeOK /\ pass \in Passes /\ pass.step = "logcreate"
        /\ pass.step \in DataSteps
        /\ volume' = volume /\ pod' = pod
        /\ ~Has(config, "log", pass.db) /\ Journals(pass)
    BY DEF ConfigInv, TypeOK, CreateAccesslogDB, others, PassCoherent, DataSteps
  <1>2. /\ pod = "up" /\ pass.db \in Databases
        /\ pass.sd \in DatabaseSpecs /\ pass.sc \in ClusterSpecs
        /\ pass.dn \in DOMAIN config
        /\ config[pass.dn].kind = "data" /\ config[pass.dn].db = pass.db
    BY <1>1, OwnEntry
  <1>3. /\ entry \in Entry /\ Sound(entry) /\ ~entry.accesslog
        /\ entry.kind = "log" /\ entry.db = pass.db
    BY <1>2, AddedEntries
  <1>4. AddDatabase(entry, <<entry.kind, entry.db>>, "logattrs")
    BY <1>3 DEF CreateAccesslogDB
  <1> HIDE DEF entry
  <1>5. /\ GoodConfig(config', volume) /\ PassWrites
        /\ \/ PodFails
           \/ /\ pass' = [pass EXCEPT !.step = "logattrs", !.dn = pass.dn]
              /\ \A i \in DOMAIN config : i \in DOMAIN config' /\ config'[i] = config[i]
    BY <1>1, <1>3, <1>4, AddDoes
  <1> HIDE DEF cfg
  <1>6. pass' \in Passes /\ PassCoherent'
    <2>1. CASE PodFails
      BY <1>1, <2>1, Failed DEF DataSteps, BusySteps
    <2>2. CASE ~PodFails
      <3>1. /\ pass' \in Passes /\ pass'.step = "logattrs" /\ pass'.db = pass.db
            /\ pass'.sd = pass.sd /\ pass'.sc = pass.sc /\ pass'.dn = pass.dn
        BY <1>1, <1>5, <2>2 DEF Passes, PassSteps
      <3> QED BY <1>1, <1>2, <1>5, <2>2, <3>1
              DEF PassCoherent, DataSteps, BusySteps, Journals
    <2> QED BY <2>1, <2>2
  <1>7. TypeOK'
    BY <1>1, <1>5, <1>6, TypeAfter DEF CreateAccesslogDB
  <1> QED BY <1>1, <1>5, <1>6, <1>7 DEF ConfigInv

\* A write through the DN of a pass goes to the data database of the pass.
LEMMA OwnWrite ==
  ASSUME ConfigInv, pass.step \in DataSteps, NEW entry,
         Allowed(config[pass.dn], entry),
         entry.accesslog => Has(config, "log", pass.db),
         Replaces(config, pass.dn, entry, config')
  PROVE  /\ GoodConfig(config', volume)
         /\ pass.dn \in DOMAIN config' /\ config'[pass.dn] = entry
         /\ entry.kind = "data" /\ entry.db = pass.db
         /\ \A k, d : Has(config', k, d) <=> Has(config, k, d)
         /\ PassWrites
  <1>1. /\ pass.dn \in DOMAIN config
        /\ config[pass.dn].kind = "data" /\ config[pass.dn].db = pass.db
    BY OwnEntry
  <1>2. GoodConfig(config, volume)
    BY DEF ConfigInv
  <1>3. entry.kind = "data" /\ entry.db = pass.db
    BY <1>1 DEF Allowed
  <1> QED BY <1>1, <1>2, <1>3, WriteAt

\* A step that writes to the data database and goes on to the next.
LEMMA WriteDataDoes ==
  ASSUME ConfigInv, pass.step \in DataSteps, NEW entry, NEW next \in PassSteps,
         WriteData(entry, next)
  PROVE  /\ Replaces(config, pass.dn, entry, config')
         /\ pass' \in Passes /\ pass'.step = next
         /\ pass'.db = pass.db /\ pass'.sd = pass.sd /\ pass'.sc = pass.sc
         /\ pass'.dn = pass.dn /\ (Journals(pass)' <=> Journals(pass))
  <1>1. pass.dn \in DOMAIN config /\ pass \in Passes
    BY OwnEntry DEF ConfigInv, TypeOK
  <1>2. config' = [config EXCEPT ![pass.dn] = entry] /\ Goto(next)
    BY <1>1 DEF WriteData
  <1>3. Replaces(config, pass.dn, entry, config')
    BY <1>2 DEF Replaces
  <1> QED BY <1>1, <1>2, <1>3, Moved

\* The attributes of a database are written under the DN of the pass.
LEMMA EnsureAttrsKeeps ==
  ASSUME ConfigInv, EnsureAttrs
  PROVE  ConfigInv' /\ PassWrites
  <1> DEFINE e == config[pass.dn]
             written == WithIndices(WithACLs(e, pass.sc, pass.sd),
                                    pass.sd.indices \cup Baseline)
             tuned == WithScaleTunables(written, pass.sc, pass.sd)
             step == IF Journals(pass) THEN "provide" ELSE "unjournal"
  <1>1. /\ TypeOK /\ pass \in Passes /\ pass.step = "attrs" /\ pass.step \in DataSteps
        /\ volume' = volume /\ pod' = pod
    BY DEF ConfigInv, TypeOK, EnsureAttrs, others, DataSteps
  <1>2. /\ pass.db \in Databases /\ pass.sd \in DatabaseSpecs /\ pass.sc \in ClusterSpecs
        /\ pod = "up" /\ e \in Entry /\ Sound(e) /\ e.kind = "data" /\ e.db = pass.db
        /\ e.accesslog => Has(config, "log", pass.db)
    BY <1>1, OwnEntry
  <1>3. /\ written \in Entry /\ SameOverlays(e, written)
        /\ tuned \in Entry /\ SameOverlays(e, tuned)
    BY <1>2, TunedEntry
  <1>4. \/ /\ config' = [config EXCEPT ![pass.dn] = written]
           /\ PodFails /\ UNCHANGED server
        \/ /\ config' = [config EXCEPT ![pass.dn] = tuned]
           /\ server' = WithServerID(WithModules(server, WantedModules(pass.sc, pass.sd)))
           /\ pass' = [pass EXCEPT !.step = step,
                !.tunables = CheckMaxSize(e, pass.sd) /\ CheckEnvFlags(e, pass.sd)]
    BY DEF EnsureAttrs, Journals
  <1> HIDE DEF written, tuned, step
  <1>5. \E entry \in {written, tuned} : config' = [config EXCEPT ![pass.dn] = entry]
    BY <1>4
  <1>6. /\ GoodConfig(config', volume)
        /\ pass.dn \in DOMAIN config'
        /\ config'[pass.dn].kind = "data" /\ config'[pass.dn].db = pass.db
        /\ \A k, d : Has(config', k, d) <=> Has(config, k, d)
        /\ PassWrites
    <2>1. PICK entry \in {written, tuned} : config' = [config EXCEPT ![pass.dn] = entry]
      BY <1>5
    <2>2. entry \in Entry /\ SameOverlays(e, entry)
      BY <1>3
    <2>3. Sound(entry)
      BY <1>2, <2>2, SameIsSound
    <2>4. /\ Allowed(e, entry)
          /\ entry.accesslog => Has(config, "log", pass.db)
      BY <1>2, <2>2, <2>3 DEF SameOverlays, Allowed
    <2>5. Replaces(config, pass.dn, entry, config')
      BY <2>1 DEF Replaces
    <2> HIDE DEF e
    <2>6. e = config[pass.dn]
      BY DEF e
    <2> QED BY <1>1, <2>4, <2>5, <2>6, OwnWrite
  <1>7. pass' \in Passes /\ PassCoherent'
    <2>1. CASE PodFails
      BY <1>1, <2>1, Failed DEF DataSteps, BusySteps
    <2>2. CASE ~PodFails
      <3>1. step \in PassSteps
        BY DEF step, PassSteps
      <3>2. pass' = [pass EXCEPT !.step = step,
                !.tunables = CheckMaxSize(e, pass.sd) /\ CheckEnvFlags(e, pass.sd)]
        BY <1>4, <2>2
      <3>3. /\ pass' \in Passes /\ pass'.step = step /\ pass'.db = pass.db
            /\ pass'.sd = pass.sd /\ pass'.sc = pass.sc /\ pass'.dn = pass.dn
        BY <1>1, <3>1, <3>2 DEF Passes
      <3>4. Journals(pass)' <=> Journals(pass)
        BY <3>3 DEF Journals
      <3> QED BY <1>1, <1>2, <1>6, <3>3, <3>4
              DEF PassCoherent, DataSteps, BusySteps, step
    <2> QED BY <2>1, <2>2
  <1>8. server' \in Servers
    <2>1. server \in Servers
      BY <1>1 DEF TypeOK
    <2>2. WantedModules(pass.sc, pass.sd) \subseteq {"accesslog", "syncprov"}
      BY DEF WantedModules
    <2>3. WithServerID(WithModules(server, WantedModules(pass.sc, pass.sd))) \in Servers
      BY <2>1, <2>2 DEF WithServerID, WithModules, Servers
    <2> QED BY <1>4, <2>1, <2>3
  <1>9. TypeOK'
    BY <1>1, <1>6, <1>7, <1>8
       DEF TypeOK, EnsureAttrs, others, declared, published, GoodConfig
  <1> QED BY <1>1, <1>6, <1>7, <1>9 DEF ConfigInv

\* The accesslog overlay goes before the journal it names.
LEMMA RemoveAccesslogOverlayKeeps ==
  ASSUME ConfigInv, RemoveAccesslogOverlay
  PROVE  ConfigInv' /\ PassWrites
  <1> DEFINE entry == [config[pass.dn] EXCEPT !.accesslog = FALSE]
  <1>1. /\ TypeOK /\ pass.step = "unjournal" /\ pass.step \in DataSteps
        /\ volume' = volume /\ pod' = pod /\ ~Journals(pass)
    BY DEF ConfigInv, PassCoherent, RemoveAccesslogOverlay, others, DataSteps
  <1>2. /\ Allowed(config[pass.dn], entry)
        /\ ~entry.accesslog
    <2>1. config[pass.dn] \in Entry /\ Sound(config[pass.dn])
      BY <1>1, OwnEntry
    <2>2. /\ entry \in Entry /\ Sound(entry)
          /\ entry.kind = config[pass.dn].kind /\ entry.db = config[pass.dn].db
          /\ entry.syncprov => config[pass.dn].syncprov
          /\ entry.mem = config[pass.dn].mem /\ entry.source = config[pass.dn].source
          /\ ~entry.accesslog
      BY <2>1, OverlayEntries
    <2> HIDE DEF entry
    <2> QED BY <2>2 DEF Allowed
  <1>3. WriteData(entry, "unlog") /\ "unlog" \in PassSteps
    BY DEF RemoveAccesslogOverlay, PassSteps
  <1> HIDE DEF entry
  <1>4. /\ Replaces(config, pass.dn, entry, config')
        /\ pass' \in Passes /\ pass'.step = "unlog"
        /\ pass'.db = pass.db /\ pass'.sd = pass.sd /\ pass'.sc = pass.sc
        /\ pass'.dn = pass.dn /\ (Journals(pass)' <=> Journals(pass))
    BY <1>1, <1>3, WriteDataDoes
  <1>5. GoodConfig(config', volume) /\ pass.dn \in DOMAIN config'
        /\ config'[pass.dn] = entry /\ entry.kind = "data" /\ entry.db = pass.db
        /\ PassWrites
    BY <1>1, <1>2, <1>4, OwnWrite
  <1>6. PassCoherent'
    BY <1>1, <1>2, <1>4, <1>5, OwnEntry DEF PassCoherent, DataSteps, BusySteps
  <1>7. TypeOK'
    BY <1>1, <1>4, <1>5, TypeAfter DEF RemoveAccesslogOverlay
  <1> QED BY <1>1, <1>5, <1>6, <1>7 DEF ConfigInv

\* The overlay of a database that is no provider goes with its session log.
LEMMA RemoveSyncProvOverlayKeeps ==
  ASSUME ConfigInv, RemoveSyncProvOverlay
  PROVE  ConfigInv' /\ PassWrites
  <1> DEFINE entry == [config[pass.dn] EXCEPT !.syncprov = FALSE, !.mem = FALSE,
                                              !.source = FALSE]
  <1>1. /\ TypeOK /\ pass.step = "unprovide" /\ pass.step \in DataSteps
        /\ volume' = volume /\ pod' = pod
    BY DEF ConfigInv, RemoveSyncProvOverlay, others, DataSteps
  <1>2. /\ Allowed(config[pass.dn], entry)
        /\ entry.accesslog => Has(config, "log", pass.db)
    BY <1>1, OwnEntry, OverlayEntries DEF Allowed
  <1>3. WriteData(entry, "readonly") /\ "readonly" \in PassSteps
    BY DEF RemoveSyncProvOverlay, PassSteps
  <1> HIDE DEF entry
  <1>4. /\ Replaces(config, pass.dn, entry, config')
        /\ pass' \in Passes /\ pass'.step = "readonly"
        /\ pass'.db = pass.db /\ pass'.sd = pass.sd /\ pass'.sc = pass.sc
        /\ pass'.dn = pass.dn
    BY <1>1, <1>3, WriteDataDoes
  <1>5. GoodConfig(config', volume) /\ pass.dn \in DOMAIN config'
        /\ config'[pass.dn] = entry /\ entry.kind = "data" /\ entry.db = pass.db
        /\ PassWrites
    BY <1>1, <1>2, <1>4, OwnWrite
  <1>6. PassCoherent'
    BY <1>1, <1>2, <1>4, <1>5, OwnEntry DEF PassCoherent, DataSteps, BusySteps
  <1>7. TypeOK'
    BY <1>1, <1>4, <1>5, TypeAfter DEF RemoveSyncProvOverlay
  <1> QED BY <1>1, <1>5, <1>6, <1>7 DEF ConfigInv

\* The accesslog overlay is added behind its journal.
LEMMA EnsureAccesslogOverlayKeeps ==
  ASSUME ConfigInv, EnsureAccesslogOverlay
  PROVE  ConfigInv' /\ PassWrites
  <1> DEFINE entry == [config[pass.dn] EXCEPT !.accesslog = TRUE]
  <1>1. /\ TypeOK /\ pass.step = "journal" /\ pass.step \in DataSteps
        /\ volume' = volume /\ pod' = pod /\ Has(config, "log", pass.db)
    BY DEF ConfigInv, PassCoherent, EnsureAccesslogOverlay, others, DataSteps
  <1>2. /\ Allowed(config[pass.dn], entry)
    BY <1>1, OwnEntry, JournalEntry DEF Allowed
  <1>3. WriteData(entry, "readonly") /\ "readonly" \in PassSteps
    BY DEF EnsureAccesslogOverlay, PassSteps
  <1> HIDE DEF entry
  <1>4. /\ Replaces(config, pass.dn, entry, config')
        /\ pass' \in Passes /\ pass'.step = "readonly"
        /\ pass'.db = pass.db /\ pass'.sd = pass.sd /\ pass'.sc = pass.sc
        /\ pass'.dn = pass.dn
    BY <1>1, <1>3, WriteDataDoes
  <1>5. GoodConfig(config', volume) /\ pass.dn \in DOMAIN config'
        /\ config'[pass.dn] = entry /\ entry.kind = "data" /\ entry.db = pass.db
        /\ PassWrites
    BY <1>1, <1>2, <1>4, OwnWrite
  <1>6. PassCoherent'
    BY <1>1, <1>2, <1>4, <1>5, OwnEntry DEF PassCoherent, DataSteps, BusySteps
  <1>7. TypeOK'
    BY <1>1, <1>4, <1>5, TypeAfter DEF EnsureAccesslogOverlay
  <1> QED BY <1>1, <1>5, <1>6, <1>7 DEF ConfigInv

\* The last write of a pass touches no overlay.
LEMMA EnsureReadOnlyKeeps ==
  ASSUME ConfigInv, EnsureReadOnly
  PROVE  ConfigInv' /\ PassWrites
  <1> DEFINE entry == [config[pass.dn] EXCEPT !.readOnly = IsConsumerOnly(pass.sc)]
  <1>1. /\ TypeOK /\ pass.step = "readonly" /\ pass.step \in DataSteps
        /\ volume' = volume /\ pod' = pod
    BY DEF ConfigInv, EnsureReadOnly, others, DataSteps
  <1>2. IsConsumerOnly(pass.sc) \in BOOLEAN
    BY DEF IsConsumerOnly
  <1>3. entry \in Entry /\ SameOverlays(config[pass.dn], entry)
    BY <1>1, <1>2, OwnEntry, ReadOnlyEntry
  <1>4. WriteData(entry, "identity") /\ "identity" \in PassSteps
    BY DEF EnsureReadOnly, PassSteps
  <1> HIDE DEF entry
  <1>5. Sound(entry)
    BY <1>1, <1>3, OwnEntry, SameIsSound
  <1>6. /\ Allowed(config[pass.dn], entry)
        /\ entry.accesslog => Has(config, "log", pass.db)
    BY <1>1, <1>3, <1>5, OwnEntry DEF SameOverlays, Allowed
  <1>7. /\ Replaces(config, pass.dn, entry, config')
        /\ pass' \in Passes /\ pass'.step = "identity"
        /\ pass'.db = pass.db /\ pass'.sd = pass.sd /\ pass'.sc = pass.sc
    BY <1>1, <1>4, WriteDataDoes
  <1>8. GoodConfig(config', volume) /\ PassWrites
    BY <1>1, <1>6, <1>7, OwnWrite
  <1>9. PassCoherent'
    BY <1>1, <1>7, OwnEntry DEF PassCoherent, DataSteps, BusySteps
  <1>10. TypeOK'
    BY <1>1, <1>7, <1>8, TypeAfter DEF EnsureReadOnly
  <1> QED BY <1>1, <1>8, <1>9, <1>10 DEF ConfigInv

\* The teardown of an entry's overlays.
LEMMA StrippedEntry ==
  ASSUME NEW e \in Entry, Sound(e), e.kind = "log" \/ pass.step = "delete"
  PROVE  /\ Allowed(e, WithoutNextOverlay(e))
         /\ WithoutNextOverlay(e).accesslog => e.accesslog
         /\ e.kind = "log" => ~WithoutNextOverlay(e).accesslog
  <1> DEFINE new == WithoutNextOverlay(e)
  <1>1. /\ new \in Entry /\ Sound(new) /\ new.kind = e.kind /\ new.db = e.db
        /\ new.accesslog => e.accesslog
        /\ new.syncprov => e.syncprov
        /\ new.source => e.source
    BY OverlayEntries
  <1> HIDE DEF new
  <1> QED BY <1>1 DEF Allowed, Sound, new

\* The deletion of an entry of the database of the pass.
LEMMA DeleteAt ==
  ASSUME GoodConfig(config, volume), NEW i \in DOMAIN config,
         config[i].db = pass.db, config[i].kind \in {"data", "log"},
         config[i].kind = "log" => \A e \in Entries(config) : e.accesslog => e.db # pass.db,
         pass.step = "delete" \/ (pass.step = "unlog" /\ config[i].kind = "log"),
         config' = Delete(config, i)
  PROVE  /\ GoodConfig(config', volume)
         /\ \A k, d : Has(config', k, d) <=>
                      Has(config, k, d) /\ ~(config[i].kind = k /\ config[i].db = d)
         /\ PassWrites
  <1>1. /\ GoodConfig(config', volume)
        /\ Entries(config') = Entries(config) \ {config[i]}
        /\ \A k, d : Has(config', k, d) <=>
                     Has(config, k, d) /\ ~(config[i].kind = k /\ config[i].db = d)
    BY GoodDelete
  <1>2. /\ \A e \in Entries(config') : e \in Entries(config)
        /\ \A e \in Entries(config) : e = config[i] \/ e \in Entries(config')
    BY <1>1
  <1>3. Foreign(config', pass.db) = Foreign(config, pass.db)
    <2>1. /\ \A e \in Entries(config) :
               e.db # pass.db /\ e.kind # "monitor" => e \in Entries(config')
          /\ \A e \in Entries(config') :
               e.db # pass.db /\ e.kind # "monitor" => e \in Entries(config)
      BY <1>2
    <2> QED BY <2>1, SameForeign, Zenon
  <1>4. /\ Sourced(config', pass.db) => Sourced(config, pass.db)
        /\ Provides(config', pass.db) => Provides(config, pass.db)
    BY <1>2 DEF Sourced, Provides
  <1>5. config[i].kind = "log" => (Logged(config, pass.db) => Logged(config', pass.db))
    BY <1>2, ByEntries
  <1>6. Has(config', "log", pass.db) => Has(config, "log", pass.db)
    BY <1>1
  <1> QED BY <1>1, <1>3, <1>4, <1>5, <1>6 DEF PassWrites

\* The journal of a pass that has taken the overlay away is named by nobody.
LEMMA RemoveAccesslogDBKeeps ==
  ASSUME ConfigInv, RemoveAccesslogDB
  PROVE  ConfigInv' /\ PassWrites
  <1> DEFINE log == FindLogDB(config, pass.db)
             next == IF WantsSyncProv(pass.sc) THEN "provide" ELSE "unprovide"
  <1>1. /\ TypeOK /\ pass \in Passes /\ pass.step = "unlog" /\ pass.step \in DataSteps
        /\ volume' = volume /\ pod' = pod /\ ~Journals(pass)
        /\ ~config[pass.dn].accesslog
        /\ GoodConfig(config, volume) /\ config \in Seq(Entry) /\ OnePerSuffix(config)
    BY DEF ConfigInv, TypeOK, PassCoherent, RemoveAccesslogDB, others, DataSteps
  <1>2. /\ pass.db \in Databases /\ pass.sd \in DatabaseSpecs /\ pass.sc \in ClusterSpecs
        /\ pod = "up" /\ pass.dn \in DOMAIN config
        /\ config[pass.dn].kind = "data" /\ config[pass.dn].db = pass.db
        /\ config[pass.dn] \in Entries(config)
    BY <1>1, OwnEntry
  <1>3. /\ log = 0 <=> ~Has(config, "log", pass.db)
        /\ log # 0 => /\ log \in DOMAIN config /\ log # pass.dn
                      /\ config[log].kind = "log" /\ config[log].db = pass.db
    BY <1>1, <1>2, FindFacts DEF FindLogDB
  <1>4. next \in PassSteps /\ next \in {"provide", "unprovide"}
        /\ (next = "unprovide" => ~WantsSyncProv(pass.sc))
    BY DEF PassSteps
  <1>5. \/ log = 0 /\ UNCHANGED config /\ Goto(next)
        \/ /\ log # 0 /\ config' = [config EXCEPT ![log] = WithoutNextOverlay(config[log])]
           /\ UNCHANGED pass
        \/ /\ log # 0 /\ config' = Delete(config, log)
           /\ pass' = [pass EXCEPT !.step = next, !.dn = FindDataDB(config', pass.db)]
    BY DEF RemoveAccesslogDB, Reresolved
  <1> HIDE DEF log, next
  <1>6. /\ GoodConfig(config', volume) /\ pass' \in Passes /\ PassCoherent'
        /\ PassWrites
    <2>1. CASE log = 0 /\ UNCHANGED config /\ Goto(next)
      <3>1. /\ pass' \in Passes /\ pass'.step = next /\ pass'.db = pass.db
            /\ pass'.sd = pass.sd /\ pass'.sc = pass.sc /\ pass'.dn = pass.dn
            /\ (Journals(pass)' <=> Journals(pass))
        BY <1>1, <1>4, <2>1, Moved
      <3>2. PassCoherent'
        BY <1>1, <1>2, <1>3, <1>4, <2>1, <3>1 DEF PassCoherent, DataSteps, BusySteps
      <3> QED BY <1>1, <2>1, <3>1, <3>2, WritesNothing
    <2>2. CASE /\ log # 0
               /\ config' = [config EXCEPT ![log] = WithoutNextOverlay(config[log])]
               /\ UNCHANGED pass
      <3> DEFINE entry == WithoutNextOverlay(config[log])
      <3>1. config[log] \in Entry /\ Sound(config[log])
        BY <1>1, <1>3, <2>2, EntryAt
      <3>2. Allowed(config[log], entry) /\ ~entry.accesslog
        BY <1>3, <2>2, <3>1, StrippedEntry
      <3>3. Replaces(config, log, entry, config')
        BY <2>2 DEF Replaces
      <3> HIDE DEF entry
      <3>4. /\ GoodConfig(config', volume) /\ DOMAIN config' = DOMAIN config
            /\ config'[pass.dn] = config[pass.dn]
            /\ PassWrites
        BY <1>1, <1>2, <1>3, <2>2, <3>2, <3>3, WriteAt
      <3>5. PassCoherent'
        BY <1>1, <1>2, <2>2, <3>4 DEF PassCoherent, DataSteps, BusySteps, Journals
      <3> QED BY <1>1, <2>2, <3>4, <3>5
    <2>3. CASE /\ log # 0 /\ config' = Delete(config, log)
               /\ pass' = [pass EXCEPT !.step = next, !.dn = FindDataDB(config', pass.db)]
      <3>1. \A e \in Entries(config) : e.accesslog => e.db # config[log].db
        <4> SUFFICES ASSUME NEW e \in Entries(config), e.accesslog, e.db = pass.db
                     PROVE  FALSE
          BY <1>3, <2>3
        <4>1. PICK i \in DOMAIN config : e = config[i]
          BY DEF Entries
        <4>2. e.kind = "data"
          BY <1>1 DEF GoodConfig, Sound
        <4>3. i = pass.dn
          BY <1>1, <1>2, <4>1, <4>2 DEF OnePerSuffix
        <4> QED BY <1>1, <4>1, <4>3
      <3>2. /\ GoodConfig(config', volume)
            /\ \A k, d : Has(config', k, d) <=>
                      Has(config, k, d) /\ ~(config[log].kind = k /\ config[log].db = d)
            /\ PassWrites
        BY <1>1, <1>3, <2>3, <3>1, DeleteAt
      <3>3. GoodConfig(config', volume) /\ config' \in Seq(Entry)
        BY <3>2 DEF GoodConfig
      <3>4. Has(config, "data", pass.db)
        BY <1>2 DEF Has
      <3>5. Has(config', "data", pass.db) /\ ~Has(config', "log", pass.db)
        BY <1>3, <2>3, <3>2, <3>4
      <3> DEFINE dn == FindDataDB(config', pass.db)
      <3>6. /\ dn \in Nat /\ dn \in DOMAIN config'
            /\ config'[dn].kind = "data" /\ config'[dn].db = pass.db
        BY <3>3, <3>5, FindFacts DEF FindDataDB
      <3> HIDE DEF dn
      <3>7. /\ pass' \in Passes /\ pass'.step = next /\ pass'.db = pass.db
            /\ pass'.sd = pass.sd /\ pass'.sc = pass.sc /\ pass'.dn = dn
        <4>1. pass' = [pass EXCEPT !.step = next, !.dn = dn]
          BY <2>3 DEF dn
        <4> QED BY <1>1, <1>4, <3>6, <4>1 DEF Passes
      <3>8. PassCoherent'
        BY <1>1, <1>2, <1>4, <3>5, <3>6, <3>7
           DEF PassCoherent, DataSteps, BusySteps, Journals
      <3> QED BY <3>2, <3>3, <3>7, <3>8
    <2> QED BY <1>5, <2>1, <2>2, <2>3
  <1>7. TypeOK'
    BY <1>1, <1>6, TypeAfter DEF RemoveAccesslogDB
  <1> QED BY <1>1, <1>6, <1>7 DEF ConfigInv

\* The overlay is added or its session log changed, never to two of them.
LEMMA EnsureSyncProvOverlayKeeps ==
  ASSUME ConfigInv, EnsureSyncProvOverlay
  PROVE  ConfigInv' /\ PassWrites
  <1> DEFINE kind == DesiredSessionlog(pass.sd)
             e == config[pass.dn]
             overlaid == IF e.syncprov THEN e
                         ELSE [e EXCEPT !.syncprov = TRUE,
                                 !.mem = OverlayCreationSessionlog(kind)]
             entry == WithSessionlog(overlaid, kind)
             step == IF ~Journals(pass) THEN "readonly"
                     ELSE IF FindLogDB(config, pass.db) = 0 THEN "logdirs"
                     ELSE "logattrs"
  <1>1. /\ TypeOK /\ pass \in Passes /\ pass.step = "provide" /\ pass.step \in DataSteps
        /\ volume' = volume /\ pod' = pod /\ config \in Seq(Entry)
    BY DEF ConfigInv, TypeOK, EnsureSyncProvOverlay, others, DataSteps
  <1>2. /\ pass.db \in Databases /\ pass.sd \in DatabaseSpecs /\ pass.sc \in ClusterSpecs
        /\ pod = "up" /\ pass.dn \in DOMAIN config
        /\ e \in Entry /\ Sound(e) /\ e.kind = "data" /\ e.db = pass.db
        /\ e.accesslog => Has(config, "log", pass.db)
    BY <1>1, OwnEntry
  <1>3. kind \in Kinds
    BY SessionlogKinds
  <1>4. /\ config' = [config EXCEPT ![pass.dn] = entry]
        /\ pass' = [pass EXCEPT !.step = step, !.startup = Observed(e, kind)]
    BY <1>2 DEF EnsureSyncProvOverlay, Journals
  <1> HIDE DEF kind, e
  <1>5. Allowed(e, entry) /\ (entry.accesslog => Has(config, "log", pass.db))
    <2>1. /\ entry \in Entry /\ Sound(entry) /\ entry.kind = "data" /\ entry.db = e.db
          /\ entry.accesslog = e.accesslog /\ entry.source = e.source
          /\ kind # "None" /\ (e.mem \/ e.source) => entry.mem \/ entry.source
      BY <1>2, <1>3, SessionlogEntry
    <2> HIDE DEF entry
    <2> QED BY <1>1, <1>2, <2>1 DEF Allowed, kind
  <1> HIDE DEF entry, step
  <1>6. /\ GoodConfig(config', volume)
        /\ pass.dn \in DOMAIN config' /\ config'[pass.dn] = entry
        /\ entry.kind = "data" /\ entry.db = pass.db
        /\ \A k, d : Has(config', k, d) <=> Has(config, k, d)
        /\ PassWrites
    <2>1. Replaces(config, pass.dn, entry, config')
      BY <1>4 DEF Replaces
    <2>2. Allowed(config[pass.dn], entry)
      BY <1>5 DEF e
    <2> QED BY <1>1, <1>5, <2>1, <2>2, OwnWrite
  <1>7. /\ step \in PassSteps /\ step \in {"readonly", "logdirs", "logattrs"}
        /\ step # "readonly" => Journals(pass)
        /\ step = "logdirs" => ~Has(config, "log", pass.db)
    BY <1>1, FindFacts DEF step, PassSteps, FindLogDB
  <1>8. /\ pass' \in Passes /\ pass'.step = step /\ pass'.db = pass.db
        /\ pass'.sd = pass.sd /\ pass'.sc = pass.sc /\ pass'.dn = pass.dn
    <2>1. Observed(e, kind) \in {"Unread", "Same", "Differs"}
      BY DEF Observed
    <2> QED BY <1>1, <1>4, <1>7, <2>1 DEF Passes
  <1>9. PassCoherent'
    BY <1>1, <1>2, <1>5, <1>6, <1>7, <1>8
       DEF PassCoherent, DataSteps, BusySteps, Journals
  <1>10. TypeOK'
    BY <1>1, <1>6, <1>8, TypeAfter DEF EnsureSyncProvOverlay
  <1> QED BY <1>1, <1>6, <1>9, <1>10 DEF ConfigInv

\* The attributes of the journal are written under a DN searched for anew.
LEMMA EnsureAccesslogAttrsKeeps ==
  ASSUME ConfigInv, EnsureAccesslogAttrs
  PROVE  ConfigInv' /\ PassWrites
  <1> DEFINE log == FindLogDB(config, pass.db)
             entry == WithBackendTunables(
                        [WithIndices(config[log], AccesslogIndices) EXCEPT
                           !.acl = AccesslogACL, !.limits = ReplicationLimits,
                           !.accesslog = FALSE, !.syncprov = TRUE],
                        DesiredNoSync(pass.sc, pass.sd), "journal")
  <1>1. /\ TypeOK /\ pass \in Passes /\ pass.step = "logattrs" /\ pass.step \in DataSteps
        /\ volume' = volume /\ pod' = pod /\ Journals(pass)
        /\ GoodConfig(config, volume) /\ config \in Seq(Entry)
    BY DEF ConfigInv, TypeOK, PassCoherent, EnsureAccesslogAttrs, others, DataSteps
  <1>2. /\ pass.db \in Databases /\ pass.sd \in DatabaseSpecs /\ pass.sc \in ClusterSpecs
        /\ pod = "up" /\ pass.dn \in DOMAIN config
        /\ config[pass.dn].kind = "data" /\ config[pass.dn].db = pass.db
    BY <1>1, OwnEntry
  <1>3. /\ log = 0 <=> ~Has(config, "log", pass.db)
        /\ log # 0 => /\ log \in DOMAIN config /\ log # pass.dn
                      /\ config[log].kind = "log" /\ config[log].db = pass.db
    BY <1>1, <1>2, FindFacts DEF FindLogDB
  <1>4. \/ UNCHANGED config /\ PodFails
        \/ log # 0 /\ config' = [config EXCEPT ![log] = entry] /\ Goto("journal")
    BY DEF EnsureAccesslogAttrs
  <1> HIDE DEF log, entry
  <1>5. GoodConfig(config', volume) /\ pass' \in Passes /\ PassCoherent' /\ PassWrites
    <2>1. CASE UNCHANGED config /\ PodFails
      BY <1>1, <2>1, Failed, WritesNothing DEF DataSteps, BusySteps
    <2>2. CASE log # 0 /\ config' = [config EXCEPT ![log] = entry] /\ Goto("journal")
      <3>1. config[log] \in Entry /\ Sound(config[log])
        BY <1>1, <1>3, <2>2, EntryAt
      <3>2. Allowed(config[log], entry) /\ ~entry.accesslog
        <4>1. /\ entry \in Entry /\ Sound(entry)
              /\ entry.kind = "log" /\ entry.db = pass.db
              /\ ~entry.source /\ ~entry.accesslog
          BY <1>2, <1>3, <2>2, <3>1, JournalAttrs DEF entry
        <4>2. ~config[log].mem /\ ~config[log].source
          BY <1>3, <2>2, <3>1 DEF Sound
        <4> QED BY <1>3, <2>2, <4>1, <4>2 DEF Allowed
      <3>3. Replaces(config, log, entry, config')
        BY <2>2 DEF Replaces
      <3>4. /\ GoodConfig(config', volume) /\ DOMAIN config' = DOMAIN config
            /\ config'[pass.dn] = config[pass.dn]
            /\ \A k, d : Has(config', k, d) <=> Has(config, k, d)
            /\ PassWrites
        BY <1>1, <1>2, <1>3, <2>2, <3>2, <3>3, WriteAt
      <3>5. "journal" \in PassSteps
        BY DEF PassSteps
      <3>6. /\ pass' \in Passes /\ pass'.step = "journal" /\ pass'.db = pass.db
            /\ pass'.sd = pass.sd /\ pass'.sc = pass.sc /\ pass'.dn = pass.dn
            /\ (Journals(pass)' <=> Journals(pass))
        BY <1>1, <2>2, <3>5, Moved
      <3>7. PassCoherent'
        BY <1>1, <1>2, <1>3, <2>2, <3>4, <3>6 DEF PassCoherent, DataSteps, BusySteps
      <3> QED BY <3>4, <3>6, <3>7
    <2> QED BY <1>4, <2>1, <2>2
  <1>6. TypeOK'
    BY <1>1, <1>5, TypeAfter DEF EnsureAccesslogAttrs
  <1> QED BY <1>1, <1>5, <1>6 DEF ConfigInv

\* The end of a pass.
LEMMA FinishPassKeeps ==
  ASSUME ConfigInv, FinishPass
  PROVE  ConfigInv' /\ PassWrites
  <1>1. /\ TypeOK /\ GoodConfig(config, volume) /\ pass.step = "identity"
        /\ config' = config /\ volume' = volume /\ pod' = pod /\ pass' = NoPass
        /\ pass.db \in Databases
    BY DEF ConfigInv, FinishPass, others, PassCoherent
  <1>2. pass' \in Passes /\ PassCoherent'
    BY <1>1, NoPassCoherent
  <1>3. auth' \in [entry : BOOLEAN, identity : SUBSET Databases]
    <2>1. auth \in [entry : BOOLEAN, identity : SUBSET Databases]
      BY <1>1 DEF TypeOK
    <2>2. WithIdentity(auth, pass.db) \in [entry : BOOLEAN, identity : SUBSET Databases]
      BY <1>1, <2>1 DEF WithIdentity
    <2> QED BY <2>1, <2>2 DEF FinishPass
  <1>4. status' \in [Databases -> [tunables : BOOLEAN,
                                   startup : {"Unknown", "True", "False"}]]
    <2>1. status \in [Databases -> [tunables : BOOLEAN,
                                    startup : {"Unknown", "True", "False"}]]
          /\ pass.tunables \in BOOLEAN
      BY <1>1 DEF TypeOK, Passes
    <2>2. StartupCondition(DesiredSessionlog(pass.sd), pass.startup)
            \in {"Unknown", "True", "False"}
      BY <1>1 DEF StartupCondition, TypeOK, Passes
    <2> QED BY <2>1, <2>2 DEF FinishPass
  <1>5. TypeOK'
    BY <1>1, <1>2, <1>3, <1>4 DEF FinishPass, TypeOK, others, declared, published
  <1> QED BY <1>1, <1>2, <1>5, WritesNothing DEF ConfigInv

----------------------------------------------------------------------------
(***************************************************************************)
(* The other steps.                                                        *)
(***************************************************************************)

\* One more event is still within the bound.
LEMMA EventTyped ==
  ASSUME TypeOK, NEW kind, Event(kind)
  PROVE  events' \in 0 .. MaxEvents
  BY PodConfigConstants DEF Event, TypeOK

\* A step beside the configuration and the pass.
LEMMA QuietKeeps ==
  ASSUME ConfigInv, TypeOK', config' = config, pass' = pass, volume \subseteq volume',
         pod' = pod \/ pod # "up"
  PROVE  ConfigInv'
  <1>1. GoodConfig(config', volume')
    BY MoreDirs DEF ConfigInv
  <1>2. PassCoherent'
    BY DEF ConfigInv, PassCoherent, Journals
  <1> QED BY <1>1, <1>2 DEF ConfigInv

\* A pass that is over or has failed on the pod, and nothing else.
LEMMA PassEnds ==
  ASSUME ConfigInv, pass' \in Passes, PassCoherent', pod' \in {"none", "down", "up"},
         events' \in 0 .. MaxEvents,
         UNCHANGED <<declared, published, onPod, volume, job, status>>
  PROVE  ConfigInv'
  <1>1. TypeOK'
    BY DEF ConfigInv, TypeOK, declared, published, onPod
  <1> QED BY <1>1 DEF ConfigInv, onPod

\* A step that fails has written nothing, and the pass goes on without the pod.
LEMMA StepFailsKeeps ==
  ASSUME ConfigInv, StepFails
  PROVE  ConfigInv'
  <1>1. TypeOK /\ pass \in Passes
    BY DEF ConfigInv, TypeOK
  <1>2. pass.step \in BusySteps
    BY <1>1 DEF StepFails, Passes, PassSteps, BusySteps, DataSteps
  <1>3. pass' \in Passes /\ PassCoherent'
    BY <1>2, Failed DEF StepFails
  <1>4. events' \in 0 .. MaxEvents /\ pod' \in {"none", "down", "up"}
    BY <1>1, EventTyped DEF StepFails, TypeOK
  <1> QED BY <1>3, <1>4, PassEnds DEF StepFails

\* A teardown that fails ends its pass.
LEMMA DeleteFailsKeeps ==
  ASSUME ConfigInv, DeleteFails
  PROVE  ConfigInv'
  <1>1. TypeOK
    BY DEF ConfigInv
  <1>2. pass' \in Passes /\ PassCoherent'
    BY NoPassCoherent DEF DeleteFails
  <1>3. events' \in 0 .. MaxEvents /\ pod' \in {"none", "down", "up"}
    BY <1>1, EventTyped DEF DeleteFails, TypeOK
  <1> QED BY <1>2, <1>3, PassEnds DEF DeleteFails

\* The death of the operator ends the pass, and only that.
LEMMA CrashKeeps ==
  ASSUME ConfigInv, Crash
  PROVE  ConfigInv'
  <1>1. TypeOK
    BY DEF ConfigInv
  <1>2. pass' \in Passes /\ PassCoherent'
    BY NoPassCoherent DEF Crash
  <1>3. events' \in 0 .. MaxEvents /\ pod' \in {"none", "down", "up"}
    BY <1>1, EventTyped DEF Crash, TypeOK
  <1> QED BY <1>2, <1>3, PassEnds DEF Crash

\* A pass loses the pod it works on, and its DN with it.
LEMMA RestartPodKeeps ==
  ASSUME ConfigInv, RestartPod
  PROVE  ConfigInv'
  <1>1. TypeOK /\ PassCoherent /\ pass \in Passes
    BY DEF ConfigInv, TypeOK
  <1>2. events' \in 0 .. MaxEvents /\ pod' \in {"none", "down", "up"}
    BY <1>1, EventTyped DEF RestartPod
  <1>3. pass' \in Passes /\ PassCoherent'
    <2>1. CASE pass.step \in {"idle", "identity"} /\ pass' = pass
      BY <1>1, <2>1 DEF PassCoherent, BusySteps, DataSteps
    <2>2. CASE pass' = NoPass
      BY <2>2, NoPassCoherent
    <2>3. CASE pass.step \notin {"idle", "identity", "delete"} /\ PodFails
      <3>1. pass.step \in BusySteps
        BY <1>1, <2>3 DEF Passes, PassSteps, BusySteps, DataSteps
      <3> QED BY <2>3, <3>1, Failed
    <2> QED BY <2>1, <2>2, <2>3 DEF RestartPod
  <1> QED BY <1>2, <1>3, PassEnds DEF RestartPod

\* A finalizer that goes.
LEMMA FinalizerTyped ==
  ASSUME TypeOK, NEW d \in Databases, FinalizerGoes(d)
  PROVE  crs' \in [Databases -> [state : {"absent", "declared", "deleting"},
                                 spec : DatabaseSpecs]]
  BY DEF TypeOK, FinalizerGoes

\* A deletion starts a teardown or lets the finalizer go, and writes no entry.
LEMMA BeginDeletionKeeps ==
  ASSUME ConfigInv, NEW d \in Databases, BeginDeletion(d)
  PROVE  ConfigInv'
  <1>1. TypeOK
    BY DEF ConfigInv
  <1>2. CASE crs[d].spec.cleanup = "Delete"
    <2>1. pass' = [NoPass EXCEPT !.step = "delete", !.db = d] /\ crs' = crs
      BY <1>2 DEF BeginDeletion
    <2>2. pass' \in Passes /\ pass'.step = "delete" /\ pass'.db = d /\ pass'.sd = Unset
      BY <2>1 DEF NoPass, Passes, PassSteps
    <2>3. PassCoherent'
      BY <2>2 DEF PassCoherent, BusySteps, DataSteps
    <2>4. TypeOK'
      BY <1>1, <2>1, <2>2 DEF TypeOK, BeginDeletion, published, onPod
    <2> QED BY <2>3, <2>4 DEF ConfigInv, BeginDeletion, onPod
  <1>3. CASE crs[d].spec.cleanup # "Delete"
    <2>1. FinalizerGoes(d) /\ pass' = pass
      BY <1>3 DEF BeginDeletion
    <2>2. TypeOK'
      BY <1>1, <2>1, FinalizerTyped DEF TypeOK, BeginDeletion, published, onPod
    <2> QED BY <2>1, <2>2, QuietKeeps DEF BeginDeletion, onPod
  <1> QED BY <1>2, <1>3

\* What a teardown takes next: the data database, and the journal only once that
\* is gone.
LEMMA LeftoverIs ==
  ASSUME NEW d, config \in Seq(Entry)
  PROVE  /\ Leftovers(d) = {} <=> ~Has(config, "data", d) /\ ~Has(config, "log", d)
         /\ \A i \in Leftovers(d) :
              /\ i \in DOMAIN config /\ config[i].db = d
              /\ config[i].kind \in {"data", "log"}
              /\ config[i].kind = "log" => ~Has(config, "data", d)
  <1>1. /\ FindDataDB(config, d) = 0 <=> ~Has(config, "data", d)
        /\ FindLogDB(config, d) = 0 <=> ~Has(config, "log", d)
    BY FindFacts DEF FindDataDB, FindLogDB
  <1>2. /\ FindDataDB(config, d) # 0 =>
             LET i == FindDataDB(config, d)
             IN i \in DOMAIN config /\ config[i].kind = "data" /\ config[i].db = d
        /\ FindLogDB(config, d) # 0 =>
             LET i == FindLogDB(config, d)
             IN i \in DOMAIN config /\ config[i].kind = "log" /\ config[i].db = d
    BY FindFacts DEF FindDataDB, FindLogDB
  <1>3. Leftovers(d) = IF FindDataDB(config, d) # 0 THEN {FindDataDB(config, d)}
                       ELSE {FindLogDB(config, d)} \ {0}
    BY DEF Leftovers
  <1> QED BY <1>1, <1>2, <1>3

\* A teardown deletes the overlay, then the database, then its journal.
LEMMA DeleteFromPodKeeps ==
  ASSUME ConfigInv, DeleteFromPod
  PROVE  ConfigInv' /\ PassWrites
  <1>1. /\ TypeOK /\ GoodConfig(config, volume) /\ config \in Seq(Entry)
        /\ pass \in Passes /\ PassCoherent
        /\ pass.step = "delete" /\ pass.db \in Databases /\ pass.sd = Unset
        /\ volume' = volume /\ pod' = pod
    BY DEF ConfigInv, TypeOK, DeleteFromPod, PassCoherent
  <1>2. CASE pass' = NoPass /\ config' = config /\ (crs' = crs \/ FinalizerGoes(pass.db))
    <2>1. pass' \in Passes /\ PassCoherent'
      BY <1>2, NoPassCoherent
    <2>2. crs' \in [Databases -> [state : {"absent", "declared", "deleting"},
                                  spec : DatabaseSpecs]]
      BY <1>1, <1>2, FinalizerTyped DEF TypeOK
    <2>3. TypeOK'
      BY <1>1, <1>2, <2>1, <2>2 DEF TypeOK, DeleteFromPod, published
    <2> QED BY <1>1, <1>2, <2>1, <2>3, WritesNothing DEF ConfigInv
  <1>3. CASE /\ Leftovers(pass.db) # {} /\ crs' = crs /\ pass' = pass
             /\ LET i == CHOOSE i \in Leftovers(pass.db) : TRUE
                IN config' = IF IsLeaf(config[i]) THEN Delete(config, i)
                             ELSE [config EXCEPT ![i] = WithoutNextOverlay(config[i])]
    <2> DEFINE i == CHOOSE i \in Leftovers(pass.db) : TRUE
    <2>1. i \in Leftovers(pass.db)
      BY <1>3
    <2>2. /\ config' = Delete(config, i)
          \/ config' = [config EXCEPT ![i] = WithoutNextOverlay(config[i])]
      BY <1>3
    <2> HIDE DEF i
    <2>3. /\ i \in DOMAIN config /\ config[i].db = pass.db
          /\ config[i].kind \in {"data", "log"}
          /\ config[i].kind = "log" => ~Has(config, "data", pass.db)
      BY <1>1, <2>1, LeftoverIs
    <2>4. config[i] \in Entry /\ config[i] \in Entries(config) /\ Sound(config[i])
      BY <1>1, <2>3, EntryAt
    <2>5. GoodConfig(config', volume) /\ PassWrites
      <3>1. CASE config' = Delete(config, i)
        <4>1. config[i].kind = "log" =>
                \A e \in Entries(config) : e.accesslog => e.db # pass.db
          BY <1>1, <2>3 DEF GoodConfig, Sound, Has
        <4> QED BY <1>1, <2>3, <3>1, <4>1, DeleteAt
      <3>2. CASE config' = [config EXCEPT ![i] = WithoutNextOverlay(config[i])]
        <4> DEFINE entry == WithoutNextOverlay(config[i])
        <4>1. Allowed(config[i], entry) /\ (entry.accesslog => config[i].accesslog)
          BY <1>1, <2>4, StrippedEntry
        <4>2. Replaces(config, i, entry, config')
          BY <3>2 DEF Replaces
        <4> HIDE DEF entry
        <4>3. entry.accesslog => Has(config, "log", pass.db)
          BY <1>1, <2>3, <2>4, <4>1 DEF GoodConfig
        <4> QED BY <1>1, <2>3, <4>1, <4>2, <4>3, WriteAt
      <3> QED BY <2>2, <3>1, <3>2
    <2>6. PassCoherent'
      BY <1>1, <1>3 DEF PassCoherent, BusySteps, DataSteps
    <2>7. TypeOK'
      BY <1>1, <1>3, <2>5 DEF TypeOK, DeleteFromPod, published, GoodConfig
    <2> QED BY <1>1, <2>5, <2>6, <2>7 DEF ConfigInv
  <1> QED BY <1>2, <1>3 DEF DeleteFromPod

\* What a configuration holds of the SlapdDatabases.
Theirs(cfg) == {e \in Entries(cfg) : e.kind \in {"data", "log"}}

\* The SlapdCluster controller leaves the SlapdDatabases alone, and where they are.
LEMMA InfrastructureDoes ==
  ASSUME ConfigInv, NEW fails, ReconcileInfrastructure(fails)
  PROVE  /\ GoodConfig(config', volume)
         /\ Theirs(config') = Theirs(config)
         /\ \A k \in {"data", "log"} : \A d : Has(config', k, d) <=> Has(config, k, d)
         /\ \A i \in DOMAIN config : i \in DOMAIN config'
              /\ (config[i].kind # "auth" => config'[i] = config[i])
  <1> DEFINE failed == fails \cup IF Refused(WantedGlobals(cluster)) = {} THEN {}
                                  ELSE {"global"}
             M == IF "monitor" \in Executed(failed) THEN WithMonitor(config) ELSE config
  <1>1. GoodConfig(config, volume)
    BY DEF ConfigInv
  <1>2. M = WithMonitor(config) \/ M = config
    OBVIOUS
  <1>3. config' = WithAuthDB(M) \/ config' = M
    BY DEF ReconcileInfrastructure
  <1> HIDE DEF M
  <1>4. /\ GoodConfig(M, volume)
        /\ \A k \in {"data", "log"} : \A d : Has(M, k, d) <=> Has(config, k, d)
        /\ \A i \in DOMAIN config : i \in DOMAIN M /\ M[i] = config[i]
        /\ \A e \in Entries(M) : e \in Entries(config) \/ e.kind = "monitor"
        /\ \A e \in Entries(config) : e \in Entries(M)
    <2>1. CASE M = config
      BY <1>1, <2>1
    <2>2. CASE M = WithMonitor(config)
      <3> DEFINE N == WithMonitor(config)
      <3>1. /\ GoodConfig(N, volume)
            /\ Entries(N) = Entries(config) \/ Entries(N) = Entries(config) \cup {MonitorEntry}
            /\ \A k \in {"data", "log", "auth"} : \A d : Has(N, k, d) <=> Has(config, k, d)
            /\ \A i \in DOMAIN config : i \in DOMAIN N /\ N[i] = config[i]
        BY <1>1, GoodMonitor
      <3>2. MonitorEntry.kind = "monitor"
        BY ServerEntries
      <3> HIDE DEF N
      <3>3. M = N
        BY <2>2 DEF N
      <3> QED BY <3>1, <3>2, <3>3
    <2> QED BY <1>2, <2>1, <2>2
  <1>5. /\ GoodConfig(config', volume)
        /\ \A k \in {"data", "log"} : \A d : Has(config', k, d) <=> Has(M, k, d)
        /\ \A i \in DOMAIN M : i \in DOMAIN config'
             /\ (M[i].kind # "auth" => config'[i] = M[i])
        /\ \A e \in Entries(config') : e \in Entries(M) \/ e.kind = "auth"
        /\ \A e \in Entries(M) : e.kind # "auth" => e \in Entries(config')
    <2>1. CASE config' = M
      BY <1>4, <2>1
    <2>2. CASE config' = WithAuthDB(M)
      <3> DEFINE N == WithAuthDB(M)
      <3>1. /\ GoodConfig(N, volume)
            /\ \A e \in Entries(M) : e.kind # "auth" => e \in Entries(N)
            /\ \A e \in Entries(N) :
                 e \in Entries(M) \/ (e.kind = "auth" /\ e.db = Unset)
            /\ \A k \in {"data", "log"} : \A d : Has(N, k, d) <=> Has(M, k, d)
            /\ \A i \in DOMAIN M : i \in DOMAIN N
                 /\ (M[i].kind # "auth" => N[i] = M[i])
        BY <1>4, GoodAuth
      <3> HIDE DEF N
      <3>2. config' = N
        BY <2>2 DEF N
      <3> QED BY <3>1, <3>2
    <2> QED BY <1>3, <2>1, <2>2
  <1>6. Theirs(config') = Theirs(config)
    BY <1>4, <1>5 DEF Theirs
  <1>7. \A k \in {"data", "log"} : \A d : Has(config', k, d) <=> Has(config, k, d)
    BY <1>4, <1>5
  <1>8. \A i \in DOMAIN config : i \in DOMAIN config'
          /\ (config[i].kind # "auth" => config'[i] = config[i])
    BY <1>4, <1>5
  <1> QED BY <1>5, <1>6, <1>7, <1>8

\* The infrastructure of a pod is added behind what is there or written in place:
\* it moves no DN a pass holds.
LEMMA InfrastructureKeeps ==
  ASSUME ConfigInv, NEW fails, ReconcileInfrastructure(fails), events' \in 0 .. MaxEvents
  PROVE  ConfigInv'
  <1>1. /\ TypeOK /\ PassCoherent
        /\ pass' = pass /\ pod' = pod /\ volume' = volume
    BY DEF ConfigInv, ReconcileInfrastructure
  <1>2. /\ GoodConfig(config', volume)
        /\ \A k \in {"data", "log"} : \A d : Has(config', k, d) <=> Has(config, k, d)
        /\ \A i \in DOMAIN config : i \in DOMAIN config'
             /\ (config[i].kind # "auth" => config'[i] = config[i])
    BY InfrastructureDoes
  <1>3. PassCoherent'
    <2>1. pass.step \in DataSteps =>
            /\ pass.dn \in DOMAIN config' /\ config'[pass.dn] = config[pass.dn]
      BY <1>1, <1>2 DEF PassCoherent
    <2>2. /\ Has(config', "data", pass.db) <=> Has(config, "data", pass.db)
          /\ Has(config', "log", pass.db) <=> Has(config, "log", pass.db)
      BY <1>2
    <2> QED BY <1>1, <2>1, <2>2 DEF PassCoherent, DataSteps, Journals
  <1>4. server' \in Servers
    <2>1. server \in Servers
      BY <1>1 DEF TypeOK
    <2>2. WantedGlobals(cluster) \subseteq Globals
      BY DEF WantedGlobals
    <2>3. WithGlobalTunables(server, WantedGlobals(cluster)) \in Servers
      BY <2>1, <2>2 DEF WithGlobalTunables, Servers
    <2> QED BY <2>1, <2>3 DEF ReconcileInfrastructure
  <1>5. auth' \in [entry : BOOLEAN, identity : SUBSET Databases]
    BY <1>1 DEF ReconcileInfrastructure, TypeOK
  <1>6. TypeOK'
    BY <1>1, <1>2, <1>4, <1>5
       DEF TypeOK, ReconcileInfrastructure, declared, published, GoodConfig
  <1> QED BY <1>1, <1>2, <1>3, <1>6 DEF ConfigInv

\* The converger of the init container changes entries in place.
LEMMA StartPodKeeps ==
  ASSUME ConfigInv, StartPod
  PROVE  ConfigInv'
  <1>1. /\ TypeOK /\ PassCoherent /\ GoodConfig(config, volume)
        /\ pass' = pass /\ pod = "down" /\ pod' \in {"none", "down", "up"}
        /\ volume' = volume \cup dirsMap \cup {<<"auth">>}
        /\ config' = ConvergeOffline(config, table)
    BY DEF ConfigInv, StartPod
  <1>2. GoodConfig(config', volume)
    BY <1>1, Converged
  <1>3. GoodConfig(config', volume')
    <2>1. volume \subseteq volume'
      BY <1>1
    <2> QED BY <1>2, <2>1, MoreDirs
  <1>4. volume' \subseteq Dirs
    BY <1>1 DEF TypeOK, Dirs
  <1>5. server' \in Servers
    <2>1. server \in Servers /\ cluster.tls \in BOOLEAN
      BY <1>1, PodConfigConstants DEF TypeOK
    <2> QED BY <2>1 DEF StartPod, Servers
  <1>6. PassCoherent'
    BY <1>1 DEF PassCoherent, DataSteps, BusySteps
  <1>7. TypeOK'
    BY <1>1, <1>3, <1>4, <1>5 DEF TypeOK, StartPod, declared, published, GoodConfig
  <1> QED BY <1>3, <1>6, <1>7 DEF ConfigInv

\* A mkdir Job only adds directories.
LEMMA RunJobKeeps ==
  ASSUME ConfigInv, RunJob
  PROVE  ConfigInv'
  <1>1. TypeOK
    BY DEF ConfigInv
  <1>2. /\ config' = config /\ pass' = pass /\ pod' = pod
        /\ volume \subseteq volume' /\ volume' \subseteq Dirs
    BY <1>1 DEF RunJob, onPod, TypeOK
  <1>3. /\ job' \in [paths : SUBSET Dirs, state : {"none", "running", "succeeded", "failed"}]
    BY <1>1 DEF RunJob, TypeOK
  <1>4. events' \in 0 .. MaxEvents
    BY <1>1, EventTyped DEF RunJob, TypeOK
  <1>5. TypeOK'
    BY <1>1, <1>2, <1>3, <1>4 DEF TypeOK, RunJob, declared, published, onPod
  <1> QED BY <1>2, <1>5, QuietKeeps

\* The directories and the table that the SlapdCluster controller publishes.
LEMMA ApplyWorkloadKeeps ==
  ASSUME ConfigInv, ApplyWorkload
  PROVE  ConfigInv'
  <1>1. TypeOK
    BY DEF ConfigInv
  <1>2. dirsMap' \subseteq Dirs /\ table' \subseteq Databases
    <2>1. DOMAIN Declared = Listed /\ Listed \subseteq Databases
      BY DEF Declared, Listed
    <2>2. table' \subseteq Databases
      BY <2>1 DEF ApplyWorkload, StartupConfigFor
    <2> QED BY <2>2 DEF ApplyWorkload, DatabaseDirs, Dirs, Listed
  <1>3. /\ config' = config /\ pass' = pass /\ volume' = volume
        /\ pod' = pod \/ pod # "up"
        /\ pod' \in {"none", "down", "up"}
    BY <1>1 DEF ApplyWorkload, onPod, TypeOK
  <1>4. TypeOK'
    BY <1>1, <1>2, <1>3 DEF TypeOK, ApplyWorkload, declared, onPod
  <1> QED BY <1>3, <1>4, QuietKeeps

\* What users, the SlapdSchema controller and the certificate's issuer change.
LEMMA BesideKeeps ==
  ASSUME ConfigInv,
         \/ Users \/ ApplySchemaToPod \/ IssueCertificate \/ UNCHANGED vars
  PROVE  ConfigInv'
  <1>1. TypeOK
    BY DEF ConfigInv
  <1>2. /\ config' = config /\ pass' = pass /\ volume' = volume /\ pod' = pod
    BY DEF Users, CreateDatabaseCR, EditDatabaseCR, DeleteDatabaseCR, ForceDeletion,
           EditCluster, ApplySchemaToPod, IssueCertificate, vars, onPod
  <1>3. CASE ApplySchemaToPod \/ IssueCertificate \/ UNCHANGED vars
    <2>1. TypeOK'
      BY <1>1, <1>2, <1>3
         DEF TypeOK, ApplySchemaToPod, IssueCertificate, vars, declared, published, onPod
    <2> QED BY <1>2, <2>1, QuietKeeps
  <1>4. CASE Users
    <2>1. /\ events' \in 0 .. MaxEvents
          /\ UNCHANGED <<secret, published, onPod, job, status>>
      BY <1>1, <1>4, EventTyped
         DEF Users, CreateDatabaseCR, EditDatabaseCR, DeleteDatabaseCR, ForceDeletion,
             EditCluster
    <2>2. /\ cluster' \in ClusterSpecs
          /\ crs' \in [Databases -> [state : {"absent", "declared", "deleting"},
                                     spec : DatabaseSpecs]]
      <3>1. ASSUME NEW d \in Databases,
                   CreateDatabaseCR(d) \/ EditDatabaseCR(d) \/ DeleteDatabaseCR(d)
                     \/ ForceDeletion(d)
            PROVE  /\ cluster' \in ClusterSpecs
                   /\ crs' \in [Databases -> [state : {"absent", "declared", "deleting"},
                                              spec : DatabaseSpecs]]
        BY <1>1, <3>1, FinalizerTyped
           DEF TypeOK, CreateDatabaseCR, EditDatabaseCR, DeleteDatabaseCR, ForceDeletion
      <3>2. CASE EditCluster
        BY <1>1, <3>2 DEF TypeOK, EditCluster
      <3> QED BY <1>4, <3>1, <3>2 DEF Users
    <2>3. TypeOK'
      BY <1>1, <1>2, <2>1, <2>2 DEF TypeOK, published, onPod
    <2> QED BY <1>2, <2>3, QuietKeeps
  <1> QED BY <1>3, <1>4

----------------------------------------------------------------------------
(***************************************************************************)
(* The configuration, whatever users do.                                   *)
(***************************************************************************)

\* The three clusters the model starts from.
LEMMA InitConfig ==
  ASSUME Init
  PROVE  ConfigInv
  <1> DEFINE Objects == [Databases -> [state : {"absent", "declared", "deleting"},
                                       spec : DatabaseSpecs]]
  <1>1. crs \in Objects /\ Listed = Databases
    BY DEF Init, Listed
  <1>2. DatabaseDirs \subseteq Dirs /\ \A d \in Databases : <<"log", d>> \in DatabaseDirs
    BY <1>1 DEF DatabaseDirs, Dirs
  <1>3. volume \subseteq Dirs
    BY <1>2 DEF Init, Dirs
  <1>4. server \in Servers
    <2>1. OldServer \in Servers
      BY DEF OldServer, Servers
    <2>2. /\ [OldServer EXCEPT !.fresh = TRUE, !.oldHash = FALSE] \in Servers
          /\ [OldServer EXCEPT !.modules = {"accesslog", "syncprov"}, !.sid = TRUE] \in Servers
      BY <2>1 DEF Servers
    <2> QED BY <2>1, <2>2 DEF Init
  <1>5. GoodConfig(config, volume)
    <2>1. CASE config = <<>>
      <3>1. config \in Seq(Entry) /\ DOMAIN config = {}
        BY <2>1
      <3> QED BY <3>1 DEF GoodConfig, Entries, OnePerSuffix
    <2>2. ASSUME NEW d \in Databases, config = <<LogEntry(cluster, d, crs[d].spec)>>,
                 <<"log", d>> \in volume
          PROVE  GoodConfig(config, volume)
      <3> DEFINE e == LogEntry(cluster, d, crs[d].spec)
      <3>1. cluster \in ClusterSpecs /\ crs[d].spec \in DatabaseSpecs
        BY <1>1 DEF Init
      <3>2. /\ e \in Entry /\ Sound(e) /\ e.kind = "log" /\ e.db = d /\ ~e.accesslog
        BY <3>1, AddedEntries
      <3> HIDE DEF e
      <3>3. config = <<e>>
        BY <2>2 DEF e
      <3>4. config \in Seq(Entry) /\ DOMAIN config = {1} /\ config[1] = e
        BY <3>2, <3>3
      <3>5. Entries(config) = {e}
        BY <3>4 DEF Entries
      <3>6. OnePerSuffix(config)
        BY <3>4 DEF OnePerSuffix
      <3> QED BY <2>2, <3>2, <3>4, <3>5, <3>6 DEF GoodConfig
    <2> QED BY <1>2, <2>1, <2>2 DEF Init
  <1>6. pass = NoPass /\ pass \in Passes /\ PassCoherent
    <2>1. pass = NoPass /\ NoPass \in Passes /\ NoPass.step = "idle"
      BY NoPassCoherent DEF Init
    <2> QED BY <2>1 DEF PassCoherent, BusySteps, DataSteps
  <1>7. job \in [paths : SUBSET Dirs, state : {"none", "running", "succeeded", "failed"}]
    BY DEF Init, NoJob
  <1>8. /\ cluster \in ClusterSpecs /\ secret \in BOOLEAN /\ schema \in BOOLEAN
        /\ dirsMap \subseteq Dirs /\ table \subseteq Databases
        /\ pod \in {"none", "down", "up"}
    BY DEF Init
  <1>9. /\ auth \in [entry : BOOLEAN, identity : SUBSET Databases]
        /\ status \in [Databases -> [tunables : BOOLEAN,
                                     startup : {"Unknown", "True", "False"}]]
    BY DEF Init
  <1>10. events \in 0 .. MaxEvents
    BY PodConfigConstants DEF Init
  <1>11. TypeOK
    BY <1>1, <1>3, <1>4, <1>5, <1>6, <1>7, <1>8, <1>9, <1>10 DEF TypeOK, GoodConfig
  <1> QED BY <1>5, <1>6, <1>11 DEF ConfigInv

\* A step of a pass or of a teardown.
LEMMA PassStepKeeps ==
  ASSUME ConfigInv, ConvergePod \/ DeleteFromPod
  PROVE  ConfigInv' /\ PassWrites
  BY EnsureDirsKeeps, CreateDatabaseKeeps, EnsureAttrsKeeps, RemoveAccesslogOverlayKeeps,
     RemoveAccesslogDBKeeps, RemoveSyncProvOverlayKeeps, EnsureSyncProvOverlayKeeps,
     CreateAccesslogKeeps, EnsureAccesslogAttrsKeeps, EnsureAccesslogOverlayKeeps,
     EnsureReadOnlyKeeps, FinishPassKeeps, DeleteFromPodKeeps DEF ConvergePod

\* The same for a pass of the SlapdCluster controller that fails on the way.
LEMMA InfrastructureStepKeeps ==
  ASSUME ConfigInv, ConvergeInfrastructure \/ InfrastructureFails
  PROVE  ConfigInv'
  <1>1. TypeOK
    BY DEF ConfigInv
  <1>2. CASE ConvergeInfrastructure
    <2>1. events' \in 0 .. MaxEvents
      BY <1>1, <1>2 DEF ConvergeInfrastructure, TypeOK
    <2> QED BY <1>2, <2>1, InfrastructureKeeps DEF ConvergeInfrastructure
  <1>3. CASE InfrastructureFails
    <2>1. events' \in 0 .. MaxEvents
      BY <1>1, <1>3, EventTyped DEF InfrastructureFails
    <2>2. PICK i \in DOMAIN Steps : ReconcileInfrastructure({Steps[i]})
      BY <1>3 DEF InfrastructureFails
    <2> QED BY <2>1, <2>2, InfrastructureKeeps
  <1> QED BY <1>2, <1>3

\* Every step keeps the inductive invariant.
LEMMA NextConfig ==
  ASSUME ConfigInv, [Next]_vars
  PROVE  ConfigInv'
  <1>1. ASSUME NEW d \in Databases, Begin(d) \/ BeginDeletion(d)
        PROVE  ConfigInv'
    BY <1>1, BeginKeeps, BeginDeletionKeeps
  <1>2. CASE ConvergePod \/ DeleteFromPod
    BY <1>2, PassStepKeeps
  <1>3. CASE ApplyWorkload
    BY <1>3, ApplyWorkloadKeeps
  <1>4. CASE ConvergeInfrastructure \/ InfrastructureFails
    BY <1>4, InfrastructureStepKeeps
  <1>5. CASE StartPod
    BY <1>5, StartPodKeeps
  <1>6. CASE RunJob
    BY <1>6, RunJobKeeps
  <1>7. CASE StepFails \/ DeleteFails \/ RestartPod \/ Crash
    BY <1>7, StepFailsKeeps, DeleteFailsKeeps, RestartPodKeeps, CrashKeeps
  <1>8. CASE Users \/ ApplySchemaToPod \/ IssueCertificate \/ UNCHANGED vars
    BY <1>8, BesideKeeps
  <1> QED BY <1>1, <1>2, <1>3, <1>4, <1>5, <1>6, <1>7, <1>8 DEF Next, Faults

\* The configuration stays sound, and a pass knows its own database, through
\* every interleaving of the three controllers, the init container, users and
\* faults.
THEOREM ConfigIsSound == Spec => []ConfigInv
  BY InitConfig, NextConfig, PTL DEF Spec

\* The variables keep their types, and cn=config never holds two databases with
\* one suffix.
THEOREM TypeCorrect == Spec => []TypeOK
  <1>1. ConfigInv => TypeOK
    BY DEF ConfigInv
  <1> QED BY <1>1, ConfigIsSound, PTL

\* A pass for one database, a teardown included, writes to no other.
THEOREM OthersAreUntouched == Spec => TouchesOwnDatabase
  <1>1. ConfigInv /\ [Next]_vars =>
          [ConvergePod \/ DeleteFromPod =>
             Foreign(config', pass.db) = Foreign(config, pass.db)]_vars
    BY PassStepKeeps DEF PassWrites
  <1> QED BY <1>1, ConfigIsSound, PTL DEF Spec, TouchesOwnDatabase

\* Who changes a SlapdDatabase object.
LEMMA ObjectChanges ==
  ASSUME Next, crs' # crs
  PROVE  Users \/ DeleteFromPod \/ \E d \in Databases : BeginDeletion(d)
  <1>1. ConvergePod => crs' = crs
    BY DEF ConvergePod, EnsureDirs, CreateDatabase, EnsureAttrs, RemoveAccesslogOverlay,
           RemoveAccesslogDB, RemoveSyncProvOverlay, EnsureSyncProvOverlay,
           CreateAccesslogDB, EnsureAccesslogAttrs, EnsureAccesslogOverlay,
           EnsureReadOnly, FinishPass, others, declared
  <1>2. Faults => crs' = crs
    BY DEF Faults, StepFails, DeleteFails, InfrastructureFails, RestartPod, Crash,
           ReconcileInfrastructure, declared
  <1>3. \A d \in Databases : Begin(d) => crs' = crs
    BY DEF Begin, others, declared
  <1>4. ApplyWorkload \/ ConvergeInfrastructure \/ ApplySchemaToPod \/ StartPod \/ RunJob
          \/ IssueCertificate => crs' = crs
    BY DEF ApplyWorkload, ConvergeInfrastructure, ReconcileInfrastructure,
           ApplySchemaToPod, StartPod, RunJob, IssueCertificate, declared
  <1> QED BY <1>1, <1>2, <1>3, <1>4 DEF Next

\* Who changes the configuration.
LEMMA ConfigChanges ==
  ASSUME Next, config' # config
  PROVE  \/ ConvergePod \/ DeleteFromPod \/ StartPod
         \/ \E fails : ReconcileInfrastructure(fails)
  <1>1. Users => config' = config
    BY DEF Users, CreateDatabaseCR, EditDatabaseCR, DeleteDatabaseCR, ForceDeletion,
           EditCluster, onPod
  <1>2. \A d \in Databases : Begin(d) \/ BeginDeletion(d) => config' = config
    BY DEF Begin, BeginDeletion, onPod
  <1>3. StepFails \/ DeleteFails \/ RestartPod \/ Crash => config' = config
    BY DEF StepFails, DeleteFails, RestartPod, Crash, onPod
  <1>4. ApplyWorkload \/ ApplySchemaToPod \/ RunJob \/ IssueCertificate => config' = config
    BY DEF ApplyWorkload, ApplySchemaToPod, RunJob, IssueCertificate, onPod
  <1>5. ConvergeInfrastructure \/ InfrastructureFails =>
          \E fails : ReconcileInfrastructure(fails)
    BY DEF ConvergeInfrastructure, InfrastructureFails
  <1> QED BY <1>1, <1>2, <1>3, <1>4, <1>5 DEF Next, Faults

\* A finalizer goes at the end of a teardown, when nothing is left.
LEMMA TeardownStep ==
  ASSUME ConfigInv, Next, NEW d \in Databases, pass.step = "delete",
         crs[d].state # "absent", crs'[d].state = "absent"
  PROVE  FindDataDB(config', d) = 0 /\ FindLogDB(config', d) = 0
  <1>1. TypeOK /\ config \in Seq(Entry)
    BY DEF ConfigInv, TypeOK
  <1>2. \A o \in Databases : ~BeginDeletion(o)
    BY DEF BeginDeletion
  <1>3. ~Users
    <2>1. \A o \in Databases : ~ForceDeletion(o)
      BY DEF ForceDeletion
    <2>2. \A o \in Databases : CreateDatabaseCR(o) => crs'[d].state # "absent"
      BY <1>1 DEF CreateDatabaseCR, TypeOK
    <2>3. \A o \in Databases : EditDatabaseCR(o) => crs'[d].state # "absent"
      BY <1>1 DEF EditDatabaseCR, TypeOK
    <2>4. \A o \in Databases : DeleteDatabaseCR(o) => crs'[d].state # "absent"
      BY <1>1 DEF DeleteDatabaseCR, TypeOK
    <2>5. EditCluster => crs' = crs
      BY DEF EditCluster
    <2> QED BY <2>1, <2>2, <2>3, <2>4, <2>5 DEF Users
  <1>4. DeleteFromPod
    BY <1>2, <1>3, ObjectChanges
  <1>5. Leftovers(pass.db) = {} /\ FinalizerGoes(pass.db) /\ config' = config
    BY <1>4 DEF DeleteFromPod
  <1>6. d = pass.db
    BY <1>1, <1>5 DEF FinalizerGoes, TypeOK
  <1>7. ~Has(config', "data", d) /\ ~Has(config', "log", d)
    BY <1>1, <1>5, <1>6, LeftoverIs
  <1> QED BY <1>1, <1>5, <1>7, FindFacts DEF FindDataDB, FindLogDB

\* The operator lets a SlapdDatabase with cleanupPolicy Delete go only when
\* nothing of it is left on the pod.
THEOREM NothingIsLeft == Spec => TeardownComplete
  <1>1. ConfigInv /\ [Next]_vars =>
          [\A d \in Databases :
             pass.step = "delete" /\ crs[d].state # "absent" /\ crs'[d].state = "absent"
             => FindDataDB(config', d) = 0 /\ FindLogDB(config', d) = 0]_vars
    BY TeardownStep
  <1> QED BY <1>1, ConfigIsSound, PTL DEF Spec, TeardownComplete

\* The SlapdDatabases of two configurations, one after the other.
LEMMA TheirsSame ==
  ASSUME NEW old, NEW new, NEW dirs, NEW more, GoodConfig(old, dirs), GoodConfig(new, more),
         Theirs(new) = Theirs(old), NEW d
  PROVE  /\ Sourced(new, d) <=> Sourced(old, d)
         /\ Provides(new, d) <=> Provides(old, d)
         /\ Has(new, "log", d) <=> Has(old, "log", d)
         /\ Logged(new, d) <=> Logged(old, d)
  <1>1. /\ \A e \in Entries(old) : e.kind \in {"data", "log"} => e \in Entries(new)
        /\ \A e \in Entries(new) : e.kind \in {"data", "log"} => e \in Entries(old)
    BY DEF Theirs
  <1>2. /\ \A e \in Entries(old) : e.source => e.kind = "data"
        /\ \A e \in Entries(new) : e.source => e.kind = "data"
    BY DEF GoodConfig, Sound
  <1>3. Sourced(new, d) <=> Sourced(old, d)
    BY <1>1, <1>2 DEF Sourced
  <1>4. Provides(new, d) <=> Provides(old, d)
    BY <1>1 DEF Provides
  <1>5. Has(new, "log", d) <=> Has(old, "log", d)
    BY <1>1 DEF Has
  <1>6. Logged(new, d) <=> Logged(old, d)
    BY <1>1, ByEntries
  <1> QED BY <1>3, <1>4, <1>5, <1>6

\* While slapd runs, the last session log of a provider is not taken away.
LEMMA SessionlogStep ==
  ASSUME ConfigInv, Next, NEW d \in Databases,
         pod = "up", pod' = "up", Logged(config, d), pass.db = d,
         pass.sd = crs[d].spec, pass.sc = cluster,
         WantsSyncProv(cluster), DesiredSessionlog(crs[d].spec) # "None"
  PROVE  Logged(config', d)
  <1>1. GoodConfig(config, volume) /\ crs[d].spec \in DatabaseSpecs /\ PassCoherent
    BY DEF ConfigInv, TypeOK
  <1>2. CASE config' = config
    BY <1>2
  <1>3. CASE ConvergePod \/ DeleteFromPod
    <2>1. PassWrites
      BY <1>3, PassStepKeeps
    <2>2. pass.step \notin {"unprovide", "delete"}
      BY <1>1, PodConfigConstants DEF PassCoherent
    <2> QED BY <2>1, <2>2 DEF PassWrites
  <1>4. CASE StartPod
    BY <1>4 DEF StartPod
  <1>5. CASE \E fails : ReconcileInfrastructure(fails)
    <2>1. PICK fails : ReconcileInfrastructure(fails)
      BY <1>5
    <2>2. GoodConfig(config', volume) /\ Theirs(config') = Theirs(config)
      BY <2>1, InfrastructureDoes
    <2> QED BY <1>1, <2>2, TheirsSame
  <1> QED BY <1>2, <1>3, <1>4, <1>5, ConfigChanges

\* syncprov never has both session logs, and a provider that is to have one
\* keeps it while slapd runs.
THEOREM SessionlogIsKept == Spec => KeepsSessionlog
  <1>1. ConfigInv /\ [Next]_vars =>
          [/\ \A i \in DOMAIN config' : ~(config'[i].mem /\ config'[i].source)
           /\ \A d \in Databases :
                (/\ pod = "up" /\ pod' = "up" /\ Logged(config, d)
                 /\ pass.db = d /\ pass.sd = crs[d].spec /\ pass.sc = cluster
                 /\ WantsSyncProv(cluster) /\ DesiredSessionlog(crs[d].spec) # "None")
                => Logged(config', d)]_vars
    <2> SUFFICES ASSUME ConfigInv, Next
                 PROVE  /\ \A i \in DOMAIN config' : ~(config'[i].mem /\ config'[i].source)
                        /\ \A d \in Databases :
                             (/\ pod = "up" /\ pod' = "up" /\ Logged(config, d)
                              /\ pass.db = d /\ pass.sd = crs[d].spec /\ pass.sc = cluster
                              /\ WantsSyncProv(cluster)
                              /\ DesiredSessionlog(crs[d].spec) # "None")
                             => Logged(config', d)
      OBVIOUS
    <2>1. GoodConfig(config', volume')
      BY NextConfig DEF ConfigInv
    <2>2. \A i \in DOMAIN config' : Sound(config'[i])
      BY <2>1, EntryAt
    <2>3. \A i \in DOMAIN config' : ~(config'[i].mem /\ config'[i].source)
      BY <2>2 DEF Sound
    <2> QED BY <2>3, SessionlogStep
  <1> QED BY <1>1, ConfigIsSound, PTL DEF Spec, KeepsSessionlog

----------------------------------------------------------------------------
(***************************************************************************)
(* Where users are careful, slapd can start at any moment.                 *)
(***************************************************************************)

\* The databases of everybody else, in terms of what the invariant tells apart.
LEMMA OthersSame ==
  ASSUME NEW old, NEW new, NEW dirs, NEW more, GoodConfig(old, dirs), GoodConfig(new, more),
         NEW d, Foreign(new, d) = Foreign(old, d), NEW o \in Databases, o # d
  PROVE  /\ Sourced(new, o) <=> Sourced(old, o)
         /\ Provides(new, o) <=> Provides(old, o)
         /\ Has(new, "log", o) <=> Has(old, "log", o)
  <1>1. /\ Foreign(old, d) = {e \in Entries(old) : e.db # d /\ e.kind # "monitor"}
        /\ Foreign(new, d) = {e \in Entries(new) : e.db # d /\ e.kind # "monitor"}
    BY ByEntries
  <1>2. /\ \A e \in Entries(old) : e.db = o => e.kind # "monitor"
        /\ \A e \in Entries(new) : e.db = o => e.kind # "monitor"
    BY DEF GoodConfig, Sound
  <1>3. \A e : e.db = o => (e \in Entries(new) <=> e \in Entries(old))
    BY <1>1, <1>2
  <1>4. Sourced(new, o) <=> Sourced(old, o)
    BY <1>3 DEF Sourced
  <1>5. Provides(new, o) <=> Provides(old, o)
    BY <1>3 DEF Provides
  <1>6. Has(new, "log", o) <=> Has(old, "log", o)
    BY <1>3 DEF Has
  <1> QED BY <1>4, <1>5, <1>6

\* A pass keeps its database and the specs it has read, to its end.
LEMMA PassGoesOn ==
  ASSUME ConfigInv, ConvergePod
  PROVE  /\ cluster' = cluster /\ crs' = crs /\ table' = table
         /\ pass'.step \in BusySteps =>
              /\ pass.step \in BusySteps /\ pass'.db = pass.db
              /\ pass'.sd = pass.sd /\ pass'.sc = pass.sc
  <1>1. cluster' = cluster /\ crs' = crs /\ table' = table
    BY DEF ConvergePod, EnsureDirs, CreateDatabase, EnsureAttrs, RemoveAccesslogOverlay,
           RemoveAccesslogDB, RemoveSyncProvOverlay, EnsureSyncProvOverlay,
           CreateAccesslogDB, EnsureAccesslogAttrs, EnsureAccesslogOverlay,
           EnsureReadOnly, FinishPass, others, declared, published
  <1>2. pass \in Passes
    BY DEF ConfigInv, TypeOK
  <1>3. CASE FinishPass
    <2>1. pass'.step = "idle"
      BY <1>3, NoPassCoherent DEF FinishPass
    <2> QED BY <1>1, <2>1 DEF BusySteps, DataSteps
  <1>4. CASE ~FinishPass
    <2>1. pass.step \in BusySteps
      BY <1>4
         DEF ConvergePod, EnsureDirs, CreateDatabase, EnsureAttrs, RemoveAccesslogOverlay,
             RemoveAccesslogDB, RemoveSyncProvOverlay, EnsureSyncProvOverlay,
             CreateAccesslogDB, EnsureAccesslogAttrs, EnsureAccesslogOverlay,
             EnsureReadOnly, BusySteps, DataSteps
    <2>2. pass'.db = pass.db /\ pass'.sd = pass.sd /\ pass'.sc = pass.sc
      <3>1. EnsureDirs("dirs", "create") \/ EnsureDirs("logdirs", "logcreate") =>
              pass'.db = pass.db /\ pass'.sd = pass.sd /\ pass'.sc = pass.sc
        BY <1>2 DEF EnsureDirs, Goto, PodFails, Passes
      <3>2. CreateDatabase \/ CreateAccesslogDB =>
              pass'.db = pass.db /\ pass'.sd = pass.sd /\ pass'.sc = pass.sc
        BY <1>2 DEF CreateDatabase, CreateAccesslogDB, AddDatabase, Goto, PodFails, Passes
      <3>3. EnsureAttrs =>
              pass'.db = pass.db /\ pass'.sd = pass.sd /\ pass'.sc = pass.sc
        BY <1>2 DEF EnsureAttrs, Goto, PodFails, Passes
      <3>4. RemoveAccesslogOverlay \/ RemoveSyncProvOverlay \/ EnsureAccesslogOverlay
              \/ EnsureReadOnly =>
              pass'.db = pass.db /\ pass'.sd = pass.sd /\ pass'.sc = pass.sc
        BY <1>2 DEF RemoveAccesslogOverlay, RemoveSyncProvOverlay, EnsureAccesslogOverlay,
                    EnsureReadOnly, WriteData, Goto, PodFails, Passes
      <3>5. RemoveAccesslogDB =>
              pass'.db = pass.db /\ pass'.sd = pass.sd /\ pass'.sc = pass.sc
        BY <1>2 DEF RemoveAccesslogDB, Goto, Passes
      <3>6. EnsureSyncProvOverlay \/ EnsureAccesslogAttrs =>
              pass'.db = pass.db /\ pass'.sd = pass.sd /\ pass'.sc = pass.sc
        BY <1>2 DEF EnsureSyncProvOverlay, EnsureAccesslogAttrs, Goto, PodFails, Passes
      <3> QED BY <1>4, <3>1, <3>2, <3>3, <3>4, <3>5, <3>6 DEF ConvergePod
    <2> QED BY <1>1, <2>1, <2>2
  <1> QED BY <1>3, <1>4

\* A teardown takes the journal only when the overlay that names it is gone.
LEMMA TeardownOrder ==
  ASSUME ConfigInv, DeleteFromPod, Has(config, "log", pass.db), Has(config, "data", pass.db)
  PROVE  Has(config', "log", pass.db)
  <1>1. /\ GoodConfig(config, volume) /\ config \in Seq(Entry) /\ pass.step = "delete"
    BY DEF ConfigInv, TypeOK, DeleteFromPod
  <1>2. CASE config' = config
    BY <1>2
  <1>3. CASE /\ Leftovers(pass.db) # {}
             /\ LET i == CHOOSE i \in Leftovers(pass.db) : TRUE
                IN config' = IF IsLeaf(config[i]) THEN Delete(config, i)
                             ELSE [config EXCEPT ![i] = WithoutNextOverlay(config[i])]
    <2> DEFINE i == CHOOSE i \in Leftovers(pass.db) : TRUE
    <2>1. i \in Leftovers(pass.db)
      BY <1>3
    <2>2. \/ config' = Delete(config, i)
          \/ config' = [config EXCEPT ![i] = WithoutNextOverlay(config[i])]
      BY <1>3
    <2> HIDE DEF i
    <2>3. i \in DOMAIN config /\ config[i].db = pass.db /\ config[i].kind = "data"
      BY <1>1, <2>1, LeftoverIs
    <2>4. config[i] \in Entry /\ config[i] \in Entries(config) /\ Sound(config[i])
      BY <1>1, <2>3, EntryAt
    <2>5. CASE config' = Delete(config, i)
      BY <1>1, <2>3, <2>5, DeleteAt
    <2>6. CASE config' = [config EXCEPT ![i] = WithoutNextOverlay(config[i])]
      <3> DEFINE entry == WithoutNextOverlay(config[i])
      <3>1. Allowed(config[i], entry)
        BY <1>1, <2>4, StrippedEntry
      <3>2. Replaces(config, i, entry, config')
        BY <2>6 DEF Replaces
      <3> HIDE DEF entry
      <3> QED BY <1>1, <2>3, <3>1, <3>2, WriteAt
    <2> QED BY <2>2, <2>5, <2>6
  <1> QED BY <1>2, <1>3 DEF DeleteFromPod

\* A step that changes nothing the careful users' invariant is about.
LEMMA CarefulSame ==
  ASSUME ConfigInv, CarefulInv, crs' = crs, cluster' = cluster, table' = table,
         \A d \in Databases : /\ Sourced(config', d) <=> Sourced(config, d)
                              /\ Provides(config', d) <=> Provides(config, d)
                              /\ Has(config', "log", d) <=> Has(config, "log", d),
         pass'.step \in BusySteps =>
           /\ pass.step \in BusySteps /\ pass'.db = pass.db
           /\ pass'.sd = pass.sd /\ pass'.sc = pass.sc
  PROVE  CarefulInv'
  <1>1. SourceJournaled'
    BY DEF CarefulInv, SourceJournaled
  <1>2. JournalMayGo'
    <2>1. pass.step \in BusySteps => pass.db \in Databases
      BY DEF ConfigInv, PassCoherent
    <2> QED BY <2>1 DEF CarefulInv, JournalMayGo, Journals
  <1>3. Listed' = Listed /\ Listed \subseteq Databases
    BY DEF Listed
  <1>4. ASSUME NEW d \in Listed
        PROVE  Kept(d)'
    <2>1. Kept(d) /\ d \in Databases
      BY <1>3 DEF CarefulInv
    <2> QED BY <2>1 DEF Kept
  <1> QED BY <1>1, <1>2, <1>3, <1>4 DEF CarefulInv

\* A pass starts with what is declared.
LEMMA BeginCareful ==
  ASSUME ConfigInv, CarefulInv, NEW d \in Databases, Begin(d)
  PROVE  CarefulInv'
  <1>1. /\ crs' = crs /\ cluster' = cluster /\ table' = table /\ config' = config
        /\ d \in Listed
    BY DEF Begin, others, declared, published, onPod, Listed
  <1>2. pass'.db = d /\ pass'.sd = crs[d].spec /\ pass'.sc = cluster
    BY DEF Begin, NoPass
  <1>3. Listed' = Listed
    BY <1>1 DEF Listed
  <1>4. JournalMayGo'
    <2>1. Kept(d)
      BY <1>1 DEF CarefulInv
    <2>2. ~WantsAccesslog(cluster, crs[d].spec) => ~Sourced(config, d)
      BY <2>1 DEF Kept
    <2> QED BY <1>1, <1>2, <2>2 DEF JournalMayGo, Journals
  <1>5. ASSUME NEW o \in Listed
        PROVE  Kept(o)'
    <2>1. Kept(o)
      BY DEF CarefulInv
    <2> QED BY <1>1, <1>2, <2>1 DEF Kept
  <1>6. SourceJournaled'
    BY <1>1 DEF CarefulInv, SourceJournaled
  <1> QED BY <1>3, <1>4, <1>5, <1>6 DEF CarefulInv

\* A step of a pass: the journal is removed only from under an overlay that does
\* not name it, and added or provided for only where it is wanted.
LEMMA ConvergeCareful ==
  ASSUME ConfigInv, CarefulInv, ConvergePod
  PROVE  CarefulInv'
  <1>1. ConfigInv' /\ PassWrites
    BY PassStepKeeps
  <1>2. /\ cluster' = cluster /\ crs' = crs /\ table' = table
        /\ pass'.step \in BusySteps =>
             /\ pass.step \in BusySteps /\ pass'.db = pass.db
             /\ pass'.sd = pass.sd /\ pass'.sc = pass.sc
    BY PassGoesOn
  <1>3. GoodConfig(config, volume) /\ GoodConfig(config', volume') /\ PassCoherent
    BY <1>1 DEF ConfigInv
  <1>4. \A o \in Databases : o # pass.db =>
          /\ Sourced(config', o) <=> Sourced(config, o)
          /\ Provides(config', o) <=> Provides(config, o)
          /\ Has(config', "log", o) <=> Has(config, "log", o)
    <2>1. Foreign(config', pass.db) = Foreign(config, pass.db)
      BY <1>1 DEF PassWrites
    <2> QED BY <1>3, <2>1, OthersSame
  <1>5. pass.step \in BusySteps \cup {"identity"}
    BY DEF ConvergePod, EnsureDirs, CreateDatabase, EnsureAttrs, RemoveAccesslogOverlay,
           RemoveAccesslogDB, RemoveSyncProvOverlay, EnsureSyncProvOverlay,
           CreateAccesslogDB, EnsureAccesslogAttrs, EnsureAccesslogOverlay,
           EnsureReadOnly, FinishPass, BusySteps, DataSteps
  <1>6. pass.db \in Databases /\ pass.step # "delete"
    BY <1>3, <1>5 DEF PassCoherent, BusySteps, DataSteps
  <1>7. /\ Sourced(config', pass.db) => Sourced(config, pass.db)
        /\ Provides(config', pass.db) => Provides(config, pass.db) \/ pass.step = "provide"
        /\ Has(config', "log", pass.db) => Has(config, "log", pass.db) \/ pass.step = "logcreate"
        /\ Has(config, "log", pass.db) => Has(config', "log", pass.db) \/ pass.step = "unlog"
    BY <1>1, <1>6 DEF PassWrites
  <1>8. SourceJournaled'
    <2>1. pass.step = "unlog" => ~Sourced(config, pass.db)
      BY <1>3 DEF CarefulInv, JournalMayGo, PassCoherent, BusySteps, DataSteps
    <2>2. Sourced(config', pass.db) => Has(config', "log", pass.db)
      BY <1>6, <1>7, <2>1 DEF CarefulInv, SourceJournaled
    <2>3. \A o \in Databases : o # pass.db => (Sourced(config', o) => Has(config', "log", o))
      BY <1>4 DEF CarefulInv, SourceJournaled
    <2> QED BY <2>2, <2>3 DEF SourceJournaled
  <1>9. JournalMayGo'
    BY <1>2, <1>7 DEF CarefulInv, JournalMayGo, Journals
  <1>10. Listed' = Listed /\ Listed \subseteq Databases
    BY <1>2 DEF Listed
  <1>11. ASSUME NEW o \in Listed
         PROVE  Kept(o)'
    <2>1. Kept(o) /\ o \in Databases
      BY <1>10 DEF CarefulInv
    <2>2. CASE o # pass.db
      BY <1>2, <1>4, <2>1, <2>2 DEF Kept
    <2>3. CASE o = pass.db /\ WantsAccesslog(cluster, crs[o].spec)
      BY <1>2, <2>3 DEF Kept
    <2>4. CASE /\ o = pass.db /\ DesiredSessionlog(crs[o].spec) # "Accesslog"
               /\ o \notin table /\ ~Sourced(config, o)
      BY <1>2, <1>7, <2>4 DEF Kept
    <2>5. CASE /\ o = pass.db /\ ~WantsAccesslog(cluster, crs[o].spec)
               /\ ~Sourced(config, o) /\ ~(Provides(config, o) /\ Has(config, "log", o))
               /\ pass.step \in BusySteps => pass.sd = crs[o].spec /\ pass.sc = cluster
      <3>1. pass.step \in BusySteps => ~Journals(pass)
        BY <2>5 DEF Journals
      <3>2. pass.step # "logcreate"
        BY <1>3, <3>1 DEF PassCoherent, BusySteps, DataSteps
      <3>3. pass.step = "provide" => ~Has(config, "log", pass.db)
        BY <1>3, <3>1 DEF PassCoherent, BusySteps, DataSteps
      <3>4. ~(Provides(config', o) /\ Has(config', "log", o)) /\ ~Sourced(config', o)
        BY <1>7, <2>5, <3>2, <3>3
      <3> QED BY <1>2, <2>5, <3>4 DEF Kept
    <2> QED BY <2>1, <2>2, <2>3, <2>4, <2>5 DEF Kept
  <1> QED BY <1>8, <1>9, <1>10, <1>11 DEF CarefulInv

\* A teardown takes the overlay before the journal it names.
LEMMA TeardownCareful ==
  ASSUME ConfigInv, CarefulInv, DeleteFromPod
  PROVE  CarefulInv'
  <1>1. ConfigInv' /\ PassWrites
    BY PassStepKeeps
  <1>2. /\ GoodConfig(config, volume) /\ GoodConfig(config', volume')
        /\ PassCoherent /\ TypeOK
    BY <1>1 DEF ConfigInv
  <1>3. /\ cluster' = cluster /\ table' = table /\ pass.step = "delete"
        /\ pass' = pass \/ pass' = NoPass
        /\ crs' = crs \/ FinalizerGoes(pass.db)
    BY DEF DeleteFromPod, published
  <1>4. pass.db \in Databases /\ pass.step \notin BusySteps /\ pass'.step \notin BusySteps
    BY <1>2, <1>3, NoPassCoherent DEF PassCoherent, BusySteps, DataSteps
  <1>5. \A o \in Databases : o # pass.db =>
          /\ Sourced(config', o) <=> Sourced(config, o)
          /\ Provides(config', o) <=> Provides(config, o)
          /\ Has(config', "log", o) <=> Has(config, "log", o)
    <2>1. Foreign(config', pass.db) = Foreign(config, pass.db)
      BY <1>1 DEF PassWrites
    <2> QED BY <1>2, <2>1, OthersSame
  <1>6. /\ Sourced(config', pass.db) => Sourced(config, pass.db)
        /\ Provides(config', pass.db) => Provides(config, pass.db)
        /\ Has(config', "log", pass.db) => Has(config, "log", pass.db)
    BY <1>1, <1>3 DEF PassWrites
  <1>7. SourceJournaled'
    <2>1. Sourced(config, pass.db) => Has(config, "data", pass.db)
      BY <1>2 DEF Sourced, Has, GoodConfig, Sound
    <2>2. Sourced(config', pass.db) => Has(config', "log", pass.db)
      BY <1>4, <1>6, <2>1, TeardownOrder DEF CarefulInv, SourceJournaled
    <2>3. \A o \in Databases : o # pass.db => (Sourced(config', o) => Has(config', "log", o))
      BY <1>5 DEF CarefulInv, SourceJournaled
    <2> QED BY <2>2, <2>3 DEF SourceJournaled
  <1>8. JournalMayGo'
    BY <1>4 DEF JournalMayGo
  <1>9. \A o \in Listed' : o \in Listed /\ crs'[o].spec = crs[o].spec /\ o \in Databases
    BY <1>2, <1>3, <1>4 DEF Listed, FinalizerGoes, TypeOK
  <1>10. ASSUME NEW o \in Listed'
         PROVE  Kept(o)'
    <2>1. Kept(o) /\ o \in Databases /\ crs'[o].spec = crs[o].spec
      BY <1>9 DEF CarefulInv
    <2>2. /\ Sourced(config', o) => Sourced(config, o)
          /\ Provides(config', o) => Provides(config, o)
          /\ Has(config', "log", o) => Has(config, "log", o)
      BY <1>5, <1>6, <2>1
    <2> QED BY <1>3, <1>4, <2>1, <2>2 DEF Kept
  <1> QED BY <1>7, <1>8, <1>10 DEF CarefulInv

\* A deletion takes a database off the list, and no journal from one that stays.
LEMMA BeginDeletionCareful ==
  ASSUME ConfigInv, CarefulInv, NEW d \in Databases, BeginDeletion(d)
  PROVE  CarefulInv'
  <1>1. /\ cluster' = cluster /\ table' = table /\ config' = config
        /\ crs' = crs \/ FinalizerGoes(d)
        /\ pass' = pass \/ pass' = [NoPass EXCEPT !.step = "delete", !.db = d]
        /\ pass.step = "idle"
    BY DEF BeginDeletion, published, onPod
  <1>2. pass'.step \notin BusySteps
    BY <1>1 DEF NoPass, BusySteps, DataSteps
  <1>3. \A o \in Listed' : o \in Listed /\ crs'[o].spec = crs[o].spec
    BY <1>1 DEF ConfigInv, TypeOK, Listed, FinalizerGoes
  <1>4. ASSUME NEW o \in Listed'
        PROVE  Kept(o)'
    <2>1. Kept(o) /\ crs'[o].spec = crs[o].spec
      BY <1>3 DEF CarefulInv
    <2> QED BY <1>1, <1>2, <2>1 DEF Kept
  <1>5. SourceJournaled' /\ JournalMayGo'
    BY <1>1, <1>2 DEF CarefulInv, SourceJournaled, JournalMayGo
  <1> QED BY <1>4, <1>5 DEF CarefulInv

\* A pod start makes an overlay name a journal that is configured, for a database
\* of the table, and the table does not name one whose journal may go.
LEMMA StartCareful ==
  ASSUME ConfigInv, CarefulInv, StartPod
  PROVE  CarefulInv'
  <1>1. /\ GoodConfig(config, volume) /\ config' = ConvergeOffline(config, table)
        /\ crs' = crs /\ cluster' = cluster /\ table' = table /\ pass' = pass
    BY DEF ConfigInv, StartPod, declared, published
  <1>2. pass.step \notin BusySteps
    BY DEF ConfigInv, PassCoherent, StartPod
  <1>3. /\ DOMAIN config' = DOMAIN config
        /\ \A i \in DOMAIN config :
             /\ config'[i].kind = config[i].kind /\ config'[i].db = config[i].db
             /\ config'[i].syncprov = config[i].syncprov
             /\ config'[i].source =>
                  \/ config[i].source
                  \/ config[i].syncprov /\ config[i].kind = "data" /\ config[i].db \in table
                     /\ Has(config, "log", config[i].db)
        /\ \A k, d : Has(config', k, d) <=> Has(config, k, d)
    BY <1>1, Converged
  <1>4. \A d : Provides(config', d) => Provides(config, d)
    BY <1>3 DEF Provides, Entries
  <1>5. \A d : Sourced(config', d) =>
          \/ Sourced(config, d)
          \/ Provides(config, d) /\ d \in table /\ Has(config, "log", d)
    BY <1>3 DEF Sourced, Provides, Entries
  <1>6. SourceJournaled'
    BY <1>3, <1>5 DEF CarefulInv, SourceJournaled
  <1>7. JournalMayGo'
    BY <1>1, <1>2 DEF JournalMayGo
  <1>8. Listed' = Listed
    BY <1>1 DEF Listed
  <1>9. ASSUME NEW d \in Listed
        PROVE  Kept(d)'
    <2>1. Kept(d)
      BY DEF CarefulInv
    <2>2. /\ Provides(config', d) => Provides(config, d)
          /\ Has(config', "log", d) <=> Has(config, "log", d)
          /\ Sourced(config', d) =>
               \/ Sourced(config, d)
               \/ Provides(config, d) /\ d \in table /\ Has(config, "log", d)
      BY <1>3, <1>4, <1>5
    <2> QED BY <1>1, <1>2, <2>1, <2>2 DEF Kept
  <1> QED BY <1>6, <1>7, <1>8, <1>9 DEF CarefulInv

\* The table that is published names a database only where its journal is wanted
\* as the session log.
LEMMA WorkloadCareful ==
  ASSUME ConfigInv, CarefulInv, ApplyWorkload
  PROVE  CarefulInv'
  <1>1. /\ crs' = crs /\ cluster' = cluster /\ pass' = pass /\ config' = config
        /\ table' = StartupConfigFor(Declared)
    BY DEF ApplyWorkload, declared, onPod
  <1>2. \A d \in table' : d \in Listed /\ DesiredSessionlog(crs[d].spec) = "Accesslog"
    BY <1>1 DEF StartupConfigFor, Declared
  <1>3. Listed' = Listed
    BY <1>1 DEF Listed
  <1>4. ASSUME NEW d \in Listed
        PROVE  Kept(d)'
    <2>1. Kept(d)
      BY DEF CarefulInv
    <2> QED BY <1>1, <1>2, <2>1 DEF Kept
  <1>5. SourceJournaled' /\ JournalMayGo'
    BY <1>1 DEF CarefulInv, SourceJournaled, JournalMayGo, Journals
  <1> QED BY <1>3, <1>4, <1>5 DEF CarefulInv

\* What a careful user declares keeps the journal or asks for none.
LEMMA SafeIsKept ==
  ASSUME Careful, NEW d \in Databases, NEW sc, NEW sd, SafeFor(d, sc, sd)
  PROVE  \/ WantsAccesslog(sc, sd)
         \/ DesiredSessionlog(sd) # "Accesslog" /\ d \notin table /\ ~Sourced(config, d)
  BY DEF Careful, SafeFor, Sourced, Entries

\* A careful edit takes a journal away only where nothing names it.
LEMMA UsersCareful ==
  ASSUME Careful, ConfigInv, CarefulInv, Users
  PROVE  CarefulInv'
  <1>1. /\ table' = table /\ pass' = pass /\ config' = config /\ TypeOK
        /\ Listed \subseteq Databases
    BY DEF Users, CreateDatabaseCR, EditDatabaseCR, DeleteDatabaseCR, ForceDeletion,
           EditCluster, published, onPod, ConfigInv, Listed
  <1>2. SourceJournaled' /\ JournalMayGo'
    BY <1>1 DEF CarefulInv, SourceJournaled, JournalMayGo, Journals
  <1>3. ASSUME NEW d \in Databases, NEW s, SafeFor(d, cluster, s), cluster' = cluster,
               crs'[d].spec = s,
               \A o \in Databases : o # d => crs'[o] = crs[o]
        PROVE  \A o \in Listed' : Kept(o)'
    <2> SUFFICES ASSUME NEW o \in Listed'
                 PROVE  Kept(o)'
      OBVIOUS
    <2>1. o \in Databases
      BY DEF Listed
    <2>2. CASE o = d
      <3>1. \/ WantsAccesslog(cluster, s)
            \/ DesiredSessionlog(s) # "Accesslog" /\ d \notin table /\ ~Sourced(config, d)
        BY <1>3, SafeIsKept
      <3> QED BY <1>1, <1>3, <2>2, <3>1 DEF Kept
    <2>3. CASE o # d
      <3>1. o \in Listed /\ crs'[o].spec = crs[o].spec
        BY <1>3, <2>1, <2>3 DEF Listed
      <3>2. Kept(o)
        BY <3>1 DEF CarefulInv
      <3> QED BY <1>1, <1>3, <3>1, <3>2 DEF Kept
    <2> QED BY <2>2, <2>3
  <1>4. ASSUME NEW d \in Databases, CreateDatabaseCR(d)
        PROVE  \A o \in Listed' : Kept(o)'
    <2>1. PICK s \in DatabaseSpecs :
            /\ SafeFor(d, cluster, s)
            /\ crs' = [crs EXCEPT ![d] = [state |-> "declared", spec |-> s]]
      BY <1>4 DEF CreateDatabaseCR
    <2>2. crs'[d].spec = s /\ \A o \in Databases : o # d => crs'[o] = crs[o]
      BY <1>1, <2>1 DEF TypeOK
    <2>3. cluster' = cluster
      BY <1>4 DEF CreateDatabaseCR
    <2> QED BY <1>3, <2>1, <2>2, <2>3
  <1>5. ASSUME NEW d \in Databases, EditDatabaseCR(d)
        PROVE  \A o \in Listed' : Kept(o)'
    <2>1. PICK s \in DatabaseSpecs :
            SafeFor(d, cluster, s) /\ crs' = [crs EXCEPT ![d].spec = s]
      BY <1>5 DEF EditDatabaseCR
    <2>2. crs'[d].spec = s /\ \A o \in Databases : o # d => crs'[o] = crs[o]
      BY <1>1, <2>1 DEF TypeOK
    <2>3. cluster' = cluster
      BY <1>5 DEF EditDatabaseCR
    <2> QED BY <1>3, <2>1, <2>2, <2>3
  <1>6. ASSUME NEW d \in Databases, DeleteDatabaseCR(d) \/ ForceDeletion(d)
        PROVE  \A o \in Listed' : Kept(o)'
    <2>1. /\ cluster' = cluster
          /\ \E state : crs' = [crs EXCEPT ![d].state = state]
      BY <1>6 DEF DeleteDatabaseCR, ForceDeletion, FinalizerGoes
    <2>2. \A o \in Listed' : o \in Listed /\ crs'[o].spec = crs[o].spec
      BY <1>1, <1>6, <2>1
         DEF Listed, TypeOK, DeleteDatabaseCR, ForceDeletion, FinalizerGoes
    <2> SUFFICES ASSUME NEW o \in Listed'
                 PROVE  Kept(o)'
      OBVIOUS
    <2>3. Kept(o) /\ crs'[o].spec = crs[o].spec
      BY <2>2 DEF CarefulInv
    <2> QED BY <1>1, <2>1, <2>3 DEF Kept
  <1>7. ASSUME EditCluster
        PROVE  \A o \in Listed' : Kept(o)'
    <2>1. PICK s \in ClusterSpecs :
            (\A d \in Listed : SafeFor(d, s, crs[d].spec)) /\ cluster' = s
      BY <1>7 DEF EditCluster
    <2>2. crs' = crs /\ Listed' = Listed
      BY <1>7 DEF EditCluster, Listed
    <2> SUFFICES ASSUME NEW o \in Listed
                 PROVE  Kept(o)'
      BY <2>2
    <2>3. \/ WantsAccesslog(s, crs[o].spec)
          \/ DesiredSessionlog(crs[o].spec) # "Accesslog" /\ o \notin table
             /\ ~Sourced(config, o)
      BY <1>1, <2>1, SafeIsKept
    <2> QED BY <1>1, <2>1, <2>2, <2>3 DEF Kept
  <1>8. \A o \in Listed' : Kept(o)'
    BY <1>4, <1>5, <1>6, <1>7 DEF Users
  <1> QED BY <1>2, <1>8 DEF CarefulInv

\* A pod starts with no data database, at most with a journal that was left over.
LEMMA InitCareful ==
  ASSUME Init
  PROVE  CarefulInv
  <1>1. GoodConfig(config, volume) /\ pass.step \notin BusySteps
    <2>1. ConfigInv /\ pass = NoPass
      BY InitConfig DEF Init
    <2> QED BY <2>1, NoPassCoherent DEF ConfigInv, BusySteps, DataSteps
  <1>2. \A e \in Entries(config) : e.kind = "log"
    <2>1. \/ config = <<>>
          \/ \E d \in Databases : config = <<LogEntry(cluster, d, crs[d].spec)>>
      BY DEF Init
    <2>2. CASE config = <<>>
      BY <2>2 DEF Entries
    <2>3. ASSUME NEW d \in Databases, config = <<LogEntry(cluster, d, crs[d].spec)>>
          PROVE  \A e \in Entries(config) : e.kind = "log"
      <3>1. cluster \in ClusterSpecs /\ crs[d].spec \in DatabaseSpecs
        BY DEF Init
      <3>2. LogEntry(cluster, d, crs[d].spec).kind = "log"
        BY <3>1, AddedEntries
      <3> DEFINE e == LogEntry(cluster, d, crs[d].spec)
      <3> HIDE DEF e
      <3>3. config = <<e>> /\ e.kind = "log"
        BY <2>3, <3>2 DEF e
      <3>4. DOMAIN config = {1} /\ config[1] = e
        BY <3>3
      <3> QED BY <3>3, <3>4 DEF Entries
    <2> QED BY <2>1, <2>2, <2>3
  <1>3. \A d : ~Sourced(config, d) /\ ~Provides(config, d)
    BY <1>1, <1>2 DEF Sourced, Provides, GoodConfig, Sound
  <1> QED BY <1>1, <1>3 DEF CarefulInv, SourceJournaled, JournalMayGo, Kept

\* Every step keeps the journal a session log names.
LEMMA NextCareful ==
  ASSUME Careful, ConfigInv, CarefulInv, [Next]_vars
  PROVE  CarefulInv'
  <1>1. pass \in Passes
    BY DEF ConfigInv, TypeOK
  <1>2. ASSUME NEW d \in Databases, Begin(d) \/ BeginDeletion(d)
        PROVE  CarefulInv'
    BY <1>2, BeginCareful, BeginDeletionCareful
  <1>3. CASE ConvergePod \/ DeleteFromPod
    BY <1>3, ConvergeCareful, TeardownCareful
  <1>4. CASE ApplyWorkload
    BY <1>4, WorkloadCareful
  <1>5. CASE \E fails : ReconcileInfrastructure(fails)
    <2>1. PICK fails : ReconcileInfrastructure(fails)
      BY <1>5
    <2>2. /\ GoodConfig(config, volume) /\ GoodConfig(config', volume)
          /\ Theirs(config') = Theirs(config)
      BY <2>1, InfrastructureDoes DEF ConfigInv
    <2>3. \A d : /\ Sourced(config', d) <=> Sourced(config, d)
                 /\ Provides(config', d) <=> Provides(config, d)
                 /\ Has(config', "log", d) <=> Has(config, "log", d)
      BY <2>2, TheirsSame
    <2>4. crs' = crs /\ cluster' = cluster /\ table' = table /\ pass' = pass
      BY <2>1 DEF ReconcileInfrastructure, declared, published
    <2> QED BY <2>3, <2>4, CarefulSame
  <1>6. CASE StartPod
    BY <1>6, StartCareful
  <1>7. CASE StepFails \/ DeleteFails \/ RestartPod \/ Crash
    <2>1. crs' = crs /\ cluster' = cluster /\ table' = table /\ config' = config
      BY <1>7 DEF StepFails, DeleteFails, RestartPod, Crash, declared, published, onPod
    <2>2. pass' = pass \/ pass'.step \notin BusySteps
      <3>1. PodFails => pass'.step = "identity"
        BY <1>1 DEF PodFails, Goto, Passes
      <3>2. NoPass.step = "idle"
        BY NoPassCoherent
      <3>3. pass' = pass \/ pass' = NoPass \/ PodFails
        BY <1>7 DEF StepFails, DeleteFails, RestartPod, Crash
      <3> QED BY <3>1, <3>2, <3>3 DEF BusySteps, DataSteps
    <2> QED BY <2>1, <2>2, CarefulSame
  <1>8. CASE RunJob \/ ApplySchemaToPod \/ IssueCertificate \/ UNCHANGED vars
    <2>1. /\ crs' = crs /\ cluster' = cluster /\ table' = table /\ config' = config
          /\ pass' = pass
      BY <1>8 DEF RunJob, ApplySchemaToPod, IssueCertificate, vars, declared, published,
                  onPod
    <2> QED BY <2>1, CarefulSame
  <1>9. CASE Users
    BY <1>9, UsersCareful
  <1> QED BY <1>2, <1>3, <1>4, <1>5, <1>6, <1>7, <1>8, <1>9
          DEF Next, Faults, ConvergeInfrastructure, InfrastructureFails

\* A configuration in which every journal that is named is there starts.
LEMMA GoodIsBootable ==
  ASSUME ConfigInv, CarefulInv
  PROVE  Bootable
  <1> DEFINE cfg == ConvergeOffline(config, table)
             dirs == volume \cup dirsMap \cup {<<"auth">>}
  <1>1. GoodConfig(config, volume)
    BY DEF ConfigInv
  <1>2. /\ GoodConfig(cfg, volume) /\ DOMAIN cfg = DOMAIN config
        /\ \A i \in DOMAIN config :
             /\ cfg[i].kind = config[i].kind /\ cfg[i].db = config[i].db
             /\ cfg[i].source =>
                  \/ config[i].source
                  \/ config[i].syncprov /\ config[i].kind = "data" /\ config[i].db \in table
                     /\ Has(config, "log", config[i].db)
        /\ \A k, d : Has(cfg, k, d) <=> Has(config, k, d)
    BY <1>1, Converged
  <1> HIDE DEF cfg
  <1>3. \A i \in DOMAIN cfg : cfg[i] \in Entries(cfg) /\ Sound(cfg[i])
    BY <1>2, EntryAt
  <1>4. ASSUME NEW i \in DOMAIN cfg, cfg[i].accesslog \/ cfg[i].source
        PROVE  FindLogDB(cfg, cfg[i].db) # 0
    <2>1. CASE cfg[i].accesslog
      <3>1. Has(cfg, "log", cfg[i].db)
        BY <1>2, <1>3, <2>1 DEF GoodConfig
      <3>2. cfg \in Seq(Entry)
        BY <1>2 DEF GoodConfig
      <3> QED BY <3>1, <3>2, FindFacts DEF FindLogDB
    <2>2. CASE cfg[i].source
      <3>1. cfg[i].db \in Databases
        BY <1>3, <2>2 DEF Sound
      <3>2. config[i].source => Sourced(config, config[i].db)
        BY <1>2 DEF Sourced, Entries
      <3>3. Has(config, "log", cfg[i].db)
        BY <1>2, <2>2, <3>1, <3>2 DEF CarefulInv, SourceJournaled
      <3>4. Has(cfg, "log", cfg[i].db) /\ cfg \in Seq(Entry)
        BY <1>2, <3>3 DEF GoodConfig
      <3> QED BY <3>4, FindFacts DEF FindLogDB
    <2> QED BY <1>4, <2>1, <2>2
  <1>5. \A i \in DOMAIN cfg :
          cfg[i].kind \in {"data", "log"} => <<cfg[i].kind, cfg[i].db>> \in dirs
    BY <1>2, <1>3 DEF GoodConfig
  <1> QED BY <1>4, <1>5 DEF Bootable, Startable, Resolves, cfg

\* Where users take no journal away that the table or an overlay names, slapd can
\* start at any moment on what the operator has left so far: between any two
\* writes, after a crash, a failed write, a teardown that was interrupted or a
\* finalizer that was removed by hand.
THEOREM SlapdCanStart == Careful => (Spec => []Bootable)
  <1> SUFFICES ASSUME Careful
               PROVE  Spec => []Bootable
    OBVIOUS
  <1>1. Init => ConfigInv /\ CarefulInv
    BY InitConfig, InitCareful
  <1>2. ConfigInv /\ CarefulInv /\ [Next]_vars => (ConfigInv /\ CarefulInv)'
    BY NextConfig, NextCareful
  <1>3. ConfigInv /\ CarefulInv => Bootable
    BY GoodIsBootable
  <1> QED BY <1>1, <1>2, <1>3, PTL DEF Spec

=============================================================================
