---------------------------- MODULE SeedFounding ----------------------------
(***************************************************************************)
(* The founding of one database over the sites of a mesh                   *)
(* (operator/internal/controller: seed_site.go, seed_withhold.go,          *)
(* siteidentity.go, data_present.go, the seed and DataPresent parts of     *)
(* slapddatabase_controller.go; operator/internal/suffixprobe).            *)
(*                                                                         *)
(* Every site has an operator of its own, which reads the same             *)
(* SlapdDatabase.  One pass of it seeds pod-0 entry by entry while         *)
(* replication may bring the same names from another site, and then looks  *)
(* at the suffix entry on all of its pods.  An entry's identity is its     *)
(* entryUUID: the same name created at two sites is two entries, and the   *)
(* conflict may leave a glue entry, which searches do not show, for good.  *)
(*                                                                         *)
(* Environment is what happens around the operators: "wipe" (a pod loses   *)
(* its volume), "unreachable" (a pod does not answer), "unreadable" (the   *)
(* entryCSN is not readable) and "crash" (an operator dies).               *)
(***************************************************************************)
EXTENDS Integers, Sequences, FiniteSets

CONSTANTS
  Sites,
  Pods,          \* [site |-> s, ordinal |-> n, readOnly |-> b]
  ServerIDBase,  \* per site: spec.replication.serverIDBase
  Founders,      \* the values seed.site may have
  Unset,
  MaxEvents,     \* bound on what goes wrong, per value of seed.site
  Environment

ASSUME SeedFoundingConstants ==
  /\ ServerIDBase \in [Sites -> Nat]
  /\ Founders \subseteq Sites \cup {Unset}
  /\ MaxEvents \in [Founders -> Nat]
  /\ Environment \subseteq {"wipe", "unreachable", "unreadable", "crash"}

\* Every pod belongs to a site, and replicas is at least one: there is a pod-0.
ASSUME PodsOfSites ==
  /\ \A p \in Pods : p.site \in Sites /\ p.ordinal \in Nat
  /\ \A s \in Sites : \E p \in Pods : p.site = s /\ p.ordinal = 0 /\ ~p.readOnly

VARIABLES
  seedSite,   \* spec.seed.site, read alike at every site that has a seed
  seeds,      \* the sites whose SlapdDatabase carries a seed
  siteName,   \* per site, the SITE_NAME of its operator
  dit,        \* per pod, what it holds under each name
  pass,       \* per site, the pass that runs
  status,     \* per site, the status of its SlapdDatabase
  held,       \* per site: a pod of it has held the suffix entry
  minted,     \* the entries that operators have created
  events

vars == <<seedSite, seeds, siteName, dit, pass, status, held, minted, events>>

Event(kind) ==
  /\ kind \in Environment /\ events < MaxEvents[seedSite]
  /\ events' = events + 1

PodsOf(s) == {p \in Pods : p.site = s}
Replicas(s) == Cardinality({p \in PodsOf(s) : ~p.readOnly})
Pod0(s) == CHOOSE p \in PodsOf(s) : p.ordinal = 0 /\ ~p.readOnly

----------------------------------------------------------------------------
\* What a pod holds under a name.

Seed == <<"suffix", "child">>
Names == {"suffix", "child"}

Absent == [kind |-> "absent", uuid |-> 0, sid |-> 0]
Entry(uuid, sid) == [kind |-> "entry", uuid |-> uuid, sid |-> sid]

\* An ancestor slapd makes for a child that came first, replaced by the real
\* entry when it comes; and the remains of a conflict, which stay.
Placeholder == [Absent EXCEPT !.kind = "placeholder"]
Glue == [Absent EXCEPT !.kind = "glue"]

Empty == [n \in Names |-> Absent]
Visible(e) == e.kind = "entry"
Glued(e) == e.kind \in {"glue", "placeholder"}

\* The serverID of a pod, which its entries carry in their entryCSN.
ServerID(p) == ServerIDBase[p.site] + p.ordinal + 1

----------------------------------------------------------------------------
\* The decisions, each a function of what it reads.

\* An operator without an identity takes itself for the founder.
DecideSeedSite_UnsetMatches(site, self) ==
  IF site = Unset \/ self = Unset \/ site = self THEN "apply" ELSE "withhold"

\* decideSeedSite.
DecideSeedSite(site, self) ==
  IF site = Unset THEN "apply"
  ELSE IF self = Unset THEN "unknown identity"
  ELSE IF site # self THEN "withhold" ELSE "apply"

\* seedNeeded: the one-way latch on this SlapdDatabase and nothing else.
SeedNeeded(s) == s \in seeds /\ ~status[s].seedApplied

\* Any creator counts as another one's.
SeedCreatorIsForeign_Any(s, sid) == TRUE

\* seedCreatorIsForeign: outside of this cluster's own serverIDs.
SeedCreatorIsForeign(s, sid) ==
  sid < ServerIDBase[s] + 1 \/ sid > ServerIDBase[s] + Replicas(s)

\* The withhold probe of applySeedData on pod-0, which sees no hidden entry.
ForeignCreator(s) ==
  LET e == dit[Pod0(s)]["suffix"]
  IN Visible(e) /\ SeedCreatorIsForeign(s, e.sid)

\* suffixprobe.Probe and Classify: an ordinary search, then one with
\* ManageDsaIT; no answer is no verdict.
Probe(p, reached) ==
  LET e == dit[p]["suffix"]
  IN IF p \notin reached THEN "error"
     ELSE IF Visible(e) THEN "visible" ELSE IF Glued(e) THEN "glue" ELSE "missing"

\* A glue is taken for data.
DataWasObserved_Glue(outcome) == \E p \in DOMAIN outcome : outcome[p] \in {"visible", "glue"}

\* dataWasObserved: positive evidence only.
DataWasObserved(outcome) == \E p \in DOMAIN outcome : outcome[p] = "visible"

\* databaseKnownPopulated; no restore happens here.
DatabaseKnownPopulated(st) == st.seedApplied \/ st.dataObserved

\* One pod that shows the entry is enough.
AggregateDataPresent_AnyPod(outcome, known) ==
  IF \E p \in DOMAIN outcome : outcome[p] = "visible" THEN "RootEntryVisible"
  ELSE IF \A p \in DOMAIN outcome : outcome[p] = "error" THEN "NoReachablePod"
  ELSE IF known THEN "DataMissing" ELSE "NoDataYet"

\* aggregateDataPresent: the reason; its status follows from it.
AggregateDataPresent(outcome, known) ==
  LET with(o) == {p \in DOMAIN outcome : outcome[p] = o}
  IN CASE with("glue") # {} -> "GlueSuffix"
       [] with("glue") = {} /\ with("visible") = {} /\ with("missing") = {} -> "NoReachablePod"
       [] OTHER ->
            IF with("missing") = {} THEN "RootEntryVisible"
            ELSE IF (\A p \in with("missing") : p.readOnly) /\ with("visible") # {}
            THEN "DataMissingOnReadOnlyPods"
            ELSE IF with("visible") = {}
            THEN IF known THEN "DataMissing" ELSE "NoDataYet"
            ELSE "DataMissingOnPods"

----------------------------------------------------------------------------
\* One pass of a site's operator.

\* next is the entry to add, 0 outside of applySeedData; latch is what
\* SeedApplied will be.
NoPass == [step |-> "idle", next |-> 0, latch |-> FALSE]

Observe(s, latch) ==
  pass' = [pass EXCEPT ![s] = [step |-> "observe", next |-> 0, latch |-> latch]]

\* The site gate, then on pod-0 the search for a foreign creator.
ReconcileSeed(s) ==
  LET decision == DecideSeedSite(seedSite, siteName[s])
      apply == pass' = [pass EXCEPT ![s] = [step |-> "seed", next |-> 1, latch |-> FALSE]]
  IN /\ pass[s] = NoPass
     /\ IF ~SeedNeeded(s) THEN Observe(s, FALSE) /\ UNCHANGED events
        ELSE \/ decision = "withhold" /\ Observe(s, TRUE) /\ UNCHANGED events
             \/ decision = "unknown identity" /\ Observe(s, FALSE) /\ UNCHANGED events
             \/ decision = "apply" /\ ForeignCreator(s)
                  /\ Observe(s, TRUE) /\ UNCHANGED events
             \/ decision = "apply" /\ ~ForeignCreator(s)
                  /\ apply /\ UNCHANGED events
             \/ decision = "apply" /\ Event("unreadable") /\ apply
             \/ decision = "apply" /\ Event("unreachable") /\ Observe(s, FALSE)
     /\ UNCHANGED <<seedSite, seeds, siteName, dit, status, held, minted>>

\* applySeedEntry and the search that verifies it.  An entry that is there is
\* left alone; a hidden one makes the add a no-op that the search then finds
\* missing, which ends the seed for this pass.
SeedEntry(s) ==
  LET p == Pod0(s)
      name == Seed[pass[s].next]
      new == Entry(Cardinality(minted) + 1, ServerID(p))
      proceed == pass' = [pass EXCEPT ![s].next = @ + 1]
  IN /\ pass[s].step = "seed" /\ pass[s].next <= Len(Seed)
     /\ \/ /\ Visible(dit[p][name])
           /\ proceed
           /\ UNCHANGED <<dit, held, minted>>
        \/ /\ dit[p][name] = Absent /\ (name = "suffix" \/ dit[p]["suffix"] # Absent)
           /\ dit' = [dit EXCEPT ![p][name] = new]
           /\ held' = [held EXCEPT ![s] = @ \/ name = "suffix"]
           /\ minted' = minted \cup {[name |-> name, uuid |-> new.uuid]}
           /\ proceed
        \/ /\ \/ Glued(dit[p][name])
              \/ dit[p][name] = Absent /\ name # "suffix" /\ dit[p]["suffix"] = Absent
           /\ Observe(s, FALSE)
           /\ UNCHANGED <<dit, held, minted>>
     /\ UNCHANGED <<seedSite, seeds, siteName, status, events>>

\* The last entry is verified; the caller sets the latch.
SeedVerified(s) ==
  /\ pass[s].step = "seed" /\ pass[s].next > Len(Seed)
  /\ Observe(s, TRUE)
  /\ UNCHANGED <<seedSite, seeds, siteName, dit, status, held, minted, events>>

\* evaluateDataPresent over the pods that answer, and the status write that
\* publishes both latches and the condition.
EvaluateDataPresent(s, reached) ==
  LET outcome == [p \in PodsOf(s) |-> Probe(p, reached)]
      seeded == [status[s] EXCEPT !.seedApplied = @ \/ pass[s].latch]
  IN /\ pass[s].step = "observe"
     /\ status' = [status EXCEPT ![s] =
          [seeded EXCEPT !.dataObserved = @ \/ DataWasObserved(outcome),
             !.reason = AggregateDataPresent(outcome, DatabaseKnownPopulated(seeded))]]
     /\ pass' = [pass EXCEPT ![s] = NoPass]
     /\ UNCHANGED <<seedSite, seeds, siteName, dit, held, minted>>

PublishStatus(s) == EvaluateDataPresent(s, PodsOf(s)) /\ UNCHANGED events

PublishPartial(s) ==
  /\ \E silent \in SUBSET PodsOf(s) \ {{}} : EvaluateDataPresent(s, PodsOf(s) \ silent)
  /\ Event("unreachable")

\* The operator dies before it has written the status.
Crash(s) ==
  /\ pass[s] # NoPass /\ Event("crash")
  /\ pass' = [pass EXCEPT ![s] = NoPass]
  /\ UNCHANGED <<seedSite, seeds, siteName, dit, status, held, minted>>

----------------------------------------------------------------------------
\* Replication, volumes and the installation.

\* What a name may become on a pod that pulls another one's entry e over its
\* own.  Two identities under one name are a conflict: one of the two wins, or
\* the suffix, having a child, is turned into a glue entry.
Merge(mine, e, child) ==
  IF mine.kind \in {"absent", "placeholder"} THEN {e}
  ELSE IF mine.kind = "glue" \/ ~Visible(e) \/ mine.uuid = e.uuid THEN {mine}
  ELSE {mine, e} \cup IF child # Absent THEN {Glue} ELSE {}

\* Read-only pods provide nothing.  A child that comes first brings a glue
\* ancestor with it.
Replicate(p, q, name) ==
  LET e == dit[p][name]
      mine == dit[q][name]
  IN /\ p # q /\ ~p.readOnly /\ e # Absent
     /\ mine # e
     /\ \E after \in Merge(mine, e, IF name = "suffix" THEN dit[q]["child"] ELSE Absent) :
          /\ after # mine
          /\ dit' = [dit EXCEPT ![q] =
               [n \in Names |-> IF n = name THEN after
                               ELSE IF n = "suffix" /\ dit[q][n] = Absent THEN Placeholder
                               ELSE dit[q][n]]]
          /\ held' = [held EXCEPT ![q.site] = @ \/ Visible(dit'[q]["suffix"])]
     /\ UNCHANGED <<seedSite, seeds, siteName, pass, status, minted, events>>

\* A pod comes back with a new volume.  (Not the founder's own pod between its
\* first seed entry and the latch: the seed that follows would be a second one.)
WipePod(p) ==
  /\ dit[p] # Empty /\ Event("wipe")
  /\ p.site = seedSite => status[p.site].seedApplied
  /\ dit' = [dit EXCEPT ![p] = Empty]
  /\ UNCHANGED <<seedSite, seeds, siteName, pass, status, held, minted>>

\* The operator is installed again with its siteName.
SetSiteName(s) ==
  /\ siteName[s] = Unset
  /\ siteName' = [siteName EXCEPT ![s] = s]
  /\ pass' = [pass EXCEPT ![s] = NoPass]
  /\ UNCHANGED <<seedSite, seeds, dit, status, held, minted, events>>

----------------------------------------------------------------------------

Init ==
  /\ seedSite \in Founders
  /\ siteName \in [Sites -> Sites \cup {Unset}]
  /\ \A s \in Sites : siteName[s] \in {s, Unset}
  /\ seeds \in SUBSET Sites
  /\ IF seedSite = Unset THEN seeds = Sites ELSE seedSite \in seeds
  /\ \A s \in Sites : s \notin seeds \/ seedSite = Unset => siteName[s] = s
  /\ dit = [p \in Pods |-> Empty]
  /\ pass = [s \in Sites |-> NoPass]
  /\ status = [s \in Sites |->
                 [seedApplied |-> FALSE, dataObserved |-> FALSE, reason |-> "none"]]
  /\ held = [s \in Sites |-> FALSE]
  /\ minted = {}
  /\ events = 0

Step(s) == ReconcileSeed(s) \/ SeedEntry(s) \/ SeedVerified(s) \/ PublishStatus(s)

Next ==
  \/ \E s \in Sites : Step(s) \/ PublishPartial(s) \/ Crash(s) \/ SetSiteName(s)
  \/ \E p, q \in Pods, name \in Names : Replicate(p, q, name)
  \/ \E p \in Pods : WipePod(p)

\* A database that is not settled is requeued and one that is is looked at
\* again, replication delivers, and a missing siteName is set in the end.
Fairness ==
  /\ \A s \in Sites : WF_vars(Step(s)) /\ WF_vars(SetSiteName(s))
  /\ \A q \in Pods : \A name \in Names :
       WF_vars(\E p \in Pods : Replicate(p, q, name))

Spec == Init /\ [][Next]_vars /\ Fairness

----------------------------------------------------------------------------
\* Properties.

Reasons == {"none", "GlueSuffix", "NoReachablePod", "RootEntryVisible", "NoDataYet",
            "DataMissingOnReadOnlyPods", "DataMissing", "DataMissingOnPods"}

\* The variables keep their types, only a pod that holds a suffix of some kind
\* holds the child, and the serverID in an entryCSN tells its site.
TypeOK ==
  /\ seedSite \in Founders
  /\ \A s \in Sites : /\ siteName[s] \in {s, Unset}
                      /\ pass[s].step \in {"idle", "seed", "observe"}
                      /\ pass[s].next \in 0 .. Len(Seed) + 1
                      /\ status[s].reason \in Reasons
  /\ \A p \in Pods : dit[p]["child"] # Absent => dit[p]["suffix"] # Absent
  /\ \A p \in Pods, n \in Names : Visible(dit[p][n]) =>
       Cardinality({s \in Sites : ~SeedCreatorIsForeign(s, dit[p][n].sid)}) = 1
  /\ events \in 0 .. MaxEvents[seedSite]

\* Where the spec declares a founder, no name is ever created twice anywhere in
\* the mesh: not by an operator without an identity, not by a retry after a
\* crash between two entries, not by the founder after it has lost its volume.
\* This is what keeps the suffix from becoming a permanent glue entry.
SingleCreator ==
  seedSite # Unset =>
    /\ \A m, n \in minted : m.name = n.name => m = n
    /\ \A p \in Pods : dit[p]["suffix"] # Glue

\* DataMissing, the alert for lost data, is only raised where data was: at a
\* site that has held the suffix entry, or that carries the seed of another
\* founder, which it latches as applied before anything has reached it.
AlarmAfterData ==
  \A s \in Sites :
    status[s].reason = "DataMissing" => held[s] \/ (s \in seeds /\ seedSite \notin {s, Unset})

\* Where the founder is declared the seed is completed in the end, on every pod
\* of every site, whatever was interrupted, unless every writable copy of an
\* entry that was created has been lost.
SeedCompletes ==
  <>[](seedSite # Unset =>
         \/ \A p \in Pods, n \in Names : Visible(dit[p][n])
         \/ \E m \in minted : \A p \in Pods : Visible(dit[p][m.name]) => p.readOnly)

\* What the DataPresent condition of a site is once its pods do not change any
\* more: a glue suffix on any pod is reported, also where the others look
\* healthy, and health only where every pod shows the entry.
ConditionSettles ==
  <>[](\A s \in Sites :
         /\ (\E p \in PodsOf(s) : Glued(dit[p]["suffix"]))
              <=> status[s].reason = "GlueSuffix"
         /\ (\A p \in PodsOf(s) : Visible(dit[p]["suffix"]))
              <=> status[s].reason = "RootEntryVisible")

=============================================================================
