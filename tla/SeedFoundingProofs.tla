------------------------- MODULE SeedFoundingProofs -------------------------
(***************************************************************************)
(* Where a founder is declared no name of the seed is created twice, and   *)
(* the alarm for lost data is raised only where there was data: for every  *)
(* set of sites and pods, every assignment of seeds and identities and     *)
(* every number of wipes, silent pods and crashes.                         *)
(***************************************************************************)
EXTENDS SeedFounding, FiniteSetTheorems, TLAPS

\* What the variables hold.
Kinds == {"absent", "placeholder", "glue", "entry"}
Entries == [kind : Kinds, uuid : Nat, sid : Nat]
Passes == [step : {"idle", "seed", "observe"}, next : Nat, latch : BOOLEAN]
Statuses == [seedApplied : BOOLEAN, dataObserved : BOOLEAN, reason : Reasons]

Typed ==
  /\ seedSite \in Founders
  /\ \A s \in Sites : siteName[s] \in {s, Unset}
  /\ dit \in [Pods -> [Names -> Entries]]
  /\ pass \in [Sites -> Passes]
  /\ \A s \in Sites : pass[s].step = "seed" => pass[s].next # 0
  /\ status \in [Sites -> Statuses]
  /\ held \in [Sites -> BOOLEAN]
  /\ IsFiniteSet(minted) /\ \A m \in minted : m.name \in Names

\* Only the founder seeds, and not after it has latched the seed as applied.
OnlyFounderSeeds ==
  seedSite # Unset =>
    \A s \in Sites : pass[s].step = "seed" => s = seedSite /\ ~status[s].seedApplied

\* Until the latch, what the founder created it still has.
FounderKeeps ==
  seedSite # Unset /\ ~status[seedSite].seedApplied =>
    \A m \in minted : Visible(dit[Pod0(seedSite)][m.name])

\* Every entry anywhere is one that was created, and none is a conflict's rest.
OneIdentity ==
  seedSite # Unset =>
    /\ \A m, n \in minted : m.name = n.name => m = n
    /\ \A p \in Pods, n \in Names :
         /\ dit[p][n].kind # "glue"
         /\ Visible(dit[p][n]) => [name |-> n, uuid |-> dit[p][n].uuid] \in minted

\* A pod that shows the suffix entry is a pod that has held it, and so is a site
\* that has observed it, or is past the first entry of the seed.
HeldIsRemembered ==
  \A s \in Sites :
    /\ \A p \in PodsOf(s) : Visible(dit[p]["suffix"]) => held[s]
    /\ status[s].dataObserved => held[s]
    /\ pass[s].step = "seed" /\ pass[s].next # 1 => held[s]

\* A seed that is latched, or about to be, is this site's own or another's.
LatchIsEarned ==
  \A s \in Sites :
    status[s].seedApplied \/ pass[s].latch =>
      held[s] \/ (s \in seeds /\ seedSite \notin {s, Unset})

Founding ==
  /\ Typed /\ OnlyFounderSeeds /\ FounderKeeps /\ OneIdentity
  /\ HeldIsRemembered /\ LatchIsEarned /\ AlarmAfterData

-----------------------------------------------------------------------------
\* Every site has a pod-0, which is one of its pods.
LEMMA Pod0Facts ==
  ASSUME NEW s \in Sites
  PROVE  Pod0(s) \in Pods /\ Pod0(s) \in PodsOf(s) /\ Pod0(s).site = s
  BY PodsOfSites DEF Pod0, PodsOf

\* The names of the seed, suffix first.
LEMMA SeedNames ==
  /\ Len(Seed) = 2 /\ Seed[1] = "suffix" /\ Seed[2] = "child"
  /\ \A i \in Nat : i # 0 /\ i <= Len(Seed) => Seed[i] \in Names
  BY DEF Seed, Names

\* Nothing is there in the beginning.
LEMMA InitFounding == Init => Founding
<1> SUFFICES ASSUME Init PROVE Founding
  OBVIOUS
<1>1. Typed
  <2>1. Absent \in Entries /\ NoPass \in Passes
    BY DEF Absent, Entries, Kinds, NoPass, Passes
  <2>2. dit \in [Pods -> [Names -> Entries]] /\ pass \in [Sites -> Passes]
    BY <2>1 DEF Init, Empty
  <2>3. status \in [Sites -> Statuses] /\ held \in [Sites -> BOOLEAN]
    BY DEF Init, Statuses, Reasons
  <2>4. IsFiniteSet(minted)
    BY FS_EmptySet DEF Init
  <2> QED BY <2>2, <2>3, <2>4 DEF Init, Typed, NoPass
<1>2. \A p \in Pods, n \in Names : ~Visible(dit[p][n]) /\ dit[p][n].kind # "glue"
  BY DEF Init, Empty, Absent, Visible
<1>3. \A s \in Sites : \A p \in PodsOf(s) : ~Visible(dit[p]["suffix"])
  BY <1>2 DEF PodsOf, Names
<1>4. OnlyFounderSeeds /\ FounderKeeps /\ OneIdentity
  BY <1>2 DEF Init, OnlyFounderSeeds, FounderKeeps, OneIdentity, NoPass
<1>5. HeldIsRemembered /\ LatchIsEarned /\ AlarmAfterData
  BY <1>3 DEF Init, HeldIsRemembered, LatchIsEarned, AlarmAfterData, NoPass
<1> QED BY <1>1, <1>4, <1>5 DEF Founding

\* The site gate: whoever goes on to seed is the founder, and whoever latches
\* the seed unseen has another founder, or the entry on its pod.
LEMMA ReconcileStep ==
  ASSUME Founding, NEW s \in Sites, ReconcileSeed(s)
  PROVE  Founding'
<1> USE DEF Founding
<1>1. UNCHANGED <<seedSite, seeds, siteName, dit, status, held, minted>>
  BY DEF ReconcileSeed
<1>2. PICK to \in Passes :
        /\ pass' = [pass EXCEPT ![s] = to]
        /\ \/ to.step = "observe" /\ ~to.latch
           \/ /\ to.step = "observe" /\ SeedNeeded(s)
              /\ \/ DecideSeedSite(seedSite, siteName[s]) = "withhold"
                 \/ ForeignCreator(s)
           \/ /\ to.step = "seed" /\ to.next = 1 /\ ~to.latch
              /\ SeedNeeded(s)
              /\ DecideSeedSite(seedSite, siteName[s]) = "apply"
  <2> DEFINE Obs(l) == [step |-> "observe", next |-> 0, latch |-> l]
             Sd == [step |-> "seed", next |-> 1, latch |-> FALSE]
  <2>1. /\ \A l \in BOOLEAN : Obs(l) \in Passes
        /\ Sd \in Passes
    BY DEF Passes
  <2>2. CASE pass' = [pass EXCEPT ![s] = Obs(FALSE)]
    BY <2>1, <2>2
  <2>3. CASE /\ pass' = [pass EXCEPT ![s] = Obs(TRUE)] /\ SeedNeeded(s)
             /\ \/ DecideSeedSite(seedSite, siteName[s]) = "withhold"
                \/ ForeignCreator(s)
    BY <2>1, <2>3
  <2>4. CASE /\ pass' = [pass EXCEPT ![s] = Sd] /\ SeedNeeded(s)
             /\ DecideSeedSite(seedSite, siteName[s]) = "apply"
    BY <2>1, <2>4
  <2> QED BY <2>2, <2>3, <2>4 DEF ReconcileSeed, Observe
<1>3. to.step = "seed" => to.next = 1
  BY <1>2
<1>4. Typed'
  BY <1>1, <1>2, <1>3 DEF Typed
<1>5. seedSite # Unset /\ to.step = "seed" => s = seedSite /\ ~status[s].seedApplied
  BY <1>2 DEF Typed, DecideSeedSite, SeedNeeded
<1>6. to.latch => held[s] \/ (s \in seeds /\ seedSite \notin {s, Unset})
  <2>1. CASE DecideSeedSite(seedSite, siteName[s]) = "withhold" /\ SeedNeeded(s)
    BY <2>1 DEF Typed, DecideSeedSite, SeedNeeded
  <2>2. CASE ForeignCreator(s)
    BY <2>2, Pod0Facts DEF ForeignCreator, HeldIsRemembered
  <2> QED BY <1>2, <2>1, <2>2
<1>7. OnlyFounderSeeds'
  BY <1>1, <1>2, <1>5 DEF OnlyFounderSeeds, Typed
<1>8. FounderKeeps' /\ OneIdentity'
  BY <1>1 DEF FounderKeeps, OneIdentity
<1>9. HeldIsRemembered'
  BY <1>1, <1>2, <1>3 DEF HeldIsRemembered, Typed
<1>10. LatchIsEarned'
  BY <1>1, <1>2, <1>6 DEF LatchIsEarned, Typed
<1>11. AlarmAfterData'
  BY <1>1 DEF AlarmAfterData
<1> QED BY <1>4, <1>7, <1>8, <1>9, <1>10, <1>11

\* An entry the founder adds was never created before: what it has created it
\* still has, so that the name would not be absent.
LEMMA SeedEntryStep ==
  ASSUME Founding, NEW s \in Sites, SeedEntry(s)
  PROVE  Founding'
<1> USE DEF Founding
<1> DEFINE p == Pod0(s)
           name == Seed[pass[s].next]
           uuid == Cardinality(minted) + 1
           new == Entry(uuid, ServerID(p))
<1>1. UNCHANGED <<seedSite, seeds, siteName, status>> /\ pass[s].step = "seed"
  BY DEF SeedEntry
<1>2. p \in Pods /\ p \in PodsOf(s) /\ p.site = s
  BY Pod0Facts
<1>3. /\ name \in Names /\ (name = "suffix" <=> pass[s].next = 1)
      /\ pass[s].next \in 1 .. 2
  <2>1. pass[s].next \in Nat /\ pass[s].next # 0
    BY <1>1 DEF Typed, Passes
  <2>2. pass[s].next <= 2
    BY SeedNames DEF SeedEntry
  <2>3. pass[s].next = 1 \/ pass[s].next = 2
    BY <2>1, <2>2
  <2> QED BY <2>3, SeedNames DEF Names
<1>4. new \in Entries /\ Visible(new) /\ new.uuid = uuid /\ new # Absent
  BY <1>2, PodsOfSites, SeedFoundingConstants, FS_CardinalityType
     DEF Typed, Entry, Entries, Kinds, Visible, ServerID, Absent
<1>5. /\ pass' \in [Sites -> Passes]
      /\ \A t \in Sites \ {s} : pass'[t] = pass[t]
      /\ pass'[s].step = "seed" => pass'[s].next = pass[s].next + 1
      /\ pass'[s].latch => pass[s].latch
  <2>1. PICK to \in Passes : /\ pass' = [pass EXCEPT ![s] = to]
                             /\ to.step = "seed" => to.next = pass[s].next + 1
                             /\ to.latch => pass[s].latch
    <3> DEFINE Obs == [step |-> "observe", next |-> 0, latch |-> FALSE]
               Go == [pass[s] EXCEPT !.next = @ + 1]
    <3>1. Obs \in Passes /\ Go \in Passes
      BY <1>3 DEF Typed, Passes
    <3>2. Go.latch = pass[s].latch /\ Go.next = pass[s].next + 1
      BY DEF Typed, Passes
    <3>3. CASE pass' = [pass EXCEPT ![s] = Obs]
      BY <3>1, <3>3
    <3>4. CASE pass' = [pass EXCEPT ![s] = Go]
      <4> HIDE DEF Go
      <4> QED BY <3>1, <3>2, <3>4
    <3> QED BY <3>3, <3>4 DEF SeedEntry, Observe
  <2> QED BY <2>1 DEF Typed
<1> HIDE DEF p, name, uuid, new
<1>6. OnlyFounderSeeds'
  BY <1>1, <1>5 DEF OnlyFounderSeeds
<1>7. CASE UNCHANGED <<dit, held, minted>> /\ (pass'[s].step = "seed" => Visible(dit[p][name]))
  <2>1. Typed'
    BY <1>1, <1>3, <1>5, <1>7 DEF Typed
  <2>2. FounderKeeps' /\ OneIdentity' /\ AlarmAfterData'
    BY <1>1, <1>7 DEF FounderKeeps, OneIdentity, AlarmAfterData
  <2>3. pass'[s].step = "seed" => held[s]
    BY <1>1, <1>2, <1>3, <1>7 DEF HeldIsRemembered
  <2>4. HeldIsRemembered'
    BY <1>1, <1>5, <1>7, <2>3 DEF HeldIsRemembered
  <2>5. LatchIsEarned'
    BY <1>1, <1>5, <1>7 DEF LatchIsEarned
  <2> QED BY <1>6, <2>1, <2>2, <2>4, <2>5
<1>8. CASE /\ dit[p][name] = Absent
           /\ dit' = [dit EXCEPT ![p][name] = new]
           /\ held' = [held EXCEPT ![s] = @ \/ name = "suffix"]
           /\ minted' = minted \cup {[name |-> name, uuid |-> uuid]}
  <2>1. /\ dit' \in [Pods -> [Names -> Entries]]
        /\ \A q \in Pods, n \in Names :
             dit'[q][n] = IF q = p /\ n = name THEN new ELSE dit[q][n]
    BY <1>2, <1>3, <1>4, <1>8 DEF Typed
  <2>2. /\ held' \in [Sites -> BOOLEAN]
        /\ \A t \in Sites : held[t] => held'[t]
        /\ name = "suffix" => held'[s]
    BY <1>8 DEF Typed
  <2>3. IsFiniteSet(minted')
    BY <1>8, FS_AddElement DEF Typed
  <2>4. Typed'
    BY <1>1, <1>3, <1>5, <1>8, <2>1, <2>2, <2>3 DEF Typed
  <2>5. ~Visible(dit[p][name])
    BY <1>8 DEF Visible, Absent
  <2>6. seedSite # Unset => s = seedSite /\ ~status[s].seedApplied
    BY <1>1 DEF OnlyFounderSeeds
  <2>7. seedSite # Unset => \A m \in minted : m.name # name
    BY <2>5, <2>6 DEF FounderKeeps, p
  <2>8. OneIdentity'
    <3> SUFFICES ASSUME seedSite # Unset PROVE OneIdentity'
      BY <1>1 DEF OneIdentity
    <3>1. \A m, n \in minted' : m.name = n.name => m = n
      BY <1>8, <2>7 DEF OneIdentity
    <3>2. ASSUME NEW q \in Pods, NEW n \in Names
          PROVE  /\ dit'[q][n].kind # "glue"
                 /\ Visible(dit'[q][n]) =>
                      [name |-> n, uuid |-> dit'[q][n].uuid] \in minted'
      <4>1. CASE q = p /\ n = name
        BY <1>4, <1>8, <2>1, <4>1 DEF Visible
      <4>2. CASE ~(q = p /\ n = name)
        BY <1>8, <2>1, <4>2 DEF OneIdentity
      <4> QED BY <4>1, <4>2
    <3> QED BY <3>1, <3>2 DEF OneIdentity
  <2>9. FounderKeeps'
    <3> SUFFICES ASSUME seedSite # Unset, ~status[seedSite].seedApplied,
                        NEW m \in minted'
                 PROVE  Visible(dit'[Pod0(seedSite)][m.name])
      BY <1>1 DEF FounderKeeps
    <3>1. CASE m \in minted
      <4>1. Visible(dit[Pod0(seedSite)][m.name]) /\ Pod0(seedSite) \in Pods
        BY <1>2, <2>6, <3>1 DEF FounderKeeps, p
      <4>2. m.name \in Names
        BY <3>1 DEF Typed
      <4> QED BY <1>4, <2>1, <4>1, <4>2
    <3>2. CASE m = [name |-> name, uuid |-> uuid]
      BY <1>2, <1>3, <1>4, <2>1, <2>6, <3>2 DEF p
    <3> QED BY <1>8, <3>1, <3>2
  <2>10. HeldIsRemembered'
    BY <1>1, <1>2, <1>3, <1>5, <2>1, <2>2 DEF HeldIsRemembered, PodsOf, Names
  <2>11. LatchIsEarned' /\ AlarmAfterData'
    BY <1>1, <1>5, <2>2 DEF LatchIsEarned, AlarmAfterData
  <2> QED BY <1>6, <2>4, <2>8, <2>9, <2>10, <2>11
<1>9. \/ UNCHANGED <<dit, held, minted>> /\ (pass'[s].step = "seed" => Visible(dit[p][name]))
      \/ /\ dit[p][name] = Absent
         /\ dit' = [dit EXCEPT ![p][name] = new]
         /\ held' = [held EXCEPT ![s] = @ \/ name = "suffix"]
         /\ minted' = minted \cup {[name |-> name, uuid |-> new.uuid]}
  <2>1. Observe(s, FALSE) => pass'[s].step = "observe"
    BY DEF Observe, Typed
  <2> QED BY <2>1 DEF SeedEntry, p, name, uuid, new
<1> QED BY <1>4, <1>7, <1>8, <1>9

\* A pass that ends without a word: the operator dies, or is installed again.
LEMMA PassEnds ==
  ASSUME Founding, NEW s \in Sites, pass' = [pass EXCEPT ![s] = NoPass],
         UNCHANGED <<seedSite, seeds, dit, status, held, minted>>,
         \A t \in Sites : siteName'[t] \in {t, Unset}
  PROVE  Founding'
<1> USE DEF Founding
<1>1. NoPass \in Passes /\ NoPass.step = "idle" /\ ~NoPass.latch
  BY DEF NoPass, Passes
<1>2. Typed'
  BY <1>1 DEF Typed
<1>3. OnlyFounderSeeds' /\ FounderKeeps' /\ OneIdentity' /\ AlarmAfterData'
  BY <1>1 DEF OnlyFounderSeeds, FounderKeeps, OneIdentity, AlarmAfterData, Typed
<1>4. HeldIsRemembered' /\ LatchIsEarned'
  BY <1>1 DEF HeldIsRemembered, LatchIsEarned, Typed
<1> QED BY <1>2, <1>3, <1>4

\* The latch after the last entry: the pod of this site has held the first one.
LEMMA SeedVerifiedStep ==
  ASSUME Founding, NEW s \in Sites, SeedVerified(s)
  PROVE  Founding'
<1> USE DEF Founding
<1> DEFINE to == [step |-> "observe", next |-> 0, latch |-> TRUE]
<1>1. /\ UNCHANGED <<seedSite, seeds, siteName, dit, status, held, minted>>
      /\ pass' = [pass EXCEPT ![s] = to] /\ pass[s].step = "seed"
  BY DEF SeedVerified, Observe
<1>2. held[s]
  <2>1. pass[s].next > 2
    BY SeedNames DEF SeedVerified
  <2> QED BY <1>1, <2>1 DEF HeldIsRemembered
<1>3. to \in Passes /\ to.step # "seed"
  BY DEF Passes
<1> HIDE DEF to
<1>4. Typed'
  BY <1>1, <1>3 DEF Typed
<1>5. OnlyFounderSeeds' /\ FounderKeeps' /\ OneIdentity' /\ AlarmAfterData'
  BY <1>1, <1>3 DEF OnlyFounderSeeds, FounderKeeps, OneIdentity, AlarmAfterData, Typed
<1>6. HeldIsRemembered' /\ LatchIsEarned'
  BY <1>1, <1>2, <1>3 DEF HeldIsRemembered, LatchIsEarned, Typed
<1> QED BY <1>4, <1>5, <1>6

\* The verdict on the data is one of the reasons, and that data is missing is
\* only ever said of a database known to be populated.
LEMMA VerdictFacts ==
  ASSUME NEW outcome, NEW known \in BOOLEAN
  PROVE  /\ AggregateDataPresent(outcome, known) \in Reasons
         /\ AggregateDataPresent(outcome, known) = "DataMissing" => known
<1> DEFINE with(o) == {p \in DOMAIN outcome : outcome[p] = o}
<1>1. AggregateDataPresent(outcome, known) \in
        {"GlueSuffix", "NoReachablePod", "RootEntryVisible", "DataMissingOnReadOnlyPods",
         "NoDataYet", "DataMissingOnPods"} \cup (IF known THEN {"DataMissing"} ELSE {})
  <2>1. CASE with("glue") # {}
    BY <2>1 DEF AggregateDataPresent
  <2>2. CASE with("glue") = {} /\ with("visible") = {} /\ with("missing") = {}
    BY <2>2 DEF AggregateDataPresent
  <2>3. CASE with("glue") = {} /\ ~(with("visible") = {} /\ with("missing") = {})
    BY <2>3 DEF AggregateDataPresent
  <2> QED BY <2>1, <2>2, <2>3
<1> QED BY <1>1 DEF Reasons

\* The status write: what it remembers was seen on a pod of the site, and what
\* it raises the alarm on it remembers.
LEMMA EvaluateStep ==
  ASSUME Founding, NEW s \in Sites, NEW reached, EvaluateDataPresent(s, reached)
  PROVE  Founding'
<1> USE DEF Founding
<1> DEFINE outcome == [p \in PodsOf(s) |-> Probe(p, reached)]
           seeded == [status[s] EXCEPT !.seedApplied = @ \/ pass[s].latch]
           verdict == AggregateDataPresent(outcome, DatabaseKnownPopulated(seeded))
           seen == DataWasObserved(outcome)
           to == [seeded EXCEPT !.dataObserved = @ \/ seen, !.reason = verdict]
<1>1. /\ UNCHANGED <<seedSite, seeds, siteName, dit, held, minted>>
      /\ status' = [status EXCEPT ![s] = to]
      /\ pass' = [pass EXCEPT ![s] = NoPass]
  BY DEF EvaluateDataPresent
<1>2. seen \in BOOLEAN /\ (seen => held[s])
  <2>1. ASSUME NEW p \in PodsOf(s), Probe(p, reached) = "visible" PROVE Visible(dit[p]["suffix"])
    BY <2>1 DEF Probe
  <2> QED BY <2>1 DEF DataWasObserved, HeldIsRemembered
<1>3. seeded \in Statuses /\ (seeded.seedApplied <=> status[s].seedApplied \/ pass[s].latch)
      /\ seeded.dataObserved = status[s].dataObserved
  BY DEF Typed, Statuses, Passes
<1> HIDE DEF seen, seeded, outcome
<1>4. verdict \in Reasons /\ (verdict = "DataMissing" => seeded.seedApplied \/ seeded.dataObserved)
  BY <1>3, VerdictFacts DEF DatabaseKnownPopulated, Statuses
<1> HIDE DEF verdict
<1>5. /\ to \in Statuses /\ to.reason = verdict
      /\ to.seedApplied <=> status[s].seedApplied \/ pass[s].latch
      /\ to.dataObserved <=> status[s].dataObserved \/ seen
  BY <1>2, <1>3, <1>4 DEF Statuses
<1>6. /\ NoPass \in Passes /\ NoPass.step = "idle" /\ ~NoPass.latch
      /\ held[s] \in BOOLEAN
  BY DEF NoPass, Passes, Typed
<1> HIDE DEF to
<1>7. status'[s] = to /\ \A t \in Sites \ {s} : status'[t] = status[t]
  BY <1>1 DEF Typed
<1>8. pass'[s] = NoPass /\ \A t \in Sites \ {s} : pass'[t] = pass[t]
  BY <1>1 DEF Typed
<1>9. Typed'
  BY <1>1, <1>5, <1>6 DEF Typed
<1>10. OnlyFounderSeeds'
  BY <1>1, <1>6, <1>7, <1>8 DEF OnlyFounderSeeds
<1>11. FounderKeeps'
  <2>1. seedSite \in Sites \/ seedSite = Unset
    BY SeedFoundingConstants DEF Typed
  <2>2. seedSite # Unset /\ ~status'[seedSite].seedApplied => ~status[seedSite].seedApplied
    BY <1>5, <1>7, <2>1
  <2> QED BY <1>1, <2>2 DEF FounderKeeps
<1>12. OneIdentity'
  BY <1>1 DEF OneIdentity
<1>13. HeldIsRemembered'
  BY <1>1, <1>2, <1>5, <1>6, <1>7, <1>8 DEF HeldIsRemembered
<1>14. LatchIsEarned'
  BY <1>1, <1>5, <1>6, <1>7, <1>8 DEF LatchIsEarned
<1>15. AlarmAfterData'
  <2>1. to.reason = "DataMissing" => held[s] \/ (s \in seeds /\ seedSite \notin {s, Unset})
    BY <1>3, <1>4, <1>5 DEF LatchIsEarned, HeldIsRemembered
  <2> QED BY <1>1, <1>7, <2>1 DEF AlarmAfterData
<1> QED BY <1>9, <1>10, <1>11, <1>12, <1>13, <1>14, <1>15

\* A pulled entry where one identity per name exists: it replaces nothing that
\* is an entry, so that there is no conflict.
LEMMA ReplicateStep ==
  ASSUME Founding, NEW p \in Pods, NEW q \in Pods, NEW name \in Names,
         Replicate(p, q, name)
  PROVE  Founding'
<1> USE DEF Founding
<1> DEFINE e == dit[p][name]
           mine == dit[q][name]
           child == IF name = "suffix" THEN dit[q]["child"] ELSE Absent
<1>1. UNCHANGED <<seedSite, seeds, siteName, pass, status, minted>> /\ e # Absent
  BY DEF Replicate
<1>2. PICK after \in Merge(mine, e, child) :
        /\ after # mine
        /\ dit' = [dit EXCEPT ![q] =
             [n \in Names |-> IF n = name THEN after
                             ELSE IF n = "suffix" /\ dit[q][n] = Absent THEN Placeholder
                             ELSE dit[q][n]]]
        /\ held' = [held EXCEPT ![q.site] = @ \/ Visible(dit'[q]["suffix"])]
  BY DEF Replicate
<1>3. "suffix" \in Names /\ "child" \in Names /\ name \in {"suffix", "child"}
  BY DEF Names
<1>4. e \in Entries /\ mine \in Entries /\ Placeholder \in Entries /\ Glue \in Entries
      /\ Placeholder.kind = "placeholder"
  BY DEF Typed, Placeholder, Glue, Absent, Entries, Kinds
<1>5. after \in Entries
  BY <1>2, <1>4 DEF Merge
<1>6. \/ after = e /\ mine.kind \in {"absent", "placeholder"}
      \/ mine.kind = "entry" /\ Visible(e) /\ mine.uuid # e.uuid
  BY <1>2, <1>4 DEF Merge, Entries, Kinds
<1>7. seedSite # Unset => after = e /\ mine.kind \in {"absent", "placeholder"}
  <2>1. seedSite # Unset /\ mine.kind = "entry" /\ Visible(e) => mine.uuid = e.uuid
    BY DEF OneIdentity, Visible
  <2> QED BY <1>6, <2>1
<1> DEFINE row == [n \in Names |-> IF n = name THEN after
                                  ELSE IF n = "suffix" /\ dit[q][n] = Absent THEN Placeholder
                                  ELSE dit[q][n]]
<1>8. /\ row \in [Names -> Entries] /\ row[name] = after
      /\ \A n \in Names \ {name} : row[n] = dit[q][n] \/ row[n] = Placeholder
      /\ \A n \in Names \ {name} : Visible(dit[q][n]) => row[n] = dit[q][n]
  <2>1. dit[q] \in [Names -> Entries] /\ ~Visible(Absent)
    BY DEF Typed, Visible, Absent
  <2> QED BY <1>4, <1>5, <2>1
<1>9. dit' = [dit EXCEPT ![q] = row]
  BY <1>2
<1> HIDE DEF row, e, mine, child
<1>10. /\ dit' \in [Pods -> [Names -> Entries]] /\ dit'[q] = row
       /\ \A o \in Pods \ {q} : dit'[o] = dit[o]
  BY <1>8, <1>9 DEF Typed
<1>11. /\ q.site \in Sites /\ held' \in [Sites -> BOOLEAN]
       /\ \A t \in Sites : held[t] => held'[t]
       /\ Visible(dit'[q]["suffix"]) => held'[q.site]
  BY <1>2, PodsOfSites DEF Typed, Visible
<1>12. Typed'
  BY <1>1, <1>10, <1>11 DEF Typed
<1>13. OnlyFounderSeeds'
  BY <1>1 DEF OnlyFounderSeeds
<1>14. OneIdentity'
  <2> SUFFICES ASSUME seedSite # Unset, NEW o \in Pods, NEW n \in Names
               PROVE  /\ dit'[o][n].kind # "glue"
                      /\ Visible(dit'[o][n]) => [name |-> n, uuid |-> dit'[o][n].uuid] \in minted
    BY <1>1 DEF OneIdentity
  <2>1. CASE o # q
    BY <1>10, <2>1 DEF OneIdentity
  <2>2. CASE o = q /\ n = name
    <3>1. dit'[o][n] = dit[p][n]
      BY <1>7, <1>8, <1>10, <2>2 DEF e
    <3> QED BY <3>1 DEF OneIdentity
  <2>3. CASE o = q /\ n # name
    <3>1. dit'[o][n] = dit[q][n] \/ dit'[o][n] = Placeholder
      BY <1>8, <1>10, <2>3
    <3> QED BY <1>4, <3>1 DEF OneIdentity, Visible
  <2> QED BY <2>1, <2>2, <2>3
<1>15. FounderKeeps'
  <2> SUFFICES ASSUME seedSite # Unset, ~status[seedSite].seedApplied, NEW m \in minted
               PROVE  Visible(dit'[Pod0(seedSite)][m.name])
    BY <1>1 DEF FounderKeeps
  <2> DEFINE o == Pod0(seedSite)
  <2>1. o \in Pods /\ m.name \in Names /\ Visible(dit[o][m.name])
    BY Pod0Facts, SeedFoundingConstants DEF FounderKeeps, Typed
  <2> HIDE DEF o
  <2>2. o = q => m.name # name
    BY <1>7, <2>1 DEF mine, Visible
  <2> QED BY <1>8, <1>10, <2>1, <2>2 DEF o
<1>16. HeldIsRemembered'
  BY <1>1, <1>3, <1>10, <1>11 DEF HeldIsRemembered, PodsOf
<1>17. LatchIsEarned' /\ AlarmAfterData'
  BY <1>1, <1>11 DEF LatchIsEarned, AlarmAfterData
<1> QED BY <1>12, <1>13, <1>14, <1>15, <1>16, <1>17

\* A lost volume: not the founder's before its latch, so that nothing is created
\* a second time on what was lost.
LEMMA WipePodStep ==
  ASSUME Founding, NEW q \in Pods, WipePod(q)
  PROVE  Founding'
<1> USE DEF Founding
<1>1. /\ UNCHANGED <<seedSite, seeds, siteName, pass, status, held, minted>>
      /\ dit' = [dit EXCEPT ![q] = Empty]
      /\ q.site = seedSite => status[q.site].seedApplied
  BY DEF WipePod
<1>2. /\ Empty \in [Names -> Entries]
      /\ \A n \in Names : ~Visible(Empty[n]) /\ Empty[n].kind # "glue"
  BY DEF Empty, Absent, Entries, Kinds, Visible
<1> HIDE DEF Empty
<1>3. /\ dit' \in [Pods -> [Names -> Entries]] /\ dit'[q] = Empty
      /\ \A o \in Pods \ {q} : dit'[o] = dit[o]
  BY <1>1, <1>2 DEF Typed
<1>4. Typed'
  BY <1>1, <1>3 DEF Typed
<1>5. OnlyFounderSeeds' /\ LatchIsEarned' /\ AlarmAfterData'
  BY <1>1 DEF OnlyFounderSeeds, LatchIsEarned, AlarmAfterData
<1>6. OneIdentity'
  BY <1>1, <1>2, <1>3 DEF OneIdentity
<1>7. FounderKeeps'
  <2> SUFFICES ASSUME seedSite # Unset, ~status[seedSite].seedApplied, NEW m \in minted
               PROVE  Visible(dit'[Pod0(seedSite)][m.name])
    BY <1>1 DEF FounderKeeps
  <2>1. Pod0(seedSite) \in Pods /\ Pod0(seedSite).site = seedSite
    BY Pod0Facts, SeedFoundingConstants DEF Typed
  <2> QED BY <1>1, <1>3, <2>1 DEF FounderKeeps
<1>8. HeldIsRemembered'
  BY <1>1, <1>2, <1>3 DEF HeldIsRemembered, PodsOf, Names
<1> QED BY <1>4, <1>5, <1>6, <1>7, <1>8

-----------------------------------------------------------------------------
\* The invariant of the founding: who seeds, what the founder still has, that
\* every name has one identity, and what every latch rests on.
THEOREM FoundingHolds == Spec => []Founding
<1>1. Init => Founding
  BY InitFounding
<1>2. Founding /\ [Next]_vars => Founding'
  <2> SUFFICES ASSUME Founding, [Next]_vars PROVE Founding'
    OBVIOUS
  <2>1. CASE \E s \in Sites : Step(s)
    BY <2>1, ReconcileStep, SeedEntryStep, SeedVerifiedStep, EvaluateStep
       DEF Step, PublishStatus
  <2>2. CASE \E s \in Sites : PublishPartial(s)
    BY <2>2, EvaluateStep DEF PublishPartial
  <2>3. CASE \E s \in Sites : Crash(s)
    BY <2>3, PassEnds DEF Crash, Founding, Typed
  <2>4. CASE \E s \in Sites : SetSiteName(s)
    <3> PICK s \in Sites : SetSiteName(s)
      BY <2>4
    <3>1. \A t \in Sites : siteName'[t] \in {t, Unset}
      BY DEF SetSiteName, Founding, Typed
    <3> QED BY <3>1, PassEnds DEF SetSiteName
  <2>5. CASE \E p, q \in Pods, name \in Names : Replicate(p, q, name)
    BY <2>5, ReplicateStep
  <2>6. CASE \E p \in Pods : WipePod(p)
    BY <2>6, WipePodStep
  <2>7. CASE UNCHANGED vars
    BY <2>7 DEF vars, Founding, Typed, OnlyFounderSeeds, FounderKeeps, OneIdentity,
                HeldIsRemembered, LatchIsEarned, AlarmAfterData, PodsOf, Visible
  <2> QED BY <2>1, <2>2, <2>3, <2>4, <2>5, <2>6, <2>7 DEF Next
<1> QED BY <1>1, <1>2, PTL DEF Spec

\* Where the spec declares a founder, no name of the seed is created twice and no
\* suffix becomes a glue entry, however many sites, pods and identities, wipes
\* and crashes there are (decideSeedSite, applySeedData and its latch).
THEOREM SingleCreatorHolds == Spec => []SingleCreator
<1>1. Founding => SingleCreator
  <2>1. Glue.kind = "glue" /\ "suffix" \in Names
    BY DEF Glue, Absent, Names
  <2> QED BY <2>1 DEF Founding, OneIdentity, SingleCreator
<1> QED BY <1>1, FoundingHolds, PTL

\* DataMissing is raised only at a site that has held the suffix entry, or that
\* carries another founder's seed (evaluateDataPresent and both latches).
THEOREM AlarmAfterDataHolds == Spec => []AlarmAfterData
<1>1. Founding => AlarmAfterData
  BY DEF Founding
<1> QED BY <1>1, FoundingHolds, PTL

=============================================================================
