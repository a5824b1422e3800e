-------------------------- MODULE AddonReadyProofs --------------------------
(***************************************************************************)
(* A ClusterAddon that is ready is installed, and the Kubernetes version   *)
(* of a control plane is upgraded only after its addons: for any releases, *)
(* charts, stages, moves and faults.                                       *)
(***************************************************************************)
EXTENDS AddonUpgradeProofs

-----------------------------------------------------------------------------
(* The inductive invariant.  Its parts are stated of a ClusterAddon x, the *)
(* stored one or the copy of a pass, for class c, a control plane with     *)
(* version k, the hook d that is due and the content w of the workload     *)
(* cluster.                                                                *)

After == AfterControlPlaneInitialized
Before == BeforeClusterUpgrade

SameStages(c) == AddonStages(c, After) = AddonStages(c, Before)

StageAt(c, h, i) == AddonStages(c, h)[i]

\* UpToDate of any content.
AllThere(c, w) == \A o \in WholeChart(c) : w[o] # 0

Installed(c, h, w) ==
    IF Staged(c) THEN \A o \in Installs(c, h) : w[o] = AddonVersion(c) ELSE AllThere(c, w)

\* The objects of a stage that no later stage deletes.
Kept(c, h, i) ==
    {o \in Chart(c, StageAt(c, h, i).name) :
        \A j \in DOMAIN AddonStages(c, h) :
           j > i /\ StageAt(c, h, j).action = "delete" => o \notin Chart(c, StageAt(c, h, j).name)}

HasRun(x, s) == x.stages[s] \in {"done", "waitingForPostCondition"}

Through(x, c, s) == s.name \notin Charts(c) \/ x.stages[s] = "done"

\* The recorded phases of the stages of a hook are true: what is recorded as executed
\* came after all the stages before it, and its objects are there.
PhasesTrue(x, h, c, w) ==
    \A i \in DOMAIN AddonStages(c, h) :
       /\ x.stages[StageAt(c, h, i)] # "none"
       /\ HasRun(x, StageAt(c, h, i)) =>
             /\ \A j \in DOMAIN AddonStages(c, h) : j < i => Through(x, c, StageAt(c, h, j))
             /\ StageAt(c, h, i).action = "apply" => \A o \in Kept(c, h, i) : w[o] = AddonVersion(c)

\* Nothing is left to do for the stages of the class.
Quiet(x, c) ==
    /\ x.hook = None /\ x.clusterStack # None
    /\ x.version = AddonVersion(c) /\ K8s(x.clusterStack) = K8s(c)

StagesSound(x, c, d, w) ==
    Staged(c) =>
       /\ Quiet(x, c) => x.ready /\ Installed(c, d, w) /\ x.resources = NoResources
       /\ ~x.ready /\ x.stages # NoStages => x.hook # None /\ PhasesTrue(x, x.hook, c, w)

\* What is recorded as synced is there.
SingleSound(x, c, w) ==
    ~Staged(c) =>
       /\ \A o \in WholeChart(c) : x.resources[o] = "synced" => w[o] # 0
       /\ x.clusterStack # None /\ x.version = AddonVersion(c) =>
             /\ \A o \in Objects : x.resources[o] = "synced" => o \in WholeChart(c)
             /\ x.applied # "False" => AllThere(c, w)

VersionOf(r) == IF r = None THEN 0 ELSE AddonVersion(r)

\* Class and version that are recorded fit the class of the Cluster.
Fits(x, c, k) ==
    /\ x.clusterStack \notin {None, c} =>
          K8s(x.clusterStack) = k /\ ~MovesForward(x.clusterStack, c)
    /\ x.version = VersionOf(x.clusterStack) \/ (Staged(c) /\ x.version = AddonVersion(c))
    /\ x.hook = After =>
          /\ k = K8s(c)
          /\ Staged(c) => x.clusterStack = None \/ (x.clusterStack = c /\ SameStages(c))
    /\ x.hook = Before => x.clusterStack # None

\* The stages that are due.  Those of AfterControlPlaneInitialized are due until other
\* addons or another Kubernetes version are asked for, and a hook brings those that are due.
Due(x, c, k, d) ==
    /\ d = After =>
          /\ k \in {0, K8s(c)}
          /\ x.clusterStack # None =>
                K8s(x.clusterStack) = K8s(c) /\ x.version = AddonVersion(c)
    /\ x.clusterStack = None => d = After
    /\ Staged(c) /\ x.hook # None => AddonStages(c, x.hook) = AddonStages(c, d)

Sound(x, c, k, d, w) ==
    Fits(x, c, k) /\ Due(x, c, k, d) /\ SingleSound(x, c, w) /\ StagesSound(x, c, d, w)

\* The Cluster moves on only when the addons are there.
Progress(c, k, rec, ini, r) ==
    /\ K8s(c) >= k
    /\ \A q \in rec : q = c \/ K8s(q) <= k
    /\ IF ini THEN k # 0 ELSE k \in {0, K8s(c)} /\ r \in {None, c}
    /\ k \in {0, K8s(c)} \/ r # None

\* While an upgrade is held back, HelmChartApplied tells the truth about the class.
Gate(x, c, k, d, rec, w) ==
    K8s(c) # k /\ x.applied = "True" =>
       /\ Staged(c) => x.hook = None
       /\ x.hook = Before \/ c \in rec => x.clusterStack = c /\ Installed(c, d, w)

SameRecord(x, y) ==
    /\ x.clusterStack = y.clusterStack /\ x.version = y.version /\ x.hook = y.hook
    /\ x.ready = y.ready /\ x.stages = y.stages /\ x.resources = y.resources

SameCopy(x, y) == SameRecord(x, y) /\ x.applied = y.applied

\* There is nothing to do for class c: a pass that has read this changes nothing, even
\* when the Cluster moves before it ends.
Done(x, c) ==
    /\ x.ready /\ x.hook = None /\ x.applied # "False"
    /\ x.clusterStack = c /\ x.version = AddonVersion(c)

\* What the hook server may have changed since a pass has read b.
ReadBefore(b, x, c) ==
    /\ b.clusterStack = x.clusterStack /\ b.version = x.version
    /\ b.ready = x.ready /\ b.stages = x.stages /\ b.resources = x.resources
    /\ b.applied = "False" => x.applied = "False"
    /\ \/ b.hook \in {None, x.hook}
       \/ b.hook = Before /\ x.hook = After /\ (Staged(c) => SameStages(c))

\* What a pass may have changed in its copy m of b.
PassFits(b, m, c, k, d, w) ==
    /\ m.clusterStack \in {b.clusterStack, c}
    /\ m.hook \in {b.hook, None, Before}
    /\ b.hook = None /\ m.hook # None => K8s(c) = k /\ b.clusterStack # None
    /\ Staged(c) /\ b.hook = None /\ b.clusterStack = None => m.clusterStack = None
    /\ m.applied = "True" /\ b.applied # "True" =>
          /\ m.clusterStack = c /\ Installed(c, d, w) /\ m.hook = None
          /\ Staged(c) => b.hook # None \/ K8s(c) = k

\* A pass on its way through the stages, at stage i.
InStages(x, m, i, c, w) ==
    /\ i # 0 /\ ~Quiet(x, c) /\ ~m.ready /\ PhasesTrue(m, m.hook, c, w)
    /\ m.clusterStack = x.clusterStack /\ m.version = AddonVersion(c)
    /\ x.hook = None \/ AddonStages(c, x.hook) = AddonStages(c, m.hook)
    /\ \A j \in DOMAIN AddonStages(c, m.hook) : j < i => Through(m, c, StageAt(c, m.hook, j))
    /\ ~x.ready /\ x.stages # NoStages =>
          \A j \in DOMAIN AddonStages(c, m.hook) :
             HasRun(x, StageAt(c, m.hook, j)) => HasRun(m, StageAt(c, m.hook, j))

Undisturbed == ~disturbed /\ cluster.exists

PassKnows ==
    /\ pc \in {"single", "old"} => cls = cluster.class \/ Done(base, cls)
    /\ pc = "single" => ~Staged(cls)
    /\ pc = "old" => Staged(cls)
    /\ pc \in {"cluster", "single", "old"} => SameCopy(base, mem)
    /\ pc = "panic" => Staged(cluster.class) \/ SameCopy(base, mem)
    /\ pc = "stages" =>
          /\ cls = cluster.class /\ Staged(cls) /\ ~Done(base, cls)
          /\ InStages(addon, mem, idx, cls, live)
    /\ pc # "idle" /\ Done(base, cluster.class) => SameCopy(base, mem)

PassSound ==
    pc # "idle" =>
       /\ addon.exists
       /\ ReadBefore(base, addon, cluster.class)
       /\ PassFits(base, mem, cluster.class, cp, due, live)
       /\ Sound(mem, cluster.class, cp, due, live)

StoreSound ==
    /\ ~addon.deleting /\ (addon.exists \/ addon = Absent)
    /\ Progress(cluster.class, cp, record, initialized, addon.clusterStack)
    /\ Gate(addon, cluster.class, cp, due, record, live)
    /\ Sound(addon, cluster.class, cp, due, live)

IInv == TInv /\ (Undisturbed => StoreSound /\ PassSound /\ PassKnows)

-----------------------------------------------------------------------------
(* Lemmas about the parts.                                                 *)

\* The two hooks have different names.
LEMMA HookNames ==
    /\ Hooks = {After, Before} /\ After # Before /\ None \notin Hooks
    /\ After = AfterControlPlaneInitialized /\ Before = BeforeClusterUpgrade
  BY DEF Hooks, After, Before, None, AfterControlPlaneInitialized, BeforeClusterUpgrade

\* What is up to date is installed.
LEMMA UpToDateIs == \A r, h : UpToDate(r, h) <=> Installed(r, h, live)
  BY DEF UpToDate, Installed, AllThere

\* The parts depend on the fields of a ClusterAddon that they name.
LEMMA SoundCopy ==
    ASSUME NEW x, NEW y, NEW c, NEW k, NEW d, NEW w, SameRecord(x, y), Sound(x, c, k, d, w),
           x.applied = "False" <=> y.applied = "False"
    PROVE  Sound(y, c, k, d, w)
  <1>1. Fits(y, c, k) /\ Due(y, c, k, d)
    BY DEF SameRecord, Sound, Fits, Due
  <1>2. SingleSound(y, c, w)
    BY DEF SameRecord, Sound, SingleSound
  <1>3. ASSUME NEW h, PhasesTrue(x, h, c, w) PROVE PhasesTrue(y, h, c, w)
    BY <1>3 DEF SameRecord, PhasesTrue, HasRun, Through
  <1>4. StagesSound(y, c, d, w)
    BY <1>3 DEF SameRecord, Sound, StagesSound, Quiet
  <1> QED
    BY <1>1, <1>2, <1>4 DEF Sound

\* A step of a pass: what is left to show of it.
LEMMA PassStep ==
    ASSUME StoreSound, PassSound, pc # "idle", pc' \in {"stages", "patch", "panic", "blocked"},
           UNCHANGED <<cluster, cp, addon, base, record, initialized, due>>,
           Gate(addon, cluster.class, cp, due, record, live'),
           Sound(addon, cluster.class, cp, due, live'),
           PassFits(base, mem', cluster.class, cp, due, live'),
           Sound(mem', cluster.class, cp, due, live'),
           pc' = "panic" => Staged(cluster.class) \/ SameCopy(base, mem'),
           pc' = "stages" =>
              /\ cls' = cluster.class /\ Staged(cluster.class)
              /\ InStages(addon, mem', idx', cluster.class, live')
              /\ ~Done(base, cluster.class),
           Done(base, cluster.class) => SameCopy(base, mem')
    PROVE  (StoreSound /\ PassSound /\ PassKnows)'
  <1>1. StoreSound' /\ PassSound'
    BY DEF StoreSound, PassSound
  <1>2. PassKnows'
    BY DEF PassKnows
  <1> QED
    BY <1>1, <1>2

\* The same when the content of the workload cluster stays.
LEMMA QuietPassStep ==
    ASSUME StoreSound, PassSound, pc # "idle", pc' \in {"stages", "patch", "panic", "blocked"},
           UNCHANGED <<cluster, cp, addon, live, base, record, initialized, due>>,
           PassFits(base, mem', cluster.class, cp, due, live),
           Sound(mem', cluster.class, cp, due, live),
           pc' = "panic" => Staged(cluster.class) \/ SameCopy(base, mem'),
           pc' = "stages" =>
              /\ cls' = cluster.class /\ Staged(cluster.class)
              /\ InStages(addon, mem', idx', cluster.class, live)
              /\ ~Done(base, cluster.class),
           Done(base, cluster.class) => SameCopy(base, mem')
    PROVE  (StoreSound /\ PassSound /\ PassKnows)'
  <1>1. StoreSound' /\ PassSound'
    BY DEF StoreSound, PassSound
  <1>2. PassKnows'
    BY DEF PassKnows
  <1> QED
    BY <1>1, <1>2

\* A pass that leaves its copy as it was, and the workload cluster too.
LEMMA IdlePassStep ==
    ASSUME StoreSound, PassSound, PassKnows, pc # "idle", pc' \in {"patch", "panic", "blocked"},
           UNCHANGED <<cluster, cp, addon, live, base, record, initialized, due>>,
           SameCopy(mem, mem'),
           pc' = "panic" => Staged(cluster.class) \/ SameCopy(base, mem)
    PROVE  (StoreSound /\ PassSound /\ PassKnows)'
  <1>1. Sound(mem', cluster.class, cp, due, live)
    BY SoundCopy DEF PassSound, SameCopy
  <1>2. PassFits(base, mem', cluster.class, cp, due, live)
    BY DEF PassSound, PassFits, SameCopy, SameRecord
  <1>3. SameCopy(base, mem) => SameCopy(base, mem')
    BY DEF SameCopy, SameRecord
  <1>4. Done(base, cluster.class) => SameCopy(base, mem')
    BY <1>3 DEF PassKnows
  <1> QED
    BY <1>1, <1>2, <1>3, <1>4, QuietPassStep

\* A pass that is over and has stored nothing.
LEMMA PassForgotten ==
    ASSUME StoreSound, pc' = "idle", record' \subseteq record,
           UNCHANGED <<cluster, cp, addon, live, initialized, due>>
    PROVE  (StoreSound /\ PassSound /\ PassKnows)'
  <1>1. Gate(addon, cluster.class, cp, due, record', live)
    BY DEF StoreSound, Gate
  <1>2. Progress(cluster.class, cp, record', initialized, addon.clusterStack)
    BY DEF StoreSound, Progress
  <1> QED
    BY <1>1, <1>2 DEF StoreSound, PassSound, PassKnows

-----------------------------------------------------------------------------
(* A single chart.                                                         *)

\* With unique names an object that is skipped is itself recorded as synced.
LEMMA SkippedIsSynced ==
    ASSUME UniqueNames, NEW res, NEW o \in Objects, SkippedAsSynced(res, o)
    PROVE  res[o] = "synced"
  BY DEF UniqueNames, SkippedAsSynced, FoundFor

\* What kube.Apply records as synced is of the chart, and was synced or has been applied.
LEMMA SyncedIsApplied ==
    ASSUME UniqueNames, NEW chart \in SUBSET Objects, NEW res, NEW noMapping, NEW refused,
           NEW undeleted, NEW o \in Objects,
           AppliedResources(chart, res, noMapping, refused, undeleted)[o] = "synced"
    PROVE  /\ o \in chart
           /\ res[o] = "synced" \/ o \in ToApply(chart, res) \ (noMapping \cup refused)
  <1>1. CASE \E t \in chart : FoundFor(res, t, o) /\ res[o] = "synced"
    BY <1>1 DEF UniqueNames, FoundFor
  <1>2. CASE ~\E t \in chart : FoundFor(res, t, o) /\ res[o] = "synced"
    <2>1. o \in ToApply(chart, res) \ noMapping /\ o \notin refused
      BY <1>2 DEF AppliedResources
    <2> QED
      BY <2>1 DEF ToApply
  <1> QED
    BY <1>1, <1>2

\* Soundness of a single chart is kept when nothing of the chart goes.
LEMMA SingleMonotone ==
    ASSUME NEW x, NEW c, NEW k, NEW d, NEW w, NEW v, ~Staged(c), Sound(x, c, k, d, w),
           \A o \in WholeChart(c) : w[o] # 0 => v[o] # 0
    PROVE  Sound(x, c, k, d, v)
  BY DEF Sound, SingleSound, StagesSound, AllThere

LEMMA GateMonotone ==
    ASSUME NEW x, NEW c, NEW k, NEW d, NEW rec, NEW w, NEW v, ~Staged(c),
           Gate(x, c, k, d, rec, w),
           \A o \in WholeChart(c) : w[o] # 0 => v[o] # 0
    PROVE  Gate(x, c, k, d, rec, v)
  BY DEF Gate, Installed, AllThere

\* Applying objects and deleting others leaves those that are not deleted.
LEMMA LiveKeeps ==
    ASSUME live \in [Objects -> Contents], cls \in Releases, NEW chart \in SUBSET Objects,
           NEW applied, NEW res, NEW deleted, deleted \subseteq ResourcesToBeDeleted(chart, res)
    PROVE  \A o \in chart : live[o] # 0 \/ o \in applied => Live(applied, deleted)[o] # 0
  <1>1. AddonVersion(cls) # 0
    BY AddonAssumption
  <1>2. \A o \in chart : o \notin deleted
    BY DEF ResourcesToBeDeleted
  <1> QED
    BY <1>1, <1>2 DEF Live

\* A pass that has read the Cluster before it moved finds nothing to do.
LEMMA SingleStale ==
    ASSUME IInv, Undisturbed, Single, cls # cluster.class,
           UNCHANGED <<record, initialized, due>>
    PROVE  (StoreSound /\ PassSound /\ PassKnows)'
  <1>1. /\ pc = "single" /\ SameCopy(base, mem) /\ Done(base, cls) /\ mem \in Object
        /\ StoreSound /\ PassSound /\ PassKnows
    BY DEF IInv, TInv, TypeOK, PassKnows, Single, SingleUpToDate, SingleApply,
           SingleApplyInPart, SingleApplyFails
  <1>2. Done(mem, cls)
    BY <1>1 DEF Done, SameCopy, SameRecord
  <1>3. SingleUpToDate
    BY <1>2 DEF Single, SingleApply, SingleApplyInPart, SingleApplyFails, SingleNeedsApply, Done
  <1>4. SameCopy(mem, mem')
    BY <1>1, <1>2, <1>3 DEF SingleUpToDate, SingleFinished, SameCopy, SameRecord, Done, Object
  <1> QED
    BY <1>1, <1>3, <1>4, IdlePassStep DEF SingleUpToDate

\* What is applied in part, and how it is recorded.
LEMMA InPartIs ==
    ASSUME SingleApplyInPart
    PROVE  LET chart == WholeChart(cls)
               res == mem.resources
           IN  \E noMapping, refused \in SUBSET ToApply(chart, res),
                  undeleted \in SUBSET ResourcesToBeDeleted(chart, res) :
                  /\ live' = Live(ToApply(chart, res) \ (noMapping \cup refused),
                                  ResourcesToBeDeleted(chart, res) \ undeleted)
                  /\ mem' =
                       [SingleStarted EXCEPT
                          !.resources = AppliedResources(chart, res, noMapping, refused, undeleted),
                          !.version = SingleVersion, !.clusterStack = cls, !.applied = "False"]
  BY DEF SingleApplyInPart

\* The work on a single chart keeps the invariant.
LEMMA SingleSoundStep ==
    ASSUME UniqueNames, IInv, Undisturbed, Single, cls = cluster.class,
           UNCHANGED <<record, initialized, due>>
    PROVE  (StoreSound /\ PassSound /\ PassKnows)'
  <1> DEFINE c == cluster.class
             chart == WholeChart(cls)
             res == mem.resources
  <1>0. /\ pc = "single" /\ cls = c /\ ~Staged(c) /\ SameCopy(base, mem)
        /\ StoreSound /\ PassSound
    BY DEF IInv, PassKnows, Single, SingleUpToDate, SingleApply, SingleApplyInPart,
           SingleApplyFails
  <1>1. /\ mem \in Object /\ base \in Object /\ c \in Releases /\ c # None
        /\ live \in [Objects -> Contents] /\ chart \in SUBSET Objects /\ AddonVersion(c) # 0
    BY <1>0, AddonAssumption DEF IInv, TInv, TypeOK
  <1>2. /\ Fits(mem, c, cp) /\ Due(mem, c, cp, due) /\ SingleSound(mem, c, live)
        /\ PassFits(base, mem, c, cp, due, live)
    BY <1>0 DEF PassSound, Sound
  <1>3. UNCHANGED <<cluster, cp, addon, base>> /\ pc' = "patch"
    BY DEF Single, SingleUpToDate, SingleApply, SingleApplyInPart, SingleApplyFails
  <1>4. mem.clusterStack = c => mem.version = AddonVersion(c)
    BY <1>0, <1>1, <1>2 DEF Fits, VersionOf
  <1>5. mem.version = AddonVersion(c) => mem.clusterStack # None
    BY <1>0, <1>1, <1>2 DEF Fits, VersionOf
  <1>6. SingleVersion = AddonVersion(c)
    BY <1>0, <1>4 DEF SingleVersion
  <1>7. CASE SingleUpToDate
    <2>1. mem.version = AddonVersion(c) /\ live' = live
      BY <1>0, <1>4, <1>7 DEF SingleUpToDate, SingleNeedsApply
    <2>2. /\ mem'.clusterStack = c /\ mem'.hook = None /\ mem'.version = mem.version
          /\ mem'.resources = mem.resources /\ mem'.applied = mem.applied
      BY <1>0, <1>1, <1>7 DEF SingleUpToDate, SingleFinished, Object
    <2>3. SingleSound(mem', c, live)
      BY <1>2, <1>5, <2>1, <2>2 DEF SingleSound
    <2>4. Fits(mem', c, cp)
      BY <1>1, <2>1, <2>2, HookNames DEF Fits, VersionOf
    <2>5. Due(mem', c, cp, due)
      BY <1>0, <1>1, <1>2, <2>1, <2>2, <1>5 DEF Due
    <2>6. Sound(mem', c, cp, due, live)
      BY <1>0, <2>3, <2>4, <2>5 DEF Sound, StagesSound
    <2>7. PassFits(base, mem', c, cp, due, live)
      BY <1>0, <1>2, <2>2 DEF PassFits, SameCopy, SameRecord
    <2>8. Done(base, c) => SameCopy(base, mem')
      BY <1>0, <1>1, <1>7, <2>2
      DEF SingleUpToDate, SingleFinished, Done, SameCopy, SameRecord, Object
    <2> QED
      BY <1>0, <1>3, <2>1, <2>6, <2>7, <2>8, QuietPassStep
  <1> DEFINE Kept1 == \A o \in chart : live[o] # 0 => live'[o] # 0
  <1>8. ASSUME Kept1, Fits(mem', c, cp), Due(mem', c, cp, due), SingleSound(mem', c, live'),
               PassFits(base, mem', c, cp, due, live'), SingleNeedsApply
        PROVE  (StoreSound /\ PassSound /\ PassKnows)'
    <2>1. Sound(addon, c, cp, due, live') /\ Gate(addon, c, cp, due, record, live')
      BY <1>0, <1>8, SingleMonotone, GateMonotone DEF StoreSound
    <2>2. Sound(mem', c, cp, due, live')
      BY <1>0, <1>8 DEF Sound, StagesSound
    <2>3. ~Done(base, c)
      BY <1>0, <1>8 DEF SingleNeedsApply, Done, SameCopy, SameRecord
    <2> QED
      BY <1>0, <1>3, <1>8, <2>1, <2>2, <2>3, PassStep
  <1>9. CASE SingleApply
    <2>1. live' = Live(ToApply(chart, res), ResourcesToBeDeleted(chart, res))
      BY <1>9 DEF SingleApply
    <2>2. \A o \in chart : live[o] # 0 \/ o \in ToApply(chart, res) => live'[o] # 0
      BY <1>0, <1>1, <2>1, LiveKeeps
    <2>3. /\ mem'.clusterStack = c /\ mem'.hook = None /\ mem'.version = AddonVersion(c)
          /\ mem'.resources = AppliedResources(chart, res, {}, {}, {})
          /\ mem'.applied = "True"
      BY <1>0, <1>1, <1>6, <1>9 DEF SingleApply, SingleFinished, Object
    <2>4. \A o \in chart : res[o] = "synced" => live[o] # 0
      BY <1>0, <1>2 DEF SingleSound
    <2>5. \A o \in Objects : mem'.resources[o] = "synced" => o \in chart /\ live'[o] # 0
      BY <1>1, <2>2, <2>3, <2>4, SyncedIsApplied
    <2>6. ASSUME NEW o \in chart PROVE live'[o] # 0
      BY <1>1, <2>2, <2>4, SkippedIsSynced DEF ToApply
    <2>7. AllThere(c, live') /\ Installed(c, due, live')
      BY <1>0, <2>6 DEF Installed, AllThere
    <2>8. SingleSound(mem', c, live')
      BY <1>0, <1>1, <2>5, <2>7 DEF SingleSound
    <2>9. Fits(mem', c, cp) /\ Due(mem', c, cp, due)
      BY <1>0, <1>1, <1>2, <2>3, HookNames DEF Fits, VersionOf, Due
    <2>10. PassFits(base, mem', c, cp, due, live')
      BY <1>0, <2>3, <2>7 DEF PassFits
    <2> QED
      BY <1>8, <1>9, <2>2, <2>8, <2>9, <2>10 DEF SingleApply
  <1>10. CASE SingleApplyInPart
    <2>1. PICK noMapping, refused \in SUBSET ToApply(chart, res),
               undeleted \in SUBSET ResourcesToBeDeleted(chart, res) :
            /\ live' = Live(ToApply(chart, res) \ (noMapping \cup refused),
                            ResourcesToBeDeleted(chart, res) \ undeleted)
            /\ mem' = [SingleStarted EXCEPT
                         !.resources = AppliedResources(chart, res, noMapping, refused, undeleted),
                         !.version = SingleVersion, !.clusterStack = cls, !.applied = "False"]
      BY <1>10, InPartIs
    <2>2. \A o \in chart :
            live[o] # 0 \/ o \in ToApply(chart, res) \ (noMapping \cup refused) => live'[o] # 0
      <3>1. ResourcesToBeDeleted(chart, res) \ undeleted \subseteq ResourcesToBeDeleted(chart, res)
        OBVIOUS
      <3> QED
        BY <1>0, <1>1, <2>1, <3>1, LiveKeeps
    <2>3. /\ mem'.clusterStack = c /\ mem'.hook = mem.hook /\ mem'.version = AddonVersion(c)
          /\ mem'.resources = AppliedResources(chart, res, noMapping, refused, undeleted)
          /\ mem'.applied = "False"
      BY <1>0, <1>1, <1>6, <2>1 DEF SingleStarted, Object
    <2>4. \A o \in chart : res[o] = "synced" => live[o] # 0
      BY <1>0, <1>2 DEF SingleSound
    <2>5. \A o \in Objects : mem'.resources[o] = "synced" => o \in chart /\ live'[o] # 0
      BY <1>1, <2>2, <2>3, <2>4, SyncedIsApplied
    <2>6. SingleSound(mem', c, live')
      BY <1>0, <1>1, <2>3, <2>5 DEF SingleSound
    <2>7. Fits(mem', c, cp) /\ Due(mem', c, cp, due)
      BY <1>0, <1>1, <1>2, <2>3 DEF Fits, VersionOf, Due
    <2>8. PassFits(base, mem', c, cp, due, live')
      BY <1>0, <1>2, <2>3 DEF PassFits
    <2> QED
      BY <1>8, <1>10, <2>2, <2>6, <2>7, <2>8 DEF SingleApplyInPart
  <1>11. CASE SingleApplyFails
    <2>1. PICK applied \in SUBSET ToApply(chart, res),
               gone \in SUBSET ResourcesToBeDeleted(chart, res) : live' = Live(applied, gone)
      BY <1>11 DEF SingleApplyFails
    <2>2. \A o \in chart : live[o] # 0 => live'[o] # 0
      BY <1>0, <1>1, <2>1, LiveKeeps
    <2>3. /\ mem'.clusterStack = mem.clusterStack /\ mem'.hook = mem.hook
          /\ mem'.version = mem.version /\ mem'.resources = res /\ mem'.applied = "False"
      BY <1>1, <1>11 DEF SingleApplyFails, SingleStarted, Object
    <2>4. SingleSound(mem', c, live')
      BY <1>0, <1>1, <1>2, <2>2, <2>3 DEF SingleSound
    <2>5. Fits(mem', c, cp) /\ Due(mem', c, cp, due)
      BY <1>0, <1>2, <2>3 DEF Fits, Due
    <2>6. PassFits(base, mem', c, cp, due, live')
      BY <1>0, <1>2, <2>3 DEF PassFits
    <2> QED
      BY <1>8, <1>11, <2>2, <2>4, <2>5, <2>6 DEF SingleApplyFails
  <1> QED
    BY <1>7, <1>9, <1>10, <1>11 DEF Single

-----------------------------------------------------------------------------
(* The plan for the stages.                                                *)

\* The stages of a list.
LEMMA StageAtType ==
    ASSUME NEW c \in Releases, NEW h \in Hooks, NEW i \in DOMAIN AddonStages(c, h)
    PROVE  /\ StageAt(c, h, i) \in Stage /\ i \in Nat /\ i <= Len(AddonStages(c, h))
           /\ StageAt(c, h, i) \in Range(AddonStages(c, h))
           /\ StageAt(c, h, i).action \in {"apply", "delete"}
  <1>1. AddonStages(c, h) \in Seq(Stage)
    BY AddonAssumption
  <1>2. StageAt(c, h, i) \in Stage /\ i \in Nat /\ i <= Len(AddonStages(c, h))
    BY <1>1 DEF StageAt
  <1>3. StageAt(c, h, i) \in Range(AddonStages(c, h))
    BY DEF StageAt, Range
  <1> QED
    BY <1>2, <1>3 DEF Stage

\* The phases depend on the stages of a hook only.
LEMMA PhasesOfList ==
    ASSUME NEW x, NEW y, NEW c, NEW g, NEW h, NEW w, PhasesTrue(x, g, c, w),
           AddonStages(c, g) = AddonStages(c, h), x.stages = y.stages
    PROVE  PhasesTrue(y, h, c, w)
  BY DEF PhasesTrue, HasRun, Through, Kept, StageAt

\* Stages that are all pending.
LEMMA PendingTrue ==
    ASSUME cls \in Releases, NEW h \in Hooks, NEW x, x.stages = Pending(h), NEW w
    PROVE  PhasesTrue(x, h, cls, w)
  <1> SUFFICES ASSUME NEW i \in DOMAIN AddonStages(cls, h)
               PROVE  x.stages[StageAt(cls, h, i)] = "pending"
    BY DEF PhasesTrue, HasRun
  <1> QED
    BY StageAtType DEF Pending

\* A plan takes the phases on record when there is work in progress.
LEMMA FreshTrue ==
    ASSUME cls \in Releases, Staged(cls), NEW m, NEW d, NEW w, StagesSound(m, cls, d, w),
           m.hook \in Hooks, NEW x, x.stages = Fresh(m, m.hook)
    PROVE  PhasesTrue(x, m.hook, cls, w)
  <1>1. CASE m.ready \/ m.stages = NoStages
    BY <1>1, PendingTrue DEF Fresh
  <1>2. CASE ~m.ready /\ m.stages # NoStages
    <2>1. PhasesTrue(m, m.hook, cls, w) /\ x.stages = m.stages
      BY <1>2 DEF Fresh, StagesSound
    <2> QED
      BY <2>1, PhasesOfList
  <1> QED
    BY <1>1, <1>2

NewClass == SameKubernetes /\ mem.clusterStack # cls

\* What the plan is, case by case.
LEMMA PlanIs ==
    ASSUME mem \in Object, cls \in Releases
    PROVE  /\ Planned \in Object
           /\ Planned.version = AddonVersion(cls) /\ Planned.hook = mem.hook
           /\ Planned.resources = mem.resources
           /\ ~NewClass => /\ Planned.clusterStack = mem.clusterStack
                           /\ Planned.applied = mem.applied
                           /\ Planned.ready = (mem.ready /\ mem.hook = None)
                           /\ mem.hook = None => Planned.stages = mem.stages
                           /\ mem.hook # None => Planned.stages = Fresh(mem, mem.hook)
           /\ NewClass /\ mem.version # AddonVersion(cls) =>
                 /\ Planned.clusterStack = mem.clusterStack
                 /\ Planned.applied = "none" /\ ~Planned.ready
                 /\ Planned.stages = Fresh(WithHook(mem), Before)
           /\ NewClass /\ mem.version = AddonVersion(cls) =>
                 Planned.clusterStack = cls /\ Planned.applied = mem.applied /\ Planned.ready
  <1> DEFINE m == WithHook(mem)
             n == WithNewClass(m)
  <1>1. /\ m \in Object /\ m.version = mem.version /\ m.hook = mem.hook
        /\ m.resources = mem.resources /\ m.clusterStack = mem.clusterStack
        /\ m.applied = mem.applied /\ m.ready = (mem.ready /\ mem.hook = None)
        /\ mem.hook = None => m.stages = mem.stages
        /\ mem.hook # None => m.stages = Fresh(mem, mem.hook)
    <2>1. Fresh(mem, mem.hook) \in [Stage -> Phases]
      BY FreshType
    <2> HIDE DEF Fresh
    <2>2. CASE mem.hook = None
      BY <2>2 DEF WithHook, Object
    <2>3. CASE mem.hook # None
      BY <2>1, <2>3 DEF WithHook, Object
    <2> QED
      BY <2>2, <2>3
  <1> HIDE DEF m
  <1>2. /\ n \in Object /\ n.hook = m.hook /\ n.resources = m.resources
        /\ ~NewClass => n = m
        /\ NewClass /\ m.version # AddonVersion(cls) =>
              /\ n.clusterStack = m.clusterStack /\ n.applied = "none" /\ ~n.ready
              /\ n.stages = Fresh(m, Before)
        /\ NewClass /\ m.version = AddonVersion(cls) =>
              n.clusterStack = cls /\ n.applied = m.applied /\ n.ready
    <2>1. Fresh(m, Before) \in [Stage -> Phases]
      BY <1>1, FreshType
    <2> HIDE DEF Fresh
    <2>2. CASE ~NewClass
      BY <1>1, <2>2 DEF WithNewClass, NewClass
    <2>3. CASE NewClass /\ m.version # AddonVersion(cls)
      <3>1. n = [m EXCEPT !.stages = Fresh(m, Before), !.ready = FALSE, !.applied = "none"]
        BY <1>1, <2>3, HookNames DEF WithNewClass, NewClass
      <3> QED
        BY <1>1, <2>1, <2>3, <3>1 DEF Object
    <2>4. CASE NewClass /\ m.version = AddonVersion(cls)
      <3>1. n = [m EXCEPT !.clusterStack = cls, !.ready = TRUE]
        BY <1>1, <2>4 DEF WithNewClass, NewClass
      <3> QED
        BY <1>1, <2>4, <3>1 DEF Object
    <2> QED
      BY <2>2, <2>3, <2>4
  <1> HIDE DEF n
  <1>3. Planned = [n EXCEPT !.version = AddonVersion(cls),
                            !.clientFailed = mem.clientFailed /\ mem.clusterStack = None]
    BY DEF Planned, n, m
  <1>4. Planned \in Object
    BY PlannedType
  <1>5. /\ Planned.version = AddonVersion(cls) /\ Planned.hook = n.hook
        /\ Planned.resources = n.resources /\ Planned.clusterStack = n.clusterStack
        /\ Planned.applied = n.applied /\ Planned.ready = n.ready /\ Planned.stages = n.stages
    BY <1>2, <1>3 DEF Object
  <1> QED
    BY <1>1, <1>2, <1>4, <1>5 DEF m

\* A pass that has read the Cluster before it moved plans nothing.
LEMMA PlanStale ==
    ASSUME IInv, Undisturbed, PlanStages, cls # cluster.class,
           UNCHANGED <<record, initialized, due>>
    PROVE  (StoreSound /\ PassSound /\ PassKnows)'
  <1>1. /\ pc = "old" /\ SameCopy(base, mem) /\ Done(base, cls) /\ mem \in Object
        /\ cls \in Releases /\ StoreSound /\ PassSound /\ PassKnows
    BY DEF IInv, TInv, TypeOK, PassHasClass, PassKnows, PlanStages
  <1>2. Done(mem, cls) /\ ~NewClass
    BY <1>1 DEF Done, SameCopy, SameRecord, NewClass
  <1>3. /\ Planned \in Object /\ Planned.version = mem.version /\ Planned.hook = mem.hook
        /\ Planned.resources = mem.resources /\ Planned.clusterStack = mem.clusterStack
        /\ Planned.applied = mem.applied /\ Planned.ready /\ mem.ready
        /\ Planned.stages = mem.stages
    BY <1>1, <1>2, PlanIs DEF Done
  <1>4. mem' = [Planned EXCEPT !.hook = Planned.hook] /\ pc' = "patch"
    BY <1>3 DEF PlanStages
  <1>5. SameCopy(mem, mem')
    BY <1>3, <1>4 DEF SameCopy, SameRecord, Object
  <1> QED
    BY <1>1, <1>4, <1>5, IdlePassStep DEF PlanStages

\* The plan for the stages keeps the invariant.
LEMMA PlanSoundStep ==
    ASSUME IInv, Undisturbed, PlanStages, cls = cluster.class,
           UNCHANGED <<record, initialized, due>>
    PROVE  (StoreSound /\ PassSound /\ PassKnows)'
  <1> DEFINE c == cluster.class
             V == AddonVersion(c)
  <1>0. /\ pc = "old" /\ cls = c /\ Staged(c) /\ SameCopy(base, mem)
        /\ StoreSound /\ PassSound
    BY DEF IInv, PassKnows, PlanStages
  <1>1. mem \in Object /\ base \in Object /\ addon \in Object /\ cls \in Releases /\ c # None
    BY <1>0, AddonAssumption DEF IInv, TInv, TypeOK
  <1>2. /\ Fits(mem, c, cp) /\ Due(mem, c, cp, due) /\ StagesSound(mem, c, due, live)
        /\ ReadBefore(base, addon, c) /\ due \in {After, Before}
    BY <1>0, HookNames DEF PassSound, Sound, IInv, TInv, TypeOK
  <1>3. Fits(addon, c, cp)
    BY <1>0 DEF StoreSound, Sound
  <1>4. PICK hook : /\ hook = IF ~Planned.ready /\ SameKubernetes THEN Before ELSE Planned.hook
                    /\ mem' = [Planned EXCEPT !.hook = hook]
                    /\ pc' = IF Planned.ready \/ hook = None THEN "patch" ELSE "stages"
    BY HookNames DEF PlanStages
  <1>5. /\ UNCHANGED <<cluster, cp, addon, live, base>> /\ idx' = 1 /\ cls' = cls
        /\ pc' \in {"patch", "stages"}
    BY <1>4 DEF PlanStages
  <1>6. /\ mem'.hook = hook /\ mem'.version = V /\ mem'.resources = mem.resources
        /\ mem'.clusterStack = Planned.clusterStack /\ mem'.applied = Planned.applied
        /\ mem'.ready = Planned.ready /\ mem'.stages = Planned.stages
    BY <1>0, <1>1, <1>4, PlanIs DEF Object
  <1>7. mem.hook \in {After, Before, None}
    BY <1>1, HookNames DEF Object
  <1>8. mem.hook = None => mem.ready \/ mem.stages = NoStages
    BY <1>0, <1>2 DEF StagesSound
  <1>9. /\ mem.hook = base.hook /\ mem.clusterStack = base.clusterStack
        /\ mem.clusterStack = addon.clusterStack /\ mem.version = addon.version
        /\ mem.ready = addon.ready /\ mem.stages = addon.stages /\ mem.applied = base.applied
    BY <1>0, <1>2 DEF SameCopy, SameRecord, ReadBefore
  <1>10. ASSUME Fits(mem', c, cp), Due(mem', c, cp, due), StagesSound(mem', c, due, live),
                PassFits(base, mem', c, cp, due, live),
                pc' = "stages" => InStages(addon, mem', 1, c, live) /\ ~Done(base, c),
                Done(base, c) => SameCopy(base, mem')
         PROVE  (StoreSound /\ PassSound /\ PassKnows)'
    <2>1. Sound(mem', c, cp, due, live)
      BY <1>0, <1>10 DEF Sound, SingleSound
    <2> QED
      BY <1>0, <1>5, <1>10, <2>1, QuietPassStep
  \* The stages begin.
  <1>11. ASSUME ~Planned.ready, hook \in Hooks, Planned.clusterStack = mem.clusterStack,
                PhasesTrue(mem', hook, c, live), addon.hook # None \/ addon.version # V,
                addon.hook # None => AddonStages(c, addon.hook) = AddonStages(c, hook),
                ~mem.ready /\ mem.stages # NoStages => Planned.stages = mem.stages
         PROVE  /\ StagesSound(mem', c, due, live)
                /\ InStages(addon, mem', 1, c, live)
    <2>1. mem'.hook # None /\ ~mem'.ready /\ mem'.hook = hook
      BY <1>6, <1>11, HookNames
    <2>2. StagesSound(mem', c, due, live)
      BY <1>11, <2>1 DEF StagesSound, Quiet
    <2>3. ~Quiet(addon, c)
      BY <1>11 DEF Quiet
    <2>4. \A j \in DOMAIN AddonStages(c, hook) : ~(j < 1)
      BY <1>0, <1>1, <1>11, AddonAssumption
    <2>5. ~addon.ready /\ addon.stages # NoStages => addon.stages = mem'.stages
      BY <1>6, <1>9, <1>11
    <2> QED
      BY <1>6, <1>9, <1>11, <2>1, <2>2, <2>3, <2>4, <2>5 DEF InStages, HasRun
  \* A new class with the same Kubernetes version and other addons.
  <1>12. CASE NewClass /\ mem.version # V
    <2>1. /\ SameKubernetes /\ mem.clusterStack \notin {None, c} /\ K8s(mem.clusterStack) = K8s(c)
      BY <1>0, <1>12 DEF NewClass, SameKubernetes
    <2>2. /\ ~Planned.ready /\ Planned.stages = Fresh(WithHook(mem), Before)
          /\ Planned.clusterStack = mem.clusterStack /\ Planned.applied = "none"
      BY <1>0, <1>1, <1>12, PlanIs
    <2>3. hook = Before
      BY <1>4, <2>1, <2>2
    <2>4. mem.hook # After /\ addon.hook # After
      BY <1>0, <1>2, <1>3, <1>9, <2>1 DEF Fits
    <2>5. Fits(mem', c, cp) /\ Due(mem', c, cp, due)
      <3>1. due = Before
        BY <1>2, <1>12, <2>1 DEF Due
      <3> QED
        BY <1>0, <1>2, <1>6, <2>1, <2>2, <2>3, <3>1, HookNames DEF Fits, Due
    <2>6. Fresh(WithHook(mem), Before) = Fresh(mem, Before)
      <3>1. CASE mem.hook = None
        BY <3>1 DEF WithHook
      <3>2. CASE mem.hook = Before
        <4>1. /\ WithHook(mem).stages = Fresh(mem, Before) /\ ~WithHook(mem).ready
          BY <1>1, <3>2, HookNames DEF WithHook, Object
        <4> QED
          BY <4>1 DEF Fresh
      <3> QED
        BY <1>7, <2>4, <3>1, <3>2
    <2>7. PhasesTrue(mem', Before, c, live)
      <3>1. CASE mem.hook = None
        BY <1>0, <1>1, <1>6, <1>8, <2>2, <2>6, <3>1, PendingTrue, HookNames DEF Fresh
      <3>2. CASE mem.hook = Before
        BY <1>0, <1>1, <1>2, <1>6, <2>2, <2>6, <3>2, FreshTrue, HookNames
      <3> QED
        BY <1>7, <2>4, <3>1, <3>2
    <2>8. ~mem.ready /\ mem.stages # NoStages => Planned.stages = mem.stages
      BY <2>2, <2>6 DEF Fresh
    <2>9. addon.hook # None => addon.hook = Before
      BY <1>1, <2>4, HookNames DEF Object
    <2>10. PassFits(base, mem', c, cp, due, live)
      BY <1>0, <1>2, <1>6, <1>9, <2>1, <2>2, <2>3, HookNames DEF PassFits, Fits
    <2>11. StagesSound(mem', c, due, live) /\ InStages(addon, mem', 1, c, live)
      BY <1>9, <1>11, <1>12, <2>2, <2>3, <2>7, <2>8, <2>9, HookNames
    <2>12. ~Done(base, c)
      BY <1>9, <2>1 DEF Done
    <2> QED
      BY <1>10, <2>5, <2>10, <2>11, <2>12
  \* A new class with the same addons.
  <1>13. CASE NewClass /\ mem.version = V
    <2>1. /\ mem.clusterStack \notin {None, c} /\ K8s(mem.clusterStack) = K8s(c)
      BY <1>0, <1>13 DEF NewClass, SameKubernetes
    <2>2. /\ Planned.ready /\ Planned.clusterStack = c /\ Planned.applied = mem.applied
          /\ hook = mem.hook /\ pc' = "patch"
      BY <1>0, <1>1, <1>4, <1>13, PlanIs
    <2>3. mem.hook # After
      BY <1>0, <1>2, <2>1 DEF Fits
    <2>4. Fits(mem', c, cp) /\ Due(mem', c, cp, due)
      BY <1>0, <1>1, <1>2, <1>6, <1>13, <2>1, <2>2, <2>3 DEF Fits, Due
    <2>5. StagesSound(mem', c, due, live)
      BY <1>2, <1>6, <1>13, <2>1, <2>2 DEF StagesSound, Quiet
    <2>6. PassFits(base, mem', c, cp, due, live)
      BY <1>0, <1>6, <1>9, <2>1, <2>2 DEF PassFits
    <2>7. ~Done(base, c)
      BY <1>9, <2>1 DEF Done
    <2> QED
      BY <1>10, <2>2, <2>4, <2>5, <2>6, <2>7
  \* No hook and no new class.
  <1>14. CASE ~NewClass /\ mem.hook = None
    <2>1. /\ Planned.clusterStack = mem.clusterStack /\ Planned.applied = mem.applied
          /\ Planned.ready = mem.ready /\ Planned.stages = mem.stages /\ Planned.hook = None
      BY <1>0, <1>1, <1>14, PlanIs DEF Object
    <2>2. SameKubernetes => mem.clusterStack = c /\ Quiet(mem, c) /\ mem.ready
      <3> SUFFICES ASSUME SameKubernetes PROVE mem.clusterStack = c /\ Quiet(mem, c) /\ mem.ready
        OBVIOUS
      <3>1. mem.clusterStack = c
        BY <1>0, <1>14 DEF NewClass
      <3>2. Quiet(mem, c)
        BY <1>0, <1>1, <1>2, <1>14, <3>1 DEF Quiet, Fits, VersionOf
      <3> QED
        BY <1>0, <1>2, <3>1, <3>2 DEF StagesSound
    <2>3. hook = None /\ pc' = "patch"
      BY <1>4, <2>1, <2>2
    <2>4. Fits(mem', c, cp) /\ Due(mem', c, cp, due)
      BY <1>0, <1>2, <1>6, <1>14, <2>1, <2>3, HookNames DEF Fits, Due
    <2>5. Quiet(mem', c) => Quiet(mem, c)
      BY <1>0, <1>1, <1>6, <2>1, <2>2, <2>3 DEF Quiet, SameKubernetes
    <2>6. StagesSound(mem', c, due, live)
      BY <1>2, <1>6, <1>8, <1>14, <2>1, <2>5 DEF StagesSound
    <2>7. PassFits(base, mem', c, cp, due, live)
      BY <1>0, <1>6, <1>9, <1>14, <2>1, <2>3 DEF PassFits
    <2>8. Done(base, c) => SameCopy(base, mem')
      BY <1>0, <1>6, <1>14, <2>1, <2>3 DEF Done, SameCopy, SameRecord
    <2> QED
      BY <1>10, <2>3, <2>4, <2>6, <2>7, <2>8
  \* A hook, and no new class.
  <1>15. CASE ~NewClass /\ mem.hook # None
    <2>1. /\ Planned.clusterStack = mem.clusterStack /\ Planned.applied = mem.applied
          /\ ~Planned.ready /\ Planned.stages = Fresh(mem, mem.hook) /\ Planned.hook = mem.hook
      BY <1>0, <1>1, <1>15, PlanIs
    <2>2. mem.hook \in Hooks /\ hook \in {mem.hook, Before} /\ hook \in Hooks
      BY <1>4, <1>7, <1>15, <2>1, HookNames
    <2>3. hook = mem.hook \/ (mem.hook = After /\ hook = Before /\ SameStages(c)
                              /\ mem.clusterStack = c)
      <3> SUFFICES ASSUME hook # mem.hook
                   PROVE  mem.hook = After /\ hook = Before /\ SameStages(c) /\ mem.clusterStack = c
        OBVIOUS
      <3>1. SameKubernetes /\ hook = Before /\ mem.hook = After
        BY <1>4, <1>7, <1>15, <2>1
      <3>2. mem.clusterStack = c
        BY <1>0, <1>15, <3>1 DEF NewClass
      <3> QED
        BY <1>0, <1>1, <1>2, <3>1, <3>2 DEF Fits
    <2>4. AddonStages(c, hook) = AddonStages(c, mem.hook)
      BY <2>3 DEF SameStages
    <2>5. PhasesTrue(mem', hook, c, live)
      <3>1. PhasesTrue(mem', mem.hook, c, live)
        BY <1>0, <1>1, <1>2, <1>6, <2>1, <2>2, FreshTrue
      <3> QED
        BY <2>4, <3>1, PhasesOfList
    <2>6. addon.hook # None /\ AddonStages(c, addon.hook) = AddonStages(c, hook)
      BY <1>0, <1>2, <1>9, <1>15, <2>4, HookNames DEF ReadBefore, SameStages
    <2>7. ~mem.ready /\ mem.stages # NoStages => Planned.stages = mem.stages
      BY <2>1 DEF Fresh
    <2>8. StagesSound(mem', c, due, live) /\ InStages(addon, mem', 1, c, live)
      BY <1>11, <2>1, <2>2, <2>5, <2>6, <2>7
    <2>9. Fits(mem', c, cp) /\ Due(mem', c, cp, due)
      BY <1>0, <1>1, <1>2, <1>6, <1>15, <2>1, <2>3, <2>4, HookNames DEF Fits, Due
    <2>10. PassFits(base, mem', c, cp, due, live)
      BY <1>0, <1>6, <1>9, <1>15, <2>1, <2>2 DEF PassFits
    <2>11. ~Done(base, c)
      BY <1>9, <1>15 DEF Done
    <2> QED
      BY <1>10, <2>8, <2>9, <2>10, <2>11
  <1> QED
    BY <1>12, <1>13, <1>14, <1>15

-----------------------------------------------------------------------------
(* The stages.                                                             *)

\* The objects of a chart.
LEMMA ChartType == \A c \in Releases : \A name : Chart(c, name) \subseteq WholeChart(c)
  BY DEF Chart, Charts, WholeChart, Range

\* A stage applies its own objects and deletes nothing that an earlier stage keeps
\* there: that is where releases with objects that move forward are left out.
LEMMA StageKeeps ==
    ASSUME live \in [Objects -> Contents], cls \in Releases, mem.hook \in Hooks, Staged(cls),
           Fits(mem, cls, cp), NEW i \in DOMAIN AddonStages(cls, mem.hook), i < idx,
           idx \in DOMAIN AddonStages(cls, mem.hook),
           StageAt(cls, mem.hook, i).action = "apply",
           NEW o \in Kept(cls, mem.hook, i), live[o] = AddonVersion(cls),
           NEW applied, NEW deleted, deleted \subseteq StageDeletes
    PROVE  Live(applied, deleted)[o] = AddonVersion(cls)
  <1>0. Current = StageAt(cls, mem.hook, idx)
    BY DEF Current, StageAt
  <1>1. o \in Chart(cls, StageAt(cls, mem.hook, i).name) /\ o \in Objects
    BY ChartType, AddonAssumption DEF Kept
  <1>2. ASSUME o \in StageDeletes PROVE FALSE
    <2>1. CASE Current.action # "apply"
      <3>1. Current.action = "delete" /\ o \in Chart(cls, Current.name) /\ i \in Nat /\ idx \in Nat
        BY <1>0, <1>2, <2>1, StageAtType DEF StageDeletes, StageObjects
      <3> QED
        BY <1>0, <3>1 DEF Kept
    <2>2. CASE Current.action = "apply"
      <3> DEFINE old == mem.clusterStack
      <3>1. /\ old # None /\ Staged(old)
            /\ o \in ObjectsToBeDeleted(Chart(old, Current.name), Chart(cls, Current.name))
        BY <1>2, <2>2 DEF StageDeletes, OldStageObjects, StageObjects, ObjectsToBeDeleted
      <3>2. old # cls
        BY <3>1 DEF ObjectsToBeDeleted
      <3>3. ~MovesForward(old, cls)
        BY <3>1, <3>2 DEF Fits
      <3>4. MovesForward(old, cls)
        BY <1>0, <1>1, <2>2, <3>1 DEF MovesForward, StageAt
      <3> QED
        BY <3>3, <3>4
    <2> QED
      BY <2>1, <2>2
  <1> QED
    BY <1>1, <1>2 DEF Live

\* A stage applies all its objects.
LEMMA StageBrings ==
    ASSUME cls \in Releases, Current.action = "apply", NEW o \in Chart(cls, Current.name)
    PROVE  Live(StageApplies, StageDeletes)[o] = AddonVersion(cls)
  <1>1. o \in Objects
    BY ChartType, AddonAssumption
  <1> QED
    BY <1>1 DEF Live, StageApplies, StageObjects

\* A stage that is not through has no stage after it that has run.
LEMMA NoneLater ==
    ASSUME NEW x, NEW h, NEW c, NEW w, PhasesTrue(x, h, c, w),
           NEW j \in DOMAIN AddonStages(c, h), ~Through(x, c, StageAt(c, h, j)),
           NEW i \in DOMAIN AddonStages(c, h), HasRun(x, StageAt(c, h, i))
    PROVE  ~(j < i)
  BY DEF PhasesTrue

\* While a stage is executed the phases of the others stay true.
LEMMA OtherPhases ==
    ASSUME NEW x, NEW h, NEW c, NEW w, NEW v, PhasesTrue(x, h, c, w),
           \A i \in DOMAIN AddonStages(c, h) :
              HasRun(x, StageAt(c, h, i)) /\ StageAt(c, h, i).action = "apply" =>
                 \A o \in Kept(c, h, i) : w[o] = AddonVersion(c) => v[o] = AddonVersion(c)
    PROVE  PhasesTrue(x, h, c, v)
  BY DEF PhasesTrue

\* A stage gets another phase after those before it are through.
LEMMA NextPhase ==
    ASSUME DistinctStages, cls \in Releases, mem.hook \in Hooks, mem \in Object,
           PhasesTrue(mem, mem.hook, cls, live'), idx \in DOMAIN AddonStages(cls, mem.hook),
           \A i \in DOMAIN AddonStages(cls, mem.hook) :
              i < idx => Through(mem, cls, StageAt(cls, mem.hook, i)),
           ~Through(mem, cls, StageAt(cls, mem.hook, idx)),
           NEW phase \in Phases \ {"none"},
           mem'.stages = [mem.stages EXCEPT ![StageAt(cls, mem.hook, idx)] = phase],
           HasRun(mem', StageAt(cls, mem.hook, idx))
             /\ StageAt(cls, mem.hook, idx).action = "apply" =>
              \A o \in Kept(cls, mem.hook, idx) : live'[o] = AddonVersion(cls)
    PROVE  /\ PhasesTrue(mem', mem.hook, cls, live')
           /\ mem'.stages[StageAt(cls, mem.hook, idx)] = phase
           /\ \A i \in DOMAIN AddonStages(cls, mem.hook) :
                 i < idx => Through(mem', cls, StageAt(cls, mem.hook, i))
           /\ \A i \in DOMAIN AddonStages(cls, mem.hook) :
                 i # idx => (HasRun(mem', StageAt(cls, mem.hook, i))
                               <=> HasRun(mem, StageAt(cls, mem.hook, i)))
  <1> DEFINE list == AddonStages(cls, mem.hook)
             at(i) == StageAt(cls, mem.hook, i)
  <1>1. /\ mem'.stages[at(idx)] = phase
        /\ \A i \in DOMAIN list :
              i # idx => mem'.stages[at(i)] = mem.stages[at(i)]
    <2>1. mem.stages \in [Stage -> Phases]
      BY DEF Object
    <2>2. \A i \in DOMAIN list : at(i) \in Stage
      BY StageAtType
    <2>3. \A i \in DOMAIN list : i # idx => at(i) # at(idx)
      BY DEF DistinctStages, StageAt
    <2> QED
      BY <2>1, <2>2, <2>3
  <1>2. \A i \in DOMAIN list :
          i # idx => (HasRun(mem', at(i)) <=> HasRun(mem, at(i)))
    BY <1>1 DEF HasRun
  <1>3. \A i \in DOMAIN list :
          i # idx => (Through(mem', cls, at(i)) <=> Through(mem, cls, at(i)))
    BY <1>1 DEF Through
  <1>4. \A i \in DOMAIN list : i \in Nat
    BY StageAtType
  <1>5. ASSUME NEW i \in DOMAIN list, HasRun(mem', at(i)), i # idx,
               NEW n \in DOMAIN list, n < i
        PROVE  Through(mem', cls, at(n))
    <2>1. HasRun(mem, at(i)) /\ ~(idx < i)
      BY <1>2, <1>5, NoneLater
    <2>2. n # idx
      BY <1>5, <2>1
    <2> QED
      BY <1>3, <1>5, <2>1, <2>2 DEF PhasesTrue
  <1>6. \A i \in DOMAIN list : i < idx => Through(mem', cls, at(i))
    BY <1>3, <1>4
  <1>7. PhasesTrue(mem', mem.hook, cls, live')
    <2> SUFFICES ASSUME NEW i \in DOMAIN list
                 PROVE  /\ mem'.stages[at(i)] # "none"
                        /\ HasRun(mem', at(i)) =>
                           /\ \A n \in DOMAIN list :
                                 n < i => Through(mem', cls, at(n))
                           /\ at(i).action = "apply" =>
                                 \A o \in Kept(cls, mem.hook, i) : live'[o] = AddonVersion(cls)
      BY DEF PhasesTrue
    <2>1. CASE i = idx
      BY <1>1, <1>6, <2>1
    <2>2. CASE i # idx
      BY <1>1, <1>2, <1>5, <2>2 DEF PhasesTrue
    <2> QED
      BY <2>1, <2>2
  <1> QED
    BY <1>1, <1>2, <1>6, <1>7

\* A pass in the stages has its hook in the list, and there is nothing to gate.
LEMMA StagesFacts ==
    ASSUME IInv, Undisturbed, pc = "stages"
    PROVE  /\ cls = cluster.class /\ cls \in Releases /\ Staged(cls) /\ mem.hook \in Hooks
           /\ mem \in Object /\ addon \in Object /\ live \in [Objects -> Contents] /\ idx \in Nat
           /\ StoreSound /\ PassSound /\ PassKnows /\ InStages(addon, mem, idx, cls, live)
           /\ Fits(mem, cls, cp) /\ Due(mem, cls, cp, due) /\ ~Done(base, cls)
           /\ PassFits(base, mem, cls, cp, due, live)
           /\ \A w : Gate(addon, cls, cp, due, record, w)
           /\ ~addon.ready /\ addon.stages # NoStages =>
                 /\ addon.hook # None /\ PhasesTrue(addon, addon.hook, cls, live)
                 /\ AddonStages(cls, addon.hook) = AddonStages(cls, mem.hook)
  <1>1. /\ cls = cluster.class /\ cls \in Releases /\ Staged(cls) /\ mem.hook \in Hooks
        /\ mem \in Object /\ addon \in Object /\ live \in [Objects -> Contents] /\ idx \in Nat
        /\ StoreSound /\ PassSound /\ PassKnows /\ InStages(addon, mem, idx, cls, live)
        /\ ~Done(base, cls)
    BY DEF IInv, PassKnows, TInv, TypeOK, PassHasClass
  <1>2. /\ Fits(mem, cls, cp) /\ Due(mem, cls, cp, due)
        /\ PassFits(base, mem, cls, cp, due, live)
    BY <1>1 DEF PassSound, Sound
  <1>3. ASSUME NEW w PROVE Gate(addon, cls, cp, due, record, w)
    <2> SUFFICES ASSUME K8s(cls) # cp, addon.applied = "True"
                 PROVE  addon.hook = None /\ addon.hook # Before /\ cls \notin record
      BY DEF Gate
    <2>1. /\ addon.hook = None
          /\ cls \in record => addon.clusterStack = cls
      BY <1>1 DEF StoreSound, Gate
    <2>2. ASSUME addon.clusterStack = cls PROVE Quiet(addon, cls)
      BY <1>1, <2>1, <2>2, AddonAssumption DEF Quiet, StoreSound, Sound, Fits, VersionOf
    <2> QED
      BY <1>1, <2>1, <2>2, HookNames DEF InStages
  <1>4. ~addon.ready /\ addon.stages # NoStages =>
           /\ addon.hook # None /\ PhasesTrue(addon, addon.hook, cls, live)
           /\ AddonStages(cls, addon.hook) = AddonStages(cls, mem.hook)
    BY <1>1 DEF StoreSound, Sound, StagesSound, InStages
  <1> QED
    BY <1>1, <1>2, <1>3, <1>4

\* The stored ClusterAddon is sound for a new content if what it records stays true.
LEMMA StoredInStages ==
    ASSUME IInv, Undisturbed, pc = "stages", NEW w,
           ~addon.ready /\ addon.stages # NoStages => PhasesTrue(addon, addon.hook, cls, w)
    PROVE  Sound(addon, cls, cp, due, w)
  BY StagesFacts DEF StoreSound, Sound, SingleSound, StagesSound, InStages

\* So is the copy of the pass.
LEMMA CopyInStages ==
    ASSUME NEW x, NEW y, NEW c, NEW k, NEW d, NEW w, Fits(x, c, k), Due(x, c, k, d), Staged(c),
           x.hook # None,
           x.clusterStack = y.clusterStack, x.version = y.version, x.hook = y.hook,
           PhasesTrue(y, y.hook, c, w)
    PROVE  Sound(y, c, k, d, w)
  BY DEF Sound, Fits, Due, SingleSound, StagesSound, Quiet

\* The same for what may change of the conditions.
LEMMA FitsInStages ==
    ASSUME NEW b, NEW x, NEW y, NEW c, NEW k, NEW d, NEW w, NEW v, PassFits(b, x, c, k, d, w),
           x.hook # None, x.clusterStack = y.clusterStack, x.hook = y.hook,
           y.applied \in {"none", "False", x.applied}
    PROVE  PassFits(b, y, c, k, d, v)
  BY DEF PassFits

\* Executing a stage, in part or as a whole.
LEMMA StageRunSound ==
    ASSUME DistinctStages, IInv, Undisturbed, AtStage, StageRuns,
           UNCHANGED <<cluster, cp, addon, base, cls, record, initialized, due>>,
           NEW phase \in Phases \ {"none"}, mem'.stages = [mem.stages EXCEPT ![Current] = phase],
           mem'.hook = mem.hook, mem'.clusterStack = mem.clusterStack,
           mem'.version = mem.version, mem'.ready = mem.ready,
           mem'.applied \in {"none", "False", mem.applied},
           NEW applied, NEW deleted, deleted \subseteq StageDeletes,
           live' = IF Executed THEN live ELSE Live(applied, deleted),
           HasRun(mem', Current) /\ ~Executed => live' = Live(StageApplies, StageDeletes),
           Executed => HasRun(mem', Current),
           \/ pc' = "patch"
           \/ pc' = "stages" /\ phase = "done" /\ idx' = idx + 1
    PROVE  (StoreSound /\ PassSound /\ PassKnows)'
  <1> DEFINE list == AddonStages(cls, mem.hook)
             at(i) == StageAt(cls, mem.hook, i)
  <1>0. /\ pc = "stages" /\ cls = cluster.class /\ cls \in Releases /\ Staged(cls)
        /\ mem.hook \in Hooks /\ mem \in Object /\ live \in [Objects -> Contents] /\ idx \in Nat
        /\ StoreSound /\ PassSound /\ InStages(addon, mem, idx, cls, live)
        /\ Fits(mem, cls, cp) /\ Due(mem, cls, cp, due) /\ ~Done(base, cls)
        /\ PassFits(base, mem, cls, cp, due, live)
    BY StagesFacts DEF AtStage
  <1>1. list \in Seq(Stage) /\ idx <= Len(list)
    BY <1>0, AddonAssumption DEF AtStage
  <1>2. Current = at(idx) /\ idx \in DOMAIN list
    BY <1>0, <1>1 DEF Current, StageAt, InStages
  <1>3. ~Through(mem, cls, at(idx)) /\ (HasRun(mem, at(idx)) <=> Executed)
    BY <1>2 DEF StageRuns, Through, HasRun, Executed, Phase
  <1>4. PhasesTrue(mem, mem.hook, cls, live)
    BY <1>0 DEF InStages
  \* What an earlier stage keeps there stays.
  <1>5. ASSUME NEW i \in DOMAIN list, HasRun(mem, at(i)), at(i).action = "apply",
               NEW o \in Kept(cls, mem.hook, i), live[o] = AddonVersion(cls)
        PROVE  live'[o] = AddonVersion(cls)
    <2>1. CASE Executed
      BY <1>5, <2>1
    <2>2. CASE ~Executed
      <3>1. i # idx /\ ~(idx < i)
        BY <1>2, <1>3, <1>4, <1>5, <2>2, NoneLater
      <3>2. i < idx
        BY <1>0, <1>1, <1>5, <3>1
      <3> QED
        BY <1>0, <1>2, <1>5, <2>2, <3>2, StageKeeps
    <2> QED
      BY <2>1, <2>2
  <1>6. PhasesTrue(mem, mem.hook, cls, live')
    BY <1>4, <1>5, OtherPhases
  <1>7. ASSUME HasRun(mem', at(idx)), at(idx).action = "apply", NEW o \in Kept(cls, mem.hook, idx)
        PROVE  live'[o] = AddonVersion(cls)
    <2>1. CASE Executed
      BY <1>2, <1>3, <1>4, <1>7, <2>1 DEF PhasesTrue
    <2>2. CASE ~Executed
      <3>1. o \in Chart(cls, Current.name)
        BY <1>2 DEF Kept
      <3> QED
        BY <1>0, <1>2, <1>7, <2>2, <3>1, StageBrings
    <2> QED
      BY <2>1, <2>2
  <1>8. /\ PhasesTrue(mem', mem.hook, cls, live')
        /\ \A i \in DOMAIN list : i < idx => Through(mem', cls, at(i))
        /\ mem'.stages[at(idx)] = phase
        /\ \A i \in DOMAIN list : i # idx => (HasRun(mem', at(i)) <=> HasRun(mem, at(i)))
    <2>1. \A i \in DOMAIN list : i < idx => Through(mem, cls, at(i))
      BY <1>0 DEF InStages
    <2>2. mem'.stages = [mem.stages EXCEPT ![at(idx)] = phase]
      BY <1>2
    <2>3. HasRun(mem', at(idx)) /\ at(idx).action = "apply" =>
            \A o \in Kept(cls, mem.hook, idx) : live'[o] = AddonVersion(cls)
      BY <1>7
    <2> QED
      BY <1>0, <1>2, <1>3, <1>6, <2>1, <2>2, <2>3, NextPhase
  <1>9. ~addon.ready /\ addon.stages # NoStages => PhasesTrue(addon, addon.hook, cls, live')
    <2> SUFFICES ASSUME ~addon.ready, addon.stages # NoStages
                 PROVE  PhasesTrue(addon, addon.hook, cls, live')
      OBVIOUS
    <2>1. PhasesTrue(addon, addon.hook, cls, live) /\ AddonStages(cls, addon.hook) = list
      BY <1>0, StagesFacts
    <2>2. PhasesTrue(addon, mem.hook, cls, live)
      BY <2>1, PhasesOfList
    <2>3. \A i \in DOMAIN list : HasRun(addon, at(i)) => HasRun(mem, at(i))
      BY <1>0 DEF InStages
    <2>4. PhasesTrue(addon, mem.hook, cls, live')
      BY <1>5, <2>2, <2>3, OtherPhases
    <2> QED
      BY <2>1, <2>4, PhasesOfList
  <1>10. Sound(addon, cls, cp, due, live') /\ Gate(addon, cls, cp, due, record, live')
    BY <1>0, <1>9, StagesFacts, StoredInStages
  <1>11. Sound(mem', cls, cp, due, live') /\ PassFits(base, mem', cls, cp, due, live')
    BY <1>0, <1>8, CopyInStages, FitsInStages, HookNames
  <1>12. ASSUME pc' = "stages" PROVE InStages(addon, mem', idx', cls, live')
    <2>1. phase = "done" /\ idx' = idx + 1
      BY <1>12
    <2>2. \A i \in DOMAIN list : i < idx + 1 => Through(mem', cls, at(i))
      <3>1. Through(mem', cls, at(idx))
        BY <1>8, <2>1 DEF Through
      <3> QED
        BY <1>0, <1>1, <1>8, <3>1
    <2>3. \A i \in DOMAIN list : HasRun(mem, at(i)) => HasRun(mem', at(i))
      BY <1>8, <2>1 DEF HasRun
    <2> QED
      BY <1>0, <1>8, <2>1, <2>2, <2>3 DEF InStages
  <1> QED
    BY <1>0, <1>10, <1>11, <1>12, PassStep

\* Executing the stages keeps the invariant.
LEMMA StageSoundStep ==
    ASSUME DistinctStages, IInv, Undisturbed, ExecuteStage, UNCHANGED <<record, initialized, due>>
    PROVE  (StoreSound /\ PassSound /\ PassKnows)'
  <1>0. /\ pc = "stages" /\ cls = cluster.class /\ cls \in Releases /\ Staged(cls)
        /\ mem.hook \in Hooks /\ mem \in Object /\ idx \in Nat
        /\ StoreSound /\ PassSound /\ PassKnows /\ InStages(addon, mem, idx, cls, live)
        /\ ~Done(base, cls) /\ AtStage
    BY StagesFacts
    DEF ExecuteStage, StageSkipped, PreConditionNotMet, StageInPart, PostConditionNotMet,
        StageDone, AtStage
  <1>1. {"waitingForPreCondition", "applyingOrDeleting", "waitingForPostCondition", "done"}
          \subseteq Phases \ {"none"}
    BY DEF Phases
  <1>2. Current \in Stage
    <2>1. AddonStages(cls, mem.hook) \in Seq(Stage) /\ idx # 0
      BY <1>0, AddonAssumption DEF InStages
    <2> QED
      BY <1>0, <2>1 DEF Current, AtStage
  <1>3. CASE StageSkipped
    <2>1. /\ UNCHANGED <<cluster, cp, addon, live, pc, cls, base, mem>> /\ idx' = idx + 1
      BY <1>3 DEF StageSkipped
    <2>2. Current = StageAt(cls, mem.hook, idx) /\ idx \in DOMAIN AddonStages(cls, mem.hook)
      <3>1. AddonStages(cls, mem.hook) \in Seq(Stage) /\ idx # 0
        BY <1>0, AddonAssumption DEF InStages
      <3> QED
        BY <1>0, <3>1 DEF Current, AtStage, StageAt
    <2>3. Through(mem, cls, StageAt(cls, mem.hook, idx))
      BY <1>0, <1>3, <2>2 DEF StageSkipped, StageRuns, Phase, Through, InStages, PhasesTrue
    <2>4. \A j \in DOMAIN AddonStages(cls, mem.hook) :
            j < idx + 1 => Through(mem, cls, StageAt(cls, mem.hook, j))
      <3>1. \A j \in DOMAIN AddonStages(cls, mem.hook) : j \in Nat
        BY <1>0, StageAtType
      <3> QED
        BY <1>0, <2>3, <3>1 DEF InStages
    <2>5. InStages(addon, mem', idx', cls, live)
      BY <1>0, <2>1, <2>4 DEF InStages
    <2> QED
      BY <1>0, <2>1, <2>5, QuietPassStep DEF PassSound
  <1>4. CASE PreConditionNotMet
    <2>1. CASE mem' = mem
      BY <1>0, <1>4, <2>1, IdlePassStep DEF PreConditionNotMet, SameCopy, SameRecord
    <2>2. CASE mem' = WithPhase(mem, "waitingForPreCondition")
      <3>1. /\ mem'.stages = [mem.stages EXCEPT ![Current] = "waitingForPreCondition"]
            /\ mem'.hook = mem.hook /\ mem'.clusterStack = mem.clusterStack
            /\ mem'.version = mem.version /\ mem'.ready = mem.ready
            /\ mem'.applied = mem.applied
        BY <1>0, <2>2 DEF WithPhase, Object
      <3>2. ~Executed /\ ~HasRun(mem', Current)
        BY <1>0, <1>2, <1>4, <3>1 DEF PreConditionNotMet, Executed, Phase, HasRun, Object
      <3>3. live' = Live({}, {})
        BY <1>4 DEF PreConditionNotMet, Live, IInv, TInv, TypeOK
      <3> QED
        BY <1>0, <1>1, <1>4, <3>1, <3>2, <3>3, StageRunSound DEF PreConditionNotMet
    <2> QED
      BY <1>4, <2>1, <2>2 DEF PreConditionNotMet
  <1>5. CASE StageInPart
    <2> DEFINE m == [mem EXCEPT !.applied = IF Current.action = "apply" THEN "False"
                                            ELSE mem.applied]
    <2>1. mem' = WithPhase(m, "applyingOrDeleting") /\ m \in Object
      BY <1>0, <1>5 DEF StageInPart, Object
    <2>2. /\ mem'.stages = [mem.stages EXCEPT ![Current] = "applyingOrDeleting"]
          /\ mem'.hook = mem.hook /\ mem'.clusterStack = mem.clusterStack
          /\ mem'.version = mem.version /\ mem'.ready = mem.ready
          /\ mem'.applied \in {"False", mem.applied}
      BY <1>0, <2>1 DEF WithPhase, Object
    <2>3. PICK failed : live' = Live(StageApplies \ failed, StageDeletes \ failed)
      BY <1>5 DEF StageInPart
    <2>4. ~Executed /\ ~HasRun(mem', Current)
      BY <1>0, <1>2, <1>5, <2>2 DEF StageInPart, HasRun, Object
    <2>5. StageDeletes \ failed \subseteq StageDeletes
      OBVIOUS
    <2> QED
      BY <1>0, <1>1, <1>5, <2>2, <2>3, <2>4, <2>5, StageRunSound DEF StageInPart
  <1>6. ASSUME NEW phase \in {"waitingForPostCondition", "done"},
               mem' = WithPhase(AfterStage, phase), live' = LiveAfterStage
        PROVE  /\ mem'.stages = [mem.stages EXCEPT ![Current] = phase]
               /\ mem'.hook = mem.hook /\ mem'.clusterStack = mem.clusterStack
               /\ mem'.version = mem.version /\ mem'.ready = mem.ready
               /\ mem'.applied \in {"none", mem.applied}
               /\ HasRun(mem', Current)
               /\ live' = IF Executed THEN live ELSE Live(StageApplies, StageDeletes)
    <2>1. /\ AfterStage \in Object /\ AfterStage.stages = mem.stages
          /\ AfterStage.hook = mem.hook /\ AfterStage.clusterStack = mem.clusterStack
          /\ AfterStage.version = mem.version /\ AfterStage.ready = mem.ready
          /\ AfterStage.applied \in {"none", mem.applied}
      <3>1. AfterStage \in Object
        BY <1>0, AfterStageType DEF IInv, TInv, TypeOK
      <3> QED
        BY <1>0, <3>1 DEF AfterStage, Object
    <2> HIDE DEF AfterStage
    <2>2. /\ mem'.stages = [mem.stages EXCEPT ![Current] = phase]
          /\ mem'.hook = mem.hook /\ mem'.clusterStack = mem.clusterStack
          /\ mem'.version = mem.version /\ mem'.ready = mem.ready
          /\ mem'.applied \in {"none", mem.applied}
      BY <1>6, <2>1 DEF WithPhase, Object
    <2>3. HasRun(mem', Current)
      BY <1>0, <1>2, <1>6, <2>2 DEF HasRun, Object
    <2> QED
      BY <1>6, <2>2, <2>3 DEF LiveAfterStage
  <1>7. CASE PostConditionNotMet
    BY <1>0, <1>1, <1>6, <1>7, StageRunSound DEF PostConditionNotMet
  <1>8. CASE StageDone
    BY <1>0, <1>1, <1>6, <1>8, StageRunSound DEF StageDone
  <1> QED
    BY <1>3, <1>4, <1>5, <1>7, <1>8 DEF ExecuteStage

-----------------------------------------------------------------------------
(* After the last stage.                                                   *)

\* When all the stages of a hook are through, its addons are installed.
LEMMA AllThrough ==
    ASSUME NEW c, NEW h \in Hooks, NEW m, NEW w, Staged(c), PhasesTrue(m, h, c, w),
           \A i \in DOMAIN AddonStages(c, h) : Through(m, c, StageAt(c, h, i))
    PROVE  Installed(c, h, w)
  <1> SUFFICES ASSUME NEW o \in Installs(c, h) PROVE w[o] = AddonVersion(c)
    BY DEF Installed
  <1>1. PICK i \in DOMAIN AddonStages(c, h) :
          /\ StageAt(c, h, i).action = "apply" /\ o \in Chart(c, StageAt(c, h, i).name)
          /\ \A j \in DOMAIN AddonStages(c, h) :
                j > i /\ StageAt(c, h, j).action = "delete" =>
                   o \notin Chart(c, StageAt(c, h, j).name)
    BY DEF Installs, StageAt
  <1>2. HasRun(m, StageAt(c, h, i))
    BY <1>1 DEF Through, Chart, HasRun
  <1> QED
    BY <1>1, <1>2 DEF PhasesTrue, Kept

\* So are those of another hook with the same stages.
LEMMA InstalledByList ==
    ASSUME NEW c, NEW g, NEW h, NEW w, Staged(c), AddonStages(c, g) = AddonStages(c, h),
           Installed(c, g, w)
    PROVE  Installed(c, h, w)
  BY DEF Installed, Installs

\* cleanUpResources deletes nothing that the stages of the hook apply.
LEMMA CleanUpKeeps ==
    ASSUME cls \in Releases, mem.hook \in Hooks, NEW i \in DOMAIN AddonStages(cls, mem.hook),
           StageAt(cls, mem.hook, i).action = "apply", NEW o \in Kept(cls, mem.hook, i),
           live[o] = AddonVersion(cls), NEW gone,
           gone \subseteq OldReleaseObjects \ NewReleaseObjects
    PROVE  Live({}, gone)[o] = AddonVersion(cls)
  <1>1. o \in Chart(cls, StageAt(cls, mem.hook, i).name) /\ o \in Objects
    BY ChartType, AddonAssumption DEF Kept
  <1>2. o \in NewReleaseObjects
    BY <1>1, StageAtType DEF NewReleaseObjects, ListedObjects
  <1> QED
    BY <1>1, <1>2 DEF Live

\* The clean-up leaves everything sound.
LEMMA CleanUpSound ==
    ASSUME IInv, Undisturbed, StagesExecuted, NEW gone, live' = Live({}, gone),
           gone \subseteq OldReleaseObjects \ NewReleaseObjects
    PROVE  /\ Sound(addon, cls, cp, due, live') /\ PhasesTrue(mem, mem.hook, cls, live')
           /\ Installed(cls, due, live')
  <1> DEFINE list == AddonStages(cls, mem.hook)
             at(i) == StageAt(cls, mem.hook, i)
  <1>0. /\ pc = "stages" /\ cls = cluster.class /\ cls \in Releases /\ Staged(cls)
        /\ mem.hook \in Hooks /\ idx \in Nat /\ InStages(addon, mem, idx, cls, live)
        /\ Due(mem, cls, cp, due)
    BY StagesFacts DEF StagesExecuted
  <1>1. ASSUME NEW i \in DOMAIN list, at(i).action = "apply", NEW o \in Kept(cls, mem.hook, i),
               live[o] = AddonVersion(cls)
        PROVE  live'[o] = AddonVersion(cls)
    BY <1>0, <1>1, CleanUpKeeps
  <1>2. PhasesTrue(mem, mem.hook, cls, live')
    BY <1>0, <1>1, OtherPhases DEF InStages
  <1>3. ~addon.ready /\ addon.stages # NoStages => PhasesTrue(addon, addon.hook, cls, live')
    <2> SUFFICES ASSUME ~addon.ready, addon.stages # NoStages
                 PROVE  PhasesTrue(addon, addon.hook, cls, live')
      OBVIOUS
    <2>1. PhasesTrue(addon, addon.hook, cls, live) /\ AddonStages(cls, addon.hook) = list
      BY <1>0, StagesFacts
    <2>2. PhasesTrue(addon, mem.hook, cls, live)
      BY <2>1, PhasesOfList
    <2>3. PhasesTrue(addon, mem.hook, cls, live')
      BY <1>1, <2>2, OtherPhases
    <2> QED
      BY <2>1, <2>3, PhasesOfList
  <1>4. \A i \in DOMAIN list : Through(mem, cls, at(i))
    <2>1. list \in Seq(Stage) /\ idx > Len(list)
      BY <1>0, AddonAssumption DEF StagesExecuted
    <2>2. \A i \in DOMAIN list : i < idx
      BY <1>0, <2>1
    <2> QED
      BY <1>0, <2>2 DEF InStages
  <1>5. Installed(cls, due, live')
    <2>1. Installed(cls, mem.hook, live')
      BY <1>0, <1>2, <1>4, AllThrough
    <2>2. AddonStages(cls, mem.hook) = AddonStages(cls, due)
      BY <1>0, HookNames DEF Due
    <2> QED
      BY <1>0, <2>1, <2>2, InstalledByList
  <1> QED
    BY <1>0, <1>2, <1>3, <1>5, StoredInStages

\* What comes after the last stage keeps the invariant.
LEMMA FinishSoundStep ==
    ASSUME IInv, Undisturbed, UNCHANGED <<record, initialized, due>>,
           FinishInstallation \/ FinishUpgrade \/ CleanUpFails \/ CleanUpPanics
    PROVE  (StoreSound /\ PassSound /\ PassKnows)'
  <1>0. /\ pc = "stages" /\ StagesExecuted
        /\ UNCHANGED <<cluster, cp, addon, base>> /\ pc' \in {"patch", "panic"}
    BY DEF FinishInstallation, FinishUpgrade, CleanUpFails, CleanUpPanics, StagesExecuted
  <1>1. /\ cls = cluster.class /\ cls \in Releases /\ Staged(cls) /\ cls # None
        /\ mem.hook \in Hooks /\ mem \in Object /\ live \in [Objects -> Contents]
        /\ StoreSound /\ PassSound /\ PassKnows /\ InStages(addon, mem, idx, cls, live)
        /\ Fits(mem, cls, cp) /\ Due(mem, cls, cp, due) /\ ~Done(base, cls)
        /\ PassFits(base, mem, cls, cp, due, live)
        /\ Gate(addon, cls, cp, due, record, live')
    BY <1>0, StagesFacts, AddonAssumption
  <1>2. ASSUME NEW annotation \in {"created", "upgraded"}, mem' = Finished(annotation),
               pc' = "patch", Installed(cls, due, live'), Sound(addon, cls, cp, due, live')
        PROVE  (StoreSound /\ PassSound /\ PassKnows)'
    <2>1. /\ mem'.clusterStack = cls /\ mem'.hook = None /\ mem'.ready
          /\ mem'.resources = NoResources /\ mem'.applied = "True"
          /\ mem'.version = AddonVersion(cls)
      BY <1>1, <1>2 DEF Finished, Object, InStages
    <2>2. Sound(mem', cls, cp, due, live')
      BY <1>1, <1>2, <2>1, HookNames
      DEF Sound, Fits, Due, VersionOf, SingleSound, StagesSound
    <2>3. PassFits(base, mem', cls, cp, due, live')
      BY <1>1, <1>2, <2>1, HookNames DEF PassFits, Fits
    <2> QED
      BY <1>0, <1>1, <1>2, <2>2, <2>3, PassStep
  <1>3. Live({}, {}) = live
    BY <1>1 DEF Live
  <1>4. CASE FinishInstallation
    <2>1. live' = Live({}, {}) /\ mem' = Finished("created") /\ pc' = "patch"
      BY <1>3, <1>4 DEF FinishInstallation
    <2>2. Sound(addon, cls, cp, due, live') /\ Installed(cls, due, live')
      BY <1>0, <2>1, CleanUpSound
    <2> QED
      BY <1>2, <2>1, <2>2
  <1>5. CASE FinishUpgrade
    <2>1. /\ live' = Live({}, OldReleaseObjects \ NewReleaseObjects)
          /\ mem' = Finished("upgraded") /\ pc' = "patch"
      BY <1>5 DEF FinishUpgrade
    <2>2. Sound(addon, cls, cp, due, live') /\ Installed(cls, due, live')
      BY <1>0, <2>1, CleanUpSound
    <2> QED
      BY <1>2, <2>1, <2>2
  <1>6. CASE CleanUpFails
    <2>1. PICK gone : live' = Live({}, gone) /\ gone \subseteq OldReleaseObjects \ NewReleaseObjects
      <3>1. CASE live' = live
        BY <1>3, <3>1
      <3>2. CASE live' # live
        <4>1. PICK failed : live' = Live({}, (OldReleaseObjects \ NewReleaseObjects) \ failed)
          BY <1>6, <3>2 DEF CleanUpFails
        <4> QED
          BY <4>1
      <3> QED
        BY <3>1, <3>2
    <2>2. Sound(addon, cls, cp, due, live') /\ PhasesTrue(mem, mem.hook, cls, live')
      BY <1>0, <2>1, CleanUpSound
    <2>3. mem' = mem /\ pc' = "patch"
      BY <1>6 DEF CleanUpFails
    <2>4. Sound(mem', cls, cp, due, live') /\ PassFits(base, mem', cls, cp, due, live')
      BY <1>1, <2>2, <2>3, CopyInStages, FitsInStages, HookNames
    <2> QED
      BY <1>0, <1>1, <2>2, <2>3, <2>4, PassStep
  <1>7. CASE CleanUpPanics
    BY <1>0, <1>1, <1>7, IdlePassStep DEF CleanUpPanics, SameCopy, SameRecord
  <1> QED
    BY <1>4, <1>5, <1>6, <1>7

-----------------------------------------------------------------------------
(* The deferred patch.                                                     *)

\* What the patch stores, field by field.
LEMMA PatchIs ==
    ASSUME addon.exists, ~addon.deleting, ReadBefore(base, addon, cluster.class)
    PROVE  LET a == PatchedAddon({})
           IN  /\ a.exists = addon.exists /\ a.deleting = addon.deleting
               /\ a.clusterStack = mem.clusterStack /\ a.version = mem.version
               /\ a.ready = mem.ready /\ a.stages = mem.stages /\ a.resources = mem.resources
               /\ a.hook = IF mem.hook # base.hook THEN mem.hook ELSE addon.hook
               /\ a.applied = IF ConditionsMerge /\ mem.applied # base.applied
                              THEN mem.applied ELSE addon.applied
  <1> DEFINE parts == (IF ConditionsMerge THEN Parts ELSE Parts \ {"conditions"}) \ {}
  <1>1. PatchedAddon({}) = Patched(parts)
    BY DEF PatchedAddon
  <1>2. /\ "object" \in parts /\ "status" \in parts
        /\ "conditions" \in parts <=> ConditionsMerge
    BY DEF Parts
  <1> HIDE DEF parts
  <1> DEFINE a == Patched(parts)
  <1>3. /\ a.exists = addon.exists /\ a.deleting = addon.deleting
        /\ a.hook = IF mem.hook # base.hook THEN mem.hook ELSE addon.hook
        /\ a.applied = IF ConditionsMerge /\ mem.applied # base.applied
                       THEN mem.applied ELSE addon.applied
    BY <1>2 DEF Patched, Changed
  <1>4. /\ a.clusterStack = mem.clusterStack /\ a.version = mem.version
        /\ a.ready = mem.ready /\ a.stages = mem.stages /\ a.resources = mem.resources
    BY <1>2 DEF Patched, Changed, ReadBefore
  <1> QED
    BY <1>1, <1>3, <1>4

\* What a pass has found out is stored, unless its failure gets lost.
LEMMA PatchSound ==
    ASSUME IInv, Undisturbed, pc # "idle", ~FailureLost, pc \in {"patch", "panic"},
           addon' = PatchedAddon({}), pc' = "idle", record' \subseteq record,
           UNCHANGED <<cluster, cp, live, initialized, due>>
    PROVE  (StoreSound /\ PassSound /\ PassKnows)'
  <1> DEFINE c == cluster.class
  <1>0. /\ StoreSound /\ PassSound /\ c \in Releases /\ c # None
        /\ mem \in Object /\ base \in Object /\ addon \in Object
        /\ pc = "panic" => Staged(c) \/ SameCopy(base, mem)
    BY AddonAssumption DEF IInv, TInv, TypeOK, PassKnows
  <1>1. /\ addon.exists /\ ~addon.deleting /\ ReadBefore(base, addon, c)
        /\ PassFits(base, mem, c, cp, due, live)
        /\ Fits(mem, c, cp) /\ SingleSound(mem, c, live) /\ StagesSound(mem, c, due, live)
        /\ Due(mem, c, cp, due) /\ Due(addon, c, cp, due)
        /\ Fits(addon, c, cp) /\ Gate(addon, c, cp, due, record, live)
        /\ Progress(c, cp, record, initialized, addon.clusterStack)
    BY <1>0 DEF StoreSound, PassSound, Sound
  <1>2. /\ addon'.exists /\ ~addon'.deleting
        /\ addon'.clusterStack = mem.clusterStack /\ addon'.version = mem.version
        /\ addon'.ready = mem.ready /\ addon'.stages = mem.stages
        /\ addon'.resources = mem.resources
        /\ addon'.hook = IF mem.hook # base.hook THEN mem.hook ELSE addon.hook
        /\ addon'.applied = IF ConditionsMerge /\ mem.applied # base.applied
                            THEN mem.applied ELSE addon.applied
    BY <1>1, PatchIs
  <1>3. mem.clusterStack \in {addon.clusterStack, c}
    BY <1>1 DEF PassFits, ReadBefore
  <1>4. /\ mem.hook \in {After, Before, None} /\ base.hook \in {After, Before, None}
        /\ addon.hook \in {After, Before, None}
    BY <1>0, HookNames DEF Object
  \* The hook of the copy is stored, or one that has come in the meantime.
  <1>5. \/ addon'.hook = mem.hook
        \/ /\ mem.hook = base.hook /\ addon'.hook = addon.hook
           /\ \/ base.hook = None /\ addon.hook # None
              \/ base.hook = Before /\ addon.hook = After /\ (Staged(c) => SameStages(c))
    BY <1>1, <1>2, <1>4 DEF ReadBefore
  <1>6. Fits(addon', c, cp)
    <2>1. CASE addon'.hook = mem.hook
      BY <1>1, <1>2, <2>1 DEF Fits
    <2>2. CASE addon'.hook # mem.hook
      <3>1. /\ addon'.hook = Before => addon.clusterStack # None
            /\ addon'.hook = After =>
                  /\ cp = K8s(c)
                  /\ Staged(c) => addon.clusterStack = None
                                  \/ (addon.clusterStack = c /\ SameStages(c))
        BY <1>1, <1>5, <2>2 DEF Fits
      <3>2. addon'.hook = After /\ Staged(c) =>
              mem.clusterStack = None \/ (mem.clusterStack = c /\ SameStages(c))
        BY <1>1, <1>3, <1>5, <2>2, <3>1 DEF PassFits, ReadBefore
      <3>3. addon'.hook = Before => mem.clusterStack # None
        BY <1>0, <1>3, <3>1
      <3> QED
        BY <1>1, <1>2, <3>1, <3>2, <3>3 DEF Fits
    <2> QED
      BY <2>1, <2>2
  <1>7. Due(addon', c, cp, due)
    BY <1>1, <1>2, <1>5 DEF Due
  <1>8. StagesSound(addon', c, due, live)
    <2> SUFFICES ASSUME Staged(c) PROVE StagesSound(addon', c, due, live)
      BY DEF StagesSound
    <2>1. CASE addon'.hook = mem.hook
      <3>1. ASSUME PhasesTrue(mem, mem.hook, c, live) PROVE PhasesTrue(addon', mem.hook, c, live)
        BY <1>2, <3>1, PhasesOfList
      <3> QED
        BY <1>1, <1>2, <2>1, <3>1 DEF StagesSound, Quiet
    <2>2. CASE addon'.hook # mem.hook
      <3>1. addon'.hook # None /\ ~Quiet(addon', c)
        BY <1>5, <2>2, HookNames DEF Quiet
      <3>2. ASSUME ~addon'.ready, addon'.stages # NoStages
            PROVE  PhasesTrue(addon', addon'.hook, c, live)
        <4>1. mem.hook # None /\ PhasesTrue(mem, mem.hook, c, live)
          BY <1>1, <1>2, <3>2 DEF StagesSound
        <4>2. AddonStages(c, mem.hook) = AddonStages(c, addon'.hook)
          BY <1>5, <2>2, <4>1 DEF SameStages
        <4> QED
          BY <1>2, <4>1, <4>2, PhasesOfList
      <3> QED
        BY <3>1, <3>2 DEF StagesSound
    <2> QED
      BY <2>1, <2>2
  <1>9. SingleSound(addon', c, live)
    <2> SUFFICES ASSUME ~Staged(c) PROVE SingleSound(addon', c, live)
      BY DEF SingleSound
    <2>1. mem.applied = "False" => addon'.applied = "False"
      BY <1>0, <1>1, <1>2 DEF FailureLost, ReadBefore, SameCopy
    <2> QED
      BY <1>1, <1>2, <2>1 DEF SingleSound
  <1>10. Gate(addon', c, cp, due, record', live)
    <2> SUFFICES ASSUME K8s(c) # cp, addon'.applied = "True"
                 PROVE  /\ Staged(c) => addon'.hook = None
                        /\ addon'.hook = Before \/ c \in record =>
                              addon'.clusterStack = c /\ Installed(c, due, live)
      BY DEF Gate
    <2>1. base.hook = None => mem.hook = None
      BY <1>1 DEF PassFits
    <2>2. addon.hook # After /\ base.hook # After /\ mem.hook # After
      BY <1>1, HookNames DEF Fits, ReadBefore, PassFits
    <2>3. CASE mem.applied = "True" /\ base.applied # "True"
      BY <1>1, <1>2, <2>3 DEF PassFits
    <2>4. CASE ~(mem.applied = "True" /\ base.applied # "True")
      <3>1. addon.applied = "True"
        BY <1>2, <2>4
      <3>2. Staged(c) => addon'.hook = None
        BY <1>1, <1>2, <2>1, <3>1, HookNames DEF Gate, ReadBefore
      <3>3. addon'.hook = Before => addon.hook = Before
        BY <1>1, <1>2, <1>4, <2>1, <2>2, HookNames DEF PassFits, ReadBefore
      <3> QED
        BY <1>1, <1>2, <1>3, <3>1, <3>2, <3>3 DEF Gate
    <2> QED
      BY <2>3, <2>4
  <1>11. Progress(c, cp, record', initialized, addon'.clusterStack)
    BY <1>0, <1>1, <1>2, <1>3 DEF Progress
  <1> QED
    BY <1>2, <1>6, <1>7, <1>8, <1>9, <1>10, <1>11 DEF StoreSound, PassSound, PassKnows, Sound

-----------------------------------------------------------------------------
(* The hook server and everybody else.                                     *)

\* A request of the hook server, stored while a pass may be under way.
LEMMA RequestSound ==
    ASSUME IInv, Undisturbed, NEW h \in Hooks, addon.exists, addon' = WithRequest(h),
           UNCHANGED <<cluster, cp, live, pass, due>>, addon.applied # "False",
           addon.hook # h,
           h = After => cp = K8s(cluster.class) /\ addon.clusterStack \in {None, cluster.class},
           h = After /\ Staged(cluster.class) =>
              addon.clusterStack = None \/ SameStages(cluster.class),
           h = Before => cp \notin {0, K8s(cluster.class)} /\ addon.clusterStack # None,
           Progress(cluster.class, cp, record', initialized', addon.clusterStack)
    PROVE  (StoreSound /\ PassSound /\ PassKnows)'
  <1> DEFINE c == cluster.class
  <1>0. /\ StoreSound /\ PassSound /\ PassKnows /\ c \in Releases /\ c # None /\ addon \in Object
        /\ h \in {After, Before} /\ addon.hook \in {After, Before, None}
    <2>1. /\ StoreSound /\ PassSound /\ PassKnows /\ c \in Releases /\ addon \in Object
      BY DEF IInv, TInv, TypeOK
    <2>2. addon.hook \in Hooks \cup {None}
      BY <2>1 DEF Object
    <2> QED
      BY <2>1, <2>2, AddonAssumption, HookNames
  <1>1. /\ ~addon.deleting /\ Fits(addon, c, cp) /\ SingleSound(addon, c, live)
        /\ StagesSound(addon, c, due, live) /\ Due(addon, c, cp, due) /\ due \in {After, Before}
    <2>1. due \in {After, Before}
      BY HookNames DEF IInv, TInv, TypeOK
    <2> QED
      BY <1>0, <2>1 DEF StoreSound, Sound
  <1>2. /\ addon'.exists /\ ~addon'.deleting
        /\ addon'.clusterStack = addon.clusterStack /\ addon'.version = addon.version
        /\ addon'.ready = addon.ready /\ addon'.stages = addon.stages
        /\ addon'.resources = addon.resources
        /\ addon'.hook = h /\ addon'.applied = "none"
    BY <1>0, <1>1 DEF WithRequest, Object
  \* A hook that is there already comes from the same stages.
  <1>3. addon.hook # None => h = After /\ addon.hook = Before /\ (Staged(c) => SameStages(c))
    BY <1>0, <1>1 DEF Fits
  <1>4. Fits(addon', c, cp) /\ Due(addon', c, cp, due)
    <2>1. Staged(c) => AddonStages(c, h) = AddonStages(c, due)
      BY <1>0, <1>1 DEF Due, SameStages
    <2> QED
      BY <1>0, <1>1, <1>2, <2>1, HookNames DEF Fits, Due
  <1>5. SingleSound(addon', c, live)
    BY <1>1, <1>2 DEF SingleSound
  <1>6. StagesSound(addon', c, due, live)
    <2> SUFFICES ASSUME Staged(c), ~addon'.ready, addon'.stages # NoStages
                 PROVE  PhasesTrue(addon', h, c, live)
      BY <1>2, HookNames DEF StagesSound, Quiet
    <2>1. addon.hook # None /\ PhasesTrue(addon, addon.hook, c, live)
      BY <1>1, <1>2 DEF StagesSound
    <2>2. AddonStages(c, addon.hook) = AddonStages(c, h)
      BY <1>3, <2>1 DEF SameStages
    <2> QED
      BY <1>2, <2>1, <2>2, PhasesOfList
  <1>7. StoreSound'
    BY <1>2, <1>4, <1>5, <1>6 DEF StoreSound, Sound, Gate
  <1>8. ASSUME pc # "idle" PROVE ReadBefore(base, addon', c)
    <2>1. ReadBefore(base, addon, c)
      BY <1>0, <1>8 DEF PassSound
    <2> QED
      BY <1>0, <1>2, <1>3, <2>1, HookNames DEF ReadBefore
  <1>9. PassSound'
    BY <1>0, <1>2, <1>8 DEF PassSound, pass
  <1>10. ASSUME pc = "stages" PROVE InStages(addon', mem, idx, c, live)
    <2>1. InStages(addon, mem, idx, c, live) /\ mem.hook \in Hooks /\ cls = c
      BY <1>0, <1>10 DEF PassKnows, IInv, TInv, PassHasClass
    <2>2. Due(mem, c, cp, due) /\ Staged(c)
      BY <1>0, <1>10 DEF PassSound, Sound, PassKnows
    <2>3. AddonStages(c, h) = AddonStages(c, mem.hook)
      BY <1>0, <1>2, <1>4, <1>10, <2>1, <2>2, HookNames DEF Due
    <2>4. ~Quiet(addon', c)
      BY <1>2, HookNames DEF Quiet
    <2> QED
      BY <1>2, <2>1, <2>3, <2>4 DEF InStages, HasRun
  <1>11. PassKnows'
    BY <1>0, <1>10 DEF PassKnows, pass
  <1> QED
    BY <1>7, <1>9, <1>11

\* The hook server keeps the invariant.
LEMMA HookServerSound ==
    ASSUME IInv, Undisturbed, Undisturbed', HookServer
    PROVE  (StoreSound /\ PassSound /\ PassKnows)'
  <1> DEFINE c == cluster.class
  <1>0. /\ StoreSound /\ PassSound /\ PassKnows /\ c \in Releases /\ c # None
        /\ record \subseteq Releases
        /\ Progress(c, cp, record, initialized, addon.clusterStack)
        /\ Fits(addon, c, cp) /\ Gate(addon, c, cp, due, record, live)
    BY AddonAssumption DEF IInv, StoreSound, Sound, TInv, TypeOK
  <1>1. ASSUME NEW h \in Hooks, RequestStored(h), h = After, addon.exists, addon.hook # After,
               cp # 0, ~initialized, initialized' \in BOOLEAN, record' = record,
               UNCHANGED <<cluster, cp, live, pass, due>>
        PROVE  (StoreSound /\ PassSound /\ PassKnows)'
    <2>1. cp = K8s(c) /\ addon.clusterStack \in {None, c}
      BY <1>0, <1>1 DEF Progress
    <2>2. addon.applied # "False" /\ ~InstallsAgain(h) /\ addon' = WithRequest(h)
      BY <1>1 DEF RequestStored, Undisturbed
    <2>3. Staged(c) => addon.clusterStack = None \/ SameStages(c)
      BY <1>1, <2>2, HookNames DEF InstallsAgain, SameStages
    <2>4. Progress(c, cp, record', initialized', addon.clusterStack)
      BY <1>0, <1>1, <2>1 DEF Progress
    <2> QED
      BY <1>1, <2>1, <2>2, <2>3, <2>4, HookNames, RequestSound
  <1>2. CASE DoAfterControlPlaneInitialized
    <2>1. CASE addon.hook # After
      <3>1. RequestStored(After)
        BY <1>2, <2>1, HookNames DEF DoAfterControlPlaneInitialized, PatchedByHook, Undisturbed
      <3> QED
        BY <1>1, <1>2, <2>1, <3>1, HookNames DEF DoAfterControlPlaneInitialized
    <2>2. CASE addon.hook = After
      <3>1. /\ UNCHANGED <<cluster, cp, addon, live, pass, record, due>>
            /\ cp # 0 /\ initialized' = TRUE
        BY <1>2, <2>2, HookNames DEF DoAfterControlPlaneInitialized
      <3>2. Progress(c, cp, record, initialized', addon.clusterStack)
        BY <1>0, <3>1 DEF Progress
      <3> QED
        BY <1>0, <3>1, <3>2 DEF StoreSound, PassSound, PassKnows, pass
    <2> QED
      BY <2>1, <2>2
  <1>3. CASE AnswerLost
    <2>1. /\ RequestStored(After) /\ addon.hook # After
      BY <1>3, HookNames DEF AnswerLost
    <2>2. initialized \in BOOLEAN
      BY DEF IInv, TInv, TypeOK
    <2> QED
      BY <1>1, <1>3, <2>1, <2>2, HookNames DEF AnswerLost
  <1>4. CASE RequestUpgrade
    <2>1. /\ addon.exists /\ addon.hook # Before /\ K8s(c) # cp /\ initialized
          /\ UNCHANGED <<cluster, cp, live, pass, initialized, due>> /\ record' = record \cup {c}
      BY <1>4, HookNames DEF RequestUpgrade, UpgradeWanted, NotRequested
    <2>2. RequestStored(Before)
      BY <1>4, HookNames DEF RequestUpgrade, PatchedByHook, Undisturbed
    <2>3. addon' = WithRequest(Before) /\ addon.applied # "False"
      BY <2>2 DEF RequestStored, Undisturbed
    <2>4. addon.clusterStack # None /\ cp \notin {0, K8s(c)}
      BY <1>0, <2>1 DEF Progress
    <2>5. Progress(c, cp, record', initialized', addon.clusterStack)
      BY <1>0, <2>1 DEF Progress
    <2> QED
      BY <2>1, <2>3, <2>4, <2>5, HookNames, RequestSound
  <1>5. CASE LetUpgradeProceed
    <2>1. /\ UNCHANGED <<cluster, addon, live, pass, record, initialized, due>> /\ cp' = K8s(c)
          /\ K8s(c) # cp /\ addon.applied = "True" /\ initialized
          /\ addon.hook = Before \/ c \in record
      BY <1>5, HookNames DEF LetUpgradeProceed, UpgradeWanted, NotRequested, hookVars
    <2>2. addon.clusterStack = c
      BY <1>0, <2>1 DEF Gate
    <2>3. Progress(c, cp', record, initialized, addon.clusterStack)
      <3>1. K8s(c) \in Nat /\ cp \in Nat /\ \A q \in record : K8s(q) \in Nat
        BY <1>0, AddonAssumption DEF IInv, TInv, TypeOK
      <3> QED
        BY <1>0, <2>1, <2>2, <3>1 DEF Progress
    <2>4. Gate(addon, c, cp', due, record, live)
      BY <2>1 DEF Gate
    <2>5. Sound(addon, c, cp', due, live)
      BY <1>0, <2>1, <2>2 DEF StoreSound, Sound, Fits, Due
    <2>6. StoreSound'
      BY <1>0, <2>1, <2>3, <2>4, <2>5 DEF StoreSound
    <2>7. ASSUME pc # "idle"
          PROVE  PassFits(base, mem, c, cp', due, live) /\ Sound(mem, c, cp', due, live)
      <3>1. /\ PassFits(base, mem, c, cp, due, live) /\ Sound(mem, c, cp, due, live)
            /\ base.clusterStack = c
        BY <1>0, <2>2, <2>7 DEF PassSound, ReadBefore
      <3> QED
        BY <1>0, <2>1, <3>1 DEF PassFits, Sound, Fits, Due
    <2>8. PassSound'
      BY <1>0, <2>1, <2>7 DEF PassSound, pass
    <2>9. PassKnows'
      BY <1>0, <2>1 DEF PassKnows, pass
    <2> QED
      BY <2>6, <2>8, <2>9
  <1> QED
    BY <1>2, <1>3, <1>4, <1>5 DEF HookServer

\* No addons were installed before the control plane was initialized for another class.
LEMMA InitializedSound ==
    ASSUME IInv, Undisturbed, ControlPlaneInitialized
    PROVE  (StoreSound /\ PassSound /\ PassKnows)'
  <1> DEFINE c == cluster.class
  <1>0. /\ StoreSound /\ PassSound /\ PassKnows /\ c \in Releases /\ record \subseteq Releases
        /\ Progress(c, cp, record, initialized, addon.clusterStack)
    BY DEF IInv, StoreSound, TInv, TypeOK
  <1>1. /\ UNCHANGED <<cluster, addon, live, pass, record, initialized, due>> /\ cp' = K8s(c)
        /\ cp = 0
    BY DEF ControlPlaneInitialized, hookVars
  <1>2. addon.clusterStack \in {None, c} /\ ~initialized
    BY <1>0, <1>1 DEF Progress
  <1>3. Progress(c, cp', record, initialized, addon.clusterStack)
    <2>1. K8s(c) \in Nat /\ \A q \in record : K8s(q) \in Nat
      BY <1>0, AddonAssumption
    <2> QED
      BY <1>0, <1>1, <1>2, <2>1 DEF Progress
  <1>4. Gate(addon, c, cp', due, record, live) /\ Sound(addon, c, cp', due, live)
    BY <1>0, <1>1, <1>2 DEF StoreSound, Gate, Sound, Fits, Due
  <1>5. StoreSound'
    BY <1>0, <1>1, <1>3, <1>4 DEF StoreSound
  <1>6. ASSUME pc # "idle"
        PROVE  PassFits(base, mem, c, cp', due, live) /\ Sound(mem, c, cp', due, live)
    <2>1. /\ PassFits(base, mem, c, cp, due, live) /\ Sound(mem, c, cp, due, live)
          /\ base.clusterStack \in {None, c}
      BY <1>0, <1>2, <1>6 DEF PassSound, ReadBefore
    <2> QED
      BY <1>0, <1>1, <2>1 DEF PassFits, Sound, Fits, Due
  <1>7. PassSound' /\ PassKnows'
    BY <1>0, <1>1, <1>6 DEF PassSound, PassKnows, pass
  <1> QED
    BY <1>5, <1>7

\* The addons of a release are those of another with the same version.
LEMMA InstalledSame ==
    ASSUME SameAddons, NEW r \in Releases, NEW s \in Releases, NEW w,
           NEW h \in Hooks, AddonVersion(r) = AddonVersion(s), Installed(r, h, w)
    PROVE  Installed(s, h, w)
  <1>1. /\ Staged(r) = Staged(s) /\ Charts(r) = Charts(s) /\ WholeChart(r) = WholeChart(s)
        /\ AddonStages(r, h) = AddonStages(s, h)
        /\ \A name : Chart(r, name) = Chart(s, name)
    BY DEF SameAddons, Charts, WholeChart, Chart
  <1>2. Installs(r, h) = Installs(s, h)
    BY <1>1 DEF Installs
  <1> QED
    BY <1>1, <1>2 DEF Installed, AllThere

\* A Cluster that moves when everything is settled, before, during or after a pass.
LEMMA MoveSound ==
    ASSUME SameAddons, IInv, Undisturbed, Undisturbed', NEW r \in Releases, MoveCluster(r)
    PROVE  (StoreSound /\ PassSound /\ PassKnows)'
  <1> DEFINE c == cluster.class
  <1>0. /\ StoreSound /\ PassSound /\ PassKnows
        /\ c \in Releases /\ c # None /\ cp \in Nat /\ record \subseteq Releases
        /\ cluster \in [exists : BOOLEAN, class : Releases] /\ due \in Hooks
        /\ Progress(c, cp, record, initialized, addon.clusterStack)
        /\ Fits(addon, c, cp) /\ SingleSound(addon, c, live) /\ StagesSound(addon, c, due, live)
    BY AddonAssumption DEF IInv, StoreSound, Sound, TInv, TypeOK
  <1>1. /\ Settled /\ ~MovesForward(c, r) /\ r # c /\ K8s(r) - K8s(c) \in {0, 1}
        /\ UNCHANGED <<cp, addon, live, pass, record, initialized>>
        /\ cluster' = [cluster EXCEPT !.class = r] /\ due' = DueAfter(r)
    BY DEF MoveCluster, Undisturbed, AdmitsClass
  <1>2. /\ addon.ready /\ addon.hook = None /\ addon.clusterStack = c /\ cp = K8s(c)
        /\ addon.applied # "False" /\ initialized
    BY <1>1 DEF Settled
  <1>3. cluster'.class = r
    BY <1>0, <1>1
  <1>4. addon.version = AddonVersion(c)
    BY <1>0, <1>2 DEF Fits, VersionOf
  <1>5. Staged(c) => Installed(c, due, live) /\ addon.resources = NoResources
    BY <1>0, <1>2, <1>4 DEF StagesSound, Quiet
  <1>6. K8s(r) \in Nat /\ K8s(c) \in Nat /\ \A q \in record : K8s(q) \in Nat
    BY <1>0, AddonAssumption
  <1>7. K8s(r) >= cp /\ (r \in record => K8s(r) = cp)
    BY <1>0, <1>1, <1>2, <1>6 DEF Progress
  <1>8. Progress(r, cp, record, initialized, addon.clusterStack)
    BY <1>0, <1>2, <1>6, <1>7 DEF Progress
  <1>9. Gate(addon, r, cp, due', record, live)
    BY <1>2, <1>7, HookNames DEF Gate
  <1>10. Fits(addon, r, cp)
    BY <1>0, <1>1, <1>2, <1>4, HookNames DEF Fits, VersionOf
  <1>11. Due(addon, r, cp, due')
    BY <1>0, <1>1, <1>2, <1>4, HookNames DEF Due, DueAfter
  <1>12. StagesSound(addon, r, due', live)
    <2>1. ASSUME Staged(r), addon.version = AddonVersion(r), K8s(c) = K8s(r)
          PROVE  Installed(r, due', live) /\ addon.resources = NoResources
      <3>1. AddonVersion(c) = AddonVersion(r) /\ Staged(c)
        BY <1>0, <1>4, <2>1 DEF SameAddons
      <3>2. due' = due
        BY <1>1, <2>1, <3>1 DEF DueAfter
      <3> QED
        BY <1>0, <1>5, <3>1, <3>2, InstalledSame
    <2> QED
      BY <1>2, <2>1 DEF StagesSound, Quiet
  <1>13. SingleSound(addon, r, live)
    <2> SUFFICES ASSUME ~Staged(r) PROVE SingleSound(addon, r, live)
      BY DEF SingleSound
    <2>1. ASSUME NEW o \in WholeChart(r), addon.resources[o] = "synced" PROVE live[o] # 0
      <3>1. o \in Objects
        BY AddonAssumption
      <3>2. ~Staged(c)
        BY <1>5, <2>1, <3>1 DEF NoResources
      <3> QED
        BY <1>0, <1>2, <1>4, <2>1, <3>1, <3>2 DEF SingleSound
    <2>2. ASSUME addon.version = AddonVersion(r)
          PROVE  /\ \A o \in Objects : addon.resources[o] = "synced" => o \in WholeChart(r)
                 /\ AllThere(r, live)
      <3>1. AddonVersion(c) = AddonVersion(r) /\ ~Staged(c) /\ WholeChart(c) = WholeChart(r)
        BY <1>0, <1>4, <2>2 DEF SameAddons, WholeChart
      <3> QED
        BY <1>0, <1>2, <1>4, <3>1 DEF SingleSound, AllThere
    <2> QED
      BY <2>1, <2>2 DEF SingleSound
  <1>14. Sound(addon, r, cp, due', live)
    BY <1>10, <1>11, <1>12, <1>13 DEF Sound
  <1>15. StoreSound'
    BY <1>0, <1>1, <1>3, <1>8, <1>9, <1>14 DEF StoreSound
  \* A pass that is under way has found nothing to do.
  <1>16. ASSUME pc # "idle"
         PROVE  /\ Done(base, c) /\ SameCopy(base, mem) /\ addon.exists
                /\ ReadBefore(base, addon, c) /\ base.hook = None
    <2>1. addon.exists /\ ReadBefore(base, addon, c)
      BY <1>0, <1>16 DEF PassSound
    <2>2. Done(base, c) /\ base.hook = None
      BY <1>2, <1>4, <2>1, HookNames DEF ReadBefore, Done
    <2> QED
      BY <1>0, <1>16, <2>1, <2>2 DEF PassKnows
  <1>17. PassSound'
    <2> SUFFICES ASSUME pc # "idle"
                 PROVE  /\ addon.exists /\ ReadBefore(base, addon, r)
                        /\ PassFits(base, mem, r, cp, due', live)
                        /\ Sound(mem, r, cp, due', live)
      BY <1>1, <1>3 DEF PassSound, pass
    <2>1. addon.exists /\ ReadBefore(base, addon, r)
      BY <1>16 DEF ReadBefore
    <2>2. PassFits(base, mem, r, cp, due', live)
      BY <1>16 DEF PassFits, SameCopy, SameRecord
    <2>3. SameRecord(addon, mem) /\ addon.applied # "False" /\ mem.applied # "False"
      BY <1>2, <1>16 DEF SameCopy, SameRecord, ReadBefore, Done
    <2>4. Sound(mem, r, cp, due', live)
      BY <1>14, <2>3, SoundCopy
    <2> QED
      BY <2>1, <2>2, <2>4
  <1>18. PassKnows'
    <2>1. pc # "stages"
      <3> SUFFICES ASSUME pc = "stages" PROVE FALSE
        OBVIOUS
      <3>1. ~Done(base, c)
        BY <1>0 DEF PassKnows
      <3> QED
        BY <1>16, <3>1
    <2>2. pc \in {"single", "old"} => Done(base, cls)
      BY <1>0, <1>16 DEF PassKnows
    <2> QED
      BY <1>0, <1>1, <1>16, <2>1, <2>2 DEF PassKnows, pass
  <1> QED
    BY <1>15, <1>17, <1>18

\* A ClusterAddon that is new.
LEMMA NewSound ==
    ASSUME NEW x, NEW c, NEW k, NEW d, NEW w, NEW rec,
           x = [Absent EXCEPT !.exists = TRUE] \/ x = Absent,
           c \in Releases, d = After, k \in {0, K8s(c)}
    PROVE  Sound(x, c, k, d, w) /\ Gate(x, c, k, d, rec, w) /\ ~x.deleting /\ x.clusterStack = None
  <1>1. /\ x.clusterStack = None /\ x.version = 0 /\ x.hook = None /\ ~x.ready
        /\ x.stages = NoStages /\ x.resources = NoResources /\ x.applied = "none" /\ ~x.deleting
    BY DEF Absent
  <1>2. Fits(x, c, k) /\ Due(x, c, k, d)
    BY <1>1, HookNames DEF Fits, VersionOf, Due
  <1>3. StagesSound(x, c, d, w)
    BY <1>1 DEF StagesSound, Quiet
  <1>4. SingleSound(x, c, w)
    <2>1. \A o \in WholeChart(c) : NoResources[o] # "synced"
      BY AddonAssumption DEF NoResources
    <2> QED
      BY <1>1, <2>1 DEF SingleSound
  <1> QED
    BY <1>1, <1>2, <1>3, <1>4 DEF Sound, Gate

-----------------------------------------------------------------------------
(* The invariant.                                                          *)

\* The first steps of a pass, and those that fail before the stages begin.
LEMMA FirstStepsSound ==
    ASSUME IInv, Undisturbed, UNCHANGED <<record, initialized, due>>,
           \/ StartReconcile \/ ClusterNotReady \/ AssetsMissing \/ AssetsFound
           \/ StagesInputFails \/ NoAssetsClient \/ OldReleaseDamaged \/ DownloadOldRelease
           \/ DownloadOldFails \/ WaitForMutex
    PROVE  (StoreSound /\ PassSound /\ PassKnows)'
  <1>0. /\ StoreSound /\ PassSound /\ PassKnows /\ addon \in Object /\ mem \in Object
        /\ cluster.class \in Releases
    BY DEF IInv, TInv, TypeOK
  <1>1. CASE StartReconcile
    <2>1. /\ UNCHANGED <<cluster, cp, addon, live>> /\ pc' = "cluster" /\ addon.exists
          /\ base' = addon /\ SameCopy(addon, mem')
      BY <1>0, <1>1 DEF StartReconcile, SameCopy, SameRecord, Object
    <2>2. Sound(mem', cluster.class, cp, due, live)
      BY <1>0, <2>1, SoundCopy DEF StoreSound, SameCopy
    <2>3. /\ ReadBefore(base', addon, cluster.class)
          /\ PassFits(base', mem', cluster.class, cp, due, live)
      BY <2>1 DEF ReadBefore, PassFits, SameCopy, SameRecord
    <2> QED
      BY <1>0, <2>1, <2>2, <2>3 DEF StoreSound, PassSound, PassKnows
  <1>2. CASE AssetsFound
    <2>1. Staged(cluster.class) \in BOOLEAN
      BY <1>0, AddonAssumption
    <2> QED
      BY <1>0, <1>2, <2>1 DEF AssetsFound, StoreSound, PassSound, PassKnows
  <1>3. CASE ClusterNotReady \/ AssetsMissing \/ StagesInputFails \/ WaitForMutex
    BY <1>0, <1>3, IdlePassStep
    DEF ClusterNotReady, AssetsMissing, StagesInputFails, WaitForMutex, OldReleaseMissing,
        SameCopy, SameRecord
  <1>4. CASE NoAssetsClient \/ OldReleaseDamaged \/ DownloadOldRelease \/ DownloadOldFails
    <2>1. /\ UNCHANGED <<cluster, cp, addon, live, base>>
          /\ pc = "old" /\ pc' \in {"patch", "panic"}
      BY <1>4 DEF NoAssetsClient, OldReleaseDamaged, DownloadOldRelease, DownloadOldFails,
                  OldReleaseMissing
    <2>2. SameCopy(mem, mem') /\ SameCopy(base, mem)
      <3>1. \E b : mem' = [mem EXCEPT !.clientFailed = b]
        BY <1>4 DEF NoAssetsClient, OldReleaseDamaged, DownloadOldRelease, DownloadOldFails
      <3> QED
        BY <1>0, <2>1, <3>1 DEF SameCopy, SameRecord, Object, PassKnows
    <2> QED
      BY <1>0, <2>1, <2>2, IdlePassStep
  <1> QED
    BY <1>1, <1>2, <1>3, <1>4

\* A step of the controller.
LEMMA ControllerSound ==
    ASSUME Regular, IInv, Undisturbed, Undisturbed', Controller
    PROVE  (StoreSound /\ PassSound /\ PassKnows)'
  <1>0. StoreSound /\ PassSound /\ PassKnows
    BY DEF IInv
  <1>1. Reconcile /\ ~FailureLost /\ ~PatchTorn /\ UNCHANGED <<record, initialized, due>>
    BY DEF Controller, Undisturbed
  <1>2. ~ClusterNotFound
    BY DEF ClusterNotFound, Undisturbed
  <1>3. CASE PatchAddon
    BY <1>1, <1>3, PatchSound DEF PatchAddon, EndPass
  <1>4. CASE PatchInPart
    <2>1. pc = "patch" /\ pc' = "idle" /\ UNCHANGED <<cluster, cp, live>>
      BY <1>4 DEF PatchInPart, EndPass
    <2>2. addon' = addon \/ addon' = PatchedAddon({})
      BY <1>1, <2>1 DEF PatchTorn
    <2>3. CASE addon' = addon
      BY <1>0, <1>1, <2>1, <2>3, PassForgotten
    <2>4. CASE addon' = PatchedAddon({})
      BY <1>1, <2>1, <2>4, PatchSound
    <2> QED
      BY <2>2, <2>3, <2>4
  <1>5. CASE Single
    BY <1>1, <1>5, SingleSoundStep, SingleStale DEF Regular
  <1>6. CASE ExecuteStage
    BY <1>1, <1>6, StageSoundStep DEF Regular
  <1>7. CASE PlanStages
    BY <1>1, <1>7, PlanSoundStep, PlanStale
  <1> QED
    BY <1>1, <1>2, <1>3, <1>4, <1>5, <1>6, <1>7, FirstStepsSound, FinishSoundStep
    DEF Reconcile, Stages

\* Every step keeps the invariant; one case for each group of actions.
LEMMA SoundStep ==
    ASSUME Regular, IInv, [Next]_vars
    PROVE  IInv'
  <1>1. TInv'
    BY TypeStep DEF IInv
  <1> SUFFICES ASSUME Undisturbed' PROVE (StoreSound /\ PassSound /\ PassKnows)'
    BY <1>1 DEF IInv
  <1>2. Undisturbed
    <2>1. disturbed => disturbed'
      BY DEF Next, vars, hookVars, Controller, Creator, Panic, HookServer,
             DoAfterControlPlaneInitialized, AnswerLost, RequestUpgrade, PatchedByHook,
             RequestStored, LetUpgradeProceed, ControlPlaneInitialized, ReleaseDownloaded,
             MoveCluster, DeleteCluster, CollectAddon, Restart, StartAnew
    <2>2. cluster'.exists => cluster.exists
      <3>1. UNCHANGED cluster \/ DeleteCluster \/ \E r \in Releases : MoveCluster(r)
        BY DEF Next, vars, addonVars, Controller, Creator, CreateClusterAddon, Panic, HookServer,
               DoAfterControlPlaneInitialized, AnswerLost, RequestUpgrade,
               LetUpgradeProceed, ControlPlaneInitialized, ReleaseDownloaded,
               CollectAddon, Restart, StartAnew, Reconcile, StartReconcile, ClusterNotFound,
               ClusterNotReady, AssetsMissing, AssetsFound, Single, SingleUpToDate, SingleApply,
               SingleApplyInPart, SingleApplyFails, Stages, StagesInputFails, NoAssetsClient,
               OldReleaseDamaged, DownloadOldRelease, DownloadOldFails, WaitForMutex, PlanStages,
               ExecuteStage, StageSkipped,
               PreConditionNotMet, StageInPart, PostConditionNotMet, StageDone,
               StageNotRendered, FinishInstallation, FinishUpgrade, CleanUpFails, CleanUpPanics,
               PatchAddon, PatchInPart
      <3> QED
        BY <3>1 DEF DeleteCluster, MoveCluster
    <2> QED
      BY <2>1, <2>2 DEF Undisturbed
  <1>3. /\ StoreSound /\ PassSound /\ PassKnows /\ cluster.class \in Releases
        /\ record \subseteq Releases /\ addon \in Object
    BY <1>2 DEF IInv, TInv, TypeOK
  <1>4. CASE Controller
    BY <1>2, <1>4, ControllerSound
  <1>5. CASE Creator
    <2>1. UNCHANGED <<cluster, cp, live, pass, record, initialized, due>>
      BY <1>5 DEF Creator, CreateClusterAddon, hookVars
    <2>2. CASE addon.exists
      BY <1>2, <1>3, <1>5, <2>1, <2>2
      DEF Creator, CreateClusterAddon, StoreSound, PassSound, PassKnows, pass
    <2>3. CASE ~addon.exists
      <3>1. /\ addon' = [Absent EXCEPT !.exists = TRUE] /\ addon.clusterStack = None
            /\ pc = "idle"
        BY <1>2, <1>3, <1>5, <2>3
        DEF Creator, CreateClusterAddon, Undisturbed, StoreSound, PassSound, Absent
      <3>2. /\ Sound(addon', cluster.class, cp, due, live) /\ ~addon'.deleting
            /\ Gate(addon', cluster.class, cp, due, record, live) /\ addon'.clusterStack = None
        <4>1. due = After /\ cp \in {0, K8s(cluster.class)}
          BY <1>3, <3>1 DEF StoreSound, Sound, Due
        <4> QED
          BY <1>3, <3>1, <4>1, NewSound
      <3>3. addon'.exists
        BY <3>1 DEF Absent
      <3> QED
        BY <1>3, <2>1, <3>1, <3>2, <3>3 DEF StoreSound, PassSound, PassKnows, pass
    <2> QED
      BY <2>2, <2>3
  <1>6. CASE Panic
    BY <1>2, <1>6, PatchSound DEF Panic, StartAnew, EndPass, FailureLost
  <1>7. CASE Restart
    BY <1>3, <1>7, PassForgotten DEF Restart, StartAnew, EndPass
  <1>8. CASE HookServer
    BY <1>2, <1>8, HookServerSound
  <1>9. CASE ControlPlaneInitialized
    BY <1>2, <1>9, InitializedSound
  <1>10. CASE ReleaseDownloaded \/ UNCHANGED vars
    BY <1>3, <1>10
    DEF ReleaseDownloaded, vars, addonVars, hookVars, pass, StoreSound, PassSound, PassKnows
  <1>11. ASSUME NEW r \in Releases, MoveCluster(r)
         PROVE  (StoreSound /\ PassSound /\ PassKnows)'
    BY <1>2, <1>11, MoveSound DEF Regular
  <1>12. ~DeleteCluster /\ ~CollectAddon
    <2>1. ~DeleteCluster
      BY DEF DeleteCluster, Undisturbed, IInv, TInv, TypeOK
    <2> QED
      BY <1>2, <2>1 DEF CollectAddon, Undisturbed
  <1> QED
    BY <1>4, <1>5, <1>6, <1>7, <1>8, <1>9, <1>10, <1>11, <1>12 DEF Next

\* The invariant holds in the beginning.
LEMMA SoundInit == Init => IInv
  <1> SUFFICES ASSUME Init PROVE IInv
    OBVIOUS
  <1>1. /\ addon = Absent /\ cluster.class \in Releases /\ cp = 0 /\ pc = "idle" /\ record = {}
        /\ initialized = FALSE /\ due = After
    BY HookNames DEF Init, AddonInit
  <1>2. /\ Sound(addon, cluster.class, cp, due, live)
        /\ Gate(addon, cluster.class, cp, due, record, live)
        /\ ~addon.deleting /\ addon.clusterStack = None
    BY <1>1, NewSound
  <1>3. Progress(cluster.class, cp, record, initialized, None)
    BY <1>1, AddonAssumption DEF Progress
  <1> QED
    BY <1>1, <1>2, <1>3, TypeInit DEF IInv, StoreSound, PassSound, PassKnows

\* The invariant of the ClusterAddon: unless something happened that the code has no answer
\* to (disturbed), what it and a pass of the controller record of the releases, of the
\* stages and of the single chart is true.
THEOREM AddonSound == Regular => (Spec => []IInv)
  <1> SUFFICES ASSUME Regular PROVE Spec => []IInv
    OBVIOUS
  <1>1. IInv /\ [Next]_vars => IInv'
    BY SoundStep
  <1> QED
    BY <1>1, SoundInit, PTL DEF Spec

\* A ClusterAddon that says it is ready for the class of its Cluster, with no hook and no
\* failed apply to deal with, tells the truth, for any regular releases, stages, moves, faults
\* and lost writes: unless something happened that the code has no answer to (disturbed), the
\* addons of the hook that is due, of the installation or of an upgrade, are there.
THEOREM ReadyIsInstalled == Regular => (Spec => []ReadyMeansInstalled)
  <1> SUFFICES ASSUME Regular PROVE Spec => []ReadyMeansInstalled
    OBVIOUS
  <1>1. IInv => ReadyMeansInstalled
    <2> SUFFICES ASSUME IInv, Undisturbed, addon.clusterStack = cluster.class, addon.ready,
                        addon.hook = None, addon.applied # "False"
                 PROVE  Installed(cluster.class, due, live)
      BY UpToDateIs DEF ReadyMeansInstalled, Undisturbed
    <2>1. /\ Fits(addon, cluster.class, cp) /\ SingleSound(addon, cluster.class, live)
          /\ StagesSound(addon, cluster.class, due, live)
          /\ cluster.class # None
      BY AddonAssumption DEF IInv, StoreSound, Sound, TInv, TypeOK
    <2>2. addon.version = AddonVersion(cluster.class)
      BY <2>1 DEF Fits, VersionOf
    <2> QED
      BY <2>1, <2>2 DEF SingleSound, StagesSound, Quiet, Installed
  <1> QED
    BY <1>1, AddonSound, PTL

\* The hook server lets Cluster API upgrade the Kubernetes version of a control plane only
\* when the addons that BeforeClusterUpgrade brings with the new class are in the workload
\* cluster, for any regular releases, unless something happened that the code has no
\* answer to (disturbed).
THEOREM UpgradeIsGated == Regular => (Spec => UpgradeGate)
  <1> SUFFICES ASSUME Regular PROVE Spec => UpgradeGate
    OBVIOUS
  <1> DEFINE Gated == ~disturbed /\ cp # 0 /\ cp' # cp
                        => UpToDate(cluster.class, BeforeClusterUpgrade)
  <1>1. IInv /\ [Next]_vars => [Gated]_vars
    <2> SUFFICES ASSUME IInv, [Next]_vars, ~disturbed, cp # 0, cp' # cp
                 PROVE  UpToDate(cluster.class, BeforeClusterUpgrade)
      OBVIOUS
    <2>1. LetUpgradeProceed
      BY DEF Next, vars, addonVars, Controller, Creator, CreateClusterAddon, Panic, HookServer,
             DoAfterControlPlaneInitialized, AnswerLost, RequestUpgrade,
             ControlPlaneInitialized, ReleaseDownloaded, MoveCluster, DeleteCluster,
             CollectAddon, Restart, StartAnew, Reconcile, StartReconcile, ClusterNotFound,
             ClusterNotReady, AssetsMissing, AssetsFound, Single, SingleUpToDate, SingleApply,
             SingleApplyInPart, SingleApplyFails, Stages, StagesInputFails, NoAssetsClient,
             OldReleaseDamaged, DownloadOldRelease, DownloadOldFails, WaitForMutex, PlanStages,
             ExecuteStage, StageSkipped,
             PreConditionNotMet, StageInPart, PostConditionNotMet, StageDone,
             StageNotRendered, FinishInstallation, FinishUpgrade, CleanUpFails, CleanUpPanics,
             PatchAddon, PatchInPart
    <2>2. /\ cluster.exists /\ K8s(cluster.class) # cp /\ addon.applied = "True"
          /\ addon.hook = Before \/ cluster.class \in record
      BY <2>1, HookNames DEF LetUpgradeProceed, UpgradeWanted, NotRequested
    <2>3. /\ Gate(addon, cluster.class, cp, due, record, live) /\ Due(addon, cluster.class, cp, due)
          /\ due \in {After, Before}
      BY <2>2, HookNames DEF IInv, Undisturbed, StoreSound, Sound, TInv, TypeOK
    <2>4. due = Before
      BY <2>2, <2>3 DEF Due
    <2>5. Installed(cluster.class, Before, live)
      BY <2>2, <2>3, <2>4 DEF Gate
    <2> QED
      BY <2>5, UpToDateIs, HookNames
  <1> QED
    BY <1>1, AddonSound, PTL DEF UpgradeGate, Spec
=============================================================================
