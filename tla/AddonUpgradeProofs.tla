------------------------- MODULE AddonUpgradeProofs -------------------------
(***************************************************************************)
(* Theorems about AddonUpgrade, for any releases, charts, stages, moves    *)
(* and faults.                                                             *)
(***************************************************************************)
EXTENDS AddonUpgrade, TLAPS

\* Once it has read the Cluster a pass works for a class, and in the stages there is
\* a hook to execute.
PassHasClass ==
    /\ pc \in {"single", "old", "stages"} => cls \in Releases
    /\ pc = "stages" => mem.hook \in Hooks

TInv == TypeOK /\ PassHasClass

\* A step of the controller leaves the hook server alone.
HooksQuiet ==
    disturbed' \in BOOLEAN /\ locked' \in BOOLEAN /\ UNCHANGED <<record, initialized, due, moves>>

-----------------------------------------------------------------------------
(* Type correctness.                                                       *)

\* The version of the addons of a release is one that objects may have.
LEMMA VersionType == \A r \in Releases : AddonVersion(r) \in Contents
  BY DEF Contents, Versions

\* No ClusterAddon is one of the model.
LEMMA AbsentType == Absent \in Object
  BY DEF Absent, Object, Contents, NoStages, Phases, Resources, NoResources, ResourceStatus

\* Calls of a pass leave contents that objects may have.
LEMMA LiveType ==
    ASSUME live \in [Objects -> Contents], cls \in Releases, NEW applied, NEW deleted
    PROVE  Live(applied, deleted) \in [Objects -> Contents]
  BY VersionType DEF Live, Contents

\* kube.Apply returns a list of resources, whatever fails.
LEMMA AppliedResourcesType ==
    ASSUME NEW template, NEW res, NEW noMapping, NEW refused, NEW undeleted
    PROVE  AppliedResources(template, res, noMapping, refused, undeleted) \in Resources
  BY DEF AppliedResources, Resources, ResourceStatus

\* Recording the phase of a stage keeps the rest of the ClusterAddon.
LEMMA WithPhaseType ==
    ASSUME NEW m \in Object, NEW phase \in Phases
    PROVE  WithPhase(m, phase) \in Object /\ WithPhase(m, phase).hook = m.hook
  BY DEF WithPhase, Object

\* What a pass for a single chart records when it ends well.
LEMMA SingleFinishedType ==
    ASSUME NEW m \in Object, mem \in Object, cls \in Releases
    PROVE  SingleFinished(m) \in Object
  <1>1. Annotation("created") \in {None, "created", "upgraded"}
    BY DEF Annotation, Object
  <1> HIDE DEF Annotation
  <1> QED
    BY <1>1 DEF SingleFinished, Object

\* What a pass records when its stages are through.
LEMMA FinishedType ==
    ASSUME mem \in Object, cls \in Releases, NEW a \in {"created", "upgraded"}
    PROVE  Finished(a) \in Object
  <1>1. Annotation(a) \in {None, "created", "upgraded"}
    BY DEF Annotation, Object
  <1>2. NoStages \in [Stage -> Phases] /\ NoResources \in Resources
    BY DEF NoStages, Phases, NoResources, Resources, ResourceStatus
  <1> HIDE DEF Annotation, NoStages, NoResources
  <1> QED
    BY <1>1, <1>2 DEF Finished, Object

\* The phases of a new plan.
LEMMA FreshType ==
    ASSUME NEW m \in Object, NEW h
    PROVE  Fresh(m, h) \in [Stage -> Phases]
  BY DEF Fresh, Pending, Phases, Object

\* What a pass plans to do.
LEMMA PlannedType ==
    ASSUME mem \in Object, cls \in Releases
    PROVE  Planned \in Object
  <1>1. WithHook(mem) \in Object
    BY FreshType DEF WithHook, Object
  <1>2. ASSUME NEW m \in Object PROVE WithNewClass(m) \in Object
    <2>1. Fresh(m, BeforeClusterUpgrade) \in [Stage -> Phases]
      BY FreshType
    <2>2. [m EXCEPT !.stages = Fresh(m, BeforeClusterUpgrade), !.ready = FALSE,
                    !.applied = "none"] \in Object
      BY <2>1 DEF Object
    <2>3. [m EXCEPT !.clusterStack = cls, !.ready = TRUE] \in Object
      BY DEF Object
    <2> QED
      BY <2>2, <2>3 DEF WithNewClass
  <1>3. WithNewClass(WithHook(mem)) \in Object /\ AddonVersion(cls) \in Contents
    BY <1>1, <1>2, VersionType
  <1>4. (mem.clientFailed /\ mem.clusterStack = None) \in BOOLEAN
    OBVIOUS
  <1> QED
    BY <1>3, <1>4 DEF Planned, Object

\* The deferred patch stores a ClusterAddon.
LEMMA PatchedType ==
    ASSUME addon \in Object, base \in Object, mem \in Object, NEW parts
    PROVE  Patched(parts) \in Object
  <1> DEFINE field(part, before, after, stored) ==
               IF part \in parts THEN Changed(before, after, stored) ELSE stored
  <1>1. \A part, before, after, stored : field(part, before, after, stored) \in {after, stored}
    BY DEF Changed
  <1> HIDE DEF field
  <1>2. /\ field("object", base.finalizer, mem.finalizer, addon.finalizer) \in BOOLEAN
        /\ field("object", base.clusterStack, mem.clusterStack, addon.clusterStack)
             \in Releases \cup {None}
        /\ field("object", base.version, mem.version, addon.version) \in Contents
        /\ field("object", base.hook, mem.hook, addon.hook) \in Hooks \cup {None}
        /\ field("object", base.annotation, mem.annotation, addon.annotation)
             \in {None, "created", "upgraded"}
    BY <1>1 DEF Object
  <1>3. /\ field("status", base.ready, mem.ready, addon.ready) \in BOOLEAN
        /\ field("status", base.stages, mem.stages, addon.stages) \in [Stage -> Phases]
        /\ field("status", base.resources, mem.resources, addon.resources) \in Resources
        /\ field("conditions", base.applied, mem.applied, addon.applied)
             \in {"none", "True", "False"}
        /\ field("conditions", base.clientFailed, mem.clientFailed, addon.clientFailed) \in BOOLEAN
    BY <1>1 DEF Object
  <1> QED
    BY <1>2, <1>3, AbsentType DEF Patched, field, Object

\* So does a patch of which parts are lost.
LEMMA PatchedAddonType ==
    ASSUME TypeOK, NEW lost
    PROVE  PatchedAddon(lost) \in Object
  BY PatchedType DEF PatchedAddon, TypeOK

\* A step of the controller that is over, or that leaves the copy of the pass alone.
LEMMA QuietStep ==
    ASSUME TInv, UNCHANGED <<cluster, cp, addon, create, live, cls, base>>, HooksQuiet,
           disk' \subseteq Releases, idx' \in Nat, faults' \in 0..MaxFaults, mem' \in Object,
           pc' \in {"cluster", "patch", "panic", "blocked"}
    PROVE  TInv'
  BY DEF TInv, TypeOK, PassHasClass, HooksQuiet

\* A step that works on the workload cluster and ends the pass.
LEMMA LastStep ==
    ASSUME TInv, UNCHANGED <<cluster, cp, addon, create, disk, cls, base>>, HooksQuiet,
           live' \in [Objects -> Contents], idx' = idx, faults' \in 0..MaxFaults,
           mem' \in Object, pc' = "patch"
    PROVE  TInv'
  BY DEF TInv, TypeOK, PassHasClass, HooksQuiet

\* A step from one stage to the next.
LEMMA StageStep ==
    ASSUME TInv, pc = "stages", UNCHANGED <<cluster, cp, addon, create, disk, pc, cls, base>>,
           HooksQuiet, live' \in [Objects -> Contents], idx' = idx + 1, faults' \in 0..MaxFaults,
           mem' \in Object, mem'.hook = mem.hook
    PROVE  TInv'
  BY DEF TInv, TypeOK, PassHasClass, HooksQuiet

\* The steps of a pass up to the release assets keep the types.
LEMMA FirstStepsType ==
    ASSUME TInv, HooksQuiet,
           StartReconcile \/ ClusterNotFound \/ ClusterNotReady \/ AssetsMissing \/ AssetsFound
    PROVE  TInv'
  <1> USE AddonAssumption
  <1>1. CASE StartReconcile
    <2>1. mem' \in Object
      BY <1>1 DEF StartReconcile, TInv, TypeOK, Object
    <2> QED
      BY <1>1, <2>1 DEF StartReconcile, TInv, TypeOK, PassHasClass, HooksQuiet
  <1>2. CASE ClusterNotFound
    <2>1. mem' \in Object
      BY <1>2 DEF ClusterNotFound, TInv, TypeOK, Object
    <2> QED
      BY <1>2, <2>1, QuietStep DEF ClusterNotFound, TInv, TypeOK
  <1>3. CASE ClusterNotReady \/ AssetsMissing
    BY <1>3, QuietStep DEF ClusterNotReady, AssetsMissing, Fault, TInv, TypeOK
  <1>4. CASE AssetsFound
    BY <1>4 DEF AssetsFound, TInv, TypeOK, PassHasClass, HooksQuiet
  <1> QED
    BY <1>1, <1>2, <1>3, <1>4

\* The work on a single chart keeps the types.
LEMMA SingleType ==
    ASSUME TInv, HooksQuiet, Single
    PROVE  TInv'
  <1> USE AddonAssumption
  <1>0. pc = "single" /\ cls \in Releases /\ mem \in Object /\ live \in [Objects -> Contents]
    BY DEF TInv, TypeOK, PassHasClass, Single, SingleUpToDate, SingleApply, SingleApplyInPart,
           SingleApplyFails
  <1>1. SingleVersion \in Contents
    BY <1>0, VersionType DEF SingleVersion, Object
  <1>2. CASE SingleUpToDate
    BY <1>0, <1>2, SingleFinishedType, LastStep DEF SingleUpToDate, TInv, TypeOK
  <1>3. CASE SingleApply
    <2> DEFINE m == [mem EXCEPT
               !.resources = AppliedResources(WholeChart(cls), mem.resources, {}, {}, {}),
               !.version = SingleVersion, !.applied = "True"]
    <2>1. m \in Object
      BY <1>0, <1>1, AppliedResourcesType DEF Object
    <2>2. mem' = SingleFinished(m)
      BY <1>3 DEF SingleApply
    <2> HIDE DEF m
    <2>3. mem' \in Object
      BY <1>0, <2>1, <2>2, SingleFinishedType
    <2>4. live' \in [Objects -> Contents]
      BY <1>0, <1>3, LiveType DEF SingleApply
    <2> QED
      BY <1>3, <2>3, <2>4, LastStep DEF SingleApply, TInv, TypeOK
  <1>4. CASE SingleApplyInPart
    <2>1. PICK noMapping, refused, undeleted :
            mem' = [SingleStarted EXCEPT
                      !.resources = AppliedResources(WholeChart(cls), mem.resources, noMapping,
                                                     refused, undeleted),
                      !.version = SingleVersion, !.clusterStack = cls, !.applied = "False"]
      BY <1>4 DEF SingleApplyInPart
    <2>2. SingleStarted \in Object
      BY <1>0 DEF SingleStarted, Object
    <2>3. mem' \in Object
      BY <1>0, <1>1, <2>1, <2>2, AppliedResourcesType DEF Object
    <2>4. live' \in [Objects -> Contents]
      BY <1>0, <1>4, LiveType DEF SingleApplyInPart
    <2>5. /\ UNCHANGED <<cluster, cp, addon, create, disk, cls, idx, base>>
          /\ pc' = "patch" /\ faults' \in 0..MaxFaults
      BY <1>4 DEF SingleApplyInPart, Fault, TInv, TypeOK
    <2> QED
      BY <2>3, <2>4, <2>5, LastStep
  <1>5. CASE SingleApplyFails
    <2>1. mem' \in Object
      BY <1>0, <1>5 DEF SingleApplyFails, SingleStarted, Object
    <2>2. live' \in [Objects -> Contents]
      BY <1>0, <1>5, LiveType DEF SingleApplyFails
    <2> QED
      BY <1>5, <2>1, <2>2, LastStep DEF SingleApplyFails, Fault, TInv, TypeOK
  <1> QED
    BY <1>2, <1>3, <1>4, <1>5 DEF Single

\* The plan for the stages keeps the types.
LEMMA PlanType ==
    ASSUME TInv, HooksQuiet,
           \/ StagesInputFails \/ NoAssetsClient \/ OldReleaseDamaged \/ DownloadOldRelease
           \/ DownloadOldFails \/ WaitForMutex \/ PlanStages
    PROVE  TInv'
  <1> USE AddonAssumption
  <1>0. pc = "old" /\ cls \in Releases /\ mem \in Object
    BY DEF TInv, TypeOK, PassHasClass, StagesInputFails, NoAssetsClient, OldReleaseDamaged,
           DownloadOldRelease, DownloadOldFails, WaitForMutex, OldReleaseMissing, PlanStages
  <1>1. CASE StagesInputFails \/ WaitForMutex
    BY <1>1, QuietStep DEF StagesInputFails, WaitForMutex, Fault, TInv, TypeOK
  <1>2. CASE NoAssetsClient \/ OldReleaseDamaged
    <2>1. \E b \in BOOLEAN : mem' = [mem EXCEPT !.clientFailed = b]
      BY <1>2 DEF NoAssetsClient, OldReleaseDamaged
    <2>2. mem' \in Object
      BY <1>0, <2>1 DEF Object
    <2> QED
      BY <1>2, <2>2, QuietStep DEF NoAssetsClient, OldReleaseDamaged, Fault, TInv, TypeOK
  <1>3. CASE DownloadOldRelease \/ DownloadOldFails
    <2>1. mem' \in Object /\ mem.clusterStack \in Releases \cup {None}
      BY <1>0, <1>3 DEF DownloadOldRelease, DownloadOldFails, Object
    <2> QED
      BY <1>3, <2>1, QuietStep
      DEF DownloadOldRelease, DownloadOldFails, OldReleaseMissing, TInv, TypeOK
  <1>4. CASE PlanStages
    <2>1. PICK hook : /\ hook \in {BeforeClusterUpgrade, Planned.hook}
                      /\ mem' = [Planned EXCEPT !.hook = hook]
                      /\ pc' = IF Planned.ready \/ hook = None THEN "patch" ELSE "stages"
      BY <1>4 DEF PlanStages
    <2>2. Planned \in Object
      BY <1>0, PlannedType
    <2>3. hook \in Hooks \cup {None}
      BY <2>1, <2>2 DEF Object, Hooks
    <2> HIDE DEF Planned
    <2>4. mem' \in Object /\ mem'.hook = hook
      BY <2>1, <2>2, <2>3 DEF Object
    <2>5. pc' \in {"patch", "stages"} /\ (pc' = "stages" => hook \in Hooks)
      BY <2>1, <2>3
    <2> QED
      BY <1>0, <1>4, <2>4, <2>5 DEF PlanStages, TInv, TypeOK, PassHasClass, HooksQuiet
  <1> QED
    BY <1>1, <1>2, <1>3, <1>4

\* What executing a stage leaves in the copy and in the workload cluster.
LEMMA AfterStageType ==
    ASSUME mem \in Object, live \in [Objects -> Contents], cls \in Releases
    PROVE  /\ AfterStage \in Object /\ AfterStage.hook = mem.hook
           /\ LiveAfterStage \in [Objects -> Contents]
  <1>1. NoResources \in Resources
    BY DEF NoResources, Resources, ResourceStatus
  <1>2. LiveAfterStage \in [Objects -> Contents]
    BY LiveType DEF LiveAfterStage
  <1> QED
    BY <1>1, <1>2 DEF AfterStage, Object

\* Executing a stage keeps the types.
LEMMA StageType ==
    ASSUME TInv, HooksQuiet, ExecuteStage \/ StageNotRendered
    PROVE  TInv'
  <1> USE AddonAssumption DEF AtStage
  <1>0. /\ pc = "stages" /\ cls \in Releases /\ mem \in Object /\ idx \in Nat
        /\ live \in [Objects -> Contents] /\ faults \in 0..MaxFaults
    BY DEF TInv, TypeOK, PassHasClass, ExecuteStage, StageSkipped, PreConditionNotMet,
           StageNotRendered, StageInPart, PostConditionNotMet, StageDone
  <1>1. {"waitingForPreCondition", "applyingOrDeleting", "waitingForPostCondition", "done"}
          \subseteq Phases
    BY DEF Phases
  <1>2. CASE StageSkipped
    BY <1>0, <1>2, StageStep DEF StageSkipped, TInv, TypeOK
  <1>3. CASE PreConditionNotMet
    <2>1. mem' \in Object
      <3>1. WithPhase(mem, "waitingForPreCondition") \in Object
        BY <1>0, <1>1, WithPhaseType
      <3> QED
        BY <1>0, <1>3, <3>1 DEF PreConditionNotMet
    <2> QED
      BY <1>0, <1>3, <2>1, LastStep DEF PreConditionNotMet, ConditionNotMet, Fault
  <1>4. CASE StageNotRendered
    <2>1. mem' \in Object /\ mem'.hook = mem.hook
      BY <1>0, <1>1, <1>4, WithPhaseType DEF StageNotRendered
    <2> QED
      BY <1>0, <1>4, <2>1, StageStep DEF StageNotRendered, Fault
  <1>5. CASE StageInPart
    <2> DEFINE m == [mem EXCEPT !.applied = IF Current.action = "apply" THEN "False"
                                            ELSE mem.applied]
    <2>1. m \in Object
      BY <1>0 DEF Object
    <2>2. mem' = WithPhase(m, "applyingOrDeleting")
      BY <1>5 DEF StageInPart
    <2> HIDE DEF m
    <2>3. mem' \in Object
      BY <1>1, <2>1, <2>2, WithPhaseType
    <2>4. live' \in [Objects -> Contents]
      BY <1>0, <1>5, LiveType DEF StageInPart
    <2>5. /\ UNCHANGED <<cluster, cp, addon, create, disk, cls, idx, base>>
          /\ pc' = "patch" /\ faults' \in 0..MaxFaults
      BY <1>0, <1>5 DEF StageInPart, Fault
    <2> QED
      BY <1>5, <2>3, <2>4, <2>5, LastStep
  <1>6. CASE PostConditionNotMet
    <2>1. mem' \in Object /\ live' \in [Objects -> Contents]
      BY <1>0, <1>1, <1>6, WithPhaseType, AfterStageType DEF PostConditionNotMet
    <2> QED
      BY <1>0, <1>6, <2>1, LastStep DEF PostConditionNotMet, ConditionNotMet, Fault
  <1>7. CASE StageDone
    <2>1. mem' \in Object /\ mem'.hook = mem.hook /\ live' \in [Objects -> Contents]
      BY <1>0, <1>1, <1>7, WithPhaseType, AfterStageType DEF StageDone
    <2> QED
      BY <1>0, <1>7, <2>1, StageStep DEF StageDone, TInv, TypeOK
  <1> QED
    BY <1>2, <1>3, <1>4, <1>5, <1>6, <1>7 DEF ExecuteStage

\* What comes after the last stage keeps the types.
LEMMA FinishType ==
    ASSUME TInv, HooksQuiet,
           FinishInstallation \/ FinishUpgrade \/ CleanUpFails \/ CleanUpPanics
    PROVE  TInv'
  <1> USE AddonAssumption
  <1>0. /\ cls \in Releases /\ mem \in Object /\ live \in [Objects -> Contents]
        /\ faults \in 0..MaxFaults
    BY DEF TInv, TypeOK, PassHasClass, StagesExecuted, FinishInstallation, FinishUpgrade,
           CleanUpFails, CleanUpPanics
  <1>1. CASE FinishInstallation
    BY <1>0, <1>1, FinishedType, LastStep DEF FinishInstallation
  <1>2. CASE FinishUpgrade
    BY <1>0, <1>2, FinishedType, LiveType, LastStep DEF FinishUpgrade
  <1>3. CASE CleanUpFails
    <2>1. live' = live \/ \E gone : live' = Live({}, gone)
      BY <1>3 DEF CleanUpFails
    <2>2. live' \in [Objects -> Contents]
      BY <1>0, <2>1, LiveType
    <2>3. faults' \in 0..MaxFaults
      BY <1>0, <1>3 DEF CleanUpFails, Fault
    <2> QED
      BY <1>0, <1>3, <2>2, <2>3, LastStep DEF CleanUpFails
  <1>4. CASE CleanUpPanics
    BY <1>0, <1>4, QuietStep DEF CleanUpPanics, TInv, TypeOK
  <1> QED
    BY <1>1, <1>2, <1>3, <1>4

\* The deferred patch, complete or in part, ends the pass.
LEMMA PatchStepType ==
    ASSUME TInv, HooksQuiet, PatchAddon \/ PatchInPart
    PROVE  TInv'
  <1>1. addon' \in Object /\ base' \in Object /\ mem' \in Object
    BY PatchedAddonType, AbsentType DEF PatchAddon, PatchInPart, EndPass, TInv
  <1>2. faults' \in 0..MaxFaults
    BY AddonAssumption DEF PatchAddon, PatchInPart, Fault, TInv, TypeOK
  <1> QED
    BY <1>1, <1>2 DEF PatchAddon, PatchInPart, EndPass, TInv, TypeOK, PassHasClass, HooksQuiet

\* What a hook stores is a ClusterAddon, and it leaves the pass alone.
LEMMA HookStepType ==
    ASSUME TInv, NEW h \in Hooks, addon' \in {addon, WithRequest(h)}, faults' \in 0..MaxFaults,
           UNCHANGED <<cluster, cp, create, live, disk, pass, due, moves>>,
           record' \subseteq Releases, initialized' \in BOOLEAN, disturbed' \in BOOLEAN
    PROVE  TInv'
  <1>1. addon' \in Object
    BY DEF WithRequest, Object, TInv, TypeOK
  <1> QED
    BY <1>1 DEF TInv, TypeOK, PassHasClass, pass

\* The hook server keeps the types.
LEMMA HookServerType ==
    ASSUME TInv, HookServer
    PROVE  TInv'
  <1> USE AddonAssumption DEF Hooks
  <1>0. /\ record \subseteq Releases /\ cluster.class \in Releases /\ disturbed \in BOOLEAN
        /\ faults \in 0..MaxFaults /\ initialized \in BOOLEAN
    BY DEF TInv, TypeOK
  <1>1. ASSUME NEW h \in Hooks, PatchedByHook(h)
        PROVE  /\ addon' \in {addon, WithRequest(h)} /\ faults' \in 0..MaxFaults
               /\ disturbed' \in BOOLEAN
    <2>1. disturbed' \in BOOLEAN
      BY <1>1 DEF PatchedByHook, RequestStored
    <2>2. addon' \in {addon, WithRequest(h)}
      BY <1>1 DEF PatchedByHook, RequestStored
    <2>3. faults' \in 0..MaxFaults
      BY <1>0, <1>1 DEF PatchedByHook, Fault
    <2> QED
      BY <2>1, <2>2, <2>3
  <1>2. CASE DoAfterControlPlaneInitialized
    <2>1. /\ addon' \in {addon, WithRequest(AfterControlPlaneInitialized)}
          /\ faults' \in 0..MaxFaults /\ disturbed' \in BOOLEAN
      BY <1>0, <1>1, <1>2 DEF DoAfterControlPlaneInitialized
    <2> QED
      BY <1>0, <1>2, <2>1, HookStepType DEF DoAfterControlPlaneInitialized
  <1>3. CASE AnswerLost
    BY <1>0, <1>3, HookStepType DEF AnswerLost, RequestStored, Fault
  <1>4. CASE RequestUpgrade
    BY <1>0, <1>1, <1>4, HookStepType DEF RequestUpgrade
  <1>5. CASE LetUpgradeProceed
    BY <1>0, <1>5 DEF LetUpgradeProceed, TInv, TypeOK, PassHasClass, pass, hookVars
  <1> QED
    BY <1>2, <1>3, <1>4, <1>5 DEF HookServer

\* Every step keeps the types; one case for each group of actions.
LEMMA TypeStep == TInv /\ [Next]_vars => TInv'
  <1> SUFFICES ASSUME TInv, [Next]_vars PROVE TInv'
    OBVIOUS
  <1> USE AddonAssumption, MaxMovesAssumption
  <1>1. CASE Reconcile /\ disturbed' = (disturbed \/ FailureLost \/ PatchTorn)
               /\ UNCHANGED <<record, initialized, due, moves>>
    <2>1. HooksQuiet
      <3>1. locked' \in BOOLEAN
        BY <1>1 DEF Reconcile, DownloadOldFails, TInv, TypeOK
      <3>2. disturbed' \in BOOLEAN
        BY <1>1
      <3> QED
        BY <1>1, <3>1, <3>2 DEF HooksQuiet
    <2> QED
      BY <1>1, <2>1, FirstStepsType, SingleType, PlanType, StageType, FinishType, PatchStepType
      DEF Reconcile, Stages
  <1>2. CASE StageNotRendered /\ UNCHANGED locked /\ disturbed' = TRUE
               /\ UNCHANGED <<record, initialized, due, moves>>
    BY <1>2, StageType DEF HooksQuiet, TInv, TypeOK
  <1>3. CASE Creator
    <2>1. addon' \in Object
      BY <1>3, AbsentType DEF Creator, CreateClusterAddon, Object, TInv, TypeOK
    <2> QED
      BY <1>3, <2>1
      DEF Creator, CreateClusterAddon, TInv, TypeOK, PassHasClass, pass, hookVars
  <1>4. CASE Panic \/ Restart
    <2>1. addon' \in Object /\ base' \in Object /\ mem' \in Object
      BY <1>4, PatchedAddonType, AbsentType
      DEF Panic, Restart, StartAnew, EndPass, TInv, TypeOK
    <2>2. faults' \in 0..MaxFaults
      BY <1>4 DEF Panic, Restart, Fault, TInv, TypeOK
    <2>3. StartAnew
      BY <1>4 DEF Panic, Restart
    <2> QED
      BY <2>1, <2>2, <2>3 DEF StartAnew, EndPass, TInv, TypeOK, PassHasClass
  <1>5. CASE HookServer
    BY <1>5, HookServerType
  <1>6. CASE ControlPlaneInitialized \/ ReleaseDownloaded
    BY <1>6 DEF ControlPlaneInitialized, ReleaseDownloaded, TInv, TypeOK, PassHasClass, pass,
                hookVars
  <1>7. ASSUME NEW r \in Releases, MoveCluster(r) PROVE TInv'
    <2>1. due' \in Hooks
      BY <1>7 DEF MoveCluster, DueAfter, TInv, TypeOK, Hooks
    <2>2. disturbed' \in BOOLEAN
      BY <1>7 DEF MoveCluster
    <2>3. /\ UNCHANGED <<cp, addon, create, live, disk, pass, faults, record, initialized>>
          /\ cluster' = [cluster EXCEPT !.class = r] /\ moves' = moves + 1 /\ moves < MaxMoves
      BY <1>7 DEF MoveCluster
    <2>4. moves' \in 0..MaxMoves
      BY <2>3 DEF TInv, TypeOK
    <2>5. cluster' \in [exists : BOOLEAN, class : Releases]
      BY <2>3 DEF TInv, TypeOK
    <2> QED
      BY <2>1, <2>2, <2>3, <2>4, <2>5 DEF TInv, TypeOK, PassHasClass, pass
  <1>8. CASE DeleteCluster
    <2>1. live' \in [Objects -> Contents]
      BY <1>8 DEF DeleteCluster, Contents
    <2> QED
      BY <1>8, <2>1 DEF DeleteCluster, TInv, TypeOK, PassHasClass, pass, hookVars
  <1>9. CASE CollectAddon
    <2>1. addon' \in Object
      BY <1>9, AbsentType DEF CollectAddon, Object, TInv, TypeOK
    <2> QED
      BY <1>9, <2>1 DEF CollectAddon, TInv, TypeOK, PassHasClass, pass, hookVars
  <1>10. CASE UNCHANGED vars
    BY <1>10 DEF vars, addonVars, hookVars, pass, TInv, TypeOK, PassHasClass
  <1> QED
    BY <1>1, <1>2, <1>3, <1>4, <1>5, <1>6, <1>7, <1>8, <1>9, <1>10 DEF Next, Controller

\* The initial states are well typed.
LEMMA TypeInit == Init => TInv
  <1> SUFFICES ASSUME Init PROVE TInv
    OBVIOUS
  <1>1. addon \in Object /\ base \in Object /\ mem \in Object
    BY AbsentType DEF Init, AddonInit
  <1>2. live \in [Objects -> Contents]
    BY DEF Init, AddonInit, Contents
  <1>3. faults \in 0..MaxFaults /\ moves \in 0..MaxMoves
    BY AddonAssumption, MaxMovesAssumption DEF Init, AddonInit
  <1> QED
    BY <1>1, <1>2, <1>3 DEF Init, AddonInit, TInv, TypeOK, PassHasClass, Hooks

\* The Cluster, its ClusterAddon, the passes of the controller and the record of the
\* hook server keep their types for any releases and charts; that a pass always works
\* for a class, and in the stages for a hook, is what makes it inductive.
THEOREM TypeCorrect == Spec => []TypeOK
  <1>1. TInv => TypeOK
    BY DEF TInv
  <1> QED
    BY <1>1, TypeInit, TypeStep, PTL DEF Spec
=============================================================================
