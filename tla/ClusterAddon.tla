---------------------------- MODULE ClusterAddon ----------------------------
(***************************************************************************)
(* The ClusterAddon of one Cluster and the two controllers that work on it *)
(* (src/internal/controller/clusteraddon_controller.go and                 *)
(* clusteraddoncreate_controller.go).                                      *)
(*                                                                         *)
(* A pass of the controller reads the ClusterAddon and the Cluster, brings *)
(* the objects of the addon charts into the workload cluster, and patches  *)
(* the ClusterAddon when it returns.  A release without clusteraddon.yaml  *)
(* has one chart.  A release with it has, for every hook, a list of stages *)
(* with a chart each; status.stages records how far each stage has come.   *)
(* Between the steps of a pass the Cluster may move to another class and   *)
(* the hook server may patch the ClusterAddon (module AddonUpgrade).       *)
(*                                                                         *)
(* An object of the workload cluster is modelled with the addon version    *)
(* whose content it has.  Conditions that no code reads are left out.      *)
(***************************************************************************)
EXTENDS KubeClient, Sequences, FiniteSets, Functions

CONSTANTS
    Releases,     \* cluster stack releases, named as in spec.topology.class
    Assets,       \* what metadata.yaml, clusteraddon.yaml and the chart of a release hold
    PatchLosses,  \* the sets of parts of a patch that may get lost
    MaxFaults     \* bound on failing calls, unmet conditions and restarts

AfterControlPlaneInitialized == "AfterControlPlaneInitialized"
BeforeClusterUpgrade == "BeforeClusterUpgrade"
Hooks == {AfterControlPlaneInitialized, BeforeClusterUpgrade}

None == ""

\* The version and the stages of a release.
K8s(r) == Assets[r].kubernetes
AddonVersion(r) == Assets[r].clusterAddon
Staged(r) == Assets[r].staged
AddonStages(r, hook) == Assets[r].stages[hook]
Charts(r) == DOMAIN Assets[r].charts
Chart(r, name) == IF name \in Charts(r) THEN Assets[r].charts[name] ELSE {}
WholeChart(r) == UNION Range(Assets[r].charts)

\* A stage is identified by the name of its chart and by its action.
Stage == [name : UNION {Charts(r) : r \in Releases}, action : {"apply", "delete"}]

ASSUME AddonAssumption ==
    /\ None \notin Releases
    /\ \A r \in Releases :
          /\ K8s(r) \in Nat /\ AddonVersion(r) \in Nat \ {0}
          /\ Staged(r) \in BOOLEAN
          /\ WholeChart(r) \subseteq Objects
          /\ \A h \in Hooks : AddonStages(r, h) \in Seq(Stage)
    /\ MaxFaults \in Nat
    /\ PatchLosses \subseteq SUBSET {"conditions", "object", "status"}

Phases == {"none", "pending", "waitingForPreCondition", "applyingOrDeleting",
           "waitingForPostCondition", "done"}

Versions == {AddonVersion(r) : r \in Releases}

\* 0 stands for no version, and for an object that is not there.
Contents == Versions \cup {0}

VARIABLES
    cluster,    \* the Cluster: does it exist, and spec.topology.class
    cp,         \* the Kubernetes version of its control plane, 0 until it is initialized
    addon,      \* the ClusterAddon in the API server
    create,     \* the create event of the Cluster is still to be handled
    live,       \* the content of every object of the workload cluster
    disk,       \* releases in the download directory
    pc, cls, idx,
                \* a pass of the controller, the class it has read, the stage it is at
    base, mem,  \* the ClusterAddon it has read, and its working copy
    locked,     \* a pass has returned without unlocking the mutex of the downloads
    faults

pass == <<pc, cls, idx, base, mem, locked>>
addonVars == <<cluster, cp, addon, create, live, disk, pass, faults>>

NoStages == [s \in Stage |-> "none"]

Absent ==
    [exists |-> FALSE, deleting |-> FALSE, finalizer |-> FALSE, clusterStack |-> None,
     version |-> 0, hook |-> None, annotation |-> None, ready |-> FALSE, stages |-> NoStages,
     resources |-> NoResources, applied |-> "none", clientFailed |-> FALSE]

Object ==
    [exists : BOOLEAN, deleting : BOOLEAN, finalizer : BOOLEAN,
     clusterStack : Releases \cup {None}, version : Contents, hook : Hooks \cup {None},
     annotation : {None, "created", "upgraded"}, ready : BOOLEAN,
     stages : [Stage -> Phases], resources : Resources,
     applied : {"none", "True", "False"}, clientFailed : BOOLEAN]

AddonInit ==
    /\ cluster \in [exists : {TRUE}, class : Releases]
    /\ cp = 0
    /\ addon = Absent
    /\ create = TRUE
    /\ live = [o \in Objects |-> 0]
    /\ disk = {}
    /\ pc = "idle" /\ cls = None /\ idx = 0
    /\ base = Absent /\ mem = Absent /\ locked = FALSE
    /\ faults = 0

Fault == faults < MaxFaults /\ faults' = faults + 1

-----------------------------------------------------------------------------
(* ClusterAddonCreateReconciler.                                           *)

\* The create event of a Cluster (after a restart there is one for every
\* Cluster): a ClusterAddon is created unless there is one.
CreateClusterAddon ==
    /\ create
    /\ create' = FALSE
    /\ addon' = IF cluster.exists /\ ~addon.exists
                THEN [Absent EXCEPT !.exists = TRUE] ELSE addon
    /\ UNCHANGED <<cluster, cp, live, disk, pass, faults>>

-----------------------------------------------------------------------------
(* The pass up to the release assets.                                      *)

StartReconcile ==
    /\ pc = "idle" /\ addon.exists
    /\ base' = addon
    /\ mem' = [addon EXCEPT !.finalizer = TRUE]
    /\ pc' = "cluster"
    /\ UNCHANGED <<cluster, cp, addon, create, live, disk, cls, idx, faults>>

\* Mutant: the finalizer stays.
KeepFinalizer ==
    /\ pc = "cluster" /\ ~cluster.exists
    /\ pc' = "patch"
    /\ UNCHANGED <<cluster, cp, addon, create, live, disk, cls, idx, base, mem, faults>>

\* Without its Cluster a ClusterAddon that is being deleted is let go; any
\* other pass ends with an error.
ClusterNotFound ==
    /\ pc = "cluster" /\ ~cluster.exists
    /\ mem' = [mem EXCEPT !.finalizer = ~mem.deleting]
    /\ pc' = "patch"
    /\ UNCHANGED <<cluster, cp, addon, create, live, disk, cls, idx, base, faults>>

\* RestConfig finds the secret with the kubeconfig.
KubeconfigThere == cp # 0

\* The Cluster cannot be read, there is no kubeconfig yet, the API server of the
\* workload cluster does not answer, or the release assets are damaged.
ClusterNotReady ==
    /\ pc = "cluster" /\ cluster.exists
    /\ \/ ~KubeconfigThere /\ UNCHANGED faults
       \/ KubeconfigThere /\ Fault
    /\ pc' = "patch"
    /\ UNCHANGED <<cluster, cp, addon, create, live, disk, cls, idx, base, mem>>

\* The release is not downloaded yet: the controller of ClusterStackRelease will.
AssetsMissing ==
    /\ pc = "cluster" /\ cluster.exists /\ KubeconfigThere /\ cluster.class \notin disk
    /\ pc' = "patch"
    /\ UNCHANGED <<cluster, cp, addon, create, live, disk, cls, idx, base, mem, faults>>

AssetsFound ==
    /\ pc = "cluster" /\ cluster.exists /\ KubeconfigThere /\ cluster.class \in disk
    /\ cls' = cluster.class
    /\ pc' = IF Staged(cluster.class) THEN "old" ELSE "single"
    /\ UNCHANGED <<cluster, cp, addon, create, live, disk, idx, base, mem, faults>>

-----------------------------------------------------------------------------
(* One chart: a release without clusteraddon.yaml.                         *)

\* The content of the workload cluster after some calls.
Live(applied, deleted) ==
    [o \in Objects |-> IF o \in applied THEN AddonVersion(cls)
                       ELSE IF o \in deleted THEN 0 ELSE live[o]]

\* SetStageAnnotations: the first value stays.
Annotation(value) == IF mem.annotation = None THEN value ELSE mem.annotation

SingleNeedsApply ==
    IF mem.clusterStack # cls THEN mem.version # AddonVersion(cls) ELSE mem.applied = "False"

\* What both branches record of the work to do: a new class makes the
\* ClusterAddon not ready first.
SingleStarted == [mem EXCEPT !.ready = mem.ready /\ mem.clusterStack = cls]

SingleVersion == IF mem.clusterStack # cls THEN AddonVersion(cls) ELSE mem.version

SingleFinished(m) ==
    [m EXCEPT !.annotation = Annotation("created"), !.hook = None,
              !.clusterStack = cls, !.ready = TRUE]

SingleUpToDate ==
    /\ pc = "single" /\ ~SingleNeedsApply
    /\ mem' = SingleFinished(mem)
    /\ pc' = "patch"
    /\ UNCHANGED <<cluster, cp, addon, create, live, disk, cls, idx, base, faults>>

\* templateAndApplyClusterAddonHelmChart in which every call succeeds.
SingleApply ==
    /\ pc = "single" /\ SingleNeedsApply
    /\ LET chart == WholeChart(cls)
       IN  /\ live' = Live(ToApply(chart, mem.resources), ResourcesToBeDeleted(chart, mem.resources))
           /\ mem' = SingleFinished(
                       [mem EXCEPT !.resources = AppliedResources(chart, mem.resources, {}, {}, {}),
                                   !.version = SingleVersion, !.applied = "True"])
    /\ pc' = "patch"
    /\ UNCHANGED <<cluster, cp, addon, create, disk, cls, idx, base, faults>>

\* Some objects are refused: the new class and version are recorded already,
\* the condition makes the next pass apply again.
SingleApplyInPart ==
    /\ pc = "single" /\ SingleNeedsApply /\ Fault
    /\ LET chart == WholeChart(cls)
           res == mem.resources
       IN  \E noMapping, refused \in SUBSET ToApply(chart, res),
              undeleted \in SUBSET ResourcesToBeDeleted(chart, res) :
              /\ ApplyRequeues(chart, res, noMapping, refused, undeleted)
              /\ live' = Live(ToApply(chart, res) \ (noMapping \cup refused),
                              ResourcesToBeDeleted(chart, res) \ undeleted)
              /\ mem' = [SingleStarted EXCEPT
                           !.resources = AppliedResources(chart, res, noMapping, refused, undeleted),
                           !.version = SingleVersion, !.clusterStack = cls, !.applied = "False"]
    /\ pc' = "patch"
    /\ UNCHANGED <<cluster, cp, addon, create, disk, cls, idx, base>>

\* The chart cannot be rendered, or Apply returns an error on its way through the
\* objects: nothing of what it did is recorded.
SingleApplyFails ==
    /\ pc = "single" /\ SingleNeedsApply /\ Fault
    /\ LET surplus == ResourcesToBeDeleted(WholeChart(cls), mem.resources)
       IN  \E applied \in SUBSET ToApply(WholeChart(cls), mem.resources), gone \in SUBSET surplus :
              /\ gone = {} \/ gone # surplus
              /\ live' = Live(applied, gone)
    /\ mem' = [SingleStarted EXCEPT !.applied = "False"]
    /\ pc' = "patch"
    /\ UNCHANGED <<cluster, cp, addon, create, disk, cls, idx, base>>

Single == SingleUpToDate \/ SingleApply \/ SingleApplyInPart \/ SingleApplyFails

-----------------------------------------------------------------------------
(* Stages: a release with clusteraddon.yaml.                               *)

\* A chart cannot be unpacked, clusteraddon.yaml not parsed or the metadata of the
\* old release not read.
StagesInputFails ==
    /\ pc = "old" /\ Fault
    /\ pc' = "patch"
    /\ UNCHANGED <<cluster, cp, addon, create, live, disk, cls, idx, base, mem>>

\* downloadOldClusterStackRelease: no assets client.  The first time it returns
\* no release and no wish to requeue, and Reconcile dereferences the release.
NoAssetsClient ==
    /\ pc = "old" /\ mem.clusterStack # None /\ Fault
    /\ mem' = [mem EXCEPT !.clientFailed = TRUE]
    /\ pc' = IF mem.clientFailed THEN "patch" ELSE "panic"
    /\ UNCHANGED <<cluster, cp, addon, create, live, disk, cls, idx, base>>

\* The charts of the old release are not as CheckHelmCharts wants them: again there
\* is neither a release nor an error.
OldReleaseDamaged ==
    /\ pc = "old" /\ mem.clusterStack \in disk /\ Fault
    /\ mem' = [mem EXCEPT !.clientFailed = FALSE]
    /\ pc' = "panic"
    /\ UNCHANGED <<cluster, cp, addon, create, live, disk, cls, idx, base>>

OldReleaseMissing == pc = "old" /\ mem.clusterStack \notin disk \cup {None}

\* The old release is downloaded and looked for again in the next pass.
DownloadOldRelease ==
    /\ OldReleaseMissing /\ ~locked
    /\ disk' = disk \cup {mem.clusterStack}
    /\ mem' = [mem EXCEPT !.clientFailed = FALSE]
    /\ pc' = "patch"
    /\ UNCHANGED <<cluster, cp, addon, create, live, cls, idx, base, faults>>

\* The download fails, and the pass returns with the mutex locked.  This happens at
\* most once in the life of a process and needs no bound.
DownloadOldFails ==
    /\ OldReleaseMissing /\ ~locked
    /\ locked' = TRUE
    /\ mem' = [mem EXCEPT !.clientFailed = FALSE]
    /\ pc' = "patch"
    /\ UNCHANGED <<cluster, cp, addon, create, live, disk, cls, idx, base, faults>>

\* The next pass that has to download waits for the mutex, which nobody unlocks.
WaitForMutex ==
    /\ OldReleaseMissing /\ locked
    /\ pc' = "blocked"
    /\ UNCHANGED <<cluster, cp, addon, create, live, disk, cls, idx, base, mem, faults>>

\* There is an old release, with the Kubernetes version of the new one.
SameKubernetes == mem.clusterStack # None /\ K8s(mem.clusterStack) = K8s(cls)

\* The stages of a hook, all pending.
Pending(hook) ==
    [s \in Stage |-> IF s \in Range(AddonStages(cls, hook)) THEN "pending" ELSE "none"]

\* Phases of work in progress are kept.
Fresh(m, hook) == IF m.ready \/ m.stages = NoStages THEN Pending(hook) ELSE m.stages

\* "if a hook is specified, we cannot be ready yet"
WithHook(m) ==
    IF m.hook = None THEN m ELSE [m EXCEPT !.stages = Fresh(m, m.hook), !.ready = FALSE]

\* Mutant: a class with the same addons is not recorded.
ClassNotRecorded(m) ==
    IF ~(SameKubernetes /\ m.clusterStack # cls) THEN m
    ELSE IF m.version # AddonVersion(cls)
         THEN [m EXCEPT !.stages = Fresh(m, BeforeClusterUpgrade), !.ready = FALSE,
                        !.applied = "none"]
         ELSE [m EXCEPT !.ready = TRUE]

\* The class has changed and the hook server does not trigger.
WithNewClass(m) ==
    IF ~(SameKubernetes /\ m.clusterStack # cls) THEN m
    ELSE IF m.version # AddonVersion(cls)
         THEN [m EXCEPT !.stages = Fresh(m, BeforeClusterUpgrade), !.ready = FALSE,
                        !.applied = "none"]
         ELSE [m EXCEPT !.clusterStack = cls, !.ready = TRUE]

\* The version is recorded before any stage is executed.
Planned ==
    [WithNewClass(WithHook(mem)) EXCEPT
        !.version = AddonVersion(cls),
        !.clientFailed = mem.clientFailed /\ mem.clusterStack = None]

PlanStages ==
    /\ pc = "old" /\ mem.clusterStack \in disk \cup {None}
    /\ LET hook == IF ~Planned.ready /\ SameKubernetes THEN BeforeClusterUpgrade ELSE Planned.hook
       IN  /\ mem' = [Planned EXCEPT !.hook = hook]
           /\ pc' = IF Planned.ready \/ hook = None THEN "patch" ELSE "stages"
    /\ idx' = 1
    /\ UNCHANGED <<cluster, cp, addon, create, live, disk, cls, base, faults>>

-----------------------------------------------------------------------------
(* executeStage, for the stages of the hook one after the other.           *)

AtStage == pc = "stages" /\ idx <= Len(AddonStages(cls, mem.hook))

Current == AddonStages(cls, mem.hook)[idx]

Phase == mem.stages[Current]

WithPhase(m, phase) == [m EXCEPT !.stages[Current] = phase]

\* Mutant: a stage that was interrupted counts as executed.
InterruptedIsDone == Current.name \in Charts(cls) /\ Phase \notin {"none", "done", "applyingOrDeleting"}

\* A stage that is done, or that status.stages does not know, matches no case; one
\* whose chart is missing is left out with an event.
StageRuns == Current.name \in Charts(cls) /\ Phase \notin {"none", "done"}

\* The objects of the stage, and those that only the old release has in it.
StageObjects == Chart(cls, Current.name)

OldStageObjects ==
    IF mem.clusterStack # None /\ Staged(mem.clusterStack)
    THEN Chart(mem.clusterStack, Current.name) ELSE {}

StageDeletes ==
    IF Current.action = "apply"
    THEN ObjectsToBeDeleted(OldStageObjects, StageObjects) ELSE StageObjects

StageApplies == IF Current.action = "apply" THEN StageObjects ELSE {}

\* The calls are behind the stage; only the postcondition is left.
Executed == Phase = "waitingForPostCondition"

LiveAfterStage == IF Executed THEN live ELSE Live(StageApplies, StageDeletes)

AfterStage ==
    IF Executed THEN mem
    ELSE [mem EXCEPT !.resources = NoResources,
                     !.applied = IF Current.action = "apply" THEN "none" ELSE mem.applied]

StageSkipped ==
    /\ AtStage /\ ~StageRuns
    /\ idx' = idx + 1
    /\ UNCHANGED <<cluster, cp, addon, create, live, disk, pc, cls, base, mem, faults>>

\* The expression of a condition is not true yet, or its object cannot be read.
ConditionNotMet == Fault

\* Not true yet: requeue.  Not evaluated: error.
PreConditionNotMet ==
    /\ AtStage /\ StageRuns /\ Phase \in {"pending", "waitingForPreCondition"} /\ ConditionNotMet
    /\ mem' \in {WithPhase(mem, "waitingForPreCondition"), mem}
    /\ pc' = "patch"
    /\ UNCHANGED <<cluster, cp, addon, create, live, disk, cls, idx, base>>

\* The chart cannot be rendered: "shouldReturn", and the loop takes the next stage.
StageNotRendered ==
    /\ AtStage /\ StageRuns /\ ~Executed /\ Fault
    /\ mem' = WithPhase(mem, "applyingOrDeleting")
    /\ idx' = idx + 1
    /\ UNCHANGED <<cluster, cp, addon, create, live, disk, pc, cls, base>>

\* ApplyNewClusterStack or DeleteNewClusterStack cannot do everything.
StageInPart ==
    /\ AtStage /\ StageRuns /\ ~Executed /\ Fault
    /\ \E failed \in SUBSET (StageApplies \cup StageDeletes) :
          /\ failed # {}
          /\ live' = Live(StageApplies \ failed, StageDeletes \ failed)
    /\ mem' = WithPhase([mem EXCEPT !.applied = IF Current.action = "apply" THEN "False" ELSE mem.applied],
                        "applyingOrDeleting")
    /\ pc' = "patch"
    /\ UNCHANGED <<cluster, cp, addon, create, disk, cls, idx, base>>

PostConditionNotMet ==
    /\ AtStage /\ StageRuns /\ ConditionNotMet
    /\ live' = LiveAfterStage
    /\ mem' = WithPhase(AfterStage, "waitingForPostCondition")
    /\ pc' = "patch"
    /\ UNCHANGED <<cluster, cp, addon, create, disk, cls, idx, base>>

StageDone ==
    /\ AtStage /\ StageRuns
    /\ live' = LiveAfterStage
    /\ mem' = WithPhase(AfterStage, "done")
    /\ idx' = idx + 1
    /\ UNCHANGED <<cluster, cp, addon, create, disk, pc, cls, base, faults>>

ExecuteStage ==
    \/ StageSkipped \/ PreConditionNotMet
    \/ StageInPart \/ PostConditionNotMet \/ StageDone

-----------------------------------------------------------------------------
(* After the last stage: what only the old release had is removed.         *)

StagesExecuted == pc = "stages" /\ idx > Len(AddonStages(cls, mem.hook))

\* removeResourcesFromCurrentListOfObjects compares pointers and removes nothing,
\* so stages that delete have no influence on the lists.
ListedObjects(r, hook) ==
    UNION {Chart(r, s.name) : s \in {t \in Range(AddonStages(cls, hook)) : t.action = "apply"}}

\* The stages of the NEW release, rendered with the charts of the old one; the
\* hook is the one that installed them, as far as the annotation tells.
OldHook ==
    IF mem.annotation = "created" THEN AfterControlPlaneInitialized ELSE BeforeClusterUpgrade

OldReleaseObjects ==
    IF Staged(mem.clusterStack) THEN ListedObjects(mem.clusterStack, OldHook)
    ELSE WholeChart(mem.clusterStack)

NewReleaseObjects == ListedObjects(cls, mem.hook)

\* helm template fails for a chart that is not there.
ObjectsListable ==
    /\ \A s \in Range(AddonStages(cls, mem.hook)) : s.name \in Charts(cls)
    /\ Staged(mem.clusterStack) =>
          \A s \in Range(AddonStages(cls, OldHook)) : s.name \in Charts(mem.clusterStack)

\* Mutant: the condition is not set when the stages are through.
FinishedUnmarked(annotation) ==
    [mem EXCEPT !.annotation = Annotation(annotation), !.stages = NoStages,
                !.resources = NoResources, !.clusterStack = cls, !.ready = TRUE, !.hook = None]

Finished(annotation) ==
    [mem EXCEPT !.annotation = Annotation(annotation), !.applied = "True", !.stages = NoStages,
                !.resources = NoResources, !.clusterStack = cls, !.ready = TRUE, !.hook = None]

FinishInstallation ==
    /\ StagesExecuted /\ mem.hook = AfterControlPlaneInitialized
    /\ mem' = Finished("created")
    /\ pc' = "patch"
    /\ UNCHANGED <<cluster, cp, addon, create, live, disk, cls, idx, base, faults>>

\* cleanUpResources.
FinishUpgrade ==
    /\ StagesExecuted /\ mem.hook = BeforeClusterUpgrade
    /\ mem.clusterStack # None /\ ObjectsListable
    /\ live' = Live({}, OldReleaseObjects \ NewReleaseObjects)
    /\ mem' = Finished("upgraded")
    /\ pc' = "patch"
    /\ UNCHANGED <<cluster, cp, addon, create, disk, cls, idx, base, faults>>

\* An object cannot be deleted (requeue), or a list not made (error).
CleanUpFails ==
    /\ StagesExecuted /\ mem.hook = BeforeClusterUpgrade /\ mem.clusterStack # None
    /\ \/ ~ObjectsListable /\ UNCHANGED <<live, faults>>
       \/ /\ ObjectsListable /\ Fault
          /\ \E failed \in SUBSET (OldReleaseObjects \ NewReleaseObjects) :
                live' = Live({}, (OldReleaseObjects \ NewReleaseObjects) \ failed)
    /\ pc' = "patch"
    /\ UNCHANGED <<cluster, cp, addon, create, disk, cls, idx, base, mem>>

\* An upgrade before anything was installed: there is no old release to list.
CleanUpPanics ==
    /\ StagesExecuted /\ mem.hook = BeforeClusterUpgrade /\ mem.clusterStack = None
    /\ pc' = "panic"
    /\ UNCHANGED <<cluster, cp, addon, create, live, disk, cls, idx, base, mem, faults>>

Stages ==
    \/ StagesInputFails \/ NoAssetsClient \/ OldReleaseDamaged
    \/ DownloadOldRelease \/ WaitForMutex \/ PlanStages \/ ExecuteStage
    \/ FinishInstallation \/ FinishUpgrade \/ CleanUpFails \/ CleanUpPanics

-----------------------------------------------------------------------------
(* The deferred patch: conditions (three-way merge), spec and metadata, the *)
(* rest of the status.                                                     *)

Parts == {"conditions", "object", "status"}

Changed(before, after, stored) == IF after # before THEN after ELSE stored

ConditionsMerge == mem.applied # base.applied => addon.applied \in {base.applied, mem.applied}

Patched(parts) ==
    LET field(part, before, after, stored) ==
            IF part \in parts THEN Changed(before, after, stored) ELSE stored
        finalizer == field("object", base.finalizer, mem.finalizer, addon.finalizer)
    IN  IF addon.deleting /\ ~finalizer THEN Absent
        ELSE [exists |-> addon.exists, deleting |-> addon.deleting, finalizer |-> finalizer,
              clusterStack |->
                 field("object", base.clusterStack, mem.clusterStack, addon.clusterStack),
              version    |-> field("object", base.version, mem.version, addon.version),
              hook       |-> field("object", base.hook, mem.hook, addon.hook),
              annotation |-> field("object", base.annotation, mem.annotation, addon.annotation),
              ready      |-> field("status", base.ready, mem.ready, addon.ready),
              stages     |-> field("status", base.stages, mem.stages, addon.stages),
              resources  |-> field("status", base.resources, mem.resources, addon.resources),
              applied    |-> field("conditions", base.applied, mem.applied, addon.applied),
              clientFailed |->
                 field("conditions", base.clientFailed, mem.clientFailed, addon.clientFailed)]

PatchedAddon(lost) ==
    IF addon.exists
    THEN Patched((IF ConditionsMerge THEN Parts ELSE Parts \ {"conditions"}) \ lost)
    ELSE addon

EndPass == pc' = "idle" /\ cls' = None /\ idx' = 0 /\ base' = Absent /\ mem' = Absent

PatchAddon ==
    /\ pc = "patch"
    /\ addon' = PatchedAddon({})
    /\ EndPass
    /\ UNCHANGED <<cluster, cp, create, live, disk, faults>>

PatchInPart ==
    /\ pc = "patch" /\ addon.exists /\ Fault
    /\ \E lost \in PatchLosses \ {{}} : addon' = PatchedAddon(lost)
    /\ EndPass
    /\ UNCHANGED <<cluster, cp, create, live, disk>>

Reconcile ==
    \/ /\ \/ StartReconcile \/ ClusterNotFound \/ ClusterNotReady \/ AssetsMissing \/ AssetsFound
          \/ Single \/ Stages \/ PatchAddon \/ PatchInPart
       /\ UNCHANGED locked
    \/ DownloadOldFails
=============================================================================
