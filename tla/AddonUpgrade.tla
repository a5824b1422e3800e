---------------------------- MODULE AddonUpgrade ----------------------------
(***************************************************************************)
(* The ClusterAddon controller together with the hook server               *)
(* (src/extension/hooks.go), which Cluster API calls when the control      *)
(* plane of a Cluster is initialized and before it upgrades the Kubernetes *)
(* version, and with the webhook that admits changes of a Cluster          *)
(* (src/api/v1alpha1/cluster_webhook.go).                                  *)
(*                                                                         *)
(* Cluster API (external) repeats a hook until it is answered with         *)
(* success, and holds an upgrade back as long as the answer asks to retry. *)
(***************************************************************************)
EXTENDS ClusterAddon

CONSTANT MaxMoves  \* bound on the changes of spec.topology.class

ASSUME MaxMovesAssumption == MaxMoves \in Nat

VARIABLES
    record,       \* HookRecord of the hook server: the classes it has patched for
    initialized,  \* AfterControlPlaneInitialized was answered with success
    disturbed,    \* history: something happened that the code has no answer to, namely
                  \* the Cluster was moved before the last move was dealt with, or to a
                  \* release that has an object in an earlier stage; a patch of the hook
                  \* server failed, took a failure away or asked again for an installation
                  \* whose stages are not those of an upgrade; the failure of a single chart
                  \* was not stored; some writes of a patch were lost and others not; or a
                  \* stage was not rendered
    due,          \* history: the hook whose stages the class of the Cluster calls for
    moves

hookVars == <<record, initialized, disturbed, due, moves>>
vars == <<addonVars, hookVars>>

Init ==
    /\ AddonInit
    /\ record = {} /\ initialized = FALSE /\ disturbed = FALSE /\ moves = 0
    /\ due = AfterControlPlaneInitialized

-----------------------------------------------------------------------------
(* The hook server.                                                        *)

\* Mutant: HelmChartApplied of the last release stays.
KeepCondition(hook) == [addon EXCEPT !.hook = hook]

\* Both hooks: the hook is set and HelmChartApplied goes.
WithRequest(hook) == [addon EXCEPT !.hook = hook, !.applied = "none"]

\* The addons are installed and the hook asks for it again: the controller takes the
\* stages of BeforeClusterUpgrade then, with the phases of AfterControlPlaneInitialized,
\* and cleans up what only the latter installs.
InstallsAgain(hook) ==
    /\ hook = AfterControlPlaneInitialized /\ addon.clusterStack # None
    /\ Staged(cluster.class)
    /\ AddonStages(cluster.class, AfterControlPlaneInitialized)
          # AddonStages(cluster.class, BeforeClusterUpgrade)

RequestStored(hook) ==
    /\ addon' = WithRequest(hook)
    /\ disturbed' = (disturbed \/ addon.applied = "False" \/ InstallsAgain(hook))

\* A failed patch is answered with success all the same.
PatchedByHook(hook) ==
    \/ RequestStored(hook) /\ UNCHANGED faults
    \/ Fault /\ disturbed' = TRUE /\ UNCHANGED addon

DoAfterControlPlaneInitialized ==
    /\ cluster.exists /\ cp # 0 /\ ~initialized
    /\ addon.exists
    /\ IF addon.hook # AfterControlPlaneInitialized
       THEN PatchedByHook(AfterControlPlaneInitialized)
       ELSE UNCHANGED <<addon, faults, disturbed>>
    /\ initialized' = TRUE
    /\ UNCHANGED <<cluster, cp, create, live, disk, pass, record, due, moves>>

\* The patch succeeds and the answer gets lost: Cluster API will call again.
AnswerLost ==
    /\ cluster.exists /\ cp # 0 /\ ~initialized
    /\ addon.exists /\ addon.hook # AfterControlPlaneInitialized /\ Fault
    /\ RequestStored(AfterControlPlaneInitialized)
    /\ UNCHANGED <<cluster, cp, create, live, disk, pass, record, initialized, due, moves>>

UpgradeWanted == cluster.exists /\ initialized /\ K8s(cluster.class) # cp

\* The request of an upgrade is passed on once for every class.
NotRequested == addon.hook # BeforeClusterUpgrade /\ cluster.class \notin record

\* Mutant: HookRecord has the hook for its key.
RecordHook ==
    /\ UpgradeWanted /\ addon.exists /\ NotRequested
    /\ PatchedByHook(BeforeClusterUpgrade)
    /\ record' = record \cup {BeforeClusterUpgrade}
    /\ UNCHANGED <<cluster, cp, create, live, disk, pass, initialized, due, moves>>

\* The answer asks to retry, because the condition has just been deleted.
RequestUpgrade ==
    /\ UpgradeWanted /\ addon.exists /\ NotRequested
    /\ PatchedByHook(BeforeClusterUpgrade)
    /\ record' = record \cup {cluster.class}
    /\ UNCHANGED <<cluster, cp, create, live, disk, pass, initialized, due, moves>>

\* An answer without retry: Cluster API upgrades the control plane.
LetUpgradeProceed ==
    /\ UpgradeWanted /\ addon.exists /\ ~NotRequested
    /\ addon.applied = "True"
    /\ cp' = K8s(cluster.class)
    /\ UNCHANGED <<cluster, addon, create, live, disk, pass, faults, hookVars>>

-----------------------------------------------------------------------------
(* Everybody else.                                                         *)

ControlPlaneInitialized ==
    /\ cluster.exists /\ cp = 0
    /\ cp' = K8s(cluster.class)
    /\ UNCHANGED <<cluster, addon, create, live, disk, pass, faults, hookVars>>

\* The controller of ClusterStackRelease downloads the release of the class.
ReleaseDownloaded ==
    /\ cluster.exists /\ cluster.class \notin disk
    /\ disk' = disk \cup {cluster.class}
    /\ UNCHANGED <<cluster, cp, addon, create, live, pass, faults, hookVars>>

\* Nothing is under way for the present class.
Settled ==
    /\ addon.ready /\ addon.hook = None /\ addon.clusterStack = cluster.class
    /\ addon.applied # "False"
    /\ initialized /\ cp = K8s(cluster.class)

\* An object moves to an earlier stage: it is applied there, and then the stage that
\* had it in the old release deletes it (ApplyNewClusterStack compares the two
\* releases stage by stage).
MovesForward(old, new) ==
    /\ Staged(old) /\ Staged(new)
    /\ \E h \in Hooks : \E i, j \in DOMAIN AddonStages(new, h) :
          LET first == AddonStages(new, h)[i]
              later == AddonStages(new, h)[j]
          IN  /\ i < j /\ first.action = "apply" /\ later.action = "apply"
              /\ Chart(new, first.name)
                    \cap ObjectsToBeDeleted(Chart(old, later.name), Chart(new, later.name)) # {}

\* ValidateUpdate of the webhook for Clusters: the Kubernetes version stays or
\* goes up by one.  It checks nothing when it cannot read the release; the webhook
\* of Cluster API then still refuses to go down or to leave out a version.
AdmitsClass(r) == K8s(r) - K8s(cluster.class) \in {0, 1}

\* Other addons, or another Kubernetes version: the stages of BeforeClusterUpgrade are
\* executed, with or without the hook server.
DueAfter(r) ==
    IF AddonVersion(r) = AddonVersion(cluster.class) /\ K8s(r) = K8s(cluster.class)
    THEN due ELSE BeforeClusterUpgrade

MoveCluster(r) ==
    /\ moves < MaxMoves
    /\ cluster.exists /\ r # cluster.class /\ AdmitsClass(r)
    /\ disturbed' = (disturbed \/ ~Settled \/ MovesForward(cluster.class, r))
    /\ cluster' = [cluster EXCEPT !.class = r]
    /\ due' = DueAfter(r)
    /\ moves' = moves + 1
    /\ UNCHANGED <<cp, addon, create, live, disk, pass, faults, record, initialized>>

DeleteCluster ==
    /\ cluster.exists
    /\ cluster' = [cluster EXCEPT !.exists = FALSE]
    /\ live' = [o \in Objects |-> 0]
    /\ UNCHANGED <<cp, addon, create, disk, pass, faults, hookVars>>

\* The garbage collector deletes the ClusterAddon of a Cluster that has gone.
CollectAddon ==
    /\ ~cluster.exists /\ addon.exists /\ ~addon.deleting
    /\ addon' = IF addon.finalizer THEN [addon EXCEPT !.deleting = TRUE] ELSE Absent
    /\ UNCHANGED <<cluster, cp, create, live, disk, pass, faults, hookVars>>

\* The process starts anew: a pass, the mutex, the downloads and HookRecord are lost,
\* and there is a create event for every Cluster.
StartAnew ==
    /\ EndPass
    /\ disk' = {} /\ record' = {} /\ locked' = FALSE
    /\ create' = TRUE
    /\ UNCHANGED <<cluster, cp, live, initialized, disturbed, due, moves>>

Restart == StartAnew /\ Fault /\ UNCHANGED addon

\* A panic runs the deferred patch before it ends the process.
Panic ==
    /\ pc = "panic"
    /\ addon' = PatchedAddon({})
    /\ StartAnew
    /\ UNCHANGED faults

HookServer ==
    DoAfterControlPlaneInitialized \/ AnswerLost \/ RequestUpgrade \/ LetUpgradeProceed

\* The hook server took HelmChartApplied away during the pass: "False" conflicts and
\* is not stored, but the new class and version are.
FailureLost ==
    pc = "patch" /\ mem.applied = "False" /\ ~ConditionsMerge /\ ~Staged(cluster.class)

\* Some writes of a deferred patch were lost and others were not.
PatchTorn == pc = "patch" /\ addon' \notin {addon, PatchedAddon({})}

Controller ==
    \/ /\ Reconcile
       /\ disturbed' = (disturbed \/ FailureLost \/ PatchTorn)
       /\ UNCHANGED <<record, initialized, due, moves>>
    \/ /\ StageNotRendered /\ UNCHANGED locked
       /\ disturbed' = TRUE
       /\ UNCHANGED <<record, initialized, due, moves>>

Creator == CreateClusterAddon /\ UNCHANGED hookVars

Next ==
    \/ Controller \/ Creator \/ Panic
    \/ HookServer
    \/ ControlPlaneInitialized \/ ReleaseDownloaded
    \/ \E r \in Releases : MoveCluster(r)
    \/ DeleteCluster \/ CollectAddon
    \/ Restart

Spec == Init /\ [][Next]_vars

\* The work queue calls the controllers again after every error, requeue and
\* event (and at every resync), the process is started again after a panic, and
\* Cluster API repeats its hooks.  LetUpgradeProceed may be disabled for a while by
\* a pass that has taken HelmChartApplied away, hence the strong fairness.
Fairness ==
    /\ WF_vars(Controller) /\ WF_vars(Creator) /\ WF_vars(Panic)
    /\ WF_vars(DoAfterControlPlaneInitialized) /\ WF_vars(RequestUpgrade)
    /\ SF_vars(LetUpgradeProceed)
    /\ WF_vars(ControlPlaneInitialized) /\ WF_vars(ReleaseDownloaded)
    /\ WF_vars(CollectAddon)

FairSpec == Spec /\ Fairness
-----------------------------------------------------------------------------
(* Properties.                                                             *)

\* The variables have their types.
TypeOK ==
    /\ cluster \in [exists : BOOLEAN, class : Releases]
    /\ cp \in Nat
    /\ addon \in Object /\ base \in Object /\ mem \in Object
    /\ create \in BOOLEAN /\ initialized \in BOOLEAN /\ disturbed \in BOOLEAN
    /\ locked \in BOOLEAN /\ due \in Hooks
    /\ live \in [Objects -> Contents]
    /\ disk \subseteq Releases /\ record \subseteq Releases
    /\ pc \in {"idle", "cluster", "single", "old", "blocked", "stages", "patch", "panic"}
    /\ cls \in Releases \cup {None} /\ idx \in Nat
    /\ faults \in 0..MaxFaults /\ moves \in 0..MaxMoves

\* The objects that hook installs of a release, with stages that delete taken off.
Installs(r, hook) ==
    LET list == AddonStages(r, hook)
    IN  {o \in Objects :
          \E i \in DOMAIN list :
             /\ list[i].action = "apply" /\ o \in Chart(r, list[i].name)
             /\ \A j \in DOMAIN list :
                   j > i /\ list[j].action = "delete" => o \notin Chart(r, list[j].name)}

\* The stages of a hook bring the content of their release; of a single chart the
\* objects are there, with which content is the subject of AddonsOfClass.
UpToDate(r, hook) ==
    IF Staged(r)
    THEN \A o \in Installs(r, hook) : live[o] = AddonVersion(r)
    ELSE \A o \in WholeChart(r) : live[o] # 0

\* What the releases are like: the version of the addons identifies them, no list has a
\* stage twice, and no two objects have the same name.
SameAddons ==
    \A r, s \in Releases :
       AddonVersion(r) = AddonVersion(s) =>
          /\ Staged(r) = Staged(s) /\ Assets[r].charts = Assets[s].charts
          /\ \A h \in Hooks : AddonStages(r, h) = AddonStages(s, h)

DistinctStages ==
    \A r \in Releases, h \in Hooks : \A i, j \in DOMAIN AddonStages(r, h) :
       AddonStages(r, h)[i] = AddonStages(r, h)[j] => i = j

UniqueNames == \A o, p \in Objects : NameOf[o] = NameOf[p] => o = p

Regular == SameAddons /\ DistinctStages /\ UniqueNames

\* A ClusterAddon that says it is ready for the class of its Cluster, with no hook
\* and no failed apply to deal with, tells the truth: the addons that the installation
\* of the class, or the upgrade to it, brings are in the workload cluster with their
\* content, whatever failed or restarted between two stages, unless something happened
\* that the code has no answer to (disturbed).  Addons that only the list of the other
\* hook has are not promised: cleanUpResources removes those that the old release had.
ReadyMeansInstalled ==
    ~disturbed /\ cluster.exists /\ addon.clusterStack = cluster.class /\ addon.ready
        /\ addon.hook = None /\ addon.applied # "False"
        => UpToDate(cluster.class, due)

\* The hook server lets Cluster API upgrade the Kubernetes version of a control
\* plane only when the addons that BeforeClusterUpgrade brings with the new class are
\* in the workload cluster, unless something happened that the code has no answer to.
UpgradeGate ==
    [][~disturbed /\ cp # 0 /\ cp' # cp
          => UpToDate(cluster.class, BeforeClusterUpgrade)]_vars

\* cleanUpResources can list the objects of both releases.
HasStagesOf(old, new) ==
    \A h \in Hooks : \A s \in Range(AddonStages(new, h)) :
       s.name \in Charts(new) /\ (Staged(old) => s.name \in Charts(old))

\* Stages that the controller can take from one release to the other.
Feasible ==
    /\ Staged(cluster.class)
    /\ addon.clusterStack = None \/ HasStagesOf(addon.clusterStack, cluster.class)

\* A download of an old release has failed, and the worker waits for its mutex.
Blocked == pc = "blocked"

\* An upgrade of the Kubernetes version is not held back for ever: the controller
\* answers the request of the hook server, through failing calls, unmet conditions
\* and restarts, unless its worker is blocked by the mutex of a failed download.
UpgradeProceeds == UpgradeWanted ~> (~UpgradeWanted \/ ~Feasible \/ disturbed \/ Blocked)

\* The ClusterAddon gets ready for the class of its Cluster, with nothing left to do,
\* also when the class changes and no hook tells ("It always matches
\* cluster.spec.topology.class if the work of this controller is done"), with the same
\* exception.
AddonFollows ==
    cluster.exists ~> \/ ~cluster.exists
                      \/ /\ addon.ready /\ addon.hook = None
                         /\ addon.clusterStack = cluster.class
                      \/ Staged(cluster.class) /\ ~Feasible
                      \/ disturbed \/ Blocked

\* The finalizer does not outlive the Cluster: the ClusterAddon goes with it, unless
\* the worker is blocked.
AddonCollected == ~cluster.exists ~> (~addon.exists \/ Blocked)

\* When everything is dealt with, the workload cluster has the objects of the
\* present chart, with its content, and none that only an earlier chart had.
\* Of releases with a single chart the code does not keep this promise.
AddonsOfClass ==
    cluster.exists /\ Settled => \A o \in Objects :
       live[o] = IF o \in WholeChart(cluster.class) THEN AddonVersion(cluster.class) ELSE 0
=============================================================================
