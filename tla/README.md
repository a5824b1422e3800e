# TLA+ models of the cluster-stack-operator

The cluster-stack-operator (CSO) runs in a Kubernetes management cluster. For
every `ClusterStack` it keeps `ClusterStackRelease` objects, downloads the assets
of each release, applies the helm chart with the `ClusterClass`, and later keeps
the addons of workload clusters in step with the class they use. This directory
holds TLA+ modules that model the operator, TLC configurations that check them on
small instances, and proofs that TLAPS checks for every instance.

All paths below are relative to the repository.

## 1. Inventory

| Part | State it keeps | Operations | Hard because |
|---|---|---|---|
| ClusterStack controller (`internal/controller/clusterstack_controller.go`) | none between passes; `ClusterStack.status` | one pass: list releases, list remote, diff, delete, create, status | decides on a list it read before remote calls; a failing call ends the pass half way |
| ClusterStackRelease controller (`internal/controller/clusterstackrelease_controller.go`) | finalizer, conditions, `status.ready`, `status.resources`; the download directory; a mutex | one pass: assets, provider, apply, or delete; deferred patch | stale cache, three separate writes, partial applies, restarts that empty the directory |
| kube client (`pkg/kube`) | none; the recorded resources come from and go to the caller | `Apply`, `Delete`, and the variants for addons | some calls of many fail; what is recorded decides what is retried |
| release assets (`pkg/release`, `pkg/assetsclient`) | one directory per release | look, download asset by asset, remove | two controllers with different mutexes; nobody locks to look |
| names and versions (`pkg/clusterstack`, `pkg/version`) | none | parse, compare, print with `-` or with `.` | two spellings of one name |
| webhooks (`api/v1alpha1/*_webhook.go`) | none | admit or refuse | what they looked at changes before the request is stored; they let pass what they cannot decide |
| ClusterAddon controller (`internal/controller/clusteraddon_controller.go`) | finalizer, `spec.clusterStack`, `spec.version`, `spec.hook`, conditions, `status.ready`, `status.stages`, `status.resources` | one pass: apply one chart, or the stages of a hook one after the other; deferred patch | passes are interrupted between stages; the Cluster moves and the hook server patches meanwhile |
| ClusterAddonCreate controller | none | one ClusterAddon per Cluster | create events come again after a restart |
| hook server (`extension/hooks.go`) | a map in memory of hooks that were handled | before upgrade, after control plane initialised | retries by Cluster API, failed patches, restarts |

How they interact: the ClusterStack controller creates and deletes
ClusterStackReleases and the provider's objects through the API server; a deletion
passes the webhook first; the ClusterStackRelease controller is triggered by
changes of its object and of the provider's object, and its `status.ready` is read
by the next pass of the ClusterStack controller. Users create Clusters that name a
ClusterClass, which both controllers and the webhook read to find out what is in
use. Cluster API calls the hook server, which only patches the ClusterAddon: the next
pass of the ClusterAddon controller does the work, and the hook server reads the
condition `HelmChartApplied` to tell Cluster API whether it may go on. The ClusterAddon
controller shares the download directory. There are no calls between controllers, so
every interaction is a read of shared state that may have changed by the time of the
write.

What makes each part correct:

* ClusterStackRelease: ready means applied; what is in use is not taken away; a
  release that stays becomes ready; a deletion comes to an end and removes what was
  applied.
* ClusterStack: exactly the required releases exist once nothing changes any more;
  the last ready release is not deleted; what is in use keeps its release.
* Download: one downloader at a time; nothing half downloaded is taken for a
  release; every worker gets on.
* ClusterAddon and hooks: ready means that the addons of the class are installed;
  Kubernetes is not upgraded before; an installation or an upgrade that was interrupted
  resumes and comes to an end; the ClusterAddon goes with its Cluster.

The full list of what is hard to test, line by line, is under `hazards` in
`PROJECT.json`.

## 2. Modules

| Module | Models | EXTENDS |
|---|---|---|
| `ReleaseNames` | versions, their order, the two spellings, which parser takes which | |
| `KubeClient` | `Apply` and `Delete` of `pkg/kube` as operators on recorded lists | |
| `ClusterStackRelease` | one object, its controller, its webhook | `ReleaseNames`, `KubeClient` |
| `ClusterStack` | one ClusterStack, its releases, both controllers seen from the ClusterStack | `ReleaseNames` |
| `ReleaseContract` | abstract: what others may rely on about one release object | |
| `ReleaseDownload` | the directory of one release and the workers of two controllers | |
| `ClusterAddon` | one ClusterAddon, its controller and the one that creates it | `KubeClient` |
| `AddonUpgrade` | the ClusterAddon composed with the hook server, Cluster API, and a Cluster that moves and goes | `ClusterAddon` |
| `MC*` | values of constants for TLC | the module named |
| `ClusterStackReleaseProofs`, `ClusterStackProofs`, `ReleaseDownloadProofs`, `AddonUpgradeProofs` | theorems | the module named, `TLAPS` |
| `AddonReadyProofs` | theorems on what a ready ClusterAddon means | `AddonUpgradeProofs` |

### ClusterStackRelease

`csr` is the object in the API server, `cache` the informer's copy, `base` and
`mem` the object a pass has read and the copy it changes, `pc` the place in
`Reconcile`. `Object` keeps what the code branches on: existence, deletion
timestamp, finalizer, four conditions, `status.ready` and `status.resources`.
`disk` is the directory of the release: absent, good, or broken (metadata or charts
that `release.New` or `CheckHelmCharts` refuse). `live` is the set of objects of the
chart that exist in the cluster. `ApplyInPart` records what each object came to;
`ApplyFails` is an error that `Apply` returns on its way, with some objects applied and
none of it recorded.

There is an action per segment of `Reconcile` between two reads or writes of shared
state: `StartReconcile` (Get, patch helper, AddFinalizer), the three outcomes of
`release.New` and `CheckHelmCharts`, `Download`, the outcomes of
`updateProviderClusterStackRelease`, of `templateAndApply` and of
`reconcileDelete`, and the deferred patch. The patch helper of Cluster API writes
conditions (a three-way merge with an optimistic lock), metadata and the rest of
the status in separate calls; `PatchInPart` loses any of the subsets in
`PatchLosses`. `Patched` also lets the API server drop an object whose last
finalizer goes. Others create and delete the object (`AdmitDelete` is the webhook,
`StoreDelete` what follows it), adopt and leave its class, and work on the
provider's object. `Restart` loses the pass and empties the directory: `/tmp/downloads`
is not on a volume.

### ClusterStack

The pass is split where shared state is read or written: the list of releases with
the spec (`StartPass`), the remote repository (`ListRemote`), the Clusters
(`MakeDiff`), each deletion (webhook in `AskDelete`, storage in `StoreDelete`) and
each creation (`ProviderFor`, `GetOrCreate`). `snap` holds what the pass has read
and has still to do. The ClusterStackRelease controller appears as far as this
controller can see it: a pass on an object (`WorkStarts`) ends without or with
readiness (`WorkEnds`, `WorkEndsReady`) and may by then meet an object that is
being deleted, has gone, or is a new one of that name; `LetGo` removes the
finalizer. Status and conditions of the ClusterStack are not modelled, because no
pass reads them. `everReady`, `raced` and `restarted` are history variables for the
properties.

### ReleaseDownload

Every worker looks (`LookMissing`, `LookFound`, `LookBroken`), and if the directory
is missing locks its controller's mutex, makes the directory, and creates and copies
one asset after the other. `Fail` is `downloadReleaseAssets` after an error: remove
the directory, return; the ClusterStackRelease controller unlocks (it is deferred),
the ClusterAddon controller does not. A worker that copies into a file that another
one has removed (`unlinked`) goes on without effect, as on a POSIX file system.

### ReleaseContract

One release object as its neighbours see it: it starts not ready, becomes ready once
and only with its assets on disk, a deletion timestamp is final, only a ready release
that stays is adopted, and a release in use is let go only when its assets are missing.
Both detailed modules implement it: `ClusterStackRelease` (property `KeepsContract`)
and, for each of its releases, `ClusterStack` (`KeepsContracts`). This ties the coarse
picture of the ClusterStackRelease controller in `ClusterStack` to the detailed one.
The mapping is the identity except for the assets: a pass that has found them missing
removes the finalizer in its deferred patch, and by then somebody may have downloaded
them, so `AssetsSeen` lets assets that the pass in progress has missed count as missing
until the pass ends.

### ClusterAddon and AddonUpgrade

`cluster` is the Cluster with its class, `cp` the Kubernetes version of its control
plane, `addon` the ClusterAddon in the API server, `live` the addon version whose content
each object of the workload cluster has (0: not there), `disk` the releases that are
downloaded. A pass has a place `pc`, the class `cls` it has read, the number `idx` of
the stage it is at, and the object it has read (`base`) and changes (`mem`). `Assets`
says what a release holds: its Kubernetes and addon versions, and either one chart or,
for every hook, a list of stages with a chart each. A chart is a set of objects; the
condition of a stage is met or not.

The pass is split at its reads of shared state and at every stage. `SingleApply`,
`SingleApplyInPart` and `SingleApplyFails` are the outcomes for a release with one
chart; `PlanStages` is what happens between the download of the old release and the
first stage (which stages are pending, what is recorded already); `StageSkipped`,
`PreConditionNotMet`, `StageNotRendered`, `StageInPart`, `PostConditionNotMet` and
`StageDone` are the ways through `executeStage`; `FinishInstallation`, `FinishUpgrade`,
`CleanUpFails` and `CleanUpPanics` follow the last stage. The deferred patch is the one of
`ClusterStackRelease`, with `spec` in the second write. Where the code dereferences a
release that is not there, the pass goes to `panic`: the deferred patch runs and the
process starts anew. A download of the old release may fail (`DownloadOldFails`): the pass
returns with the mutex `locked`, the next pass that has to download waits for it
(`WaitForMutex`), and the only worker of the controller stays `blocked` until the process
is started again.

`AddonUpgrade` adds the hook server with its `record`, Cluster API, which repeats a hook
until it is answered and upgrades `cp` when it is not asked to retry, the webhook for
Clusters (`AdmitsClass`), the garbage collector and restarts. The history variable
`disturbed` marks what the code has no answer to, so that the properties can be stated
for the rest: the Cluster was moved before the last move, or its first installation, was
dealt with (`Settled`), or to a release that has an object in an earlier stage
(`MovesForward`); a patch of the hook server failed, took away a `HelmChartApplied` that
was False, or asked again for an installation whose stages are not those of an upgrade
(`InstallsAgain`); the failure of a single chart was not stored (`FailureLost`); some of
the writes of a deferred patch were lost and others were not (`PatchTorn`); a stage could
not be rendered and was left out. A move that falls into a pass is not among them: `Settled`
is about the stored ClusterAddon only.

The history variable `due` names the hook whose stages the class of the Cluster calls for:
those of `AfterControlPlaneInitialized` for the class it was created with, those of
`BeforeClusterUpgrade` after a move that changes the addons or the Kubernetes version
(`DueAfter`). The properties ask for what the stages of that hook bring: after an upgrade
`cleanUpResources` removes the objects of the old release that its list does not have, also
those that the other list of the new release has.

## 3. Runs

| Run | Instance | Result |
|---|---|---|
| `release` | two objects in the chart, a provider, all subsets of lost writes, 2 faults | `TypeOK`, `ReadyMeansApplied`, `AdoptedClassStaysApplied`, `InUseBlocksRelease`, `KeepsContract` hold |
| `release_live` | the same, assets good or broken, writes lost together, 1 fault, fair | `EventuallyReady`, `DeletionCompletes` hold |
| `stack` | two stable releases, one Cluster, 2 user steps, 1 fault | `TypeOK`, `InUseHasRelease`, `ReadyReleaseKept` hold |
| `stack_converges` | the same from three specs and two sets of published releases, 2 user steps, 1 fault, fair | `Convergence`, `KeepsContracts` hold |
| `stack_provider` | with provider objects, 2 faults, fair | `Convergence` holds |
| `download` | two workers of each controller, two assets, 2 faults, fair | `TypeOK`, `OneDownloaderPerController`, `NeverLeftPartial`, `ReleaseWorkersServed` hold |
| `addon` | a release with one chart and three with stages, two objects, all subsets of lost writes, failed downloads, 1 move, 1 fault, fair | `TypeOK`, `ReadyMeansInstalled`, `UpgradeGate`, `UpgradeProceeds`, `AddonFollows`, `AddonCollected` hold |
| `release_stuck` | `release_live` with writes lost one by one | `EventuallyReady` is violated |
| `release_orphans` | no faults at all | `ProperDeleteRemovesObjects` is violated |
| `stack_custom` | custom channel, 2 user steps, fair | `Convergence` is violated |
| `download_mutex_leak` | one worker of each controller, 1 fault, fair | `EveryWorkerServed` is violated |
| `addon_version` | two releases with one chart each, 1 move, no faults | `AddonsOfClass` is violated |

What the passing runs show:

* `release`: neither a stale cache nor lost writes, refused objects or restarts make a
  release ready that is not applied, or take away what is adopted; the object keeps
  its contract.
* `release_live`: a release becomes ready unless its assets are broken on disk, and a
  deletion completes even then.
* `stack`, `stack_converges`, `stack_provider`: the pass decides on what it has read
  before; all the same what is in use keeps its release, a ready release stays, and the
  releases converge to the required ones, with and without a provider.
* `download`: each mutex keeps the workers of its controller apart; nothing partial is
  left although the two controllers do not exclude each other.
* `addon`: a ClusterAddon that is ready for the class of its Cluster has what the
  installation of the class, or the upgrade to it, brings (`ReadyMeansInstalled`); the hook
  server does not let Kubernetes be upgraded before the stages of `BeforeClusterUpgrade`
  have brought theirs (`UpgradeGate`), and does in the end (`UpgradeProceeds`); the
  ClusterAddon follows a Cluster that moves, with no hook left to deal with
  (`AddonFollows`), and goes with it (`AddonCollected`). The first two hold unless the
  history is `disturbed`; the last three moreover unless the worker is blocked by the mutex
  of a failed download (`Blocked`), the bug that `download_mutex_leak` shows, and
  `UpgradeProceeds` and `AddonFollows` for stages that the controller can take from one
  release to the other (`Feasible`). The fault may be a failing call, a condition that is
  not met, a lost patch or answer, a panic or a restart, at any point. Deadlock is not
  checked in this run, because nothing is left to do once the Cluster and its ClusterAddon
  are gone.

What the violations show, with the sentence of the repository they contradict under
`findings` in `PROJECT.json`:

* `release_stuck`: the write of the conditions succeeds and that of the rest of the
  status is lost. `HelmChartApplied` is then True, every later pass returns before
  `status.ready = true`, and the release never becomes ready.
* `release_orphans`: `kube.Delete` skips what is recorded as synced, so deleting a
  release that was applied removes nothing.
* `stack_custom`: with versions such as `v0-sha.abc` the name of a ClusterClass (with
  a dot) never equals that of the release (with a dash). A release in use is put on
  the list of deletions, the webhook, which compares versions, refuses, and the pass
  ends before it creates what is missing. In the stable channel the same instance
  converges.
* `download_mutex_leak`: a failed download in `downloadOldClusterStackRelease`
  returns with the mutex locked.
* `addon_version`: `kube.Apply` does nothing for an object whose name is recorded as
  synced, and the record survives the move to another chart. An upgrade of a single
  chart therefore changes no object that the old chart had.

### Bounds, and why they are enough

* `MaxFaults` bounds failing calls and restarts in a behaviour, `MaxUserSteps` what
  users and publishers do. One fault is enough to put the system into any of the half
  done states; two let a fault meet the recovery from another one. Passes are not
  bounded.
* Two releases are the least for which "the latest", "the latest that is ready" and
  "in use" can be different releases, and one Cluster is enough to be in use late. Two
  user steps make a release obsolete and adopt it, or delete it by hand. In `stack` and
  `stack_provider` every spec and every set of published releases is an initial state. In
  `stack_converges`, whose liveness check is the most expensive one, users follow the
  newest release, ask for one or for both (`SomeSpecs`), and the older release is out from
  the beginning (`SomeRemotes`): obsolete, used, latest and missing releases all occur.
* Two objects in a chart are enough for an apply or a deletion that is half done.
* Two workers of each controller and two assets are enough for a download to be
  overtaken, removed and restarted half way.
* `MaxMoves` bounds the changes of the class in `AddonUpgrade`. The four releases of
  `addon` are one with a single chart, one that installs the network plugin and upgrades
  the storage driver, one that deletes and has a stage the others do not know, and one
  with a new Kubernetes version that drops an object: one move covers every way from one
  kind of release to another, with and without the hook. Two objects are enough for a
  stage that is done and one that is not. Failed downloads of an old release need no bound:
  there is one per life of the process, and a download is only needed after a restart.

### Assumptions about the environment

* A user adopts a release only while it is ready and not being deleted. The webhook for
  Clusters does not enforce it: it admits with a warning what it cannot check
  (`cluster_webhook.go:129-136`).
* The Clusters are read as they are. `getUsedClusterClasses` (`utils.go:29`) reads them
  from the informer cache, which may be behind by a moment.
* In `ClusterStack` the look at the Clusters and the removal of the finalizer are one step
  (`LetGo`); `ClusterStackRelease` has them apart. The releases to create are a set, so the
  release that `makeDiff` lists twice appears as a `Create` that fails (`CallFails`).
* The charts of stages have an `overwrite.yaml`; without it
  `clusteraddon_controller.go:1021` does not render the chart of the old release.
* One worker per controller in `ClusterStack` (the default of the concurrency flags in
  `cmd/main.go`); `ReleaseDownload` has several.
* Staleness of the informer cache is modelled in `ClusterStackRelease`; in
  `ClusterStack` it appears as an early snapshot and as a `Create` that fails because
  the object exists already.
* All releases of a ClusterStack are of one channel. `os.RemoveAll` is atomic.
* In `AddonUpgrade` the informer cache is up to date, and the hook server reads and patches
  the ClusterAddon in one step. Cluster API (external) calls the hook for upgrades
  only after the control plane is initialised, and not for a Cluster that has gone.

### Fairness

* `WF` on the controllers: controller-runtime puts an object back into the queue after
  every change, error and requested delay, and at the latest after the resync period.
  Faults are part of the controllers' actions, but bounded.
* `WF` on `CacheSync`, on stored deletions and on the provider: informers catch up,
  the API server answers, and the provider's controller does its work.
* `SF` on `LetGo(v)`: the queue is first in first out, so the only worker comes back to
  every object although it is busy with others in between.
* `SF` on `Lock(w)`: a Go mutex switches to handing over to the longest waiter after a
  millisecond.
* In `AddonUpgrade`: `WF` on the controllers as above, on `Panic` (Kubernetes starts the
  process again), on the hooks (Cluster API repeats them until they are answered), and on
  what Cluster API, the ClusterStackRelease controller and the garbage collector have to
  do. `SF` on `LetUpgradeProceed`: the hook is repeated every 10 seconds, and a pass may
  take `HelmChartApplied` away between two calls, but not for good.
* No fairness for users, and none for a release becoming ready in `ClusterStack`:
  `Convergence` holds however many releases never do. It is stated for behaviours in
  which readiness settles, because `getLatestReadyClusterStackRelease` does not look
  at deletion timestamps: a release that becomes ready again and again just while it is
  being deleted is created again every time.

## 4. Theorems

Proved by TLAPS for every value of the constants:

| Theorem | Statement | Rests on |
|---|---|---|
| `ClusterStackReleaseProofs!TypeCorrect` | `Spec => []TypeOK` | named assumptions on the constants |
| `ReadyIsApplied` | `Spec => []ReadyMeansApplied` | `UniqueNames`: no two objects of the chart share namespace and name |
| `InUseIsKept` | `Spec => InUseBlocksRelease` | `IsStable(Release)` |
| `AdoptedIsApplied` | `Spec => []AdoptedClassStaysApplied` | both |
| `ContractIsKept` | `Spec => KeepsContract` | `IsStable(Release)` |
| `ClusterStackProofs!TypeCorrect` | `Spec => []TypeOK` | named assumptions on the constants |
| `InUseKeepsRelease` | `Spec => []InUseHasRelease` | `AllStable`: all releases are of the stable channel |
| `ReadyReleaseStays` | `Spec => []ReadyReleaseKept` | `AllStable` |
| `ContractsAreKept` | `Spec => KeepsContracts` | `AllStable` |
| `ReleaseDownloadProofs!TypeCorrect` | `Spec => []TypeOK` | named assumptions on the constants |
| `OneDownloads` | `Spec => []OneDownloaderPerController` | the same |
| `NothingPartial` | `Spec => []NeverLeftPartial` | the same |
| `AddonUpgradeProofs!TypeCorrect` | `Spec => []TypeOK` | named assumptions on the constants |
| `AddonReadyProofs!AddonSound` | `Spec => []IInv` | `Regular` |
| `ReadyIsInstalled` | `Spec => []ReadyMeansInstalled` | `Regular` |
| `UpgradeIsGated` | `Spec => UpgradeGate` | `Regular` |

The hypotheses are needed. Without `UniqueNames`, `getResourceMap` lets one object
answer for another, and without `IsStable` the comparison of names in
`reconcileDelete` never matches. The assumptions on the constants are the ones TLC
evaluates in the runs; the only one that is more than typing is `NewestAssumption` of
`ClusterStack`: every nonempty set of releases has one that none of them is newer than
(true of every finite set of versions of one channel).

`Regular` of `AddonUpgrade` says what the releases are like, and TLC evaluates it
on every instance (`RegularInstance` in `MCAddonUpgrade`):

* `SameAddons`: two releases with one addon version have the same charts and stages. The
  controller compares nothing but the version (`clusteraddon_controller.go:235`), and does
  nothing when it stayed;
* `DistinctStages`: no hook has one stage twice, because `status.stages` finds a phase by
  the name and the action of the stage;
* `UniqueNames`, as above.

Nothing is assumed of the writes that are lost, of moves and of downloads; what the code has
no answer to is in `disturbed`, which both properties name.

`ReadyMeansApplied` is not inductive: a pass that still carries `ready` in its copy
may write it later, a pass that deletes may be overtaken, and a patch computed from a
stale copy may land on a new object of the same name. The invariant `IInv` says what
makes this safe:

* `PassKnowsDeletion`: the places `checkInUse` and `delete` are only reached with a
  deletion timestamp in the copy;
* `DeletingPassIsMute`: such a pass never changes `ready` or the resources;
* `DeletionIsLate`: if a pass has seen the timestamp, the stored object and the cached
  one either have it too or are fresh objects without a status;
* `CopiesAreSound` (with unique names): in every copy that is not being deleted,
  everything recorded as synced is in the cluster, and `ready` means all of it.

`InUseIsKept` adds `UseIsChecked`: the finalizer is only off in the copy of a pass
that is about to write and has found the release unused, and nobody adopts a release
that is being deleted. `ContractIsKept` adds `ReadyIsEarned`: a pass that sets
`status.ready` does so at its end and with the assets on disk. The refinement is then
shown action by action: most steps stutter, the deferred patch is `BecomeReady` or
`LetGo` or nothing.

In `ClusterStack`, `InUseHasRelease` rests on `UseIsSafe`: ready releases have the
finalizer, and until a restart those in use are ready and have their assets, so only a
pass that looks at the Clusters could let one go. `ReadyReleaseKept` rests on
`NewestIsSafe` and `ReadIsReady`: the newest ready release is not being deleted, the
newest that the pass has read as ready is still ready and stays, and the newest one is
not among those that the pass has decided to delete. That the newest is unique
(`NewestIsUnique`) is where one channel is used. Since a release may become ready while
the pass decides, none of the parts is inductive without the others.

`OneDownloads` rests on `DownloaderHolds`: whoever downloads holds the mutex of his
controller. `NothingPartial` rests on `Covered`: every asset that is missing in the
directory is still to be written by some worker whose file has not been removed, and on
`NothingLeft`, which says what a removed directory means for the workers that are still
writing. `AddonUpgradeProofs!TypeCorrect` needs `PassHasClass`: a pass that has read the
Cluster works for a class, and in the stages for a hook.

`ReadyMeansInstalled` is far from inductive: the controller sets `ready` long after it has
applied the first stage, in another pass or after a restart, and relies on phases, a
version and a class that were written by different passes, while the hook server patches
the same object. `IInv` of `AddonReadyProofs` says of the stored ClusterAddon
(`StoreSound`) and of the copy of the pass (`PassSound`, `PassKnows`), as long as nothing
disturbs:

* `Fits`: the recorded class is the present one, or one with the Kubernetes version of the
  control plane from which no object moves forward; the recorded version is that of the
  recorded class or already that of the present one;
* `Due`: the stages that are due are those of the hook that is asked for; those of the first
  installation are due until the class asks for other addons or another Kubernetes version;
* `StagesSound` with `PhasesTrue`: a stage that is recorded as executed came after every
  stage before it, and the objects it applied have the content of the present release
  (those that a later stage of the list does not delete). This survives a stage that is
  executed a second time and the deletions of a stage, because of `MovesForward`: an
  object that a stage takes away is not one that an earlier stage has applied;
* `Quiet`: if the record leaves nothing to do for the present class, the addons that are
  due are installed and it says ready;
* `SingleSound`: what is recorded as synced of a single chart is there, and the version of
  the class is recorded either with a complete chart or with a `HelmChartApplied` that is
  False;
* `ReadBefore` and `PassFits`: what the hook server may have changed since the pass has
  read, and what the pass may have changed in its copy. Together they say what the
  three-way merge of the deferred patch can make of both, and `Sound` of the stored
  object follows (lemmas on `Patched`);
* `InStages`: how far the pass has come, so that a pass that ends early records nothing
  that is not true;
* `Done`: a pass that has read a ClusterAddon with nothing left to do for the class it works
  for changes nothing. So a Cluster may move during a pass: the stored ClusterAddon is
  settled then, and either the pass has read it so or the merge of its patch keeps it;
* `Progress` and `Gate`: the record of the hook server, the control plane and the class
  are in order, and while an upgrade is held back `HelmChartApplied` is True only when the
  addons of the new class are there. `UpgradeGate` is one step from it.

TLC checked `IInv` on small families of releases with random charts and stages before it
was proved. Two of the exceptions in `disturbed` (`InstallsAgain` and `FailureLost`) come
from counterexamples to induction that TLC then showed to be behaviours of the model; see
the observations.

Only model-checked: everything with fairness (`EventuallyReady`, `DeletionCompletes`,
`Convergence`, `ReleaseWorkersServed`, `UpgradeProceeds`, `AddonFollows`,
`AddonCollected`), because liveness is out of the prover's reach. Every safety property
that a passing run checks is a theorem.

## 5. Observations without a run of their own

Met while modelling; each is visible in the lines named:

* Condition `ReleasesSynced` is True also after a listing that failed
  (`clusterstack_controller.go:140-149`), and `ClusterStackReleaseAvailable` is never
  False (`:228-231`).
* A release that becomes ready between the list at the start of the pass and its
  deletion is deleted, although it is the latest that is ready (`:104`, `:166`). The
  history variable `raced` marks these behaviours in `ReadyReleaseKept`.
* In the custom channel the latest ready release is not recognised either (`:542`), nor
  is a release in use in `reconcileDelete` (`clusterstackrelease_controller.go:221`).
* `makeDiff` looks for what to keep among the releases that exist (`:460-512`). A release in
  use that is not required otherwise and has lost its object after a restart is never
  created again; `Converged` therefore asks of the releases in use only that the existing
  ones stay.
* A failed listing makes the pass delete the newest release if it is not ready yet; the
  next pass creates it again.
* After a restart a release with a deletion timestamp loses its finalizer before anyone
  looks at the Clusters (`clusterstackrelease_controller.go:94`): `InUseHasRelease` is
  stated for behaviours without restart and `InUseBlocksRelease` has the exception.
* The mutexes of the two controllers do not exclude each other
  (`clusteraddon_controller.go:977`), and a look at the directory may find the last
  asset still being written.
* `kube.Apply` records a failed deletion as not synced "to be able to retry deletion"
  (`kube.go:233`), but only synced entries are ever deleted.
* Upgrades of addons, all in `clusteraddon_controller.go`:
  - `spec.version` is recorded before the stages run (`:385`). After an interruption of an
    upgrade within one Kubernetes version the next pass sees a new class with the addon
    version it has recorded itself: it sets `spec.clusterStack` and reports ready, with
    `spec.hook` still set. The pass after that starts the stages again, now with the new
    release as the old one, so objects that only the old release had stay.
    `ReadyMeansInstalled` is therefore stated for a ClusterAddon without a hook.
  - While the phases of one release are in progress, a Cluster that moves on finds them
    under the same names and takes them for its own.
  - A stage that cannot be rendered returns neither requeue nor error, and the loop goes
    on with the next stage.
  - `ApplyNewClusterStack` compares the old and the new chart of one stage (`kube.go:112`):
    an object that the new release has in an earlier stage is applied there and then
    deleted by the stage that used to have it, and the ClusterAddon reports ready.
  - A stage the old release does not have makes `getOldReleaseObjects` fail in every
    pass: the upgrade never ends (`Feasible` excludes it).
  - `downloadOldClusterStackRelease` returns no release and no error the first time the
    assets client cannot be created, and when the old charts are damaged; `Reconcile`
    dereferences the release (`:341`). An upgrade hook before the first installation
    ends in a panic in the same way.
  - `removeResourcesFromCurrentListOfObjects` compares pointers and removes nothing, and
    `SetStageAnnotations` never replaces a value.
  - A pass of the first installation that is about to write takes a request for an
    upgrade away that the hook server has just stored; the record then keeps the hook
    server from asking again.
  - The deferred patch (`:124`) loses the status of a completed installation and writes its
    spec. The next pass is not ready and finds the Kubernetes version unchanged, so it goes
    through the stages of `BeforeClusterUpgrade`; `status.stages` is empty, no stage matches
    a case, the clean-up takes the objects away that only the installation has, and the
    ClusterAddon says ready (`PatchTorn` in `disturbed` excludes it).
  - An upgrade executes the stages of `BeforeClusterUpgrade` of the new release and then
    removes what the old release had and these stages have not (`:518-657`). A Cluster that
    moves to a release with two different lists therefore has other addons than one that is
    created with it: in the instance of `addon` a Cluster that moves to `r1` loses the network
    plugin that `r1` installs. `ReadyMeansInstalled` asks for the list of the hook due.
  - A failed download of the old release (`:980`) leaves the mutex locked. The next pass
    that has to download blocks the only worker, so no ClusterAddon is reconciled any more,
    until the process is started again.
  - The comment at `:231` says that `spec.clusterStack` is only set after the objects have
    been applied; a partial apply of a single chart sets it too.
* The hook server (`extension/hooks.go`):
  - it records a hook as handled although its patch failed (`:88`), and the next call
    sees `HelmChartApplied` of the old release: the upgrade proceeds early;
  - a failed patch in `DoAfterControlPlaneInitialized` is answered with success, and the
    addons are never installed;
  - it deletes `HelmChartApplied` also when it is False: with a single chart a failed
    apply is then never repeated;
  - with a single chart nothing sets the condition again after an upgrade hook if the
    addon version is the same: Cluster API is asked to retry for ever (`UpgradeProceeds` is
    stated for releases with stages);
  - the deletion of `HelmChartApplied` (`:81`) may also fall into a pass that has applied a
    single chart of a new class in part: the "False" of the pass conflicts with it in the
    patch helper and is dropped, the new class and version are stored, and no later pass
    repeats the apply;
  - if its answer to `AfterControlPlaneInitialized` gets lost and the call is repeated after the
    installation, the pass executes the stages of `BeforeClusterUpgrade`
    (`clusteraddon_controller.go:393`), but `cleanUpResources` looks at those of
    `AfterControlPlaneInitialized` (`:594`). With different lists, as in
    `test/releases/cluster-stacks/docker-ferrol-1-27-v0-sha-hipstsw/clusteraddon.yaml`, the
    phases of one list answer for the other and the ClusterAddon may say ready without
    its addons;
  - the loss of the record in a restart does no harm: the hook is stored once more and
    the stages are executed once more.

## 6. Plan

1. Done: `ReleaseNames`, `KubeClient`, `ClusterStackRelease`, `ClusterStack`,
   `ReleaseDownload`, `ClusterAddon`, `AddonUpgrade`, the abstract specification
   `ReleaseContract` with both refinements, their runs, and the theorems above.
2. Done: `ReadyMeansInstalled` and `UpgradeGate` as theorems (`AddonReadyProofs`).
3. Next: the sort of versions of mixed channels against a reference order, and the creation
   checks of the webhooks.

## 7. Not modelled

* The OCI client: it fails and cleans up in the same places as the GitHub client, which
  is modelled.
* Mixed channels in one ClusterStack.
* What the webhooks check on creation, `ValidateDelete` of the ClusterStack, and the
  ClusterAddon webhook, which checks fields that only the controllers write.
* Of the Cluster webhook, that the version fits the release and that provider and name
  stay: a class is one value in the model.
* Staleness of the informer cache for ClusterAddons.
* The status of a ClusterStack, which no pass reads.
* Flags and start-up, credentials, REST mappings and labels: pure I/O or wiring; deep
  copies, mocks and fakes: generated or test code.
