------------------------ MODULE ClusterStackRelease ------------------------
(***************************************************************************)
(* One ClusterStackRelease object and the controller that downloads the    *)
(* release, waits for the provider, applies the chart of the ClusterClass  *)
(* and cleans up on deletion                                               *)
(* (src/internal/controller/clusterstackrelease_controller.go).            *)
(*                                                                         *)
(* The object lives in the API server (csr).  The controller reads it from *)
(* an informer cache that may lag behind (cache), works on a copy (mem),   *)
(* and writes the difference to what it read (base) at the end of the      *)
(* pass, in three separate API calls.  Everybody else works meanwhile: the *)
(* ClusterStack controller creates the object and asks for its deletion,   *)
(* users adopt and leave the ClusterClass, the provider controller sets    *)
(* its own object ready, and the process may be restarted, which empties   *)
(* the download directory of its container.                                *)
(***************************************************************************)
EXTENDS ReleaseNames, KubeClient, FiniteSets

CONSTANTS
    Release,      \* the version this object stands for
    NoProvider,   \* spec.providerRef is nil
    Published,    \* what a download may yield: "good", or "broken" assets
    PatchLosses,  \* which of the three writes of a pass a fault may lose together
    MaxFaults     \* bound on failing calls and restarts in a behaviour

Parts == {"conditions", "metadata", "status"}

ASSUME ReleaseAssumption ==
    /\ Release \in Version
    /\ NoProvider \in BOOLEAN
    /\ Published \subseteq {"good", "broken"} /\ Published # {}
    /\ PatchLosses \subseteq SUBSET Parts
    /\ MaxFaults \in Nat

VARIABLES
    csr,        \* the object in the API server
    cache,      \* the object in the informer cache
    base, mem,  \* what the pass has read, and its working copy
    pc,         \* where the pass is
    disk,       \* the release's directory below the download directory
    provider,   \* the provider's own release object
    live,       \* the objects of the chart that exist in the cluster
    used,       \* whether a Cluster refers to the ClusterClass of the release
    admitted,   \* a deletion has passed the webhook and is not stored yet
    faults      \* faults so far

world == <<provider, used, admitted>>
vars == <<csr, cache, base, mem, pc, disk, live, world, faults>>

Conds == {"AssetsClient", "AssetsReady", "ProviderReady", "HelmChartApplied"}

Object ==
    [exists : BOOLEAN, deleting : BOOLEAN, finalizer : BOOLEAN,
     cond : [Conds -> {"Unknown", "True", "False"}],
     ready : BOOLEAN, resources : Resources]

Disk == {"absent", "good", "broken"}

Absent ==
    [exists |-> FALSE, deleting |-> FALSE, finalizer |-> FALSE,
     cond |-> [c \in Conds |-> "Unknown"], ready |-> FALSE, resources |-> NoResources]

Created == [Absent EXCEPT !.exists = TRUE]

Init ==
    /\ csr = Absent /\ cache = Absent /\ base = Absent /\ mem = Absent
    /\ pc = "idle"
    /\ disk = "absent"
    /\ provider = "missing"
    /\ live = {}
    /\ used = FALSE
    /\ admitted = FALSE
    /\ faults = 0

Fault == faults < MaxFaults /\ faults' = faults + 1

Mark(cond, value) == mem' = [mem EXCEPT !.cond[cond] = value]

-----------------------------------------------------------------------------
(* The pass of the controller.                                             *)

\* A pass that does not return when the object is not found.
StartReconcileAnyway ==
    /\ pc = "idle"
    /\ base' = cache
    /\ mem' = [cache EXCEPT !.finalizer = TRUE]
    /\ pc' = "assets"
    /\ UNCHANGED <<csr, cache, disk, live, world, faults>>

\* Get from the cache, NewHelper, AddFinalizer on the copy.
StartReconcile ==
    /\ pc = "idle"
    /\ cache.exists
    /\ base' = cache
    /\ mem' = [cache EXCEPT !.finalizer = TRUE]
    /\ pc' = "assets"
    /\ UNCHANGED <<csr, cache, disk, live, world, faults>>

\* release.New says that the directory does not exist.
AssetsMissing ==
    /\ pc = "assets" /\ disk = "absent"
    /\ Mark("AssetsReady", "False")
    /\ pc' = "download"
    /\ UNCHANGED <<csr, cache, base, disk, live, world, faults>>

\* release.New cannot read or validate the metadata, or CheckHelmCharts does
\* not find the charts; neither downloads again.
AssetsBroken ==
    /\ pc = "assets" /\ disk = "broken"
    /\ Mark("AssetsReady", "False")
    /\ pc' = "patch"
    /\ UNCHANGED <<csr, cache, base, disk, live, world, faults>>

AssetsFound ==
    /\ pc = "assets" /\ disk = "good"
    /\ Mark("AssetsReady", "True")
    /\ pc' = IF mem.deleting THEN "checkInUse" ELSE "provider"
    /\ UNCHANGED <<csr, cache, base, disk, live, world, faults>>

\* Download under the mutex; the next pass looks at what it yielded.
Download ==
    /\ pc = "download"
    /\ Mark("AssetsClient", "True")
    /\ disk' \in Published
    /\ pc' = "patch"
    /\ UNCHANGED <<csr, cache, base, live, world, faults>>

\* No assets client, or the download fails and the directory is removed.
DownloadFails ==
    /\ pc = "download" /\ Fault
    /\ \E client \in {"True", "False"} : Mark("AssetsClient", client)
    /\ disk' = "absent"
    /\ pc' = "patch"
    /\ UNCHANGED <<csr, cache, base, live, world>>

\* A condition that is there in whatever state.
AppliedOrTried == mem.cond["HelmChartApplied"] # "Unknown"

AppliedAlready == mem.cond["HelmChartApplied"] = "True"

\* updateProviderClusterStackRelease returns ready, or there is no provider.
ProviderDone ==
    /\ pc = "provider"
    /\ NoProvider \/ provider = "ready"
    /\ Mark("ProviderReady", "True")
    /\ pc' = IF AppliedAlready THEN "patch" ELSE "apply"
    /\ UNCHANGED <<csr, cache, base, disk, live, world, faults>>

ProviderNotReady ==
    /\ pc = "provider" /\ ~NoProvider /\ provider = "notReady"
    /\ Mark("ProviderReady", "False")
    /\ pc' = "patch"
    /\ UNCHANGED <<csr, cache, base, disk, live, world, faults>>

\* The provider object does not exist, or a call on it fails: the pass ends
\* with an error and no condition changes.
ProviderMissing ==
    /\ pc = "provider" /\ ~NoProvider
    /\ \/ provider = "missing" /\ UNCHANGED faults
       \/ provider # "missing" /\ Fault
    /\ pc' = "patch"
    /\ UNCHANGED <<csr, cache, base, mem, disk, live, world>>

\* templateAndApply in which every call succeeds.
Apply ==
    /\ pc = "apply"
    /\ mem' = [mem EXCEPT
                 !.resources = AppliedResources(Objects, mem.resources, {}, {}, {}),
                 !.cond["HelmChartApplied"] = "True",
                 !.ready = TRUE]
    /\ live' = LiveAfterApply(Objects, mem.resources, {}, {}, {}, live)
    /\ pc' = "patch"
    /\ UNCHANGED <<csr, cache, base, disk, world, faults>>

\* Some objects have no REST mapping yet or are refused: requeue.
ApplyInPart ==
    /\ pc = "apply" /\ Fault
    /\ \E noMapping, refused \in SUBSET ToApply(Objects, mem.resources) :
          /\ noMapping \cup refused # {}
          /\ ApplyRequeues(Objects, mem.resources, noMapping, refused, {})
          /\ mem' = [mem EXCEPT
                       !.resources = AppliedResources(Objects, mem.resources, noMapping, refused, {}),
                       !.cond["HelmChartApplied"] = "False"]
          /\ live' = LiveAfterApply(Objects, mem.resources, noMapping, refused, {}, live)
    /\ pc' = "patch"
    /\ UNCHANGED <<csr, cache, base, disk, world>>

\* helm template fails (no condition), or Apply returns an error (condition) on its way
\* through the objects: nothing of what it did is recorded.
ApplyFails ==
    /\ pc = "apply" /\ Fault
    /\ \/ UNCHANGED <<mem, live>>
       \/ /\ Mark("HelmChartApplied", "False")
          /\ \E applied \in SUBSET ToApply(Objects, mem.resources) : live' = live \cup applied
    /\ pc' = "patch"
    /\ UNCHANGED <<csr, cache, base, disk, world>>

\* No look at the Clusters.
NeverSeenInUse == FALSE

\* getUsedClusterClasses gives names of ClusterClasses, which reconcileDelete
\* compares with the name of the ClusterStackRelease.
SeenInUse == used /\ StringWithDot(Release) = String(Release)

CheckInUse ==
    /\ pc = "checkInUse"
    /\ pc' = IF SeenInUse THEN "patch" ELSE "delete"
    /\ UNCHANGED <<csr, cache, base, mem, disk, live, world, faults>>

\* Every object of the chart that Delete does not skip goes, and the finalizer.
DeleteObjects ==
    /\ pc = "delete"
    /\ live' = live \ ToDelete(Objects, mem.resources)
    /\ mem' = [mem EXCEPT !.finalizer = FALSE]
    /\ pc' = "patch"
    /\ UNCHANGED <<csr, cache, base, disk, world, faults>>

\* Listing the Clusters, rendering the chart or one of the deletions fails.
DeleteObjectsFails ==
    /\ pc \in {"checkInUse", "delete"} /\ Fault
    /\ \/ UNCHANGED live
       \/ pc = "delete" /\ \E f \in ToDelete(Objects, mem.resources) :
             live' = live \ DeletedBefore(Objects, mem.resources, f)
    /\ pc' = "patch"
    /\ UNCHANGED <<csr, cache, base, mem, disk, world>>

-----------------------------------------------------------------------------
(* The deferred patch: conditions (three-way merge on the object the cache *)
(* holds, with an optimistic lock), metadata, then the rest of the status; *)
(* an error in one of them does not stop the others.                       *)

\* No special case for missing assets.
FinalizerKept == mem.finalizer

FinalizerAfter ==
    mem.finalizer /\ ~(mem.deleting /\ mem.cond["AssetsReady"] = "False")

ConditionsMerge ==
    /\ cache = csr
    /\ \A c \in Conds : mem.cond[c] # base.cond[c] => csr.cond[c] \in {base.cond[c], mem.cond[c]}

\* Mutant: the copy is written back as it is.
Overwritten(before, after, stored) == after

Changed(before, after, stored) == IF after # before THEN after ELSE stored

\* The stored object after the writes in parts.
Patched(parts) ==
    LET cond == IF "conditions" \in parts
                THEN [c \in Conds |-> Changed(base.cond[c], mem.cond[c], csr.cond[c])]
                ELSE csr.cond
        finalizer == IF "metadata" \in parts
                     THEN Changed(base.finalizer, FinalizerAfter, csr.finalizer)
                     ELSE csr.finalizer
        ready == IF "status" \in parts
                 THEN Changed(base.ready, mem.ready, csr.ready) ELSE csr.ready
        resources == IF "status" \in parts
                     THEN Changed(base.resources, mem.resources, csr.resources) ELSE csr.resources
    IN  IF csr.deleting /\ ~finalizer
        THEN Absent
        ELSE [csr EXCEPT !.cond = cond, !.finalizer = finalizer,
                         !.ready = ready, !.resources = resources]

EndPass ==
    /\ pc' = "idle"
    /\ base' = Absent /\ mem' = Absent
    /\ UNCHANGED <<cache, disk, live, world>>

Patch ==
    /\ pc = "patch" /\ csr.exists
    /\ csr' = Patched(IF ConditionsMerge THEN Parts ELSE Parts \ {"conditions"})
    /\ EndPass
    /\ UNCHANGED faults

PatchInPart ==
    /\ pc = "patch" /\ csr.exists /\ Fault
    /\ \E lost \in PatchLosses :
          /\ lost # {}
          /\ csr' = Patched((IF ConditionsMerge THEN Parts ELSE Parts \ {"conditions"}) \ lost)
    /\ EndPass

\* The object has gone: every write is answered with NotFound.
PatchNotFound ==
    /\ pc = "patch" /\ ~csr.exists
    /\ EndPass
    /\ UNCHANGED <<csr, faults>>

Controller ==
    \/ StartReconcile
    \/ AssetsMissing \/ AssetsBroken \/ AssetsFound
    \/ Download \/ DownloadFails
    \/ ProviderDone \/ ProviderNotReady \/ ProviderMissing
    \/ Apply \/ ApplyInPart \/ ApplyFails
    \/ CheckInUse \/ DeleteObjects \/ DeleteObjectsFails
    \/ Patch \/ PatchInPart \/ PatchNotFound

-----------------------------------------------------------------------------
(* Everybody else.                                                         *)

\* The informer delivers the present object, possibly skipping older ones.
CacheSync ==
    /\ cache # csr
    /\ cache' = csr
    /\ UNCHANGED <<csr, base, mem, pc, disk, live, world, faults>>

\* getOrCreateClusterStackRelease of the ClusterStack controller.
Create ==
    /\ ~csr.exists
    /\ csr' = Created
    /\ UNCHANGED <<cache, base, mem, pc, disk, live, world, faults>>

\* getClustersUsingClusterStackRelease parses both names, each with the parser of
\* its spelling, and compares the versions.
WebhookSeesUse ==
    /\ used
    /\ ParsesAsClusterClass(StringWithDot(Release)) /\ ParsesAsRelease(String(Release))

\* ValidateDelete of the webhook.  If it cannot find out (a list fails, or the
\* class of some Cluster does not parse) it warns and lets the deletion pass.
AdmitDelete ==
    /\ csr.exists /\ ~csr.deleting /\ ~admitted
    /\ \/ ~WebhookSeesUse /\ UNCHANGED faults
       \/ WebhookSeesUse /\ Fault
    /\ admitted' = TRUE
    /\ UNCHANGED <<csr, cache, base, mem, pc, disk, live, provider, used>>

\* The API server stores the deletion: at once, or a timestamp if a finalizer
\* is there.
StoreDelete ==
    /\ admitted
    /\ admitted' = FALSE
    /\ csr' = IF csr.finalizer THEN [csr EXCEPT !.deleting = TRUE] ELSE Absent
    /\ UNCHANGED <<cache, base, mem, pc, disk, live, provider, used, faults>>

\* A user creates a Cluster with the class of a release that is ready.
Adopt ==
    /\ csr.exists /\ csr.ready /\ ~csr.deleting /\ ~used
    /\ used' = TRUE
    /\ UNCHANGED <<csr, cache, base, mem, pc, disk, live, provider, admitted, faults>>

Leave ==
    /\ used
    /\ used' = FALSE
    /\ UNCHANGED <<csr, cache, base, mem, pc, disk, live, provider, admitted, faults>>

\* The ClusterStack controller creates the provider object; the provider's
\* controller makes it ready.
ProviderCreated ==
    /\ ~NoProvider /\ provider = "missing"
    /\ provider' = "notReady"
    /\ UNCHANGED <<csr, cache, base, mem, pc, disk, live, used, admitted, faults>>

ProviderBecomesReady ==
    /\ provider = "notReady"
    /\ provider' = "ready"
    /\ UNCHANGED <<csr, cache, base, mem, pc, disk, live, used, admitted, faults>>

\* Its owner has gone, and the garbage collector removes it.
ProviderCollected ==
    /\ ~csr.exists /\ provider # "missing"
    /\ provider' = "missing"
    /\ UNCHANGED <<csr, cache, base, mem, pc, disk, live, used, admitted, faults>>

\* The container is replaced: the pass and the downloads are lost, the cache
\* is listed anew.
Restart ==
    /\ Fault
    /\ pc' = "idle" /\ base' = Absent /\ mem' = Absent
    /\ disk' = "absent"
    /\ cache' = csr
    /\ UNCHANGED <<csr, live, world>>

Environment ==
    \/ CacheSync
    \/ Create \/ AdmitDelete \/ StoreDelete
    \/ Adopt \/ Leave
    \/ ProviderCreated \/ ProviderBecomesReady \/ ProviderCollected
    \/ Restart

Next == Controller \/ Environment

Spec == Init /\ [][Next]_vars

\* The workqueue hands the object to the worker again after every change, every
\* error and at the latest after the resync period, so a pass always starts and
\* goes on; informers catch up; the provider does its work.
Fairness ==
    /\ WF_vars(Controller)
    /\ WF_vars(CacheSync)
    /\ WF_vars(StoreDelete)
    /\ WF_vars(ProviderCreated) /\ WF_vars(ProviderBecomesReady)

FairSpec == Spec /\ Fairness
-----------------------------------------------------------------------------
(* Properties.                                                             *)

\* Every variable has its type, and a pass in progress has a working copy of an
\* object that did exist.
TypeOK ==
    /\ csr \in Object /\ cache \in Object /\ base \in Object /\ mem \in Object
    /\ pc \in {"idle", "assets", "download", "provider", "apply", "checkInUse", "delete", "patch"}
    /\ disk \in Disk
    /\ provider \in {"missing", "notReady", "ready"}
    /\ live \subseteq Objects
    /\ used \in BOOLEAN /\ admitted \in BOOLEAN
    /\ faults \in 0..MaxFaults
    /\ pc # "idle" => base.exists /\ mem.exists

\* A release that reports status.ready and is not being deleted has every object
\* of its chart in the cluster, whatever was lost, retried, restarted or read
\* from a stale cache on the way (templateAndApply and kube.Apply).
ReadyMeansApplied ==
    csr.exists /\ ~csr.deleting /\ csr.ready => Objects \subseteq live

\* Once a Cluster uses the ClusterClass of a release that was ready, the operator
\* removes none of its objects, although a deletion may be admitted just before
\* the Cluster appears and the object may be deleted and created again.
AdoptedClassStaysApplied == used => Objects \subseteq live

\* reconcileDelete does not let a release go that a Cluster uses; the one
\* documented exception is a release whose assets are not on disk.
InUseBlocksRelease ==
    [][csr.exists /\ csr.deleting /\ used /\ ~csr'.exists
          => mem.cond["AssetsReady"] = "False"]_vars

\* When the assets are there, a "proper reconcileDelete" is performed: a release
\* object that goes leaves nothing of its chart behind (kube.Delete).
ProperDeleteRemovesObjects ==
    [][csr.exists /\ csr.deleting /\ ~csr'.exists /\ mem.cond["AssetsReady"] = "True"
          => live = {}]_vars

\* Assets that the pass in progress has missed count as missing until it ends.
AssetsSeen == disk = "good" /\ ~(pc = "patch" /\ mem.cond["AssetsReady"] = "False")

Contract ==
    INSTANCE ReleaseContract WITH
        exists <- csr.exists, deleting <- csr.deleting, ready <- csr.ready, assets <- AssetsSeen

\* In the stable channel the controller keeps the contract of a release, over stale
\* caches, merges and lost writes: status.ready is set only with the assets on disk
\* and never taken back, a deletion timestamp is final, and a release in use is let
\* go only when its assets are missing.
KeepsContract == Contract!Spec

\* A release object that stays becomes ready: failed downloads, a provider that
\* is late, objects applied only in part and restarts are all retried.  Assets
\* that are broken on disk are the exception: they are not downloaded again.
EventuallyReady ==
    csr.exists /\ ~csr.deleting ~>
        csr.ready \/ csr.deleting \/ ~csr.exists \/ disk = "broken"

\* A deletion that was stored comes to an end unless a Cluster uses the release,
\* also with assets that are broken or missing.
DeletionCompletes == csr.deleting ~> ~csr.deleting \/ used
=============================================================================
