---------------------------- MODULE ClusterStack ----------------------------
(***************************************************************************)
(* One ClusterStack object, its controller, and the ClusterStackReleases   *)
(* it creates and deletes                                                  *)
(* (src/internal/controller/clusterstack_controller.go and the webhook of  *)
(* ClusterStackRelease).                                                   *)
(*                                                                         *)
(* A pass of the controller lists the releases, asks the remote repository *)
(* for the newest one, looks at the Clusters, computes what to create and  *)
(* what to delete, and then issues the API calls one after the other.      *)
(* Between its steps users change the spec, adopt and leave releases and   *)
(* delete them by hand, new releases are published, and the controller of  *)
(* ClusterStackRelease (module ClusterStackRelease, here as far as the     *)
(* ClusterStack controller can see it) makes releases ready and lets       *)
(* deleted ones go.                                                        *)
(***************************************************************************)
EXTENDS ReleaseNames, FiniteSets

CONSTANTS
    Releases,     \* versions of this cluster stack, all of its channel
    Clusters,     \* Cluster objects of the namespace
    NoProvider,   \* spec.noProvider
    Specs,        \* what users may write into spec.versions and spec.autoSubscribe
    Remotes,      \* what the remote repository may hold at the beginning
    MaxUserSteps, \* bound on the steps of users and publishers
    MaxFaults     \* bound on failing calls and restarts

ASSUME ClusterStackAssumption ==
    /\ Releases \subseteq Version
    /\ \A v, w \in Releases : v.channel = w.channel
    /\ NoProvider \in BOOLEAN
    /\ Specs \subseteq [versions : SUBSET Releases, auto : BOOLEAN]
    /\ Remotes \subseteq SUBSET Releases
    /\ MaxUserSteps \in Nat /\ MaxFaults \in Nat

\* Some of these releases have a newest one among them, as any finite set has.
ASSUME NewestAssumption ==
    \A S \in SUBSET Releases : S # {} => \E v \in S : \A w \in S : ~Less(v, w)

VARIABLES
    spec,       \* spec.versions and spec.autoSubscribe
    remote,     \* the releases in the remote repository
    class,      \* for every Cluster the release of its class, as a set of at most one
    exists, deleting, held, ready,
                \* the ClusterStackReleases: stored, with a deletion timestamp, with
                \* their finalizer, with status.ready
    provider,   \* the provider's objects, by release
    working,    \* releases on which the other controller is in the middle of a pass
    assets,     \* releases whose assets are in the download directory
    asked,      \* deletions asked for by users that passed the webhook
    pc, snap,   \* the pass of this controller and what it has read
    everReady,  \* history: some release was ready and not being deleted
    raced,      \* history: a release became ready after its deletion was decided, or a
                \* user deleted a ready one
    restarted,  \* history: the operator was restarted
    userSteps, faults

objects == <<exists, deleting, held, ready>>
history == <<everReady, raced, restarted>>
others == <<working, assets>>
counters == <<userSteps, faults>>
vars == <<spec, remote, class, objects, provider, others, asked, pc, snap, history, counters>>

NoSnap ==
    [existing |-> {}, ready |-> {}, versions |-> {}, latest |-> {},
     toDelete |-> {}, toCreate |-> {}, now |-> {}]

Init ==
    /\ spec \in Specs
    /\ remote \in Remotes
    /\ class = [c \in Clusters |-> {}]
    /\ exists = {} /\ deleting = {} /\ held = {} /\ ready = {}
    /\ provider = {}
    /\ working = {} /\ assets = {}
    /\ asked = {}
    /\ pc = "idle" /\ snap = NoSnap
    /\ everReady = FALSE /\ raced = FALSE /\ restarted = FALSE
    /\ userSteps = 0 /\ faults = 0

CountFault == faults < MaxFaults /\ faults' = faults + 1
CountUserStep == userSteps < MaxUserSteps /\ userSteps' = userSteps + 1

Fault == CountFault /\ UNCHANGED userSteps
UserStep == CountUserStep /\ UNCHANGED faults

Used == UNION {class[c] : c \in Clusters}

\* getClustersUsingClusterStackRelease parses both names, each with the parser of
\* its spelling, and compares the versions.
WebhookSeesUse(v) ==
    /\ ParsesAsRelease(String(v))
    /\ v \in {w \in Used : ParsesAsClusterClass(StringWithDot(w))}

\* ValidateDelete admits with a warning when it cannot find out.
WebhookAdmits(v) ==
    \/ ~WebhookSeesUse(v) /\ UNCHANGED faults
    \/ WebhookSeesUse(v) /\ CountFault

\* The stored effect of a deletion: at once without finalizer, else a timestamp.
Delete(v) ==
    IF v \in held
    THEN deleting' = deleting \cup {v} /\ UNCHANGED <<exists, held, ready>>
    ELSE exists' = exists \ {v} /\ deleting' = deleting \ {v} /\ ready' = ready \ {v} /\ UNCHANGED held

-----------------------------------------------------------------------------
(* The pass.                                                               *)

EndPass == pc' = "idle" /\ snap' = NoSnap

\* Get the ClusterStack, getExistingClusterStackReleases.
StartPass ==
    /\ pc = "idle"
    /\ snap' = [NoSnap EXCEPT !.existing = exists, !.ready = ready, !.versions = spec.versions]
    /\ pc' = IF spec.auto THEN "list" ELSE "diff"
    /\ UNCHANGED <<spec, remote, class, objects, provider, others, asked, history, counters>>

\* getLatestReleaseFromRemoteRepository.
ListRemote ==
    /\ pc = "list"
    /\ snap' = [snap EXCEPT !.latest = IF remote = {} THEN {} ELSE {Latest(remote)}]
    /\ pc' = "diff"
    /\ UNCHANGED <<spec, remote, class, objects, provider, others, asked, history, counters>>

\* ListRelease fails: the pass goes on without a latest release.
ListRemoteFails ==
    /\ pc = "list" /\ Fault
    /\ pc' = "diff"
    /\ UNCHANGED <<spec, remote, class, objects, provider, others, asked, snap, history>>

\* No assets client: the pass ends.
NoAssetsClient ==
    /\ pc = "list" /\ Fault
    /\ EndPass
    /\ UNCHANGED <<spec, remote, class, objects, provider, others, asked, history>>

\* No release is looked up that is ready.
NoLatestReady(S) == {}

\* getLatestReadyClusterStackRelease returns the name written with a dot.
LatestReady(S) == IF S = {} THEN {} ELSE {StringWithDot(Latest(S))}

\* Whatever exists is kept.
KeepAll(v) == TRUE

\* makeDiff compares names: what exists is named with "-", as are the latest
\* release and the ones in spec; Clusters name a ClusterClass, with ".".
Keep(v) ==
    String(v) \in {String(w) : w \in snap.latest \cup snap.versions}
                    \cup LatestReady(snap.ready) \cup {StringWithDot(w) : w \in Used}

\* The latest release is forgotten in what is to be created.
MakeDiffWithoutLatest ==
    /\ pc = "diff"
    /\ LET kept == {v \in snap.existing : Keep(v)}
       IN  snap' = [NoSnap EXCEPT !.toDelete = snap.existing \ kept,
                                  !.toCreate = kept \cup snap.versions,
                                  !.ready = snap.ready \ kept]
    /\ pc' = "delete"
    /\ UNCHANGED <<spec, remote, class, objects, provider, others, asked, history, counters>>

MakeDiff ==
    /\ pc = "diff"
    /\ LET kept == {v \in snap.existing : Keep(v)}
       IN  snap' = [NoSnap EXCEPT !.toDelete = snap.existing \ kept,
                                  !.toCreate = kept \cup snap.latest \cup snap.versions,
                                  !.ready = snap.ready \ kept]
    /\ pc' = "delete"
    /\ UNCHANGED <<spec, remote, class, objects, provider, others, asked, history, counters>>

\* One deletion reaches the webhook; a refusal ends the pass with an error.
AskDelete(v) ==
    /\ pc = "delete" /\ v \in snap.toDelete
    /\ \/ /\ IF v \in exists THEN WebhookAdmits(v) ELSE UNCHANGED faults
          /\ pc' = "store" /\ snap' = [snap EXCEPT !.toDelete = @ \ {v}, !.now = {v}]
       \/ /\ v \in exists /\ WebhookSeesUse(v)
          /\ EndPass /\ UNCHANGED faults
    /\ UNCHANGED <<spec, remote, class, objects, provider, others, asked, history,
                   userSteps>>

\* It is stored; NotFound is ignored.
StoreDelete ==
    /\ pc = "store"
    /\ \E v \in snap.now : IF v \in exists THEN Delete(v) ELSE UNCHANGED objects
    /\ raced' = (raced \/ snap.now \cap (ready \ snap.ready) # {})
    /\ pc' = "delete" /\ snap' = [snap EXCEPT !.now = {}, !.ready = @ \ snap.now]
    /\ UNCHANGED <<spec, remote, class, provider, others, asked, everReady, restarted, counters>>

DeletionsDone ==
    /\ pc = "delete" /\ snap.toDelete = {}
    /\ pc' = "create"
    /\ UNCHANGED <<spec, remote, class, objects, provider, others, asked, snap, history, counters>>

\* createOrUpdateProviderClusterStackRelease, then getOrCreateClusterStackRelease.
ProviderFor(v) ==
    /\ pc = "create" /\ v \in snap.toCreate
    /\ provider' = IF NoProvider THEN provider ELSE provider \cup {v}
    /\ snap' = [snap EXCEPT !.toCreate = @ \ {v}, !.now = {v}]
    /\ pc' = "getOrCreate"
    /\ UNCHANGED <<spec, remote, class, objects, others, asked, history, counters>>

GetOrCreate ==
    /\ pc = "getOrCreate"
    /\ exists' = exists \cup snap.now
    /\ pc' = "create" /\ snap' = [snap EXCEPT !.now = {}]
    /\ UNCHANGED <<spec, remote, class, deleting, held, ready, provider, others, asked, history, counters>>

\* The list of Clusters or a call on an object fails, or Create says AlreadyExists because the cache was
\* behind: the pass ends.
CallFails ==
    /\ pc \in {"diff", "delete", "create", "getOrCreate"} /\ Fault
    /\ pc = "delete" => snap.toDelete # {}
    /\ pc = "create" => snap.toCreate # {}
    /\ EndPass
    /\ UNCHANGED <<spec, remote, class, objects, provider, others, asked, history>>

\* The conditions and the status of the ClusterStack, which no later pass reads.
FinishPass ==
    /\ pc = "create" /\ snap.toCreate = {}
    /\ EndPass
    /\ UNCHANGED <<spec, remote, class, objects, provider, others, asked, history, counters>>

Pass ==
    \/ StartPass
    \/ ListRemote \/ ListRemoteFails \/ NoAssetsClient
    \/ MakeDiff
    \/ \E v \in Releases : AskDelete(v) \/ ProviderFor(v)
    \/ StoreDelete \/ DeletionsDone
    \/ GetOrCreate \/ CallFails \/ FinishPass

-----------------------------------------------------------------------------
(* The controller of ClusterStackRelease.                                  *)

\* It reads an object that is not being deleted.
WorkStarts(v) ==
    /\ working = {} /\ v \in exists \ deleting
    /\ working' = {v}
    /\ UNCHANGED <<spec, remote, class, objects, provider, assets, asked, pc, snap, history, counters>>

\* A pass that writes an object that has gone.
WorkEndsAnyway(v) ==
    /\ v \in working
    /\ working' = working \ {v}
    /\ assets' \in {assets, assets \cup {v}}
    /\ held' = held \cup {v}
    /\ UNCHANGED <<spec, remote, class, exists, deleting, ready, provider, asked, pc, snap, history, counters>>

\* The pass has downloaded the assets, or not come far for another reason; its
\* patch adds the finalizer.  By now the object may be on its way out, gone, or
\* another one of that name.
WorkEnds(v) ==
    /\ v \in working
    /\ working' = working \ {v}
    /\ assets' \in {assets, assets \cup {v}}
    /\ held' = held \cup ({v} \cap exists)
    /\ UNCHANGED <<spec, remote, class, exists, deleting, ready, provider, asked, pc, snap, history, counters>>

\* Mutant: ready without a look at the assets.
WorkEndsReadyAnyway(v) ==
    /\ v \in working \cap exists
    /\ NoProvider \/ v \in provider
    /\ working' = working \ {v}
    /\ held' = held \cup {v}
    /\ ready' = ready \cup {v}
    /\ everReady' = (everReady \/ v \notin deleting)
    /\ raced' = (raced \/ v \in deleting)
    /\ UNCHANGED <<spec, remote, class, exists, deleting, provider, assets, asked, pc, snap, restarted, counters>>

\* The pass has applied everything; its patch also sets status.ready.
WorkEndsReady(v) ==
    /\ v \in working \cap assets \cap exists
    /\ NoProvider \/ v \in provider
    /\ working' = working \ {v}
    /\ held' = held \cup {v}
    /\ ready' = ready \cup {v}
    /\ everReady' = (everReady \/ v \notin deleting)
    /\ raced' = (raced \/ v \in deleting)
    /\ UNCHANGED <<spec, remote, class, exists, deleting, provider, assets, asked, pc, snap, restarted, counters>>

\* No look at the Clusters.
NeverSeenInUse(v) == FALSE

\* reconcileDelete compares the name of the release with names of ClusterClasses.
SeenInUse(v) == String(v) \in {StringWithDot(w) : w \in Used}

\* A pass on an object with a deletion timestamp removes the finalizer: after
\* reconcileDelete, or straight away if the assets are not on disk.
LetGo(v) ==
    /\ working = {} /\ v \in exists \cap deleting
    /\ v \in assets => ~SeenInUse(v)
    /\ exists' = exists \ {v} /\ deleting' = deleting \ {v}
    /\ held' = held \ {v} /\ ready' = ready \ {v}
    /\ assets' \in {assets, assets \cup {v}}
    /\ UNCHANGED <<spec, remote, class, provider, working, asked, pc, snap, history, counters>>

\* The operator is restarted: passes in progress and downloads are lost.
Restart ==
    /\ Fault
    /\ restarted' = TRUE
    /\ EndPass
    /\ working' = {} /\ assets' = {}
    /\ UNCHANGED <<spec, remote, class, objects, provider, asked, everReady, raced>>

-----------------------------------------------------------------------------
(* Users, publishers, and the garbage collector.                           *)

\* spec.versions and spec.autoSubscribe may change; the other fields are
\* immutable (ValidateUpdate).
ChangeSpec ==
    /\ UserStep
    /\ \E new \in Specs : new # spec /\ spec' = new
    /\ UNCHANGED <<remote, class, objects, provider, others, asked, pc, snap, history>>

Publish(v) ==
    /\ UserStep
    /\ v \notin remote
    /\ remote' = remote \cup {v}
    /\ UNCHANGED <<spec, class, objects, provider, others, asked, pc, snap, history>>

\* A Cluster is created with, or moved to, a release that is ready to use.
Adopt(c, v) ==
    /\ UserStep
    /\ v \in ready \ deleting /\ class[c] # {v}
    /\ class' = [class EXCEPT ![c] = {v}]
    /\ UNCHANGED <<spec, remote, objects, provider, others, asked, pc, snap, history>>

Leave(c) ==
    /\ UserStep
    /\ class[c] # {}
    /\ class' = [class EXCEPT ![c] = {}]
    /\ UNCHANGED <<spec, remote, objects, provider, others, asked, pc, snap, history>>

\* A user deletes a ClusterStackRelease by hand: webhook, then storage.
UserAsksDelete(v) ==
    /\ CountUserStep
    /\ asked = {} /\ v \in exists /\ WebhookAdmits(v)
    /\ asked' = {v}
    /\ UNCHANGED <<spec, remote, class, objects, provider, others, pc, snap, history>>

UserDeletes(v) ==
    /\ v \in asked
    /\ asked' = asked \ {v}
    /\ IF v \in exists THEN Delete(v) ELSE UNCHANGED objects
    /\ raced' = (raced \/ v \in ready)
    /\ UNCHANGED <<spec, remote, class, provider, others, pc, snap, everReady, restarted, counters>>

ProviderCollected(v) ==
    /\ v \in provider \ exists
    /\ provider' = provider \ {v}
    /\ UNCHANGED <<spec, remote, class, objects, others, asked, pc, snap, history, counters>>

Others ==
    \/ ChangeSpec
    \/ \E v \in Releases : Publish(v) \/ UserAsksDelete(v)
    \/ \E c \in Clusters : Leave(c) \/ \E v \in Releases : Adopt(c, v)

Next ==
    \/ Pass
    \/ \E v \in Releases :
          \/ WorkStarts(v) \/ WorkEnds(v) \/ WorkEndsReady(v) \/ LetGo(v)
          \/ UserDeletes(v) \/ ProviderCollected(v)
    \/ Restart
    \/ Others

Spec == Init /\ [][Next]_vars

\* Resync makes a pass start again and again, and both controllers finish what
\* they started; the workqueue is first in first out, so the one worker of the
\* other controller comes back to every object; nobody promises that a release
\* ever becomes ready.
Fairness ==
    /\ WF_vars(Pass)
    /\ \A v \in Releases :
          /\ WF_vars(WorkEnds(v) \/ WorkEndsReady(v))
          /\ SF_vars(LetGo(v))
          /\ WF_vars(UserDeletes(v))

FairSpec == Spec /\ Fairness
-----------------------------------------------------------------------------
(* Properties.                                                             *)

\* Every variable has its type; deletion and readiness belong to stored objects.
TypeOK ==
    /\ spec \in [versions : SUBSET Releases, auto : BOOLEAN]
    /\ remote \subseteq Releases /\ provider \subseteq Releases /\ working \subseteq Releases
    /\ assets \subseteq Releases /\ asked \subseteq Releases
    /\ class \in [Clusters -> SUBSET Releases]
    /\ exists \subseteq Releases /\ deleting \subseteq exists /\ ready \subseteq exists
    /\ held \subseteq exists
    /\ snap \in [existing : SUBSET Releases, ready : SUBSET Releases, versions : SUBSET Releases,
                 latest : SUBSET Releases, toDelete : SUBSET Releases,
                 toCreate : SUBSET Releases, now : SUBSET Releases]
    /\ pc \in {"idle", "list", "diff", "delete", "store", "create", "getOrCreate"}
    /\ everReady \in BOOLEAN /\ raced \in BOOLEAN /\ restarted \in BOOLEAN
    /\ userSteps \in 0..MaxUserSteps /\ faults \in 0..MaxFaults

\* A release that a Cluster uses keeps its object as long as the downloads are
\* not lost, although the pass decides on Clusters it has read before, and the
\* webhook on Clusters that change before the deletion is stored (makeDiff,
\* ValidateDelete, reconcileDelete).
InUseHasRelease == ~restarted => Used \subseteq exists

\* Once a release was ready there is always one that is ready and stays, over any
\* number of passes, spec changes, failed listings and new releases (makeDiff with
\* getLatestReadyClusterStackRelease), unless a user deletes it or the release
\* became ready only after the pass had decided on its deletion.
ReadyReleaseKept == everReady /\ ~raced => ready \ deleting # {}

Contract(v) ==
    INSTANCE ReleaseContract WITH
        exists <- v \in exists, deleting <- v \in deleting, ready <- v \in ready,
        assets <- v \in assets, used <- v \in Used

\* In the stable channel the steps of all controllers, users and restarts together
\* keep the contract of each release, the one that module ClusterStackRelease is
\* shown to implement.
KeepsContracts ==
    /\ \A v \in Releases : Contract(v)!Init
    /\ [][\A v \in Releases : [Contract(v)!Next]_(Contract(v)!vars)]_vars

\* What the controller should have brought about when nothing changes any more.  A
\* release in use is kept, but makeDiff creates none that a restart has cost its
\* object (InUseHasRelease); a timestamp that came too late stays on a release in use.
Required ==
    spec.versions \cup (Used \cap exists)
       \cup (IF spec.auto /\ remote # {} THEN {Latest(remote)} ELSE {})
       \cup (IF ready = {} THEN {} ELSE {Latest(ready)})

Converged ==
    /\ exists = Required /\ deleting \subseteq Used
    /\ NoProvider \/ Required \subseteq provider

\* "for every release that should exist, there is actually one", and those "not
\* required anymore" are deleted (Reconcile of ClusterStack), once users, faults
\* and restarts leave the system alone and no release becomes ready any more.
Convergence == <>[][FALSE]_ready => <>[]Converged
=============================================================================
