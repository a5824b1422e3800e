------------------------- MODULE ClusterStackProofs -------------------------
(***************************************************************************)
(* Theorems about ClusterStack, for any set of releases and Clusters and   *)
(* any number of user steps and faults: the variables keep their types,    *)
(* and in the stable channel a release in use keeps its object until a     *)
(* restart, a ready release stays, and all steps together keep the         *)
(* contract of each single release.                                        *)
(*                                                                         *)
(* A release in use is safe because it stays ready, ready ones have the    *)
(* finalizer, and only a pass that looks at the Clusters takes it off      *)
(* (UseIsSafe).  That some release stays ready rests on the newest one:    *)
(* a pass decides with the newest it has read, and what has become ready   *)
(* since is newer or is not known to the pass as ready (NewestIsSafe).     *)
(***************************************************************************)
EXTENDS ClusterStack, TLAPS

-----------------------------------------------------------------------------
(* Type correctness.                                                       *)

Snaps ==
    [existing : SUBSET Releases, ready : SUBSET Releases, versions : SUBSET Releases,
     latest : SUBSET Releases, toDelete : SUBSET Releases,
     toCreate : SUBSET Releases, now : SUBSET Releases]

\* What the pass remembers before it has read anything is well typed.
LEMMA NoSnapType == NoSnap \in Snaps
  BY DEF NoSnap, Snaps

\* The newest of some releases is one of them, and none of them is newer.
LEMMA LatestIsNewest ==
    ASSUME NEW S \in SUBSET Releases, S # {}
    PROVE  Latest(S) \in S /\ \A w \in S : ~Less(Latest(S), w)
  <1>1. \E v \in S : \A w \in S : ~Less(v, w)
    BY NewestAssumption
  <1> QED
    BY <1>1 DEF Latest

\* A deletion, at once or with a timestamp, keeps the objects well typed.
LEMMA DeleteType ==
    ASSUME TypeOK, NEW v \in Releases, Delete(v)
    PROVE  /\ exists' \subseteq Releases /\ deleting' \subseteq exists'
           /\ ready' \subseteq exists' /\ held' \subseteq exists'
  BY DEF TypeOK, Delete

\* Every step keeps the types; one case for each action.
LEMMA TypeStep == TypeOK /\ [Next]_vars => TypeOK'
  <1> SUFFICES ASSUME TypeOK, [Next]_vars PROVE TypeOK'
    OBVIOUS
  <1> USE ClusterStackAssumption
  <1>0. snap \in Snaps
    BY DEF TypeOK, Snaps
  <1>1. CASE StartPass
    <2>1. snap' \in Snaps
      BY <1>1 DEF StartPass, TypeOK, NoSnap, Snaps
    <2> QED
      BY <1>1, <2>1 DEF StartPass, TypeOK, Snaps, objects, others, history, counters
  <1>2. CASE ListRemote
    <2>1. snap' \in Snaps
      BY <1>0, <1>2, LatestIsNewest DEF ListRemote, TypeOK, Snaps
    <2> QED
      BY <1>2, <2>1 DEF ListRemote, TypeOK, Snaps, objects, others, history, counters
  <1>3. CASE ListRemoteFails
    BY <1>3 DEF ListRemoteFails, Fault, CountFault, TypeOK, objects, others, history
  <1>4. CASE NoAssetsClient \/ CallFails
    BY <1>4, NoSnapType
    DEF NoAssetsClient, CallFails, EndPass, Fault, CountFault, TypeOK, Snaps, objects, others,
        history
  <1>5. CASE MakeDiff
    <2>1. snap' \in Snaps
      BY <1>0, <1>5 DEF MakeDiff, NoSnap, Snaps
    <2> QED
      BY <1>5, <2>1 DEF MakeDiff, TypeOK, Snaps, objects, others, history, counters
  <1>6. ASSUME NEW v \in Releases, AskDelete(v) PROVE TypeOK'
    <2>1. snap' \in Snaps
      <3>1. CASE snap' = [snap EXCEPT !.toDelete = @ \ {v}, !.now = {v}]
        BY <1>0, <3>1 DEF Snaps
      <3> QED
        BY <1>6, <3>1, NoSnapType DEF AskDelete, EndPass
    <2>2. faults' \in 0..MaxFaults
      BY <1>6 DEF AskDelete, WebhookAdmits, CountFault, TypeOK
    <2>3. pc' \in {"store", "idle"}
      BY <1>6 DEF AskDelete, EndPass
    <2> QED
      BY <1>6, <2>1, <2>2, <2>3 DEF AskDelete, TypeOK, Snaps, objects, others, history
  <1>7. CASE StoreDelete
    <2>1. snap' \in Snaps
      BY <1>0, <1>7 DEF StoreDelete, Snaps
    <2>2. /\ exists' \subseteq Releases /\ deleting' \subseteq exists'
          /\ ready' \subseteq exists' /\ held' \subseteq exists'
      BY <1>0, <1>7, DeleteType DEF StoreDelete, TypeOK, Snaps, objects
    <2>3. raced' \in BOOLEAN
      BY <1>7 DEF StoreDelete
    <2> QED
      BY <1>7, <2>1, <2>2, <2>3 DEF StoreDelete, TypeOK, Snaps, others, counters
  <1>8. CASE DeletionsDone
    BY <1>8 DEF DeletionsDone, TypeOK, objects, others, history, counters
  <1>9. ASSUME NEW v \in Releases, ProviderFor(v) PROVE TypeOK'
    <2>1. snap' \in Snaps
      BY <1>0, <1>9 DEF ProviderFor, Snaps
    <2> QED
      BY <1>9, <2>1 DEF ProviderFor, TypeOK, Snaps, objects, others, history, counters
  <1>10. CASE GetOrCreate
    <2>1. snap' \in Snaps /\ snap.now \subseteq Releases
      BY <1>0, <1>10 DEF GetOrCreate, Snaps
    <2> QED
      BY <1>10, <2>1 DEF GetOrCreate, TypeOK, Snaps, others, history, counters
  <1>11. CASE FinishPass
    BY <1>11, NoSnapType
    DEF FinishPass, EndPass, TypeOK, Snaps, objects, others, history, counters
  <1>12. ASSUME NEW v \in Releases, WorkStarts(v) \/ WorkEnds(v) PROVE TypeOK'
    BY <1>12 DEF WorkStarts, WorkEnds, TypeOK, objects, history, counters
  <1>13. ASSUME NEW v \in Releases, WorkEndsReady(v) PROVE TypeOK'
    BY <1>13 DEF WorkEndsReady, TypeOK, counters
  <1>14. ASSUME NEW v \in Releases, LetGo(v) PROVE TypeOK'
    BY <1>14 DEF LetGo, TypeOK, history, counters
  <1>15. CASE Restart
    BY <1>15, NoSnapType DEF Restart, EndPass, Fault, CountFault, TypeOK, Snaps, objects
  <1>16. CASE ChangeSpec
    BY <1>16 DEF ChangeSpec, UserStep, CountUserStep, TypeOK, objects, others, history
  <1>17. ASSUME NEW v \in Releases, Publish(v) PROVE TypeOK'
    BY <1>17 DEF Publish, UserStep, CountUserStep, TypeOK, objects, others, history
  <1>18. ASSUME NEW c \in Clusters, NEW v \in Releases, Adopt(c, v) PROVE TypeOK'
    BY <1>18 DEF Adopt, UserStep, CountUserStep, TypeOK, objects, others, history
  <1>19. ASSUME NEW c \in Clusters, Leave(c) PROVE TypeOK'
    BY <1>19 DEF Leave, UserStep, CountUserStep, TypeOK, objects, others, history
  <1>20. ASSUME NEW v \in Releases, UserAsksDelete(v) PROVE TypeOK'
    BY <1>20 DEF UserAsksDelete, CountUserStep, WebhookAdmits, CountFault, TypeOK, objects,
                 others, history
  <1>21. ASSUME NEW v \in Releases, UserDeletes(v) PROVE TypeOK'
    <2>1. /\ exists' \subseteq Releases /\ deleting' \subseteq exists'
          /\ ready' \subseteq exists' /\ held' \subseteq exists'
      BY <1>21, DeleteType DEF UserDeletes, TypeOK, objects
    <2>2. raced' \in BOOLEAN
      BY <1>21 DEF UserDeletes
    <2> QED
      BY <1>21, <2>1, <2>2 DEF UserDeletes, TypeOK, others, counters
  <1>22. ASSUME NEW v \in Releases, ProviderCollected(v) PROVE TypeOK'
    BY <1>22 DEF ProviderCollected, TypeOK, objects, others, history, counters
  <1>23. CASE UNCHANGED vars
    BY <1>23 DEF vars, TypeOK, objects, others, history, counters
  <1> QED
    BY <1>1, <1>2, <1>3, <1>4, <1>5, <1>6, <1>7, <1>8, <1>9, <1>10, <1>11, <1>12, <1>13,
       <1>14, <1>15, <1>16, <1>17, <1>18, <1>19, <1>20, <1>21, <1>22, <1>23
       DEF Next, Pass, Others

\* The initial states are well typed.
LEMMA TypeInit == Init => TypeOK
  <1> SUFFICES ASSUME Init PROVE TypeOK
    OBVIOUS
  <1>1. snap \in Snaps
    BY NoSnapType DEF Init
  <1>2. userSteps \in 0..MaxUserSteps /\ faults \in 0..MaxFaults
    BY ClusterStackAssumption DEF Init
  <1>3. class \in [Clusters -> SUBSET Releases]
    BY DEF Init
  <1>4. spec \in [versions : SUBSET Releases, auto : BOOLEAN] /\ remote \in SUBSET Releases
    BY ClusterStackAssumption DEF Init
  <1> QED
    BY <1>1, <1>2, <1>3, <1>4 DEF Init, TypeOK, Snaps

\* The ClusterStack, its releases and the pass of its controller keep their types;
\* only stored releases are ready, held by a finalizer or being deleted.
THEOREM TypeCorrect == Spec => []TypeOK
  BY TypeInit, TypeStep, PTL DEF Spec

-----------------------------------------------------------------------------
(* A release in use keeps its object.                                      *)

\* All releases are of the stable channel.
AllStable == \A v \in Releases : IsStable(v)

\* A ready release has the finalizer, and until a restart its assets are on disk; a
\* release in use stays ready, because it takes a pass that has looked at the
\* Clusters to let it go.
UseIsSafe ==
    /\ ready \subseteq held
    /\ ~restarted => ready \subseteq assets /\ Used \subseteq ready

\* In the stable channel reconcileDelete recognises the class of a Cluster.
LEMMA StableIsSeen ==
    ASSUME AllStable, NEW v \in Releases
    PROVE  v \in Used => SeenInUse(v)
  BY DEF AllStable, SeenInUse, String, StringWithDot

\* A step of anybody that leaves use and readiness alone.
LEMMA UnusedStep ==
    ASSUME UseIsSafe, UNCHANGED <<ready, class>>, held \subseteq held', assets \subseteq assets',
           restarted' = restarted
    PROVE  UseIsSafe'
  BY DEF UseIsSafe, Used

\* A deletion of an object that has the finalizer if it is ready.
LEMMA DeleteIsSafe ==
    ASSUME UseIsSafe, NEW v, Delete(v), UNCHANGED <<class, assets, restarted>>
    PROVE  UseIsSafe'
  BY DEF UseIsSafe, Delete, Used

\* Every step keeps ready releases held, and releases in use ready.
LEMMA UseStep == AllStable /\ TypeOK /\ UseIsSafe /\ [Next]_vars => UseIsSafe'
  <1> SUFFICES ASSUME AllStable, TypeOK, UseIsSafe, [Next]_vars PROVE UseIsSafe'
    OBVIOUS
  <1>1. CASE StartPass \/ ListRemote \/ ListRemoteFails \/ NoAssetsClient \/ MakeDiff
               \/ DeletionsDone \/ GetOrCreate \/ CallFails \/ FinishPass
    BY <1>1, UnusedStep
    DEF StartPass, ListRemote, ListRemoteFails, NoAssetsClient, MakeDiff, DeletionsDone,
        GetOrCreate, CallFails, FinishPass, objects, others, history
  <1>2. ASSUME NEW v \in Releases,
               AskDelete(v) \/ ProviderFor(v) \/ WorkStarts(v) \/ WorkEnds(v)
                 \/ ProviderCollected(v) \/ Publish(v) \/ UserAsksDelete(v)
        PROVE  UseIsSafe'
    BY <1>2, UnusedStep
    DEF AskDelete, ProviderFor, WorkStarts, WorkEnds, ProviderCollected, Publish,
        UserAsksDelete, objects, others, history
  <1>3. CASE StoreDelete
    BY <1>3, UnusedStep, DeleteIsSafe DEF StoreDelete, objects, others
  <1>4. ASSUME NEW v \in Releases, UserDeletes(v) PROVE UseIsSafe'
    BY <1>4, UnusedStep, DeleteIsSafe DEF UserDeletes, objects, others
  <1>5. ASSUME NEW v \in Releases, WorkEndsReady(v) PROVE UseIsSafe'
    BY <1>5 DEF WorkEndsReady, UseIsSafe, Used
  <1>6. ASSUME NEW v \in Releases, LetGo(v) PROVE UseIsSafe'
    <2>1. /\ held' = held \ {v} /\ ready' = ready \ {v}
          /\ assets \subseteq assets' /\ Used' = Used /\ restarted' = restarted
          /\ v \in assets => ~SeenInUse(v)
      BY <1>6 DEF LetGo, history, Used
    <2>2. v \in assets => v \notin Used
      BY <2>1, StableIsSeen
    <2> QED
      BY <2>1, <2>2 DEF UseIsSafe
  <1>7. CASE Restart
    BY <1>7 DEF Restart, UseIsSafe, objects
  <1>8. CASE ChangeSpec
    BY <1>8, UnusedStep DEF ChangeSpec, objects, others, history
  <1>9. ASSUME NEW c \in Clusters, NEW v \in Releases, Adopt(c, v) PROVE UseIsSafe'
    BY <1>9 DEF Adopt, UseIsSafe, Used, TypeOK, objects, others, history
  <1>10. ASSUME NEW c \in Clusters, Leave(c) PROVE UseIsSafe'
    BY <1>10 DEF Leave, UseIsSafe, Used, TypeOK, objects, others, history
  <1>11. CASE UNCHANGED vars
    BY <1>11, UnusedStep DEF vars, objects, others, history
  <1> QED
    BY <1>1, <1>2, <1>3, <1>4, <1>5, <1>6, <1>7, <1>8, <1>9, <1>10, <1>11
    DEF Next, Pass, Others

\* In the stable channel a release that a Cluster uses keeps its object for as long
\* as the operator runs without a restart, however passes, deletions by hand, new
\* Clusters and a webhook that fails open interleave.
THEOREM InUseKeepsRelease ==
    ASSUME AllStable
    PROVE  Spec => []InUseHasRelease
  <1>1. Init => UseIsSafe
    BY DEF Init, UseIsSafe, Used
  <1>2. TypeOK /\ UseIsSafe => InUseHasRelease
    BY DEF TypeOK, UseIsSafe, InUseHasRelease
  <1> QED
    BY <1>1, <1>2, TypeInit, TypeStep, UseStep, PTL DEF Spec

-----------------------------------------------------------------------------
(* The contract of each release.                                           *)

\* A step of the whole is a step, or nothing, for release v.
KeepsContractOf(v) == [Contract(v)!Next]_(Contract(v)!vars)

\* Steps that change at most the assets of a release.
LEMMA SameObject ==
    ASSUME NEW v \in Releases, Used' = Used,
           v \in exists' <=> v \in exists, v \in deleting' <=> v \in deleting,
           v \in ready' <=> v \in ready
    PROVE  KeepsContractOf(v)
  BY DEF KeepsContractOf, Contract!Next, Contract!AssetsChange, Contract!vars, Contract!object

\* Steps that leave use and the objects alone.
LEMMA NothingStored ==
    ASSUME UNCHANGED <<exists, deleting, ready, class>>, NEW v \in Releases
    PROVE  KeepsContractOf(v)
  <1>1. Used' = Used
    BY DEF Used
  <1> QED
    BY <1>1, SameObject

\* A deletion that reaches the API server, of this release or of another one.
LEMMA DeleteKeeps ==
    ASSUME NEW v \in Releases, NEW w \in exists, Delete(w), UNCHANGED <<class, assets>>
    PROVE  KeepsContractOf(v)
  <1>1. Used' = Used
    BY DEF Used
  <1>2. CASE v = w
    <2>1. Contract(v)!Delete
      BY <1>1, <1>2 DEF Delete, Contract!Delete, Contract!Gone
    <2> QED
      BY <2>1 DEF KeepsContractOf, Contract!Next
  <1>3. CASE v # w
    BY <1>1, <1>3, SameObject DEF Delete
  <1> QED
    BY <1>2, <1>3

\* In the stable channel every step keeps the contract of every release.
LEMMA ContractStep ==
    ASSUME AllStable, TypeOK, [Next]_vars, NEW v \in Releases
    PROVE  KeepsContractOf(v)
  <1>1. CASE StartPass \/ ListRemote \/ ListRemoteFails \/ NoAssetsClient \/ MakeDiff
               \/ DeletionsDone \/ CallFails \/ FinishPass \/ Restart \/ ChangeSpec
               \/ UNCHANGED vars
    BY <1>1, NothingStored
    DEF StartPass, ListRemote, ListRemoteFails, NoAssetsClient, MakeDiff, DeletionsDone,
        CallFails, FinishPass, Restart, ChangeSpec, objects, vars
  <1>2. ASSUME NEW w \in Releases,
               AskDelete(w) \/ ProviderFor(w) \/ WorkStarts(w) \/ WorkEnds(w)
                 \/ ProviderCollected(w) \/ Publish(w) \/ UserAsksDelete(w)
        PROVE  KeepsContractOf(v)
    BY <1>2, NothingStored
    DEF AskDelete, ProviderFor, WorkStarts, WorkEnds, ProviderCollected, Publish,
        UserAsksDelete, objects
  <1>3. CASE StoreDelete
    BY <1>3, NothingStored, DeleteKeeps DEF StoreDelete, objects, others
  <1>4. ASSUME NEW w \in Releases, UserDeletes(w) PROVE KeepsContractOf(v)
    BY <1>4, NothingStored, DeleteKeeps DEF UserDeletes, objects, others
  <1>5. CASE GetOrCreate
    <2>1. /\ Used' = Used /\ UNCHANGED <<deleting, ready, assets>>
          /\ exists' = exists \cup snap.now
      BY <1>5 DEF GetOrCreate, Used, others
    <2>2. CASE v \in snap.now \ exists
      <3>1. Contract(v)!Create
        BY <2>1, <2>2 DEF Contract!Create, TypeOK
      <3> QED
        BY <3>1 DEF KeepsContractOf, Contract!Next
    <2> QED
      BY <2>1, <2>2, SameObject
  <1>6. ASSUME NEW w \in Releases, WorkEndsReady(w) PROVE KeepsContractOf(v)
    <2>1. /\ Used' = Used /\ UNCHANGED <<exists, deleting, assets>>
          /\ w \in assets \cap exists /\ ready' = ready \cup {w}
      BY <1>6 DEF WorkEndsReady, Used
    <2>2. CASE v = w
      <3>1. Contract(v)!BecomeReady
        BY <2>1, <2>2 DEF Contract!BecomeReady
      <3> QED
        BY <3>1 DEF KeepsContractOf, Contract!Next
    <2> QED
      BY <2>1, <2>2, SameObject
  <1>7. ASSUME NEW w \in Releases, LetGo(w) PROVE KeepsContractOf(v)
    <2>1. /\ Used' = Used /\ w \in exists \cap deleting
          /\ w \in assets => ~SeenInUse(w)
          /\ exists' = exists \ {w} /\ deleting' = deleting \ {w} /\ ready' = ready \ {w}
          /\ assets \subseteq assets'
      BY <1>7 DEF LetGo, Used
    <2>2. CASE v = w
      <3>1. v \in Used => v \notin assets
        BY <2>1, <2>2, StableIsSeen
      <3>2. Contract(v)!LetGo
        BY <2>1, <2>2, <3>1 DEF Contract!LetGo, Contract!Gone
      <3> QED
        BY <3>2 DEF KeepsContractOf, Contract!Next
    <2> QED
      BY <2>1, <2>2, SameObject
  <1>8. ASSUME NEW c \in Clusters, Leave(c) PROVE KeepsContractOf(v)
    <2>1. UNCHANGED <<exists, deleting, ready, assets>>
      BY <1>8 DEF Leave, objects, others
    <2>2. v \in Used' => v \in Used
      BY <1>8 DEF Leave, Used, TypeOK
    <2> QED
      BY <2>1, <2>2
      DEF KeepsContractOf, Contract!Next, Contract!Leave, Contract!vars, Contract!object
  <1>9. ASSUME NEW c \in Clusters, NEW w \in Releases, Adopt(c, w) PROVE KeepsContractOf(v)
    <2>1. UNCHANGED <<exists, deleting, ready, assets>> /\ w \in ready \ deleting
      BY <1>9 DEF Adopt, objects, others
    <2>2. v # w => (v \in Used' => v \in Used)
      BY <1>9 DEF Adopt, Used, TypeOK
    <2>3. v \in ready => v \in exists
      BY DEF TypeOK
    <2> QED
      BY <2>1, <2>2, <2>3
      DEF KeepsContractOf, Contract!Next, Contract!Leave, Contract!Adopt, Contract!vars,
          Contract!object
  <1> QED
    BY <1>1, <1>2, <1>3, <1>4, <1>5, <1>6, <1>7, <1>8, <1>9 DEF Next, Pass, Others

\* In the stable channel all controllers, users, publishers and restarts together
\* implement, for every single release, the contract of module ReleaseContract.
THEOREM ContractsAreKept ==
    ASSUME AllStable
    PROVE  Spec => KeepsContracts
  <1>1. Init => \A v \in Releases : Contract(v)!Init
    BY DEF Init, Used, Contract!Init
  <1>2. TypeOK /\ [Next]_vars
          => [\A v \in Releases : [Contract(v)!Next]_(Contract(v)!vars)]_vars
    BY ContractStep DEF KeepsContractOf
  <1> QED
    BY <1>1, <1>2, TypeInit, TypeStep, PTL DEF Spec, KeepsContracts

-----------------------------------------------------------------------------
(* A ready release stays.                                                  *)

\* The pass may still decide on what it has read, or carry out what it decided.
Deciding == pc \in {"list", "diff"}
Deleting == pc \in {"delete", "store"}

\* Unless somebody interfered, the newest ready release is not being deleted; the
\* pass has read it, or an older one that it will keep; and it is not among the
\* ready releases that the pass has decided to delete.
NewestIsSafe ==
    /\ ready # {} => Latest(ready) \notin deleting
    /\ everReady => ready # {}
    /\ Deciding /\ snap.ready # {} => Latest(snap.ready) \in ready \ deleting
    /\ Deleting /\ ready # {} => Latest(ready) \notin snap.ready

\* A release that was ready when the pass read it still is, or has gone.
ReadIsReady ==
    /\ Deciding => snap.ready \subseteq snap.existing
    /\ Deciding \/ Deleting => snap.ready \cap exists \subseteq ready

KInv ==
    /\ TypeOK /\ UseIsSafe
    /\ ReadIsReady
    /\ ~raced => NewestIsSafe

\* Two releases of one channel neither of which is newer are the same.
LEMMA NewestIsUnique ==
    ASSUME NEW v \in Releases, NEW w \in Releases, ~Less(v, w), ~Less(w, v)
    PROVE  v = w
  <1>1. v \in Version /\ w \in Version /\ v.channel = w.channel
    BY ClusterStackAssumption
  <1>2. v.major = w.major /\ v.patch = w.patch
    BY <1>1 DEF Less, Version
  <1> QED
    BY <1>1, <1>2 DEF Version

\* A release that is at least as new as all of S is the newest of S.
LEMMA LatestIs ==
    ASSUME NEW S \in SUBSET Releases, NEW v \in S, \A w \in S : ~Less(v, w)
    PROVE  Latest(S) = v
  BY LatestIsNewest, NewestIsUnique

\* The newest stays the newest of a smaller set.
LEMMA LatestOfFewer ==
    ASSUME NEW S \in SUBSET Releases, NEW T \in SUBSET S, Latest(S) \in T
    PROVE  Latest(T) = Latest(S)
  BY LatestIsNewest, LatestIs

\* One more release is the newest, or changes nothing.
LEMMA LatestOfMore ==
    ASSUME NEW S \in SUBSET Releases, NEW v \in Releases
    PROVE  Latest(S \cup {v}) = v \/ (S # {} /\ Latest(S \cup {v}) = Latest(S))
  <1> DEFINE T == S \cup {v}
  <1>1. Latest(T) \in T /\ \A w \in T : ~Less(Latest(T), w)
    BY LatestIsNewest
  <1>2. CASE Latest(T) \in S
    BY <1>1, <1>2, LatestIs
  <1> QED
    BY <1>1, <1>2

\* A step that changes neither the objects nor what the pass goes by.
LEMMA QuietStep ==
    ASSUME KInv, TypeOK', UseIsSafe', UNCHANGED <<exists, deleting, ready, everReady, raced>>,
           \/ UNCHANGED <<snap, pc>>
           \/ Deciding /\ Deciding' /\ snap'.ready = snap.ready /\ snap'.existing = snap.existing
           \/ Deleting /\ Deleting' /\ snap'.ready = snap.ready
           \/ ~Deciding' /\ ~Deleting'
    PROVE  KInv'
  BY DEF KInv, ReadIsReady, NewestIsSafe, Deciding, Deleting

\* A deletion is stored.  Without finalizer the object was not ready; with it, a
\* ready release counts as raced unless the pass had known that it was ready.
LEMMA DeletionStep ==
    ASSUME KInv, TypeOK', UseIsSafe', UNCHANGED everReady, NEW v \in exists, Delete(v),
           \/ /\ UNCHANGED <<snap, pc>>
              /\ ~raced' => ~raced /\ v \notin ready
           \/ /\ pc = "store" /\ pc' = "delete" /\ snap'.ready \subseteq snap.ready
              /\ ~raced' => ~raced /\ v \notin ready \ snap.ready
    PROVE  KInv'
  <1>1. ready' = ready /\ exists' \subseteq exists /\ deleting' \subseteq deleting \cup {v}
    BY DEF Delete, KInv, UseIsSafe
  <1>2. ReadIsReady'
    BY <1>1 DEF KInv, ReadIsReady, Deciding, Deleting
  <1>3. ASSUME ~raced' PROVE NewestIsSafe'
    <2>1. ~raced /\ NewestIsSafe
      BY <1>3 DEF KInv
    <2>2. ready # {} => Latest(ready) \in ready
      BY LatestIsNewest DEF KInv, TypeOK
    <2>3. ready # {} => v # Latest(ready)
      BY <1>3, <2>1, <2>2 DEF NewestIsSafe, Deleting
    <2> QED
      BY <1>1, <1>3, <2>1, <2>2, <2>3 DEF NewestIsSafe, Deciding, Deleting
  <1> QED
    BY <1>2, <1>3 DEF KInv

\* In the stable channel every step keeps the newest ready release safe.
LEMMA ReadyStep == AllStable /\ KInv /\ [Next]_vars => KInv'
  <1> SUFFICES ASSUME AllStable, KInv, [Next]_vars PROVE KInv'
    OBVIOUS
  <1>0. /\ TypeOK' /\ UseIsSafe'
        /\ snap \in Snaps /\ ready \in SUBSET Releases /\ snap.ready \in SUBSET Releases
    BY TypeStep, UseStep DEF KInv, TypeOK, Snaps
  <1>1. CASE StartPass
    <2>1. /\ UNCHANGED <<exists, deleting, ready, everReady, raced>>
          /\ snap'.ready = ready /\ snap'.existing = exists /\ Deciding' /\ ~Deleting'
      BY <1>1 DEF StartPass, NoSnap, Deciding, Deleting, objects, history
    <2>2. ReadIsReady'
      BY <2>1 DEF ReadIsReady, KInv, TypeOK
    <2>3. ready # {} => Latest(ready) \in ready
      BY <1>0, LatestIsNewest
    <2>4. ~raced => NewestIsSafe'
      BY <2>1, <2>3 DEF KInv, NewestIsSafe
    <2> QED
      BY <1>0, <2>1, <2>2, <2>4 DEF KInv
  <1>2. CASE ListRemote \/ ListRemoteFails
    <2>1. snap'.ready = snap.ready /\ snap'.existing = snap.existing
      BY <1>0, <1>2 DEF ListRemote, ListRemoteFails, Snaps
    <2> QED
      BY <1>0, <1>2, <2>1, QuietStep
      DEF ListRemote, ListRemoteFails, Deciding, objects, history
  <1>3. CASE NoAssetsClient \/ CallFails \/ FinishPass \/ DeletionsDone \/ Restart
    BY <1>0, <1>3, QuietStep
    DEF NoAssetsClient, CallFails, FinishPass, DeletionsDone, Restart, EndPass, Deciding,
        Deleting, objects, history
  <1>4. CASE MakeDiff
    <2>1. PICK kept \in SUBSET snap.existing :
            /\ kept = {v \in snap.existing : Keep(v)}
            /\ snap'.ready = snap.ready \ kept
      BY <1>4 DEF MakeDiff, NoSnap
    <2>2. /\ UNCHANGED <<exists, deleting, ready, everReady, raced>>
          /\ Deciding /\ ~Deciding' /\ Deleting'
      BY <1>4 DEF MakeDiff, Deciding, Deleting, objects, history
    <2>3. ReadIsReady'
      BY <2>1, <2>2 DEF KInv, ReadIsReady
    <2>4. ASSUME ~raced, ready # {} PROVE Latest(ready) \notin snap'.ready
      <3>1. CASE snap.ready = {}
        BY <2>1, <3>1
      <3>2. CASE snap.ready # {}
        <4> DEFINE m == Latest(snap.ready)
        <4>1. m \in snap.ready /\ \A w \in snap.ready : ~Less(m, w)
          BY <1>0, <3>2, LatestIsNewest
        <4>2. m \in kept
          <5>1. String(m) = StringWithDot(m)
            BY <1>0, <4>1 DEF AllStable, String, StringWithDot
          <5>2. m \in snap.existing
            BY <2>2, <4>1 DEF KInv, ReadIsReady
          <5> QED
            BY <2>1, <3>2, <5>1, <5>2 DEF Keep, LatestReady
        <4>3. m \in ready
          BY <2>2, <2>4, <3>2 DEF KInv, NewestIsSafe
        <4>4. Latest(ready) \in ready /\ ~Less(Latest(ready), m)
          BY <1>0, <4>3, LatestIsNewest
        <4>5. Latest(ready) \in snap.ready => Latest(ready) = m
          BY <1>0, <4>1, <4>4, NewestIsUnique
        <4> QED
          BY <2>1, <4>2, <4>5
      <3> QED
        BY <3>1, <3>2
    <2>5. ~raced => NewestIsSafe'
      BY <2>2, <2>4 DEF KInv, NewestIsSafe
    <2> QED
      BY <1>0, <2>2, <2>3, <2>5 DEF KInv
  <1>5. ASSUME NEW v \in Releases, AskDelete(v) PROVE KInv'
    <2>1. UNCHANGED <<exists, deleting, ready, everReady, raced>> /\ Deleting
      BY <1>5 DEF AskDelete, Deleting, objects, history
    <2>2. \/ Deleting' /\ snap'.ready = snap.ready
          \/ pc' = "idle"
      BY <1>0, <1>5 DEF AskDelete, EndPass, Deleting, Snaps
    <2> QED
      BY <1>0, <2>1, <2>2, QuietStep DEF Deciding, Deleting
  <1>6. CASE StoreDelete
    <2>1. /\ pc = "store" /\ pc' = "delete" /\ everReady' = everReady
          /\ snap'.ready \subseteq snap.ready
          /\ ~raced' => ~raced /\ \A v \in snap.now : v \notin ready \ snap.ready
      BY <1>0, <1>6 DEF StoreDelete, Snaps
    <2>2. PICK v \in snap.now : IF v \in exists THEN Delete(v) ELSE UNCHANGED objects
      BY <1>6 DEF StoreDelete
    <2>3. CASE v \in exists
      BY <1>0, <2>1, <2>2, <2>3, DeletionStep
    <2>4. CASE v \notin exists
      BY <1>0, <2>1, <2>2, <2>4 DEF KInv, NewestIsSafe, ReadIsReady, Deciding, Deleting, objects
    <2> QED
      BY <2>3, <2>4
  <1>7. ASSUME NEW v \in Releases,
               ProviderFor(v) \/ WorkStarts(v) \/ WorkEnds(v)
                 \/ ProviderCollected(v) \/ Publish(v) \/ UserAsksDelete(v)
        PROVE  KInv'
    BY <1>0, <1>7, QuietStep
    DEF ProviderFor, WorkStarts, WorkEnds, ProviderCollected, Publish, UserAsksDelete,
        Deciding, Deleting, objects, history
  <1>8. CASE GetOrCreate
    BY <1>0, <1>8 DEF GetOrCreate, KInv, NewestIsSafe, ReadIsReady, Deciding, Deleting, history
  <1>9. ASSUME NEW v \in Releases, WorkEndsReady(v) PROVE KInv'
    <2>1. /\ UNCHANGED <<exists, deleting, snap, pc>> /\ v \in exists
          /\ ready' = ready \cup {v} /\ raced' = (raced \/ v \in deleting)
      BY <1>9 DEF WorkEndsReady
    <2>2. ReadIsReady'
      BY <2>1 DEF KInv, ReadIsReady, Deciding, Deleting
    <2>3. ASSUME ~raced' PROVE NewestIsSafe'
      <3>1. NewestIsSafe /\ v \notin deleting
        BY <2>1, <2>3 DEF KInv
      <3>2. CASE v \in ready
        BY <2>1, <3>1, <3>2 DEF NewestIsSafe, Deciding, Deleting
      <3>3. CASE v \notin ready
        <4>1. Deleting => v \notin snap.ready
          BY <2>1, <3>3 DEF KInv, ReadIsReady
        <4>2. Latest(ready') = v \/ (ready # {} /\ Latest(ready') = Latest(ready))
          BY <1>0, <2>1, LatestOfMore
        <4> QED
          BY <2>1, <3>1, <4>1, <4>2 DEF NewestIsSafe, Deciding, Deleting
      <3> QED
        BY <3>2, <3>3
    <2> QED
      BY <1>0, <2>2, <2>3 DEF KInv
  <1>10. ASSUME NEW v \in Releases, LetGo(v) PROVE KInv'
    <2>1. /\ UNCHANGED <<snap, pc, everReady, raced>> /\ v \in deleting
          /\ exists' = exists \ {v} /\ deleting' = deleting \ {v} /\ ready' = ready \ {v}
      BY <1>10 DEF LetGo, history
    <2>2. ReadIsReady'
      BY <2>1 DEF KInv, ReadIsReady, Deciding, Deleting
    <2>3. ASSUME ~raced PROVE NewestIsSafe'
      <3>1. NewestIsSafe
        BY <2>3 DEF KInv
      <3>2. ready # {} => Latest(ready) \in ready \ {v}
        BY <1>0, <2>1, <3>1, LatestIsNewest DEF NewestIsSafe
      <3>3. ready # {} => Latest(ready') = Latest(ready)
        BY <1>0, <2>1, <3>2, LatestOfFewer
      <3> QED
        BY <2>1, <3>1, <3>2, <3>3 DEF NewestIsSafe, Deciding, Deleting
    <2> QED
      BY <1>0, <2>1, <2>2, <2>3 DEF KInv
  <1>11. ASSUME NEW v \in Releases, UserDeletes(v) PROVE KInv'
    <2>1. UNCHANGED <<snap, pc, everReady>> /\ (~raced' => ~raced /\ v \notin ready)
      BY <1>11 DEF UserDeletes
    <2>2. CASE v \in exists
      BY <1>0, <1>11, <2>1, <2>2, DeletionStep DEF UserDeletes
    <2>3. CASE v \notin exists
      <3>1. v \notin ready /\ UNCHANGED <<exists, deleting, ready>>
        BY <1>11, <2>3 DEF UserDeletes, objects, KInv, TypeOK
      <3> QED
        BY <1>0, <2>1, <3>1 DEF KInv, NewestIsSafe, ReadIsReady, Deciding, Deleting
    <2> QED
      BY <2>2, <2>3
  <1>12. CASE ChangeSpec \/ UNCHANGED vars
    BY <1>0, <1>12, QuietStep DEF ChangeSpec, objects, history, vars
  <1>13. ASSUME NEW c \in Clusters, Leave(c) \/ \E v \in Releases : Adopt(c, v) PROVE KInv'
    BY <1>0, <1>13, QuietStep DEF Leave, Adopt, objects, history
  <1> QED
    BY <1>1, <1>2, <1>3, <1>4, <1>5, <1>6, <1>7, <1>8, <1>9, <1>10, <1>11, <1>12, <1>13
    DEF Next, Pass, Others

\* In the stable channel, once a release was ready there always is one that is ready
\* and not being deleted, over any number of passes, spec changes and restarts; the
\* exceptions are a ready release deleted by hand, and one that becomes ready only
\* after its deletion was decided.
THEOREM ReadyReleaseStays ==
    ASSUME AllStable
    PROVE  Spec => []ReadyReleaseKept
  <1>1. Init => KInv
    BY TypeInit DEF Init, KInv, UseIsSafe, NewestIsSafe, ReadIsReady, Deciding, Deleting, Used
  <1>2. KInv => ReadyReleaseKept
    <2>1. ready \in SUBSET Releases /\ ready # {} => Latest(ready) \in ready
      BY LatestIsNewest
    <2> QED
      BY <2>1 DEF KInv, TypeOK, NewestIsSafe, ReadyReleaseKept
  <1> QED
    BY <1>1, <1>2, ReadyStep, PTL DEF Spec
=============================================================================
