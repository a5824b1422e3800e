--------------------- MODULE ClusterStackReleaseProofs ---------------------
(***************************************************************************)
(* Theorems about ClusterStackRelease, for every chart, version, bound on  *)
(* faults and pattern of lost writes: the variables keep their types; if   *)
(* no two objects of the chart share their namespace and name, a release   *)
(* that is ready has its whole chart applied; in the stable channel a      *)
(* release in use is not let go, with both its class stays applied, and    *)
(* the controller implements the contract of module ReleaseContract.       *)
(*                                                                         *)
(* They rest on an inductive invariant.  Objects of the chart are removed  *)
(* only by a pass that works on a copy with a deletion timestamp, and such *)
(* a pass may be late: the object may be gone and created anew by then.    *)
(* What saves it is that the stored object is then either still being      *)
(* deleted or fresh, with nothing applied yet (DeletionIsLate), and that a *)
(* pass on a deleted copy never writes status (DeletingPassIsMute).        *)
(***************************************************************************)
EXTENDS ClusterStackRelease, TLAPS

\* Names tell the objects of the chart apart.
UniqueNames == \A o, p \in Objects : NameOf[o] = NameOf[p] => o = p

\* Nothing is recorded as applied.
Fresh(obj) == ~obj.ready /\ \A o \in Objects : obj.resources[o] # "synced"

\* What is recorded as applied is in the cluster.
Sound(obj) ==
    /\ obj.ready => Objects \subseteq live
    /\ \A o \in Objects : obj.resources[o] = "synced" => o \in live

InPass == pc # "idle"

PassKnowsDeletion ==
    /\ pc \in {"checkInUse", "delete"} => mem.deleting
    /\ pc \in {"provider", "apply"} => ~mem.deleting

DeletingPassIsMute ==
    InPass /\ mem.deleting => base.ready = mem.ready /\ base.resources = mem.resources

DeletionIsLate ==
    /\ csr.deleting => csr.finalizer
    /\ csr.finalizer => csr.exists
    /\ cache.deleting \/ (InPass /\ mem.deleting) => csr.deleting \/ Fresh(csr)
    /\ InPass /\ mem.deleting => cache.deleting \/ Fresh(cache)
    /\ InPass /\ ~mem.deleting /\ cache.deleting => csr.deleting

CopiesAreSound ==
    /\ ~csr.deleting => Sound(csr)
    /\ ~cache.deleting => Sound(cache)
    /\ InPass /\ ~mem.deleting => Sound(mem)

\* The finalizer is removed from the copy only after a look at the Clusters, and
\* while the stored object is being deleted or fresh nobody can adopt it.
UseIsChecked ==
    /\ InPass /\ ~mem.finalizer => pc = "patch" /\ mem.deleting
    /\ IsStable(Release) /\ (pc = "delete" \/ (InPass /\ ~mem.finalizer)) => ~used

IInv ==
    /\ TypeOK
    /\ PassKnowsDeletion
    /\ DeletingPassIsMute
    /\ DeletionIsLate
    /\ UniqueNames => CopiesAreSound

-----------------------------------------------------------------------------
(* Type correctness.                                                       *)

\* kube.Apply returns a list of resources, whatever fails.
LEMMA AppliedResourcesType ==
    ASSUME NEW template, NEW res, NEW noMapping, NEW refused, NEW undeleted
    PROVE  AppliedResources(template, res, noMapping, refused, undeleted) \in Resources
  BY DEF AppliedResources, Resources, ResourceStatus

\* kube.Apply creates objects of the chart only.
LEMMA LiveAfterApplyType ==
    ASSUME NEW res, NEW noMapping, NEW refused, NEW undeleted, NEW L, L \subseteq Objects
    PROVE  LiveAfterApply(Objects, res, noMapping, refused, undeleted, L) \subseteq Objects
  BY DEF LiveAfterApply, ToApply

\* No object, and a new object, are objects of the model.
LEMMA AbsentType == Absent \in Object /\ Created \in Object
  BY DEF Absent, Created, Object, Resources, NoResources, ResourceStatus

\* The three writes of the deferred patch store an object.
LEMMA PatchedType ==
    ASSUME csr \in Object, base \in Object, mem \in Object, NEW parts
    PROVE  Patched(parts) \in Object
  <1> DEFINE cond == IF "conditions" \in parts
                     THEN [c \in Conds |-> Changed(base.cond[c], mem.cond[c], csr.cond[c])]
                     ELSE csr.cond
             finalizer == IF "metadata" \in parts
                          THEN Changed(base.finalizer, FinalizerAfter, csr.finalizer)
                          ELSE csr.finalizer
             ready == IF "status" \in parts
                      THEN Changed(base.ready, mem.ready, csr.ready) ELSE csr.ready
             resources == IF "status" \in parts
                          THEN Changed(base.resources, mem.resources, csr.resources)
                          ELSE csr.resources
  <1>1. cond \in [Conds -> {"Unknown", "True", "False"}]
    BY DEF Object, Changed
  <1>2. finalizer \in BOOLEAN
    BY DEF Object, Changed, FinalizerAfter
  <1>3. ready \in BOOLEAN
    BY DEF Object, Changed
  <1>4. resources \in Resources
    BY DEF Object, Changed
  <1> HIDE DEF cond, finalizer, ready, resources
  <1>5. [csr EXCEPT !.cond = cond, !.finalizer = finalizer,
                    !.ready = ready, !.resources = resources] \in Object
    BY <1>1, <1>2, <1>3, <1>4 DEF Object
  <1> QED
    BY <1>5, AbsentType DEF Patched, cond, finalizer, ready, resources

\* Setting a condition changes nothing else of the working copy.
LEMMA MarkKeeps ==
    ASSUME mem \in Object, NEW c \in Conds, NEW v \in {"Unknown", "True", "False"}, Mark(c, v)
    PROVE  /\ mem' \in Object
           /\ mem'.exists = mem.exists /\ mem'.deleting = mem.deleting
           /\ mem'.ready = mem.ready /\ mem'.resources = mem.resources
           /\ mem'.finalizer = mem.finalizer
  BY DEF Mark, Object

\* Every step of Spec keeps the types; one case for each action.
LEMMA TypeStep == TypeOK /\ [Next]_vars => TypeOK'
  <1> SUFFICES ASSUME TypeOK, [Next]_vars PROVE TypeOK'
    OBVIOUS
  <1> USE ReleaseAssumption DEF TypeOK
  <1>1. CASE StartReconcile
    BY <1>1 DEF StartReconcile, world, Object
  <1>2. CASE AssetsMissing
    BY <1>2, MarkKeeps DEF AssetsMissing, world, Conds
  <1>3. CASE AssetsBroken
    BY <1>3, MarkKeeps DEF AssetsBroken, world, Conds
  <1>4. CASE AssetsFound
    BY <1>4, MarkKeeps DEF AssetsFound, world, Conds
  <1>5. CASE Download
    BY <1>5, MarkKeeps DEF Download, world, Conds, Disk
  <1>6. CASE DownloadFails
    BY <1>6, MarkKeeps DEF DownloadFails, Fault, world, Conds, Disk
  <1>7. CASE ProviderDone
    BY <1>7, MarkKeeps DEF ProviderDone, world, Conds
  <1>8. CASE ProviderNotReady
    BY <1>8, MarkKeeps DEF ProviderNotReady, world, Conds
  <1>9. CASE ProviderMissing
    BY <1>9 DEF ProviderMissing, Fault, world
  <1>10. CASE Apply
    <2>1. AppliedResources(Objects, mem.resources, {}, {}, {}) \in Resources
      BY AppliedResourcesType
    <2>2. live' \subseteq Objects
      BY <1>10, LiveAfterApplyType DEF Apply
    <2>3. mem' \in Object /\ mem'.exists = mem.exists
      BY <1>10, <2>1 DEF Apply, Object, Conds
    <2> QED
      BY <1>10, <2>2, <2>3 DEF Apply, world
  <1>11. CASE ApplyInPart
    <2>1. PICK noMapping, refused \in SUBSET ToApply(Objects, mem.resources) :
            /\ mem' = [mem EXCEPT
                         !.resources = AppliedResources(Objects, mem.resources, noMapping, refused, {}),
                         !.cond["HelmChartApplied"] = "False"]
            /\ live' = LiveAfterApply(Objects, mem.resources, noMapping, refused, {}, live)
      BY <1>11 DEF ApplyInPart
    <2>2. AppliedResources(Objects, mem.resources, noMapping, refused, {}) \in Resources
      BY AppliedResourcesType
    <2>3. live' \subseteq Objects
      BY <2>1, LiveAfterApplyType
    <2>4. mem' \in Object /\ mem'.exists = mem.exists
      BY <2>1, <2>2 DEF Object, Conds
    <2> QED
      BY <1>11, <2>3, <2>4 DEF ApplyInPart, Fault, world
  <1>12. CASE ApplyFails
    <2>1. mem' \in Object /\ mem'.exists = mem.exists
      BY <1>12, MarkKeeps DEF ApplyFails, Conds
    <2>2. live' \subseteq Objects
      BY <1>12 DEF ApplyFails, ToApply
    <2> QED
      BY <1>12, <2>1, <2>2 DEF ApplyFails, Fault, world
  <1>13. CASE CheckInUse
    BY <1>13 DEF CheckInUse, world
  <1>14. CASE DeleteObjects
    <2>1. mem' \in Object /\ mem'.exists = mem.exists
      BY <1>14 DEF DeleteObjects, Object
    <2> QED
      BY <1>14, <2>1 DEF DeleteObjects, world
  <1>15. CASE DeleteObjectsFails
    BY <1>15 DEF DeleteObjectsFails, Fault, world
  <1>16. CASE Patch \/ PatchInPart \/ PatchNotFound
    <2>1. csr' \in Object
      BY <1>16, PatchedType DEF Patch, PatchInPart, PatchNotFound
    <2>2. faults' \in 0..MaxFaults
      BY <1>16 DEF Patch, PatchInPart, PatchNotFound, Fault
    <2>3. base' \in Object /\ mem' \in Object /\ cache' \in Object
      BY <1>16, AbsentType DEF Patch, PatchInPart, PatchNotFound, EndPass
    <2> QED
      BY <1>16, <2>1, <2>2, <2>3 DEF Patch, PatchInPart, PatchNotFound, EndPass, world
  <1>17. CASE CacheSync
    BY <1>17 DEF CacheSync, world
  <1>18. CASE Create
    BY <1>18, AbsentType DEF Create, world
  <1>19. CASE AdmitDelete
    BY <1>19 DEF AdmitDelete, Fault
  <1>20. CASE StoreDelete
    <2>1. csr' \in Object
      BY <1>20, AbsentType DEF StoreDelete, Object
    <2> QED
      BY <1>20, <2>1 DEF StoreDelete
  <1>21. CASE Adopt \/ Leave
    BY <1>21 DEF Adopt, Leave
  <1>22. CASE ProviderCreated \/ ProviderBecomesReady \/ ProviderCollected
    BY <1>22 DEF ProviderCreated, ProviderBecomesReady, ProviderCollected
  <1>23. CASE Restart
    <2>1. base' \in Object /\ mem' \in Object /\ cache' \in Object /\ csr' \in Object
      BY <1>23, AbsentType DEF Restart
    <2> QED
      BY <1>23, <2>1 DEF Restart, Fault, world, Disk
  <1>24. CASE UNCHANGED vars
    BY <1>24 DEF vars, world
  <1> QED
    BY <1>1, <1>2, <1>3, <1>4, <1>5, <1>6, <1>7, <1>8, <1>9, <1>10, <1>11, <1>12, <1>13,
       <1>14, <1>15, <1>16, <1>17, <1>18, <1>19, <1>20, <1>21, <1>22, <1>23, <1>24
       DEF Next, Controller, Environment

\* The initial state is well typed.
LEMMA TypeInit == Init => TypeOK
  <1> SUFFICES ASSUME Init PROVE TypeOK
    OBVIOUS
  <1>1. csr \in Object /\ cache \in Object /\ base \in Object /\ mem \in Object
    BY AbsentType DEF Init
  <1>2. faults \in 0..MaxFaults
    BY ReleaseAssumption DEF Init
  <1> QED
    BY <1>1, <1>2 DEF Init, TypeOK, Disk


\* The variables of the ClusterStackRelease controller keep their types, and a
\* pass always works on an object that did exist.
THEOREM TypeCorrect == Spec => []TypeOK
  BY TypeInit, TypeStep, PTL DEF Spec

-----------------------------------------------------------------------------
(* A release that is ready has its chart applied.                          *)

\* With names that tell objects apart, kube.Apply skips exactly what is recorded
\* as synced, and deletes nothing.
LEMMA SkipsSynced ==
    ASSUME UniqueNames, NEW res \in Resources
    PROVE  /\ \A o \in Objects : SkippedAsSynced(res, o) <=> res[o] = "synced"
           /\ ResourcesToBeDeleted(Objects, res) = {}
  <1>1. ASSUME NEW o \in Objects, res[o] = "synced" PROVE SkippedAsSynced(res, o)
    <2>1. FoundFor(res, o, o)
      BY <1>1, PosAssumption DEF FoundFor, UniqueNames
    <2> QED
      BY <1>1, <2>1 DEF SkippedAsSynced
  <1>2. ASSUME NEW o \in Objects, SkippedAsSynced(res, o) PROVE res[o] = "synced"
    BY <1>2 DEF SkippedAsSynced, FoundFor, UniqueNames
  <1>3. ResourcesToBeDeleted(Objects, res) = {}
    BY DEF ResourcesToBeDeleted
  <1> QED
    BY <1>1, <1>2, <1>3

\* If all that is recorded as synced is in the cluster, this is so after kube.Apply,
\* which removes nothing and, when nothing fails, leaves the whole chart applied.
LEMMA ApplyKeepsSound ==
    ASSUME UniqueNames, NEW res \in Resources, NEW noMapping, NEW refused, NEW L,
           \A o \in Objects : res[o] = "synced" => o \in L
    PROVE  LET new == AppliedResources(Objects, res, noMapping, refused, {})
               after == LiveAfterApply(Objects, res, noMapping, refused, {}, L)
           IN  /\ L \subseteq after
               /\ \A o \in Objects : new[o] = "synced" => o \in after
               /\ noMapping \cup refused = {} => Objects \subseteq after
  <1> DEFINE new == AppliedResources(Objects, res, noMapping, refused, {})
             after == LiveAfterApply(Objects, res, noMapping, refused, {}, L)
  <1>1. after = L \cup (ToApply(Objects, res) \ (noMapping \cup refused))
    BY SkipsSynced DEF LiveAfterApply
  <1>2. \A o \in Objects : o \in ToApply(Objects, res) <=> res[o] # "synced"
    BY SkipsSynced DEF ToApply
  <1>3. ASSUME NEW o \in Objects, new[o] = "synced"
        PROVE  res[o] = "synced" \/ o \in ToApply(Objects, res) \ (noMapping \cup refused)
    BY <1>3 DEF AppliedResources
  <1> QED
    BY <1>1, <1>2, <1>3

\* What the deferred patch may do to the stored object.
LEMMA PatchedStatus ==
    ASSUME csr \in Object, base \in Object, mem \in Object, NEW parts
    PROVE  \/ csr.deleting /\ Patched(parts) = Absent
           \/ /\ Patched(parts).deleting = csr.deleting /\ Patched(parts).exists = csr.exists
              /\ csr.deleting => Patched(parts).finalizer
              /\ Patched(parts).ready \in {csr.ready, mem.ready}
              /\ Patched(parts).resources \in {csr.resources, mem.resources}
              /\ base.ready = mem.ready => Patched(parts).ready = csr.ready
              /\ base.resources = mem.resources => Patched(parts).resources = csr.resources
  <1> DEFINE cond == IF "conditions" \in parts
                     THEN [c \in Conds |-> Changed(base.cond[c], mem.cond[c], csr.cond[c])]
                     ELSE csr.cond
             finalizer == IF "metadata" \in parts
                          THEN Changed(base.finalizer, FinalizerAfter, csr.finalizer)
                          ELSE csr.finalizer
             ready == IF "status" \in parts
                      THEN Changed(base.ready, mem.ready, csr.ready) ELSE csr.ready
             resources == IF "status" \in parts
                          THEN Changed(base.resources, mem.resources, csr.resources)
                          ELSE csr.resources
             obj == [csr EXCEPT !.cond = cond, !.finalizer = finalizer,
                                !.ready = ready, !.resources = resources]
  <1>1. Patched(parts) = IF csr.deleting /\ ~finalizer THEN Absent ELSE obj
    BY DEF Patched
  <1>2. ready \in {csr.ready, mem.ready} /\ (base.ready = mem.ready => ready = csr.ready)
    BY DEF Changed
  <1>3. /\ resources \in {csr.resources, mem.resources}
        /\ base.resources = mem.resources => resources = csr.resources
    BY DEF Changed
  <1> HIDE DEF cond, finalizer, ready, resources
  <1>4. /\ obj.deleting = csr.deleting /\ obj.exists = csr.exists /\ obj.finalizer = finalizer
        /\ obj.ready = ready /\ obj.resources = resources
    BY DEF Object
  <1> QED
    BY <1>1, <1>2, <1>3, <1>4

\* Nothing is recorded as applied on an object that is new or absent.
LEMMA AbsentIsFresh ==
    /\ Fresh(Absent) /\ Fresh(Created)
    /\ Sound(Absent) /\ Sound(Created)
    /\ ~Absent.deleting /\ ~Created.deleting
    /\ ~Absent.finalizer /\ ~Created.finalizer
  BY DEF Fresh, Sound, Absent, Created, NoResources

\* The inductive invariant holds initially.
LEMMA InvariantInit == Init => IInv
  <1> SUFFICES ASSUME Init PROVE IInv
    OBVIOUS
  <1>1. TypeOK
    BY TypeInit
  <1>2. csr = Absent /\ cache = Absent /\ pc = "idle"
    BY DEF Init
  <1> QED
    BY <1>1, <1>2, AbsentIsFresh
    DEF IInv, PassKnowsDeletion, DeletingPassIsMute, DeletionIsLate, CopiesAreSound, InPass

\* A step inside a pass that leaves what is recorded and what is there alone.
LEMMA QuietStep ==
    ASSUME IInv, TypeOK', PassKnowsDeletion', InPass,
           UNCHANGED <<csr, cache, base, live>>,
           mem'.deleting = mem.deleting, mem'.ready = mem.ready, mem'.resources = mem.resources
    PROVE  IInv'
  BY DEF IInv, DeletingPassIsMute, DeletionIsLate, CopiesAreSound, InPass, Fresh, Sound

\* A step of somebody else that leaves the object and the pass alone.
LEMMA ForeignStep ==
    ASSUME IInv, TypeOK', UNCHANGED <<csr, cache, base, mem, pc, live>>
    PROVE  IInv'
  BY DEF IInv, PassKnowsDeletion, DeletingPassIsMute, DeletionIsLate, CopiesAreSound,
         InPass, Fresh, Sound

\* An apply, complete or in part, on a copy that is not being deleted.
LEMMA ApplyStep ==
    ASSUME IInv, TypeOK', pc = "apply", pc' = "patch",
           UNCHANGED <<csr, cache, base>>,
           NEW noMapping, NEW refused,
           mem'.deleting = mem.deleting,
           mem'.ready = mem.ready \/ noMapping \cup refused = {},
           mem'.resources = AppliedResources(Objects, mem.resources, noMapping, refused, {}),
           live' = LiveAfterApply(Objects, mem.resources, noMapping, refused, {}, live)
    PROVE  IInv'
  <1>1. ~mem.deleting /\ InPass /\ mem.resources \in Resources
    BY DEF IInv, PassKnowsDeletion, InPass, TypeOK, Object
  <1>2. ASSUME UniqueNames PROVE CopiesAreSound'
    <2>1. CopiesAreSound /\ Sound(mem)
      BY <1>1, <1>2 DEF IInv, CopiesAreSound
    <2>2. /\ live \subseteq live'
          /\ \A o \in Objects : mem'.resources[o] = "synced" => o \in live'
          /\ noMapping \cup refused = {} => Objects \subseteq live'
      BY <1>1, <1>2, <2>1, ApplyKeepsSound DEF Sound
    <2>3. Sound(mem)'
      BY <2>1, <2>2 DEF Sound
    <2>4. /\ ~csr.deleting => Sound(csr)'
          /\ ~cache.deleting => Sound(cache)'
      BY <2>1, <2>2 DEF CopiesAreSound, Sound
    <2> QED
      BY <2>3, <2>4 DEF CopiesAreSound
  <1>3. DeletionIsLate'
    BY <1>1 DEF IInv, DeletionIsLate, InPass, Fresh
  <1> QED
    BY <1>1, <1>2, <1>3
    DEF IInv, PassKnowsDeletion, DeletingPassIsMute, InPass

\* A deletion of objects of the chart, complete or in part: by then the stored
\* object is being deleted or fresh, and so is the cached one.
LEMMA DeleteStep ==
    ASSUME IInv, TypeOK', pc \in {"checkInUse", "delete"}, pc' = "patch", UNCHANGED <<csr, cache, base>>,
           mem'.deleting = mem.deleting, mem'.ready = mem.ready, mem'.resources = mem.resources
    PROVE  IInv'
  <1>1. mem.deleting /\ InPass
    BY DEF IInv, PassKnowsDeletion, InPass
  <1>2. csr.deleting \/ Fresh(csr)
    BY <1>1 DEF IInv, DeletionIsLate
  <1>3. cache.deleting \/ Fresh(cache)
    BY <1>1 DEF IInv, DeletionIsLate
  <1>4. CopiesAreSound'
    BY <1>1, <1>2, <1>3 DEF CopiesAreSound, Sound, Fresh
  <1>5. DeletionIsLate'
    BY <1>1, <1>2, <1>3 DEF IInv, DeletionIsLate, InPass, Fresh
  <1> QED
    BY <1>1, <1>4, <1>5 DEF IInv, PassKnowsDeletion, DeletingPassIsMute, InPass

\* The end of a pass.  A pass on a deleted copy writes nothing of the status; any
\* other one writes what is sound.
LEMMA PatchStep ==
    ASSUME IInv, TypeOK', pc = "patch", pc' = "idle", UNCHANGED <<cache, live>>,
           csr.exists, NEW parts, csr' = Patched(parts)
    PROVE  IInv'
  <1> DEFINE new == Patched(parts)
  <1>1. \/ csr.deleting /\ new = Absent
        \/ /\ new.deleting = csr.deleting /\ new.exists = csr.exists
           /\ csr.deleting => new.finalizer
           /\ new.ready \in {csr.ready, mem.ready}
           /\ new.resources \in {csr.resources, mem.resources}
           /\ base.ready = mem.ready => new.ready = csr.ready
           /\ base.resources = mem.resources => new.resources = csr.resources
    BY PatchedStatus DEF IInv, TypeOK
  <1> HIDE DEF new
  <1>2. csr' = new
    BY DEF new
  <1>3. InPass
    BY DEF InPass
  <1>4. CASE csr.deleting /\ new = Absent
    <2>1. Fresh(csr') /\ ~csr'.deleting /\ ~csr'.finalizer /\ Sound(csr)'
      BY <1>2, <1>4, AbsentIsFresh DEF Fresh, Sound
    <2> QED
      BY <2>1 DEF IInv, PassKnowsDeletion, DeletingPassIsMute, DeletionIsLate,
                  CopiesAreSound, InPass, Fresh, Sound
  <1>5. CASE ~(csr.deleting /\ new = Absent)
    <2>1. csr'.deleting = csr.deleting /\ csr'.exists /\ (csr'.deleting => csr'.finalizer)
      BY <1>1, <1>2, <1>5
    <2>2. UniqueNames /\ ~csr'.deleting => Sound(csr)'
      <3>1. CASE mem.deleting
        <4>1. csr'.ready = csr.ready /\ csr'.resources = csr.resources
          BY <1>1, <1>2, <1>3, <1>5, <3>1 DEF IInv, DeletingPassIsMute
        <4> QED
          BY <2>1, <4>1 DEF IInv, CopiesAreSound, Sound
      <3>2. CASE ~mem.deleting
        BY <1>1, <1>2, <1>3, <1>5, <2>1, <3>2 DEF IInv, CopiesAreSound, Sound
      <3> QED
        BY <3>1, <3>2
    <2>3. cache.deleting => csr'.deleting \/ Fresh(csr')
      <3>1. CASE mem.deleting
        <4>1. csr'.ready = csr.ready /\ csr'.resources = csr.resources
          BY <1>1, <1>2, <1>3, <1>5, <3>1 DEF IInv, DeletingPassIsMute
        <4> QED
          BY <2>1, <4>1 DEF IInv, DeletionIsLate, Fresh
      <3>2. CASE ~mem.deleting
        BY <1>3, <2>1, <3>2 DEF IInv, DeletionIsLate
      <3> QED
        BY <3>1, <3>2
    <2> QED
      BY <2>1, <2>2, <2>3 DEF IInv, PassKnowsDeletion, DeletingPassIsMute, DeletionIsLate,
                              CopiesAreSound, InPass, Fresh, Sound
  <1> QED
    BY <1>4, <1>5

\* Every step keeps the inductive invariant; one case for each action.
LEMMA InvariantStep == IInv /\ [Next]_vars => IInv'
  <1> SUFFICES ASSUME IInv, [Next]_vars PROVE IInv'
    OBVIOUS
  <1>0. TypeOK /\ TypeOK' /\ mem \in Object
    BY TypeStep DEF IInv, TypeOK
  <1>1. CASE StartReconcile
    <2>1. /\ mem'.deleting = cache.deleting /\ mem'.ready = cache.ready
          /\ mem'.resources = cache.resources
      BY <1>0, <1>1 DEF StartReconcile, TypeOK, Object
    <2>2. base' = cache /\ pc = "idle" /\ pc' = "assets" /\ UNCHANGED <<csr, cache, live>>
      BY <1>1 DEF StartReconcile
    <2> QED
      BY <1>0, <2>1, <2>2 DEF IInv, PassKnowsDeletion, DeletingPassIsMute, DeletionIsLate,
                              CopiesAreSound, InPass, Fresh, Sound
  <1>2. CASE AssetsMissing
    BY <1>0, <1>2, MarkKeeps, QuietStep DEF AssetsMissing, PassKnowsDeletion, InPass, Conds
  <1>3. CASE AssetsBroken
    BY <1>0, <1>3, MarkKeeps, QuietStep DEF AssetsBroken, PassKnowsDeletion, InPass, Conds
  <1>4. CASE AssetsFound
    BY <1>0, <1>4, MarkKeeps, QuietStep DEF AssetsFound, PassKnowsDeletion, InPass, Conds
  <1>5. CASE Download
    BY <1>0, <1>5, MarkKeeps, QuietStep DEF Download, PassKnowsDeletion, InPass, Conds
  <1>6. CASE DownloadFails
    BY <1>0, <1>6, MarkKeeps, QuietStep DEF DownloadFails, PassKnowsDeletion, InPass, Conds
  <1>7. CASE ProviderDone
    <2>1. ~mem.deleting /\ InPass
      BY <1>7 DEF ProviderDone, IInv, PassKnowsDeletion, InPass
    <2>2. /\ mem'.deleting = mem.deleting /\ mem'.ready = mem.ready
          /\ mem'.resources = mem.resources
      BY <1>0, <1>7, MarkKeeps DEF ProviderDone, Conds
    <2>3. pc' \in {"patch", "apply"} /\ UNCHANGED <<csr, cache, base, live>>
      BY <1>7 DEF ProviderDone
    <2>4. PassKnowsDeletion'
      BY <2>1, <2>2, <2>3 DEF PassKnowsDeletion
    <2> QED
      BY <1>0, <2>1, <2>2, <2>3, <2>4, QuietStep
  <1>8. CASE ProviderNotReady
    BY <1>0, <1>8, MarkKeeps, QuietStep DEF ProviderNotReady, PassKnowsDeletion, InPass, Conds
  <1>9. CASE ProviderMissing
    BY <1>0, <1>9, QuietStep DEF ProviderMissing, PassKnowsDeletion, InPass
  <1>10. CASE Apply
    <2>1. /\ mem'.deleting = mem.deleting
          /\ mem'.resources = AppliedResources(Objects, mem.resources, {}, {}, {})
      BY <1>0, <1>10 DEF Apply, Object
    <2>2. /\ pc = "apply" /\ pc' = "patch" /\ UNCHANGED <<csr, cache, base>>
          /\ live' = LiveAfterApply(Objects, mem.resources, {}, {}, {}, live)
      BY <1>10 DEF Apply
    <2> QED
      BY <1>0, <2>1, <2>2, ApplyStep
  <1>11. CASE ApplyInPart
    <2>1. PICK noMapping, refused \in SUBSET ToApply(Objects, mem.resources) :
            /\ mem' = [mem EXCEPT
                         !.resources = AppliedResources(Objects, mem.resources, noMapping, refused, {}),
                         !.cond["HelmChartApplied"] = "False"]
            /\ live' = LiveAfterApply(Objects, mem.resources, noMapping, refused, {}, live)
      BY <1>11 DEF ApplyInPart
    <2>2. /\ mem'.deleting = mem.deleting /\ mem'.ready = mem.ready
          /\ mem'.resources = AppliedResources(Objects, mem.resources, noMapping, refused, {})
      BY <1>0, <2>1 DEF Object
    <2>3. pc = "apply" /\ pc' = "patch" /\ UNCHANGED <<csr, cache, base>>
      BY <1>11 DEF ApplyInPart
    <2> QED
      BY <1>0, <2>1, <2>2, <2>3, ApplyStep
  <1>12. CASE ApplyFails
    <2>1. pc = "apply" /\ pc' = "patch" /\ UNCHANGED <<csr, cache, base>> /\ live \subseteq live'
      BY <1>12 DEF ApplyFails
    <2>2. /\ mem'.deleting = mem.deleting /\ mem'.ready = mem.ready
          /\ mem'.resources = mem.resources
      BY <1>0, <1>12, MarkKeeps DEF ApplyFails, Conds
    <2> QED
      BY <1>0, <2>1, <2>2 DEF IInv, PassKnowsDeletion, DeletingPassIsMute, DeletionIsLate,
                              CopiesAreSound, InPass, Fresh, Sound
  <1>13. CASE CheckInUse
    <2>1. mem.deleting /\ InPass
      BY <1>13 DEF CheckInUse, IInv, PassKnowsDeletion, InPass
    <2>2. pc' \in {"patch", "delete"} /\ UNCHANGED <<csr, cache, base, mem, live>>
      BY <1>13 DEF CheckInUse
    <2>3. PassKnowsDeletion'
      BY <2>1, <2>2 DEF PassKnowsDeletion
    <2> QED
      BY <1>0, <2>1, <2>2, <2>3, QuietStep
  <1>14. CASE DeleteObjects
    <2>1. /\ mem'.deleting = mem.deleting /\ mem'.ready = mem.ready
          /\ mem'.resources = mem.resources
      BY <1>0, <1>14 DEF DeleteObjects, Object
    <2> QED
      BY <1>0, <1>14, <2>1, DeleteStep DEF DeleteObjects
  <1>15. CASE DeleteObjectsFails
    BY <1>0, <1>15, DeleteStep DEF DeleteObjectsFails
  <1>16. CASE Patch
    BY <1>0, <1>16, PatchStep DEF Patch, EndPass
  <1>17. CASE PatchInPart
    BY <1>0, <1>17, PatchStep DEF PatchInPart, EndPass
  <1>18. CASE PatchNotFound
    BY <1>0, <1>18 DEF PatchNotFound, EndPass, IInv, PassKnowsDeletion, DeletingPassIsMute,
                       DeletionIsLate, CopiesAreSound, InPass, Fresh, Sound
  <1>19. CASE CacheSync
    BY <1>0, <1>19 DEF CacheSync, IInv, PassKnowsDeletion, DeletingPassIsMute,
                       DeletionIsLate, CopiesAreSound, InPass, Fresh, Sound
  <1>20. CASE Create
    <2>1. csr' = Created /\ UNCHANGED <<cache, base, mem, pc, live>>
      BY <1>20 DEF Create
    <2>2. Fresh(csr') /\ ~csr'.deleting /\ ~csr'.finalizer /\ Sound(csr)' /\ ~csr.deleting
      BY <1>20, <2>1, AbsentIsFresh DEF Fresh, Sound, Create, IInv, DeletionIsLate
    <2> QED
      BY <1>0, <2>1, <2>2 DEF IInv, PassKnowsDeletion, DeletingPassIsMute,
                              DeletionIsLate, CopiesAreSound, InPass, Fresh, Sound
  <1>21. CASE AdmitDelete \/ Adopt \/ Leave
    BY <1>0, <1>21, ForeignStep DEF AdmitDelete, Adopt, Leave
  <1>22. CASE StoreDelete
    <2>1. UNCHANGED <<cache, base, mem, pc, live>>
      BY <1>22 DEF StoreDelete
    <2>2. CASE csr.finalizer
      <3>1. csr'.deleting /\ csr'.finalizer /\ csr'.exists
        BY <1>0, <1>22, <2>2 DEF StoreDelete, TypeOK, Object, IInv, DeletionIsLate
      <3> QED
        BY <1>0, <2>1, <3>1 DEF IInv, PassKnowsDeletion, DeletingPassIsMute,
                                DeletionIsLate, CopiesAreSound, InPass, Fresh, Sound
    <2>3. CASE ~csr.finalizer
      <3>1. csr' = Absent /\ ~csr.deleting
        BY <1>22, <2>3 DEF StoreDelete, IInv, DeletionIsLate
      <3>2. Fresh(csr') /\ ~csr'.deleting /\ ~csr'.finalizer /\ Sound(csr)'
        BY <3>1, AbsentIsFresh DEF Fresh, Sound
      <3> QED
        BY <1>0, <2>1, <3>1, <3>2 DEF IInv, PassKnowsDeletion, DeletingPassIsMute,
                                      DeletionIsLate, CopiesAreSound, InPass, Fresh, Sound
    <2> QED
      BY <2>2, <2>3
  <1>23. CASE ProviderCreated \/ ProviderBecomesReady \/ ProviderCollected
    BY <1>0, <1>23, ForeignStep DEF ProviderCreated, ProviderBecomesReady, ProviderCollected
  <1>24. CASE Restart
    BY <1>0, <1>24 DEF Restart, IInv, PassKnowsDeletion, DeletingPassIsMute,
                       DeletionIsLate, CopiesAreSound, InPass, Fresh, Sound
  <1>25. CASE UNCHANGED vars
    BY <1>0, <1>25, ForeignStep DEF vars
  <1> QED
    BY <1>1, <1>2, <1>3, <1>4, <1>5, <1>6, <1>7, <1>8, <1>9, <1>10, <1>11, <1>12, <1>13,
       <1>14, <1>15, <1>16, <1>17, <1>18, <1>19, <1>20, <1>21, <1>22, <1>23, <1>24, <1>25
       DEF Next, Controller, Environment

\* If no two objects of a chart share their namespace and name, a release that
\* reports status.ready and is not being deleted has its whole chart in the
\* cluster, whatever is lost, retried, restarted, deleted, created again or read
\* from a stale cache.
THEOREM ReadyIsApplied ==
    ASSUME UniqueNames
    PROVE  Spec => []ReadyMeansApplied
  <1>1. IInv => ReadyMeansApplied
    BY DEF IInv, CopiesAreSound, Sound, ReadyMeansApplied
  <1> QED
    BY <1>1, InvariantInit, InvariantStep, PTL DEF Spec

-----------------------------------------------------------------------------
(* A release in use is not let go.                                         *)

\* In the stable channel the two spellings of a name agree, and reconcileDelete
\* recognises the class that a Cluster uses.
LEMMA StableIsSeen == IsStable(Release) => (SeenInUse <=> used)
  BY DEF SeenInUse, String, StringWithDot, IsStable

\* A step that neither takes the finalizer off nor adds a Cluster.
LEMMA FinalizerKeptStep ==
    ASSUME UseIsChecked, mem.finalizer, mem'.finalizer = mem.finalizer, pc' # "delete"
    PROVE  UseIsChecked'
  BY DEF UseIsChecked, InPass

\* Every step keeps the finalizer of the copy unless no Cluster uses the release.
LEMMA UseStep == IInv /\ UseIsChecked /\ [Next]_vars => UseIsChecked'
  <1> SUFFICES ASSUME IInv, UseIsChecked, [Next]_vars PROVE UseIsChecked'
    OBVIOUS
  <1>0. mem \in Object /\ mem.finalizer \in BOOLEAN /\ used \in BOOLEAN
    BY DEF IInv, TypeOK, Object
  <1>1. pc \notin {"idle", "patch"} => mem.finalizer
    BY <1>0 DEF UseIsChecked, InPass
  <1>2. CASE StartReconcile
    <2>1. mem'.finalizer /\ pc' = "assets"
      BY <1>2 DEF StartReconcile, IInv, TypeOK, Object
    <2> QED
      BY <2>1 DEF UseIsChecked, InPass
  <1>3. CASE AssetsMissing \/ AssetsBroken \/ AssetsFound
    <2>1. pc = "assets" /\ mem'.finalizer = mem.finalizer /\ pc' # "delete"
      BY <1>0, <1>3, MarkKeeps DEF AssetsMissing, AssetsBroken, AssetsFound, Conds
    <2> QED
      BY <1>1, <2>1, FinalizerKeptStep
  <1>4. CASE Download \/ DownloadFails
    <2>1. pc = "download" /\ mem'.finalizer = mem.finalizer /\ pc' # "delete"
      BY <1>0, <1>4, MarkKeeps DEF Download, DownloadFails, Conds
    <2> QED
      BY <1>1, <2>1, FinalizerKeptStep
  <1>5. CASE ProviderDone \/ ProviderNotReady \/ ProviderMissing
    <2>1. pc = "provider" /\ mem'.finalizer = mem.finalizer /\ pc' # "delete"
      BY <1>0, <1>5, MarkKeeps DEF ProviderDone, ProviderNotReady, ProviderMissing, Conds
    <2> QED
      BY <1>1, <2>1, FinalizerKeptStep
  <1>6. CASE Apply \/ ApplyInPart \/ ApplyFails
    <2>1. pc = "apply" /\ pc' # "delete"
      BY <1>6 DEF Apply, ApplyInPart, ApplyFails
    <2>2. mem'.finalizer = mem.finalizer
      BY <1>0, <1>6, MarkKeeps DEF Apply, ApplyInPart, ApplyFails, Conds, Object
    <2> QED
      BY <1>1, <2>1, <2>2, FinalizerKeptStep
  <1>7. CASE CheckInUse
    <2>1. mem.finalizer /\ UNCHANGED <<mem, used>>
      BY <1>1, <1>7 DEF CheckInUse, world
    <2>2. IsStable(Release) /\ pc' = "delete" => ~used
      BY <1>7, StableIsSeen DEF CheckInUse
    <2> QED
      BY <2>1, <2>2 DEF UseIsChecked, InPass
  <1>8. CASE DeleteObjects
    <2>1. pc = "delete" /\ pc' = "patch" /\ used' = used /\ mem'.deleting = mem.deleting
      BY <1>0, <1>8 DEF DeleteObjects, world, Object
    <2>2. mem.deleting
      BY <2>1 DEF IInv, PassKnowsDeletion
    <2> QED
      BY <2>1, <2>2 DEF UseIsChecked, InPass
  <1>9. CASE DeleteObjectsFails
    BY <1>1, <1>9, FinalizerKeptStep DEF DeleteObjectsFails
  <1>10. CASE Patch \/ PatchInPart \/ PatchNotFound \/ Restart
    BY <1>10 DEF Patch, PatchInPart, PatchNotFound, EndPass, Restart, UseIsChecked, InPass
  <1>11. CASE Adopt
    <2>1. csr.ready /\ ~csr.deleting /\ UNCHANGED <<mem, pc>>
      BY <1>11 DEF Adopt
    <2>2. ~(InPass /\ mem.deleting)
      BY <2>1 DEF IInv, DeletionIsLate, Fresh
    <2> QED
      BY <2>1, <2>2 DEF UseIsChecked, InPass, IInv, PassKnowsDeletion
  <1>12. CASE Leave
    BY <1>12 DEF Leave, UseIsChecked, InPass
  <1>13. CASE CacheSync \/ Create
    BY <1>13 DEF CacheSync, Create, world, UseIsChecked, InPass
  <1>14. CASE AdmitDelete \/ StoreDelete
    BY <1>14 DEF AdmitDelete, StoreDelete, UseIsChecked, InPass
  <1>15. CASE ProviderCreated \/ ProviderBecomesReady \/ ProviderCollected
    BY <1>15 DEF ProviderCreated, ProviderBecomesReady, ProviderCollected, UseIsChecked, InPass
  <1>16. CASE UNCHANGED vars
    BY <1>16 DEF vars, world, UseIsChecked, InPass
  <1> QED
    BY <1>2, <1>3, <1>4, <1>5, <1>6, <1>7, <1>8, <1>9, <1>10, <1>11, <1>12, <1>13, <1>14,
       <1>15, <1>16 DEF Next, Controller, Environment

\* The deferred patch lets an object go only if the copy has lost its finalizer.
LEMMA PatchedAway ==
    ASSUME csr \in Object, base \in Object, mem \in Object, csr.exists,
           csr.finalizer, NEW parts, ~Patched(parts).exists
    PROVE  ~FinalizerAfter
  <1> SUFFICES ASSUME FinalizerAfter PROVE FALSE
    OBVIOUS
  <1>1. FinalizerAfter = TRUE
    BY DEF FinalizerAfter, Object
  <1> DEFINE finalizer == IF "metadata" \in parts
                          THEN Changed(base.finalizer, FinalizerAfter, csr.finalizer)
                          ELSE csr.finalizer
  <1>2. finalizer
    BY <1>1 DEF Changed
  <1> HIDE DEF finalizer
  <1> DEFINE obj(c, f, r, q) ==
               [csr EXCEPT !.cond = c, !.finalizer = f, !.ready = r, !.resources = q]
  <1>3. \E c, f, r, q : Patched(parts) = obj(c, f, r, q)
    BY <1>2 DEF Patched, finalizer
  <1>4. \A c, f, r, q : obj(c, f, r, q).exists = csr.exists
    BY DEF Object
  <1> QED
    BY <1>3, <1>4

\* A patch lets an object in use go only if the pass has missed the assets.
LEMMA PatchedInUse ==
    ASSUME IsStable(Release), IInv, UseIsChecked, Patch \/ PatchInPart,
           csr.deleting, used, ~csr'.exists
    PROVE  mem.cond["AssetsReady"] = "False"
  <1>1. csr \in Object /\ base \in Object /\ mem \in Object /\ csr.finalizer
    BY DEF IInv, TypeOK, DeletionIsLate
  <1>2. ~FinalizerAfter /\ pc = "patch"
    BY <1>1, PatchedAway DEF Patch, PatchInPart
  <1>3. mem.finalizer
    BY <1>2 DEF UseIsChecked, InPass
  <1> QED
    BY <1>2, <1>3 DEF FinalizerAfter

\* In the stable channel reconcileDelete never lets a release go that a Cluster
\* uses, however the deletion, its admission, a new Cluster and a recreated object
\* interleave; the exception is a release whose assets are not on disk.
THEOREM InUseIsKept ==
    ASSUME IsStable(Release)
    PROVE  Spec => InUseBlocksRelease
  <1>1. Init => UseIsChecked
    BY DEF Init, UseIsChecked, InPass
  <1>2. ASSUME IInv, UseIsChecked, [Next]_vars,
               csr.exists, csr.deleting, used, ~csr'.exists
        PROVE  mem.cond["AssetsReady"] = "False"
    <2>1. csr \in Object /\ csr.finalizer
      BY <1>2 DEF IInv, TypeOK, DeletionIsLate
    <2>2. Patch \/ PatchInPart
      <3>1. CASE StoreDelete
        BY <1>2, <2>1, <3>1 DEF StoreDelete, Object
      <3>2. CASE UNCHANGED csr
        BY <1>2, <3>2
      <3> QED
        BY <1>2, <3>1, <3>2
        DEF Next, Controller, Environment, StartReconcile, AssetsMissing, AssetsBroken, AssetsFound,
            Download, DownloadFails, ProviderDone, ProviderNotReady, ProviderMissing,
            Apply, ApplyInPart, ApplyFails, CheckInUse, DeleteObjects, DeleteObjectsFails,
            PatchNotFound, CacheSync, Create, AdmitDelete, Adopt, Leave,
            ProviderCreated, ProviderBecomesReady, ProviderCollected, Restart, vars
    <2> QED
      BY <1>2, <2>2, PatchedInUse
  <1>3. IInv /\ UseIsChecked /\ [Next]_vars =>
          [csr.exists /\ csr.deleting /\ used /\ ~csr'.exists
              => mem.cond["AssetsReady"] = "False"]_vars
    BY <1>2
  <1> QED
    BY <1>1, <1>3, InvariantInit, InvariantStep, UseStep, PTL DEF Spec, InUseBlocksRelease

\* If moreover no two objects of a chart share their namespace and name, the class
\* that a Cluster uses keeps all its objects.
THEOREM AdoptedIsApplied ==
    ASSUME UniqueNames, IsStable(Release)
    PROVE  Spec => []AdoptedClassStaysApplied
  <1>1. Init => UseIsChecked /\ AdoptedClassStaysApplied
    BY DEF Init, UseIsChecked, InPass, AdoptedClassStaysApplied
  <1>2. ASSUME IInv, UseIsChecked, AdoptedClassStaysApplied, [Next]_vars
        PROVE  AdoptedClassStaysApplied'
    <2>1. CASE Adopt
      <3>1. csr.ready /\ ~csr.deleting /\ live' = live
        BY <2>1 DEF Adopt
      <3> QED
        BY <1>2, <3>1 DEF IInv, CopiesAreSound, Sound, AdoptedClassStaysApplied
    <2>2. CASE DeleteObjects \/ DeleteObjectsFails
      <3>1. live' = live \/ pc = "delete"
        BY <2>2 DEF DeleteObjects, DeleteObjectsFails
      <3>2. used' = used
        BY <2>2 DEF DeleteObjects, DeleteObjectsFails, world
      <3> QED
        BY <1>2, <3>1, <3>2 DEF UseIsChecked, AdoptedClassStaysApplied
    <2>3. CASE Apply \/ ApplyInPart \/ ApplyFails
      <3>1. mem.resources \in Resources
        BY <1>2 DEF IInv, TypeOK, Object
      <3>2. live \subseteq live' /\ used' = used
        BY <2>3, <3>1, SkipsSynced
        DEF Apply, ApplyInPart, ApplyFails, LiveAfterApply, world
      <3> QED
        BY <1>2, <3>2 DEF AdoptedClassStaysApplied
    <2>4. CASE used' \in {used, FALSE} /\ live' = live
      BY <1>2, <2>4 DEF AdoptedClassStaysApplied
    <2> QED
      BY <1>2, <2>1, <2>2, <2>3, <2>4
      DEF Next, Controller, Environment, StartReconcile, AssetsMissing, AssetsBroken, AssetsFound,
          Download, DownloadFails, ProviderDone, ProviderNotReady, ProviderMissing,
          CheckInUse, Patch, PatchInPart, PatchNotFound, EndPass, CacheSync, Create, AdmitDelete,
          StoreDelete, Leave, ProviderCreated, ProviderBecomesReady, ProviderCollected, Restart,
          world, vars
  <1>3. IInv /\ UseIsChecked /\ AdoptedClassStaysApplied /\ [Next]_vars
          => AdoptedClassStaysApplied'
    BY <1>2
  <1> QED
    BY <1>1, <1>3, InvariantInit, InvariantStep, UseStep, PTL DEF Spec

-----------------------------------------------------------------------------
(* The controller keeps the contract of a release.                         *)

\* The assets were there when the pass looked, and still are.
AssetsChecked == disk = "good" /\ mem.cond["AssetsReady"] = "True"

\* Only a stored object is ready, and a pass sets status.ready with the assets on
\* disk, and only at its end.
ReadyIsEarned ==
    /\ csr.ready => csr.exists
    /\ pc \in {"provider", "apply", "checkInUse", "delete"} => AssetsChecked
    /\ InPass /\ base.ready # mem.ready => pc = "patch" /\ mem.ready /\ AssetsChecked

CInv == IInv /\ UseIsChecked /\ ReadyIsEarned

\* Setting a condition sets that condition and no other one.
LEMMA MarkSets ==
    ASSUME mem \in Object, NEW c \in Conds, NEW v \in {"Unknown", "True", "False"}, Mark(c, v)
    PROVE  mem'.cond["AssetsReady"] = IF c = "AssetsReady" THEN v ELSE mem.cond["AssetsReady"]
  BY DEF Mark, Object, Conds

\* A step inside a pass, before its patch, that leaves status.ready alone.
LEMMA ReadyUntouched ==
    ASSUME ReadyIsEarned, InPass, pc # "patch", UNCHANGED <<csr, base>>, mem'.ready = mem.ready,
           pc' \in {"provider", "apply", "checkInUse", "delete"} => AssetsChecked'
    PROVE  ReadyIsEarned'
  BY DEF ReadyIsEarned, InPass

\* A step of somebody else that leaves the object and the pass alone.
LEMMA EarnedForeignStep ==
    ASSUME ReadyIsEarned, UNCHANGED <<base, mem, pc, disk>>, csr'.ready => csr'.exists
    PROVE  ReadyIsEarned'
  BY DEF ReadyIsEarned, InPass, AssetsChecked

\* Every step keeps it so that status.ready is earned.
LEMMA EarnedStep == IInv /\ ReadyIsEarned /\ [Next]_vars => ReadyIsEarned'
  <1> SUFFICES ASSUME IInv, ReadyIsEarned, [Next]_vars PROVE ReadyIsEarned'
    OBVIOUS
  <1>0. csr \in Object /\ base \in Object /\ mem \in Object /\ cache \in Object
    BY DEF IInv, TypeOK
  <1>1. CASE StartReconcile
    <2>1. mem'.ready = base'.ready /\ pc' = "assets" /\ csr' = csr
      BY <1>0, <1>1 DEF StartReconcile, Object
    <2> QED
      BY <2>1 DEF ReadyIsEarned
  <1>2. CASE AssetsMissing \/ AssetsBroken \/ AssetsFound
    <2>1. pc = "assets" /\ UNCHANGED <<csr, base, disk>> /\ mem'.ready = mem.ready
      BY <1>0, <1>2, MarkKeeps DEF AssetsMissing, AssetsBroken, AssetsFound, Conds
    <2>2. pc' \in {"provider", "apply", "checkInUse", "delete"} => AssetsChecked'
      BY <1>0, <1>2, <2>1, MarkSets
      DEF AssetsMissing, AssetsBroken, AssetsFound, AssetsChecked, Conds
    <2> QED
      BY <2>1, <2>2, ReadyUntouched DEF InPass
  <1>3. CASE Download \/ DownloadFails
    <2>1. pc = "download" /\ pc' = "patch" /\ UNCHANGED <<csr, base>> /\ mem'.ready = mem.ready
      BY <1>0, <1>3, MarkKeeps DEF Download, DownloadFails, Conds
    <2> QED
      BY <2>1, ReadyUntouched DEF InPass
  <1>4. CASE ProviderDone \/ ProviderNotReady \/ ProviderMissing
    <2>1. pc = "provider" /\ UNCHANGED <<csr, base, disk>> /\ mem'.ready = mem.ready
      BY <1>0, <1>4, MarkKeeps DEF ProviderDone, ProviderNotReady, ProviderMissing, Conds
    <2>2. mem'.cond["AssetsReady"] = mem.cond["AssetsReady"]
      BY <1>0, <1>4, MarkSets DEF ProviderDone, ProviderNotReady, ProviderMissing, Conds
    <2> QED
      BY <2>1, <2>2, ReadyUntouched DEF InPass, ReadyIsEarned, AssetsChecked
  <1>5. CASE Apply
    <2>1. pc = "apply" /\ pc' = "patch" /\ UNCHANGED <<csr, base, disk>>
      BY <1>5 DEF Apply
    <2>2. mem'.ready /\ mem'.cond["AssetsReady"] = mem.cond["AssetsReady"]
      BY <1>0, <1>5 DEF Apply, Object, Conds
    <2> QED
      BY <2>1, <2>2 DEF ReadyIsEarned, AssetsChecked
  <1>6. CASE ApplyInPart \/ ApplyFails
    <2>1. pc = "apply" /\ pc' = "patch" /\ UNCHANGED <<csr, base>>
      BY <1>6 DEF ApplyInPart, ApplyFails
    <2>2. mem'.ready = mem.ready
      BY <1>0, <1>6, MarkKeeps DEF ApplyInPart, ApplyFails, Object, Conds
    <2> QED
      BY <2>1, <2>2, ReadyUntouched DEF InPass
  <1>7. CASE CheckInUse \/ DeleteObjectsFails
    BY <1>7, ReadyUntouched
    DEF CheckInUse, DeleteObjectsFails, InPass, ReadyIsEarned, AssetsChecked
  <1>8. CASE DeleteObjects
    <2>1. pc = "delete" /\ pc' = "patch" /\ UNCHANGED <<csr, base>> /\ mem'.ready = mem.ready
      BY <1>0, <1>8 DEF DeleteObjects, Object
    <2> QED
      BY <2>1, ReadyUntouched DEF InPass
  <1>9. CASE Patch \/ PatchInPart
    <2>1. pc' = "idle" /\ csr.exists /\ \E parts : csr' = Patched(parts)
      BY <1>9 DEF Patch, PatchInPart, EndPass
    <2>2. csr'.ready => csr'.exists
      BY <1>0, <2>1, PatchedStatus, AbsentIsFresh DEF Fresh
    <2> QED
      BY <2>1, <2>2 DEF ReadyIsEarned, InPass
  <1>10. CASE PatchNotFound \/ Restart
    BY <1>10 DEF PatchNotFound, EndPass, Restart, ReadyIsEarned, InPass
  <1>11. CASE Create
    <2>1. csr'.exists
      BY <1>11 DEF Create, Created, Absent
    <2> QED
      BY <1>11, <2>1, EarnedForeignStep DEF Create
  <1>12. CASE StoreDelete
    <2>1. csr'.ready => csr'.exists
      BY <1>0, <1>12, AbsentIsFresh DEF StoreDelete, Fresh, ReadyIsEarned, Object
    <2> QED
      BY <1>12, <2>1, EarnedForeignStep DEF StoreDelete
  <1>13. CASE CacheSync \/ AdmitDelete \/ Adopt \/ Leave \/ ProviderCreated
                \/ ProviderBecomesReady \/ ProviderCollected \/ UNCHANGED vars
    BY <1>13, EarnedForeignStep
    DEF CacheSync, AdmitDelete, Adopt, Leave, ProviderCreated, ProviderBecomesReady,
        ProviderCollected, vars, ReadyIsEarned
  <1> QED
    BY <1>1, <1>2, <1>3, <1>4, <1>5, <1>6, <1>7, <1>8, <1>9, <1>10, <1>11, <1>12, <1>13
    DEF Next, Controller, Environment

\* A step that leaves the object and its use alone.
LEMMA OnlyAssetsChange ==
    ASSUME UNCHANGED <<csr, used>>
    PROVE  [Contract!Next]_(Contract!vars)
  <1>1. AssetsSeen' \in BOOLEAN
    BY DEF AssetsSeen
  <1> QED
    BY <1>1 DEF Contract!Next, Contract!AssetsChange, Contract!vars, Contract!object

\* The deferred patch sets status.ready with the assets in sight, lets the object
\* go, or changes nothing that the contract speaks of.
LEMMA PatchKeepsContract ==
    ASSUME IsStable(Release), CInv, Patch \/ PatchInPart
    PROVE  [Contract!Next]_(Contract!vars)
  <1>0. csr \in Object /\ base \in Object /\ mem \in Object
    BY DEF CInv, IInv, TypeOK
  <1>1. pc = "patch" /\ pc' = "idle" /\ csr.exists /\ UNCHANGED <<disk, used>>
    BY DEF Patch, PatchInPart, EndPass, world
  <1>2. PICK parts : csr' = Patched(parts)
    BY DEF Patch, PatchInPart
  <1>3. AssetsSeen => AssetsSeen'
    BY <1>1 DEF AssetsSeen
  <1>4. CASE csr.deleting /\ csr' = Absent
    <2>1. ~csr'.exists /\ ~csr'.deleting /\ ~csr'.ready
      BY <1>4 DEF Absent
    <2>2. used => ~AssetsSeen
      BY <1>1, <1>4, <2>1, PatchedInUse DEF CInv, AssetsSeen
    <2> QED
      BY <1>1, <1>3, <1>4, <2>1, <2>2 DEF Contract!Next, Contract!LetGo, Contract!Gone
  <1>5. CASE csr'.deleting = csr.deleting /\ csr'.exists = csr.exists /\ csr'.ready = csr.ready
    <2>1. AssetsSeen' \in BOOLEAN
      BY DEF AssetsSeen
    <2> QED
      BY <1>1, <1>5, <2>1
      DEF Contract!Next, Contract!AssetsChange, Contract!vars, Contract!object
  <1>6. CASE /\ csr'.deleting = csr.deleting /\ csr'.exists = csr.exists
             /\ csr'.ready = mem.ready /\ base.ready # mem.ready
    <2>1. mem.ready /\ AssetsChecked
      BY <1>1, <1>6 DEF CInv, ReadyIsEarned, InPass
    <2>2. AssetsSeen /\ AssetsSeen' /\ (AssetsSeen' = AssetsSeen)
      BY <1>1, <2>1 DEF AssetsSeen, AssetsChecked
    <2> QED
      BY <1>1, <1>6, <2>1, <2>2 DEF Contract!Next, Contract!BecomeReady
  <1> QED
    BY <1>0, <1>2, <1>4, <1>5, <1>6, PatchedStatus

\* In the stable channel every step is a step of the contract, or nothing to it.
LEMMA ContractStep ==
    ASSUME IsStable(Release), CInv, [Next]_vars
    PROVE  [Contract!Next]_(Contract!vars)
  <1>0. csr \in Object
    BY DEF CInv, IInv, TypeOK
  <1>1. CASE Patch \/ PatchInPart
    BY <1>1, PatchKeepsContract
  <1>2. CASE Create
    <2>1. ~csr.exists /\ csr'.exists /\ ~csr'.deleting /\ ~csr'.ready
      BY <1>2 DEF Create, Created, Absent
    <2>2. UNCHANGED <<AssetsSeen, used>>
      BY <1>2 DEF Create, AssetsSeen, world
    <2> QED
      BY <2>1, <2>2 DEF Contract!Next, Contract!Create
  <1>3. CASE StoreDelete
    <2>1. UNCHANGED <<AssetsSeen, used>>
      BY <1>3 DEF StoreDelete, AssetsSeen
    <2>2. CASE csr.finalizer
      <3>1. csr.exists /\ csr'.deleting /\ csr'.exists = csr.exists /\ csr'.ready = csr.ready
        BY <1>0, <1>3, <2>2 DEF StoreDelete, CInv, IInv, DeletionIsLate, Object
      <3> QED
        BY <2>1, <3>1 DEF Contract!Next, Contract!Delete
    <2>3. CASE ~csr.finalizer
      <3>1. ~csr'.exists /\ ~csr'.deleting /\ ~csr'.ready
        BY <1>3, <2>3 DEF StoreDelete, Absent
      <3>2. ~csr.exists => ~csr.ready /\ ~csr.deleting
        BY <2>3 DEF CInv, IInv, DeletionIsLate, ReadyIsEarned
      <3>3. CASE csr.exists
        BY <2>1, <3>1, <3>3 DEF Contract!Next, Contract!Delete, Contract!Gone
      <3>4. CASE ~csr.exists
        <4>1. csr'.exists = csr.exists /\ csr'.deleting = csr.deleting /\ csr'.ready = csr.ready
          BY <1>0, <1>3, <2>3, <3>2, <3>4 DEF StoreDelete, Absent, Object
        <4> QED
          BY <2>1, <4>1 DEF Contract!vars, Contract!object
      <3> QED
        BY <3>3, <3>4
    <2> QED
      BY <2>2, <2>3
  <1>4. CASE Adopt
    <2>1. UNCHANGED <<csr, AssetsSeen>>
      BY <1>4 DEF Adopt, AssetsSeen
    <2> QED
      BY <1>4, <2>1 DEF Adopt, Contract!Next, Contract!Adopt, Contract!object
  <1>5. CASE Leave
    <2>1. UNCHANGED <<csr, AssetsSeen>>
      BY <1>5 DEF Leave, AssetsSeen
    <2> QED
      BY <1>5, <2>1 DEF Leave, Contract!Next, Contract!Leave, Contract!object
  <1>6. CASE UNCHANGED <<csr, used>>
    BY <1>6, OnlyAssetsChange
  <1> QED
    BY <1>1, <1>2, <1>3, <1>4, <1>5, <1>6
    DEF Next, Controller, Environment, StartReconcile, AssetsMissing, AssetsBroken, AssetsFound,
        Download, DownloadFails, ProviderDone, ProviderNotReady, ProviderMissing,
        Apply, ApplyInPart, ApplyFails, CheckInUse, DeleteObjects, DeleteObjectsFails,
        PatchNotFound, EndPass, CacheSync, AdmitDelete, ProviderCreated,
        ProviderBecomesReady, ProviderCollected, Restart, world, vars

\* In the stable channel the controller, with its stale cache, its merge of a working
\* copy in three writes and its restarts, implements the contract of module
\* ReleaseContract.
THEOREM ContractIsKept ==
    ASSUME IsStable(Release)
    PROVE  Spec => KeepsContract
  <1>1. Init => CInv /\ Contract!Init
    <2> SUFFICES ASSUME Init PROVE CInv /\ Contract!Init
      OBVIOUS
    <2>1. UseIsChecked /\ ReadyIsEarned
      BY DEF Init, Absent, UseIsChecked, ReadyIsEarned, InPass
    <2>2. Contract!Init
      BY DEF Init, Absent, AssetsSeen, Contract!Init
    <2> QED
      BY <2>1, <2>2, InvariantInit DEF CInv
  <1>2. CInv /\ [Next]_vars => CInv'
    BY InvariantStep, UseStep, EarnedStep DEF CInv
  <1>3. CInv /\ [Next]_vars => [Contract!Next]_(Contract!vars)
    BY ContractStep
  <1> QED
    BY <1>1, <1>2, <1>3, PTL DEF Spec, KeepsContract, Contract!Spec
=============================================================================
