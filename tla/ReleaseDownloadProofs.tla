----------------------- MODULE ReleaseDownloadProofs -----------------------
(***************************************************************************)
(* Theorems about ReleaseDownload, for any number of workers, assets and   *)
(* faults.  The mutex of a controller excludes its workers from each other *)
(* because whoever downloads holds it; that the ClusterAddon controller    *)
(* does not always give it back does not matter for that.  Nothing partial *)
(* is left behind because, while the directory is there, some worker will  *)
(* still write whatever is missing in it (Covered).                        *)
(***************************************************************************)
EXTENDS ReleaseDownload, TLAPS

\* Whoever downloads holds the mutex of its controller.
DownloaderHolds == \A w \in Workers : Downloading(w) => holder[MutexOf(w)] = w

\* The initial state is well typed.
LEMMA TypeInit == Init => TypeOK
  <1> SUFFICES ASSUME Init PROVE TypeOK
    OBVIOUS
  <1>1. at \in [Workers -> Assets] /\ faults \in 0..MaxFaults
    BY DownloadAssumption DEF Init, Assets
  <1>2. /\ file \in [Assets -> {"absent", "partial", "full"}]
        /\ holder \in [Mutexes -> Workers \cup {Nobody}]
        /\ pc \in [Workers -> {"idle", "use", "lock", "locked", "create", "copy", "unlock"}]
    BY DEF Init
  <1>3. dir \in BOOLEAN /\ removeFailed \in BOOLEAN /\ unlinked \subseteq Workers
    BY DEF Init
  <1> QED
    BY <1>1, <1>2, <1>3 DEF TypeOK

\* Every worker belongs to one of the two controllers.
LEMMA MutexOfType == \A w : MutexOf(w) \in Mutexes
  BY DEF MutexOf, Mutexes

\* Every step keeps the types; one case for each action.
LEMMA TypeStep == TypeOK /\ [Next]_vars => TypeOK'
  <1> SUFFICES ASSUME TypeOK, [Next]_vars PROVE TypeOK'
    OBVIOUS
  <1> USE DownloadAssumption, MutexOfType DEF TypeOK
  <1>1. ASSUME NEW w \in Workers, LookMissing(w) \/ LookFound(w) \/ LookBroken(w) \/ Used(w)
        PROVE  TypeOK'
    BY <1>1 DEF LookMissing, LookFound, LookBroken, Used, Go, vars
  <1>2. ASSUME NEW w \in Workers, Lock(w) \/ NoClient(w) \/ Finish(w)
        PROVE  TypeOK'
    BY <1>2 DEF Lock, NoClient, Finish, Go, Unlock, Fault
  <1>3. ASSUME NEW w \in Workers, MakeDirectory(w)
        PROVE  TypeOK'
    BY <1>3 DEF MakeDirectory, Go, Assets
  <1>4. ASSUME NEW w \in Workers, CreateFile(w)
        PROVE  TypeOK'
    BY <1>4 DEF CreateFile, Go
  <1>5. ASSUME NEW w \in Workers, CopyFile(w)
        PROVE  TypeOK'
    <2>1. file' \in [Assets -> {"absent", "partial", "full"}]
      BY <1>5 DEF CopyFile
    <2>2. at' \in [Workers -> Assets]
      BY <1>5 DEF CopyFile, Assets
    <2>3. pc' \in [Workers -> {"idle", "use", "lock", "locked", "create", "copy", "unlock"}]
      BY <1>5 DEF CopyFile, Go
    <2> QED
      BY <1>5, <2>1, <2>2, <2>3 DEF CopyFile
  <1>6. ASSUME NEW w \in Workers, Fail(w) \/ FailToRemove(w)
        PROVE  TypeOK'
    <2>1. holder' \in [Mutexes -> Workers \cup {Nobody}]
      BY <1>6 DEF Fail, FailToRemove, UnlockAfterFailure, Unlock
    <2>2. at' \in [Workers -> Assets]
      BY <1>6 DEF Fail, FailToRemove, Assets
    <2>3. faults' \in 0..MaxFaults
      BY <1>6 DEF Fail, FailToRemove, DownloadFails, Fault
    <2>4. pc' \in [Workers -> {"idle", "use", "lock", "locked", "create", "copy", "unlock"}]
      BY <1>6 DEF Fail, FailToRemove, Go
    <2>5. file' \in [Assets -> {"absent", "partial", "full"}] /\ unlinked' \subseteq Workers
      BY <1>6 DEF Fail, FailToRemove
    <2>6. dir' \in BOOLEAN /\ removeFailed' \in BOOLEAN
      BY <1>6 DEF Fail, FailToRemove
    <2> QED
      BY <2>1, <2>2, <2>3, <2>4, <2>5, <2>6
  <1>7. CASE Restart
    <2>1. at' \in [Workers -> Assets] /\ faults' \in 0..MaxFaults
      BY <1>7 DEF Restart, Fault, Assets
    <2>2. /\ file' \in [Assets -> {"absent", "partial", "full"}]
          /\ holder' \in [Mutexes -> Workers \cup {Nobody}]
          /\ pc' \in [Workers -> {"idle", "use", "lock", "locked", "create", "copy", "unlock"}]
      BY <1>7 DEF Restart
    <2>3. dir' \in BOOLEAN /\ removeFailed' \in BOOLEAN /\ unlinked' \subseteq Workers
      BY <1>7 DEF Restart
    <2> QED
      BY <2>1, <2>2, <2>3
  <1>8. CASE UNCHANGED vars
    BY <1>8 DEF vars
  <1> QED
    BY <1>1, <1>2, <1>3, <1>4, <1>5, <1>6, <1>7, <1>8 DEF Next, Step

\* Every step keeps downloaders in possession of their mutex.
LEMMA HoldsStep == TypeOK /\ DownloaderHolds /\ [Next]_vars => DownloaderHolds'
  <1> SUFFICES ASSUME TypeOK, DownloaderHolds, [Next]_vars PROVE DownloaderHolds'
    OBVIOUS
  <1> USE MutexOfType, DownloadAssumption DEF DownloaderHolds, Downloading
  <1>1. ASSUME NEW w \in Workers, pc' = [pc EXCEPT ![w] = pc'[w]], holder' = holder,
               pc'[w] \in {"idle", "lock", "use"} \/ Downloading(w)
        PROVE  DownloaderHolds'
    BY <1>1 DEF TypeOK
  <1>2. ASSUME NEW w \in Workers, Downloading(w), pc' = [pc EXCEPT ![w] = "idle"], Unlock(w)
        PROVE  DownloaderHolds'
    BY <1>2 DEF TypeOK, Unlock
  <1>3. ASSUME NEW w \in Workers, LookMissing(w) \/ LookFound(w) \/ Used(w)
        PROVE  DownloaderHolds'
    BY <1>1, <1>3 DEF LookMissing, LookFound, Used, Go, TypeOK
  <1>4. ASSUME NEW w \in Workers, Lock(w)
        PROVE  DownloaderHolds'
    BY <1>4 DEF Lock, Go, TypeOK
  <1>5. ASSUME NEW w \in Workers, MakeDirectory(w) \/ CreateFile(w) \/ CopyFile(w)
        PROVE  DownloaderHolds'
    BY <1>1, <1>5 DEF MakeDirectory, CreateFile, CopyFile, Go, TypeOK
  <1>6. ASSUME NEW w \in Workers, NoClient(w) \/ Finish(w)
        PROVE  DownloaderHolds'
    BY <1>2, <1>6 DEF NoClient, Finish, Go
  <1>7. ASSUME NEW w \in Workers, Fail(w) \/ FailToRemove(w)
        PROVE  DownloaderHolds'
    <2>1. Downloading(w) /\ pc' = [pc EXCEPT ![w] = "idle"] /\ UnlockAfterFailure(w)
      BY <1>7 DEF Fail, FailToRemove, DownloadFails, Go
    <2> QED
      BY <1>1, <1>2, <2>1 DEF UnlockAfterFailure, TypeOK
  <1>8. CASE Restart
    BY <1>8 DEF Restart
  <1>9. CASE UNCHANGED vars
    BY <1>9 DEF vars
  <1> QED
    BY <1>3, <1>4, <1>5, <1>6, <1>7, <1>8, <1>9 DEF Next, Step, LookBroken

\* The state of the download directory, the mutexes and the workers keeps its type.
THEOREM TypeCorrect == Spec => []TypeOK
  BY TypeInit, TypeStep, PTL DEF Spec

\* However many workers a controller has, only one of them downloads the release at
\* a time (clusterStackRelDownloadDirectoryMutex).
THEOREM OneDownloads == Spec => []OneDownloaderPerController
  <1>1. Init => DownloaderHolds
    BY DEF Init, DownloaderHolds, Downloading
  <1>2. DownloaderHolds => OneDownloaderPerController
    BY DEF DownloaderHolds, OneDownloaderPerController
  <1> QED
    BY <1>1, <1>2, TypeInit, TypeStep, HoldsStep, PTL DEF Spec

-----------------------------------------------------------------------------
(* A download never leaves part of a release behind.                       *)

\* Worker w will still write asset a into the directory.
Covers(w, a) ==
    \/ pc[w] = "create" /\ at[w] <= a
    \/ pc[w] = "copy" /\ at[w] <= a /\ (w \in unlinked => at[w] < a)

\* What is missing in the directory is yet to come.
Covered == dir => \A a \in Assets : file[a] = "full" \/ \E w \in Workers : Covers(w, a)

\* Without directory there is no file, and who copies writes to a removed file.
NothingLeft ==
    /\ \A w \in unlinked : pc[w] = "copy"
    /\ ~dir => /\ \A a \in Assets : file[a] = "absent"
               /\ \A w \in Workers : pc[w] = "copy" => w \in unlinked

PInv == TypeOK /\ NothingLeft /\ (~removeFailed => Covered)

\* A step of a worker that is not about to write, which changes no file.
LEMMA IdleStep ==
    ASSUME PInv, TypeOK', NEW w \in Workers, pc[w] \notin {"create", "copy"},
           NEW place \in {"idle", "use", "lock", "locked"}, Go(w, place),
           UNCHANGED <<dir, file, at, unlinked, removeFailed>>
    PROVE  PInv'
  <1>1. /\ pc'[w] = place
        /\ \A x \in Workers \ {w} : pc'[x] = pc[x]
    BY DEF PInv, TypeOK, Go
  <1>2. NothingLeft'
    BY <1>1 DEF PInv, NothingLeft, TypeOK
  <1>3. \A x \in Workers, a \in Assets : Covers(x, a) => Covers(x, a)'
    BY <1>1 DEF Covers
  <1> QED
    BY <1>2, <1>3 DEF PInv, Covered

\* Every step keeps what is missing in the directory covered.
LEMMA CoveredStep == PInv /\ [Next]_vars => PInv'
  <1> SUFFICES ASSUME PInv, [Next]_vars PROVE PInv'
    OBVIOUS
  <1>0. TypeOK /\ TypeOK'
    BY TypeStep DEF PInv
  <1>1. ASSUME NEW w \in Workers,
               LookMissing(w) \/ LookFound(w) \/ Used(w) \/ Lock(w) \/ NoClient(w) \/ Finish(w)
        PROVE  PInv'
    BY <1>0, <1>1, IdleStep DEF LookMissing, LookFound, Used, Lock, NoClient, Finish
  <1>2. ASSUME NEW w \in Workers, MakeDirectory(w) PROVE PInv'
    <2>1. /\ pc' = [pc EXCEPT ![w] = "create"] /\ at' = [at EXCEPT ![w] = 1] /\ dir'
          /\ UNCHANGED <<file, unlinked, removeFailed>> /\ pc[w] = "locked"
      BY <1>2 DEF MakeDirectory, Go
    <2>2. NothingLeft'
      BY <1>0, <2>1 DEF PInv, NothingLeft, TypeOK
    <2>3. \A a \in Assets : Covers(w, a)'
      BY <1>0, <2>1, DownloadAssumption DEF Covers, Assets, TypeOK
    <2> QED
      BY <1>0, <2>2, <2>3 DEF PInv, Covered
  <1>3. ASSUME NEW w \in Workers, CreateFile(w) PROVE PInv'
    <2>1. /\ pc' = [pc EXCEPT ![w] = "copy"] /\ file' = [file EXCEPT ![at[w]] = "partial"]
          /\ UNCHANGED <<dir, at, unlinked, removeFailed>> /\ pc[w] = "create" /\ dir
      BY <1>3 DEF CreateFile, Go
    <2>2. w \notin unlinked /\ at[w] \in Assets
      BY <1>0, <2>1 DEF PInv, NothingLeft, TypeOK
    <2>3. NothingLeft'
      BY <1>0, <2>1 DEF PInv, NothingLeft, TypeOK
    <2>4. \A x \in Workers, a \in Assets : Covers(x, a) => Covers(x, a)'
      BY <1>0, <2>1, <2>2 DEF Covers, TypeOK
    <2>5. Covers(w, at[w])'
      BY <1>0, <2>1, <2>2, DownloadAssumption DEF Covers, TypeOK, Assets
    <2>6. \A a \in Assets : a # at[w] => file'[a] = file[a]
      BY <1>0, <2>1 DEF TypeOK
    <2> QED
      BY <1>0, <2>1, <2>3, <2>4, <2>5, <2>6 DEF PInv, Covered
  <1>4. ASSUME NEW w \in Workers, CopyFile(w) PROVE PInv'
    <2> DEFINE same == {x \in Workers \ ({w} \cup unlinked) : pc[x] = "copy" /\ at[x] = at[w]}
    <2>1. /\ pc[w] = "copy" /\ unlinked' = unlinked \ {w} /\ UNCHANGED <<dir, removeFailed>>
          /\ file' = IF w \in unlinked \/ same # {} THEN file
                     ELSE [file EXCEPT ![at[w]] = "full"]
          /\ pc'[w] = IF at[w] = NumAssets THEN "unlock" ELSE "create"
          /\ at'[w] = IF at[w] = NumAssets THEN 1 ELSE at[w] + 1
          /\ \A x \in Workers \ {w} : pc'[x] = pc[x] /\ at'[x] = at[x]
      BY <1>0, <1>4 DEF CopyFile, Go, TypeOK
    <2>2. at[w] \in Assets /\ NumAssets \in Nat
      BY <1>0, DownloadAssumption DEF TypeOK
    <2>3. NothingLeft'
      <3>1. \A x \in unlinked' : pc'[x] = "copy"
        BY <1>0, <2>1 DEF PInv, NothingLeft, TypeOK
      <3>2. ~dir => w \in unlinked
        BY <2>1 DEF PInv, NothingLeft
      <3>3. ~dir' => \A a \in Assets : file'[a] = "absent"
        BY <2>1, <3>2 DEF PInv, NothingLeft
      <3>4. ~dir' => \A x \in Workers : pc'[x] = "copy" => x \in unlinked'
        BY <2>1 DEF PInv, NothingLeft
      <3> QED
        BY <3>1, <3>3, <3>4 DEF NothingLeft
    <2>4. ASSUME NEW x \in Workers \ {w}, NEW a \in Assets, Covers(x, a) PROVE Covers(x, a)'
      BY <2>1, <2>4 DEF Covers
    <2>5. ASSUME NEW a \in Assets, a # at[w], Covers(w, a) PROVE Covers(w, a)'
      BY <2>1, <2>2, <2>5 DEF Covers, Assets
    <2>6. \A a \in Assets : file[a] = "full" => file'[a] = "full"
      BY <1>0, <2>1 DEF TypeOK
    <2>7. ASSUME w \notin unlinked, NEW a \in Assets, a = at[w]
          PROVE  file'[a] = "full" \/ \E x \in Workers : Covers(x, a)'
      <3>1. CASE same = {}
        BY <1>0, <2>1, <2>7, <3>1 DEF TypeOK
      <3>2. ASSUME NEW x \in same PROVE Covers(x, a)
        BY <2>2, <2>7, <3>2 DEF Covers, Assets
      <3> QED
        BY <2>4, <3>1, <3>2
    <2>8. w \in unlinked => ~Covers(w, at[w])
      BY <2>1, <2>2 DEF Covers, Assets
    <2>9. ~removeFailed => Covered'
      <3> SUFFICES ASSUME ~removeFailed, dir', NEW a \in Assets
                   PROVE  file'[a] = "full" \/ \E x \in Workers : Covers(x, a)'
        BY DEF Covered
      <3>1. file[a] = "full" \/ \E x \in Workers : Covers(x, a)
        BY <2>1 DEF PInv, Covered
      <3>2. CASE a = at[w] /\ w \notin unlinked
        BY <2>7, <3>2
      <3>3. CASE a = at[w] /\ w \in unlinked
        BY <2>4, <2>6, <2>8, <3>1, <3>3
      <3>4. CASE a # at[w]
        BY <2>4, <2>5, <2>6, <3>1, <3>4
      <3> QED
        BY <3>2, <3>3, <3>4
    <2> QED
      BY <1>0, <2>1, <2>3, <2>9 DEF PInv
  <1>5. ASSUME NEW w \in Workers, Fail(w) PROVE PInv'
    <2>1. /\ ~dir' /\ \A a \in Assets : file'[a] = "absent"
          /\ unlinked' = {x \in Workers \ {w} : pc[x] = "copy"}
          /\ pc' = [pc EXCEPT ![w] = "idle"]
      BY <1>5 DEF Fail, Go
    <2>2. NothingLeft'
      BY <1>0, <2>1 DEF NothingLeft, TypeOK
    <2> QED
      BY <1>0, <2>1, <2>2 DEF PInv, Covered
  <1>6. ASSUME NEW w \in Workers, FailToRemove(w) PROVE PInv'
    <2>1. /\ removeFailed' /\ UNCHANGED <<dir, file>> /\ unlinked' = unlinked \ {w}
          /\ pc' = [pc EXCEPT ![w] = "idle"]
      BY <1>6 DEF FailToRemove, Go
    <2>2. NothingLeft'
      BY <1>0, <2>1 DEF PInv, NothingLeft, TypeOK
    <2> QED
      BY <1>0, <2>1, <2>2 DEF PInv
  <1>7. CASE Restart
    BY <1>0, <1>7 DEF Restart, PInv, NothingLeft, Covered
  <1>8. CASE UNCHANGED vars
    BY <1>0, <1>8 DEF vars, PInv, NothingLeft, Covered, Covers
  <1> QED
    BY <1>1, <1>2, <1>3, <1>4, <1>5, <1>6, <1>7, <1>8 DEF Next, Step, LookBroken

\* Whatever number of workers of both controllers fill, truncate and remove the same
\* directory, when none of them is at it any more the directory holds the whole
\* release or is not there; the one exception is a removal that failed itself.
THEOREM NothingPartial == Spec => []NeverLeftPartial
  <1>1. Init => PInv
    BY TypeInit DEF Init, PInv, NothingLeft, Covered
  <1>2. PInv => NeverLeftPartial
    BY DEF PInv, NothingLeft, Covered, Covers, NeverLeftPartial, Downloading
  <1> QED
    BY <1>1, <1>2, CoveredStep, PTL DEF Spec
=============================================================================
