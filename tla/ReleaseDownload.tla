-------------------------- MODULE ReleaseDownload --------------------------
(***************************************************************************)
(* The download directory of one release, which workers of two controllers *)
(* fill and read: those of ClusterStackRelease (Reconcile up to            *)
(* AssetsReady) and those of ClusterAddon (downloadOldClusterStackRelease).*)
(* Every controller has a mutex of its own around downloadReleaseAssets,   *)
(* which fetches the assets one by one (src/pkg/assetsclient/github) and   *)
(* removes the directory if that fails.  Nobody locks to look              *)
(* (src/pkg/release).                                                      *)
(*                                                                         *)
(* Two workers of one controller meet in one directory when objects of two *)
(* namespaces name the same release, or two ClusterAddons the same old one.*)
(***************************************************************************)
EXTENDS Naturals

CONSTANTS
    ReleaseWorkers,  \* workers of the ClusterStackRelease controller
    AddonWorkers,    \* workers of the ClusterAddon controller
    NumAssets,       \* assets of the release, in the order of the download
    MaxFaults        \* bound on failing calls and restarts

Assets == 1..NumAssets
Workers == ReleaseWorkers \cup AddonWorkers
Nobody == "nobody"

ASSUME DownloadAssumption ==
    /\ ReleaseWorkers \cap AddonWorkers = {}
    /\ Nobody \notin Workers
    /\ NumAssets \in Nat \ {0}
    /\ MaxFaults \in Nat

VARIABLES
    dir,          \* whether the directory exists
    file,         \* what is in it
    holder,       \* who holds each controller's mutex
    pc, at,       \* where a worker is, and the asset it downloads
    unlinked,     \* workers that write to a file that has been removed since
    removeFailed, \* RemoveAll failed at some time
    faults

vars == <<dir, file, holder, pc, at, unlinked, removeFailed, faults>>

Mutexes == {"release", "addon"}
MutexOf(w) == IF w \in ReleaseWorkers THEN "release" ELSE "addon"

Init ==
    /\ dir = FALSE
    /\ file = [a \in Assets |-> "absent"]
    /\ holder = [m \in Mutexes |-> Nobody]
    /\ pc = [w \in Workers |-> "idle"]
    /\ at = [w \in Workers |-> 1]
    /\ unlinked = {}
    /\ removeFailed = FALSE
    /\ faults = 0

Fault == faults < MaxFaults /\ faults' = faults + 1

Go(w, place) == pc' = [pc EXCEPT ![w] = place]

Unlock(w) == holder' = [holder EXCEPT ![MutexOf(w)] = Nobody]

-----------------------------------------------------------------------------

\* release.New: the directory does not exist, so download.
LookMissing(w) ==
    /\ pc[w] = "idle" /\ ~dir
    /\ Go(w, "lock")
    /\ UNCHANGED <<dir, file, holder, at, unlinked, removeFailed, faults>>

\* release.New reads the metadata, of which enough may be there, and
\* CheckHelmCharts finds the files; AssetsReady is set and the charts are used.
LookFound(w) ==
    /\ pc[w] = "idle" /\ dir
    /\ \A a \in Assets : file[a] # "absent"
    /\ Go(w, "use")
    /\ UNCHANGED <<dir, file, holder, at, unlinked, removeFailed, faults>>

\* A file is not there: the pass ends, and nobody downloads again.
LookBroken(w) ==
    /\ pc[w] = "idle" /\ dir
    /\ \E a \in Assets : file[a] = "absent"
    /\ UNCHANGED vars

Used(w) ==
    /\ pc[w] = "use"
    /\ Go(w, "idle")
    /\ UNCHANGED <<dir, file, holder, at, unlinked, removeFailed, faults>>

\* No mutex.
LockAtOnce(w) ==
    /\ pc[w] = "lock"
    /\ holder' = [holder EXCEPT ![MutexOf(w)] = w]
    /\ Go(w, "locked")
    /\ UNCHANGED <<dir, file, at, unlinked, removeFailed, faults>>

\* The mutex is taken; nobody looks again whether the directory is still missing.
Lock(w) ==
    /\ pc[w] = "lock" /\ holder[MutexOf(w)] = Nobody
    /\ holder' = [holder EXCEPT ![MutexOf(w)] = w]
    /\ Go(w, "locked")
    /\ UNCHANGED <<dir, file, at, unlinked, removeFailed, faults>>

\* NewClient fails: the ClusterStackRelease controller has locked by then, the
\* other one has not and ends its pass earlier.
NoClient(w) ==
    /\ w \in ReleaseWorkers /\ pc[w] = "locked" /\ Fault
    /\ Unlock(w)
    /\ Go(w, "idle")
    /\ UNCHANGED <<dir, file, at, unlinked, removeFailed>>

\* The tag is found, MkdirAll.
MakeDirectory(w) ==
    /\ pc[w] = "locked"
    /\ dir' = TRUE
    /\ at' = [at EXCEPT ![w] = 1]
    /\ Go(w, "create")
    /\ UNCHANGED <<file, holder, unlinked, removeFailed, faults>>

\* os.Create truncates what is there.
CreateFile(w) ==
    /\ pc[w] = "create" /\ dir
    /\ file' = [file EXCEPT ![at[w]] = "partial"]
    /\ Go(w, "copy")
    /\ UNCHANGED <<dir, holder, at, unlinked, removeFailed, faults>>

\* A download that leaves out the last asset.
CopyFileStopsEarly(w) ==
    /\ pc[w] = "copy"
    /\ file' = [file EXCEPT ![at[w]] = "full"]
    /\ at' = [at EXCEPT ![w] = 1]
    /\ Go(w, "unlock")
    /\ UNCHANGED <<dir, holder, unlinked, removeFailed, faults>>

\* A download that counts past the last asset.
CopyFileRunsOver(w) ==
    /\ pc[w] = "copy"
    /\ file' = [file EXCEPT ![at[w]] = "full"]
    /\ at' = [at EXCEPT ![w] = @ + 1]
    /\ Go(w, IF at[w] = NumAssets THEN "unlock" ELSE "create")
    /\ UNCHANGED <<dir, holder, unlinked, removeFailed, faults>>

\* The asset is copied and closed; it is whole unless another worker truncated
\* it and still writes, and not in the directory if it was removed.
CopyFile(w) ==
    /\ pc[w] = "copy"
    /\ LET others == {x \in Workers \ ({w} \cup unlinked) : pc[x] = "copy" /\ at[x] = at[w]}
       IN  file' = IF w \in unlinked \/ others # {} THEN file
                   ELSE [file EXCEPT ![at[w]] = "full"]
    /\ unlinked' = unlinked \ {w}
    /\ at' = [at EXCEPT ![w] = IF at[w] = NumAssets THEN 1 ELSE at[w] + 1]
    /\ Go(w, IF at[w] = NumAssets THEN "unlock" ELSE "create")
    /\ UNCHANGED <<dir, holder, removeFailed, faults>>

Finish(w) ==
    /\ pc[w] = "unlock"
    /\ Unlock(w)
    /\ Go(w, "idle")
    /\ UNCHANGED <<dir, file, at, unlinked, removeFailed, faults>>

\* A call fails, or the file cannot be created because its directory has gone.
DownloadFails(w) ==
    \/ pc[w] \in {"locked", "create", "copy"} /\ Fault
    \/ pc[w] = "create" /\ ~dir /\ UNCHANGED faults

\* The unlock is deferred in one controller and comes after the return in the
\* other.
UnlockAfterFailure(w) == IF w \in ReleaseWorkers THEN Unlock(w) ELSE UNCHANGED holder

\* A failed download that does not clean up.
FailKeepsDirectory(w) ==
    /\ DownloadFails(w)
    /\ at' = [at EXCEPT ![w] = 1]
    /\ UnlockAfterFailure(w)
    /\ Go(w, "idle")
    /\ UNCHANGED <<dir, file, unlinked, removeFailed>>

Fail(w) ==
    /\ DownloadFails(w)
    /\ dir' = FALSE
    /\ file' = [a \in Assets |-> "absent"]
    /\ unlinked' = {x \in Workers \ {w} : pc[x] = "copy"}
    /\ at' = [at EXCEPT ![w] = 1]
    /\ UnlockAfterFailure(w)
    /\ Go(w, "idle")
    /\ UNCHANGED removeFailed

\* RemoveAll fails too, and leaves what is there.
FailToRemove(w) ==
    /\ pc[w] \in {"locked", "create", "copy"} /\ Fault
    /\ removeFailed' = TRUE
    /\ unlinked' = unlinked \ {w}
    /\ at' = [at EXCEPT ![w] = 1]
    /\ UnlockAfterFailure(w)
    /\ Go(w, "idle")
    /\ UNCHANGED <<dir, file>>

\* The container is replaced, its file system with it.
Restart ==
    /\ Fault
    /\ dir' = FALSE
    /\ file' = [a \in Assets |-> "absent"]
    /\ holder' = [m \in Mutexes |-> Nobody]
    /\ pc' = [w \in Workers |-> "idle"]
    /\ at' = [w \in Workers |-> 1]
    /\ unlinked' = {}
    /\ removeFailed' = FALSE

Step(w) ==
    \/ LookMissing(w) \/ LookFound(w) \/ LookBroken(w) \/ Used(w)
    \/ NoClient(w) \/ MakeDirectory(w)
    \/ CreateFile(w) \/ CopyFile(w) \/ Finish(w)
    \/ Fail(w) \/ FailToRemove(w)

Next == (\E w \in Workers : Step(w) \/ Lock(w)) \/ Restart

Spec == Init /\ [][Next]_vars

\* Passes are retried (errors requeue, and there is the resync) and go on, and a
\* mutex of Go is given to whoever waits long enough.
Fairness == \A w \in Workers : WF_vars(Step(w)) /\ SF_vars(Lock(w))

FairSpec == Spec /\ Fairness
-----------------------------------------------------------------------------

\* Every variable has its type; a worker downloads an asset the release has.
TypeOK ==
    /\ dir \in BOOLEAN
    /\ file \in [Assets -> {"absent", "partial", "full"}]
    /\ holder \in [Mutexes -> Workers \cup {Nobody}]
    /\ pc \in [Workers -> {"idle", "use", "lock", "locked", "create", "copy", "unlock"}]
    /\ at \in [Workers -> Assets]
    /\ unlinked \subseteq Workers
    /\ removeFailed \in BOOLEAN
    /\ faults \in 0..MaxFaults

Downloading(w) == pc[w] \in {"locked", "create", "copy", "unlock"}

\* Of the workers of one controller only one downloads the release, whoever fails,
\* retries, keeps its mutex or is restarted.
OneDownloaderPerController ==
    \A w, x \in Workers :
        Downloading(w) /\ Downloading(x) /\ MutexOf(w) = MutexOf(x) => w = x

\* When nobody downloads, the directory holds the whole release or does not exist:
\* a download that failed half way leaves nothing that release.New would take for
\* broken assets and never download again (downloadReleaseAssets).
NeverLeftPartial ==
    (\A w \in Workers : ~Downloading(w)) /\ ~removeFailed =>
        IF dir THEN \A a \in Assets : file[a] = "full"
               ELSE \A a \in Assets : file[a] = "absent"

\* A worker gets to use the release again and again, unless a directory could not
\* be removed.
Served(w) == []<>(pc[w] = "use" \/ removeFailed)

\* Every worker of the ClusterStackRelease controller gets to use the release again
\* and again, although downloads fail, workers wait for each other, and the other
\* controller fills and removes the same directory under a mutex of its own.
ReleaseWorkersServed == \A w \in ReleaseWorkers : Served(w)

\* A failed download is "retried in the next reconciliation", by every worker of
\* both controllers (downloadReleaseAssets).
EveryWorkerServed == \A w \in Workers : Served(w)
=============================================================================
