-------------------------- MODULE ReleaseContract --------------------------
(***************************************************************************)
(* What the rest of the system may rely on about one ClusterStackRelease   *)
(* object, whoever works on it and however: the ClusterStack controller    *)
(* that creates and deletes it, users who adopt its ClusterClass, and the  *)
(* webhook for Clusters.                                                   *)
(*                                                                         *)
(* Module ClusterStackRelease implements this with a stale cache, a copy   *)
(* that is merged back in three writes, and restarts.  Module ClusterStack *)
(* works with a coarser picture of the same controller, which keeps the    *)
(* same contract for each of its releases.                                 *)
(***************************************************************************)

VARIABLES
    exists,    \* the object is stored
    deleting,  \* it has a deletion timestamp
    ready,     \* status.ready
    assets,    \* its assets are on disk, as far as a pass in progress has seen
    used       \* a Cluster uses its ClusterClass

object == <<exists, deleting, ready>>
vars == <<object, assets, used>>

Init == ~exists /\ ~deleting /\ ~ready /\ ~assets /\ ~used

Gone == ~exists' /\ ~deleting' /\ ~ready'

\* An object starts without deletion timestamp and not ready.
Create ==
    /\ ~exists /\ exists' /\ ~deleting' /\ ~ready'
    /\ UNCHANGED <<assets, used>>

\* It becomes ready when its assets are there, once and for all.
BecomeReady ==
    /\ exists /\ assets /\ ready'
    /\ UNCHANGED <<exists, deleting, assets, used>>

\* A deletion gives it a timestamp for good, or removes it at once while no
\* finalizer is there.
Delete ==
    /\ exists
    /\ \/ Gone
       \/ deleting' /\ UNCHANGED <<exists, ready>>
    /\ UNCHANGED <<assets, used>>

\* A pass lets it go: not while a Cluster uses it, unless the assets are missing.
\* They may have been downloaded meanwhile.
LetGo ==
    /\ exists /\ deleting
    /\ used => ~assets
    /\ Gone
    /\ assets => assets'
    /\ UNCHANGED used

\* Assets are downloaded, or lost in a restart.
AssetsChange == assets' \in BOOLEAN /\ UNCHANGED <<object, used>>

\* Only a release that is ready and stays is adopted.
Adopt ==
    /\ exists /\ ready /\ ~deleting
    /\ used'
    /\ UNCHANGED <<object, assets>>

Leave == ~used' /\ UNCHANGED <<object, assets>>

Next == Create \/ BecomeReady \/ Delete \/ LetGo \/ AssetsChange \/ Adopt \/ Leave

Spec == Init /\ [][Next]_vars
=============================================================================
