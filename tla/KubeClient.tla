----------------------------- MODULE KubeClient -----------------------------
(***************************************************************************)
(* The client that applies and deletes the objects of a rendered helm      *)
(* chart (src/pkg/kube).  It keeps no state: the caller passes the list of *)
(* resources recorded in its status and stores the list that comes back.   *)
(*                                                                         *)
(* A recorded list is a function that gives every object the status of its *)
(* entry, or "none".  Entries stay in the order of the chart, given by Pos.*)
(* Which API calls fail is a parameter: the objects whose REST mapping     *)
(* cannot be found, those that the API server refuses to apply, and those  *)
(* it refuses to delete.                                                   *)
(***************************************************************************)
EXTENDS Naturals

CONSTANTS
    Objects,    \* every object of the charts considered
    NameOf,     \* namespace and name of an object; its kind is not part of it
    Pos         \* position in the rendered chart

ASSUME NameOfAssumption == DOMAIN NameOf = Objects

ASSUME PosAssumption ==
    /\ Pos \in [Objects -> Nat]
    /\ \A o, p \in Objects : Pos[o] = Pos[p] => o = p

ResourceStatus == {"none", "synced", "not-synced"}

Resources == [Objects -> ResourceStatus]

NoResources == [o \in Objects |-> "none"]

\* The entry that getResourceMap finds for the name of o: the map is keyed by
\* namespace and name, and the last entry of the list wins.
FoundFor(res, o, e) ==
    /\ res[e] # "none"
    /\ NameOf[e] = NameOf[o]
    /\ \A f \in Objects :
          res[f] # "none" /\ NameOf[f] = NameOf[o] => Pos[f] <= Pos[e]

\* "do nothing if synced"
SkippedAsSynced(res, o) ==
    \E e \in Objects : FoundFor(res, o, e) /\ res[e] = "synced"

\* The objects that one call of Apply sends to the API server.
ToApply(template, res) == {o \in template : ~SkippedAsSynced(res, o)}

\* Recorded as synced, and no object of the chart has the name any more.
ResourcesToBeDeleted(template, res) ==
    {o \in Objects : res[o] = "synced" /\ \A t \in template : NameOf[t] # NameOf[o]}

\* A list that records refused objects as synced, as ApplyNewClusterStack does.
AppliedResourcesAllSynced(template, res, noMapping, refused, undeleted) ==
    [o \in Objects |-> IF o \in template \ noMapping THEN "synced" ELSE "none"]

\* The list that Apply returns.  A skipped object contributes the entry found
\* under its name, which may be another object's; one without a REST mapping
\* contributes none; a failed deletion is recorded as not synced.
AppliedResources(template, res, noMapping, refused, undeleted) ==
    [o \in Objects |->
        CASE \E t \in template : FoundFor(res, t, o) /\ res[o] = "synced" -> "synced"
          [] o \in ToApply(template, res) \ noMapping ->
                IF o \in refused THEN "not-synced" ELSE "synced"
          [] o \in ResourcesToBeDeleted(template, res) \cap undeleted -> "not-synced"
          [] OTHER -> "none"]

\* What is in the cluster after the call.
LiveAfterApply(template, res, noMapping, refused, undeleted, live) ==
    (live \cup (ToApply(template, res) \ (noMapping \cup refused)))
        \ (ResourcesToBeDeleted(template, res) \ undeleted)

\* shouldRequeue of Apply.
ApplyRequeues(template, res, noMapping, refused, undeleted) ==
    \/ ToApply(template, res) \cap (noMapping \cup refused) # {}
    \/ ResourcesToBeDeleted(template, res) \cap undeleted # {}

\* What ApplyNewClusterStack removes after it has applied the whole new template:
\* the objects of the old template whose name is not in the new one.
ObjectsToBeDeleted(oldObjects, newObjects) ==
    {o \in oldObjects : \A n \in newObjects : NameOf[n] # NameOf[o]}

\* The objects that Delete removes when every call succeeds: it skips what is
\* recorded as synced, exactly as Apply does.
ToDelete(template, res) == {o \in template : ~SkippedAsSynced(res, o)}

\* The objects removed when the deletion of f fails: Delete returns at once.
DeletedBefore(template, res, f) == {o \in ToDelete(template, res) : Pos[o] < Pos[f]}
=============================================================================
