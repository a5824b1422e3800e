---------------------------- MODULE ReleaseNames ----------------------------
(***************************************************************************)
(* Versions of a cluster stack, and the two spellings of a release's name  *)
(* (src/pkg/version, src/pkg/clusterstack).                                *)
(*                                                                         *)
(* A version is v<major> in the stable channel and                         *)
(* v<major>-<channel>-<patch> or v<major>-<channel>.<patch> elsewhere.     *)
(* The ClusterStackRelease object is named with "-", the ClusterClass that *)
(* the release installs (and that Cluster objects refer to) with ".".      *)
(* In the stable channel there is no patch and the two names are equal.    *)
(*                                                                         *)
(* Provider, cluster stack name and Kubernetes version are the same for    *)
(* all releases of one ClusterStack, so a name is a version and the        *)
(* separator it was written with.  The patch is a string in the code; here *)
(* it is its rank in the order of strings, which is all Compare uses.      *)
(***************************************************************************)
EXTENDS Naturals

Channels == {"stable", "custom"}

Version == [major : Nat, channel : Channels, patch : Nat]

IsStable(v) == v.channel = "stable"

\* The name of the ClusterStackRelease object, and the release tag.
String(v) == [version |-> v, sep |-> IF IsStable(v) THEN "none" ELSE "-"]

\* The name of the ClusterClass.
StringWithDot(v) == [version |-> v, sep |-> IF IsStable(v) THEN "none" ELSE "."]

\* NewFromClusterClassProperties: five parts between "-" (stable), or six with
\* the channel and the patch joined by "."; a name in the other spelling has
\* seven parts and is refused.
ParsesAsClusterClass(name) == name.sep \in {"none", "."}

\* NewFromClusterStackReleaseProperties: five or seven parts between "-".
ParsesAsRelease(name) == name.sep \in {"none", "-"}

\* ClusterStacks.Less by Version.Compare: versions of different channels do
\* not compare, and Less is FALSE for them.
Less(a, b) ==
    /\ a.channel = b.channel
    /\ \/ a.major < b.major
       \/ a.major = b.major /\ a.patch < b.patch

\* The last element after sort.Sort, for a nonempty set of versions of one
\* channel, on which Less is a strict total order.
Latest(S) == CHOOSE v \in S : \A w \in S : ~Less(v, w)
=============================================================================
