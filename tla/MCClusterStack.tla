--------------------------- MODULE MCClusterStack ---------------------------
(* Values of the constants of ClusterStack for TLC. *)
EXTENDS ClusterStack

Stable(n) == [major |-> n, channel |-> "stable", patch |-> 0]
Custom(n) == [major |-> 0, channel |-> "custom", patch |-> n]

TwoStable == {Stable(1), Stable(2)}
TwoCustom == {Custom(1), Custom(2)}

\* Every spec, and everything that may have been published.
AllSpecs == [versions : SUBSET Releases, auto : BOOLEAN]
AllRemotes == SUBSET Releases

\* Users follow the newest release, ask for one, or for both.
SomeSpecs ==
    {[versions |-> {}, auto |-> TRUE], [versions |-> {Stable(2)}, auto |-> FALSE],
     [versions |-> {Stable(1), Stable(2)}, auto |-> FALSE]}

\* The older release is out, and possibly the newer one.
SomeRemotes == {{Stable(1)}, {Stable(1), Stable(2)}}
=============================================================================
