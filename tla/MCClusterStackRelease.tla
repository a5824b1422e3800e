----------------------- MODULE MCClusterStackRelease -----------------------
(* Values of the constants of ClusterStackRelease for TLC. *)
EXTENDS ClusterStackRelease

\* A ClusterClass and a template it refers to.
MCObjects == {"class", "template"}

UniqueNameOf == [o \in MCObjects |-> o]

MCPos == [o \in MCObjects |-> IF o = "template" THEN 1 ELSE 2]

StableRelease == [major |-> 1, channel |-> "stable", patch |-> 0]

AllLosses == SUBSET Parts

\* The three writes of a pass fail together or not at all.
WholeLosses == {Parts}
=============================================================================
