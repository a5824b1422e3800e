--------------------------- MODULE MCAddonUpgrade ---------------------------
(* Values of the constants of AddonUpgrade for TLC. *)
EXTENDS AddonUpgrade, TLC

\* A network plugin and a storage driver.
MCObjects == {"cni", "csi"}
MCNameOf == [o \in MCObjects |-> o]
MCPos == [o \in MCObjects |-> IF o = "cni" THEN 1 ELSE 2]

Apply(name) == [name |-> name, action |-> "apply"]
Delete(name) == [name |-> name, action |-> "delete"]

Release(k8s, version, stages, charts) ==
    [kubernetes |-> k8s, clusterAddon |-> version, staged |-> stages # <<>>, charts |-> charts,
     stages |-> [h \in Hooks |-> stages]]

\* The release with another list of stages for upgrades.
UpgradingWith(stages, release) == [release EXCEPT !.stages[BeforeClusterUpgrade] = stages]

\* A single chart; a release that installs the network plugin and upgrades the storage
\* driver; one that deletes, and has a stage the others do not know; one with a new
\* Kubernetes version that drops an object.
MCAssets ==
    "single" :> Release(1, 4, <<>>, [all |-> {"cni", "csi"}])
    @@ "r1" :> UpgradingWith(<<Apply("disk")>>,
                  Release(1, 1, <<Apply("net")>>, [net |-> {"cni"}, disk |-> {"csi"}]))
    @@ "r2" :> Release(1, 2, <<Apply("net"), Delete("disk"), Apply("log")>>,
                       [net |-> {"cni", "csi"}, disk |-> {"csi"}, log |-> {"csi"}])
    @@ "r3" :> Release(2, 3, <<Apply("net"), Apply("disk")>>,
                       [net |-> {"cni"}, disk |-> {}])

MCReleases == DOMAIN MCAssets

\* Single charts only, of which the second drops an object.
SingleAssets ==
    "s1" :> Release(1, 1, <<>>, [all |-> {"cni", "csi"}])
    @@ "s2" :> Release(1, 2, <<>>, [all |-> {"cni"}])

SingleReleases == DOMAIN SingleAssets

\* Any of the three writes of a patch may be lost.
AnyLosses == SUBSET Parts

\* The instances are among those that the theorems are about.
ASSUME RegularInstance == Regular
=============================================================================
