SPECIFICATION FairSpec
CONSTANTS
  ReleaseWorkers = {"r1", "r2"}
  AddonWorkers = {"a1", "a2"}
  NumAssets = 2
  MaxFaults = 2
INVARIANTS TypeOK OneDownloaderPerController NeverLeftPartial
PROPERTIES ReleaseWorkersServed
