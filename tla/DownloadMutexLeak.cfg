SPECIFICATION FairSpec
CHECK_DEADLOCK FALSE
CONSTANTS
  ReleaseWorkers = {"r1"}
  AddonWorkers = {"a1"}
  NumAssets = 2
  MaxFaults = 1
PROPERTIES EveryWorkerServed
