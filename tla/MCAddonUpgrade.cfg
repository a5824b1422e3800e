SPECIFICATION FairSpec
CONSTANTS
  Objects <- MCObjects
  NameOf <- MCNameOf
  Pos <- MCPos
  Releases <- MCReleases
  Assets <- MCAssets
  PatchLosses <- AnyLosses
  MaxFaults = 1
  MaxMoves = 1
INVARIANTS TypeOK ReadyMeansInstalled
PROPERTIES UpgradeGate UpgradeProceeds AddonFollows AddonCollected
CHECK_DEADLOCK FALSE
