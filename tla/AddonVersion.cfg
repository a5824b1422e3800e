\* Releases with a single chart each; nothing fails.
SPECIFICATION Spec
CONSTANTS
  Objects <- MCObjects
  NameOf <- MCNameOf
  Pos <- MCPos
  Releases <- SingleReleases
  Assets <- SingleAssets
  PatchLosses <- AnyLosses
  MaxFaults = 0
  MaxMoves = 1
INVARIANT AddonsOfClass
CHECK_DEADLOCK FALSE
