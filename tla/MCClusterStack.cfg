SPECIFICATION Spec
CONSTANTS
  Releases <- TwoStable
  Clusters = {"c"}
  Specs <- AllSpecs
  Remotes <- AllRemotes
  NoProvider = TRUE
  MaxUserSteps = 2
  MaxFaults = 1
INVARIANTS TypeOK InUseHasRelease ReadyReleaseKept
