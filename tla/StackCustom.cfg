SPECIFICATION FairSpec
CONSTANTS
  Releases <- TwoCustom
  Clusters = {"c"}
  Specs <- AllSpecs
  Remotes <- AllRemotes
  NoProvider = TRUE
  MaxUserSteps = 2
  MaxFaults = 0
PROPERTIES Convergence
