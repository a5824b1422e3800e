SPECIFICATION FairSpec
CONSTANTS
  Releases <- TwoStable
  Clusters = {"c"}
  Specs <- AllSpecs
  Remotes <- AllRemotes
  NoProvider = FALSE
  MaxUserSteps = 0
  MaxFaults = 2
PROPERTIES Convergence
