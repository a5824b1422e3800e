SPECIFICATION FairSpec
CONSTANTS
  Releases <- TwoStable
  Clusters = {"c"}
  Specs <- SomeSpecs
  Remotes <- SomeRemotes
  NoProvider = TRUE
  MaxUserSteps = 2
  MaxFaults = 1
PROPERTIES Convergence KeepsContracts
