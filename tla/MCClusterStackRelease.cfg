SPECIFICATION Spec
CONSTANTS
  Objects <- MCObjects
  NameOf <- UniqueNameOf
  Pos <- MCPos
  Release <- StableRelease
  NoProvider = FALSE
  Published = {"good"}
  PatchLosses <- AllLosses
  MaxFaults = 2
INVARIANTS TypeOK ReadyMeansApplied AdoptedClassStaysApplied
PROPERTIES InUseBlocksRelease KeepsContract
