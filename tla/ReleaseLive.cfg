SPECIFICATION FairSpec
CONSTANTS
  Objects <- MCObjects
  NameOf <- UniqueNameOf
  Pos <- MCPos
  Release <- StableRelease
  NoProvider = FALSE
  Published = {"good", "broken"}
  PatchLosses <- WholeLosses
  MaxFaults = 1
PROPERTIES EventuallyReady DeletionCompletes
