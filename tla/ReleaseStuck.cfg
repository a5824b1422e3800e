SPECIFICATION FairSpec
CONSTANTS
  Objects <- MCObjects
  NameOf <- UniqueNameOf
  Pos <- MCPos
  Release <- StableRelease
  NoProvider = FALSE
  Published = {"good"}
  PatchLosses <- AllLosses
  MaxFaults = 1
PROPERTIES EventuallyReady
