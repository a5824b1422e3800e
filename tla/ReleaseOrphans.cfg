SPECIFICATION Spec
CONSTANTS
  Objects <- MCObjects
  NameOf <- UniqueNameOf
  Pos <- MCPos
  Release <- StableRelease
  NoProvider = TRUE
  Published = {"good"}
  PatchLosses <- AllLosses
  MaxFaults = 0
PROPERTIES ProperDeleteRemovesObjects
