SPECIFICATION Spec
CONSTANTS
  Programs <- ReloadPrograms
  Globals <- ReloadGlobals
  Kind <- ReloadKind
  ClassTable <- ReloadClasses
  Body <- ReloadBody
  Values = {0, 1}
  MaxCounter = 9
INVARIANTS
  TypeOK
  DeclaredByLoaded
  RestoreBringsBack
  KindsAgree
  TagsAtMostOneBehind
  NothingPointsToFreed
