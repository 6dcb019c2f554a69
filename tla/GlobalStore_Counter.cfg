SPECIFICATION Spec
CONSTANTS
  Programs <- ReloadPrograms
  Globals <- ReloadGlobals
  Kind <- ReloadKind
  ClassTable <- ReloadClasses
  Body <- ReloadBody
  Values = {0}
  MaxCounter = 9
INVARIANTS
  CountsAllocInstructions
