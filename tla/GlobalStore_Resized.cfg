SPECIFICATION Spec
CONSTANTS
  Programs <- ResizedPrograms
  Globals <- ResizedGlobals
  Kind <- ResizedKind
  ClassTable <- ResizedClasses
  Body <- ResizedBody
  Values = {0, 1}
  MaxCounter = 6
INVARIANTS
  RefusedForTheirNumber
