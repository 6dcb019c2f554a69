SPECIFICATION Spec
CONSTANTS
  Defaults <- SmallDefaults
  CppType <- CppTypeOf
  HostTypes = {"vec", "number"}
  HostEnums = {"Ease"}
  ScriptEnums = {"E", "Ease"}
  ScriptClasses = {"C", "D"}
  FunctionTypes = {"F", "G"}
  Bodies <- SmallBodies
  MaxTypes = 8
CONSTRAINT StopAtDisorder
INVARIANTS
  TypeOK
  NumberIsPlace
  NothingOfScriptsLeft
  AllocatedAsDeclared
  LoadedAsCompiled
  MembersAsDeclared
CHECK_DEADLOCK FALSE
