SPECIFICATION Spec
CONSTANTS
  Defaults <- SmallDefaults
  CppType <- CppTypeOf
  HostTypes = {}
  HostEnums = {}
  ScriptEnums = {}
  ScriptClasses = {"C"}
  FunctionTypes = {}
  Bodies <- NoBodies
  MaxTypes = 6
CONSTRAINT StopAtDisorder
INVARIANT
  ClassReferencesAllocated
CHECK_DEADLOCK FALSE
