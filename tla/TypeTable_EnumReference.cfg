SPECIFICATION Spec
CONSTANTS
  Defaults <- SmallDefaults
  CppType <- CppTypeOf
  HostTypes = {}
  HostEnums = {}
  ScriptEnums = {"E"}
  ScriptClasses = {}
  FunctionTypes = {}
  Bodies <- NoBodies
  MaxTypes = 6
CONSTRAINT StopAtDisorder
INVARIANT
  EnumReferencesAllocated
CHECK_DEADLOCK FALSE
