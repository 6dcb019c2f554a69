SPECIFICATION Spec
CONSTANTS
  Defaults <- SmallDefaults
  CppType <- CppTypeOf
  HostTypes = {}
  HostEnums = {}
  ScriptEnums = {"E"}
  ScriptClasses = {"C"}
  FunctionTypes = {}
  Bodies <- NoBodies
  MaxTypes = 6
CONSTRAINT StopAtDisorder
INVARIANT
  InfosAreOfClasses
CHECK_DEADLOCK FALSE
