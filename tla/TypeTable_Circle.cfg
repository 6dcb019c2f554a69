SPECIFICATION Spec
CONSTANTS
  Defaults <- SmallDefaults
  CppType <- CppTypeOf
  HostTypes = {}
  HostEnums = {}
  ScriptEnums = {}
  ScriptClasses = {"C", "D"}
  FunctionTypes = {}
  Bodies <- CircleBodies
  MaxTypes = 6
CONSTRAINT StopAtDisorder
INVARIANT
  NothingHoldsItself
CHECK_DEADLOCK FALSE
