SPECIFICATION Spec
CONSTANTS
  Defaults <- SmallDefaults
  CppType <- CppTypeOf
  HostTypes = {}
  HostEnums = {"Ease"}
  ScriptEnums = {}
  ScriptClasses = {"C", "D"}
  FunctionTypes = {}
  Bodies <- CircleBodies
  MaxTypes = 6
CONSTRAINT StopAtDisorder
INVARIANT
  EveryMemberMade
CHECK_DEADLOCK FALSE
