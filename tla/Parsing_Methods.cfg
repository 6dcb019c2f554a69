SPECIFICATION Spec
CONSTANTS
  Names = {"a", "b"}
  MaxItems = 4
  MaxScripts = 2
CONSTRAINT ShortWhenUnclean
INVARIANT
  MethodsInTheirClass
CHECK_DEADLOCK FALSE
