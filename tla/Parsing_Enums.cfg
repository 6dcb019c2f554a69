SPECIFICATION Spec
CONSTANTS
  Names = {"a", "b"}
  MaxItems = 4
  MaxScripts = 2
CONSTRAINT ShortWhenUnclean
INVARIANT
  EnumsAnywhere
CHECK_DEADLOCK FALSE
