SPECIFICATION Spec
CONSTANTS
  Names = {"a", "b"}
  MaxItems = 4
  MaxScripts = 2
CONSTRAINT ShortWhenUnclean
INVARIANTS
  TypeOK
  NameSpaceFollowsText
  DeclaredAsWritten
  AttachedToEnclosing
  NothingLeft
CHECK_DEADLOCK FALSE
