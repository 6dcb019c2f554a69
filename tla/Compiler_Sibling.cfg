SPECIFICATION Spec
CONSTANTS
  MaxInput = 2
  Scripts <- SiblingScripts
  Inputs <- MCInputs
  Fuel <- MCFuel
  Expressions <- MCExpressions
  Statements <- MCStatements
INVARIANT ReservedWhereAddressed
