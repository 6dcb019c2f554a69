SPECIFICATION Spec
CONSTANTS
  MaxInput = 2
  Scripts <- HidingScripts
  Inputs <- MCInputs
  Fuel <- MCFuel
  Expressions <- MCExpressions
  Statements <- MCStatements
INVARIANT NamesInnermost
