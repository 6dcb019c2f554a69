SPECIFICATION Spec
CONSTANTS
  MaxInput = 2
  Scripts <- NothingScripts
  Inputs <- MCInputs
  Fuel <- MCFuel
  Expressions <- MCExpressions
  Statements <- MCStatements
INVARIANT ValuesTaken
