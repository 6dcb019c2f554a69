SPECIFICATION Spec
CONSTANTS
  MaxInput = 2
  Scripts <- ArgumentScripts
  Inputs <- MCInputs
  Fuel <- MCFuel
  Expressions <- MCExpressions
  Statements <- MCStatements
INVARIANT ArgumentsChecked
