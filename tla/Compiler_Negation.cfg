SPECIFICATION Spec
CONSTANTS
  MaxInput = 2
  Scripts <- NegationScripts
  Inputs <- MCInputs
  Fuel <- MCFuel
  Expressions <- MCExpressions
  Statements <- MCStatements
INVARIANT ComputesAsWritten
