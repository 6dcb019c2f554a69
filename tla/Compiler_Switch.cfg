SPECIFICATION Spec
CONSTANTS
  MaxInput = 2
  Scripts <- SwitchScripts
  Inputs <- MCInputs
  Fuel <- MCFuel
  Expressions <- MCExpressions
  Statements <- MCStatements
INVARIANT ComputesAsWritten
