SPECIFICATION Spec
CONSTANTS
  MaxInput = 4
  Scripts <- MCScripts
  Inputs <- MCInputs
  Fuel <- MCFuel
  Expressions <- MCExpressions
  Statements <- MCStatements
INVARIANTS
  TypeOK
  BetweenFunctions
  LabelsSetOnce
  OutputWellFormed
  ComputesAsWritten
  LiveVariablesDistinct
  HostFindsEveryFunction
