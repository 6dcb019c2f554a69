SPECIFICATION FairSpec
CONSTANTS
  STACK_SIZE = 28
  GlobalCount = 2
  CodeSize <- Size
  Code <- ProgramCode
  Functions <- ProgramFunctions
  Lambdas <- ProgramLambdas
  Arity <- ProgramArity
  Returns <- ProgramReturns
  Captures <- ProgramCaptures
  Owner <- ProgramOwner
  MinDepth <- ProgramDepth
INVARIANTS
  TypeOK
  CallDiscipline
  FrameLinks
  OperandsInFrame
  HaltBalanced
  IdleAtGlobals
PROPERTIES
  FrameIsolation
  ReturnsToCaller
  ImplementsCallStack
  GivesControlBack
