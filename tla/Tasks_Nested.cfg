SPECIFICATION Spec
CONSTANTS
  Host = host
  Workers = {w1}
  Functions = {f}
  Main = main
  Events = {e}
  Globals = {g}
  Locals = {}
  Values = {0, 1}
  Initial = 0
  MaxMachines = 1
  MaxLength = 2
  MaxNest = 2
  MaxRuns = 1
CHECK_DEADLOCK FALSE
INVARIANT MainIsExecuted
