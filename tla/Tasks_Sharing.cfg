SPECIFICATION Spec
CONSTANTS
  Host = host
  Workers = {w1}
  Functions = {f}
  Main = main
  Events = {}
  Globals = {g, h}
  Locals = {l}
  Values = {0, 1}
  Initial = 0
  MaxMachines = 3
  MaxLength = 2
  MaxNest = 2
  MaxRuns = 1
CHECK_DEADLOCK FALSE
PROPERTY Isolated
