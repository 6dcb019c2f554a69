SPECIFICATION Spec
CONSTANTS
  Host = host
  Workers = {w1, w2}
  Functions = {f}
  Main = main
  Events = {e}
  Globals = {g}
  Locals = {}
  Values = {0, 1}
  Initial = 0
  MaxMachines = 3
  MaxLength = 1
  MaxNest = 2
  MaxRuns = 3
CONSTRAINT StopAtCareless
CHECK_DEADLOCK FALSE
INVARIANTS TypeOK FramesKept OneThread CloneHasOneTask
PROPERTY TasksEnd
