SPECIFICATION Spec
CONSTANTS
  a = a
  b = b
  m = m
  r1 = r1
  r2 = r2
  Task = {a, b}
  Deps <- ChainDeps
  Known = {}
  Center = {m}
  Run = {r1, r2}
  None = None
  Limit = 3
  MaxEvents = 1
  MaxFaults = 0
  Faults = {}
PROPERTY ScheduledTasksRun
