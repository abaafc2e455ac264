SPECIFICATION Spec
CONSTANTS
  a = a
  b = b
  m = m
  r1 = r1
  r2 = r2
  Task = {a, b}
  Deps <- ChainDeps
  Known = {a, b}
  Center = {m}
  Run = {r1, r2}
  None = None
  Limit = 2
  MaxEvents = 1
  MaxFaults = 1
  Faults = {"dispatch", "agent", "kill", "slow", "refused", "center", "session",
            "long", "etcd", "neighbour", "overlap"}
SYMMETRY Interchangeable
INVARIANTS TypeOK EndsForAReason NoLeftovers DispatchInPlan
PROPERTY ImplementsDag
