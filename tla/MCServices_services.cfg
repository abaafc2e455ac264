SPECIFICATION Spec
CONSTANTS
  Agent = {a1}
  Editor = {e1, e2}
  Started = {"on1"}
  MaxPings = 1
  MaxBreaks = 1
  MaxStreams = 2
  MaxFaults = 1
  MaxPushes = 1
  Delivery = {d1, d2, d3}
  Run = {r1, r2}
  Doctor = {c1}
  Killer = {k1}
  NoRun = NoRun
  MaxDoubts = 1
  Task = {t1}
  Center = {m1, m2}
  Week = 3
  MaxClock = 5
  MaxMishaps = 1
  User = {boss, ann, bob}
  Super = {boss}
  Role = {"admin", "manager"}
  Call = {c1, c2}
  MaxRows = 2
  Node = {"x", "y"}
  List <- Lists
  Job = {j1, j2}
  Office = {n1}
  MaxBatches = 2
  MaxSeconds = 2
  Person = {boss, ann, bob}
  First = boss
  Request = {c1, c2}
  MaxCopies = 2
  Sweeper = {m1, m2}
  Days = 2
  MaxDay = 3
  MaxLogged = 1
  MaxOutages = 1
  Url = {"u1", "u2"}
  Report = {r1}
  Attempts = 2
  MaxCuts = 1
INVARIANTS TypeOK  NeverDeaf NoPanic OfflineIsOver OneFate
INVARIANTS GoneIsEmpty ChiefRemains DepsListed OutIsOut 
PROPERTIES AgentComesBack  RowsKept OneSession
CHECK_DEADLOCK FALSE
