SPECIFICATION Spec
CONSTANTS
  r1 = r1  r2 = r2  w1 = w1  w2 = w2  x1 = x1  x2 = x2  x3 = x3  k = k
  NoKey = NoKey  NoRun = NoRun  Nobody = Nobody
  Runs = {r1, r2}
  Workers = {w1, w2}
  Execs = {x1, x2}
  Host <- OneEach
  WorkerPool <- OnePool
  RunPool <- RunsPool
  Key <- SameKey
  Unregistered = {}
  Terminate = {r1, r2}
  MaxAttempts = 2
  Concurrency = 1
  Allowed = {"stall", "crash", "cancel", "replay", "dbError", "shutdown", "timeout"}
  MaxFaults = 2
SYMMETRY Symmetry
INVARIANTS OwnerIsRunning ClaimExclusive LaneExclusive NoDoubleExecution
PROPERTIES OnlyLateWritesUndo ImplementsLease
