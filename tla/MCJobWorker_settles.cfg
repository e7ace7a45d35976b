SPECIFICATION FairSpec
CONSTANTS
  r1 = r1  r2 = r2  w1 = w1  w2 = w2  x1 = x1  x2 = x2  x3 = x3  k = k
  NoKey = NoKey  NoRun = NoRun  Nobody = Nobody
  Runs = {r1, r2}
  Workers = {w1, w2}
  Execs = {x1, x2, x3}
  Host <- TwoPlusOne
  WorkerPool <- OnePool
  RunPool <- RunsPool
  Key <- NoKeys
  Unregistered = {r2}
  Terminate = {r1}
  MaxAttempts = 2
  Concurrency = 1
  Allowed = {"stall", "crash", "cancel", "dbError", "shutdown", "timeout"}
  MaxFaults = 1
INVARIANTS CeilingKept NoStrandedBeat
PROPERTIES EveryRunSettles
