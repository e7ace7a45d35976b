SPECIFICATION FairSpec
CONSTANTS
  p1 = p1  e1 = e1  e2 = e2  t1 = t1  t2 = t2  NoEvent = NoEvent  NoDelivery = NoDelivery
  x1 = x1  x2 = x2
  Events = {e1}
  Drainers = {p1}
  Serves <- ServeAll
  BatchSize = 2
  Triggers = {t1, t2}
  Registry <- Subscribed
  EagerJob = {t1}
  Inert = {}
  Declined <- OldBuild
  Execs = {x1, x2}
  Allowed = {"rollback", "crash", "dbError", "workerCrash", "stall", "replay"}
  MaxFaults = 2
INVARIANTS FanoutComplete EagerStartsOnce SpawnOnce LedgerTruth
PROPERTIES ImplementsPromise EveryDeliverySettles
