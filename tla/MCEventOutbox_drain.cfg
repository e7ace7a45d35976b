SPECIFICATION OutboxFairSpec
CONSTANTS
  p1 = p1  p2 = p2  e1 = e1  e2 = e2  NoEvent = NoEvent
  Events = {e1, e2}
  Drainers = {p1, p2}
  Serves <- ServeSome
  BatchSize = 2
  Allowed = {"rollback", "claimError", "shutdown", "crash"}
  MaxFaults = 2
INVARIANTS WakeNotSwallowed DispatchAfterCommit StampedIsDelivered TwiceOnlyWhenShared
PROPERTIES EveryEventProcessed
