SPECIFICATION Spec
CONSTANTS
  i1 = i1  i2 = i2  healing = healing  skipping = skipping
  Instances = {i1, i2}
  Types = {skipping, healing}
  Rank <- Registry
  Every <- Periods
  Aligned = {skipping, healing}
  CatchUp = {healing}
  MaxCatchUpSlots = 2
  TickInterval = 2
  Lateness = 2
  Skew <- SkewOne
  MaxTime = 6
  MaxFaults = 1
INVARIANTS OneEventPerSlot EverySlotAccounted CurrentSlotReady
