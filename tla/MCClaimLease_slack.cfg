SPECIFICATION LeaseSpec
CONSTANTS
  Threshold = 30
  Configured = 0
  MaxMissed = 1
  MaxLatency = 2
  MaxLateness = 1
  MaxGap = 3
  MaxSkew = 3
INVARIANTS NeverSwept
