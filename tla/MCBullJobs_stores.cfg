SPECIFICATION Spec
CONSTANTS
  r1 = r1  r2 = r2  k = k  NoRun = NoRun  Nobody = Nobody
  Runs = {r1, r2}
  Keyings <- SharedOrNone
  Calls = {c1, c2}
  Processors = {p1, p2}
  Policy <- TwoPolicies
  Attempts = 2
  MaxReplays = 1
  MaxFaults = 1
SYMMETRY CallSymmetry
INVARIANTS LiveRunIsBacked OneProcessorPerRun
PROPERTIES CancelSticks
CHECK_DEADLOCK FALSE
