SPECIFICATION Spec
CONSTANTS
  k = k  NoKey = NoKey
  MaxRuns = 3
  Ticks = {t1, t2}
  Key <- OneKey
  Mode <- TwoModes
  Policy <- TwoPolicies
  Scratch = {2}
  StepCount = 1
  MaxAttempts = 2
  MaxReplays = 1
SYMMETRY TickSymmetry
INVARIANTS ParkedIsAwaited LaneKeepsTwoApart StepsTakeEffectOnce
PROPERTIES OnlyReplayRevives
CHECK_DEADLOCK FALSE
