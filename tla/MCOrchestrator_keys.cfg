SPECIFICATION Spec
CONSTANTS
  NoRun = NoRun  p1 = p1  p2 = p2  k1 = k1
  Runs = {r1, r2, r3}
  Calls = {c1, c2}
  Starters = {c1, c2}
  Cancellers = {c2}
  Payloads = {p1, p2}
  Key <- SharedKey
  Mode <- Mixed
  Policies = {"terminate"}
  Deduped = TRUE
  Keyed = TRUE
  Spawning = FALSE
  Mortal = TRUE
CONSTRAINT OneExcuse
SYMMETRY RunSymmetry
INVARIANTS SoleInFlight SoleInWindow
