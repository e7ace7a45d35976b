SPECIFICATION Spec
CONSTANTS
  NoRun = NoRun  p1 = p1  p2 = p2  k1 = k1
  Runs = {r1, r2, r3}
  Calls = {c1, c2}
  Starters = {c1}
  Cancellers = {c2}
  Payloads = {p1}
  Policies = {"terminate", "abandon"}
  Deduped = FALSE
  Keyed = FALSE
  Key <- SharedKey
  Mode <- Queueing
  Spawning = TRUE
  Mortal = TRUE
SYMMETRY RunSymmetry
INVARIANTS CascadeLosesNone
