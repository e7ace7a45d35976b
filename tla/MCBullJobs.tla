------------------------------ MODULE MCBullJobs ------------------------------
(* Instances of BullJobs for TLC. *)
EXTENDS BullJobs, TLC

CONSTANTS r1, r2, k

\* Two runs under one dedupe key, or without one.
SharedOrNone == {[r \in Runs |-> k], [r \in Runs |-> r]}

\* The second run is left alone when the first is cancelled.
TwoPolicies == [r \in Runs |-> IF r = r2 THEN "abandon" ELSE "terminate"]

\* The calls, and the processors, are alike.
CallSymmetry == Permutations(Calls) \cup Permutations(Processors)
=============================================================================
