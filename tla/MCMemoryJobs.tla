----------------------------- MODULE MCMemoryJobs -----------------------------
(* Instances of MemoryJobs for TLC. *)
EXTENDS MemoryJobs, TLC

CONSTANT k

\* Two runs of a job type that queues, then one that replaces, under one key.
OneKey   == [r \in Runs |-> k]
TwoModes == [r \in Runs |-> IF r < 3 THEN "queue" ELSE "replace"]
\* The second run is left alone when another run of its tree is cancelled.
TwoPolicies == [r \in Runs |-> IF r = 2 THEN "abandon" ELSE "terminate"]

\* The two executions are alike.
TickSymmetry == Permutations(Ticks)
=============================================================================
