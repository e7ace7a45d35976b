--------------------------- MODULE MCOrchestrator ---------------------------
(* Instances of Orchestrator for TLC. *)
EXTENDS Orchestrator, TLC

CONSTANTS p1, p2, k1

\* Two job types that share a concurrency key; the other keys are not asked for.
SharedKey == [p \in Payloads |-> k1]

Queueing  == [p \in Payloads |-> "queue"]
\* One of the types rejects, the other replaces.
Mixed == [p \in Payloads |-> IF p = p1 THEN "reject" ELSE "replace"]

RunSymmetry == Permutations(Runs)

\* A bound: behaviours are followed as long as at most one row has come back or
\* was inserted by an overtaken start.  (Beyond it most of what the properties
\* say of the key is excused.)
OneExcuse == Cardinality(revived \cup raced["dedupe"] \cup raced["collide"]) <= 1
=============================================================================
