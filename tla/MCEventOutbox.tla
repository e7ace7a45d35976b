---------------------------- MODULE MCEventOutbox ----------------------------
(* Instances of EventOutbox for TLC. *)
EXTENDS EventOutbox, TLC

CONSTANTS p1, p2, e1, e2

ServeAll  == [p \in Drainers |-> Events]
\* The first drainer has all pools, the others the first event's.
ServeSome == [p \in Drainers |-> IF p = p1 THEN Events ELSE {e1}]
=============================================================================
