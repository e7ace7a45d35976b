-------------------------- MODULE MCEventScheduler ---------------------------
(* Instances of EventScheduler for TLC. *)
EXTENDS EventScheduler, TLC

CONSTANTS i1, i2, skipping, healing

\* The registry lists `skipping` first.
Registry == [t \in Types |-> IF t = skipping THEN 1 ELSE 2]
Periods  == [t \in Types |-> 2]
SkewOne  == [i \in Instances |-> IF i = i1 THEN 0 ELSE 1]
=============================================================================
