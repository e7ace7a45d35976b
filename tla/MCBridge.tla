------------------------------- MODULE MCBridge -------------------------------
(* Instances of Bridge for TLC. *)
EXTENDS Bridge, TLC

CONSTANTS p1, e1, e2, t1, t2, x1, x2

ServeAll == [p \in Drainers |-> Events]

\* Both triggers want the first event's type, one the second's.
Subscribed == [e \in Events |-> IF e = e1 THEN Triggers ELSE {t1}]
\* The build of the first execution does not know the second trigger.
OldBuild == [x \in Execs |-> IF x = x1 THEN {<<e1, t2>>} ELSE {}]
=============================================================================
