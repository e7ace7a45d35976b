---------------------------- MODULE BridgePromise ----------------------------
(***************************************************************************)
(* What the event-to-job bridge promises to those who publish events and   *)
(* read the delivery ledger, without drains, wrappers, steps or retries:   *)
(* an event is processed together with the birth of its deliveries, a      *)
(* verdict follows what was done, and it is given once.                    *)
(*                                                                         *)
(* The builds of the workers have a say: the one that works on a delivery  *)
(* accepts or declines it.  Only about a delivery they do not agree on can *)
(* a verdict be given a second time, and then it can be the other one.     *)
(***************************************************************************)
CONSTANTS
  Events,
  Deliveries,  \* pairs of an event and a trigger
  Eager,       \* deliveries whose job publishAndStart starts itself
  Inert,       \* events that have no deliveries
  Wanted,      \* deliveries that some build accepts
  Unwanted     \* deliveries that some build declines

VARIABLES
  row,         \* of each event: absent, pending or processed
  verdict,     \* of each delivery: absent, pending, delivered or skipped
  started      \* deliveries whose user job was started

Disputed == Wanted \cap Unwanted

Open(d) == verdict[d] = "pending" \/ (d \in Disputed /\ verdict[d] # "absent")

Publish(e) ==
  /\ row[e] = "absent"
  /\ row' = [row EXCEPT ![e] = "pending"]
  /\ UNCHANGED <<verdict, started>>

PublishAndStart(e) ==
  LET now == {d \in Eager : d[1] = e}
  IN /\ row[e] = "absent"
     /\ row' = [row EXCEPT ![e] = "pending"]
     /\ verdict' = [d \in Deliveries |-> IF d \in now THEN "delivered" ELSE verdict[d]]
     /\ started' = started \cup now

\* Every delivery of the event has a row from this moment on.
Process(e) ==
  LET new == {d \in Deliveries : d[1] = e /\ e \notin Inert /\ verdict[d] = "absent"}
  IN /\ row[e] = "pending"
     /\ row' = [row EXCEPT ![e] = "processed"]
     /\ verdict' = [d \in Deliveries |-> IF d \in new THEN "pending" ELSE verdict[d]]
     /\ UNCHANGED started

StartJob(d) ==
  /\ d \in Wanted /\ Open(d)
  /\ started' = started \cup {d}
  /\ UNCHANGED <<row, verdict>>

Deliver(d) ==
  /\ d \in started /\ Open(d)
  /\ verdict' = [verdict EXCEPT ![d] = "delivered"]
  /\ UNCHANGED <<row, started>>

Skip(d) ==
  /\ d \in Unwanted /\ Open(d)
  /\ verdict' = [verdict EXCEPT ![d] = "skipped"]
  /\ UNCHANGED <<row, started>>

Init ==
  /\ row = [e \in Events |-> "absent"]
  /\ verdict = [d \in Deliveries |-> "absent"]
  /\ started = {}

Next ==
  \/ \E e \in Events : Publish(e) \/ PublishAndStart(e) \/ Process(e)
  \/ \E d \in Deliveries : StartJob(d) \/ Deliver(d) \/ Skip(d)

Spec == Init /\ [][Next]_<<row, verdict, started>>

=============================================================================
