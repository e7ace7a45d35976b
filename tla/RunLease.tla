------------------------------ MODULE RunLease ------------------------------
(***************************************************************************)
(* What the claim on a job_run row promises, without the table: a run is   *)
(* held by at most one execution, a holder may enter the lane of its       *)
(* concurrency key when no other holder is in it, and a hold ends when the *)
(* execution settles or when it is taken away.  Two backends implement it: *)
(* JobWorker, and BullJobs, which has no lanes.                            *)
(***************************************************************************)
CONSTANTS Runs, Execs, Key, NoKey, Nobody

VARIABLES
  holder,  \* the execution that holds each run, or Nobody
  lane     \* the held runs whose execution has passed the lane check

leaseVars == <<holder, lane>>

Held == {r \in Runs : holder[r] # Nobody}

Acquire(r, x) ==
  /\ holder[r] = Nobody
  /\ \A q \in Runs : holder[q] # x
  /\ holder' = [holder EXCEPT ![r] = x]
  /\ UNCHANGED lane

Enter(r) ==
  /\ r \in Held \ lane
  /\ \A q \in lane : Key[r] = NoKey \/ Key[q] # Key[r]
  /\ lane' = lane \cup {r}
  /\ UNCHANGED holder

\* Some holds end together: a sweep, a release of the pool, a crash.
End(S) ==
  /\ holder' = [r \in Runs |-> IF r \in S THEN Nobody ELSE holder[r]]
  /\ lane' = lane \ S

LeaseInit == holder = [r \in Runs |-> Nobody] /\ lane = {}

LeaseNext ==
  \/ \E S \in SUBSET Held : End(S)
  \/ \E r \in Runs : Enter(r)
  \/ \E r \in Runs, x \in Execs : Acquire(r, x)

LeaseSpec == LeaseInit /\ [][LeaseNext]_leaseVars

=============================================================================
