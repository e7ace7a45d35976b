------------------------------ MODULE ClaimLease ------------------------------
(***************************************************************************)
(* The timing of a claim: job-worker.ts renews claimed_at on a timer       *)
(* (renewClaims) and puts back rows whose claimed_at is older than         *)
(* staleThresholdMs (sweepStaleClaims).  One action of Tick is one         *)
(* millisecond.  JobWorker lets a claim age at any time; this module says  *)
(* when a live worker's claim cannot.                                      *)
(*                                                                         *)
(* A claim is stamped inside its transaction, and renewed only from the    *)
(* moment its id is in inFlightRunIds, after the transaction has returned. *)
(* The timer of a busy event loop fires late, and is armed again when it   *)
(* has fired.  A renewal writes the time at which it was issued and takes  *)
(* a while to reach the row; it may fail, which costs one beat.  The       *)
(* sweeper compares with the clock of its own process, which may run       *)
(* ahead.  A worker that shuts down stops renewing and is not followed     *)
(* (JobWorker has it).                                                     *)
(***************************************************************************)
EXTENDS Naturals

CONSTANTS
  Threshold,  \* staleThresholdMs
  Configured, \* claimHeartbeatIntervalMs, 0 when the option is not given
  MaxMissed,  \* renewals in a row that fail (a bound)
  MaxLatency, \* from the issue of a renewal to its effect (a bound)
  MaxLateness, \* by which the heartbeat timer fires late (a bound)
  MaxGap,     \* from the stamp of a claim to its registration (a bound)
  MaxSkew     \* by which a sweeper's clock is ahead (a bound)

ASSUME LeaseAssumption ==
  /\ Threshold \in Nat
  /\ Configured \in Nat
  /\ MaxMissed \in Nat
  /\ MaxLatency \in Nat
  /\ MaxLateness \in Nat
  /\ MaxGap \in Nat
  /\ MaxSkew \in Nat

\* Mutant: half of the threshold.
HalfOfThreshold(threshold) == IF threshold \div 2 < 1 THEN 1 ELSE threshold \div 2

\* A third of the threshold, at least one millisecond.
DefaultHeartbeat(threshold) == IF threshold \div 3 < 1 THEN 1 ELSE threshold \div 3

Heartbeat == IF Configured = 0 THEN DefaultHeartbeat(Threshold) ELSE Configured

\* The longest time between two beats.
Period == Heartbeat + MaxLateness

VARIABLES
  age,     \* now - claimed_at
  phase,   \* time since the heartbeat timer last fired
  flight,  \* a renewal has been issued, at the last beat, and not yet landed
  missed,  \* renewals that have failed in a row
  registered, \* the run is in inFlightRunIds
  held,    \* the row is still running for this worker
  alive    \* the worker's process lives

leaseVars == <<age, phase, flight, missed, registered, held, alive>>

LeaseTypeOK ==
  /\ age \in Nat
  /\ phase \in 0..Period
  /\ flight \in BOOLEAN
  /\ missed \in 0..MaxMissed
  /\ registered \in BOOLEAN
  /\ held \in BOOLEAN
  /\ alive \in BOOLEAN

\* The timer belongs to the worker: a claim can fall at any point of its period.
LeaseInit ==
  /\ age = 0
  /\ phase \in 0..Period
  /\ flight = FALSE
  /\ missed = 0
  /\ registered = FALSE
  /\ held = TRUE
  /\ alive = TRUE

\* Time passes: the timer is at most MaxLateness late, a renewal in flight lands
\* or fails within MaxLatency, and a claim is registered within MaxGap.  Time
\* after a sweep is not followed.
Tick ==
  /\ held /\ alive
  /\ phase < Period
  /\ flight => phase < MaxLatency
  /\ ~registered => age < MaxGap
  /\ age' = age + 1
  /\ phase' = phase + 1
  /\ UNCHANGED <<flight, missed, registered, held, alive>>

\* Nobody renews the claim of a dead worker.  (It is old enough for every
\* sweeper at Threshold + 1; time is not followed further.)
TickUnattended ==
  /\ held /\ ~alive
  /\ age <= Threshold
  /\ age' = age + 1
  /\ UNCHANGED <<phase, flight, missed, registered, held, alive>>

\* claimNext has returned, and the id is added to inFlightRunIds.
Register ==
  /\ alive /\ ~registered
  /\ registered' = TRUE
  /\ UNCHANGED <<age, phase, flight, missed, held, alive>>

\* The timer fires, and renews the ids that are registered at that moment,
\* whether or not the last renewal is back (an earlier renewal that lands after
\* a later one is not modelled: MaxLatency < Heartbeat).
Beat ==
  /\ alive
  /\ phase >= Heartbeat
  /\ ~flight
  /\ phase' = 0
  /\ flight' = registered
  /\ UNCHANGED <<age, missed, registered, held, alive>>

\* The UPDATE takes effect, on a row that is still running.
RenewLands ==
  /\ flight
  /\ age' = IF held THEN phase ELSE age
  /\ missed' = 0
  /\ flight' = FALSE
  /\ UNCHANGED <<phase, registered, held, alive>>

\* renewClaims logs the error: this beat is missed.
RenewFails ==
  /\ flight
  /\ missed < MaxMissed
  /\ missed' = missed + 1
  /\ flight' = FALSE
  /\ UNCHANGED <<age, phase, registered, held, alive>>

\* claimed_at < now - threshold, by the clock of the sweeping process.
Sweeps ==
  /\ held
  /\ \E skew \in 0..MaxSkew : age + skew > Threshold
  /\ held' = FALSE
  /\ UNCHANGED <<age, phase, flight, missed, registered, alive>>

\* The process dies, and with it the timer and a renewal on its way.
Dies ==
  /\ alive
  /\ alive' = FALSE
  /\ flight' = FALSE
  /\ UNCHANGED <<age, phase, missed, registered, held>>

\* The row that was put back is claimed by the next worker.
Reclaim ==
  /\ ~held
  /\ held' = TRUE /\ alive' = TRUE
  /\ age' = 0 /\ missed' = 0 /\ flight' = FALSE /\ registered' = FALSE
  /\ phase' \in 0..Period

LeaseNext ==
  \/ Tick \/ TickUnattended \/ Register \/ Beat \/ RenewLands \/ RenewFails
  \/ Sweeps \/ Dies \/ Reclaim

LeaseSpec == LeaseInit /\ [][LeaseNext]_leaseVars

-----------------------------------------------------------------------------
\* What the threshold must leave room for: the claim that just misses a beat
\* while it is being registered, the beats that fail after it, each as late as
\* it may be, and the way of the renewal that lands at last.
Margin ==
  /\ MaxLatency < Heartbeat
  /\ MaxGap + (MaxMissed + 1) * Period + MaxLatency + MaxSkew <= Threshold

\* The age of a live worker's claim is accounted for by the gap before its
\* registration, the beats it missed, the one under way and the time since.
AgeBound ==
  alive => age <= MaxGap + (IF registered
                            THEN (missed + (IF flight THEN 1 ELSE 0)) * Period + phase
                            ELSE 0)

\* A live worker's claim is never swept (JobWorkerOptions: "a legitimately
\* long-running handler"), as long as no more than MaxMissed renewals fail in a
\* row and timer, claim, renewal and clocks keep to their bounds.
NeverSwept == alive => held

=============================================================================
