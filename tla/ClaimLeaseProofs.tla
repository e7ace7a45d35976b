-------------------------- MODULE ClaimLeaseProofs --------------------------
(***************************************************************************)
(* Theorems about ClaimLease for every threshold, interval and bound.      *)
(***************************************************************************)
EXTENDS ClaimLease, TLAPS

LEMMA HeartbeatPositive ==
  /\ Heartbeat \in Nat /\ Heartbeat >= 1
  /\ Period \in Nat /\ Heartbeat <= Period
BY LeaseAssumption DEF Heartbeat, DefaultHeartbeat, Period

LEMMA ZeroInBounds == 0 \in Nat /\ 0 \in 0..MaxMissed
BY LeaseAssumption

\* Multiplication by the next number, spelled out for the arithmetic solver.
LEMMA NextMultiple == ASSUME NEW n \in Nat, NEW h \in Nat
                      PROVE  /\ (n + 1) * h = n * h + h
                             /\ n * h \in Nat
                             /\ (n + 0) * h = n * h
OBVIOUS

LEMMA Monotone == ASSUME NEW m \in Nat, NEW n \in Nat, m <= n, NEW h \in Nat
                  PROVE  m * h <= n * h
<1>1. PICK d \in Nat : n = m + d
  <2>1. n - m \in Nat /\ n = m + (n - m)
    OBVIOUS
  <2> QED
    BY <2>1
<1>2. n * h = m * h + d * h
  BY <1>1
<1>3. d * h \in Nat /\ m * h \in Nat
  OBVIOUS
<1> DEFINE nh == n * h
           mh == m * h
           dh == d * h
<1>4. nh = mh + dh /\ dh \in Nat /\ mh \in Nat
  BY <1>2, <1>3
<1> HIDE DEF nh, mh, dh
<1>5. mh <= mh + dh
  BY <1>4
<1>6. mh <= nh
  BY <1>4, <1>5
<1> QED
  BY <1>6 DEF nh, mh

\* The inductive invariant: types, a renewal in flight is as old as the phase,
\* a claim that is not registered has no renewals, and the accounting of the age.
LeaseInv ==
  /\ LeaseTypeOK
  /\ flight => phase <= MaxLatency
  /\ ~registered => ~flight /\ missed = 0
  /\ AgeBound
  /\ NeverSwept

LEMMA InitLeaseInv == LeaseInit => LeaseInv
<1> SUFFICES ASSUME LeaseInit PROVE LeaseInv
  OBVIOUS
<1>1. LeaseTypeOK
  BY ZeroInBounds DEF LeaseInit, LeaseTypeOK
<1>2. age <= MaxGap + 0
  BY LeaseAssumption DEF LeaseInit
<1> QED
  BY <1>1, <1>2 DEF LeaseInit, LeaseInv, AgeBound, NeverSwept

LEMMA AgeWithinThreshold == ASSUME Margin, LeaseInv, alive PROVE age + MaxSkew <= Threshold
<1> DEFINE beats == missed + (IF flight THEN 1 ELSE 0)
<1> USE LeaseAssumption, HeartbeatPositive
<1>1. /\ beats \in Nat /\ MaxMissed + 1 \in Nat /\ age \in Nat /\ phase \in Nat
      /\ phase <= Period /\ missed <= MaxMissed /\ missed \in Nat
  BY DEF LeaseInv, LeaseTypeOK
<1>2. (MaxMissed + 1) * Period \in Nat
  BY <1>1
<1>3. CASE ~registered
  <2>1. age <= MaxGap + 0
    BY <1>3 DEF LeaseInv, AgeBound
  <2> QED
    BY <1>1, <1>2, <2>1 DEF Margin
<1>4. CASE registered /\ flight
  <2>1. beats * Period <= (MaxMissed + 1) * Period
    BY <1>1, <1>4, Monotone
  <2>2. phase <= MaxLatency
    BY <1>4 DEF LeaseInv
  <2>3. beats * Period \in Nat
    BY <1>1
  <2>4. age <= MaxGap + (beats * Period + phase)
    BY <1>4 DEF LeaseInv, AgeBound
  <2> HIDE DEF beats
  <2> QED
    BY <1>1, <1>2, <2>1, <2>2, <2>3, <2>4 DEF Margin
<1>5. CASE registered /\ ~flight
  <2>1. beats = missed
    BY <1>1, <1>5
  <2>2. missed * Period <= MaxMissed * Period
    BY <1>1, Monotone
  <2>3. (MaxMissed + 1) * Period = MaxMissed * Period + Period
    BY NextMultiple
  <2>4. missed * Period \in Nat /\ MaxMissed * Period \in Nat
    BY <1>1, NextMultiple
  <2>5. age <= MaxGap + (beats * Period + phase)
    BY <1>5 DEF LeaseInv, AgeBound
  <2> HIDE DEF beats
  <2> QED
    BY <1>1, <2>1, <2>2, <2>3, <2>4, <2>5 DEF Margin
<1> QED
  BY <1>3, <1>4, <1>5

LEMMA NextLeaseInv == ASSUME Margin PROVE LeaseInv /\ [LeaseNext]_leaseVars => LeaseInv'
<1> SUFFICES ASSUME LeaseInv, [LeaseNext]_leaseVars PROVE LeaseInv'
  OBVIOUS
<1> USE LeaseAssumption, HeartbeatPositive
<1> USE DEF LeaseTypeOK
<1>1. /\ LeaseTypeOK /\ NeverSwept /\ AgeBound /\ (flight => phase <= MaxLatency)
      /\ ~registered => ~flight /\ missed = 0
  BY DEF LeaseInv
<1>2. missed * Period \in Nat /\ (missed + 1) * Period = missed * Period + Period
  BY <1>1, NextMultiple
<1>3. age \in Nat /\ phase \in Nat /\ missed \in Nat /\ (missed + 0) * Period = missed * Period
  BY <1>1
<1>4. CASE Tick
  <2>1. CASE registered
    <3>1. age' <= MaxGap + ((missed' + (IF flight' THEN 1 ELSE 0)) * Period + phase')
      BY <1>1, <1>2, <1>3, <1>4, <2>1 DEF Tick, AgeBound
    <3> QED
      BY <1>1, <1>4, <2>1, <3>1 DEF Tick, LeaseInv, AgeBound, NeverSwept
  <2>2. CASE ~registered
    <3>1. age' <= MaxGap + 0
      BY <1>3, <1>4, <2>2 DEF Tick
    <3> QED
      BY <1>1, <1>4, <2>2, <3>1 DEF Tick, LeaseInv, AgeBound, NeverSwept
  <2> QED
    BY <2>1, <2>2
<1>5. CASE Register
  <2>1. /\ registered' = TRUE /\ ~registered /\ ~flight /\ missed = 0
        /\ UNCHANGED <<age, phase, flight, missed, held, alive>>
    BY <1>1, <1>5 DEF Register
  <2>2. alive => age <= MaxGap + 0
    BY <1>1, <2>1 DEF AgeBound
  <2>3. (missed' + 0) * Period = 0
    BY <1>3, <2>1
  <2>4. alive' => age' <= MaxGap + ((missed' + 0) * Period + phase')
    BY <1>3, <2>1, <2>2, <2>3
  <2>5. AgeBound'
    BY <2>1, <2>4 DEF AgeBound
  <2> QED
    BY <1>1, <2>1, <2>5 DEF LeaseInv, NeverSwept
<1>6. CASE Beat
  <2>1. /\ alive /\ ~flight /\ phase' = 0 /\ flight' = registered
        /\ UNCHANGED <<age, missed, registered, held, alive>>
    BY <1>6 DEF Beat
  <2>2. CASE registered
    <3>1. age <= MaxGap + (missed * Period + Period)
      BY <1>1, <1>2, <1>3, <2>1, <2>2 DEF AgeBound
    <3>2. age' <= MaxGap + ((missed' + 1) * Period + phase')
      BY <1>2, <1>3, <2>1, <3>1
    <3>3. AgeBound'
      BY <2>1, <2>2, <3>2 DEF AgeBound
    <3> QED
      BY <1>1, <2>1, <2>2, <3>3 DEF LeaseInv, NeverSwept
  <2>3. CASE ~registered
    BY <1>1, <2>1, <2>3 DEF LeaseInv, AgeBound, NeverSwept
  <2> QED
    BY <2>2, <2>3
<1>7. CASE RenewLands
  <2>1. /\ age' = (IF held THEN phase ELSE age) /\ missed' = 0 /\ flight' = FALSE
        /\ registered
        /\ UNCHANGED <<phase, registered, held, alive>> /\ NeverSwept'
    BY <1>1, <1>7 DEF RenewLands, NeverSwept
  <2>2. alive' => age' <= MaxGap + ((missed' + 0) * Period + phase')
    <3>1. (missed' + 0) * Period = 0
      BY <2>1
    <3> QED
      BY <1>1, <1>3, <2>1, <3>1 DEF NeverSwept
  <2>3. AgeBound'
    BY <2>1, <2>2 DEF AgeBound
  <2>4. LeaseTypeOK'
    BY <1>1, <1>3, <2>1, ZeroInBounds
  <2> QED
    BY <2>1, <2>3, <2>4 DEF LeaseInv
<1>8. CASE RenewFails
  <2>1. /\ missed' = missed + 1 /\ flight' = FALSE /\ flight /\ registered
        /\ UNCHANGED <<age, phase, registered, held, alive>> /\ missed' \in 0..MaxMissed
    BY <1>1, <1>8 DEF RenewFails
  <2>2. (missed + 1 + 0) * Period = (missed + 1) * Period
    BY <1>3
  <2>3. alive => age <= MaxGap + ((missed + 1) * Period + phase)
    BY <1>1, <2>1 DEF AgeBound
  <2>4. alive => age' <= MaxGap + ((missed' + 0) * Period + phase')
    BY <2>1, <2>2, <2>3
  <2>5. AgeBound'
    BY <2>1, <2>4 DEF AgeBound
  <2>6. LeaseTypeOK'
    BY <1>1, <2>1
  <2> QED
    BY <1>1, <2>1, <2>5, <2>6 DEF LeaseInv, NeverSwept
<1>9. CASE Sweeps
  <2>1. CASE alive
    <3>1. age + MaxSkew <= Threshold
      BY <2>1, AgeWithinThreshold
    <3>2. PICK skew \in 0..MaxSkew : age + skew > Threshold
      BY <1>9 DEF Sweeps
    <3> QED
      BY <1>3, <3>1, <3>2
  <2>2. CASE ~alive
    BY <1>1, <1>9, <2>2 DEF Sweeps, LeaseInv, AgeBound, NeverSwept
  <2> QED
    BY <2>1, <2>2
<1>10. CASE TickUnattended \/ Dies
  <2>1. ~alive'
    BY <1>10 DEF TickUnattended, Dies
  <2>2. AgeBound' /\ NeverSwept'
    BY <2>1 DEF AgeBound, NeverSwept
  <2>3. CASE TickUnattended
    <3>1. LeaseTypeOK' /\ (flight' => phase' <= MaxLatency)
      BY <1>1, <1>3, <2>3 DEF TickUnattended
    <3>2. ~registered' => ~flight' /\ missed' = 0
      BY <1>1, <2>3 DEF TickUnattended
    <3> QED
      BY <2>2, <3>1, <3>2 DEF LeaseInv
  <2>4. CASE Dies
    <3>1. LeaseTypeOK' /\ ~flight' /\ (~registered' => missed' = 0)
      BY <1>1, <2>4 DEF Dies
    <3> QED
      BY <2>2, <3>1 DEF LeaseInv
  <2> QED
    BY <1>10, <2>3, <2>4
<1>11. CASE Reclaim
  <2>1. /\ age' = 0 /\ missed' = 0 /\ phase' \in 0..Period /\ registered' = FALSE
        /\ flight' = FALSE /\ held' = TRUE /\ alive' = TRUE
    BY <1>11 DEF Reclaim
  <2>2. age' <= MaxGap + 0
    BY <2>1
  <2>3. AgeBound' /\ NeverSwept'
    BY <2>1, <2>2 DEF AgeBound, NeverSwept
  <2>4. LeaseTypeOK'
    BY <2>1, ZeroInBounds
  <2> QED
    BY <2>1, <2>3, <2>4 DEF LeaseInv
<1>12. CASE UNCHANGED leaseVars
  BY <1>1, <1>12 DEF leaseVars, LeaseInv, AgeBound, NeverSwept
<1> QED
  BY <1>4, <1>5, <1>6, <1>7, <1>8, <1>9, <1>10, <1>11, <1>12 DEF LeaseNext

\* A live worker's claim is never swept, for every threshold that leaves room
\* for the gap before its registration, the missed beats and the lateness of
\* each, the latency of a renewal and the skew of the clocks.
THEOREM LiveClaimNeverSwept == ASSUME Margin PROVE LeaseSpec => []NeverSwept
<1>1. LeaseInv => NeverSwept
  BY DEF LeaseInv, NeverSwept
<1>2. LeaseInv /\ [LeaseNext]_leaseVars => LeaseInv'
  BY NextLeaseInv
<1> QED
  BY <1>1, <1>2, InitLeaseInv, PTL DEF LeaseSpec

\* The age of a live worker's claim never exceeds what the gap before its
\* registration and the beats it missed account for.
THEOREM AgeIsAccounted == ASSUME Margin PROVE LeaseSpec => []AgeBound
<1>1. LeaseInv => AgeBound
  BY DEF LeaseInv
<1>2. LeaseInv /\ [LeaseNext]_leaseVars => LeaseInv'
  BY NextLeaseInv
<1> QED
  BY <1>1, <1>2, InitLeaseInv, PTL DEF LeaseSpec

\* With the default interval, a live worker's claim survives a missed renewal if
\* gap, latency, skew and the lateness of two beats fit together into a third of
\* the threshold.  (For a second one there is no room: three beats take the whole
\* threshold.)
THEOREM DefaultSurvivesOneBeat ==
  ASSUME Configured = 0, Threshold >= 3, MaxMissed = 1,
         MaxLatency < DefaultHeartbeat(Threshold),
         MaxGap + 2 * MaxLateness + MaxLatency + MaxSkew <= DefaultHeartbeat(Threshold)
  PROVE  LeaseSpec => []NeverSwept
<1> DEFINE h == DefaultHeartbeat(Threshold)
<1>1. Heartbeat = h /\ h \in Nat /\ 3 * h <= Threshold
  BY LeaseAssumption DEF Heartbeat, DefaultHeartbeat
<1>2. (MaxMissed + 1) * Period = 2 * h + 2 * MaxLateness
  BY <1>1, LeaseAssumption DEF Period
<1>3. Margin
  BY <1>1, <1>2, LeaseAssumption DEF Margin
<1> QED
  BY <1>3, LiveClaimNeverSwept

=============================================================================
