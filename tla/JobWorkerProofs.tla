--------------------------- MODULE JobWorkerProofs ---------------------------
(***************************************************************************)
(* Theorems about JobWorker, for every number of runs, workers and         *)
(* executions, every assignment of pools and keys and every MaxFaults.     *)
(***************************************************************************)
EXTENDS JobWorker, FiniteSetTheorems, TLAPS

LEMMA InitTypeOK == Init => TypeOK
<1> SUFFICES ASSUME Init PROVE TypeOK
  OBVIOUS
<1>1. disturbed \in BOOLEAN
  BY Zenon DEF Init
<1> QED
  BY <1>1 DEF Init, TypeOK, Statuses, Steps

\* A fault is counted, and noted when it may disturb an execution.
LEMMA SpendType ==
  ASSUME TypeOK, NEW f, Spend(f)
  PROVE  spent' \in Nat /\ disturbed' \in BOOLEAN
<1>1. spent' \in Nat
  BY DEF TypeOK, Spend
<1>2. disturbed' \in BOOLEAN
  BY Zenon DEF Spend
<1> QED
  BY <1>1, <1>2

LEMMA SpendDisturbs ==
  ASSUME NEW f \in {"stall", "replay", "shutdown"}, Spend(f) PROVE disturbed'
BY DEF Spend

\* An execution that settles leaves a well-typed control state behind.
LEMMA FinishType ==
  ASSUME TypeOK, NEW x \in Execs, Finish(x)
  PROVE  /\ pc' \in [Execs -> Steps]
         /\ job' \in [Execs -> Runs \cup {NoRun}]
         /\ before' \in [Execs -> Nat]
         /\ beats' \in [Workers -> SUBSET Runs]
         /\ worker' \in [Workers -> {"up", "draining", "released", "down"}]
         /\ snapshot' \in [Workers -> SUBSET Execs]
         /\ overlapped' \in SUBSET Workers
         /\ \A y \in Execs : pc'[y] \notin {"idle", "polling"} => job'[y] \in Runs
<1> USE DEF TypeOK, Finish, Goto
<1>1. pc' \in [Execs -> Steps] /\ job' \in [Execs -> Runs \cup {NoRun}] /\ before' \in [Execs -> Nat]
  BY DEF Steps
<1>2. beats' \in [Workers -> SUBSET Runs]
  BY ConstantsAssumption
<1>3. snapshot' \in [Workers -> SUBSET Execs]
  BY ConstantsAssumption
<1>4. \A y \in Execs : pc'[y] \notin {"idle", "polling"} => job'[y] \in Runs
  OBVIOUS
<1> QED
  BY <1>1, <1>2, <1>3, <1>4

\* A write of rows and the loss of claims it causes are well typed.
LEMMA MoveType ==
  ASSUME TypeOK, NEW S, NEW new \in Statuses, Move(S, new)
  PROVE  status' \in [Runs -> Statuses] /\ stale' \in SUBSET Runs
BY DEF TypeOK, Move

LEMMA OustType ==
  ASSUME TypeOK, NEW x \in Execs, Oust(x)
  PROVE  revoked' \in SUBSET Execs
BY DEF TypeOK, Oust, WorkingOn

LEMMA NextTypeOK == TypeOK /\ [Next]_vars => TypeOK'
<1> SUFFICES ASSUME TypeOK, [Next]_vars PROVE TypeOK'
  OBVIOUS
<1> USE DEF TypeOK, rowVars, execVars, procVars, tally
<1>0. ASSUME NEW x \in Execs, Poll(x) PROVE TypeOK'
  <2>1. pc' \in [Execs -> Steps]
    BY <1>0 DEF Poll, Goto, Steps
  <2>2. overlapped' \in SUBSET Workers
    BY <1>0, ConstantsAssumption DEF Poll, NoteOverlap
  <2>3. \A y \in Execs : pc'[y] \notin {"idle", "polling"} => job[y] \in Runs
    BY <1>0 DEF Poll, Goto
  <2> QED
    BY <1>0, <2>1, <2>2, <2>3 DEF Poll
<1>1. ASSUME NEW x \in Execs, ClaimFails(x) PROVE TypeOK'
  BY <1>1, SpendType DEF ClaimFails, Goto, Steps
<1>2. ASSUME NEW x \in Execs,
             ClaimNothing(x) \/ Gate(x) \/ HandlerReturns(x)
               \/ HandlerThrows(x) \/ CompleteFails(x)
      PROVE  TypeOK'
  BY <1>2 DEF ClaimNothing, Gate, HandlerReturns, HandlerThrows, CompleteFails,
              OnError, Goto, Spend, Steps, Working, Settling
<1>3. ASSUME NEW x \in Execs, ClaimNext(x) PROVE TypeOK'
  BY <1>3 DEF ClaimNext, Claimable, Goto, Steps, Working, Statuses
<1>4. ASSUME NEW x \in Execs, Dispatch(x) PROVE TypeOK'
  <2>1. job[x] \in Runs
    BY <1>4 DEF Dispatch
  <2>2. beats' \in [Workers -> SUBSET Runs]
    BY <1>4, <2>1, ConstantsAssumption DEF Dispatch
  <2>3. pc' \in [Execs -> Steps]
    BY <1>4 DEF Dispatch, Goto, Steps, Working, Settling
  <2> QED
    BY <1>4, <2>1, <2>2, <2>3 DEF Dispatch, Goto
<1>5. ASSUME NEW x \in Execs, Defer(x) PROVE TypeOK'
  BY <1>5, FinishType, MoveType, OustType DEF Defer, Requeue, Statuses
<1>6. ASSUME NEW x \in Execs, Complete(x) PROVE TypeOK'
  BY <1>6, FinishType, MoveType, OustType DEF Complete, Statuses, Terminal
<1>7. ASSUME NEW x \in Execs, Retry(x) PROVE TypeOK'
  BY <1>7, FinishType, MoveType, OustType DEF Retry, Requeue, Statuses
<1>8. ASSUME NEW x \in Execs, Fail(x) PROVE TypeOK'
  <2>1. /\ status' \in [Runs -> Statuses] /\ stale' \in SUBSET Runs
        /\ attempts' \in [Runs -> Nat] /\ revoked' \in SUBSET Execs
    BY <1>8, MoveType, OustType DEF Fail, Statuses, Terminal
  <2>2. CASE Finish(x)
    BY <1>8, <2>1, <2>2, FinishType DEF Fail
  <2>3. CASE Goto(x, "cascade") /\ UNCHANGED <<job, before, procVars>>
    BY <1>8, <2>1, <2>3 DEF Fail, Goto, Steps
  <2> QED
    BY <1>8, <2>2, <2>3 DEF Fail
<1>9. ASSUME NEW x \in Execs, Cascade(x) PROVE TypeOK'
  <2>1. /\ status' \in [Runs -> Statuses] /\ stale' \in SUBSET Runs
        /\ revoked' \in SUBSET Execs
    BY <1>9, MoveType, OustType DEF Cascade, Statuses, Terminal
  <2> QED
    BY <1>9, <2>1, FinishType DEF Cascade
<1>10. ASSUME NEW x \in Execs, Abandon(x) PROVE TypeOK'
  BY <1>10, FinishType DEF Abandon, Spend
<1>11. ASSUME NEW w \in Workers, Renew(w) \/ Restart(w) \/ BeginShutdown(w) \/ ReleaseFails(w)
      PROVE  TypeOK'
  BY <1>11, SpendType DEF Renew, Restart, BeginShutdown, ReleaseFails, InFlight, ExecsOf
<1>12. ASSUME NEW w \in Workers, Sweep(w) PROVE TypeOK'
  BY <1>12 DEF Sweep, Requeue, Move, WorkingOn, Statuses
<1>13. ASSUME NEW w \in Workers, ReleasePool(w) PROVE TypeOK'
  BY <1>13 DEF ReleasePool, Requeue, Move, WorkingOn, Statuses, Spend
<1>14. ASSUME NEW w \in Workers, Stop(w) PROVE TypeOK'
  BY <1>14 DEF Stop, ExecsOf, Spend, Steps
<1>15. ASSUME NEW r \in Runs, Start(r) \/ Age(r) \/ ComesDue(r) \/ ReplayCheck(r) PROVE TypeOK'
  <2>1. CASE Start(r)
    <3>1. due' \in [Runs -> BOOLEAN]
      BY <2>1, Zenon DEF Start
    <3> QED
      BY <2>1, <3>1 DEF Start, Statuses
  <2>2. CASE Age(r)
    BY <2>2, SpendType DEF Age
  <2>3. CASE ComesDue(r)
    BY <2>3 DEF ComesDue
  <2>4. CASE ReplayCheck(r)
    BY <2>4 DEF ReplayCheck, Spend
  <2> QED
    BY <1>15, <2>1, <2>2, <2>3, <2>4
<1>16. ASSUME NEW r \in Runs, Cancel(r) PROVE TypeOK'
  BY <1>16 DEF Cancel, Move, WorkingOn, Spend, Statuses, Terminal
<1>17. ASSUME NEW r \in Runs, ReplayCommit(r) PROVE TypeOK'
  BY <1>17 DEF ReplayCommit, Requeue, Move, WorkingOn, Statuses
<1>18. CASE UNCHANGED vars
  BY <1>18 DEF vars
<1> QED
  BY <1>0, <1>1, <1>2, <1>3, <1>4, <1>5, <1>6, <1>7, <1>8, <1>9, <1>10, <1>11, <1>12,
     <1>13, <1>14, <1>15, <1>16, <1>17, <1>18 DEF Next, Execute

\* The variables keep their types: in particular an execution past its claim
\* always names a run, which every settling write relies on.
THEOREM TypeCorrect == Spec => []TypeOK
BY InitTypeOK, NextTypeOK, PTL DEF Spec

-----------------------------------------------------------------------------
(* The claim protocol *)

\* The three facts about valid claims hold each other up: the claim
\* transaction needs every valid claim's row to be running, and the lane check
\* needs that and one execution per run.
ClaimInv == OwnerIsRunning /\ ClaimExclusive /\ LaneExclusive

LEMMA InitClaimInv == Init => ClaimInv
BY DEF Init, ClaimInv, OwnerIsRunning, ClaimExclusive, LaneExclusive, Current, InLane, Working, Settling

LEMMA NextClaimInv == TypeOK /\ ClaimInv /\ [Next]_vars => ClaimInv'
<1> SUFFICES ASSUME TypeOK, ClaimInv, [Next]_vars PROVE ClaimInv'
  OBVIOUS
<1> USE DEF TypeOK, ClaimInv, OwnerIsRunning, ClaimExclusive, LaneExclusive, Current, InLane,
            Working, Settling
<1>1. ASSUME NEW x \in Execs, Poll(x) \/ ClaimNothing(x) \/ HandlerReturns(x)
                                 \/ HandlerThrows(x) \/ CompleteFails(x) \/ ClaimFails(x)
      PROVE  ClaimInv'
  BY <1>1 DEF Poll, ClaimNothing, HandlerReturns, HandlerThrows, CompleteFails, ClaimFails,
              OnError, Goto, rowVars
<1>2. ASSUME NEW x \in Execs, Gate(x) PROVE ClaimInv'
  <2>1. UNCHANGED <<status, job, revoked>> /\ pc[x] = "gate" /\ pc'[x] \in {"defer", "handler"}
    BY <1>2 DEF Gate, Goto, rowVars
  <2>2. \A y \in Execs : y # x => pc'[y] = pc[y]
    BY <1>2 DEF Gate, Goto
  <2>3. pc'[x] = "handler" =>
          \A r \in Runs \ {job[x]} : Key[r] = Key[job[x]] => status[r] # "running"
    BY <1>2 DEF Gate, Goto
  <2>4. OwnerIsRunning' /\ ClaimExclusive'
    BY <2>1, <2>2
  <2>5. ASSUME NEW y \in Execs, y # x, Current(x)', Current(y)', InLane(x)', InLane(y)'
        PROVE  Key[job[x]] # Key[job[y]]
    <3>1. Current(x) /\ Current(y) /\ job[y] \in Runs
      BY <2>1, <2>2, <2>5
    <3>2. job[y] # job[x] /\ status[job[y]] = "running"
      BY <2>5, <3>1
    <3> QED
      BY <2>1, <2>3, <2>5, <3>1, <3>2
  <2>6. LaneExclusive'
    BY <2>1, <2>2, <2>5
  <2> QED
    BY <2>4, <2>6
<1>3. ASSUME NEW x \in Execs, ClaimNext(x) PROVE ClaimInv'
  BY <1>3 DEF ClaimNext, Claimable, Goto
<1>4. ASSUME NEW x \in Execs, Dispatch(x) PROVE ClaimInv'
  BY <1>4 DEF Dispatch, Goto, rowVars
<1>5. ASSUME NEW x \in Execs, Defer(x) \/ Complete(x) \/ Retry(x) PROVE ClaimInv'
  <2>1. PICK new \in Statuses : Move({job[x]}, new) /\ Oust(x) /\ Finish(x)
    BY <1>5 DEF Defer, Complete, Retry, Requeue, Statuses, Terminal
  <2> QED
    BY <2>1 DEF Move, Oust, Finish, Goto, WorkingOn
<1>6. ASSUME NEW x \in Execs, Fail(x) PROVE ClaimInv'
  BY <1>6 DEF Fail, Move, Oust, Finish, Goto, WorkingOn
<1>7. ASSUME NEW x \in Execs, Cascade(x) PROVE ClaimInv'
  BY <1>7 DEF Cascade, Move, Oust, Finish, Goto, WorkingOn
<1>8. ASSUME NEW x \in Execs, Abandon(x) PROVE ClaimInv'
  BY <1>8 DEF Abandon, Finish, Goto, rowVars
<1>9. ASSUME NEW w \in Workers, Renew(w) \/ Restart(w) \/ BeginShutdown(w) \/ ReleaseFails(w)
      PROVE  ClaimInv'
  BY <1>9 DEF Renew, Restart, BeginShutdown, ReleaseFails, rowVars, execVars
<1>10. ASSUME NEW w \in Workers, Sweep(w) \/ ReleasePool(w) PROVE ClaimInv'
  BY <1>10 DEF Sweep, ReleasePool, Requeue, Move, WorkingOn, execVars
<1>11. ASSUME NEW w \in Workers, Stop(w) PROVE ClaimInv'
  BY <1>11 DEF Stop, ExecsOf, rowVars
<1>12. ASSUME NEW r \in Runs, Start(r) \/ Age(r) \/ ComesDue(r) \/ ReplayCheck(r) PROVE ClaimInv'
  BY <1>12 DEF Start, Age, ComesDue, ReplayCheck, rowVars, execVars
<1>13. ASSUME NEW r \in Runs, Cancel(r) \/ ReplayCommit(r) PROVE ClaimInv'
  BY <1>13 DEF Cancel, ReplayCommit, Requeue, Move, WorkingOn, execVars
<1>14. CASE UNCHANGED vars
  BY <1>14 DEF vars
<1> QED
  BY <1>1, <1>2, <1>3, <1>4, <1>5, <1>6, <1>7, <1>8, <1>9, <1>10, <1>11, <1>12,
     <1>13, <1>14 DEF Next, Execute

LEMMA ClaimInvCorrect == Spec => []ClaimInv
<1>1. Init => TypeOK /\ ClaimInv
  BY InitTypeOK, InitClaimInv
<1>2. TypeOK /\ ClaimInv /\ [Next]_vars => (TypeOK /\ ClaimInv)'
  BY NextTypeOK, NextClaimInv
<1> QED
  BY <1>1, <1>2, PTL DEF Spec

\* The unguarded settling writes are safe while the claim is valid.
THEOREM ValidClaimIsRunning == Spec => []OwnerIsRunning
BY ClaimInvCorrect, PTL DEF ClaimInv

\* At most one execution holds a valid claim on a run.
THEOREM ClaimIsExclusive == Spec => []ClaimExclusive
BY ClaimInvCorrect, PTL DEF ClaimInv

\* Reading the running rows of the key after the claim has committed is enough
\* to keep valid claims out of each other's lane: no lock is needed.
THEOREM LaneIsExclusive == Spec => []LaneExclusive
BY ClaimInvCorrect, PTL DEF ClaimInv

-----------------------------------------------------------------------------
(* The renew set *)

LEMMA NextNoStrandedBeat == TypeOK /\ NoStrandedBeat /\ [Next]_vars => NoStrandedBeat'
<1> SUFFICES ASSUME TypeOK, NoStrandedBeat, [Next]_vars PROVE NoStrandedBeat'
  OBVIOUS
<1> USE ConstantsAssumption DEF TypeOK, NoStrandedBeat, InFlight, Claiming, ExecsOf
<1>1. ASSUME NEW x \in Execs, Finish(x) PROVE NoStrandedBeat'
  <2>1. ASSUME NEW w \in Workers, NEW r \in beats'[w]
        PROVE  \E y \in Execs : /\ Host[y] = w /\ pc'[y] \notin {"idle", "polling", "claimed"}
                                /\ job'[y] = r
    <3>1. r \in beats[w] /\ (w = Host[x] => r # job[x])
      BY <1>1, <2>1 DEF Finish
    <3>2. PICK y \in Execs : /\ Host[y] = w /\ pc[y] \notin {"idle", "polling", "claimed"}
                             /\ job[y] = r
      BY <3>1
    <3>3. y # x
      BY <3>1, <3>2
    <3>4. pc'[y] = pc[y] /\ job'[y] = job[y]
      BY <1>1, <3>3 DEF Finish, Goto
    <3> QED
      BY <3>2, <3>4
  <2> QED
    BY <2>1
<1>2. ASSUME NEW x \in Execs, NEW step, Goto(x, step),
             step \notin {"idle", "polling", "claimed"} \/ pc[x] \in {"idle", "polling", "claimed"},
             job' = job, beats' = beats
      PROVE  NoStrandedBeat'
  BY <1>2 DEF Goto
<1>3. ASSUME NEW x \in Execs, Poll(x) \/ ClaimNothing(x) PROVE NoStrandedBeat'
  BY <1>2, <1>3 DEF Poll, ClaimNothing, procVars
<1>4. ASSUME NEW x \in Execs, Gate(x) \/ HandlerReturns(x) \/ HandlerThrows(x)
                                 \/ CompleteFails(x) \/ ClaimFails(x)
      PROVE  NoStrandedBeat'
  BY <1>2, <1>4 DEF Gate, HandlerReturns, HandlerThrows, CompleteFails, ClaimFails, OnError, procVars
<1>5. ASSUME NEW x \in Execs, ClaimNext(x) PROVE NoStrandedBeat'
  BY <1>5 DEF ClaimNext, Goto, procVars
<1>6. ASSUME NEW x \in Execs, Dispatch(x) PROVE NoStrandedBeat'
  BY <1>6 DEF Dispatch, Goto
<1>7. ASSUME NEW x \in Execs, Fail(x) PROVE NoStrandedBeat'
  BY <1>1, <1>2, <1>7 DEF Fail, procVars
<1>8. ASSUME NEW w \in Workers, Stop(w) PROVE NoStrandedBeat'
  BY <1>8 DEF Stop
<1>9. CASE UNCHANGED <<execVars, beats>>
  BY <1>9 DEF execVars
<1> QED
  BY <1>1, <1>3, <1>4, <1>5, <1>6, <1>7, <1>8, <1>9
     DEF Next, Execute, Defer, Complete, Retry, Cascade, Abandon, Renew, Sweep,
         BeginShutdown, ReleaseFails, ReleasePool, Restart, Start, Age, ComesDue, Cancel,
         ReplayCheck, ReplayCommit, procVars, vars, execVars

\* Every way out of processRun takes the id out of the renew set, so an id in it
\* always has an execution in flight.
THEOREM NoBeatIsStranded == Spec => []NoStrandedBeat
<1>1. Init => NoStrandedBeat
  BY DEF Init, NoStrandedBeat
<1> QED
  BY <1>1, NextNoStrandedBeat, TypeCorrect, PTL DEF Spec

-----------------------------------------------------------------------------
(* Final statuses *)

StaleIsRunning == \A r \in stale : status[r] = "running"

LEMMA NextStaleIsRunning == TypeOK /\ StaleIsRunning /\ [Next]_vars => StaleIsRunning'
<1> SUFFICES ASSUME TypeOK, StaleIsRunning, [Next]_vars PROVE StaleIsRunning'
  OBVIOUS
<1> USE DEF TypeOK, StaleIsRunning
<1>1. ASSUME NEW S, NEW new, Move(S, new) PROVE StaleIsRunning'
  BY <1>1 DEF Move
<1>2. ASSUME NEW x \in Execs, ClaimNext(x) PROVE StaleIsRunning'
  BY <1>2 DEF ClaimNext, Claimable
<1>3. ASSUME NEW w \in Workers, Renew(w) PROVE StaleIsRunning'
  BY <1>3 DEF Renew
<1>4. ASSUME NEW r \in Runs, Start(r) \/ Age(r) PROVE StaleIsRunning'
  BY <1>4 DEF Start, Age
<1>5. CASE UNCHANGED <<status, stale>>
  BY <1>5
<1> QED
  BY <1>1, <1>2, <1>3, <1>4, <1>5
     DEF Next, Execute, Poll, ClaimNothing, Dispatch, Gate, Defer, HandlerReturns, HandlerThrows,
         Complete, Retry, Fail, Cascade, CompleteFails, ClaimFails, Abandon, Sweep,
         BeginShutdown, ReleaseFails, ReleasePool,
         Stop, Restart, ComesDue, Cancel, ReplayCheck, ReplayCommit, Requeue, rowVars, vars

LEMMA StepUndo ==
  ASSUME TypeOK, ClaimInv, StaleIsRunning, [Next]_vars,
         NEW r \in Runs, status[r] \in Terminal, status'[r] # status[r]
  PROVE  \/ replaying'[r] < replaying[r]
         \/ \E x \in revoked : job[x] = r /\ pc'[x] = "idle"
         \/ \E x \in revoked : job[x] = r /\ pc'[x] = "cascade"
<1> DEFINE Undone == \/ replaying'[r] < replaying[r]
                     \/ \E x \in revoked : job[x] = r /\ pc'[x] = "idle"
                     \/ \E x \in revoked : job[x] = r /\ pc'[x] = "cascade"
<1> USE DEF TypeOK
<1>1. status[r] \notin {"absent", "pending", "running"}
  BY DEF Terminal
<1>2. ASSUME NEW x \in Execs, pc[x] \in Working, job[x] = r, pc'[x] \in {"idle", "cascade"}
      PROVE  Undone
  <2>1. x \in revoked
    BY <1>1, <1>2 DEF ClaimInv, OwnerIsRunning, Current
  <2> QED
    BY <1>2, <2>1
<1>3. ASSUME NEW x \in Execs, Defer(x) \/ Complete(x) \/ Retry(x) \/ Fail(x) PROVE Undone
  <2>1. pc[x] \in Working /\ pc'[x] \in {"idle", "cascade"}
    BY <1>3 DEF Defer, Complete, Retry, Fail, Finish, Goto, Working, Settling
  <2>2. job[x] = r
    BY <1>3 DEF Defer, Complete, Retry, Fail, Requeue, Move
  <2> QED
    BY <1>2, <2>1, <2>2
<1>4. ASSUME NEW x \in Execs, ClaimNext(x) \/ Cascade(x) PROVE FALSE
  BY <1>1, <1>4 DEF ClaimNext, Claimable, Cascade, Move
<1>5. ASSUME NEW w \in Workers, Sweep(w) \/ ReleasePool(w) PROVE FALSE
  BY <1>1, <1>5 DEF Sweep, ReleasePool, Requeue, Move, StaleIsRunning
<1>6. ASSUME NEW q \in Runs, Start(q) \/ Cancel(q) PROVE FALSE
  BY <1>1, <1>6 DEF Start, Cancel, Move
<1>7. ASSUME NEW q \in Runs, ReplayCommit(q) PROVE Undone
  <2>1. q = r
    BY <1>7 DEF ReplayCommit, Requeue, Move
  <2> QED
    BY <1>7, <2>1 DEF ReplayCommit
<1>8. CASE UNCHANGED status
  BY <1>8
<1> QED
  BY <1>3, <1>4, <1>5, <1>6, <1>7, <1>8
     DEF Next, Execute, Poll, ClaimNothing, Dispatch, Gate, HandlerReturns, HandlerThrows,
         CompleteFails, ClaimFails, Abandon, Renew, BeginShutdown, ReleaseFails, Stop,
         Restart, Age, ComesDue,
         ReplayCheck, rowVars, vars

\* Apart from a replay, only an execution that had already lost its claim can
\* move a run out of a terminal status.
THEOREM LateWritesUndo == Spec => OnlyLateWritesUndo
<1>1. Init => StaleIsRunning
  BY DEF Init, StaleIsRunning
<1>2. TypeOK /\ ClaimInv /\ StaleIsRunning /\ [Next]_vars =>
        [\A r \in Runs :
           status[r] \in Terminal /\ status'[r] # status[r]
             => \/ replaying'[r] < replaying[r]
                \/ \E x \in revoked : job[x] = r /\ pc'[x] = "idle"
                \/ \E x \in revoked : job[x] = r /\ pc'[x] = "cascade"]_vars
  BY StepUndo
<1> QED
  BY <1>1, <1>2, NextStaleIsRunning, TypeCorrect, ClaimInvCorrect, PTL DEF Spec, OnlyLateWritesUndo

-----------------------------------------------------------------------------
(* One execution per run, when the renewals keep up *)

\* The executions processRun still owes something to.
Busy(x) == pc[x] \in Working \cup {"cascade"}

\* Without stalls, replays and shutdowns the only way back to 'pending' is the
\* settling write of the one execution that works on the run: its worker is up,
\* it is in the renew set from the moment it is dispatched, so its row never
\* grows stale and no sweep returns it to the queue under it.
SoleExec     == \A x, y \in Execs : x # y /\ Busy(x) /\ Busy(y) => job[x] # job[y]
OffTheQueue  == \A x \in Execs : Busy(x) => status[job[x]] \notin {"absent", "pending"}
CascadeFinal == \A x \in Execs : pc[x] = "cascade" => status[job[x]] \in Terminal
KeptFresh    == \A x \in Execs : Busy(x) => job[x] \notin stale
HostIsUp     == \A x \in Execs : pc[x] # "idle" => worker[Host[x]] = "up"
Renewed      == \A x \in Execs : Busy(x) /\ pc[x] # "claimed" => job[x] \in beats[Host[x]]
NoDrain      == \A w \in Workers : worker[w] \in {"up", "down"}
NoReplay     == \A r \in Runs : replaying[r] = 0

SoleInv == /\ SoleExec /\ OffTheQueue /\ CascadeFinal /\ KeptFresh /\ HostIsUp
           /\ Renewed /\ NoDrain /\ NoReplay

\* What has been disturbed stays so.
LEMMA NextDisturbed == TypeOK /\ [Next]_vars /\ disturbed => disturbed'
<1> SUFFICES ASSUME TypeOK, [Next]_vars, disturbed PROVE disturbed'
  OBVIOUS
<1>1. ASSUME NEW f, Spend(f) PROVE disturbed'
  BY <1>1 DEF Spend
<1>2. CASE UNCHANGED disturbed
  BY <1>2
<1> QED
  BY <1>1, <1>2
     DEF Next, Execute, Poll, ClaimNext, ClaimNothing, Dispatch, Gate, Defer, HandlerReturns,
         HandlerThrows, Complete, Retry, Fail, Cascade, CompleteFails, ClaimFails,
         Abandon, Renew, Sweep,
         BeginShutdown, ReleaseFails, ReleasePool, Stop, Restart, Start, Age, ComesDue,
         Cancel, ReplayCheck,
         ReplayCommit, tally, vars

LEMMA NextSoleInv ==
  ASSUME TypeOK, StaleIsRunning, SoleInv, [Next]_vars, ~disturbed'
  PROVE  SoleInv'
<1> USE ConstantsAssumption
        DEF TypeOK, SoleInv, SoleExec, OffTheQueue, CascadeFinal, KeptFresh, HostIsUp,
            Renewed, NoDrain, NoReplay, Busy, Working, Settling, Terminal
<1>1. ASSUME NEW x \in Execs, Poll(x) \/ ClaimNothing(x) \/ Gate(x) \/ HandlerReturns(x)
                                 \/ HandlerThrows(x) \/ CompleteFails(x) \/ ClaimFails(x)
      PROVE  SoleInv'
  BY <1>1 DEF Poll, ClaimNothing, Gate, HandlerReturns, HandlerThrows, CompleteFails, ClaimFails,
              OnError, Goto, rowVars, procVars
<1>2. ASSUME NEW x \in Execs, ClaimNext(x) PROVE SoleInv'
  BY <1>2 DEF ClaimNext, Claimable, Goto, procVars, StaleIsRunning
<1>3. ASSUME NEW x \in Execs, Dispatch(x) PROVE SoleInv'
  BY <1>3 DEF Dispatch, Goto, rowVars
\* The execution that settles leaves, and the others work on other runs.
<1>4. ASSUME NEW x \in Execs, Busy(x), Finish(x), UNCHANGED replaying,
             \/ UNCHANGED <<status, stale>>
             \/ \E new \in Statuses : Move({job[x]}, new)
      PROVE  SoleInv'
  <2>1. \A y \in Execs : y # x => pc'[y] = pc[y] /\ job'[y] = job[y]
    BY <1>4 DEF Finish, Goto
  <2>2. pc'[x] = "idle"
    BY <1>4 DEF Finish, Goto
  <2>3. \A y \in Execs : y # x /\ Busy(y) => job[y] \in Runs /\ job[y] # job[x]
    BY <1>4
  <2>4. \A y \in Execs : y # x /\ Busy(y) =>
          status'[job[y]] = status[job[y]] /\ (job[y] \in stale' <=> job[y] \in stale)
    BY <1>4, <2>3 DEF Move
  <2>5. \A y \in Execs : y # x /\ Busy(y) /\ job[y] \in beats[Host[y]] => job[y] \in beats'[Host[y]]
    BY <1>4, <2>3 DEF Finish
  <2>6. UNCHANGED <<worker, replaying>>
    BY <1>4 DEF Finish
  <2>7. SoleExec' /\ OffTheQueue' /\ CascadeFinal'
    BY <2>1, <2>2, <2>3, <2>4
  <2>8. KeptFresh' /\ HostIsUp' /\ NoDrain' /\ NoReplay'
    BY <2>1, <2>2, <2>3, <2>4, <2>6
  <2>9. Renewed'
    BY <2>1, <2>2, <2>3, <2>5
  <2> QED
    BY <2>7, <2>8, <2>9
<1>5. ASSUME NEW x \in Execs, Defer(x) \/ Complete(x) \/ Retry(x) \/ Cascade(x) \/ Abandon(x)
      PROVE  SoleInv'
  <2>1. Busy(x) /\ Finish(x) /\ UNCHANGED replaying
    BY <1>5 DEF Defer, Complete, Retry, Cascade, Abandon
  <2>2. UNCHANGED <<status, stale>> \/ \E new \in Statuses : Move({job[x]}, new)
    BY <1>5 DEF Defer, Complete, Retry, Cascade, Abandon, Requeue, Statuses, rowVars
  <2> QED
    BY <1>4, <2>1, <2>2
<1>6. ASSUME NEW x \in Execs, Fail(x) PROVE SoleInv'
  <2>1. Busy(x) /\ UNCHANGED replaying /\ Move({job[x]}, "failed") /\ "failed" \in Statuses
    BY <1>6 DEF Fail, Statuses
  <2>2. CASE Finish(x)
    BY <1>4, <2>1, <2>2
  <2>3. CASE Goto(x, "cascade") /\ UNCHANGED <<job, before, procVars>>
    <3>1. pc[x] = "fail"
      BY <1>6 DEF Fail
    <3> QED
      BY <2>1, <2>3, <3>1 DEF Goto, Move, procVars
  <2> QED
    BY <1>6, <2>2, <2>3 DEF Fail
<1>7. ASSUME NEW w \in Workers, Renew(w) PROVE SoleInv'
  BY <1>7 DEF Renew, execVars, procVars
\* A sweep takes stale rows only, and no stale row has an execution.
<1>8. ASSUME NEW w \in Workers, Sweep(w) PROVE SoleInv'
  BY <1>8 DEF Sweep, Requeue, Move, execVars, procVars
<1>9. ASSUME NEW w \in Workers, BeginShutdown(w) \/ ReleaseFails(w) \/ ReleasePool(w) PROVE FALSE
  BY <1>9 DEF BeginShutdown, ReleaseFails, ReleasePool, Spend
<1>10. ASSUME NEW w \in Workers, Stop(w) PROVE SoleInv'
  BY <1>10 DEF Stop, rowVars
<1>11. ASSUME NEW w \in Workers, Restart(w) PROVE SoleInv'
  BY <1>11 DEF Restart, rowVars, execVars
<1>12. ASSUME NEW r \in Runs, Start(r) PROVE SoleInv'
  BY <1>12 DEF Start, execVars, procVars
\* A row somebody works on is attended, so without stalls it does not age.
<1>13. ASSUME NEW r \in Runs, Age(r) PROVE SoleInv'
  <2>1. ~Attended(r) /\ status[r] = "running"
    BY <1>13 DEF Age, Spend
  <2>2. ASSUME NEW x \in Execs, Busy(x) PROVE job[x] # r
    <3>1. SUFFICES ASSUME job[x] = r PROVE FALSE
      OBVIOUS
    <3>2. pc[x] # "idle" /\ pc[x] # "cascade"
      BY <2>1, <2>2, <3>1
    <3>3. Host[x] \in Workers /\ worker[Host[x]] = "up"
      BY <3>2
    <3>4. r \in beats[Host[x]] \/ pc[x] = "claimed"
      BY <2>2, <3>1
    <3> QED
      BY <2>1, <3>1, <3>3, <3>4 DEF Attended, ExecsOf
  <2>3. UNCHANGED <<status, execVars, procVars, replaying>> /\ stale' = stale \cup {r}
    BY <1>13 DEF Age
  <2> QED
    BY <2>2, <2>3 DEF execVars, procVars
<1>14. ASSUME NEW r \in Runs, ComesDue(r) PROVE SoleInv'
  BY <1>14 DEF ComesDue, execVars, procVars
<1>15. ASSUME NEW r \in Runs, Cancel(r) PROVE SoleInv'
  BY <1>15 DEF Cancel, Move, execVars, procVars
<1>16. ASSUME NEW r \in Runs, ReplayCheck(r) \/ ReplayCommit(r) PROVE FALSE
  BY <1>16, SpendDisturbs DEF ReplayCheck, ReplayCommit
<1>17. CASE UNCHANGED vars
  BY <1>17 DEF vars
<1> QED
  BY <1>1, <1>2, <1>3, <1>5, <1>6, <1>7, <1>8, <1>9, <1>10, <1>11, <1>12,
     <1>13, <1>14, <1>15, <1>16, <1>17 DEF Next, Execute

\* Until a beat is missed, a run replayed or a worker shut down, no run is
\* executed twice at once: crashes, cancels and failed statements alone never
\* put a run back under an execution that still works on it.
THEOREM RunsExecuteOnce == Spec => []NoDoubleExecution
<1> DEFINE Inv == StaleIsRunning /\ (~disturbed => SoleInv)
<1>1. Init => Inv
  BY ConstantsAssumption
     DEF Init, SoleInv, SoleExec, OffTheQueue, CascadeFinal, KeptFresh, HostIsUp, Renewed,
         NoDrain, NoReplay, Busy, Working, Settling, StaleIsRunning
<1>2. TypeOK /\ Inv /\ [Next]_vars => Inv'
  BY NextSoleInv, NextStaleIsRunning, NextDisturbed
<1>3. Inv => NoDoubleExecution
  BY DEF SoleInv, SoleExec, Busy, NoDoubleExecution
<1> QED
  BY <1>1, <1>2, <1>3, TypeCorrect, PTL DEF Spec

-----------------------------------------------------------------------------
(* The ceiling *)

\* A worker none of whose polls overlapped has one poll under way at most, and
\* while it is under way there is room for the run it may register.
HasRoom(w) ==
  /\ IsFiniteSet(InFlight(w))
  /\ Cardinality(InFlight(w)) <= Concurrency
  /\ \A x \in ExecsOf(w) : Claiming(x) =>
       /\ Cardinality(InFlight(w)) < Concurrency
       /\ \A y \in ExecsOf(w) : Claiming(y) => y = x

CeilingInv == \A w \in Workers \ overlapped : HasRoom(w)

LEMMA InitCeilingInv == Init => CeilingInv
<1> SUFFICES ASSUME Init, NEW w \in Workers PROVE HasRoom(w)
  BY DEF CeilingInv
<1>1. InFlight(w) = {} /\ \A x \in Execs : ~Claiming(x)
  BY DEF Init, InFlight, Claiming, ExecsOf
<1> QED
  BY <1>1, FS_EmptySet, ConstantsAssumption DEF HasRoom, ExecsOf

\* Nothing is registered and no poll starts: the room there was is left.
LEMMA RoomStays ==
  ASSUME NEW w \in Workers, HasRoom(w), InFlight(w)' \subseteq InFlight(w),
         \A x \in ExecsOf(w) : Claiming(x)' => Claiming(x)
  PROVE  HasRoom(w)'
<1>1. IsFiniteSet(InFlight(w)') /\ Cardinality(InFlight(w)') <= Cardinality(InFlight(w))
  BY FS_Subset DEF HasRoom
<1>2. Cardinality(InFlight(w)) \in Nat /\ Cardinality(InFlight(w)') \in Nat
  BY <1>1, FS_CardinalityType DEF HasRoom
<1> QED
  BY <1>1, <1>2, ConstantsAssumption DEF HasRoom, ExecsOf

\* A poll of a worker that stays without overlap is the only one under way, and
\* it has compared with the ceiling.
LEMMA PollHasRoom ==
  ASSUME TypeOK, CeilingInv, NEW x \in Execs, Poll(x) PROVE CeilingInv'
<1> SUFFICES ASSUME NEW w \in Workers, w \notin overlapped' PROVE HasRoom(w)'
  BY DEF CeilingInv
<1>1. /\ pc[x] = "idle" /\ pc' = [pc EXCEPT ![x] = "polling"]
      /\ Cardinality(InFlight(Host[x])) < Concurrency /\ NoteOverlap(x)
  BY DEF Poll, Goto
<1>2. InFlight(w)' = InFlight(w)
  BY <1>1 DEF TypeOK, InFlight, Claiming, ExecsOf
<1>3. \A y \in Execs : y # x => (Claiming(y)' <=> Claiming(y))
  BY <1>1 DEF TypeOK, Claiming
<1>4. w \notin overlapped /\ HasRoom(w)
  BY <1>1 DEF NoteOverlap, CeilingInv
<1>5. CASE Host[x] # w
  BY <1>2, <1>3, <1>4, <1>5, RoomStays DEF ExecsOf
<1>6. CASE Host[x] = w
  <2>1. \A y \in ExecsOf(w) : y # x => ~Claiming(y)
    BY <1>1, <1>6 DEF NoteOverlap
  <2> QED
    BY <1>1, <1>2, <1>3, <1>4, <1>6, <2>1 DEF HasRoom, ExecsOf
<1> QED
  BY <1>5, <1>6

\* The run is registered: it takes the room its poll had found.
LEMMA DispatchTakesRoom ==
  ASSUME TypeOK, CeilingInv, NEW x \in Execs, Dispatch(x) PROVE CeilingInv'
<1> SUFFICES ASSUME NEW w \in Workers, w \notin overlapped' PROVE HasRoom(w)'
  BY DEF CeilingInv
<1>1. PICK step \in {"fail", "gate", "handler"} :
        pc[x] = "claimed" /\ pc' = [pc EXCEPT ![x] = step]
  BY DEF Dispatch, Goto
<1>2. w \notin overlapped /\ HasRoom(w)
  BY DEF Dispatch, CeilingInv
<1>3. \A y \in Execs : y # x => (Claiming(y)' <=> Claiming(y))
  BY <1>1 DEF TypeOK, Claiming
<1>4. Claiming(x) /\ ~Claiming(x)'
  BY <1>1 DEF TypeOK, Claiming
<1>5. CASE Host[x] # w
  <2>1. InFlight(w)' = InFlight(w)
    BY <1>1, <1>5 DEF TypeOK, InFlight, Claiming, ExecsOf
  <2> QED
    BY <1>2, <1>3, <1>5, <2>1, RoomStays DEF ExecsOf
<1>6. CASE Host[x] = w
  <2>1. InFlight(w)' = InFlight(w) \cup {x} /\ x \notin InFlight(w)
    BY <1>1, <1>6 DEF TypeOK, InFlight, Claiming, ExecsOf
  <2>2. Cardinality(InFlight(w)) < Concurrency /\ \A y \in ExecsOf(w) : Claiming(y) => y = x
    BY <1>2, <1>4, <1>6 DEF HasRoom, ExecsOf
  <2>3. /\ IsFiniteSet(InFlight(w)') /\ Cardinality(InFlight(w)) \in Nat
        /\ Cardinality(InFlight(w)') = Cardinality(InFlight(w)) + 1
    BY <1>2, <2>1, FS_AddElement, FS_CardinalityType DEF HasRoom
  <2>4. \A y \in ExecsOf(w) : ~Claiming(y)'
    BY <1>3, <1>4, <2>2 DEF ExecsOf
  <2> QED
    BY <2>2, <2>3, <2>4, ConstantsAssumption DEF HasRoom, ExecsOf
<1> QED
  BY <1>5, <1>6

LEMMA NextCeilingInv == TypeOK /\ CeilingInv /\ [Next]_vars => CeilingInv'
<1> SUFFICES ASSUME TypeOK, CeilingInv, [Next]_vars PROVE CeilingInv'
  OBVIOUS
<1> USE DEF TypeOK
\* The other steps of an execution change how far it is, or end it.
<1>1. ASSUME NEW x \in Execs, NEW step, pc' = [pc EXCEPT ![x] = step], UNCHANGED overlapped,
             \/ step = "idle"
             \/ step = "claimed" /\ pc[x] = "polling"
             \/ step \in Steps \ {"polling", "claimed"} /\ pc[x] \notin {"idle", "polling", "claimed"}
      PROVE  CeilingInv'
  <2>1. ASSUME NEW w \in Workers
        PROVE  /\ InFlight(w)' \subseteq InFlight(w)
               /\ \A y \in ExecsOf(w) : Claiming(y)' => Claiming(y)
    BY <1>1 DEF InFlight, Claiming, ExecsOf
  <2> QED
    BY <1>1, <2>1, RoomStays DEF CeilingInv
<1>2. ASSUME NEW x \in Execs, ClaimNext(x) \/ ClaimNothing(x) PROVE CeilingInv'
  BY <1>1, <1>2 DEF ClaimNext, ClaimNothing, Goto, procVars
<1>3. ASSUME NEW x \in Execs, Gate(x) \/ HandlerReturns(x) \/ HandlerThrows(x)
                                 \/ CompleteFails(x) \/ ClaimFails(x)
      PROVE  CeilingInv'
  BY <1>1, <1>3 DEF Gate, HandlerReturns, HandlerThrows, CompleteFails, ClaimFails, OnError, Goto, Steps,
                    Working, Settling, procVars
<1>4. ASSUME NEW x \in Execs, Finish(x) PROVE CeilingInv'
  BY <1>1, <1>4 DEF Finish, Goto
<1>5. ASSUME NEW x \in Execs, Fail(x) PROVE CeilingInv'
  BY <1>1, <1>4, <1>5 DEF Fail, Goto, Steps, procVars
\* The process ends with everything it had in flight.
<1>6. ASSUME NEW w \in Workers, Stop(w) PROVE CeilingInv'
  <2> SUFFICES ASSUME NEW v \in Workers, v \notin overlapped' PROVE HasRoom(v)'
    BY DEF CeilingInv
  <2>1. CASE v = w
    <3>1. InFlight(v)' = {} /\ \A x \in ExecsOf(v) : ~Claiming(x)'
      BY <1>6, <2>1 DEF Stop, InFlight, Claiming, ExecsOf
    <3> QED
      BY <3>1, FS_EmptySet, ConstantsAssumption DEF HasRoom, ExecsOf
  <2>2. CASE v # w
    <3>1. InFlight(v)' = InFlight(v) /\ \A x \in ExecsOf(v) : Claiming(x)' <=> Claiming(x)
      BY <1>6, <2>2 DEF Stop, InFlight, Claiming, ExecsOf
    <3>2. v \notin overlapped
      BY <1>6, <2>2 DEF Stop
    <3> QED
      BY <3>1, <3>2, RoomStays DEF CeilingInv
  <2> QED
    BY <2>1, <2>2
<1>7. CASE UNCHANGED <<pc, overlapped>>
  <2>1. \A w \in Workers : /\ InFlight(w)' \subseteq InFlight(w)
                           /\ \A x \in ExecsOf(w) : Claiming(x)' => Claiming(x)
    BY <1>7 DEF InFlight, Claiming, ExecsOf
  <2> QED
    BY <1>7, <2>1, RoomStays DEF CeilingInv
<1> QED
  BY <1>2, <1>3, <1>4, <1>5, <1>6, <1>7, PollHasRoom, DispatchTakesRoom
     DEF Next, Execute, Defer, Complete, Retry, Cascade, Abandon, Renew, Sweep,
         BeginShutdown, ReleaseFails, ReleasePool, Restart, Start, Age, ComesDue, Cancel,
         ReplayCheck, ReplayCommit, procVars, execVars, vars

\* A worker has no more calls of processRun in flight than its ceiling, whatever
\* crashes, is swept or replayed, unless two of its polls overlapped.
THEOREM CeilingHolds == Spec => []CeilingKept
<1>1. CeilingInv => CeilingKept
  BY DEF CeilingInv, HasRoom, CeilingKept
<1> QED
  BY <1>1, InitCeilingInv, NextCeilingInv, TypeCorrect, PTL DEF Spec

-----------------------------------------------------------------------------
(* The lease *)

\* The mapping reads the one valid claim of a run, so its CHOOSE has one choice.
HolderIsClaimant ==
  \A r \in Runs :
    /\ \A x \in Execs : HolderOf(r) = x <=> Current(x) /\ job[x] = r
    /\ HolderOf(r) = Nobody <=> \A x \in Execs : ~(Current(x) /\ job[x] = r)

LEMMA ClaimantHolds == ClaimExclusive => HolderIsClaimant
<1> SUFFICES ASSUME ClaimExclusive, NEW r \in Runs
    PROVE  /\ \A x \in Execs : HolderOf(r) = x <=> Current(x) /\ job[x] = r
           /\ HolderOf(r) = Nobody <=> \A x \in Execs : ~(Current(x) /\ job[x] = r)
  BY DEF HolderIsClaimant
<1> DEFINE Holds(x) == Current(x) /\ job[x] = r
<1>1. \A x, y \in Execs : Holds(x) /\ Holds(y) => x = y
  BY DEF ClaimExclusive
<1>2. CASE \E x \in Execs : Holds(x)
  <2>1. HolderOf(r) \in Execs /\ Holds(HolderOf(r))
    BY <1>2 DEF HolderOf
  <2> QED
    BY <1>1, <2>1, ConstantsAssumption
<1>3. CASE ~ \E x \in Execs : Holds(x)
  <2>1. HolderOf(r) = Nobody
    BY <1>3 DEF HolderOf
  <2> QED
    BY <1>3, <2>1, ConstantsAssumption
<1> QED
  BY <1>2, <1>3

\* A step after which every valid claim was already valid, on the same run and
\* on the same side of the lane check.
Shrinks ==
  \A x \in Execs :
    Current(x)' => Current(x) /\ job'[x] = job[x] /\ (InLane(x)' <=> InLane(x))

LEMMA ShrinkEndsHolds ==
  ASSUME HolderIsClaimant, HolderIsClaimant', Shrinks
  PROVE  Lease!LeaseNext
<1> DEFINE S == {r \in Runs : HolderOf(r) # Nobody /\ HolderOf(r)' = Nobody}
<1>1. S \in SUBSET Lease!Held
  BY DEF Lease!Held
<1>2. ASSUME NEW r \in Runs
      PROVE  HolderOf(r)' = IF r \in S THEN Nobody ELSE HolderOf(r)
  <2>1. CASE HolderOf(r)' = Nobody
    BY <2>1
  <2>2. CASE HolderOf(r)' # Nobody
    <3>1. PICK x \in Execs : Current(x)' /\ job'[x] = r
      BY <2>2 DEF HolderIsClaimant
    <3>2. HolderOf(r)' = x
      BY <3>1 DEF HolderIsClaimant
    <3>3. HolderOf(r) = x
      BY <3>1 DEF HolderIsClaimant, Shrinks
    <3> QED
      BY <2>2, <3>2, <3>3
  <2> QED
    BY <2>1, <2>2
<1>3. ASSUME NEW r \in Runs PROVE r \in RunsInLane' <=> r \in RunsInLane \ S
  <2>1. ASSUME r \in RunsInLane' PROVE r \in RunsInLane \ S
    <3>1. PICK x \in Execs : Current(x)' /\ InLane(x)' /\ job'[x] = r
      BY <2>1 DEF RunsInLane
    <3>2. HolderOf(r)' # Nobody
      BY <3>1 DEF HolderIsClaimant
    <3>3. Current(x) /\ InLane(x) /\ job[x] = r
      BY <3>1 DEF Shrinks
    <3> QED
      BY <3>2, <3>3 DEF RunsInLane
  <2>2. ASSUME r \in RunsInLane \ S PROVE r \in RunsInLane'
    <3>1. PICK x \in Execs : Current(x) /\ InLane(x) /\ job[x] = r
      BY <2>2 DEF RunsInLane
    <3>2. HolderOf(r) = x /\ HolderOf(r) # Nobody
      BY <3>1 DEF HolderIsClaimant
    <3>3. HolderOf(r)' # Nobody
      BY <2>2, <3>2
    <3>4. PICK y \in Execs : Current(y)' /\ job'[y] = r
      BY <3>3 DEF HolderIsClaimant
    <3>5. Current(y) /\ job[y] = r /\ (InLane(y)' <=> InLane(y))
      BY <3>4 DEF Shrinks
    <3>6. y = x
      BY <3>2, <3>5 DEF HolderIsClaimant
    <3> QED
      BY <3>1, <3>4, <3>5, <3>6 DEF RunsInLane
  <2> QED
    BY <2>1, <2>2
<1>4. RunsInLane' = RunsInLane \ S
  <2>1. RunsInLane \subseteq Runs /\ RunsInLane' \subseteq Runs
    BY DEF RunsInLane
  <2> QED
    BY <1>3, <2>1
<1>5. Lease!End(S)
  <2>1. [r \in Runs |-> HolderOf(r)]' = [r \in Runs |-> HolderOf(r)']
    OBVIOUS
  <2> QED
    BY <1>2, <1>4, <2>1 DEF Lease!End
<1> QED
  BY <1>1, <1>5 DEF Lease!LeaseNext

\* A claim acquires the run, unless the execution's last claim was taken away
\* before it asked for this one.
LEMMA ClaimAcquires ==
  ASSUME TypeOK, ClaimInv, HolderIsClaimant, HolderIsClaimant', NEW x \in Execs, ClaimNext(x)
  PROVE  Shrinks \/ Lease!LeaseNext
<1> USE DEF TypeOK
<1>1. PICK r \in Runs : /\ status[r] = "pending" /\ pc[x] = "polling" /\ Goto(x, "claimed")
                        /\ job' = [job EXCEPT ![x] = r] /\ UNCHANGED revoked
  BY DEF ClaimNext, Claimable
<1>2. \A y \in Execs : y # x => (Current(y)' <=> Current(y)) /\ job'[y] = job[y]
                                /\ (InLane(y)' <=> InLane(y))
  BY <1>1 DEF Goto, Current, InLane
<1>3. ~Current(x) /\ ~InLane(x) /\ ~InLane(x)' /\ job'[x] = r
  BY <1>1 DEF Goto, Current, InLane, Working, Settling
<1>4. CASE x \in revoked
  <2>1. ~Current(x)'
    BY <1>1, <1>4 DEF Current
  <2> QED
    BY <1>2, <2>1 DEF Shrinks
<1>5. CASE x \notin revoked
  <2>1. Current(x)'
    BY <1>1, <1>5 DEF Goto, Current, Working
  <2>2. \A y \in Execs : ~(Current(y) /\ job[y] = r)
    BY <1>1 DEF ClaimInv, OwnerIsRunning
  <2>3. HolderOf(r) = Nobody /\ HolderOf(r)' = x
    BY <1>3, <2>1, <2>2 DEF HolderIsClaimant
  <2>4. \A q \in Runs : HolderOf(q) # x
    BY <1>3 DEF HolderIsClaimant
  <2>5. ASSUME NEW q \in Runs, q # r PROVE HolderOf(q)' = HolderOf(q)
    <3>1. CASE HolderOf(q) = Nobody
      <4>1. \A y \in Execs : ~(Current(y)' /\ job'[y] = q)
        BY <1>2, <1>3, <2>5, <3>1 DEF HolderIsClaimant
      <4> QED
        BY <3>1, <4>1 DEF HolderIsClaimant
    <3>2. CASE HolderOf(q) # Nobody
      <4>1. PICK y \in Execs : Current(y) /\ job[y] = q
        BY <3>2 DEF HolderIsClaimant
      <4>2. Current(y)' /\ job'[y] = q
        BY <1>2, <1>3, <4>1
      <4> QED
        BY <4>1, <4>2 DEF HolderIsClaimant
    <3> QED
      BY <3>1, <3>2
  <2>6. RunsInLane' = RunsInLane
    <3>1. ASSUME NEW y \in Execs
          PROVE  /\ Current(y)' /\ InLane(y)' <=> Current(y) /\ InLane(y)
                 /\ Current(y) /\ InLane(y) => job'[y] = job[y]
      BY <1>2, <1>3
    <3> QED
      BY <3>1 DEF RunsInLane
  <2>7. Lease!Acquire(r, x)
    <3>1. [q \in Runs |-> HolderOf(q)]' = [q \in Runs |-> HolderOf(q)']
      OBVIOUS
    <3> QED
      BY <2>3, <2>4, <2>5, <2>6, <3>1 DEF Lease!Acquire
  <2> QED
    BY <1>1, <2>7 DEF Lease!LeaseNext
<1> QED
  BY <1>4, <1>5

\* Passing the lane check enters the lane of the key.
LEMMA GateEnters ==
  ASSUME TypeOK, ClaimInv, ClaimInv', HolderIsClaimant, HolderIsClaimant',
         NEW x \in Execs, Gate(x)
  PROVE  Shrinks \/ Lease!LeaseNext
<1> USE DEF TypeOK
<1>1. pc[x] = "gate" /\ pc'[x] \in {"defer", "handler"} /\ UNCHANGED <<job, revoked>>
  BY DEF Gate, Goto
<1>2. \A y \in Execs : y # x => (Current(y)' <=> Current(y)) /\ (InLane(y)' <=> InLane(y))
  BY <1>1 DEF Gate, Goto, Current, InLane
<1>3. ~InLane(x) /\ (Current(x)' <=> Current(x))
  BY <1>1 DEF Current, InLane, Working, Settling
<1>4. CASE ~(Current(x)' /\ InLane(x)')
  BY <1>1, <1>2, <1>3, <1>4 DEF Shrinks
<1>5. CASE Current(x)' /\ InLane(x)'
  <2> DEFINE r == job[x]
  <2>1. Current(x) /\ r \in Runs /\ HolderOf(r) = x
    BY <1>1, <1>3, <1>5 DEF HolderIsClaimant
  <2>2. r \notin RunsInLane
    <3>1. ASSUME NEW y \in Execs, Current(y), InLane(y), job[y] = r PROVE FALSE
      BY <1>3, <2>1, <3>1 DEF HolderIsClaimant
    <3> QED
      BY <3>1 DEF RunsInLane
  <2>3. ASSUME NEW q \in RunsInLane PROVE Key[q] # Key[r]
    <3>1. PICK y \in Execs : Current(y) /\ InLane(y) /\ job[y] = q
      BY DEF RunsInLane
    <3>2. y # x
      BY <1>3, <3>1
    <3>3. Current(y)' /\ InLane(y)' /\ job'[y] = q /\ job'[x] = r
      BY <1>1, <1>2, <3>1, <3>2
    <3> QED
      BY <1>5, <3>2, <3>3 DEF ClaimInv, LaneExclusive
  <2>4. RunsInLane' = RunsInLane \cup {r}
    <3>1. \A y \in Execs : Current(y)' /\ InLane(y)' <=> (y = x \/ (Current(y) /\ InLane(y)))
      BY <1>2, <1>3, <1>5
    <3> QED
      BY <1>1, <2>1, <3>1 DEF RunsInLane
  <2>5. ASSUME NEW q \in Runs PROVE HolderOf(q)' = HolderOf(q)
    <3>1. \A y \in Execs : Current(y)' /\ job'[y] = q <=> Current(y) /\ job[y] = q
      BY <1>1, <1>2, <1>3
    <3> QED
      BY <3>1 DEF HolderIsClaimant
  <2>6. Lease!Enter(r)
    <3>1. [q \in Runs |-> HolderOf(q)]' = [q \in Runs |-> HolderOf(q)']
      OBVIOUS
    <3>2. HolderOf(r) # Nobody
      BY <2>1, ConstantsAssumption
    <3> QED
      BY <2>1, <2>2, <2>3, <2>4, <2>5, <3>1, <3>2 DEF Lease!Enter, Lease!Held
  <2> QED
    BY <2>1, <2>6 DEF Lease!LeaseNext
<1> QED
  BY <1>4, <1>5

\* Every other step keeps valid claims as they are or ends some of them.
LEMMA OthersShrink ==
  ASSUME TypeOK, [Next]_vars, \A x \in Execs : ~ClaimNext(x) /\ ~Gate(x)
  PROVE  Shrinks
<1> USE DEF TypeOK, Shrinks, Current, InLane, Working, Settling
<1>1. ASSUME NEW x \in Execs, Finish(x), revoked \ {x} \subseteq revoked' PROVE Shrinks
  BY <1>1 DEF Finish, Goto
<1>2. ASSUME NEW x \in Execs, Poll(x) \/ ClaimNothing(x) \/ Dispatch(x) \/ HandlerReturns(x)
                                 \/ HandlerThrows(x) \/ CompleteFails(x) \/ ClaimFails(x)
      PROVE  Shrinks
  BY <1>2 DEF Poll, ClaimNothing, Dispatch, HandlerReturns, HandlerThrows, CompleteFails, ClaimFails,
              OnError, Goto
<1>3. ASSUME NEW x \in Execs, Defer(x) \/ Complete(x) \/ Retry(x) \/ Cascade(x) \/ Abandon(x)
      PROVE  Shrinks
  BY <1>1, <1>3 DEF Defer, Complete, Retry, Cascade, Abandon, Oust
<1>4. ASSUME NEW x \in Execs, Fail(x) PROVE Shrinks
  <2>1. CASE Finish(x)
    BY <1>1, <1>4, <2>1 DEF Fail, Oust
  <2>2. CASE Goto(x, "cascade") /\ UNCHANGED job
    BY <1>4, <2>2 DEF Fail, Goto, Oust
  <2> QED
    BY <1>4, <2>1, <2>2 DEF Fail
<1>5. ASSUME NEW w \in Workers, Stop(w) PROVE Shrinks
  BY <1>5 DEF Stop, ExecsOf
<1>6. CASE UNCHANGED execVars /\ revoked \subseteq revoked'
  BY <1>6 DEF execVars
<1> QED
  BY <1>2, <1>3, <1>4, <1>5, <1>6
     DEF Next, Execute, Renew, Sweep, BeginShutdown, ReleaseFails, ReleasePool, Restart, Start, Age,
         ComesDue, Cancel, ReplayCheck, ReplayCommit, vars, execVars

\* The worker implements the lease, for every number of runs, workers and
\* executions and under every fault: a run is held by one execution at a time,
\* its holder enters the lane of its key only when the lane is free, and the
\* hold ends when it settles or loses its claim.
THEOREM WorkerImplementsLease == Spec => ImplementsLease
<1>1. Init => Lease!LeaseInit
  BY ConstantsAssumption
     DEF Init, Lease!LeaseInit, HolderOf, RunsInLane, Current, Working, Settling
<1>2. TypeOK /\ ClaimInv /\ ClaimInv' /\ [Next]_vars => [Lease!LeaseNext]_(Lease!leaseVars)
  <2> SUFFICES ASSUME TypeOK, ClaimInv, ClaimInv', [Next]_vars PROVE Lease!LeaseNext
    OBVIOUS
  <2>1. HolderIsClaimant
    BY ClaimantHolds DEF ClaimInv
  <2>2. ClaimExclusive'
    BY DEF ClaimInv
  <2>3. HolderIsClaimant'
    BY <2>2, ClaimantHolds, PTL
  <2>4. Shrinks \/ Lease!LeaseNext
    BY <2>1, <2>3, ClaimAcquires, GateEnters, OthersShrink
  <2> QED
    BY <2>1, <2>3, <2>4, ShrinkEndsHolds
<1> QED
  BY <1>1, <1>2, TypeCorrect, ClaimInvCorrect, PTL DEF Spec, ImplementsLease, Lease!LeaseSpec

=============================================================================
