--------------------------- MODULE MemoryJobsProofs ---------------------------
(***************************************************************************)
(* Theorems about MemoryJobs, for every number of runs, ticks and steps,   *)
(* every assignment of keys, modes and policies and every number of        *)
(* replays.                                                                *)
(***************************************************************************)
EXTENDS MemoryJobs, FiniteSetTheorems, TLAPS

-----------------------------------------------------------------------------
(* Types *)

\* A run in flight or to come, and a tick, have an attempt left: without it the attempts
\* would outgrow their type.
AttemptLeft ==
  /\ \A r \in Runs : Live(r) \/ status[r] = "absent" => attempts[r] < MaxAttempts
  /\ \A t \in Ticks : seen[t] < MaxAttempts

\* A tick executes a run that has a row.
RowExists == \A t \in Ticks : run[t] # NoRun => status[run[t]] # "absent"

TypeInv == TypeOK /\ AttemptLeft /\ RowExists

LEMMA InitTypeInv == Init => TypeInv
BY MemoryJobsAssumption DEF Init, TypeInv, TypeOK, AttemptLeft, RowExists, Runs, Steps, NoRun, Live, IN_FLIGHT_STATUSES

\* A tick that ends leaves a well-typed control state behind.
LEMMA TickEndsType ==
  ASSUME TypeInv, NEW t \in Ticks, TickEnds(t)
  PROVE  /\ pc' \in [Ticks -> {"idle", "claimed", "handler", "fn", "cascade"}]
         /\ run' \in [Ticks -> Runs \cup {NoRun}]
         /\ seen' \in [Ticks -> 0 .. MaxAttempts]
         /\ step' \in [Ticks -> 1 .. StepCount + 1]
         /\ \A u \in Ticks : seen'[u] < MaxAttempts
         /\ \A u \in Ticks : pc'[u] = "idle" <=> run'[u] = NoRun
         /\ \A u \in Ticks : run'[u] # NoRun => run'[u] = run[u]
BY MemoryJobsAssumption DEF TypeInv, TypeOK, AttemptLeft, TickEnds, NoRun

LEMMA ReleaseType ==
  ASSUME TypeInv, NEW R, Release(R)
  PROVE  parked' \in SUBSET Runs /\ blockers' \in [Runs -> SUBSET Runs]
BY DEF TypeInv, TypeOK, Release

LEMMA CancelType ==
  ASSUME TypeInv, NEW R \in SUBSET {r \in Runs : Live(r)}, status' = StatusAfterCancel(R),
         UNCHANGED <<created, attempts>>
  PROVE  /\ status' \in [Runs -> {"absent"} \cup IN_FLIGHT_STATUSES \cup TERMINAL_STATUSES]
         /\ \A r \in Runs : status'[r] = "absent" <=> r > created
         /\ \A r \in Runs : Live(r)' => Live(r)
BY DEF TypeInv, TypeOK, StatusAfterCancel, Live, TERMINAL_STATUSES, IN_FLIGHT_STATUSES

\* What cancel takes is in flight, for a run that exists.
LEMMA CancelledAreLive ==
  ASSUME TypeInv, NEW r \in Runs, status[r] # "absent"
  PROVE  Cancelled(r) \in SUBSET {d \in Runs : Live(d)}
BY DEF TypeInv, TypeOK, Cancelled, Cascade, Live, Terminal, TERMINAL_STATUSES, IN_FLIGHT_STATUSES


\* The constants, the operators on statuses and the row of a tick, unfolded.
LEMMA TickRow ==
  ASSUME TypeInv, NEW t \in Ticks, pc[t] # "idle"
  PROVE  run[t] \in Runs /\ status[run[t]] # "absent"
BY DEF TypeInv, TypeOK, RowExists

\* A new row is well typed, and so are the rows beside it.
LEMMA AddRowType ==
  ASSUME TypeInv, NEW r \in Runs, NEW from \in Runs \cup {NoRun},
         NEW R \in SUBSET {d \in Runs : Live(d)},
         MayStart(r, from), AddRow(r, from, StatusAfterCancel(R)),
         parked' \in SUBSET Runs, blockers' \in [Runs -> SUBSET Runs]
  PROVE  TypeInv'
<1>1. /\ created \in 0 .. MaxRuns /\ created' = r /\ r = created + 1 /\ r \in 1 .. MaxRuns
      /\ \A q \in Runs : q \in Nat /\ (status[q] = "absent" <=> q > created)
  BY DEF TypeInv, TypeOK, AddRow, MayStart, Runs
<1>2. /\ status' \in [Runs -> {"absent"} \cup IN_FLIGHT_STATUSES \cup TERMINAL_STATUSES]
      /\ status'[r] = "pending"
      /\ \A q \in Runs : status[q] # "absent" => status'[q] # "absent"
      /\ \A q \in Runs : status[q] = "absent" /\ q # r => status'[q] = "absent"
      /\ \A q \in Runs \ {r} : Live(q)' => Live(q)
  BY DEF TypeInv, TypeOK, AddRow, StatusAfterCancel, Live, IN_FLIGHT_STATUSES, TERMINAL_STATUSES
<1>3. \A q \in Runs : status'[q] = "absent" <=> q > created'
  BY <1>1, <1>2, MemoryJobsAssumption
<1>4. created' \in 0 .. MaxRuns
  BY <1>1, MemoryJobsAssumption
<1>5. root' \in [Runs -> Runs \cup {NoRun}] /\ busy' \in SUBSET {Key[q] : q \in Runs}
  BY DEF TypeInv, TypeOK, AddRow, NoRun
<1>6. UNCHANGED <<attempts, memo, pc, run, seen, step, replays, done, overlapped>>
  BY DEF AddRow, tickVars
<1>7. TypeOK'
  BY <1>2, <1>3, <1>4, <1>5, <1>6 DEF TypeInv, TypeOK
<1>8. attempts[r] < MaxAttempts
  BY <1>1 DEF TypeInv, AttemptLeft
<1>9. AttemptLeft'
  BY <1>1, <1>2, <1>6, <1>8 DEF TypeInv, AttemptLeft
<1>10. RowExists'
  BY <1>2, <1>6 DEF TypeInv, TypeOK, RowExists
<1> QED
  BY <1>7, <1>9, <1>10 DEF TypeInv

LEMMA StartType ==
  ASSUME TypeInv, NEW r \in Runs, NEW from \in Runs \cup {NoRun}, Start(r, from)
  PROVE  TypeInv'
<1>1. status = StatusAfterCancel({})
  BY DEF TypeInv, TypeOK, StatusAfterCancel
<1>2. CASE StartFree(r, from)
  <2>1. MayStart(r, from) /\ AddRow(r, from, StatusAfterCancel({}))
    BY <1>1, <1>2 DEF StartFree
  <2>2. blockers' \in [Runs -> SUBSET Runs] /\ parked' \in SUBSET Runs
    BY <1>2 DEF StartFree, TypeInv, TypeOK
  <2>3. {} \in SUBSET {d \in Runs : Live(d)}
    OBVIOUS
  <2> QED
    BY <2>1, <2>2, <2>3, AddRowType
<1>3. CASE StartQueued(r, from)
  <2>0. MayStart(r, from) /\ AddRow(r, from, StatusAfterCancel({}))
    BY <1>1, <1>3 DEF StartQueued
  <2>1. blockers' \in [Runs -> SUBSET Runs] /\ parked' \in SUBSET Runs
    <3>1. PICK i \in Incumbents(r) : blockers' = [blockers EXCEPT ![i] = @ \cup {r}]
      BY <1>3 DEF StartQueued
    <3>2. blockers \in [Runs -> SUBSET Runs] /\ parked \in SUBSET Runs
      BY DEF TypeInv, TypeOK
    <3>3. blockers' \in [Runs -> SUBSET Runs]
      BY <3>1, <3>2
    <3> QED
      BY <1>3, <3>2, <3>3 DEF StartQueued
  <2>2. {} \in SUBSET {d \in Runs : Live(d)}
    OBVIOUS
  <2> QED
    BY <2>0, <2>1, <2>2, AddRowType
<1>4. CASE StartReplacing(r, from)
  <2>1. PICK i \in Incumbents(r) : /\ AddRow(r, from, StatusAfterCancel(Cancelled(i)))
                                   /\ Release(Cancelled(i))
    BY <1>4 DEF StartReplacing
  <2>2. i \in Runs /\ status[i] # "absent"
    BY DEF Incumbents, InFlight, Live, IN_FLIGHT_STATUSES
  <2>3. Cancelled(i) \in SUBSET {d \in Runs : Live(d)}
    BY <2>2, CancelledAreLive
  <2>4. parked' \in SUBSET Runs /\ blockers' \in [Runs -> SUBSET Runs]
    BY <2>1, ReleaseType
  <2> QED
    BY <1>4, <2>1, <2>3, <2>4, AddRowType DEF StartReplacing
<1> QED
  BY <1>2, <1>3, <1>4 DEF Start

\* CancelLocked with the rest of its step: the control state of the ticks is given.
LEMMA CancelLockedType ==
  ASSUME TypeInv, NEW r \in Runs, status[r] # "absent", CancelLocked(r),
         UNCHANGED <<rowVars, attempts, memo, replays, history>>,
         tickVars' = tickVars \/ \E t \in Ticks : TickEnds(t)
  PROVE  TypeInv'
<1>1. Cancelled(r) \in SUBSET {d \in Runs : Live(d)}
  BY CancelledAreLive
<1>2. parked' \in SUBSET Runs /\ blockers' \in [Runs -> SUBSET Runs]
  BY ReleaseType DEF CancelLocked
<1>3. /\ status' \in [Runs -> {"absent"} \cup IN_FLIGHT_STATUSES \cup TERMINAL_STATUSES]
      /\ \A q \in Runs : status'[q] = "absent" <=> q > created
      /\ \A q \in Runs : Live(q)' => Live(q)
  BY <1>1, CancelType DEF CancelLocked, rowVars
<1>4. /\ pc' \in [Ticks -> {"idle", "claimed", "handler", "fn", "cascade"}]
      /\ run' \in [Ticks -> Runs \cup {NoRun}]
      /\ seen' \in [Ticks -> 0 .. MaxAttempts]
      /\ step' \in [Ticks -> 1 .. StepCount + 1]
      /\ \A u \in Ticks : seen'[u] < MaxAttempts
      /\ \A u \in Ticks : pc'[u] = "idle" <=> run'[u] = NoRun
      /\ \A u \in Ticks : run'[u] # NoRun => run'[u] = run[u]
  <2>1. CASE tickVars' = tickVars
    BY <2>1 DEF TypeInv, TypeOK, AttemptLeft, tickVars
  <2>2. CASE \E t \in Ticks : TickEnds(t)
    BY <2>2, TickEndsType
  <2> QED
    BY <2>1, <2>2
<1>5. TypeOK'
  BY <1>2, <1>3, <1>4 DEF TypeInv, TypeOK, rowVars, history
<1>6. AttemptLeft'
  BY <1>3, <1>4 DEF TypeInv, TypeOK, AttemptLeft, rowVars
<1>7. RowExists'
  BY <1>3, <1>4 DEF TypeInv, TypeOK, RowExists
<1> QED
  BY <1>5, <1>6, <1>7 DEF TypeInv

LEMMA ReplayType ==
  ASSUME TypeInv, NEW r \in Runs, Replay(r)
  PROVE  TypeInv'
<1>1. status'[r] = "pending" /\ status[r] # "absent"
  BY DEF Replay, TypeInv, TypeOK, Terminal, TERMINAL_STATUSES
<1>2. /\ status' \in [Runs -> {"absent"} \cup IN_FLIGHT_STATUSES \cup TERMINAL_STATUSES]
      /\ \A q \in Runs : status'[q] = "absent" <=> status[q] = "absent"
      /\ \A q \in Runs \ {r} : status'[q] = status[q]
  BY <1>1 DEF Replay, TypeInv, TypeOK, IN_FLIGHT_STATUSES
<1>3. memo' \in [Runs -> SUBSET Steps] /\ done' \in [Runs -> [Steps -> Nat]]
  BY DEF Replay, TypeInv, TypeOK, Kept
<1>4. attempts' \in [Runs -> 0 .. MaxAttempts] /\ attempts' = [attempts EXCEPT ![r] = 0]
  BY MemoryJobsAssumption DEF Replay, TypeInv, TypeOK
<1>5. replays' \in 0 .. MaxReplays /\ busy' \in SUBSET {Key[q] : q \in Runs}
  BY MemoryJobsAssumption DEF Replay, TypeInv, TypeOK
<1>6. TypeOK'
  BY <1>2, <1>3, <1>4, <1>5 DEF Replay, TypeInv, TypeOK, rowVars, tickVars
<1>7. AttemptLeft'
  BY <1>2, <1>4, MemoryJobsAssumption DEF Replay, TypeInv, TypeOK, AttemptLeft, Live, tickVars
<1> QED
  BY <1>2, <1>6, <1>7 DEF TypeInv, TypeOK, RowExists, Replay, tickVars

LEMMA ClaimNextType ==
  ASSUME TypeInv, NEW t \in Ticks, NEW r \in Runs, ClaimNext(t, r)
  PROVE  TypeInv'
<1>1. /\ status' \in [Runs -> {"absent"} \cup IN_FLIGHT_STATUSES \cup TERMINAL_STATUSES]
      /\ \A q \in Runs : status'[q] = "absent" <=> status[q] = "absent"
      /\ \A q \in Runs : Live(q)' => Live(q)
      /\ status[r] # "absent"
  BY DEF ClaimNext, TypeInv, TypeOK, Live, IN_FLIGHT_STATUSES
<1>2. /\ pc' \in [Ticks -> {"idle", "claimed", "handler", "fn", "cascade"}]
      /\ run' \in [Ticks -> Runs \cup {NoRun}]
      /\ \A u \in Ticks : pc'[u] = "idle" <=> run'[u] = NoRun
      /\ \A u \in Ticks : run'[u] # NoRun => run'[u] = run[u] \/ run'[u] = r
  BY DEF ClaimNext, TypeInv, TypeOK, Runs, NoRun
<1>3. TypeOK'
  BY <1>1, <1>2 DEF ClaimNext, TypeInv, TypeOK, rowVars, history
<1> QED
  BY <1>1, <1>2, <1>3 DEF ClaimNext, TypeInv, TypeOK, AttemptLeft, RowExists

\* A tick that settles its run or leaves it alone, and then ends or goes on.
LEMMA SettleType ==
  ASSUME TypeInv, NEW t \in Ticks, pc[t] # "idle",
         NEW s \in TERMINAL_STATUSES \cup IN_FLIGHT_STATUSES,
         \/ /\ status' = [status EXCEPT ![run[t]] = s]
            /\ attempts' = [attempts EXCEPT ![run[t]] = seen[t] + 1]
            /\ s \in TERMINAL_STATUSES \/ seen[t] + 1 < MaxAttempts
         \/ UNCHANGED <<status, attempts>>,
         parked' \in SUBSET Runs, blockers' \in [Runs -> SUBSET Runs],
         memo' \in [Runs -> SUBSET Steps],
         \/ TickEnds(t)
         \/ Goto(t, "cascade") /\ UNCHANGED <<run, seen, step>>,
         UNCHANGED <<rowVars, replays, history>>
  PROVE  TypeInv'
<1>1. run[t] \in Runs /\ status[run[t]] # "absent"
  BY TickRow
<1>2. /\ status' \in [Runs -> {"absent"} \cup IN_FLIGHT_STATUSES \cup TERMINAL_STATUSES]
      /\ \A q \in Runs : status'[q] = "absent" <=> status[q] = "absent"
  <2>1. CASE status' = status
    BY <2>1 DEF TypeInv, TypeOK
  <2>2. CASE status' = [status EXCEPT ![run[t]] = s]
    BY <1>1, <2>2 DEF TypeInv, TypeOK, IN_FLIGHT_STATUSES, TERMINAL_STATUSES
  <2> QED
    BY <2>1, <2>2
<1>3. attempts' \in [Runs -> 0 .. MaxAttempts]
  <2>1. seen[t] \in 0 .. MaxAttempts /\ seen[t] < MaxAttempts
    BY DEF TypeInv, TypeOK, AttemptLeft
  <2>2. seen[t] + 1 \in 0 .. MaxAttempts
    BY <2>1, MemoryJobsAssumption
  <2> QED
    BY <1>1, <2>2 DEF TypeInv, TypeOK
<1>4. \A q \in Runs : Live(q)' \/ status'[q] = "absent" => attempts'[q] < MaxAttempts
  <2> SUFFICES ASSUME NEW q \in Runs, Live(q)' \/ status'[q] = "absent"
               PROVE  attempts'[q] < MaxAttempts
    OBVIOUS
  <2>1. CASE status' = status /\ attempts' = attempts
    BY <2>1 DEF TypeInv, AttemptLeft, Live
  <2>2. CASE /\ status' = [status EXCEPT ![run[t]] = s]
             /\ attempts' = [attempts EXCEPT ![run[t]] = seen[t] + 1]
             /\ s \in TERMINAL_STATUSES \/ seen[t] + 1 < MaxAttempts
    <3>1. CASE q = run[t]
      <4>1. status'[q] = s /\ attempts'[q] = seen[t] + 1
        BY <2>2, <3>1 DEF TypeInv, TypeOK
      <4>2. s \notin TERMINAL_STATUSES
        BY <4>1 DEF Live, IN_FLIGHT_STATUSES, TERMINAL_STATUSES
      <4> QED
        BY <2>2, <4>1, <4>2
    <3>2. CASE q # run[t]
      <4>1. status'[q] = status[q] /\ attempts'[q] = attempts[q]
        BY <2>2, <3>2 DEF TypeInv, TypeOK
      <4> QED
        BY <4>1 DEF TypeInv, AttemptLeft, Live
    <3> QED
      BY <3>1, <3>2
  <2> QED
    BY <2>1, <2>2
<1>5. /\ pc' \in [Ticks -> {"idle", "claimed", "handler", "fn", "cascade"}]
      /\ run' \in [Ticks -> Runs \cup {NoRun}]
      /\ seen' \in [Ticks -> 0 .. MaxAttempts]
      /\ step' \in [Ticks -> 1 .. StepCount + 1]
      /\ \A u \in Ticks : seen'[u] < MaxAttempts
      /\ \A u \in Ticks : pc'[u] = "idle" <=> run'[u] = NoRun
      /\ \A u \in Ticks : run'[u] # NoRun => run'[u] = run[u]
  <2>1. CASE TickEnds(t)
    BY <2>1, TickEndsType
  <2>2. CASE Goto(t, "cascade") /\ UNCHANGED <<run, seen, step>>
    BY <2>2, <1>1 DEF Goto, TypeInv, TypeOK, AttemptLeft, Runs, NoRun
  <2> QED
    BY <2>1, <2>2
<1>6. TypeOK'
  BY <1>2, <1>3, <1>5 DEF TypeInv, TypeOK, rowVars, history
<1>7. AttemptLeft'
  BY <1>4, <1>5 DEF AttemptLeft
<1>8. RowExists'
  BY <1>2, <1>5 DEF TypeInv, TypeOK, RowExists
<1> QED
  BY <1>6, <1>7, <1>8 DEF TypeInv

LEMMA ThrowsType ==
  ASSUME TypeInv, NEW t \in Ticks, Throws(t)
  PROVE  memo' \in [Runs -> SUBSET Steps] /\ pc[t] \in {"handler", "fn"}
<1>1. memo \in [Runs -> SUBSET Steps] /\ pc[t] \in {"handler", "fn"}
  BY DEF TypeInv, TypeOK, Throws
<1>2. memo' = memo \/ memo' = [memo EXCEPT ![run[t]] = @ \ {step[t]}]
  BY DEF Throws
<1> QED
  BY <1>1, <1>2

\* The steps of a handler, and the row that a tick reads before it.
LEMMA HandlerType ==
  ASSUME TypeInv, NEW t \in Ticks,
         TickBegins(t) \/ StepIsMemoised(t) \/ BeginStep(t)
  PROVE  TypeInv'
<1>1. pc[t] # "idle" /\ run[t] \in Runs /\ status[run[t]] # "absent"
  BY TickRow DEF TickBegins, StepIsMemoised, BeginStep
<1>2. UNCHANGED <<rowVars, status, attempts, parked, blockers, memo, replays, done, busy>>
  BY DEF TickBegins, StepIsMemoised, BeginStep, history
<1>3. /\ pc' \in [Ticks -> {"idle", "claimed", "handler", "fn", "cascade"}]
      /\ run' \in [Ticks -> Runs \cup {NoRun}]
      /\ seen' \in [Ticks -> 0 .. MaxAttempts]
      /\ step' \in [Ticks -> 1 .. StepCount + 1]
      /\ \A u \in Ticks : seen'[u] < MaxAttempts
      /\ \A u \in Ticks : pc'[u] = "idle" <=> run'[u] = NoRun
      /\ \A u \in Ticks : run'[u] # NoRun => run'[u] = run[u]
  <2>1. CASE TickBegins(t)
    <3>1. CASE TickEnds(t)
      BY <3>1, TickEndsType
    <3>2. CASE /\ status[run[t]] = "running" /\ Goto(t, "handler")
               /\ seen' = [seen EXCEPT ![t] = attempts[run[t]]]
               /\ UNCHANGED <<run, step>>
      <4>1. attempts[run[t]] \in 0 .. MaxAttempts /\ attempts[run[t]] < MaxAttempts
        BY <1>1, <3>2 DEF TypeInv, TypeOK, AttemptLeft, Live, IN_FLIGHT_STATUSES
      <4> QED
        BY <1>1, <3>2, <4>1 DEF Goto, TypeInv, TypeOK, AttemptLeft, Runs, NoRun
    <3> QED
      BY <2>1, <3>1, <3>2 DEF TickBegins
  <2>2. CASE StepIsMemoised(t)
    <3>1. step[t] \in 1 .. StepCount
      BY <1>1, <2>2 DEF StepIsMemoised, TypeInv, TypeOK, Steps
    <3>2. step[t] + 1 \in 1 .. StepCount + 1
      BY <3>1, MemoryJobsAssumption
    <3> QED
      BY <2>2, <3>2 DEF StepIsMemoised, TypeInv, TypeOK, AttemptLeft
  <2>3. CASE BeginStep(t)
    BY <1>1, <2>3 DEF BeginStep, Goto, TypeInv, TypeOK, AttemptLeft, Runs, NoRun
  <2> QED
    BY <2>1, <2>2, <2>3
<1>4. overlapped' \in SUBSET Runs
  BY <1>1 DEF TickBegins, StepIsMemoised, BeginStep, history, TypeInv, TypeOK
<1>5. TypeOK'
  BY <1>2, <1>3, <1>4 DEF TypeInv, TypeOK, rowVars
<1> QED
  BY <1>2, <1>3, <1>5 DEF TypeInv, TypeOK, AttemptLeft, RowExists, Live

LEMMA StepReturnsType ==
  ASSUME TypeInv, NEW t \in Ticks, StepReturns(t), step[t] \in Steps
  PROVE  TypeInv'
<1>1. pc[t] # "idle" /\ run[t] \in Runs /\ status[run[t]] # "absent"
  BY TickRow DEF StepReturns
<1>2. step[t] + 1 \in 1 .. StepCount + 1
  BY MemoryJobsAssumption DEF Steps
<1>3. done' \in [Runs -> [Steps -> Nat]]
  <2>1. done[run[t]] \in [Steps -> Nat] /\ done[run[t]][step[t]] + 1 \in Nat
    BY <1>1 DEF TypeInv, TypeOK
  <2> QED
    BY <1>1, <2>1 DEF StepReturns, TypeInv, TypeOK
<1>4. memo' \in [Runs -> SUBSET Steps]
  BY <1>1 DEF StepReturns, TypeInv, TypeOK
<1>5. TypeOK'
  BY <1>1, <1>2, <1>3, <1>4 DEF StepReturns, Goto, TypeInv, TypeOK, rowVars, Runs, NoRun
<1> QED
  BY <1>5 DEF StepReturns, TypeInv, TypeOK, AttemptLeft, RowExists, Live, rowVars

\* A tick in fn is at a step of the handler.
FnStep == \A t \in Ticks : pc[t] = "fn" => step[t] \in Steps

LEMMA FnStepNext ==
  ASSUME TypeInv, FnStep, [Next]_vars
  PROVE  FnStep'
<1>1. CASE UNCHANGED <<pc, step>>
  BY <1>1 DEF FnStep
<1>2. CASE \E t \in Ticks : TickEnds(t)
  BY <1>2 DEF TickEnds, FnStep, TypeInv, TypeOK
<1>3. CASE \E t \in Ticks : pc' = [pc EXCEPT ![t] = "claimed"] /\ UNCHANGED step
  BY <1>3 DEF FnStep, TypeInv, TypeOK
<1>4. CASE \E t \in Ticks : Goto(t, "handler") /\ (UNCHANGED step \/ step' = [step EXCEPT ![t] = @ + 1])
  BY <1>4 DEF Goto, FnStep, TypeInv, TypeOK
<1>5. CASE \E t \in Ticks : Goto(t, "cascade") /\ UNCHANGED step
  BY <1>5 DEF Goto, FnStep, TypeInv, TypeOK
<1>6. CASE \E t \in Ticks : StepIsMemoised(t)
  BY <1>6 DEF StepIsMemoised, FnStep, TypeInv, TypeOK
<1>7. CASE \E t \in Ticks : BeginStep(t)
  BY <1>7, MemoryJobsAssumption DEF BeginStep, Goto, FnStep, TypeInv, TypeOK, Steps
<1> QED
  <2>1. CASE UNCHANGED vars
    BY <1>1, <2>1 DEF vars
  <2>2. ASSUME NEW r \in Runs, NEW from \in Runs \cup {NoRun}, Start(r, from) PROVE FnStep'
    BY <1>1, <2>2 DEF Start, StartFree, StartQueued, StartReplacing, AddRow, tickVars
  <2>3. ASSUME NEW r \in Runs, Cancel(r) \/ Replay(r) PROVE FnStep'
    BY <1>1, <2>3 DEF Cancel, Replay, tickVars
  <2>4. ASSUME NEW t \in Ticks, NEW r \in Runs, ClaimNext(t, r) PROVE FnStep'
    BY <1>3, <2>4 DEF ClaimNext
  <2>5. ASSUME NEW t \in Ticks, Tick(t) PROVE FnStep'
    <3>1. CASE TickBegins(t)
      BY <1>2, <1>4, <3>1 DEF TickBegins
    <3>2. CASE StepReturns(t)
      BY <1>4, <3>2 DEF StepReturns
    <3>3. CASE MarkFailed(t)
      BY <1>2, <1>5, <3>3 DEF MarkFailed
    <3>4. CASE MarkCompleted(t) \/ RescheduleForRetry(t) \/ CascadeOnFailure(t)
      BY <1>2, <3>4 DEF MarkCompleted, RescheduleForRetry, CascadeOnFailure
    <3> QED
      BY <1>6, <1>7, <2>5, <3>1, <3>2, <3>3, <3>4 DEF Tick
  <2> QED
    BY <2>1, <2>2, <2>3, <2>4, <2>5 DEF Next

LEMMA TickType ==
  ASSUME TypeInv, FnStep, NEW t \in Ticks, Tick(t)
  PROVE  TypeInv'
<1>0. blockers \in [Runs -> SUBSET Runs] /\ parked \in SUBSET Runs /\ memo \in [Runs -> SUBSET Steps]
  BY DEF TypeInv, TypeOK
<1>1. CASE TickBegins(t) \/ StepIsMemoised(t) \/ BeginStep(t)
  BY <1>1, HandlerType
<1>2. CASE StepReturns(t)
  BY <1>2, StepReturnsType DEF FnStep, StepReturns
<1>3. CASE MarkCompleted(t)
  <2>1. parked' \in SUBSET Runs /\ blockers' \in [Runs -> SUBSET Runs]
    BY <1>0, <1>3, ReleaseType DEF MarkCompleted
  <2>2. /\ pc[t] # "idle" /\ UNCHANGED <<rowVars, memo, replays, history>> /\ TickEnds(t)
        /\ \/ /\ status' = [status EXCEPT ![run[t]] = "completed"]
              /\ attempts' = [attempts EXCEPT ![run[t]] = seen[t] + 1]
           \/ UNCHANGED <<status, attempts>>
    BY <1>3 DEF MarkCompleted
  <2>3. "completed" \in TERMINAL_STATUSES
    BY DEF TERMINAL_STATUSES
  <2> QED
    BY <1>0, <2>1, <2>2, <2>3, SettleType
<1>4. CASE RescheduleForRetry(t)
  <2>1. parked' \in SUBSET Runs /\ blockers' \in [Runs -> SUBSET Runs]
    BY <1>0, <1>4 DEF RescheduleForRetry
  <2>2. /\ pc[t] # "idle" /\ memo' \in [Runs -> SUBSET Steps]
    BY <1>4, ThrowsType DEF RescheduleForRetry
  <2>3. /\ UNCHANGED <<rowVars, replays, history>> /\ TickEnds(t)
        /\ seen[t] + 1 < MaxAttempts
        /\ \/ /\ status' = [status EXCEPT ![run[t]] = "pending"]
              /\ attempts' = [attempts EXCEPT ![run[t]] = seen[t] + 1]
           \/ UNCHANGED <<status, attempts>>
    BY <1>4 DEF RescheduleForRetry, Retries
  <2>4. "pending" \in IN_FLIGHT_STATUSES
    BY DEF IN_FLIGHT_STATUSES
  <2> QED
    BY <2>1, <2>2, <2>3, <2>4, SettleType
<1>5. CASE MarkFailed(t)
  <2>1. parked' \in SUBSET Runs /\ blockers' \in [Runs -> SUBSET Runs]
    BY <1>0, <1>5, ReleaseType DEF MarkFailed
  <2>2. /\ pc[t] # "idle" /\ memo' \in [Runs -> SUBSET Steps]
    BY <1>5, ThrowsType DEF MarkFailed
  <2>3. /\ UNCHANGED <<rowVars, replays, history>>
        /\ TickEnds(t) \/ (Goto(t, "cascade") /\ UNCHANGED <<run, seen, step>>)
        /\ \/ /\ status' = [status EXCEPT ![run[t]] = "failed"]
              /\ attempts' = [attempts EXCEPT ![run[t]] = seen[t] + 1]
           \/ UNCHANGED <<status, attempts>>
    BY <1>5 DEF MarkFailed
  <2>4. "failed" \in TERMINAL_STATUSES
    BY DEF TERMINAL_STATUSES
  <2> QED
    BY <2>1, <2>2, <2>3, <2>4, SettleType
<1>6. CASE CascadeOnFailure(t)
  <2>1. run[t] \in Runs /\ status[run[t]] # "absent"
    BY <1>6, TickRow DEF CascadeOnFailure
  <2> QED
    BY <1>6, <2>1, CancelLockedType DEF CascadeOnFailure
<1> QED
  BY <1>1, <1>2, <1>3, <1>4, <1>5, <1>6 DEF Tick

LEMMA NextTypeInv ==
  ASSUME TypeInv, FnStep, [Next]_vars
  PROVE  TypeInv'
<1>1. CASE UNCHANGED vars
  BY <1>1 DEF vars, TypeInv, TypeOK, AttemptLeft, RowExists, Live
<1>2. ASSUME NEW r \in Runs, Cancel(r) PROVE TypeInv'
  <2>1. status[r] # "absent"
    BY <1>2 DEF Cancel, Live, IN_FLIGHT_STATUSES
  <2> QED
    BY <1>2, <2>1, CancelLockedType DEF Cancel
<1> QED
  BY <1>1, <1>2, StartType, ReplayType, ClaimNextType, TickType DEF Next

\* Every state is well typed, however many ticks execute a run; attempts stay
\* within the policy of the job type.
THEOREM MemoryJobsTypes == Spec => [](TypeOK /\ AttemptLeft)
<1>1. Init => TypeInv /\ FnStep
  BY InitTypeInv DEF Init, FnStep
<1>2. TypeInv /\ FnStep /\ [Next]_vars => (TypeInv /\ FnStep)'
  BY NextTypeInv, FnStepNext
<1>3. TypeInv /\ FnStep => TypeOK /\ AttemptLeft
  BY DEF TypeInv
<1> QED
  BY <1>1, <1>2, <1>3, PTL DEF Spec

-----------------------------------------------------------------------------
(* Parked runs *)

\* When the runs of R become terminal, or there are none, and Release(R) is
\* taken, whoever is still parked is awaited.
LEMMA ReleaseKeepsAwaited ==
  ASSUME TypeInv, ParkedIsAwaited, NEW R \in SUBSET Runs, Release(R),
         \A q \in Runs \ R : status[q] = "pending" => status'[q] = "pending",
         \A q \in Runs \ R : Live(q) => Live(q)'
  PROVE  ParkedIsAwaited'
<1> SUFFICES ASSUME NEW q \in parked'
             PROVE  status'[q] = "pending" /\ \E i \in Runs : Live(i)' /\ q \in blockers'[i]
  BY DEF ParkedIsAwaited
<1>1. q \in parked /\ q \notin R /\ q \in Runs
  BY DEF Release, TypeInv, TypeOK
<1>2. PICK i \in Runs : Live(i) /\ q \in blockers[i]
  BY <1>1 DEF ParkedIsAwaited
<1>3. i \notin R
  BY <1>2 DEF Release
<1>4. Live(i)' /\ blockers'[i] = blockers[i]
  BY <1>2, <1>3 DEF Release
<1> QED
  BY <1>1, <1>2, <1>4 DEF ParkedIsAwaited

\* A step that forgets no waiter and parks nobody.
LEMMA SameBlockersKeepAwaited ==
  ASSUME ParkedIsAwaited, parked' \subseteq parked, parked \in SUBSET Runs,
         blockers' = blockers,
         \A q \in parked' : status'[q] = "pending",
         \A q \in Runs : Live(q) => Live(q)'
  PROVE  ParkedIsAwaited'
<1> SUFFICES ASSUME NEW q \in parked'
             PROVE  status'[q] = "pending" /\ \E i \in Runs : Live(i)' /\ q \in blockers'[i]
  BY DEF ParkedIsAwaited
<1>1. PICK i \in Runs : Live(i) /\ q \in blockers[i]
  BY DEF ParkedIsAwaited
<1> QED
  BY <1>1

LEMMA CancelLockedKeepsAwaited ==
  ASSUME TypeInv, ParkedIsAwaited, NEW r \in Runs, status[r] # "absent", CancelLocked(r)
  PROVE  ParkedIsAwaited'
<1>1. Cancelled(r) \in SUBSET Runs
  BY DEF Cancelled, Cascade
<1>2. \A q \in Runs \ Cancelled(r) : status'[q] = status[q]
  BY DEF CancelLocked, StatusAfterCancel
<1> QED
  BY <1>1, <1>2, ReleaseKeepsAwaited DEF CancelLocked, Live

LEMMA StartKeepsAwaited ==
  ASSUME TypeInv, ParkedIsAwaited, NEW r \in Runs, NEW from \in Runs \cup {NoRun}, Start(r, from)
  PROVE  ParkedIsAwaited'
<1>1. status[r] = "absent" /\ r \notin parked
  <2>1. status[r] = "absent"
    BY DEF Start, StartFree, StartQueued, StartReplacing, MayStart, TypeInv, TypeOK, Runs
  <2> QED
    BY <2>1 DEF ParkedIsAwaited
<1>2. parked \in SUBSET Runs /\ blockers \in [Runs -> SUBSET Runs]
  BY DEF TypeInv, TypeOK
<1>3. CASE StartFree(r, from)
  <2>1. \A q \in Runs \ {r} : status'[q] = status[q]
    BY <1>3 DEF StartFree, AddRow, TypeInv, TypeOK
  <2>2. \A q \in Runs : Live(q) => Live(q)'
    BY <2>1, <1>1 DEF Live, IN_FLIGHT_STATUSES
  <2>3. \A q \in parked : status'[q] = "pending"
    BY <1>1, <1>2, <2>1 DEF ParkedIsAwaited
  <2> QED
    BY <1>2, <1>3, <2>2, <2>3, SameBlockersKeepAwaited DEF StartFree
<1>4. CASE StartQueued(r, from)
  <2>1. \A q \in Runs \ {r} : status'[q] = status[q]
    BY <1>4 DEF StartQueued, AddRow, TypeInv, TypeOK
  <2>2. status'[r] = "pending"
    BY <1>4 DEF StartQueued, AddRow, TypeInv, TypeOK
  <2>3. PICK i \in Incumbents(r) : blockers' = [blockers EXCEPT ![i] = @ \cup {r}]
    BY <1>4 DEF StartQueued
  <2>4. i \in Runs /\ Live(i) /\ i # r
    BY <1>1, <2>3 DEF Incumbents, InFlight, Live, IN_FLIGHT_STATUSES
  <2>5. Live(i)' /\ r \in blockers'[i]
    BY <1>2, <2>1, <2>3, <2>4 DEF Live
  <2> SUFFICES ASSUME NEW q \in parked'
               PROVE  status'[q] = "pending" /\ \E j \in Runs : Live(j)' /\ q \in blockers'[j]
    BY DEF ParkedIsAwaited
  <2>6. CASE q = r
    BY <2>2, <2>4, <2>5, <2>6
  <2>7. CASE q # r
    <3>1. q \in parked /\ q \in Runs
      BY <1>2, <1>4, <2>7 DEF StartQueued
    <3>2. PICK j \in Runs : Live(j) /\ q \in blockers[j]
      BY <3>1 DEF ParkedIsAwaited
    <3>3. j # r
      BY <1>1, <3>2 DEF Live, IN_FLIGHT_STATUSES
    <3>4. Live(j)'
      BY <2>1, <3>2, <3>3 DEF Live
    <3>5. q \in blockers'[j]
      BY <1>2, <2>3, <2>4, <3>2
    <3>6. status'[q] = "pending"
      BY <2>1, <2>7, <3>1 DEF ParkedIsAwaited
    <3> QED
      BY <3>4, <3>5, <3>6
  <2> QED
    BY <2>6, <2>7
<1>5. CASE StartReplacing(r, from)
  <2>1. PICK i \in Incumbents(r) : /\ AddRow(r, from, StatusAfterCancel(Cancelled(i)))
                                   /\ Release(Cancelled(i))
    BY <1>5 DEF StartReplacing
  <2>2. Cancelled(i) \in SUBSET Runs
    BY <2>1 DEF Cancelled, Cascade, Incumbents, InFlight
  <2>3. \A q \in Runs \ Cancelled(i) : q # r => status'[q] = status[q]
    BY <2>1 DEF AddRow, StatusAfterCancel
  <2>4. \A q \in Runs \ Cancelled(i) :
          (status[q] = "pending" => status'[q] = "pending") /\ (Live(q) => Live(q)')
    BY <1>1, <2>3 DEF Live, IN_FLIGHT_STATUSES
  <2> QED
    BY <2>1, <2>2, <2>4, ReleaseKeepsAwaited
<1> QED
  BY <1>3, <1>4, <1>5 DEF Start

LEMMA TickKeepsAwaited ==
  ASSUME TypeInv, ParkedIsAwaited, NEW t \in Ticks, Tick(t)
  PROVE  ParkedIsAwaited'
<1>1. parked \in SUBSET Runs /\ \A q \in parked : status[q] = "pending"
  BY DEF TypeInv, TypeOK, ParkedIsAwaited
<1>2. ASSUME UNCHANGED <<status, parked, blockers>> PROVE ParkedIsAwaited'
  BY <1>1, <1>2, SameBlockersKeepAwaited DEF Live
<1>3. ASSUME NEW s \in TERMINAL_STATUSES, pc[t] # "idle",
             status' = [status EXCEPT ![run[t]] = s], Release({run[t]})
      PROVE  ParkedIsAwaited'
  <2>1. run[t] \in Runs
    BY <1>3, TickRow
  <2>2. \A q \in Runs \ {run[t]} : status'[q] = status[q]
    BY <1>3, <2>1 DEF TypeInv, TypeOK
  <2> QED
    BY <1>3, <2>1, <2>2, ReleaseKeepsAwaited DEF Live
<1>4. CASE TickBegins(t) \/ StepIsMemoised(t) \/ BeginStep(t) \/ StepReturns(t)
  BY <1>2, <1>4 DEF TickBegins, StepIsMemoised, BeginStep, StepReturns
<1>5. CASE MarkCompleted(t)
  <2>1. "completed" \in TERMINAL_STATUSES /\ pc[t] # "idle"
    BY <1>5 DEF TERMINAL_STATUSES, MarkCompleted
  <2> QED
    BY <1>2, <1>3, <1>5, <2>1 DEF MarkCompleted
<1>6. CASE MarkFailed(t)
  <2>1. "failed" \in TERMINAL_STATUSES /\ pc[t] # "idle"
    BY <1>6 DEF TERMINAL_STATUSES, MarkFailed, Throws
  <2> QED
    BY <1>2, <1>3, <1>6, <2>1 DEF MarkFailed
<1>7. CASE RescheduleForRetry(t)
  <2>1. run[t] \in Runs
    BY <1>7, TickRow DEF RescheduleForRetry, Throws
  <2>2. CASE UNCHANGED <<status, attempts, parked>>
    BY <1>2, <1>7, <2>2 DEF RescheduleForRetry
  <2>3. CASE /\ status' = [status EXCEPT ![run[t]] = "pending"]
             /\ parked' = parked \ {run[t]}
    <3>1. /\ \A q \in Runs \ {run[t]} : status'[q] = status[q]
          /\ status'[run[t]] = "pending"
      BY <2>1, <2>3 DEF TypeInv, TypeOK
    <3>2. \A q \in Runs : Live(q) => Live(q)'
      BY <3>1 DEF Live, IN_FLIGHT_STATUSES
    <3>3. parked' \subseteq parked /\ \A q \in parked' : status'[q] = "pending"
      BY <1>1, <2>3, <3>1
    <3> QED
      BY <1>1, <1>7, <3>2, <3>3, SameBlockersKeepAwaited DEF RescheduleForRetry
  <2> QED
    BY <1>7, <2>2, <2>3 DEF RescheduleForRetry
<1>8. CASE CascadeOnFailure(t)
  <2>1. run[t] \in Runs /\ status[run[t]] # "absent"
    BY <1>8, TickRow DEF CascadeOnFailure
  <2> QED
    BY <1>8, <2>1, CancelLockedKeepsAwaited DEF CascadeOnFailure
<1> QED
  BY <1>4, <1>5, <1>6, <1>7, <1>8 DEF Tick

LEMMA NextKeepsAwaited ==
  ASSUME TypeInv, ParkedIsAwaited, [Next]_vars
  PROVE  ParkedIsAwaited'
<1>1. parked \in SUBSET Runs /\ \A q \in parked : status[q] = "pending"
  BY DEF TypeInv, TypeOK, ParkedIsAwaited
<1>2. CASE UNCHANGED vars
  BY <1>2 DEF vars, ParkedIsAwaited, Live
<1>3. ASSUME NEW r \in Runs, Cancel(r) PROVE ParkedIsAwaited'
  <2>1. status[r] # "absent"
    BY <1>3 DEF Cancel, Live, IN_FLIGHT_STATUSES
  <2> QED
    BY <1>3, <2>1, CancelLockedKeepsAwaited DEF Cancel
<1>4. ASSUME NEW r \in Runs, Replay(r) PROVE ParkedIsAwaited'
  <2>1. status' = [status EXCEPT ![r] = "pending"] /\ UNCHANGED <<parked, blockers>>
    BY <1>4 DEF Replay
  <2>2. \A q \in Runs : Live(q) => Live(q)'
    BY <2>1 DEF TypeInv, TypeOK, Live, IN_FLIGHT_STATUSES
  <2>3. \A q \in parked : status'[q] = "pending"
    BY <1>1, <2>1 DEF TypeInv, TypeOK
  <2> QED
    BY <1>1, <2>1, <2>2, <2>3, SameBlockersKeepAwaited
<1>5. ASSUME NEW t \in Ticks, NEW r \in Runs, ClaimNext(t, r) PROVE ParkedIsAwaited'
  <2>1. /\ status' = [status EXCEPT ![r] = "running"] /\ UNCHANGED <<parked, blockers>>
        /\ r \notin parked /\ status[r] = "pending"
    BY <1>5 DEF ClaimNext
  <2>2. \A q \in Runs : Live(q) => Live(q)'
    BY <2>1 DEF TypeInv, TypeOK, Live, IN_FLIGHT_STATUSES
  <2>3. \A q \in parked : status'[q] = "pending"
    BY <1>1, <2>1 DEF TypeInv, TypeOK
  <2> QED
    BY <1>1, <2>1, <2>2, <2>3, SameBlockersKeepAwaited
<1> QED
  BY <1>2, <1>3, <1>4, <1>5, StartKeepsAwaited, TickKeepsAwaited DEF Next

\* No start, cancel, replay, failure or late tick leaves a queued run parked in
\* the distant future without a run in flight that will release it.
THEOREM ParkedRunsAreAwaited == Spec => []ParkedIsAwaited
<1>1. Init => TypeInv /\ FnStep /\ ParkedIsAwaited
  BY InitTypeInv DEF Init, FnStep, ParkedIsAwaited
<1>2. TypeInv /\ FnStep /\ ParkedIsAwaited /\ [Next]_vars
        => (TypeInv /\ FnStep /\ ParkedIsAwaited)'
  BY NextTypeInv, FnStepNext, NextKeepsAwaited
<1> QED
  BY <1>1, <1>2, PTL DEF Spec

-----------------------------------------------------------------------------
(* Terminal runs *)

\* Mentioned by name so that the temporal step sees one action.
Revival == \A r \in Runs : Terminal(r) /\ status'[r] # status[r] => Replay(r)

LEMMA TerminalIsNotLive ==
  ASSUME NEW r \in Runs, Terminal(r)
  PROVE  ~ Live(r) /\ status[r] # "absent" /\ status[r] # "pending"
BY DEF Terminal, Live, TERMINAL_STATUSES, IN_FLIGHT_STATUSES

LEMMA CancelLeavesTerminal ==
  ASSUME TypeInv, NEW r \in Runs, status[r] # "absent", CancelLocked(r)
  PROVE  Revival
<1>1. Cancelled(r) \in SUBSET {d \in Runs : Live(d)}
  BY CancelledAreLive
<1> QED
  BY <1>1, TerminalIsNotLive DEF CancelLocked, StatusAfterCancel, Revival

LEMMA NextRevival ==
  ASSUME TypeInv, [Next]_vars
  PROVE  Revival
<1>1. CASE UNCHANGED status
  BY <1>1 DEF Revival
<1>2. ASSUME NEW r \in Runs, NEW from \in Runs \cup {NoRun}, Start(r, from) PROVE Revival
  <2>1. status[r] = "absent"
    BY <1>2 DEF Start, StartFree, StartQueued, StartReplacing, MayStart, TypeInv, TypeOK, Runs
  <2>2. CASE StartReplacing(r, from)
    <3>1. PICK i \in Incumbents(r) : AddRow(r, from, StatusAfterCancel(Cancelled(i)))
      BY <2>2 DEF StartReplacing
    <3>2. i \in Runs /\ status[i] # "absent"
      BY DEF Incumbents, InFlight, Live, IN_FLIGHT_STATUSES
    <3>3. Cancelled(i) \in SUBSET {d \in Runs : Live(d)}
      BY <3>2, CancelledAreLive
    <3>4. \A q \in Runs : status'[q] # status[q] => q = r \/ q \in Cancelled(i)
      BY <3>1 DEF AddRow, StatusAfterCancel, TypeInv, TypeOK
    <3> QED
      BY <2>1, <3>3, <3>4, TerminalIsNotLive DEF Revival
  <2>3. CASE StartFree(r, from) \/ StartQueued(r, from)
    <3>1. \A q \in Runs : status'[q] # status[q] => q = r
      BY <2>3 DEF StartFree, StartQueued, AddRow, TypeInv, TypeOK
    <3> QED
      BY <2>1, <3>1, TerminalIsNotLive DEF Revival
  <2> QED
    BY <1>2, <2>2, <2>3 DEF Start
<1>3. ASSUME NEW r \in Runs, Cancel(r) PROVE Revival
  <2>1. status[r] # "absent"
    BY <1>3 DEF Cancel, Live, IN_FLIGHT_STATUSES
  <2> QED
    BY <1>3, <2>1, CancelLeavesTerminal DEF Cancel
<1>4. ASSUME NEW r \in Runs, Replay(r) PROVE Revival
  BY <1>4 DEF Replay, Revival, TypeInv, TypeOK
<1>5. ASSUME NEW t \in Ticks, NEW r \in Runs, ClaimNext(t, r) PROVE Revival
  <2>1. \A q \in Runs : status'[q] # status[q] => q = r
    BY <1>5 DEF ClaimNext, TypeInv, TypeOK
  <2> QED
    BY <1>5, <2>1, TerminalIsNotLive DEF ClaimNext, Revival
<1>6. ASSUME NEW t \in Ticks, Tick(t) PROVE Revival
  <2>1. CASE CascadeOnFailure(t)
    <3>1. run[t] \in Runs /\ status[run[t]] # "absent"
      BY <2>1, TickRow DEF CascadeOnFailure
    <3> QED
      BY <2>1, <3>1, CancelLeavesTerminal DEF CascadeOnFailure
  <2>2. CASE MarkCompleted(t) \/ RescheduleForRetry(t) \/ MarkFailed(t)
    <3>1. \/ UNCHANGED status
          \/ ~ Terminal(run[t]) /\ \E s \in TERMINAL_STATUSES \cup IN_FLIGHT_STATUSES :
                                     status' = [status EXCEPT ![run[t]] = s]
      BY <2>2 DEF MarkCompleted, RescheduleForRetry, MarkFailed, Settles,
                  TERMINAL_STATUSES, IN_FLIGHT_STATUSES
    <3> QED
      BY <1>1, <3>1 DEF Revival, TypeInv, TypeOK
  <2>3. CASE TickBegins(t) \/ StepIsMemoised(t) \/ BeginStep(t) \/ StepReturns(t)
    BY <1>1, <2>3 DEF TickBegins, StepIsMemoised, BeginStep, StepReturns
  <2> QED
    BY <1>6, <2>1, <2>2, <2>3 DEF Tick
<1> QED
  BY <1>1, <1>2, <1>3, <1>4, <1>5, <1>6 DEF Next, vars

\* No settling write of a tick, late or not, and no cascade takes a run out of a
\* terminal status: only a replay does.
THEOREM TerminalRunsStay == Spec => OnlyReplayRevives
<1>1. Init => TypeInv /\ FnStep
  BY InitTypeInv DEF Init, FnStep
<1>2. TypeInv /\ FnStep /\ [Next]_vars => (TypeInv /\ FnStep)'
  BY NextTypeInv, FnStepNext
<1>3. TypeInv /\ FnStep /\ [Next]_vars => [Revival]_vars
  BY NextRevival
<1>4. Spec => [][Revival]_vars
  BY <1>1, <1>2, <1>3, PTL DEF Spec
<1> QED
  BY <1>4 DEF OnlyReplayRevives, Revival

-----------------------------------------------------------------------------
(* Steps *)

\* A run that two ticks have not executed at once is executed by at most one.
Executes(t) == pc[t] \in {"handler", "fn", "cascade"}
Alone == \A t, u \in Ticks :
  Executes(t) /\ Executes(u) /\ run[t] = run[u] /\ run[t] \notin overlapped => t = u

\* Of such a run, what took effect is memoised, and what is being done is not.
DoneIsMemoised == \A r \in Runs \ overlapped : \A s \in Steps :
  done[r][s] = 0 \/ (done[r][s] = 1 /\ s \in memo[r])
FnIsNew == \A t \in Ticks :
  pc[t] = "fn" /\ run[t] \notin overlapped => step[t] \notin memo[run[t]]

OnceInv == Alone /\ DoneIsMemoised /\ FnIsNew

LEMMA OnceUnchanged ==
  ASSUME OnceInv, UNCHANGED <<tickVars, memo, done, overlapped>>
  PROVE  OnceInv'
BY DEF OnceInv, Alone, DoneIsMemoised, FnIsNew, Executes, tickVars

LEMMA OnceTickEnds ==
  ASSUME TypeInv, OnceInv, NEW t \in Ticks, TickEnds(t), UNCHANGED <<done, overlapped>>,
         memo' = memo \/ (pc[t] = "fn" /\ memo' = [memo EXCEPT ![run[t]] = @ \ {step[t]}])
  PROVE  OnceInv'
<1>0. /\ \A u \in Ticks \ {t} : pc'[u] = pc[u] /\ run'[u] = run[u] /\ step'[u] = step[u]
      /\ pc'[t] = "idle"
  BY DEF TickEnds, TypeInv, TypeOK
<1>1. Alone'
  BY <1>0 DEF OnceInv, Alone, Executes
<1>2. \A r \in Runs : memo'[r] \subseteq memo[r]
  BY DEF TypeInv, TypeOK
<1>3. FnIsNew'
  BY <1>0, <1>2 DEF OnceInv, FnIsNew, TypeInv, TypeOK
<1>4. DoneIsMemoised'
  <2>1. CASE memo' = memo
    BY <2>1 DEF OnceInv, DoneIsMemoised
  <2>2. CASE pc[t] = "fn" /\ memo' = [memo EXCEPT ![run[t]] = @ \ {step[t]}]
    <3> SUFFICES ASSUME NEW r \in Runs \ overlapped, NEW s \in Steps, done[r][s] # 0
                 PROVE  done[r][s] = 1 /\ s \in memo'[r]
      BY DEF DoneIsMemoised
    <3>1. done[r][s] = 1 /\ s \in memo[r]
      BY DEF OnceInv, DoneIsMemoised
    <3>2. r = run[t] => s # step[t]
      BY <2>2, <3>1 DEF OnceInv, FnIsNew
    <3> QED
      BY <2>2, <3>1, <3>2 DEF TypeInv, TypeOK
  <2> QED
    BY <2>1, <2>2
<1> QED
  BY <1>1, <1>3, <1>4 DEF OnceInv

LEMMA OnceTickBegins ==
  ASSUME TypeInv, OnceInv, NEW t \in Ticks, TickBegins(t)
  PROVE  OnceInv'
<1>1. CASE TickEnds(t) /\ UNCHANGED overlapped
  BY <1>1, OnceTickEnds DEF TickBegins
<1>2. CASE /\ Goto(t, "handler") /\ pc[t] = "claimed"
           /\ overlapped' = overlapped \cup
                {r \in {run[t]} : \E u \in Ticks \ {t} : run[u] = r /\ pc[u] # "claimed"}
           /\ UNCHANGED <<run, step, memo, done>>
  <2>1. \A u \in Ticks \ {t} : pc'[u] = pc[u]
    BY <1>2 DEF Goto, TypeInv, TypeOK
  <2>2. pc'[t] = "handler" /\ overlapped \subseteq overlapped'
    BY <1>2 DEF Goto, TypeInv, TypeOK
  <2>3. \A u \in Ticks \ {t} : Executes(u) /\ run[u] = run[t] => run[t] \in overlapped'
    BY <1>2 DEF Executes
  <2>4. \A u \in Ticks \ {t} : Executes(u)' => Executes(u)
    BY <2>1 DEF Executes
  <2>5. Alone'
    <3> SUFFICES ASSUME NEW u \in Ticks, NEW v \in Ticks, Executes(u)', Executes(v)',
                        run[u] = run[v], run[u] \notin overlapped'
                 PROVE  u = v
      BY <1>2 DEF Alone
    <3>1. CASE u # t /\ v # t
      BY <2>2, <2>4, <3>1 DEF OnceInv, Alone
    <3>2. CASE u = t \/ v = t
      BY <2>3, <2>4, <3>2
    <3> QED
      BY <3>1, <3>2
  <2>6. FnIsNew'
    BY <1>2, <2>1, <2>2 DEF OnceInv, FnIsNew
  <2>7. DoneIsMemoised'
    BY <1>2, <2>2 DEF OnceInv, DoneIsMemoised
  <2> QED
    BY <2>5, <2>6, <2>7 DEF OnceInv
<1> QED
  BY <1>1, <1>2 DEF TickBegins

LEMMA OnceHandler ==
  ASSUME TypeInv, OnceInv, NEW t \in Ticks,
         StepIsMemoised(t) \/ BeginStep(t) \/ (Goto(t, "cascade") /\ MarkFailed(t))
  PROVE  OnceInv'
<1>1. /\ UNCHANGED <<run, done, overlapped>>
      /\ pc[t] \in {"handler", "fn"}
      /\ \A u \in Ticks \ {t} : pc'[u] = pc[u] /\ step'[u] = step[u]
  <2>1. CASE StepIsMemoised(t)
    BY <2>1 DEF StepIsMemoised, history, TypeInv, TypeOK
  <2>2. CASE BeginStep(t)
    BY <2>2 DEF BeginStep, Goto, history, TypeInv, TypeOK
  <2>3. CASE Goto(t, "cascade") /\ MarkFailed(t)
    <3>1. pc'[t] = "cascade"
      BY <2>3 DEF Goto, MarkFailed, Throws, TypeInv, TypeOK
    <3>2. UNCHANGED <<run, seen, step>>
      BY <2>3, <3>1 DEF MarkFailed, TickEnds, TypeInv, TypeOK
    <3> QED
      BY <2>3, <3>2 DEF MarkFailed, Throws, Goto, history, TypeInv, TypeOK
  <2> QED
    BY <2>1, <2>2, <2>3
<1>2. Executes(t) /\ \A u \in Ticks : Executes(u)' => Executes(u)
  BY <1>1 DEF Executes
<1>3. Alone'
  BY <1>1, <1>2 DEF OnceInv, Alone
<1>4. memo' = memo \/ (pc[t] = "fn" /\ pc'[t] = "cascade" /\ memo' = [memo EXCEPT ![run[t]] = @ \ {step[t]}])
  BY DEF StepIsMemoised, BeginStep, MarkFailed, Throws, Goto, TypeInv, TypeOK
<1>5. DoneIsMemoised'
  <2>1. CASE memo' = memo
    BY <1>1, <2>1 DEF OnceInv, DoneIsMemoised
  <2>2. CASE pc[t] = "fn" /\ memo' = [memo EXCEPT ![run[t]] = @ \ {step[t]}]
    <3> SUFFICES ASSUME NEW r \in Runs \ overlapped, NEW s \in Steps, done[r][s] # 0
                 PROVE  done[r][s] = 1 /\ s \in memo'[r]
      BY <1>1 DEF DoneIsMemoised
    <3>1. done[r][s] = 1 /\ s \in memo[r]
      BY DEF OnceInv, DoneIsMemoised
    <3>2. r = run[t] => s # step[t]
      BY <2>2, <3>1 DEF OnceInv, FnIsNew
    <3> QED
      BY <2>2, <3>1, <3>2 DEF TypeInv, TypeOK
  <2> QED
    BY <1>4, <2>1, <2>2
<1>6. FnIsNew'
  <2>1. \A r \in Runs : memo'[r] \subseteq memo[r]
    BY <1>4 DEF TypeInv, TypeOK
  <2>2. pc'[t] = "fn" => step'[t] \notin memo'[run[t]]
    BY DEF StepIsMemoised, BeginStep, Goto, TypeInv, TypeOK
  <2> QED
    BY <1>1, <2>1, <2>2 DEF OnceInv, FnIsNew, TypeInv, TypeOK
<1> QED
  BY <1>3, <1>5, <1>6 DEF OnceInv

LEMMA OnceStepReturns ==
  ASSUME TypeInv, OnceInv, FnStep, NEW t \in Ticks, StepReturns(t)
  PROVE  OnceInv'
<1>1. /\ run[t] \in Runs /\ step[t] \in Steps /\ pc[t] = "fn" /\ Executes(t)
      /\ UNCHANGED <<run, overlapped>>
      /\ memo' = [memo EXCEPT ![run[t]] = @ \cup {step[t]}]
      /\ done' = [done EXCEPT ![run[t]][step[t]] = @ + 1]
      /\ \A u \in Ticks \ {t} : pc'[u] = pc[u] /\ step'[u] = step[u]
      /\ pc'[t] = "handler"
  BY TickRow DEF StepReturns, Goto, Executes, FnStep, TypeInv, TypeOK
<1>2. \A u \in Ticks : Executes(u)' => Executes(u)
  BY <1>1 DEF Executes
<1>3. Alone'
  BY <1>1, <1>2 DEF OnceInv, Alone
<1>4. FnIsNew'
  <2> SUFFICES ASSUME NEW u \in Ticks, pc'[u] = "fn", run[u] \notin overlapped
               PROVE  step'[u] \notin memo'[run[u]]
    BY <1>1 DEF FnIsNew
  <2>1. u # t /\ pc[u] = "fn" /\ Executes(u) /\ run[u] \in Runs
    BY <1>1, TickRow DEF Executes
  <2>2. run[u] # run[t]
    BY <1>1, <2>1 DEF OnceInv, Alone
  <2>3. memo'[run[u]] = memo[run[u]] /\ step'[u] = step[u]
    BY <1>1, <2>1, <2>2
  <2> QED
    BY <2>1, <2>3 DEF OnceInv, FnIsNew
<1>5. DoneIsMemoised'
  <2> SUFFICES ASSUME NEW r \in Runs \ overlapped, NEW s \in Steps
               PROVE  done'[r][s] = 0 \/ (done'[r][s] = 1 /\ s \in memo'[r])
    BY <1>1 DEF DoneIsMemoised
  <2>1. done[r][s] = 0 \/ (done[r][s] = 1 /\ s \in memo[r])
    BY DEF OnceInv, DoneIsMemoised
  <2>2. CASE r = run[t] /\ s = step[t]
    <3>1. done[r][s] = 0
      BY <1>1, <2>1, <2>2 DEF OnceInv, FnIsNew
    <3>2. done'[r][s] = 1
      BY <1>1, <2>2, <3>1 DEF TypeInv, TypeOK
    <3>3. s \in memo'[r]
      BY <1>1, <2>2 DEF TypeInv, TypeOK
    <3> QED
      BY <3>2, <3>3
  <2>3. CASE ~ (r = run[t] /\ s = step[t])
    <3>1. done'[r][s] = done[r][s]
      BY <1>1, <2>3 DEF TypeInv, TypeOK
    <3>2. memo[r] \subseteq memo'[r]
      BY <1>1 DEF TypeInv, TypeOK
    <3> QED
      BY <2>1, <3>1, <3>2
  <2> QED
    BY <2>2, <2>3
<1> QED
  BY <1>3, <1>4, <1>5 DEF OnceInv

LEMMA OnceReplay ==
  ASSUME TypeInv, OnceInv, NEW r \in Runs, Replay(r)
  PROVE  OnceInv'
<1>1. UNCHANGED <<pc, run, step, overlapped>> /\ \A q \in Runs : memo'[q] \subseteq memo[q]
  BY DEF Replay, Kept, tickVars, TypeInv, TypeOK
<1>2. Alone'
  BY <1>1 DEF OnceInv, Alone, Executes
<1>3. FnIsNew'
  BY <1>1 DEF OnceInv, FnIsNew, TypeInv, TypeOK
<1>4. DoneIsMemoised'
  <2>1. CASE r \in Scratch
    <3>1. done' = [done EXCEPT ![r] = [s \in Steps |-> 0]] /\ memo' = [memo EXCEPT ![r] = {}]
      BY <2>1 DEF Replay, Kept
    <3> QED
      BY <1>1, <3>1 DEF OnceInv, DoneIsMemoised, TypeInv, TypeOK
  <2>2. CASE r \notin Scratch
    <3>1. done' = done /\ memo' = memo
      BY <2>2 DEF Replay, Kept, TypeInv, TypeOK
    <3> QED
      BY <1>1, <3>1 DEF OnceInv, DoneIsMemoised
  <2> QED
    BY <2>1, <2>2
<1> QED
  BY <1>2, <1>3, <1>4 DEF OnceInv

LEMMA OnceClaim ==
  ASSUME TypeInv, OnceInv, NEW t \in Ticks, NEW r \in Runs, ClaimNext(t, r)
  PROVE  OnceInv'
<1>1. /\ \A u \in Ticks \ {t} : pc'[u] = pc[u] /\ run'[u] = run[u]
      /\ pc'[t] = "claimed" /\ UNCHANGED <<step, memo, done, overlapped>>
  BY DEF ClaimNext, history, TypeInv, TypeOK
<1>2. Alone'
  BY <1>1 DEF OnceInv, Alone, Executes
<1>3. FnIsNew' /\ DoneIsMemoised'
  BY <1>1 DEF OnceInv, FnIsNew, DoneIsMemoised
<1> QED
  BY <1>2, <1>3 DEF OnceInv

LEMMA NextOnce ==
  ASSUME TypeInv, FnStep, OnceInv, [Next]_vars
  PROVE  OnceInv'
<1>1. CASE UNCHANGED vars
  BY <1>1, OnceUnchanged DEF vars, tickVars
<1>2. ASSUME NEW r \in Runs, NEW from \in Runs \cup {NoRun}, Start(r, from) PROVE OnceInv'
  BY <1>2, OnceUnchanged DEF Start, StartFree, StartQueued, StartReplacing, AddRow
<1>3. ASSUME NEW r \in Runs, Cancel(r) PROVE OnceInv'
  BY <1>3, OnceUnchanged DEF Cancel, history
<1>4. ASSUME NEW t \in Ticks, Tick(t) PROVE OnceInv'
  <2>1. CASE StepReturns(t)
    BY <2>1, OnceStepReturns
  <2>2. CASE MarkCompleted(t) \/ CascadeOnFailure(t)
    BY <2>2, OnceTickEnds DEF MarkCompleted, CascadeOnFailure, history
  <2>3. CASE RescheduleForRetry(t) \/ (MarkFailed(t) /\ TickEnds(t))
    BY <2>3, OnceTickEnds DEF RescheduleForRetry, MarkFailed, Throws, history
  <2>4. CASE MarkFailed(t) /\ ~ TickEnds(t)
    BY <2>4, OnceHandler DEF MarkFailed
  <2> QED
    BY <1>4, <2>1, <2>2, <2>3, <2>4, OnceTickBegins, OnceHandler DEF Tick
<1> QED
  BY <1>1, <1>2, <1>3, <1>4, OnceReplay, OnceClaim DEF Next

\* A step of a run that is never executed by two ticks at once takes effect once,
\* through every retry, failure and replay that keeps it.
THEOREM StepsOnce == Spec => []StepsTakeEffectOnce
<1>1. Init => TypeInv /\ FnStep /\ OnceInv
  BY InitTypeInv DEF Init, FnStep, OnceInv, Alone, DoneIsMemoised, FnIsNew, Executes
<1>2. TypeInv /\ FnStep /\ OnceInv /\ [Next]_vars => (TypeInv /\ FnStep /\ OnceInv)'
  BY NextTypeInv, FnStepNext, NextOnce
<1>3. OnceInv => StepsTakeEffectOnce
  BY DEF OnceInv, DoneIsMemoised, StepsTakeEffectOnce
<1> QED
  BY <1>1, <1>2, <1>3, PTL DEF Spec

-----------------------------------------------------------------------------
(* The lane of a key *)

WaitsFor(a, b) == a \in parked /\ a \in blockers[b]

\* Two runs in flight under a key that no third and no replayed run came in under.
Rivals(a, b) == /\ a # b /\ Live(a) /\ Live(b)
                /\ Key[a] = Key[b] /\ Key[a] # NoKey /\ Key[a] \notin busy

\* There are never more than two, and one of them waits for the other: it is
\* parked until the other ends, since nobody else has it in its queue.
OnlyTwo   == \A a, b, c \in Runs : Rivals(a, b) /\ Rivals(a, c) => b = c
OneWaits  == \A a, b \in Runs : Rivals(a, b) => WaitsFor(a, b) \/ WaitsFor(b, a)
SameLane  == \A a \in Runs : \A b \in blockers[a] : Key[b] = Key[a]
NotParked == \A t \in Ticks : run[t] \notin parked

LaneInv == OnlyTwo /\ OneWaits /\ SameLane /\ NotParked

LEMMA InitLane == Init => LaneInv
BY DEF Init, LaneInv, OnlyTwo, OneWaits, SameLane, NotParked, Rivals, WaitsFor, Live,
       IN_FLIGHT_STATUSES

\* The end of other runs leaves two rivals as they are: a run whose end would
\* release the one that waits would be a third of their key.
LEMMA ReleaseKeepsRivals ==
  ASSUME TypeInv, LaneInv, NEW R \in SUBSET {r \in Runs : Live(r)}, Release(R),
         NEW a \in Runs \ R, NEW b \in Runs \ R, Rivals(a, b), WaitsFor(a, b)
  PROVE  WaitsFor(a, b)'
<1>1. ASSUME NEW c \in R, a \in blockers[c] PROVE FALSE
  <2>1. c \in Runs /\ Live(c) /\ Key[c] = Key[a] /\ c # a
    BY <1>1 DEF LaneInv, SameLane
  <2>2. Rivals(a, c)
    BY <2>1 DEF Rivals
  <2>3. c = b
    BY <2>1, <2>2 DEF LaneInv, OnlyTwo
  <2> QED
    BY <1>1, <2>3
<1>2. a \in parked'
  BY <1>1 DEF Release, WaitsFor
<1>3. blockers'[b] = blockers[b]
  BY DEF Release
<1> QED
  BY <1>2, <1>3 DEF WaitsFor

\* A step that ends the runs of R and starts none.
LEMMA ReleaseKeepsLane ==
  ASSUME TypeInv, LaneInv, NEW R \in SUBSET {r \in Runs : Live(r)}, Release(R),
         UNCHANGED busy,
         \A q \in Runs : Live(q)' => Live(q) /\ q \notin R,
         \A t \in Ticks : run'[t] = run[t] \/ run'[t] = NoRun
  PROVE  LaneInv'
<1>1. \A a, b \in Runs : Rivals(a, b)' => Rivals(a, b) /\ a \notin R /\ b \notin R
  BY DEF Rivals
<1>2. OnlyTwo'
  BY <1>1 DEF LaneInv, OnlyTwo
<1>3. OneWaits'
  <2> SUFFICES ASSUME NEW a \in Runs, NEW b \in Runs, Rivals(a, b)'
      PROVE  WaitsFor(a, b)' \/ WaitsFor(b, a)'
    BY DEF OneWaits
  <2>1. Rivals(a, b) /\ Rivals(b, a) /\ a \in Runs \ R /\ b \in Runs \ R
    BY <1>1 DEF Rivals
  <2>2. WaitsFor(a, b) \/ WaitsFor(b, a)
    BY <2>1 DEF LaneInv, OneWaits
  <2> QED
    BY <2>1, <2>2, ReleaseKeepsRivals
<1>4. SameLane'
  BY DEF LaneInv, SameLane, Release
<1>5. NotParked'
  <2>1. NoRun \notin parked /\ parked' \subseteq parked
    BY DEF TypeInv, TypeOK, Release, Runs, NoRun
  <2> QED
    BY <2>1 DEF LaneInv, NotParked
<1> QED
  BY <1>2, <1>3, <1>4, <1>5 DEF LaneInv

LEMMA CancelKeepsLane ==
  ASSUME TypeInv, LaneInv, NEW r \in Runs, status[r] # "absent", CancelLocked(r),
         UNCHANGED busy,
         \A t \in Ticks : run'[t] = run[t] \/ run'[t] = NoRun
  PROVE  LaneInv'
<1>1. Cancelled(r) \in SUBSET {d \in Runs : Live(d)}
  BY CancelledAreLive
<1>2. \A q \in Runs : Live(q)' => Live(q) /\ q \notin Cancelled(r)
  BY DEF CancelLocked, StatusAfterCancel, Live, IN_FLIGHT_STATUSES
<1> QED
  BY <1>1, <1>2, ReleaseKeepsLane DEF CancelLocked

\* Two runs in flight are counted as two.
LEMMA TwoAreCounted ==
  ASSUME NEW k, NEW a \in InFlight(k), NEW b \in InFlight(k), a # b
  PROVE  Cardinality(InFlight(k)) >= 2
<1>1. IsFiniteSet(Runs)
  BY FS_Interval, MemoryJobsAssumption DEF Runs
<1>2. IsFiniteSet(InFlight(k)) /\ Cardinality(InFlight(k)) \in Nat
  <2>1. InFlight(k) \in SUBSET Runs
    BY DEF InFlight
  <2> QED
    BY <1>1, <2>1, FS_Subset, FS_CardinalityType
<1>3. IsFiniteSet({a}) /\ Cardinality({a}) = 1
  BY FS_Singleton
<1>4. Cardinality({a} \cup {b}) = 2
  BY <1>3, FS_AddElement
<1>5. {a} \cup {b} \in SUBSET InFlight(k)
  OBVIOUS
<1>6. Cardinality({a} \cup {b}) <= Cardinality(InFlight(k))
  BY <1>2, <1>5, FS_Subset
<1> QED
  BY <1>2, <1>4, <1>6

\* What a new row has beside it, when its key stays out of `busy`.
LEMMA AddRowRivals ==
  ASSUME TypeInv, LaneInv, NEW r \in Runs, NEW from \in Runs \cup {NoRun},
         NEW R \in SUBSET {d \in Runs : Live(d)},
         MayStart(r, from), AddRow(r, from, StatusAfterCancel(R))
  PROVE  /\ status[r] = "absent" /\ r \notin R
         /\ \A a, b \in Runs \ {r} : Rivals(a, b)' => Rivals(a, b) /\ a \notin R /\ b \notin R
         /\ \A a \in Runs : Rivals(r, a)' =>
              /\ a \in InFlight(Key[r]) \ R /\ Key[r] # NoKey
              /\ \A c \in InFlight(Key[r]) : c = a
<1>1. status[r] = "absent"
  BY DEF MayStart, TypeInv, TypeOK, Runs
<1>2. r \notin R
  BY <1>1 DEF Live, IN_FLIGHT_STATUSES
<1>3. \A a \in Runs \ {r} : Live(a)' => Live(a) /\ a \notin R
  BY DEF AddRow, StatusAfterCancel, Live, IN_FLIGHT_STATUSES
<1>4. busy \subseteq busy'
  BY DEF AddRow
<1>5. \A a, b \in Runs \ {r} : Rivals(a, b)' => Rivals(a, b) /\ a \notin R /\ b \notin R
  BY <1>3, <1>4 DEF Rivals
<1>6. ASSUME NEW a \in Runs, Rivals(r, a)'
      PROVE  /\ a \in InFlight(Key[r]) \ R /\ Key[r] # NoKey
             /\ \A c \in InFlight(Key[r]) : c = a
  <2>1. a # r /\ Live(a)' /\ Key[a] = Key[r] /\ Key[r] # NoKey /\ Key[r] \notin busy'
    BY <1>6 DEF Rivals
  <2>2. a \in InFlight(Key[r]) \ R
    BY <1>3, <2>1 DEF InFlight
  <2>3. ~ (Cardinality(InFlight(Key[r])) >= 2)
    BY <2>1 DEF AddRow
  <2> QED
    BY <2>1, <2>2, <2>3, TwoAreCounted
<1> QED
  BY <1>1, <1>2, <1>5, <1>6

LEMMA StartKeepsLane ==
  ASSUME TypeInv, LaneInv, NEW r \in Runs, NEW from \in Runs \cup {NoRun}, Start(r, from)
  PROVE  LaneInv'
<1>0. /\ status = StatusAfterCancel({}) /\ {} \in SUBSET {d \in Runs : Live(d)}
      /\ blockers \in [Runs -> SUBSET Runs] /\ parked \in SUBSET Runs
  BY DEF TypeInv, TypeOK, StatusAfterCancel
<1>1. PICK R \in SUBSET {d \in Runs : Live(d)} :
        /\ MayStart(r, from) /\ AddRow(r, from, StatusAfterCancel(R))
        /\ \/ R = {} /\ (StartFree(r, from) \/ StartQueued(r, from))
           \/ StartReplacing(r, from) /\ Release(R) /\ R \cap InFlight(Key[r]) # {}
  <2>1. CASE StartFree(r, from) \/ StartQueued(r, from)
    BY <1>0, <2>1 DEF StartFree, StartQueued
  <2>2. CASE StartReplacing(r, from)
    <3>1. PICK i \in Incumbents(r) : /\ AddRow(r, from, StatusAfterCancel(Cancelled(i)))
                                     /\ Release(Cancelled(i))
      BY <2>2 DEF StartReplacing
    <3>2. i \in Runs /\ i \in InFlight(Key[r]) /\ Live(i) /\ status[i] # "absent"
      BY DEF Incumbents, InFlight, Live, IN_FLIGHT_STATUSES
    <3>3. i \in Cancelled(i)
      BY <3>2 DEF Cancelled, Cascade, Terminal, Live, IN_FLIGHT_STATUSES, TERMINAL_STATUSES
    <3>4. Cancelled(i) \in SUBSET {d \in Runs : Live(d)}
      BY <3>2, CancelledAreLive
    <3> QED
      BY <2>2, <3>1, <3>2, <3>3, <3>4 DEF StartReplacing
  <2> QED
    BY <2>1, <2>2 DEF Start
<1>2. /\ status[r] = "absent" /\ r \notin R
      /\ \A a, b \in Runs \ {r} : Rivals(a, b)' => Rivals(a, b) /\ a \notin R /\ b \notin R
  BY <1>1, AddRowRivals
<1>3. \A a \in Runs : Rivals(r, a)' =>
              /\ a \in InFlight(Key[r]) \ R /\ Key[r] # NoKey
              /\ \A c \in InFlight(Key[r]) : c = a
  BY <1>1, AddRowRivals
<1>4. \A a, b \in Runs : Rivals(a, b)' => Rivals(b, a)' /\ a # b
  BY DEF Rivals
<1>5. OnlyTwo'
  <2> SUFFICES ASSUME NEW a \in Runs, NEW b \in Runs, NEW c \in Runs,
                      Rivals(a, b)', Rivals(a, c)', b # c
      PROVE  FALSE
    BY DEF OnlyTwo
  <2>1. CASE a = r
    BY <1>3, <2>1
  <2>2. CASE a # r /\ (b = r \/ c = r)
    <3>1. PICK d \in {b, c} : d # r /\ Rivals(a, d)'
      BY <2>2
    <3>2. a \in InFlight(Key[r]) /\ \A q \in InFlight(Key[r]) : q = a
      BY <1>3, <1>4, <2>2
    <3>3. Rivals(a, d) /\ d \in Runs
      BY <1>2, <2>2, <3>1
    <3>4. d \in InFlight(Key[r]) /\ d # a
      BY <3>2, <3>3 DEF InFlight, Rivals
    <3> QED
      BY <3>2, <3>4
  <2>3. CASE a # r /\ b # r /\ c # r
    BY <1>2, <2>3 DEF LaneInv, OnlyTwo
  <2> QED
    BY <2>1, <2>2, <2>3
<1>6. NotParked'
  <2>1. \A t \in Ticks : run'[t] = run[t] /\ run[t] # r
    BY <1>1, <1>2, TickRow DEF AddRow, tickVars, TypeInv, RowExists, NoRun, Runs
  <2>2. parked' \subseteq parked \cup {r}
    BY <1>0, <1>1 DEF StartFree, StartQueued, Release
  <2> QED
    BY <2>1, <2>2 DEF LaneInv, NotParked
<1>7. CASE StartFree(r, from) /\ R = {}
  <2>1. ~ \E a \in Runs : Rivals(r, a)'
    <3>1. Key[r] = NoKey \/ InFlight(Key[r]) = {}
      BY <1>7 DEF StartFree, Collides
    <3> QED
      BY <1>3, <3>1
  <2>2. OneWaits'
    BY <1>2, <1>4, <1>7, <2>1 DEF LaneInv, OneWaits, StartFree, WaitsFor
  <2>3. SameLane'
    BY <1>7 DEF LaneInv, SameLane, StartFree
  <2> QED
    BY <1>5, <1>6, <2>2, <2>3 DEF LaneInv
<1>8. CASE StartQueued(r, from) /\ R = {}
  <2>1. PICK i \in Incumbents(r) : blockers' = [blockers EXCEPT ![i] = @ \cup {r}]
    BY <1>8 DEF StartQueued
  <2>2. i \in Runs /\ i \in InFlight(Key[r]) /\ Key[i] = Key[r] /\ parked' = parked \cup {r}
    BY <1>8 DEF StartQueued, Incumbents, InFlight
  <2>3. r \in blockers'[i] /\ \A a \in Runs : blockers[a] \subseteq blockers'[a]
    BY <1>0, <2>1, <2>2
  <2>4. OneWaits'
    <3> SUFFICES ASSUME NEW a \in Runs, NEW b \in Runs, Rivals(a, b)'
        PROVE  WaitsFor(a, b)' \/ WaitsFor(b, a)'
      BY DEF OneWaits
    <3>1. CASE a = r
      BY <1>3, <2>2, <2>3, <3>1 DEF WaitsFor
    <3>2. CASE b = r
      BY <1>3, <1>4, <2>2, <2>3, <3>2 DEF WaitsFor
    <3>3. CASE a # r /\ b # r
      <4>1. WaitsFor(a, b) \/ WaitsFor(b, a)
        BY <1>2, <3>3 DEF LaneInv, OneWaits
      <4> QED
        BY <2>2, <2>3, <4>1 DEF WaitsFor
    <3> QED
      BY <3>1, <3>2, <3>3
  <2>5. SameLane'
    BY <1>0, <2>1, <2>2 DEF LaneInv, SameLane
  <2> QED
    BY <1>5, <1>6, <2>4, <2>5 DEF LaneInv
<1>9. CASE Release(R) /\ R \cap InFlight(Key[r]) # {}
  <2>1. ~ \E a \in Runs : Rivals(r, a)'
    BY <1>3, <1>9
  <2>2. OneWaits'
    <3> SUFFICES ASSUME NEW a \in Runs, NEW b \in Runs, Rivals(a, b)'
        PROVE  WaitsFor(a, b)' \/ WaitsFor(b, a)'
      BY DEF OneWaits
    <3>1. a # r /\ b # r
      BY <1>4, <2>1
    <3>2. Rivals(a, b) /\ Rivals(b, a) /\ a \in Runs \ R /\ b \in Runs \ R
      BY <1>2, <3>1 DEF Rivals
    <3>3. WaitsFor(a, b) \/ WaitsFor(b, a)
      BY <3>2 DEF LaneInv, OneWaits
    <3> QED
      BY <1>9, <3>2, <3>3, ReleaseKeepsRivals
  <2>3. SameLane'
    BY <1>9 DEF LaneInv, SameLane, Release
  <2> QED
    BY <1>5, <1>6, <2>2, <2>3 DEF LaneInv
<1> QED
  BY <1>1, <1>7, <1>8, <1>9

LEMMA ReplayKeepsLane ==
  ASSUME TypeInv, LaneInv, NEW r \in Runs, Replay(r)
  PROVE  LaneInv'
<1>1. UNCHANGED <<parked, blockers, run>> /\ busy \subseteq busy'
  BY DEF Replay, tickVars
<1>2. \A a \in Runs \ {r} : Live(a)' <=> Live(a)
  BY DEF Replay, Live
<1>3. ASSUME NEW a \in Runs, Rivals(r, a)' PROVE FALSE
  <2>1. a \in InFlight(Key[r]) /\ Key[r] \notin busy'
    BY <1>2, <1>3 DEF Rivals, InFlight
  <2> QED
    BY <2>1 DEF Replay
<1>4. \A a, b \in Runs : Rivals(a, b)' => Rivals(a, b)
  <2>1. \A a, b \in Runs : Rivals(a, b)' => a # r /\ b # r
    BY <1>3 DEF Rivals
  <2> QED
    BY <1>1, <1>2, <2>1 DEF Rivals
<1>5. OnlyTwo' /\ OneWaits'
  BY <1>1, <1>4 DEF LaneInv, OnlyTwo, OneWaits, WaitsFor
<1> QED
  BY <1>1, <1>5 DEF LaneInv, SameLane, NotParked

LEMMA TickKeepsLane ==
  ASSUME TypeInv, LaneInv, NEW t \in Ticks, Tick(t)
  PROVE  LaneInv'
<1>1. /\ parked \in SUBSET Runs /\ blockers \in [Runs -> SUBSET Runs] /\ NoRun \notin parked
      /\ status \in [Runs -> {"absent"} \cup IN_FLIGHT_STATUSES \cup TERMINAL_STATUSES]
      /\ run \in [Ticks -> Runs \cup {NoRun}]
  BY DEF TypeInv, TypeOK, Runs, NoRun
<1>2. ASSUME TickEnds(t) \/ UNCHANGED run
      PROVE  \A u \in Ticks : run'[u] = run[u] \/ run'[u] = NoRun
  BY <1>1, <1>2 DEF TickEnds
<1>3. ASSUME UNCHANGED <<parked, blockers, busy>>, TickEnds(t) \/ UNCHANGED run,
             \A q \in Runs : Live(q)' => Live(q)
      PROVE  LaneInv'
  <2>1. \A a, b \in Runs : Rivals(a, b)' => Rivals(a, b)
    BY <1>3 DEF Rivals
  <2>2. NotParked'
    BY <1>1, <1>2, <1>3 DEF LaneInv, NotParked
  <2> QED
    BY <1>3, <2>1, <2>2 DEF LaneInv, OnlyTwo, OneWaits, SameLane, WaitsFor
<1>4. ASSUME NEW new \in TERMINAL_STATUSES, pc[t] # "idle", Settles(t),
             status' = [status EXCEPT ![run[t]] = new], Release({run[t]}),
             UNCHANGED busy, TickEnds(t) \/ UNCHANGED run
      PROVE  LaneInv'
  <2>1. run[t] \in Runs /\ Live(run[t])
    BY <1>1, <1>4, TickRow DEF Settles, Terminal, Live
  <2>2. \A q \in Runs : Live(q)' => Live(q) /\ q \notin {run[t]}
    BY <1>1, <1>4, <2>1 DEF Live, IN_FLIGHT_STATUSES, TERMINAL_STATUSES
  <2> QED
    BY <1>2, <1>4, <2>1, <2>2, ReleaseKeepsLane
<1>5. CASE TickBegins(t) \/ StepIsMemoised(t) \/ BeginStep(t) \/ StepReturns(t)
  BY <1>3, <1>5 DEF TickBegins, StepIsMemoised, BeginStep, StepReturns, Live, history
<1>6. CASE MarkCompleted(t)
  <2>1. TickEnds(t) /\ UNCHANGED busy /\ pc[t] # "idle"
    BY <1>6 DEF MarkCompleted, history
  <2>2. CASE Settles(t)
    BY <1>4, <1>6, <2>1, <2>2 DEF MarkCompleted, TERMINAL_STATUSES
  <2>3. CASE ~ Settles(t)
    BY <1>3, <1>6, <2>1, <2>3 DEF MarkCompleted, Live
  <2> QED
    BY <2>2, <2>3
<1>7. CASE MarkFailed(t)
  <2>1. (TickEnds(t) \/ UNCHANGED run) /\ UNCHANGED busy /\ pc[t] # "idle"
    BY <1>7 DEF MarkFailed, Throws, history
  <2>2. CASE Settles(t)
    BY <1>4, <1>7, <2>1, <2>2 DEF MarkFailed, TERMINAL_STATUSES
  <2>3. CASE ~ Settles(t)
    BY <1>3, <1>7, <2>1, <2>3 DEF MarkFailed, Live
  <2> QED
    BY <2>2, <2>3
\* A retry unparks the run it puts back, which was not parked.
<1>8. CASE RescheduleForRetry(t)
  <2>1. TickEnds(t) /\ UNCHANGED <<blockers, busy>> /\ pc[t] # "idle"
    BY <1>8 DEF RescheduleForRetry, Throws, history
  <2>2. UNCHANGED parked
    BY <1>8 DEF RescheduleForRetry, LaneInv, NotParked
  <2>3. \A q \in Runs : Live(q)' => Live(q)
    <3>1. run[t] \in Runs /\ status[run[t]] # "absent"
      BY <2>1, TickRow
    <3>2. CASE Settles(t)
      BY <1>1, <1>8, <3>1, <3>2 DEF RescheduleForRetry, Settles, Terminal, Live
    <3>3. CASE ~ Settles(t)
      BY <1>8, <3>3 DEF RescheduleForRetry, Live
    <3> QED
      BY <3>2, <3>3
  <2> QED
    BY <1>3, <2>1, <2>2, <2>3
<1>9. CASE CascadeOnFailure(t)
  <2>1. run[t] \in Runs /\ status[run[t]] # "absent"
    BY <1>9, TickRow DEF CascadeOnFailure
  <2> QED
    BY <1>2, <1>9, <2>1, CancelKeepsLane DEF CascadeOnFailure, history
<1> QED
  BY <1>5, <1>6, <1>7, <1>8, <1>9 DEF Tick

LEMMA NextLane ==
  ASSUME TypeInv, LaneInv, [Next]_vars
  PROVE  LaneInv'
<1>1. CASE UNCHANGED vars
  BY <1>1 DEF vars, LaneInv, OnlyTwo, OneWaits, SameLane, NotParked, Rivals, WaitsFor, Live
<1>2. ASSUME NEW r \in Runs, Cancel(r) PROVE LaneInv'
  <2>1. status[r] # "absent" /\ UNCHANGED <<run, busy>>
    BY <1>2 DEF Cancel, Live, IN_FLIGHT_STATUSES, tickVars, history
  <2> QED
    BY <1>2, <2>1, CancelKeepsLane DEF Cancel
<1>3. ASSUME NEW t \in Ticks, NEW r \in Runs, ClaimNext(t, r) PROVE LaneInv'
  <2>1. \A q \in Runs : Live(q)' <=> Live(q)
    BY <1>3 DEF ClaimNext, Live, IN_FLIGHT_STATUSES, TypeInv, TypeOK
  <2>2. UNCHANGED <<parked, blockers, busy>>
    BY <1>3 DEF ClaimNext, history
  <2>3. OnlyTwo' /\ OneWaits' /\ SameLane'
    BY <2>1, <2>2 DEF LaneInv, OnlyTwo, OneWaits, SameLane, Rivals, WaitsFor
  <2>4. NotParked'
    BY <1>3, <2>2 DEF LaneInv, NotParked, ClaimNext, TypeInv, TypeOK
  <2> QED
    BY <2>3, <2>4 DEF LaneInv
<1> QED
  BY <1>1, <1>2, <1>3, StartKeepsLane, ReplayKeepsLane, TickKeepsLane DEF Next

LEMMA LaneInvKeepsApart ==
  ASSUME TypeInv, LaneInv
  PROVE  LaneKeepsTwoApart
<1> SUFFICES ASSUME NEW k \in {Key[r] : r \in Runs} \ ({NoKey} \cup busy)
    PROVE  Cardinality(InFlight(k) \ parked) <= 1
  BY DEF LaneKeepsTwoApart
<1> DEFINE S == InFlight(k) \ parked
<1>1. ASSUME NEW a \in S, NEW b \in S, a # b PROVE FALSE
  <2>1. a \in Runs /\ b \in Runs /\ Rivals(a, b)
    BY <1>1 DEF InFlight, Rivals
  <2> QED
    BY <1>1, <2>1 DEF LaneInv, OneWaits, WaitsFor
<1>2. CASE S = {}
  BY <1>2, FS_EmptySet
<1>3. CASE S # {}
  <2>1. PICK a \in S : TRUE
    BY <1>3
  <2>2. S = {a}
    BY <1>1, <2>1
  <2>3. Cardinality({a}) = 1
    BY FS_Singleton
  <2> QED
    BY <2>2, <2>3
<1> QED
  BY <1>2, <1>3

\* Of two runs in flight under a key one is parked, whatever ends, fails, is
\* cancelled or replaced, as long as no third and no replayed one came in.
THEOREM LaneIsKept == Spec => []LaneKeepsTwoApart
<1>1. Init => TypeInv /\ FnStep /\ LaneInv
  BY InitTypeInv, InitLane DEF Init, FnStep
<1>2. TypeInv /\ FnStep /\ LaneInv /\ [Next]_vars => (TypeInv /\ FnStep /\ LaneInv)'
  BY NextTypeInv, FnStepNext, NextLane
<1>3. TypeInv /\ FnStep /\ LaneInv => LaneKeepsTwoApart
  BY LaneInvKeepsApart
<1> QED
  BY <1>1, <1>2, <1>3, PTL DEF Spec

=============================================================================
