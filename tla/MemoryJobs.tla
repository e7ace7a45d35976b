------------------------------ MODULE MemoryJobs ------------------------------
(***************************************************************************)
(* The memory backend of the jobs subsystem: MemoryJobOrchestrator with    *)
(* its step service (runtime/subsystems/jobs/*.memory-backend.ts).         *)
(*                                                                         *)
(* Calls run one after the other behind a promise mutex, so each is one    *)
(* step.  What interleaves with them is tick, which executes a claimed run *)
(* outside the mutex: its handler, the steps of the handler, and the write *)
(* that settles the run.  A run that collides in mode 'queue' is parked in *)
(* the distant future, and the incumbent it waits for is remembered.       *)
(***************************************************************************)
EXTENDS Naturals, FiniteSets

CONSTANTS
  MaxRuns,     \* bound on rows
  Ticks,       \* executions that can be under way at once
  Key,         \* the concurrency key of the r-th run, or NoKey
  NoKey,
  Mode,        \* the collisionMode of its job type
  Scratch,     \* the runs whose job type has replayFrom 'scratch'
  Policy,      \* parentClosePolicy of the r-th run
  StepCount,   \* steps that a handler takes, one after the other
  MaxAttempts, \* retry.attempts
  MaxReplays   \* bound on replays

Runs  == 1 .. MaxRuns   \* in the order of the inserts
NoRun == 0
Steps == 1 .. StepCount

ASSUME MemoryJobsAssumption ==
  /\ MaxRuns \in Nat /\ StepCount \in Nat /\ MaxReplays \in Nat
  /\ MaxAttempts \in Nat \ {0}
  /\ DOMAIN Key = Runs
  /\ Mode \in [Runs -> {"queue", "reject", "replace"}]
  /\ Scratch \subseteq Runs
  /\ Policy \in [Runs -> {"terminate", "cancel", "abandon"}]

VARIABLES
  created,    \* number of rows
  status,     \* "absent" before the insert
  root,       \* rootRunId
  attempts,
  parked,     \* pending rows whose runAt is QUEUED_RUN_AT
  blockers,   \* queueBlockers: the runs that wait for a run
  memo,       \* the steps of a run whose row is 'completed'; findStep sees no other
  pc,         \* where each tick is
  run,        \* the run it executes
  seen,       \* attemptsBefore: the attempts of the row when it read it
  step,       \* the step of the handler
  replays,
  done,       \* history: how often a step took effect since it was last cleared
  overlapped, \* history: runs that two ticks have executed at once
  busy        \* history: keys under which a third run, or a replayed one, came in

rowVars  == <<created, root>>
tickVars == <<pc, run, seen, step>>
history  == <<done, overlapped, busy>>
vars == <<created, status, root, attempts, parked, blockers, memo,
          pc, run, seen, step, replays, done, overlapped, busy>>

TERMINAL_STATUSES == {"completed", "failed", "canceled"}
IN_FLIGHT_STATUSES == {"pending", "running"}

TypeOK ==
  /\ created \in 0 .. MaxRuns
  /\ status \in [Runs -> {"absent"} \cup IN_FLIGHT_STATUSES \cup TERMINAL_STATUSES]
  /\ root \in [Runs -> Runs \cup {NoRun}]
  /\ attempts \in [Runs -> 0 .. MaxAttempts]
  /\ parked \in SUBSET Runs
  /\ blockers \in [Runs -> SUBSET Runs]
  /\ memo \in [Runs -> SUBSET Steps]
  /\ pc \in [Ticks -> {"idle", "claimed", "handler", "fn", "cascade"}]
  /\ run \in [Ticks -> Runs \cup {NoRun}]
  /\ seen \in [Ticks -> 0 .. MaxAttempts]
  /\ step \in [Ticks -> 1 .. StepCount + 1]
  /\ replays \in 0 .. MaxReplays
  /\ done \in [Runs -> [Steps -> Nat]]
  /\ overlapped \in SUBSET Runs
  /\ busy \in SUBSET {Key[r] : r \in Runs}
  /\ \A r \in Runs : status[r] = "absent" <=> r > created
  /\ \A t \in Ticks : pc[t] = "idle" <=> run[t] = NoRun

Live(r)     == status[r] \in IN_FLIGHT_STATUSES
Terminal(r) == status[r] \in TERMINAL_STATUSES

\* Runs in flight under a concurrency key, of whatever job type.
InFlight(k) == {r \in Runs : Live(r) /\ Key[r] = k}

-----------------------------------------------------------------------------
(* Terminal transitions and the runs that wait *)

\* Mutant: the runs that wait for the runs that end are forgotten.
ReleaseNone(R) == parked' = parked \ R /\ blockers' = blockers

\* unblockQueuedDependents for every run of R, which become terminal.
Release(R) ==
  /\ parked' = parked \ (R \cup UNION {blockers[r] : r \in R})
  /\ blockers' = [r \in Runs |-> IF r \in R THEN {} ELSE blockers[r]]

\* What cancel of r takes with it: "descendants" are all live rows of the root.
Cascade(r) == {r} \cup {d \in Runs : root[d] = root[r] /\ Live(d) /\ Policy[d] # "abandon"}

Cancelled(r) == IF Terminal(r) THEN {} ELSE Cascade(r)

StatusAfterCancel(R) == [r \in Runs |-> IF r \in R THEN "canceled" ELSE status[r]]

-----------------------------------------------------------------------------
(* Calls behind the mutex *)

\* Mutant: only a running incumbent counts.
CollidesRunning(r) == \E i \in InFlight(Key[r]) : status[i] = "running"

Collides(r) == Key[r] # NoKey /\ InFlight(Key[r]) # {}

\* The first row of the map that is in flight under the key.
Incumbents(r) == {i \in InFlight(Key[r]) : \A q \in InFlight(Key[r]) : i <= q}

\* start, from a client or as ctx.spawnChild of a handler.  A start that is
\* rejected, or answered with a run of its dedupe window, changes nothing.
MayStart(r, from) ==
  /\ r = created + 1
  /\ from = NoRun \/ \E t \in Ticks : run[t] = from /\ pc[t] \in {"handler", "fn"}

\* store.runs.set of the new row.
AddRow(r, from, others) ==
  /\ created' = r
  /\ status' = [others EXCEPT ![r] = "pending"]
  /\ root' = [root EXCEPT ![r] = IF from = NoRun THEN r ELSE root[from]]
  /\ busy' = IF Key[r] # NoKey /\ Cardinality(InFlight(Key[r])) >= 2
             THEN busy \cup {Key[r]} ELSE busy
  /\ UNCHANGED <<attempts, memo, tickVars, replays, done, overlapped>>

StartFree(r, from) ==
  /\ MayStart(r, from) /\ ~ Collides(r)
  /\ AddRow(r, from, status)
  /\ UNCHANGED <<parked, blockers>>

StartQueued(r, from) ==
  /\ MayStart(r, from) /\ Collides(r) /\ Mode[r] = "queue"
  /\ AddRow(r, from, status)
  /\ parked' = parked \cup {r}
  /\ \E i \in Incumbents(r) : blockers' = [blockers EXCEPT ![i] = @ \cup {r}]

StartReplacing(r, from) ==
  /\ MayStart(r, from) /\ Collides(r) /\ Mode[r] = "replace"
  /\ \E i \in Incumbents(r) :
       /\ AddRow(r, from, StatusAfterCancel(Cancelled(i)))
       /\ Release(Cancelled(i))

Start(r, from) == StartFree(r, from) \/ StartQueued(r, from) \/ StartReplacing(r, from)

\* cancelLocked.
CancelLocked(r) ==
  /\ status' = StatusAfterCancel(Cancelled(r))
  /\ Release(Cancelled(r))

Cancel(r) ==
  /\ Live(r)
  /\ CancelLocked(r)
  /\ UNCHANGED <<rowVars, attempts, memo, tickVars, replays, history>>

\* Mutant: every replay wipes the steps that had completed.
KeptNone(r) == {}

\* The steps left by clearStepsForRun, or by clearIncompleteSteps.
Kept(r) == IF r \in Scratch THEN {} ELSE memo[r]

Replay(r) ==
  /\ Terminal(r) /\ replays < MaxReplays
  /\ replays' = replays + 1
  /\ memo' = [memo EXCEPT ![r] = Kept(r)]
  /\ done' = IF r \in Scratch THEN [done EXCEPT ![r] = [s \in Steps |-> 0]] ELSE done
  /\ status' = [status EXCEPT ![r] = "pending"]
  /\ attempts' = [attempts EXCEPT ![r] = 0]
  /\ busy' = IF InFlight(Key[r]) # {} THEN busy \cup {Key[r]} ELSE busy
  /\ UNCHANGED <<rowVars, parked, blockers, tickVars, overlapped>>

\* claimNext; delays pass, and priorities are left out.
ClaimNext(t, r) ==
  /\ pc[t] = "idle"
  /\ status[r] = "pending" /\ r \notin parked
  /\ status' = [status EXCEPT ![r] = "running"]
  /\ pc' = [pc EXCEPT ![t] = "claimed"]
  /\ run' = [run EXCEPT ![t] = r]
  /\ UNCHANGED <<rowVars, attempts, parked, blockers, memo, seen, step, replays, history>>

-----------------------------------------------------------------------------
(* tick, outside the mutex *)

TickEnds(t) ==
  /\ pc' = [pc EXCEPT ![t] = "idle"]
  /\ run' = [run EXCEPT ![t] = NoRun]
  /\ seen' = [seen EXCEPT ![t] = 0]
  /\ step' = [step EXCEPT ![t] = 1]

Goto(t, at) == pc' = [pc EXCEPT ![t] = at]

\* The row is read; tick throws if it is not running any more.
TickBegins(t) ==
  /\ pc[t] = "claimed"
  /\ IF status[run[t]] = "running"
     THEN /\ Goto(t, "handler")
          /\ seen' = [seen EXCEPT ![t] = attempts[run[t]]]
          /\ overlapped' = overlapped \cup
               {r \in {run[t]} : \E u \in Ticks \ {t} : run[u] = r /\ pc[u] # "claimed"}
          /\ UNCHANGED <<run, step>>
     ELSE TickEnds(t) /\ UNCHANGED overlapped
  /\ UNCHANGED <<rowVars, status, attempts, parked, blockers, memo, replays, done, busy>>

\* ctx.step: a completed step is answered from its row; for any other, recordStep
\* 'running' and then fn.
StepIsMemoised(t) ==
  /\ pc[t] = "handler" /\ step[t] \in memo[run[t]]
  /\ step' = [step EXCEPT ![t] = @ + 1]
  /\ UNCHANGED <<rowVars, status, attempts, parked, blockers, memo, pc, run, seen,
                 replays, history>>

BeginStep(t) ==
  /\ pc[t] = "handler" /\ step[t] <= StepCount /\ step[t] \notin memo[run[t]]
  /\ Goto(t, "fn")
  /\ UNCHANGED <<rowVars, status, attempts, parked, blockers, memo, run, seen, step,
                 replays, history>>

\* fn returns, and the step is recorded as completed.
StepReturns(t) ==
  /\ pc[t] = "fn"
  /\ memo' = [memo EXCEPT ![run[t]] = @ \cup {step[t]}]
  /\ done' = [done EXCEPT ![run[t]][step[t]] = @ + 1]
  /\ step' = [step EXCEPT ![t] = @ + 1]
  /\ Goto(t, "handler")
  /\ UNCHANGED <<rowVars, status, attempts, parked, blockers, run, seen, replays,
                 overlapped, busy>>

\* Mutant: markCompleted does not look at the row.
SettlesBlindly(t) == TRUE

\* The settling writes leave a terminal row alone.
Settles(t) == ~ Terminal(run[t])

\* The handler returns: markCompleted.
MarkCompleted(t) ==
  /\ pc[t] = "handler" /\ step[t] > StepCount
  /\ IF Settles(t)
     THEN /\ status' = [status EXCEPT ![run[t]] = "completed"]
          /\ attempts' = [attempts EXCEPT ![run[t]] = seen[t] + 1]
          /\ Release({run[t]})
     ELSE UNCHANGED <<status, attempts, parked, blockers>>
  /\ TickEnds(t)
  /\ UNCHANGED <<rowVars, memo, replays, history>>

\* The handler throws: between its steps, or from fn, and then the row of the step
\* is overwritten with 'failed', which another tick may have completed.
Throws(t) ==
  \/ pc[t] = "handler" /\ UNCHANGED memo
  \/ pc[t] = "fn" /\ memo' = [memo EXCEPT ![run[t]] = @ \ {step[t]}]

\* classifyError: an attempt is left.  (Errors that are never retried: MaxAttempts = 1.)
Retries(t) == seen[t] + 1 < MaxAttempts

\* rescheduleForRetry.
RescheduleForRetry(t) ==
  /\ Throws(t) /\ Retries(t)
  /\ IF Settles(t)
     THEN /\ status' = [status EXCEPT ![run[t]] = "pending"]
          /\ attempts' = [attempts EXCEPT ![run[t]] = seen[t] + 1]
          /\ parked' = parked \ {run[t]}
     ELSE UNCHANGED <<status, attempts, parked>>
  /\ TickEnds(t)
  /\ UNCHANGED <<rowVars, blockers, replays, history>>

\* markFailed; for policy 'terminate' a cancel of the same run follows.
MarkFailed(t) ==
  /\ Throws(t) /\ ~ Retries(t)
  /\ IF Settles(t)
     THEN /\ status' = [status EXCEPT ![run[t]] = "failed"]
          /\ attempts' = [attempts EXCEPT ![run[t]] = seen[t] + 1]
          /\ Release({run[t]})
     ELSE UNCHANGED <<status, attempts, parked, blockers>>
  /\ IF Policy[run[t]] = "terminate"
     THEN Goto(t, "cascade") /\ UNCHANGED <<run, seen, step>>
     ELSE TickEnds(t)
  /\ UNCHANGED <<rowVars, replays, history>>

\* It finds the run terminal, unless a replay came between.
CascadeOnFailure(t) ==
  /\ pc[t] = "cascade"
  /\ CancelLocked(run[t])
  /\ TickEnds(t)
  /\ UNCHANGED <<rowVars, attempts, memo, replays, history>>

-----------------------------------------------------------------------------
Init ==
  /\ created = 0
  /\ status = [r \in Runs |-> "absent"]
  /\ root = [r \in Runs |-> NoRun]
  /\ attempts = [r \in Runs |-> 0]
  /\ parked = {}
  /\ blockers = [r \in Runs |-> {}]
  /\ memo = [r \in Runs |-> {}]
  /\ pc = [t \in Ticks |-> "idle"]
  /\ run = [t \in Ticks |-> NoRun]
  /\ seen = [t \in Ticks |-> 0]
  /\ step = [t \in Ticks |-> 1]
  /\ replays = 0
  /\ done = [r \in Runs |-> [s \in Steps |-> 0]]
  /\ overlapped = {}
  /\ busy = {}

Tick(t) ==
  \/ TickBegins(t) \/ StepIsMemoised(t) \/ BeginStep(t) \/ StepReturns(t)
  \/ MarkCompleted(t) \/ RescheduleForRetry(t) \/ MarkFailed(t)
  \/ CascadeOnFailure(t)

Next ==
  \/ \E r \in Runs : \E from \in Runs \cup {NoRun} : Start(r, from)
  \/ \E r \in Runs : Cancel(r) \/ Replay(r)
  \/ \E t \in Ticks : Tick(t) \/ \E r \in Runs : ClaimNext(t, r)

Spec == Init /\ [][Next]_vars

-----------------------------------------------------------------------------
(* Properties *)

\* A parked run waits for a run in flight that knows of it: no start, cancel,
\* replay, failure or late tick leaves a run in the distant future for good.
ParkedIsAwaited == \A r \in parked :
  status[r] = "pending" /\ \E i \in Runs : Live(i) /\ r \in blockers[i]

\* mode 'queue' keeps the runs of a key apart, as long as at most one waits
\* and none is replayed beside another: of two in flight, one is parked.
LaneKeepsTwoApart ==
  \A k \in {Key[r] : r \in Runs} \ ({NoKey} \cup busy) :
    Cardinality(InFlight(k) \ parked) <= 1

\* A step of a handler takes effect once, through retries, failures and replays
\* that keep it, unless two ticks were executing the run at once.
StepsTakeEffectOnce ==
  \A r \in Runs \ overlapped : \A s \in Steps : done[r][s] <= 1

\* Only a replay takes a run out of a terminal status: a tick that outlives the
\* cancel of its run does not.
OnlyReplayRevives ==
  [][\A r \in Runs : Terminal(r) /\ status'[r] # status[r] => Replay(r)]_vars

=============================================================================
