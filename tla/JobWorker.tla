------------------------------ MODULE JobWorker ------------------------------
(***************************************************************************)
(* The Postgres job worker: runtime/subsystems/jobs/job-worker.ts on the   *)
(* job_run table, with the orchestrator calls that write the same rows     *)
(* (start, cancel, replay of job-orchestrator.drizzle-backend.ts).         *)
(*                                                                         *)
(* A row of job_run is one run.  A worker process polls the table, claims  *)
(* a row in one transaction and then works on it in an EXECUTION: the      *)
(* async call of pollAndProcess, claimNext and processRun.  Every await    *)
(* of that call is a point where the other executions, the sweeper, the    *)
(* heartbeat, a shutdown and the clients of the orchestrator interleave,   *)
(* so an execution has a program counter and one action per await.         *)
(* Every database statement or transaction is atomic.                      *)
(***************************************************************************)
EXTENDS Naturals, FiniteSets

CONSTANTS
  Runs,         \* rows of job_run
  Workers,      \* worker processes
  Execs,        \* executions a worker can have open, each in one process
  Host,         \* the worker an execution belongs to
  WorkerPool,   \* the pool a worker polls
  RunPool,      \* the pool of a run
  Key,          \* the concurrency key of a run, or NoKey
  NoKey,
  NoRun,
  Nobody,       \* the holder of a run no execution holds
  Unregistered, \* runs whose job type has no handler in the registry
  Terminate,    \* runs with parentClosePolicy = 'terminate'
  MaxAttempts,  \* retry.attempts of the handlers
  Concurrency,  \* JobWorkerOptions.concurrency
  Allowed,      \* the faults and client calls that may happen
  MaxFaults     \* how many of them, of any kind, in one behaviour (a bound)

Faults == {"stall", "crash", "cancel", "replay", "dbError", "shutdown", "timeout"}

ASSUME ConstantsAssumption ==
  /\ Host \in [Execs -> Workers]
  /\ NoRun \notin Runs
  /\ Nobody \notin Execs
  /\ Unregistered \subseteq Runs
  /\ Terminate \subseteq Runs
  /\ DOMAIN Key = Runs
  /\ MaxAttempts \in Nat \ {0}
  /\ Concurrency \in Nat \ {0}
  /\ Allowed \subseteq Faults
  /\ MaxFaults \in Nat

VARIABLES
  status,     \* job_run.status, "absent" before the row is inserted
  attempts,   \* job_run.attempts
  due,        \* job_run.run_at <= now()
  stale,      \* running rows whose claimed_at is older than staleThresholdMs
  pc,         \* where each execution is suspended
  job,        \* the run it claimed
  before,     \* `attemptsBefore`, read from the claimed row
  beats,      \* inFlightRunIds of each worker
  worker,     \* life cycle of each worker process
  snapshot,   \* the promises a shutdown waits for (drainInFlight)
  replaying,  \* replay calls that have passed their terminal-status check
  revoked,    \* history: executions whose row somebody else has written since
  overlapped, \* history: workers that polled while another poll was under way
  spent,      \* faults and client calls so far
  disturbed   \* history: a beat was missed, a run replayed or a worker shut down

rowVars  == <<status, attempts, due, stale>>
execVars == <<pc, job, before>>
procVars == <<beats, worker, snapshot, overlapped>>
tally    == <<spent, disturbed>>
vars == <<status, attempts, due, stale, pc, job, before, beats, worker, snapshot,
          overlapped, replaying, revoked, spent, disturbed>>

Terminal == {"completed", "failed", "canceled"}
Statuses == {"absent", "pending", "running"} \cup Terminal

\* The awaits of pollAndProcess / processRun.  "claimed": the claim has
\* committed and its caller has not resumed; "cascade": markFailed awaits cancel.
Settling == {"complete", "retry", "fail"}
Working  == {"claimed", "gate", "defer", "handler"} \cup Settling
Steps    == {"idle", "polling", "cascade"} \cup Working

TypeOK ==
  /\ status \in [Runs -> Statuses]
  /\ attempts \in [Runs -> Nat]
  /\ due \in [Runs -> BOOLEAN]
  /\ stale \in SUBSET Runs
  /\ pc \in [Execs -> Steps]
  /\ job \in [Execs -> Runs \cup {NoRun}]
  /\ before \in [Execs -> Nat]
  /\ beats \in [Workers -> SUBSET Runs]
  /\ worker \in [Workers -> {"up", "draining", "released", "down"}]
  /\ snapshot \in [Workers -> SUBSET Execs]
  /\ replaying \in [Runs -> Nat]
  /\ revoked \in SUBSET Execs
  /\ overlapped \in SUBSET Workers
  /\ spent \in Nat
  /\ disturbed \in BOOLEAN
  /\ \A x \in Execs : pc[x] \notin {"idle", "polling"} => job[x] \in Runs

-----------------------------------------------------------------------------
(* Helpers *)

ExecsOf(w)   == {x \in Execs : Host[x] = w}
\* pollAndProcess is past its check of the ceiling and has registered nothing yet.
Claiming(x)  == pc[x] \in {"polling", "claimed"}
\* this.inFlight: the promises of processRun that have not settled.
InFlight(w)  == {x \in ExecsOf(w) : pc[x] # "idle" /\ ~Claiming(x)}
WorkingOn(S) == {x \in Execs : pc[x] \in Working /\ job[x] \in S}
\* Mutant: a running row can be claimed again.
ClaimableAny(w) ==
  {r \in Runs : status[r] \in {"pending", "running"} /\ due[r] /\ RunPool[r] = WorkerPool[w]}

Claimable(w) == {r \in Runs : status[r] = "pending" /\ due[r] /\ RunPool[r] = WorkerPool[w]}

\* A fault or client call, which the bound MaxFaults limits.
Spend(f) ==
  /\ f \in Allowed
  /\ spent < MaxFaults
  /\ spent' = spent + 1
  /\ disturbed' = (disturbed \/ f \in {"stall", "replay", "shutdown"})

Goto(x, step) == pc' = [pc EXCEPT ![x] = step]

\* processRun settles: the promise leaves inFlight and its id inFlightRunIds.
Finish(x) ==
  /\ Goto(x, "idle")
  /\ job' = [job EXCEPT ![x] = NoRun]
  /\ before' = [before EXCEPT ![x] = 0]
  /\ beats' = [beats EXCEPT ![Host[x]] = @ \ {job[x]}]
  /\ snapshot' = [snapshot EXCEPT ![Host[x]] = @ \ {x}]
  /\ UNCHANGED <<worker, overlapped>>

\* Rows get a new status other than 'running'.  claimed_at is read of running
\* rows only, so `stale` forgets the others.
Move(S, new) ==
  /\ status' = [r \in Runs |-> IF r \in S THEN new ELSE status[r]]
  /\ stale' = stale \ S

\* The rows go back to the queue: status 'pending', claimed_at null.
Requeue(S) == Move(S, "pending")

\* A write of a settling execution is keyed on the id alone, so it also takes
\* the row from whoever is working on it now.
Oust(x) == revoked' = (revoked \cup WorkingOn({job[x]})) \ {x}

-----------------------------------------------------------------------------
(* The poll loop and the claim *)

\* The history of a poll: another one of the worker has not yet registered its run.
NoteOverlap(x) ==
  overlapped' = IF \E y \in ExecsOf(Host[x]) \ {x} : Claiming(y)
                THEN overlapped \cup {Host[x]} ELSE overlapped

\* Mutant: the ceiling is not tested.
PollUnlimited(x) ==
  /\ pc[x] = "idle"
  /\ worker[Host[x]] = "up"
  /\ Goto(x, "polling")
  /\ NoteOverlap(x)
  /\ UNCHANGED <<rowVars, job, before, beats, worker, snapshot, replaying, revoked, tally>>

\* pollAndProcess checks the shutdown flag and the ceiling before it awaits the
\* claim.  Interval ticks and wake-driven drains call it, so calls overlap.
Poll(x) ==
  /\ pc[x] = "idle"
  /\ worker[Host[x]] = "up"
  /\ Cardinality(InFlight(Host[x])) < Concurrency
  /\ Goto(x, "polling")
  /\ NoteOverlap(x)
  /\ UNCHANGED <<rowVars, job, before, beats, worker, snapshot, replaying, revoked, tally>>

\* Mutant: the candidate is selected but its row is not marked.
ClaimNextSelectOnly(x) ==
  \E r \in Claimable(Host[x]) :
    /\ pc[x] = "polling"
    /\ Goto(x, "claimed")
    /\ job' = [job EXCEPT ![x] = r]
    /\ before' = [before EXCEPT ![x] = attempts[r]]
    /\ UNCHANGED <<rowVars, procVars, replaying, revoked, tally>>

\* FOR UPDATE SKIP LOCKED passes over rows other transactions hold, so the row
\* returned is any due row of the pool, not always the first in claim order.
ClaimNext(x) ==
  \E r \in Claimable(Host[x]) :
    /\ pc[x] = "polling"
    /\ status' = [status EXCEPT ![r] = "running"]
    /\ Goto(x, "claimed")
    /\ job' = [job EXCEPT ![x] = r]
    /\ before' = [before EXCEPT ![x] = attempts[r]]
    /\ UNCHANGED <<attempts, due, stale, procVars, replaying, revoked, tally>>

ClaimNothing(x) ==
  /\ pc[x] = "polling"
  /\ Claimable(Host[x]) = {}
  /\ Goto(x, "idle")
  /\ UNCHANGED <<rowVars, job, before, procVars, replaying, revoked, tally>>

\* claimNext throws: it is logged, and the next tick tries again.
ClaimFails(x) ==
  /\ pc[x] = "polling"
  /\ Spend("dbError")
  /\ Goto(x, "idle")
  /\ UNCHANGED <<rowVars, job, before, procVars, replaying, revoked>>

\* Mutant: the lane check is skipped.
DispatchUngated(x) ==
  /\ pc[x] = "claimed"
  /\ beats' = [beats EXCEPT ![Host[x]] = @ \cup {job[x]}]
  /\ Goto(x, IF job[x] \in Unregistered THEN "fail" ELSE "handler")
  /\ UNCHANGED <<rowVars, job, before, worker, snapshot, overlapped, replaying, revoked, tally>>

\* pollAndProcess resumes: the run is registered and processRun starts.  It
\* fails a run without a handler and checks the lane of a run with a key.
Dispatch(x) ==
  /\ pc[x] = "claimed"
  /\ beats' = [beats EXCEPT ![Host[x]] = @ \cup {job[x]}]
  /\ Goto(x, IF job[x] \in Unregistered THEN "fail"
              ELSE IF Key[job[x]] # NoKey THEN "gate" ELSE "handler")
  /\ UNCHANGED <<rowVars, job, before, worker, snapshot, overlapped, replaying, revoked, tally>>

-----------------------------------------------------------------------------
(* processRun *)

\* Mutant: a retried run does not check its lane again.
GateSkipsRetries(x) ==
  /\ pc[x] = "gate"
  /\ LET others == {r \in Runs \ {job[x]} : Key[r] = Key[job[x]] /\ status[r] = "running"}
     IN Goto(x, IF others # {} /\ before[x] = 0 THEN "defer" ELSE "handler")
  /\ UNCHANGED <<rowVars, job, before, procVars, replaying, revoked, tally>>

\* Another run with the same key is running: put this one back, else go on.
Gate(x) ==
  /\ pc[x] = "gate"
  /\ LET others == {r \in Runs \ {job[x]} : Key[r] = Key[job[x]] /\ status[r] = "running"}
     IN Goto(x, IF others # {} THEN "defer" ELSE "handler")
  /\ UNCHANGED <<rowVars, job, before, procVars, replaying, revoked, tally>>

Defer(x) ==
  /\ pc[x] = "defer"
  /\ Requeue({job[x]})
  /\ Oust(x)
  /\ Finish(x)
  /\ UNCHANGED <<attempts, due, replaying, tally>>

\* classifyError: a non-retryable error and the last attempt are final.
OnError(x, retryable) ==
  Goto(x, IF retryable /\ before[x] + 1 < MaxAttempts THEN "retry" ELSE "fail")

HandlerReturns(x) ==
  /\ pc[x] = "handler"
  /\ Goto(x, "complete")
  /\ UNCHANGED <<rowVars, job, before, procVars, replaying, revoked, tally>>

HandlerThrows(x) ==
  /\ pc[x] = "handler"
  /\ \E retryable \in BOOLEAN : OnError(x, retryable)
  /\ UNCHANGED <<rowVars, job, before, procVars, replaying, revoked, tally>>

Complete(x) ==
  /\ pc[x] = "complete"
  /\ Move({job[x]}, "completed")
  /\ attempts' = [attempts EXCEPT ![job[x]] = before[x] + 1]
  /\ Oust(x)
  /\ Finish(x)
  /\ UNCHANGED <<due, replaying, tally>>

\* The completing UPDATE is inside the handler's try: when it fails, the error
\* is classified as if the handler had thrown it.
CompleteFails(x) ==
  /\ pc[x] = "complete"
  /\ Spend("dbError")
  /\ OnError(x, TRUE)
  /\ UNCHANGED <<rowVars, job, before, procVars, replaying, revoked>>

Retry(x) ==
  /\ pc[x] = "retry"
  /\ Requeue({job[x]})
  /\ attempts' = [attempts EXCEPT ![job[x]] = before[x] + 1]
  /\ due' = [due EXCEPT ![job[x]] = FALSE]
  /\ Oust(x)
  /\ Finish(x)
  /\ UNCHANGED <<replaying, tally>>

\* markFailed; the cascade that follows is a call of cancel on the same run.
Fail(x) ==
  /\ pc[x] = "fail"
  /\ Move({job[x]}, "failed")
  /\ attempts' = [attempts EXCEPT ![job[x]] = before[x] + 1]
  /\ Oust(x)
  /\ \/ /\ job[x] \notin Terminate
        /\ Finish(x)
     \/ /\ job[x] \in Terminate
        /\ Goto(x, "cascade")
        /\ UNCHANGED <<job, before, procVars>>
  /\ UNCHANGED <<due, replaying, tally>>

Cascade(x) ==
  /\ pc[x] = "cascade"
  /\ \/ /\ status[job[x]] \notin Terminal
        /\ Move({job[x]}, "canceled")
        /\ Oust(x)
     \/ /\ status[job[x]] \in Terminal
        /\ UNCHANGED <<status, stale, revoked>>
  /\ Finish(x)
  /\ UNCHANGED <<attempts, due, replaying, tally>>

\* Mutant: the id is removed on a normal return only, not in a finally.
AbandonKeepsBeat(x) ==
  /\ pc[x] \in {"gate", "defer", "handler", "retry", "fail"}
  /\ Spend("dbError")
  /\ revoked' = revoked \ {x}
  /\ pc' = [pc EXCEPT ![x] = "idle"]
  /\ job' = [job EXCEPT ![x] = NoRun]
  /\ before' = [before EXCEPT ![x] = 0]
  /\ snapshot' = [snapshot EXCEPT ![Host[x]] = @ \ {x}]
  /\ UNCHANGED <<rowVars, beats, worker, overlapped, replaying>>

\* A statement of processRun outside its try fails (the lane query, the
\* deferral, the retry or failure write, or the lookup of the handler): the
\* promise rejects, pollAndProcess logs it, and the row keeps its status.
Abandon(x) ==
  /\ pc[x] \in {"gate", "defer", "handler", "retry", "fail"}
  /\ Spend("dbError")
  /\ revoked' = revoked \ {x}
  /\ Finish(x)
  /\ UNCHANGED <<rowVars, replaying>>

-----------------------------------------------------------------------------
(* Timers: heartbeat, sweeper, and the passage of time *)

Renew(w) ==
  /\ worker[w] = "up"
  /\ beats[w] \cap stale # {}
  /\ stale' = stale \ beats[w]
  /\ UNCHANGED <<status, attempts, due, execVars, procVars, replaying, revoked, tally>>

\* Mutants: the age of the claim is not tested; only rows this worker holds are.
SweepAllRunning(w) ==
  /\ worker[w] = "up"
  /\ \E S \in (SUBSET {r \in Runs : status[r] = "running"}) \ {{}} :
       /\ Requeue(S)
       /\ revoked' = revoked \cup WorkingOn(S)
  /\ UNCHANGED <<attempts, due, execVars, procVars, replaying, tally>>

SweepOwnRows(w) ==
  /\ worker[w] = "up"
  /\ stale \cap beats[w] # {}
  /\ Requeue(stale \cap beats[w])
  /\ revoked' = revoked \cup WorkingOn(stale \cap beats[w])
  /\ UNCHANGED <<attempts, due, execVars, procVars, replaying, tally>>

\* SKIP LOCKED again: the transaction resets the stale rows it could lock.
Sweep(w) ==
  /\ worker[w] = "up"
  /\ \E S \in (SUBSET stale) \ {{}} :
       /\ Requeue(S)
       /\ revoked' = revoked \cup WorkingOn(S)
  /\ UNCHANGED <<attempts, due, execVars, procVars, replaying, tally>>

\* A live worker beats for the row, or has just claimed it.
Attended(r) ==
  \E w \in Workers :
    /\ worker[w] = "up"
    /\ r \in beats[w] \/ \E x \in ExecsOf(w) : pc[x] = "claimed" /\ job[x] = r

\* A claim ages past the threshold.  For an attended row that takes a stalled
\* event loop or several failed renewals in a row, which are bounded.
Age(r) ==
  /\ status[r] = "running"
  /\ r \notin stale
  /\ stale' = stale \cup {r}
  /\ IF Attended(r) THEN Spend("stall") ELSE UNCHANGED tally
  /\ UNCHANGED <<status, attempts, due, execVars, procVars, replaying, revoked>>

ComesDue(r) ==
  /\ status[r] = "pending"
  /\ ~due[r]
  /\ due' = [due EXCEPT ![r] = TRUE]
  /\ UNCHANGED <<status, attempts, stale, execVars, procVars, replaying, revoked, tally>>

-----------------------------------------------------------------------------
(* Life cycle of a worker process *)

\* onModuleDestroy: set the flag, clear the timers, wait for what is in flight.
BeginShutdown(w) ==
  /\ worker[w] = "up"
  /\ Spend("shutdown")
  /\ worker' = [worker EXCEPT ![w] = "draining"]
  /\ snapshot' = [snapshot EXCEPT ![w] = InFlight(w)]
  /\ UNCHANGED <<rowVars, execVars, beats, overlapped, replaying, revoked>>

\* The wait ends (all settled, or the timeout): every running row of the pool
\* goes back to pending, whichever worker holds it.
ReleasePool(w) ==
  /\ worker[w] = "draining"
  /\ \/ snapshot[w] = {} /\ UNCHANGED tally
     \/ snapshot[w] # {} /\ Spend("timeout")
  /\ worker' = [worker EXCEPT ![w] = "released"]
  /\ snapshot' = [snapshot EXCEPT ![w] = {}]
  /\ LET S == {r \in Runs : status[r] = "running" /\ RunPool[r] = WorkerPool[w]}
     IN /\ Requeue(S)
        /\ revoked' = revoked \cup WorkingOn(S)
  /\ UNCHANGED <<attempts, due, execVars, beats, overlapped, replaying>>

\* The reset fails and is logged: the rows stay running.  (It counts as one fault
\* whether or not the wait ended by the timeout.)
ReleaseFails(w) ==
  /\ worker[w] = "draining"
  /\ snapshot[w] = {} \/ "timeout" \in Allowed
  /\ Spend("dbError")
  /\ worker' = [worker EXCEPT ![w] = "released"]
  /\ snapshot' = [snapshot EXCEPT ![w] = {}]
  /\ UNCHANGED <<rowVars, execVars, beats, overlapped, replaying, revoked>>

\* The process ends: normally after a shutdown, or by a crash at any moment.
Stop(w) ==
  /\ worker[w] # "down"
  /\ \/ worker[w] = "released" /\ UNCHANGED tally
     \/ worker[w] # "released" /\ Spend("crash")
  /\ worker' = [worker EXCEPT ![w] = "down"]
  /\ beats' = [beats EXCEPT ![w] = {}]
  /\ snapshot' = [snapshot EXCEPT ![w] = {}]
  /\ pc' = [x \in Execs |-> IF Host[x] = w THEN "idle" ELSE pc[x]]
  /\ job' = [x \in Execs |-> IF Host[x] = w THEN NoRun ELSE job[x]]
  /\ before' = [x \in Execs |-> IF Host[x] = w THEN 0 ELSE before[x]]
  /\ revoked' = revoked \ ExecsOf(w)
  /\ overlapped' = overlapped \ {w}
  /\ UNCHANGED <<rowVars, replaying>>

Restart(w) ==
  /\ worker[w] = "down"
  /\ worker' = [worker EXCEPT ![w] = "up"]
  /\ UNCHANGED <<rowVars, execVars, beats, snapshot, overlapped, replaying, revoked, tally>>

-----------------------------------------------------------------------------
(* Clients of the orchestrator *)

Start(r) ==
  /\ status[r] = "absent"
  /\ status' = [status EXCEPT ![r] = "pending"]
  /\ \E d \in BOOLEAN : due' = [due EXCEPT ![r] = d]
  /\ UNCHANGED <<attempts, stale, execVars, procVars, replaying, revoked, tally>>

\* Mutant: the UPDATE does not repeat the test.
CancelUnguarded(r) ==
  /\ status[r] # "absent"
  /\ Spend("cancel")
  /\ Move({r}, "canceled")
  /\ revoked' = revoked \cup WorkingOn({r})
  /\ UNCHANGED <<attempts, due, execVars, procVars, replaying>>

\* cancel reads the row, returns when it is terminal, and repeats that test in
\* the UPDATE: only the UPDATE matters here.  A cascade's victims are rows
\* cancelled by the same guarded UPDATE, one by one.
Cancel(r) ==
  /\ status[r] \notin Terminal \cup {"absent"}
  /\ Spend("cancel")
  /\ Move({r}, "canceled")
  /\ revoked' = revoked \cup WorkingOn({r})
  /\ UNCHANGED <<attempts, due, execVars, procVars, replaying>>

\* replay tests the status outside the transaction that resets the row, and the
\* transaction does not repeat the test.
ReplayCheck(r) ==
  /\ status[r] \in Terminal
  /\ Spend("replay")
  /\ replaying' = [replaying EXCEPT ![r] = @ + 1]
  /\ UNCHANGED <<rowVars, execVars, procVars, revoked>>

ReplayCommit(r) ==
  /\ replaying[r] > 0
  /\ replaying' = [replaying EXCEPT ![r] = @ - 1]
  /\ Requeue({r})
  /\ attempts' = [attempts EXCEPT ![r] = 0]
  /\ due' = [due EXCEPT ![r] = TRUE]
  /\ revoked' = revoked \cup WorkingOn({r})
  /\ UNCHANGED <<execVars, procVars, tally>>

-----------------------------------------------------------------------------
Init ==
  /\ status = [r \in Runs |-> "absent"]
  /\ attempts = [r \in Runs |-> 0]
  /\ due = [r \in Runs |-> FALSE]
  /\ stale = {}
  /\ pc = [x \in Execs |-> "idle"]
  /\ job = [x \in Execs |-> NoRun]
  /\ before = [x \in Execs |-> 0]
  /\ beats = [w \in Workers |-> {}]
  /\ worker = [w \in Workers |-> "up"]
  /\ snapshot = [w \in Workers |-> {}]
  /\ replaying = [r \in Runs |-> 0]
  /\ revoked = {}
  /\ overlapped = {}
  /\ spent = 0
  /\ disturbed = FALSE

Execute(x) ==
  \/ Poll(x) \/ ClaimNext(x) \/ ClaimNothing(x) \/ Dispatch(x)
  \/ Gate(x) \/ Defer(x) \/ HandlerReturns(x) \/ HandlerThrows(x)
  \/ Complete(x) \/ Retry(x) \/ Fail(x) \/ Cascade(x)

Next ==
  \/ \E x \in Execs : Execute(x) \/ ClaimFails(x) \/ CompleteFails(x) \/ Abandon(x)
  \/ \E w \in Workers : \/ Renew(w) \/ Sweep(w)
                        \/ BeginShutdown(w) \/ ReleasePool(w) \/ ReleaseFails(w)
                        \/ Stop(w) \/ Restart(w)
  \/ \E r \in Runs : \/ Start(r) \/ Age(r) \/ ComesDue(r)
                     \/ Cancel(r) \/ ReplayCheck(r) \/ ReplayCommit(r)

Spec == Init /\ [][Next]_vars

\* Timers keep firing and awaited statements and handlers end; a supervisor
\* restarts a worker that went down; an unattended claim grows old.
Lapse(r) == ~Attended(r) /\ Age(r)

Fairness ==
  /\ \A x \in Execs : WF_vars(Execute(x))
  /\ \A w \in Workers :
       /\ WF_vars(Renew(w)) /\ WF_vars(Sweep(w)) /\ WF_vars(ReleasePool(w))
       /\ WF_vars(worker[w] = "released" /\ Stop(w)) /\ WF_vars(Restart(w))
  /\ \A r \in Runs : WF_vars(Lapse(r)) /\ WF_vars(ComesDue(r))

FairSpec == Spec /\ Fairness

-----------------------------------------------------------------------------
(* Properties *)

\* An execution works under a valid claim: nobody else has written its row
\* since it claimed it.
Current(x) == pc[x] \in Working /\ x \notin revoked

\* It has passed the lane check of its key and its handler is due to run, runs,
\* or is settling.
InLane(x) ==
  /\ pc[x] \in {"handler"} \cup Settling
  /\ job[x] \notin Unregistered
  /\ Key[job[x]] # NoKey

\* The settling writes of processRun name the row by its id alone.  They are
\* safe for an execution whose claim was not taken away: its row is 'running'.
OwnerIsRunning == \A x \in Execs : Current(x) => status[job[x]] = "running"

\* The claim transaction gives a run to one execution at a time, over every
\* interleaving of sweeps, cancels, replays, releases and late writes.
ClaimExclusive ==
  \A x, y \in Execs : x # y /\ Current(x) /\ Current(y) => job[x] # job[y]

\* The lane check reads after the claim commits and locks nothing; still, two
\* executions with valid claims are never past it with the same key.
LaneExclusive ==
  \A x, y \in Execs :
    x # y /\ Current(x) /\ Current(y) /\ InLane(x) /\ InLane(y)
      => Key[job[x]] # Key[job[y]]

\* The comment in pollAndProcess: no way out of processRun leaves an id in
\* the renew set, which would keep a run alive that nobody executes.
NoStrandedBeat ==
  \A w \in Workers : \A r \in beats[w] : \E x \in InFlight(w) : job[x] = r

\* What heartbeat and sweeper are for: until a beat is missed, a run replayed or
\* a worker shut down, no run is executed twice at the same time, whatever
\* crashes, is cancelled or fails.
NoDoubleExecution ==
  ~disturbed => \A x, y \in Execs :
                  x # y /\ pc[x] \in Working /\ pc[y] \in Working => job[x] # job[y]

\* The comment at JobWorkerOptions.concurrency: so many calls of processRun are
\* in flight at most.  pollAndProcess compares before it awaits the claim.
WithinConcurrency == \A w \in Workers : Cardinality(InFlight(w)) <= Concurrency

\* What the comparison does give: a worker keeps its ceiling as long as none of
\* its polls starts before the previous one has registered its run.
CeilingKept == \A w \in Workers \ overlapped : Cardinality(InFlight(w)) <= Concurrency

\* A terminal row changes only by a replay or by an execution that had lost
\* its claim: the unguarded writes are the only way to undo a final status.
OnlyLateWritesUndo ==
  [][\A r \in Runs :
       status[r] \in Terminal /\ status'[r] # status[r]
         => \/ replaying'[r] < replaying[r]
            \/ \E x \in revoked : job[x] = r /\ pc'[x] = "idle"
            \/ \E x \in revoked : job[x] = r /\ pc'[x] = "cascade"]_vars

\* The lease a run's claim stands for: held by the execution whose claim is valid.
HolderOf(r) == IF \E x \in Execs : Current(x) /\ job[x] = r
               THEN CHOOSE x \in Execs : Current(x) /\ job[x] = r ELSE Nobody

RunsInLane == {r \in Runs : \E x \in Execs : Current(x) /\ InLane(x) /\ job[x] = r}

Lease == INSTANCE RunLease WITH holder <- [r \in Runs |-> HolderOf(r)], lane <- RunsInLane

\* The worker implements the lease: claims are acquired one at a time, the
\* lane is entered only when it is free, and holds end.
ImplementsLease == Lease!LeaseSpec

\* Crashes, stalls, shutdowns and failed statements may delay a run, but it
\* reaches a terminal status (runs without a concurrency key).
EveryRunSettles == \A r \in Runs : status[r] = "pending" ~> status[r] \in Terminal

==============================================================================
