------------------------------- MODULE BullJobs -------------------------------
(***************************************************************************)
(* The BullMQ backend of the jobs subsystem: BullMQJobOrchestrator, which  *)
(* follows each write of the Drizzle orchestrator with a call of a BullMQ  *)
(* queue, and BullMQJobWorker, whose processor drives the job_run row.     *)
(*                                                                         *)
(* Two stores with no transaction over both: the row in Postgres, which is *)
(* the truth, and the job in Redis, without which the row is not executed. *)
(* The inherited calls are one step each here; Orchestrator has what       *)
(* happens inside them.  The queue is external and modelled from its use:  *)
(* add with the id of a job that exists does nothing, finished jobs stay   *)
(* (no removeOnComplete is set), an active job cannot be removed, a job    *)
(* whose worker is gone is handed out again.                               *)
(***************************************************************************)
EXTENDS Naturals, FiniteSets

CONSTANTS
  Runs,       \* ids of job_run rows
  NoRun,
  Keyings,    \* the dedupe keys to consider: of each run, its key, or the run
              \* itself if it has none
  Calls,      \* calls of the orchestrator that can be open at once
  Processors, \* jobs that the workers can process at once
  Nobody,     \* the holder of a run no processor has
  Policy,     \* parentClosePolicy of a run
  Attempts,   \* retryPolicy.attempts
  MaxReplays, \* bound on replays
  MaxFaults   \* bound on deaths of calls, processors and listeners

ASSUME BullJobsAssumption ==
  /\ NoRun \notin Runs
  /\ Nobody \notin Processors
  /\ \A f \in Keyings : DOMAIN f = Runs
  /\ Policy \in [Runs -> {"terminate", "cancel", "abandon"}]
  /\ Attempts \in Nat \ {0}
  /\ MaxReplays \in Nat
  /\ MaxFaults \in Nat

VARIABLES
  status,    \* job_run.status, "absent" before the insert
  root,      \* rootRunId
  key,       \* dedupeKey, which names the job too
  queue,     \* BullMQ: the job under each id, its payload and attemptsMade
  pc,        \* the statement each call awaits
  target,    \* the run it is about
  todo,      \* rows whose jobs a cancel has still to remove
  at,        \* the statement each processor awaits
  job,       \* the id of the job it has
  run,       \* the run of the job
  exhausted, \* runs whose 'failed' listener has still to write the row
  replays,
  faults,
  unbacked,  \* history: runs that lost their job, or never got one
  late       \* history: processors whose run was cancelled after they read it

rowVars  == <<status, root, key>>
callVars == <<pc, target, todo>>
procVars == <<at, job, run>>
vars == <<status, root, key, queue, pc, target, todo, at, job, run, exhausted, replays,
          faults, unbacked, late>>

TERMINAL_STATUSES == {"completed", "failed", "canceled"}

JobIds == UNION {{f[r] : r \in Runs} : f \in Keyings}
NoJob  == [state |-> "none", run |-> NoRun, made |-> 0]

TypeOK ==
  /\ status \in [Runs -> {"absent", "pending", "running"} \cup TERMINAL_STATUSES]
  /\ root \in [Runs -> Runs \cup {NoRun}]
  /\ key \in Keyings
  /\ queue \in [JobIds -> [state : {"none", "waiting", "active", "completed", "failed"},
                           run : Runs \cup {NoRun}, made : 0 .. Attempts]]
  /\ pc \in [Calls -> {"idle", "dispatch", "super", "remove", "fetch", "cascade"}]
  /\ target \in [Calls -> Runs \cup {NoRun}]
  /\ todo \in [Calls -> SUBSET Runs]
  /\ at \in [Processors -> {"idle", "load", "mark", "handler", "ack"}]
  /\ job \in [Processors -> JobIds \cup {NoRun}]
  /\ run \in [Processors -> Runs \cup {NoRun}]
  /\ exhausted \in SUBSET Runs
  /\ replays \in 0 .. MaxReplays
  /\ faults \in 0 .. MaxFaults
  /\ unbacked \in SUBSET Runs
  /\ late \in SUBSET Processors
  /\ \A p \in Processors : at[p] # "idle" => queue[job[p]].state = "active"

Terminal(r) == status[r] \in TERMINAL_STATUSES
Existing    == {r \in Runs : status[r] # "absent"}
Holds(j, s) == queue[j].state = s

Goto(c, s) == pc' = [pc EXCEPT ![c] = s]

Return(c) ==
  /\ Goto(c, "idle")
  /\ target' = [target EXCEPT ![c] = NoRun]
  /\ todo' = [todo EXCEPT ![c] = {}]

Fault == faults < MaxFaults /\ faults' = faults + 1

-----------------------------------------------------------------------------
(* start and replay: the row, then the job *)

Duplicates(r) == {d \in Existing : /\ key[d] = key[r]
                                   /\ status[d] \notin {"canceled", "failed"}}

\* super.start inserts the row: there is no duplicate, or it is older than the
\* dedupe window.  A handler that calls ctx.spawnChild passes on its root.
StartInserts(c, r) ==
  /\ pc[c] = "idle" /\ status[r] = "absent"
  /\ status' = [status EXCEPT ![r] = "pending"]
  /\ \E from \in {r} \cup {run[p] : p \in {q \in Processors : at[q] = "handler"}} :
       root' = [root EXCEPT ![r] = IF from = r THEN r ELSE root[from]]
  /\ target' = [target EXCEPT ![c] = r]
  /\ Goto(c, "dispatch")
  /\ UNCHANGED <<key, queue, todo, procVars, exhausted, replays, faults, unbacked, late>>

\* super.start answers with a duplicate, which is dispatched again.
StartDedupes(c, r) ==
  /\ pc[c] = "idle" /\ status[r] = "absent"
  /\ \E d \in Duplicates(r) : target' = [target EXCEPT ![c] = d]
  /\ Goto(c, "dispatch")
  /\ UNCHANGED <<rowVars, queue, todo, procVars, exhausted, replays, faults, unbacked, late>>

\* super.replay.
Replay(c, r) ==
  /\ pc[c] = "idle" /\ Terminal(r) /\ replays < MaxReplays
  /\ replays' = replays + 1
  /\ status' = [status EXCEPT ![r] = "pending"]
  /\ target' = [target EXCEPT ![c] = r]
  /\ Goto(c, "dispatch")
  /\ UNCHANGED <<root, key, queue, todo, procVars, exhausted, faults, unbacked, late>>

\* The run has a job that is still to be executed, or being executed.
HasJob(r) ==
  /\ queue[key[r]].run = r
  /\ queue[key[r]].state \in {"waiting", "active"}
  /\ \A p \in Processors : run[p] = r => at[p] # "ack"

\* Mutant: the add is given no id, so it is never ignored.
DispatchAfresh(c) ==
  LET r == target[c]
      j == key[r] IN
  /\ pc[c] = "dispatch"
  /\ queue' = [queue EXCEPT ![j] = [state |-> "waiting", run |-> r, made |-> 0]]
  /\ unbacked' = unbacked \ {r}
  /\ Return(c)
  /\ UNCHANGED <<rowVars, procVars, exhausted, replays, faults, late>>

\* queue.add, which ignores an id that it has.
Dispatch(c) ==
  LET r == target[c]
      j == key[r] IN
  /\ pc[c] = "dispatch"
  /\ IF Holds(j, "none")
     THEN /\ queue' = [queue EXCEPT ![j] = [state |-> "waiting", run |-> r, made |-> 0]]
          /\ unbacked' = unbacked \ {r}
     ELSE /\ unbacked' = IF HasJob(r) THEN unbacked ELSE unbacked \cup {r}
          /\ UNCHANGED queue
  /\ Return(c)
  /\ UNCHANGED <<rowVars, procVars, exhausted, replays, faults, late>>

-----------------------------------------------------------------------------
(* cancel: the rows, then the jobs *)

\* What super.cancel takes with r.
Cascade(r) == {r} \cup {d \in Runs : /\ root[d] = root[r] /\ ~ Terminal(d)
                                     /\ status[d] # "absent" /\ Policy[d] # "abandon"}

\* super.cancel, which leaves a terminal run and its tree alone.
SuperCancel(r) ==
  IF Terminal(r)
  THEN UNCHANGED <<status, late>>
  ELSE /\ status' = [d \in Runs |-> IF d \in Cascade(r) THEN "canceled" ELSE status[d]]
       /\ late' = late \cup {p \in Processors : run[p] \in Cascade(r) /\ at[p] # "load"}

\* A client's cancel.
CancelCall(c, r) ==
  /\ pc[c] = "idle" /\ status[r] # "absent"
  /\ SuperCancel(r)
  /\ target' = [target EXCEPT ![c] = r]
  /\ Goto(c, "remove")
  /\ UNCHANGED <<root, key, queue, todo, procVars, exhausted, replays, faults, unbacked>>

\* The cancel that follows markFailed.
CancelFailed(c) ==
  /\ pc[c] = "super"
  /\ SuperCancel(target[c])
  /\ Goto(c, "remove")
  /\ UNCHANGED <<root, key, queue, target, todo, procVars, exhausted, replays, faults, unbacked>>

\* job.remove() throws for an active job, which is logged.
Removable(j) == ~ Holds(j, "none") /\ ~ Holds(j, "active")

\* removeFromQueue: whatever job has the id of the run.
RemoveFromQueue(r) ==
  LET j == key[r] IN
  IF Removable(j)
  THEN /\ queue' = [queue EXCEPT ![j] = NoJob]
       /\ unbacked' = IF Holds(j, "waiting")
                      THEN unbacked \cup {queue[j].run} ELSE unbacked
  ELSE UNCHANGED <<queue, unbacked>>

RemoveTarget(c) ==
  /\ pc[c] = "remove"
  /\ RemoveFromQueue(target[c])
  /\ Goto(c, "fetch")
  /\ UNCHANGED <<rowVars, target, todo, procVars, exhausted, replays, faults, late>>

\* Every row of the root, whatever its policy and status.
CancelFetch(c) ==
  LET others == {d \in Existing \ {target[c]} : root[d] = root[target[c]]} IN
  /\ pc[c] = "fetch"
  /\ IF others = {}
     THEN Return(c)
     ELSE /\ todo' = [todo EXCEPT ![c] = others]
          /\ Goto(c, "cascade")
          /\ UNCHANGED target
  /\ UNCHANGED <<rowVars, queue, procVars, exhausted, replays, faults, unbacked, late>>

RemoveDescendant(c) ==
  /\ pc[c] = "cascade"
  /\ \E d \in todo[c] :
       /\ RemoveFromQueue(d)
       /\ IF todo[c] = {d} THEN Return(c)
          ELSE todo' = [todo EXCEPT ![c] = @ \ {d}] /\ UNCHANGED <<pc, target>>
  /\ UNCHANGED <<rowVars, procVars, exhausted, replays, faults, late>>

\* A call dies with its process, or Redis refuses it.
CallDies(c) ==
  /\ pc[c] # "idle" /\ Fault
  /\ unbacked' = IF pc[c] = "dispatch" THEN unbacked \cup {target[c]} ELSE unbacked
  /\ Return(c)
  /\ UNCHANGED <<rowVars, queue, procVars, exhausted, replays, late>>

-----------------------------------------------------------------------------
(* The worker *)

At(p, s) == at' = [at EXCEPT ![p] = s]

ProcessorEnds(p) ==
  /\ At(p, "idle")
  /\ job' = [job EXCEPT ![p] = NoRun]
  /\ run' = [run EXCEPT ![p] = NoRun]
  /\ late' = late \ {p}

\* BullMQ hands out a waiting job (a delay between attempts passes).
Fetch(p, j) ==
  /\ at[p] = "idle" /\ Holds(j, "waiting")
  /\ queue' = [queue EXCEPT ![j].state = "active"]
  /\ job' = [job EXCEPT ![p] = j]
  /\ run' = [run EXCEPT ![p] = queue[j].run]
  /\ At(p, "load")
  /\ UNCHANGED <<rowVars, callVars, exhausted, replays, faults, unbacked, late>>

\* Mutant: the row's status is not looked at.
SkipsNone(r) == FALSE

\* A run cancelled before it was read is not executed.
Skips(r) == status[r] = "canceled"

\* The row is read.
Load(p) ==
  /\ at[p] = "load"
  /\ At(p, IF Skips(run[p]) THEN "ack" ELSE "mark")
  /\ UNCHANGED <<rowVars, queue, callVars, job, run, exhausted, replays, faults, unbacked, late>>

\* The UPDATEs to running and completed are keyed on the id alone.
MarkRunning(p) ==
  /\ at[p] = "mark"
  /\ status' = [status EXCEPT ![run[p]] = "running"]
  /\ At(p, "handler")
  /\ UNCHANGED <<root, key, queue, callVars, job, run, exhausted, replays, faults, unbacked, late>>

\* The handler returns.
MarkCompleted(p) ==
  /\ at[p] = "handler"
  /\ status' = [status EXCEPT ![run[p]] = "completed"]
  /\ At(p, "ack")
  /\ UNCHANGED <<root, key, queue, callVars, job, run, exhausted, replays, faults, unbacked, late>>

\* The processor has returned, and BullMQ completes the job.
Acknowledge(p) ==
  /\ at[p] = "ack"
  /\ queue' = [queue EXCEPT ![job[p]].state = "completed"]
  /\ ProcessorEnds(p)
  /\ UNCHANGED <<rowVars, callVars, exhausted, replays, faults, unbacked>>

\* Mutant: the listener waits for one attempt more.
ExhaustedLater(made) == made > Attempts

\* The 'failed' listener mirrors the last attempt only.
Exhausted(made) == made >= Attempts

\* The processor throws (no handler, the handler, a statement).  BullMQ counts
\* the attempt and keeps the job for another, or it has failed and the listener
\* is called.
Throws(p) ==
  LET made == queue[job[p]].made + 1 IN
  /\ at[p] \in {"mark", "handler"}
  /\ queue' = [queue EXCEPT ![job[p]] =
                 [@ EXCEPT !.made = made, !.state = IF made < Attempts THEN "waiting" ELSE "failed"]]
  /\ exhausted' = IF Exhausted(made) THEN exhausted \cup {run[p]} ELSE exhausted
  /\ ProcessorEnds(p)
  /\ UNCHANGED <<rowVars, callVars, replays, faults, unbacked>>

\* markFailed: the row, and for policy 'terminate' a cancel of the same run.
MarkFailed(c, r) ==
  /\ r \in exhausted /\ pc[c] = "idle"
  /\ exhausted' = exhausted \ {r}
  /\ status' = [status EXCEPT ![r] = "failed"]
  /\ IF Policy[r] = "terminate"
     THEN target' = [target EXCEPT ![c] = r] /\ Goto(c, "super") /\ UNCHANGED todo
     ELSE UNCHANGED callVars
  /\ UNCHANGED <<root, key, queue, procVars, replays, faults, unbacked, late>>

\* The process of a worker dies.  BullMQ hands its active job out again.
ProcessorDies(p) ==
  /\ at[p] # "idle" /\ Fault
  /\ queue' = [queue EXCEPT ![job[p]].state = "waiting"]
  /\ ProcessorEnds(p)
  /\ UNCHANGED <<rowVars, callVars, exhausted, replays, unbacked>>

\* The write of the listener fails or dies with the process; nobody awaits it.
ListenerDies(r) ==
  /\ r \in exhausted /\ Fault
  /\ exhausted' = exhausted \ {r}
  /\ unbacked' = unbacked \cup {r}
  /\ UNCHANGED <<rowVars, queue, callVars, procVars, replays, late>>

-----------------------------------------------------------------------------
Init ==
  /\ status = [r \in Runs |-> "absent"]
  /\ root = [r \in Runs |-> NoRun]
  /\ key \in Keyings
  /\ queue = [j \in JobIds |-> NoJob]
  /\ pc = [c \in Calls |-> "idle"]
  /\ target = [c \in Calls |-> NoRun]
  /\ todo = [c \in Calls |-> {}]
  /\ at = [p \in Processors |-> "idle"]
  /\ job = [p \in Processors |-> NoRun]
  /\ run = [p \in Processors |-> NoRun]
  /\ exhausted = {}
  /\ replays = 0
  /\ faults = 0
  /\ unbacked = {}
  /\ late = {}

Call(c) ==
  \/ \E r \in Runs : StartInserts(c, r) \/ StartDedupes(c, r) \/ CancelCall(c, r) \/ Replay(c, r)
  \/ Dispatch(c) \/ CancelFailed(c) \/ RemoveTarget(c) \/ CancelFetch(c) \/ RemoveDescendant(c)

Process(p) ==
  \/ \E j \in JobIds : Fetch(p, j)
  \/ Load(p) \/ MarkRunning(p) \/ MarkCompleted(p) \/ Acknowledge(p)
  \/ Throws(p)

Next ==
  \/ \E c \in Calls : Call(c) \/ CallDies(c) \/ \E r \in Runs : MarkFailed(c, r)
  \/ \E p \in Processors : Process(p) \/ ProcessorDies(p)
  \/ \E r \in Runs : ListenerDies(r)

Spec == Init /\ [][Next]_vars

-----------------------------------------------------------------------------
(* Properties *)

\* Somebody will move the run on: its job, a call that is about to add it, or the
\* listener of its last failure.
Backed(r) ==
  \/ HasJob(r)
  \/ \E c \in Calls : pc[c] = "dispatch" /\ target[c] = r
  \/ r \in exhausted

\* A run that is not terminal is backed, unless one of three things took its job:
\* an add that was ignored because another job has the id, a removal by a cancel,
\* or a death between two stores.  This is about the calls of the code: a job that
\* BullMQ itself gives up (its limit on stalled jobs, its deduplication window,
\* parent links) is outside the model.
LiveRunIsBacked ==
  \A r \in Runs : status[r] \in {"pending", "running"} => Backed(r) \/ r \in unbacked

\* A run is executed by one processor at a time, given that the queue hands an
\* active job to nobody else before its worker is gone.
OneProcessorPerRun ==
  \A p, q \in Processors : run[p] = run[q] /\ p # q => run[p] = NoRun

\* A cancelled run stays cancelled: only a replay, a processor that had read the
\* row before and the listener of a failure before it change the row.
CancelSticks ==
  [][\A r \in Runs : status[r] = "canceled" /\ status'[r] # "canceled" =>
       \/ \E c \in Calls : Replay(c, r)
       \/ \E p \in late : run[p] = r
       \/ r \in exhausted]_vars

\* The hold on a run is the processor that has its job, from the fetch to the
\* acknowledgement; concurrency keys have no lane in this backend.
HolderOf(r) == IF \E p \in Processors : run[p] = r
               THEN CHOOSE p \in Processors : run[p] = r ELSE Nobody

Lease == INSTANCE RunLease WITH Execs <- Processors, Key <- [r \in Runs |-> NoRun], NoKey <- NoRun,
                                holder <- [r \in Runs |-> HolderOf(r)], lane <- {}

\* Without a claim on the row, the backend implements the lease that the Postgres
\* worker implements: repeated starts, replays, retries and deaths never give a
\* run to a second processor before the first is through with it.
ImplementsLease == Lease!LeaseSpec

=============================================================================
