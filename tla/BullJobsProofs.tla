---------------------------- MODULE BullJobsProofs ----------------------------
(***************************************************************************)
(* Theorems about BullJobs, for all runs, dedupe keys, policies, calls,    *)
(* processors, attempts, replays and faults.                               *)
(***************************************************************************)
EXTENDS BullJobs, TLAPS

JobRecords == [state : {"none", "waiting", "active", "completed", "failed"},
               run : Runs \cup {NoRun}, made : 0 .. Attempts]

\* The queue and the processors.  A processor has an active job, of its run; an
\* active job has one processor at most; a job to be executed is of a run whose
\* key is its id, and has an attempt left.
Held(p) ==
  /\ run[p] \in Runs /\ job[p] = key[run[p]]
  /\ queue[job[p]].state = "active" /\ queue[job[p]].run = run[p]
Queued(j) ==
  queue[j].run \in Runs /\ key[queue[j].run] = j /\ queue[j].made + 1 \in 1 .. Attempts

QueueInv ==
  /\ key \in Keyings
  /\ queue \in [JobIds -> JobRecords]
  /\ at \in [Processors -> {"idle", "load", "mark", "handler", "ack"}]
  /\ job \in [Processors -> JobIds \cup {NoRun}]
  /\ run \in [Processors -> Runs \cup {NoRun}]
  /\ \A p \in Processors : at[p] = "idle" => run[p] = NoRun
  /\ \A p \in Processors : at[p] # "idle" => Held(p)
  /\ \A p, q \in Processors : at[p] # "idle" /\ at[q] # "idle" /\ job[p] = job[q] => p = q
  /\ \A j \in JobIds : queue[j].state \in {"waiting", "active"} => Queued(j)

\* The rows and the calls.
RowInv ==
  /\ status \in [Runs -> {"absent", "pending", "running"} \cup TERMINAL_STATUSES]
  /\ root \in [Runs -> Runs \cup {NoRun}]
  /\ pc \in [Calls -> {"idle", "dispatch", "super", "remove", "fetch", "cascade"}]
  /\ target \in [Calls -> Runs \cup {NoRun}]
  /\ todo \in [Calls -> SUBSET Runs]
  /\ exhausted \in SUBSET Runs
  /\ replays \in 0 .. MaxReplays
  /\ faults \in 0 .. MaxFaults
  /\ unbacked \in SUBSET Runs
  /\ late \in SUBSET Processors
  /\ \A c \in Calls : pc[c] # "idle" => target[c] \in Runs

LEMMA InvTypes == QueueInv /\ RowInv => TypeOK
BY DEF QueueInv, RowInv, TypeOK, JobRecords, Held

\* The job of a run.
LEMMA KeyIsJobId ==
  ASSUME key \in Keyings, NEW r \in Runs
  PROVE  key[r] \in JobIds
BY DEF JobIds

LEMMA InitInv == Init => QueueInv /\ RowInv
<1> SUFFICES ASSUME Init PROVE QueueInv /\ RowInv
  OBVIOUS
<1>1. NoJob \in JobRecords /\ NoJob.state = "none"
  BY BullJobsAssumption DEF NoJob, JobRecords
<1>2. QueueInv
  BY <1>1 DEF Init, QueueInv
<1>3. RowInv
  <2>1. /\ status \in [Runs -> {"absent", "pending", "running"} \cup TERMINAL_STATUSES]
        /\ root \in [Runs -> Runs \cup {NoRun}]
        /\ unbacked \in SUBSET Runs
    BY DEF Init
  <2>2. /\ pc \in [Calls -> {"idle", "dispatch", "super", "remove", "fetch", "cascade"}]
        /\ target \in [Calls -> Runs \cup {NoRun}]
        /\ todo \in [Calls -> SUBSET Runs]
        /\ \A c \in Calls : pc[c] # "idle" => target[c] \in Runs
    BY DEF Init
  <2>3. exhausted \in SUBSET Runs /\ late \in SUBSET Processors
    BY DEF Init
  <2>4. 0 \in 0 .. MaxReplays /\ 0 \in 0 .. MaxFaults
    BY BullJobsAssumption
  <2>5. replays \in 0 .. MaxReplays /\ faults \in 0 .. MaxFaults
    BY <2>4 DEF Init
  <2> QED
    BY <2>1, <2>2, <2>3, <2>5 DEF RowInv
<1> QED
  BY <1>2, <1>3

-----------------------------------------------------------------------------
(* The queue and the processors *)

\* A job that no processor has is written.
LEMMA QueueWrite ==
  ASSUME QueueInv, NEW j \in JobIds, ~ Holds(j, "active"),
         NEW x \in JobRecords, queue' = [queue EXCEPT ![j] = x],
         x.state # "active",
         x.state = "waiting" => x.run \in Runs /\ key[x.run] = j /\ x.made + 1 \in 1 .. Attempts,
         UNCHANGED <<key, procVars>>
  PROVE  QueueInv'
<1>0. UNCHANGED <<key, at, job, run>>
  BY DEF procVars
<1>1. queue' \in [JobIds -> JobRecords] /\ queue'[j] = x
  BY DEF QueueInv
<1>2. \A i \in JobIds \ {j} : queue'[i] = queue[i]
  BY DEF QueueInv
<1>3. \A p \in Processors : at[p] # "idle" => job[p] \in JobIds \ {j}
  BY KeyIsJobId DEF QueueInv, Held, Holds
<1>4. \A p \in Processors : at[p] # "idle" => Held(p)'
  BY <1>0, <1>2, <1>3 DEF QueueInv, Held
<1>5. \A i \in JobIds : queue'[i].state \in {"waiting", "active"} => Queued(i)'
  BY <1>0, <1>1, <1>2 DEF QueueInv, Queued
<1> QED
  BY <1>0, <1>1, <1>4, <1>5 DEF QueueInv

\* The job of a processor changes while the processor gives it up.
LEMMA QueueGiveUp ==
  ASSUME QueueInv, NEW p \in Processors, at[p] # "idle", ProcessorEnds(p),
         NEW x \in JobRecords, queue' = [queue EXCEPT ![job[p]] = x],
         x.state # "active",
         x.state = "waiting" => x.run = run[p] /\ x.made + 1 \in 1 .. Attempts,
         UNCHANGED key
  PROVE  QueueInv'
<1>0. job[p] \in JobIds /\ Held(p)
  BY KeyIsJobId DEF QueueInv, Held
<1>1. queue' \in [JobIds -> JobRecords] /\ queue'[job[p]] = x
  BY <1>0 DEF QueueInv
<1>2. \A i \in JobIds \ {job[p]} : queue'[i] = queue[i]
  BY <1>0 DEF QueueInv
<1>3. /\ at' \in [Processors -> {"idle", "load", "mark", "handler", "ack"}]
      /\ job' \in [Processors -> JobIds \cup {NoRun}]
      /\ run' \in [Processors -> Runs \cup {NoRun}]
      /\ at'[p] = "idle" /\ run'[p] = NoRun
      /\ \A q \in Processors \ {p} : at'[q] = at[q] /\ job'[q] = job[q] /\ run'[q] = run[q]
  BY DEF ProcessorEnds, At, QueueInv
<1>4. \A q \in Processors \ {p} : at[q] # "idle" => job[q] \in JobIds \ {job[p]}
  BY KeyIsJobId DEF QueueInv, Held
<1>5. \A q \in Processors : at'[q] # "idle" => Held(q)'
  BY <1>2, <1>3, <1>4 DEF QueueInv, Held
<1>6. \A i \in JobIds : queue'[i].state \in {"waiting", "active"} => Queued(i)'
  <2> SUFFICES ASSUME NEW i \in JobIds, queue'[i].state \in {"waiting", "active"}
               PROVE  Queued(i)'
    OBVIOUS
  <2>1. CASE i = job[p]
    BY <1>0, <1>1, <2>1 DEF Queued, Held
  <2>2. CASE i # job[p]
    BY <1>2, <2>2 DEF QueueInv, Queued
  <2> QED
    BY <2>1, <2>2
<1> QED
  BY <1>1, <1>3, <1>5, <1>6 DEF QueueInv

\* A processor goes from one statement to the next.
LEMMA QueueStatement ==
  ASSUME QueueInv, NEW p \in Processors, at[p] # "idle",
         NEW s \in {"load", "mark", "handler", "ack"}, At(p, s),
         UNCHANGED <<key, queue, job, run>>
  PROVE  QueueInv'
<1>1. /\ at' \in [Processors -> {"idle", "load", "mark", "handler", "ack"}]
      /\ \A q \in Processors : at'[q] = "idle" <=> at[q] = "idle"
  BY DEF At, QueueInv
<1> QED
  BY <1>1 DEF QueueInv, Held, Queued

LEMMA QueueFetch ==
  ASSUME QueueInv, NEW p \in Processors, NEW j \in JobIds, Fetch(p, j)
  PROVE  QueueInv'
<1>1. /\ queue[j] \in JobRecords /\ queue[j].state = "waiting" /\ Queued(j)
      /\ queue[j].run \in Runs /\ UNCHANGED key
  BY DEF Fetch, Holds, QueueInv, Queued, rowVars
<1>2. /\ queue' \in [JobIds -> JobRecords]
      /\ queue'[j].state = "active" /\ queue'[j].run = queue[j].run /\ queue'[j].made = queue[j].made
      /\ \A i \in JobIds \ {j} : queue'[i] = queue[i]
  BY <1>1 DEF Fetch, QueueInv, JobRecords
<1>3. /\ at' \in [Processors -> {"idle", "load", "mark", "handler", "ack"}]
      /\ job' \in [Processors -> JobIds \cup {NoRun}]
      /\ run' \in [Processors -> Runs \cup {NoRun}]
      /\ at'[p] = "load" /\ job'[p] = j /\ run'[p] = queue[j].run
      /\ \A q \in Processors \ {p} : at'[q] = at[q] /\ job'[q] = job[q] /\ run'[q] = run[q]
  BY <1>1 DEF Fetch, At, QueueInv
<1>4. \A q \in Processors \ {p} : at[q] # "idle" => job[q] \in JobIds \ {j}
  BY <1>1, KeyIsJobId DEF QueueInv, Held
<1>5. \A q \in Processors : at'[q] # "idle" => Held(q)'
  <2> SUFFICES ASSUME NEW q \in Processors, at'[q] # "idle" PROVE Held(q)'
    OBVIOUS
  <2>1. CASE q = p
    BY <1>1, <1>2, <1>3, <2>1 DEF Held, Queued
  <2>2. CASE q # p
    BY <1>1, <1>2, <1>3, <1>4, <2>2 DEF QueueInv, Held
  <2> QED
    BY <2>1, <2>2
<1>6. \A i \in JobIds : queue'[i].state \in {"waiting", "active"} => Queued(i)'
  BY <1>1, <1>2 DEF QueueInv, Queued
<1>7. \A q, u \in Processors : at'[q] # "idle" /\ at'[u] # "idle" /\ job'[q] = job'[u] => q = u
  BY <1>3, <1>4 DEF QueueInv
<1> QED
  BY <1>1, <1>2, <1>3, <1>5, <1>6, <1>7 DEF QueueInv

LEMMA QueueDispatch ==
  ASSUME QueueInv, RowInv, NEW c \in Calls, Dispatch(c)
  PROVE  QueueInv'
<1>1. target[c] \in Runs /\ key[target[c]] \in JobIds /\ UNCHANGED <<key, procVars>>
  BY KeyIsJobId DEF Dispatch, RowInv, QueueInv, rowVars
<1>2. CASE Holds(key[target[c]], "none")
  <2>1. queue' = [queue EXCEPT ![key[target[c]]] = [state |-> "waiting", run |-> target[c], made |-> 0]]
    BY <1>2 DEF Dispatch
  <2>2. [state |-> "waiting", run |-> target[c], made |-> 0] \in JobRecords /\ 0 + 1 \in 1 .. Attempts
    BY <1>1, BullJobsAssumption DEF JobRecords
  <2>3. ~ Holds(key[target[c]], "active")
    BY <1>2 DEF Holds
  <2> QED
    BY <1>1, <2>1, <2>2, <2>3, QueueWrite
<1>3. CASE ~ Holds(key[target[c]], "none")
  BY <1>1, <1>3 DEF Dispatch, QueueInv, Held, Queued, procVars
<1> QED
  BY <1>2, <1>3

LEMMA QueueRemove ==
  ASSUME QueueInv, NEW r \in Runs, RemoveFromQueue(r), UNCHANGED <<key, procVars>>
  PROVE  QueueInv'
<1>1. key[r] \in JobIds
  BY KeyIsJobId DEF QueueInv
<1>2. CASE Removable(key[r])
  <2>1. NoJob \in JobRecords /\ NoJob.state = "none"
    BY BullJobsAssumption DEF NoJob, JobRecords
  <2>2. queue' = [queue EXCEPT ![key[r]] = NoJob] /\ ~ Holds(key[r], "active")
    BY <1>2 DEF RemoveFromQueue, Removable
  <2> QED
    BY <1>1, <2>1, <2>2, QueueWrite
<1>3. CASE ~ Removable(key[r])
  BY <1>3 DEF RemoveFromQueue, QueueInv, Held, Queued, procVars
<1> QED
  BY <1>2, <1>3

\* Whether an attempt is left, when one more is counted.
LEMMA AttemptsLeft ==
  ASSUME NEW m \in Nat, m + 1 \in 1 .. Attempts
  PROVE  /\ m + 1 \in 0 .. Attempts
         /\ m + 1 < Attempts => (m + 1) + 1 \in 1 .. Attempts
BY BullJobsAssumption

LEMMA QueueThrows ==
  ASSUME QueueInv, NEW p \in Processors, Throws(p)
  PROVE  QueueInv'
<1> DEFINE old == queue[job[p]]
           new == [old EXCEPT !.made = old.made + 1,
                              !.state = IF old.made + 1 < Attempts THEN "waiting" ELSE "failed"]
<1>1. at[p] # "idle" /\ Held(p) /\ job[p] \in JobIds /\ ProcessorEnds(p) /\ UNCHANGED key
  BY KeyIsJobId DEF Throws, QueueInv, Held, rowVars
<1>2. old \in JobRecords /\ old.made \in Nat /\ old.made + 1 \in 1 .. Attempts /\ old.run = run[p]
  BY <1>1, BullJobsAssumption DEF QueueInv, JobRecords, Held, Queued
<1>3. queue' = [queue EXCEPT ![job[p]] = new]
  BY DEF Throws
<1>4. new \in JobRecords
  BY <1>2, AttemptsLeft DEF JobRecords
<1>5. /\ new.state # "active" /\ new.run = run[p] /\ new.made = old.made + 1
      /\ new.state = "waiting" => old.made + 1 < Attempts
  BY <1>2 DEF JobRecords
<1> HIDE DEF new, old
<1>6. new.state = "waiting" => new.run = run[p] /\ new.made + 1 \in 1 .. Attempts
  BY <1>2, <1>5, AttemptsLeft
<1> QED
  BY <1>1, <1>3, <1>4, <1>5, <1>6, QueueGiveUp

LEMMA QueueEnds ==
  ASSUME QueueInv, NEW p \in Processors, at[p] # "idle", ProcessorEnds(p),
         NEW s \in {"waiting", "completed"},
         queue' = [queue EXCEPT ![job[p]].state = s], UNCHANGED key
  PROVE  QueueInv'
<1> DEFINE old == queue[job[p]]
           new == [old EXCEPT !.state = s]
<1>1. Held(p) /\ job[p] \in JobIds
  BY KeyIsJobId DEF QueueInv, Held
<1>2. old \in JobRecords /\ old.made + 1 \in 1 .. Attempts /\ old.run = run[p]
  BY <1>1 DEF QueueInv, Held, Queued
<1>3. queue' = [queue EXCEPT ![job[p]] = new]
  OBVIOUS
<1>4. new \in JobRecords /\ new.state = s /\ new.run = old.run /\ new.made = old.made
  BY <1>2 DEF JobRecords
<1> HIDE DEF new, old
<1> QED
  BY <1>2, <1>3, <1>4, QueueGiveUp

LEMMA QueueSame ==
  ASSUME QueueInv, UNCHANGED <<key, queue, procVars>>
  PROVE  QueueInv'
BY DEF QueueInv, Held, Queued, procVars

LEMMA NextQueueInv ==
  ASSUME QueueInv, RowInv, [Next]_vars
  PROVE  QueueInv'
<1>1. CASE UNCHANGED vars
  BY <1>1, QueueSame DEF vars, procVars
<1>2. ASSUME NEW c \in Calls, Call(c) PROVE QueueInv'
  <2>1. ASSUME NEW r \in Runs,
               StartInserts(c, r) \/ StartDedupes(c, r) \/ CancelCall(c, r) \/ Replay(c, r)
        PROVE  QueueInv'
    BY <2>1, QueueSame DEF StartInserts, StartDedupes, CancelCall, Replay, rowVars
  <2>2. CASE CancelFailed(c) \/ CancelFetch(c)
    BY <2>2, QueueSame DEF CancelFailed, CancelFetch, rowVars
  <2>3. CASE RemoveTarget(c)
    <3>1. target[c] \in Runs /\ UNCHANGED <<key, procVars>> /\ RemoveFromQueue(target[c])
      BY <2>3 DEF RemoveTarget, RowInv, rowVars
    <3> QED
      BY <3>1, QueueRemove
  <2>4. CASE RemoveDescendant(c)
    <3>1. PICK d \in todo[c] : RemoveFromQueue(d)
      BY <2>4 DEF RemoveDescendant
    <3>2. d \in Runs /\ UNCHANGED <<key, procVars>>
      BY <2>4 DEF RemoveDescendant, RowInv, rowVars
    <3> QED
      BY <3>1, <3>2, QueueRemove
  <2> QED
    BY <1>2, <2>1, <2>2, <2>3, <2>4, QueueDispatch DEF Call
<1>3. ASSUME NEW c \in Calls, CallDies(c) \/ \E r \in Runs : MarkFailed(c, r) PROVE QueueInv'
  BY <1>3, QueueSame DEF CallDies, MarkFailed, rowVars
<1>4. ASSUME NEW p \in Processors, Process(p) PROVE QueueInv'
  <2>1. CASE Load(p)
    <3>1. /\ at[p] # "idle" /\ UNCHANGED <<key, queue, job, run>>
          /\ \E s \in {"load", "mark", "handler", "ack"} : At(p, s)
      BY <2>1 DEF Load, rowVars
    <3> QED
      BY <3>1, QueueStatement
  <2>2. CASE MarkRunning(p) \/ MarkCompleted(p)
    <3>1. /\ at[p] # "idle" /\ UNCHANGED <<key, queue, job, run>>
          /\ \E s \in {"load", "mark", "handler", "ack"} : At(p, s)
      BY <2>2 DEF MarkRunning, MarkCompleted, rowVars
    <3> QED
      BY <3>1, QueueStatement
  <2>3. CASE Acknowledge(p)
    BY <2>3, QueueEnds DEF Acknowledge, rowVars
  <2> QED
    BY <1>4, <2>1, <2>2, <2>3, QueueThrows, QueueFetch DEF Process
<1>5. ASSUME NEW p \in Processors, ProcessorDies(p) PROVE QueueInv'
  BY <1>5, QueueEnds DEF ProcessorDies, rowVars
<1>6. ASSUME NEW r \in Runs, ListenerDies(r) PROVE QueueInv'
  BY <1>6, QueueSame DEF ListenerDies, rowVars
<1> QED
  BY <1>1, <1>2, <1>3, <1>4, <1>5, <1>6 DEF Next

-----------------------------------------------------------------------------
(* The rows and the calls *)

\* A bounded counter.
LEMMA Counts ==
  ASSUME NEW n \in Nat, NEW m \in 0 .. n, m < n
  PROVE  m + 1 \in 0 .. n
OBVIOUS

LEMMA FaultType ==
  ASSUME RowInv, Fault
  PROVE  faults' \in 0 .. MaxFaults
<1>1. MaxFaults \in Nat
  BY BullJobsAssumption
<1> QED
  BY <1>1, Counts DEF RowInv, Fault

\* A call that goes on about the same run, or about a run that it names.
LEMMA CallsType ==
  ASSUME RowInv, NEW c \in Calls,
         \/ Return(c)
         \/ /\ \E s \in {"dispatch", "super", "remove", "fetch", "cascade"} : Goto(c, s)
            /\ \/ \E r \in Runs : target' = [target EXCEPT ![c] = r]
               \/ pc[c] # "idle" /\ UNCHANGED target
            /\ \/ UNCHANGED todo
               \/ \E R \in SUBSET Runs : todo' = [todo EXCEPT ![c] = R]
  PROVE  /\ pc' \in [Calls -> {"idle", "dispatch", "super", "remove", "fetch", "cascade"}]
         /\ target' \in [Calls -> Runs \cup {NoRun}]
         /\ todo' \in [Calls -> SUBSET Runs]
         /\ \A d \in Calls : pc'[d] # "idle" => target'[d] \in Runs
<1>1. CASE Return(c)
  BY <1>1 DEF Return, Goto, RowInv
<1>2. CASE \E s \in {"dispatch", "super", "remove", "fetch", "cascade"} : Goto(c, s)
  BY <1>2 DEF Return, Goto, RowInv
<1> QED
  BY <1>1, <1>2

LEMMA SuperCancelType ==
  ASSUME RowInv, NEW r, SuperCancel(r)
  PROVE  /\ status' \in [Runs -> {"absent", "pending", "running"} \cup TERMINAL_STATUSES]
         /\ late' \in SUBSET Processors
<1>1. "canceled" \in TERMINAL_STATUSES
  BY DEF TERMINAL_STATUSES
<1>2. CASE Terminal(r)
  BY <1>2 DEF SuperCancel, RowInv
<1>3. CASE ~ Terminal(r)
  <2>1. late' \in SUBSET Processors
    BY <1>3 DEF SuperCancel, RowInv
  <2>2. status' = [d \in Runs |-> IF d \in Cascade(r) THEN "canceled" ELSE status[d]]
    BY <1>3 DEF SuperCancel
  <2>3. status' \in [Runs -> {"absent", "pending", "running"} \cup TERMINAL_STATUSES]
    BY <1>1, <2>2 DEF RowInv
  <2> QED
    BY <2>1, <2>3
<1> QED
  BY <1>2, <1>3

LEMMA RemoveType ==
  ASSUME QueueInv, RowInv, NEW r \in Runs, RemoveFromQueue(r)
  PROVE  unbacked' \in SUBSET Runs
<1>1. key[r] \in JobIds
  BY KeyIsJobId DEF QueueInv
<1>2. Holds(key[r], "waiting") => queue[key[r]].run \in Runs
  BY <1>1 DEF QueueInv, Queued, Holds
<1> QED
  BY <1>2 DEF RemoveFromQueue, RowInv

LEMMA CallRowInv ==
  ASSUME QueueInv, RowInv, NEW c \in Calls, Call(c)
  PROVE  RowInv'
<1>1. ASSUME NEW r \in Runs, StartInserts(c, r) PROVE RowInv'
  <2>1. status' \in [Runs -> {"absent", "pending", "running"} \cup TERMINAL_STATUSES]
    BY <1>1 DEF StartInserts, RowInv
  <2>2. root' \in [Runs -> Runs \cup {NoRun}]
    <3>1. PICK from \in {r} \cup {run[p] : p \in {q \in Processors : at[q] = "handler"}} :
            root' = [root EXCEPT ![r] = IF from = r THEN r ELSE root[from]]
      BY <1>1 DEF StartInserts
    <3>2. from \in Runs
      BY <3>1 DEF QueueInv, Held
    <3> QED
      BY <3>1, <3>2 DEF RowInv
  <2> QED
    BY <1>1, <2>1, <2>2, CallsType DEF StartInserts, RowInv
<1>2. ASSUME NEW r \in Runs, StartDedupes(c, r) PROVE RowInv'
  <2>1. \E d \in Runs : target' = [target EXCEPT ![c] = d]
    BY <1>2 DEF StartDedupes, Duplicates, Existing
  <2> QED
    BY <1>2, <2>1, CallsType DEF StartDedupes, RowInv, rowVars
<1>3. ASSUME NEW r \in Runs, CancelCall(c, r) PROVE RowInv'
  BY <1>3, CallsType, SuperCancelType DEF CancelCall, RowInv
<1>4. ASSUME NEW r \in Runs, Replay(c, r) PROVE RowInv'
  <2>1. MaxReplays \in Nat
    BY BullJobsAssumption
  <2>2. replays' \in 0 .. MaxReplays
    BY <1>4, <2>1, Counts DEF Replay, RowInv
  <2>3. status' \in [Runs -> {"absent", "pending", "running"} \cup TERMINAL_STATUSES]
    BY <1>4 DEF Replay, RowInv
  <2> QED
    BY <1>4, <2>2, <2>3, CallsType DEF Replay, RowInv
<1>5. CASE Dispatch(c)
  <2>1. unbacked' \in SUBSET Runs
    BY <1>5 DEF Dispatch, RowInv
  <2> QED
    BY <1>5, <2>1, CallsType DEF Dispatch, RowInv, rowVars
<1>6. CASE CancelFailed(c)
  <2>1. pc[c] # "idle"
    BY <1>6 DEF CancelFailed
  <2> QED
    BY <1>6, <2>1, CallsType, SuperCancelType DEF CancelFailed, RowInv
<1>7. CASE RemoveTarget(c)
  <2>1. pc[c] # "idle" /\ target[c] \in Runs
    BY <1>7 DEF RemoveTarget, RowInv
  <2> QED
    BY <1>7, <2>1, CallsType, RemoveType DEF RemoveTarget, RowInv, rowVars
<1>8. CASE CancelFetch(c)
  <2>1. pc[c] # "idle"
    BY <1>8 DEF CancelFetch
  <2>2. Return(c) \/ /\ Goto(c, "cascade") /\ UNCHANGED target
                     /\ \E R \in SUBSET Runs : todo' = [todo EXCEPT ![c] = R]
    BY <1>8 DEF CancelFetch, Existing
  <2> QED
    BY <1>8, <2>1, <2>2, CallsType DEF CancelFetch, RowInv, rowVars
<1>9. CASE RemoveDescendant(c)
  <2>1. PICK d \in todo[c] :
          /\ RemoveFromQueue(d)
          /\ IF todo[c] = {d} THEN Return(c)
             ELSE todo' = [todo EXCEPT ![c] = @ \ {d}] /\ UNCHANGED <<pc, target>>
    BY <1>9 DEF RemoveDescendant
  <2>2. d \in Runs /\ todo[c] \in SUBSET Runs
    BY DEF RowInv
  <2>3. unbacked' \in SUBSET Runs
    BY <2>1, <2>2, RemoveType
  <2>4. CASE Return(c)
    BY <1>9, <2>3, <2>4, CallsType DEF RemoveDescendant, RowInv, rowVars
  <2>5. CASE todo' = [todo EXCEPT ![c] = @ \ {d}] /\ UNCHANGED <<pc, target>>
    BY <1>9, <2>2, <2>3, <2>5 DEF RemoveDescendant, RowInv, rowVars
  <2> QED
    BY <2>1, <2>4, <2>5
<1> QED
  BY <1>1, <1>2, <1>3, <1>4, <1>5, <1>6, <1>7, <1>8, <1>9 DEF Call

\* The writes of the processors and of the listener.
LEMMA WorkerRowInv ==
  ASSUME QueueInv, RowInv, NEW p \in Processors, Process(p) \/ ProcessorDies(p)
  PROVE  RowInv'
<1>1. ASSUME NEW j \in JobIds, Fetch(p, j) PROVE RowInv'
  BY <1>1 DEF Fetch, RowInv, rowVars, callVars
<1>2. CASE Load(p)
  BY <1>2 DEF Load, RowInv, rowVars, callVars
<1>3. CASE MarkRunning(p)
  BY <1>3 DEF MarkRunning, RowInv, callVars
<1>4. CASE MarkCompleted(p)
  <2>1. "completed" \in TERMINAL_STATUSES
    BY DEF TERMINAL_STATUSES
  <2>2. status' \in [Runs -> {"absent", "pending", "running"} \cup TERMINAL_STATUSES]
    BY <1>4, <2>1 DEF MarkCompleted, RowInv
  <2> QED
    BY <1>4, <2>2 DEF MarkCompleted, RowInv, callVars
<1>5. CASE Acknowledge(p)
  BY <1>5 DEF Acknowledge, ProcessorEnds, RowInv, rowVars, callVars
<1>6. CASE Throws(p)
  <2>1. run[p] \in Runs
    BY <1>6 DEF Throws, QueueInv, Held
  <2>2. exhausted' \in SUBSET Runs
    BY <1>6, <2>1 DEF Throws, RowInv
  <2> QED
    BY <1>6, <2>2 DEF Throws, ProcessorEnds, RowInv, rowVars, callVars
<1>7. CASE ProcessorDies(p)
  BY <1>7, FaultType DEF ProcessorDies, ProcessorEnds, RowInv, rowVars, callVars
<1> QED
  BY <1>1, <1>2, <1>3, <1>4, <1>5, <1>6, <1>7 DEF Process

LEMMA NextRowInv ==
  ASSUME QueueInv, RowInv, [Next]_vars
  PROVE  RowInv'
<1>1. CASE UNCHANGED vars
  BY <1>1 DEF vars, RowInv
<1>2. ASSUME NEW c \in Calls, CallDies(c) PROVE RowInv'
  <2>1. unbacked' \in SUBSET Runs
    BY <1>2 DEF CallDies, RowInv
  <2> QED
    BY <1>2, <2>1, FaultType, CallsType DEF CallDies, RowInv, rowVars
<1>3. ASSUME NEW c \in Calls, NEW r \in Runs, MarkFailed(c, r) PROVE RowInv'
  <2>1. status' \in [Runs -> {"absent", "pending", "running"} \cup TERMINAL_STATUSES]
    BY <1>3 DEF MarkFailed, RowInv, TERMINAL_STATUSES
  <2>2. CASE UNCHANGED callVars
    BY <1>3, <2>1, <2>2 DEF MarkFailed, RowInv, callVars
  <2>3. CASE target' = [target EXCEPT ![c] = r] /\ Goto(c, "super") /\ UNCHANGED todo
    BY <1>3, <2>1, <2>3, CallsType DEF MarkFailed, RowInv
  <2> QED
    BY <1>3, <2>2, <2>3 DEF MarkFailed
<1>4. ASSUME NEW r \in Runs, ListenerDies(r) PROVE RowInv'
  BY <1>4, FaultType DEF ListenerDies, RowInv, rowVars, callVars
<1> QED
  BY <1>1, <1>2, <1>3, <1>4, CallRowInv, WorkerRowInv DEF Next

\* Every state is well typed: the queue's attempts stay within the policy, and
\* whatever a processor executes is an active job.
THEOREM BullJobsTypes == Spec => []TypeOK
<1>1. QueueInv /\ RowInv /\ [Next]_vars => (QueueInv /\ RowInv)'
  BY NextQueueInv, NextRowInv
<1> QED
  BY <1>1, InitInv, InvTypes, PTL DEF Spec

\* A run is executed by one processor at a time, whatever is started twice,
\* replayed, cancelled or handed out again after a death.
THEOREM OneProcessor == Spec => []OneProcessorPerRun
<1>1. QueueInv /\ RowInv /\ [Next]_vars => (QueueInv /\ RowInv)'
  BY NextQueueInv, NextRowInv
<1>2. QueueInv /\ RowInv => OneProcessorPerRun
  BY DEF QueueInv, Held, OneProcessorPerRun
<1> QED
  BY <1>1, <1>2, InitInv, PTL DEF Spec

-----------------------------------------------------------------------------
(* Cancelled runs *)

\* A processor that will write the row of a cancelled run had read it before.
ReadBefore == \A p \in Processors :
  at[p] \in {"mark", "handler"} /\ status[run[p]] = "canceled" => p \in late

LEMMA ReadBeforeSame ==
  ASSUME ReadBefore, UNCHANGED <<procVars, late>>,
         \A r \in Runs : status'[r] = "canceled" => status[r] = "canceled",
         QueueInv
  PROVE  ReadBefore'
<1> SUFFICES ASSUME NEW p \in Processors, at[p] \in {"mark", "handler"}, status'[run[p]] = "canceled"
             PROVE  p \in late
  BY DEF ReadBefore, procVars
<1>1. run[p] \in Runs
  BY DEF QueueInv, Held
<1> QED
  BY <1>1 DEF ReadBefore

LEMMA ReadBeforeSuperCancel ==
  ASSUME QueueInv, RowInv, ReadBefore, NEW r, SuperCancel(r), UNCHANGED procVars
  PROVE  ReadBefore'
<1>1. CASE Terminal(r)
  BY <1>1, ReadBeforeSame DEF SuperCancel
<1>2. CASE ~ Terminal(r)
  <2> SUFFICES ASSUME NEW p \in Processors, at[p] \in {"mark", "handler"}, status'[run[p]] = "canceled"
               PROVE  p \in late'
    BY DEF ReadBefore, procVars
  <2>1. run[p] \in Runs
    BY DEF QueueInv, Held
  <2>2. CASE run[p] \in Cascade(r)
    BY <1>2, <2>2 DEF SuperCancel
  <2>3. CASE run[p] \notin Cascade(r)
    BY <1>2, <2>1, <2>3 DEF SuperCancel, ReadBefore
  <2> QED
    BY <2>2, <2>3
<1> QED
  BY <1>1, <1>2

\* A processor that gives up its job leaves the others as they are.
LEMMA ReadBeforeEnds ==
  ASSUME QueueInv, ReadBefore, NEW p \in Processors, ProcessorEnds(p), UNCHANGED status
  PROVE  ReadBefore'
BY DEF ReadBefore, ProcessorEnds, At, QueueInv

LEMMA NextReadBefore ==
  ASSUME QueueInv, RowInv, ReadBefore, [Next]_vars
  PROVE  ReadBefore'
<1>1. CASE UNCHANGED vars
  BY <1>1, ReadBeforeSame DEF vars, procVars
<1>2. ASSUME NEW c \in Calls, Call(c) PROVE ReadBefore'
  <2>1. ASSUME NEW r \in Runs, StartInserts(c, r) \/ Replay(c, r) PROVE ReadBefore'
    <3>1. \A q \in Runs : status'[q] = "canceled" => status[q] = "canceled"
      BY <2>1 DEF StartInserts, Replay, RowInv
    <3> QED
      BY <2>1, <3>1, ReadBeforeSame DEF StartInserts, Replay
  <2>2. ASSUME NEW r \in Runs, CancelCall(c, r) PROVE ReadBefore'
    BY <2>2, ReadBeforeSuperCancel DEF CancelCall
  <2>3. CASE CancelFailed(c)
    BY <2>3, ReadBeforeSuperCancel DEF CancelFailed
  <2>4. ASSUME UNCHANGED <<rowVars, procVars, late>> PROVE ReadBefore'
    BY <2>4, ReadBeforeSame DEF rowVars
  <2> QED
    BY <1>2, <2>1, <2>2, <2>3, <2>4
    DEF Call, StartDedupes, Dispatch, RemoveTarget, CancelFetch, RemoveDescendant
<1>3. ASSUME NEW c \in Calls, CallDies(c) PROVE ReadBefore'
  BY <1>3, ReadBeforeSame DEF CallDies, rowVars
<1>4. ASSUME NEW c \in Calls, NEW r \in Runs, MarkFailed(c, r) PROVE ReadBefore'
  <2>1. \A q \in Runs : status'[q] = "canceled" => status[q] = "canceled"
    BY <1>4 DEF MarkFailed, RowInv
  <2> QED
    BY <1>4, <2>1, ReadBeforeSame DEF MarkFailed
<1>5. ASSUME NEW p \in Processors, Process(p) PROVE ReadBefore'
  <2>0. run \in [Processors -> Runs \cup {NoRun}] /\ at \in [Processors -> {"idle", "load", "mark", "handler", "ack"}]
    BY DEF QueueInv
  <2>1. ASSUME NEW j \in JobIds, Fetch(p, j) PROVE ReadBefore'
    BY <2>0, <2>1 DEF Fetch, At, ReadBefore, rowVars
  <2>2. CASE Load(p)
    BY <2>0, <2>2 DEF Load, Skips, At, ReadBefore, rowVars
  <2>3. CASE MarkRunning(p) \/ MarkCompleted(p)
    <3>1. run[p] \in Runs /\ at[p] \in {"mark", "handler"}
      BY <2>3 DEF MarkRunning, MarkCompleted, QueueInv, Held
    <3>2. \A q \in Runs : status'[q] = "canceled" => status[q] = "canceled" /\ q # run[p]
      BY <2>3, <3>1 DEF MarkRunning, MarkCompleted, RowInv
    <3>3. \A q \in Processors : at'[q] \in {"mark", "handler"} => at[q] \in {"mark", "handler"} /\ run[q] \in Runs
      BY <2>0, <2>3, <3>1 DEF MarkRunning, MarkCompleted, At, QueueInv, Held
    <3> QED
      BY <2>3, <3>2, <3>3 DEF MarkRunning, MarkCompleted, ReadBefore
  <2>4. CASE Acknowledge(p) \/ Throws(p)
    BY <2>4, ReadBeforeEnds DEF Acknowledge, Throws, rowVars
  <2> QED
    BY <1>5, <2>1, <2>2, <2>3, <2>4 DEF Process
<1>6. ASSUME NEW p \in Processors, ProcessorDies(p) PROVE ReadBefore'
  BY <1>6, ReadBeforeEnds DEF ProcessorDies, rowVars
<1>7. ASSUME NEW r \in Runs, ListenerDies(r) PROVE ReadBefore'
  BY <1>7, ReadBeforeSame DEF ListenerDies, rowVars
<1> QED
  BY <1>1, <1>2, <1>3, <1>4, <1>5, <1>6, <1>7 DEF Next

Sticks == \A r \in Runs : status[r] = "canceled" /\ status'[r] # "canceled" =>
            \/ \E c \in Calls : Replay(c, r)
            \/ \E p \in late : run[p] = r
            \/ r \in exhausted

LEMMA SuperCancelSticks ==
  ASSUME RowInv, NEW r, SuperCancel(r)
  PROVE  Sticks
<1>1. CASE Terminal(r)
  BY <1>1 DEF SuperCancel, Sticks
<1>2. CASE ~ Terminal(r)
  BY <1>2 DEF SuperCancel, Sticks
<1> QED
  BY <1>1, <1>2

LEMMA NextSticks ==
  ASSUME QueueInv, RowInv, ReadBefore, [Next]_vars
  PROVE  Sticks
<1>1. CASE UNCHANGED status
  BY <1>1 DEF Sticks
<1>2. ASSUME NEW c \in Calls, NEW r \in Runs, StartInserts(c, r) PROVE Sticks
  BY <1>2 DEF StartInserts, Sticks, RowInv
<1>3. ASSUME NEW c \in Calls, NEW r \in Runs, Replay(c, r) PROVE Sticks
  <2>1. \A q \in Runs : status'[q] # status[q] => q = r
    BY <1>3 DEF Replay, RowInv
  <2> QED
    BY <1>3, <2>1 DEF Sticks
<1>4. ASSUME NEW c \in Calls, NEW r \in Runs, CancelCall(c, r) PROVE Sticks
  BY <1>4, SuperCancelSticks DEF CancelCall
<1>5. ASSUME NEW c \in Calls, CancelFailed(c) PROVE Sticks
  BY <1>5, SuperCancelSticks DEF CancelFailed
<1>6. ASSUME NEW c \in Calls, NEW r \in Runs, MarkFailed(c, r) PROVE Sticks
  BY <1>6 DEF MarkFailed, Sticks, RowInv
<1>7. ASSUME NEW p \in Processors, MarkRunning(p) \/ MarkCompleted(p) PROVE Sticks
  <2>1. \A q \in Runs : status'[q] # status[q] => q = run[p]
    BY <1>7 DEF MarkRunning, MarkCompleted, RowInv
  <2>2. status[run[p]] = "canceled" => p \in late
    BY <1>7 DEF MarkRunning, MarkCompleted, ReadBefore
  <2> QED
    BY <2>1, <2>2 DEF Sticks
<1> QED
  BY <1>1, <1>2, <1>3, <1>4, <1>5, <1>6, <1>7
  DEF Next, Call, Process, StartDedupes, Dispatch, RemoveTarget, CancelFetch, RemoveDescendant,
      CallDies, Fetch, Load, Acknowledge, Throws, ProcessorDies, ListenerDies, rowVars, vars

\* A cancel is undone by a replay, by a processor that had read the row before it
\* and by the listener of a failure before it, and by nothing else.
THEOREM CancelledRunsStay == Spec => CancelSticks
<1>1. Init => ReadBefore
  BY DEF Init, ReadBefore
<1>2. QueueInv /\ RowInv /\ ReadBefore /\ [Next]_vars => (QueueInv /\ RowInv /\ ReadBefore)'
  BY NextQueueInv, NextRowInv, NextReadBefore
<1>3. QueueInv /\ RowInv /\ ReadBefore /\ [Next]_vars => [Sticks]_vars
  BY NextSticks
<1>4. Spec => [][Sticks]_vars
  BY <1>1, <1>2, <1>3, InitInv, PTL DEF Spec
<1> QED
  BY <1>4 DEF CancelSticks, Sticks

-----------------------------------------------------------------------------
(* Two stores *)

Live(r) == status[r] \in {"pending", "running"}
Dispatching(r) == \E c \in Calls : pc[c] = "dispatch" /\ target[c] = r

\* Only statuses change, and no run comes to life.
LEMMA BackedByRows ==
  ASSUME LiveRunIsBacked, UNCHANGED <<key, queue, procVars, exhausted, unbacked>>,
         \A r \in Runs : Live(r)' => Live(r),
         \A r \in Runs : Dispatching(r) => Dispatching(r)'
  PROVE  LiveRunIsBacked'
BY DEF LiveRunIsBacked, Backed, HasJob, Live, Dispatching, procVars

LEMMA SuperCancelKills ==
  ASSUME NEW r, SuperCancel(r)
  PROVE  \A q \in Runs : Live(q)' => Live(q)
<1>1. CASE Terminal(r)
  BY <1>1 DEF SuperCancel, Live
<1>2. CASE ~ Terminal(r)
  BY <1>2 DEF SuperCancel, Live
<1> QED
  BY <1>1, <1>2

\* A call that is not about to dispatch goes on, or ends.
LEMMA DispatchersStay ==
  ASSUME RowInv, NEW c \in Calls, pc[c] # "dispatch",
         \/ Return(c)
         \/ /\ UNCHANGED pc \/ \E s \in {"dispatch", "super", "remove", "cascade", "fetch"} : Goto(c, s)
            /\ UNCHANGED target \/ \E r \in Runs : target' = [target EXCEPT ![c] = r]
  PROVE  \A r \in Runs : Dispatching(r) => Dispatching(r)'
<1>1. \A d \in Calls \ {c} : pc'[d] = pc[d] /\ target'[d] = target[d]
  BY DEF Return, Goto, RowInv
<1> SUFFICES ASSUME NEW r \in Runs, Dispatching(r) PROVE Dispatching(r)'
  OBVIOUS
<1>2. PICK d \in Calls : pc[d] = "dispatch" /\ target[d] = r
  BY DEF Dispatching
<1> QED
  BY <1>1, <1>2 DEF Dispatching

\* A run comes to life together with the call that will dispatch it.
LEMMA BackedByCall ==
  ASSUME RowInv, LiveRunIsBacked, NEW c \in Calls, NEW r \in Runs, pc[c] = "idle",
         status' = [status EXCEPT ![r] = "pending"],
         target' = [target EXCEPT ![c] = r], Goto(c, "dispatch"),
         UNCHANGED <<key, queue, procVars, exhausted, unbacked>>
  PROVE  LiveRunIsBacked'
<1>1. \A q \in Runs : Dispatching(q) => Dispatching(q)'
  BY DispatchersStay
<1>2. Dispatching(r)'
  BY DEF Dispatching, Goto, RowInv
<1>3. \A q \in Runs \ {r} : status'[q] = status[q]
  BY DEF RowInv
<1> SUFFICES ASSUME NEW q \in Runs, Live(q)' PROVE Backed(q)' \/ q \in unbacked
  BY DEF LiveRunIsBacked, Live
<1>4. CASE q = r
  BY <1>2, <1>4 DEF Backed, Dispatching
<1>5. CASE q # r
  <2>1. Backed(q) \/ q \in unbacked
    BY <1>3, <1>5 DEF LiveRunIsBacked, Live
  <2> QED
    BY <1>1, <2>1 DEF Backed, HasJob, Dispatching, procVars
<1> QED
  BY <1>4, <1>5

\* A job under the key of a run that nobody processes.
LEMMA BackedDispatch ==
  ASSUME QueueInv, RowInv, LiveRunIsBacked, NEW c \in Calls, Dispatch(c)
  PROVE  LiveRunIsBacked'
<1>0. PICK r \in Runs : r = target[c]
  BY DEF Dispatch, RowInv
<1>9. PICK j \in JobIds : j = key[r]
  BY KeyIsJobId DEF QueueInv
<1>1. /\ r = target[c] /\ j = key[r] /\ pc[c] = "dispatch" /\ Return(c)
      /\ UNCHANGED <<status, key, at, job, run, exhausted>>
  BY <1>0, <1>9 DEF Dispatch, rowVars, procVars
<1>2. \A d \in Calls \ {c} : pc'[d] = pc[d] /\ target'[d] = target[d]
  BY <1>1 DEF Return, Goto, RowInv
<1>3. \A q \in Runs \ {r} : Dispatching(q) => Dispatching(q)'
  BY <1>1, <1>2 DEF Dispatching
<1>4. \A q \in Runs \ {r} : (q \in unbacked' <=> q \in unbacked)
  <2>1. \/ unbacked' = unbacked \ {r}
        \/ unbacked' = IF HasJob(r) THEN unbacked ELSE unbacked \cup {r}
    BY <1>1 DEF Dispatch
  <2>2. CASE unbacked' = unbacked \ {r}
    BY <2>2 DEF RowInv
  <2>3. CASE unbacked' = IF HasJob(r) THEN unbacked ELSE unbacked \cup {r}
    BY <2>3 DEF RowInv
  <2> QED
    BY <2>1, <2>2, <2>3
<1> SUFFICES ASSUME NEW q \in Runs, Live(q) PROVE Backed(q)' \/ q \in unbacked'
  BY <1>1 DEF LiveRunIsBacked, Live
<1>5. Backed(q) \/ q \in unbacked
  BY DEF LiveRunIsBacked, Live
<1>6. CASE Holds(j, "none")
  <2>1. queue' = [queue EXCEPT ![j] = [state |-> "waiting", run |-> r, made |-> 0]]
    BY <1>1, <1>6 DEF Dispatch
  <2>2. \A p \in Processors : run[p] = r => at[p] = "idle"
    BY <1>1, <1>6 DEF QueueInv, Held, Holds
  <2>3. HasJob(r)'
    <3>1. queue'[j] = [state |-> "waiting", run |-> r, made |-> 0]
      BY <1>1, <2>1 DEF QueueInv
    <3>2. queue'[j].run = r /\ queue'[j].state = "waiting"
      BY <3>1
    <3> QED
      BY <1>1, <2>2, <3>2 DEF HasJob
  <2>4. \A i \in JobIds \ {j} : queue'[i] = queue[i]
    BY <2>1 DEF QueueInv
  <2>5. CASE q # r
    <3>1. HasJob(q) => HasJob(q)'
      <4> SUFFICES ASSUME HasJob(q) PROVE HasJob(q)'
        OBVIOUS
      <4>1. key[q] \in JobIds /\ key[q] # j
        BY <1>1, <1>6, KeyIsJobId DEF QueueInv, HasJob, Holds
      <4> QED
        BY <1>1, <2>4, <4>1 DEF HasJob
    <3>2. CASE HasJob(q)
      BY <3>1, <3>2 DEF Backed
    <3>3. CASE Dispatching(q)
      BY <1>3, <2>5, <3>3 DEF Backed, Dispatching
    <3>4. CASE q \in exhausted \/ q \in unbacked
      BY <1>1, <1>4, <2>5, <3>4 DEF Backed
    <3> QED
      BY <1>5, <3>2, <3>3, <3>4 DEF Backed, Dispatching
  <2> QED
    BY <2>3, <2>5 DEF Backed
<1>7. CASE ~ Holds(j, "none")
  <2>1. UNCHANGED queue /\ unbacked' = IF HasJob(r) THEN unbacked ELSE unbacked \cup {r}
    BY <1>1, <1>7 DEF Dispatch
  <2>2. CASE q = r
    <3>1. CASE HasJob(r)
      BY <1>1, <2>1, <2>2, <3>1 DEF Backed, HasJob
    <3>2. CASE ~ HasJob(r)
      BY <1>1, <2>1, <2>2, <3>2 DEF RowInv
    <3> QED
      BY <3>1, <3>2
  <2>3. CASE q # r
    BY <1>1, <1>3, <1>4, <1>5, <2>1, <2>3 DEF Backed, HasJob, Dispatching
  <2> QED
    BY <2>2, <2>3
<1> QED
  BY <1>6, <1>7

LEMMA BackedRemove ==
  ASSUME QueueInv, RowInv, LiveRunIsBacked, NEW r \in Runs, RemoveFromQueue(r),
         UNCHANGED <<rowVars, procVars, exhausted>>,
         \A q \in Runs : Dispatching(q) => Dispatching(q)'
  PROVE  LiveRunIsBacked'
<1> DEFINE j == key[r]
<1>0. j \in JobIds /\ UNCHANGED <<status, key, at, job, run, exhausted>>
  BY KeyIsJobId DEF QueueInv, rowVars, procVars
<1>1. CASE ~ Removable(j)
  BY <1>0, <1>1, BackedByRows DEF RemoveFromQueue, rowVars, Live
<1>2. CASE Removable(j)
  <2>1. queue' = [queue EXCEPT ![j] = NoJob] /\ ~ Holds(j, "active")
    BY <1>2 DEF RemoveFromQueue, Removable
  <2>2. \A i \in JobIds \ {j} : queue'[i] = queue[i]
    BY <2>1 DEF QueueInv
  <2>3. \A q \in Runs : q \in unbacked => q \in unbacked'
    BY <1>2 DEF RemoveFromQueue, RowInv
  <2> SUFFICES ASSUME NEW q \in Runs, Live(q) PROVE Backed(q)' \/ q \in unbacked'
    BY <1>0 DEF LiveRunIsBacked, Live
  <2>4. Backed(q) \/ q \in unbacked
    BY DEF LiveRunIsBacked, Live
  <2>5. CASE HasJob(q) /\ key[q] = j
    <3>1. Holds(j, "waiting") /\ queue[j].run = q
      BY <2>1, <2>5 DEF HasJob, Holds
    <3>2. q \in unbacked'
      BY <1>2, <3>1 DEF RemoveFromQueue, RowInv
    <3> QED
      BY <3>2
  <2>6. CASE HasJob(q) /\ key[q] # j
    <3>1. key[q] \in JobIds
      BY KeyIsJobId DEF QueueInv
    <3>2. HasJob(q)'
      BY <1>0, <2>2, <2>6, <3>1 DEF HasJob
    <3> QED
      BY <3>2 DEF Backed
  <2>7. CASE ~ HasJob(q)
    BY <1>0, <2>3, <2>4, <2>7 DEF Backed, Dispatching
  <2> QED
    BY <2>5, <2>6, <2>7
<1> QED
  BY <1>1, <1>2

\* A processor gives up a job for another attempt or for good.
LEMMA BackedEnds ==
  ASSUME QueueInv, RowInv, LiveRunIsBacked, NEW p \in Processors, at[p] # "idle",
         ProcessorEnds(p), NEW x, queue' = [queue EXCEPT ![job[p]] = x],
         \/ x.state = "waiting" /\ x.run = run[p]
         \/ at[p] = "ack"
         \/ run[p] \in exhausted',
         exhausted \subseteq exhausted', UNCHANGED <<rowVars, callVars, unbacked>>
  PROVE  LiveRunIsBacked'
<1>1. job[p] \in JobIds /\ job[p] = key[run[p]] /\ queue[job[p]].run = run[p] /\ run[p] \in Runs
  BY KeyIsJobId DEF QueueInv, Held
<1>2. queue'[job[p]] = x /\ \A i \in JobIds \ {job[p]} : queue'[i] = queue[i]
  BY <1>1 DEF QueueInv
<1>3. /\ at'[p] = "idle" /\ run'[p] = NoRun
      /\ \A q \in Processors \ {p} : at'[q] = at[q] /\ run'[q] = run[q]
  BY DEF ProcessorEnds, At, QueueInv
<1>4. UNCHANGED <<status, key, pc, target, unbacked>>
  BY DEF rowVars, callVars
<1> SUFFICES ASSUME NEW r \in Runs, Live(r) PROVE Backed(r)' \/ r \in unbacked
  BY <1>4 DEF LiveRunIsBacked, Live
<1>5. Backed(r) \/ r \in unbacked
  BY DEF LiveRunIsBacked, Live
<1>6. key[r] \in JobIds
  BY KeyIsJobId DEF QueueInv
<1>7. CASE HasJob(r) /\ key[r] # job[p]
  BY <1>2, <1>3, <1>4, <1>6, <1>7 DEF HasJob, Backed
<1>8. CASE HasJob(r) /\ key[r] = job[p]
  <2>1. r = run[p] /\ at[p] # "ack"
    BY <1>1, <1>8 DEF HasJob
  <2>2. CASE x.state = "waiting" /\ x.run = run[p]
    BY <1>2, <1>3, <1>4, <1>8, <2>1, <2>2 DEF HasJob, Backed
  <2>3. CASE run[p] \in exhausted'
    BY <2>1, <2>3 DEF Backed
  <2> QED
    BY <2>1, <2>2, <2>3
<1>9. CASE ~ HasJob(r)
  BY <1>4, <1>5, <1>9 DEF Backed
<1> QED
  BY <1>7, <1>8, <1>9

LEMMA BackedThrows ==
  ASSUME QueueInv, RowInv, LiveRunIsBacked, NEW p \in Processors, Throws(p)
  PROVE  LiveRunIsBacked'
<1> DEFINE old == queue[job[p]]
           new == [old EXCEPT !.made = old.made + 1,
                              !.state = IF old.made + 1 < Attempts THEN "waiting" ELSE "failed"]
<1>1. at[p] # "idle" /\ at[p] # "ack" /\ ProcessorEnds(p) /\ UNCHANGED <<rowVars, callVars, unbacked>>
  BY DEF Throws
<1>2. /\ queue[job[p]] \in JobRecords /\ old.made \in Nat /\ old.run = run[p]
  BY <1>1, KeyIsJobId, BullJobsAssumption DEF QueueInv, JobRecords, Held
<1>3. queue' = [queue EXCEPT ![job[p]] = new]
  BY DEF Throws
<1>4. CASE old.made + 1 < Attempts
  <2>1. new.state = "waiting" /\ new.run = run[p] /\ exhausted \subseteq exhausted'
    BY <1>2, <1>4 DEF JobRecords, Throws
  <2> HIDE DEF new, old
  <2> QED
    BY <1>1, <1>3, <2>1, BackedEnds
<1>5. CASE ~ (old.made + 1 < Attempts)
  <2>1. run[p] \in exhausted' /\ exhausted \subseteq exhausted'
    BY <1>2, <1>5, BullJobsAssumption DEF Throws, Exhausted
  <2> HIDE DEF new, old
  <2> QED
    BY <1>1, <1>3, <2>1, BackedEnds
<1> QED
  BY <1>4, <1>5

LEMMA BackedFetch ==
  ASSUME QueueInv, RowInv, LiveRunIsBacked, NEW p \in Processors, NEW j \in JobIds, Fetch(p, j)
  PROVE  LiveRunIsBacked'
<1>1. /\ queue[j] \in JobRecords /\ queue[j].state = "waiting"
      /\ UNCHANGED <<status, key, pc, target, exhausted, unbacked>>
  BY DEF Fetch, Holds, QueueInv, rowVars, callVars
<1>2. /\ queue'[j].state = "active" /\ queue'[j].run = queue[j].run
      /\ \A i \in JobIds \ {j} : queue'[i] = queue[i]
  BY <1>1 DEF Fetch, QueueInv, JobRecords
<1>3. at'[p] = "load" /\ \A q \in Processors \ {p} : at'[q] = at[q] /\ run'[q] = run[q]
  BY DEF Fetch, At, QueueInv
<1>4. \A r \in Runs : HasJob(r) => HasJob(r)'
  BY <1>1, <1>2, <1>3, KeyIsJobId DEF HasJob, QueueInv
<1> QED
  BY <1>1, <1>4 DEF LiveRunIsBacked, Backed

LEMMA BackedStatement ==
  ASSUME QueueInv, RowInv, LiveRunIsBacked, NEW p \in Processors,
         Load(p) \/ MarkRunning(p) \/ MarkCompleted(p)
  PROVE  LiveRunIsBacked'
<1>1. /\ UNCHANGED <<key, queue, job, run, pc, target, exhausted, unbacked>>
      /\ at[p] # "idle" /\ run[p] \in Runs
      /\ \A q \in Processors \ {p} : at'[q] = at[q] /\ run[q] # run[p]
  <2>1. UNCHANGED <<key, queue, job, run, pc, target, exhausted, unbacked>> /\ at[p] # "idle"
    BY DEF Load, MarkRunning, MarkCompleted, rowVars, callVars
  <2>2. run[p] \in Runs /\ \A q \in Processors \ {p} : run[q] # run[p]
    BY <2>1, BullJobsAssumption DEF QueueInv, Held
  <2>3. \A q \in Processors \ {p} : at'[q] = at[q]
    BY DEF Load, MarkRunning, MarkCompleted, At, QueueInv
  <2> QED
    BY <2>1, <2>2, <2>3
<1>2. \A r \in Runs \ {run[p]} : status'[r] = status[r] /\ (HasJob(r) => HasJob(r)')
  BY <1>1 DEF Load, MarkRunning, MarkCompleted, HasJob, RowInv, rowVars
<1>3. Live(run[p])' => HasJob(run[p])'
  <2>1. /\ queue[key[run[p]]].run = run[p] /\ queue[key[run[p]]].state = "active"
    BY <1>1 DEF QueueInv, Held
  <2>2. CASE Load(p)
    <3>1. Live(run[p])' => at'[p] = "mark"
      BY <1>1, <2>2 DEF Load, Skips, At, Live, QueueInv, rowVars
    <3> QED
      BY <1>1, <2>1, <3>1 DEF HasJob
  <2>3. CASE MarkRunning(p)
    <3>1. at'[p] = "handler"
      BY <2>3 DEF MarkRunning, At, QueueInv
    <3> QED
      BY <1>1, <2>1, <3>1 DEF HasJob
  <2>4. CASE MarkCompleted(p)
    BY <1>1, <2>4 DEF MarkCompleted, Live, RowInv
  <2> QED
    BY <2>2, <2>3, <2>4
<1> SUFFICES ASSUME NEW r \in Runs, Live(r)' PROVE Backed(r)' \/ r \in unbacked
  BY <1>1 DEF LiveRunIsBacked, Live
<1>4. CASE r = run[p]
  BY <1>1, <1>3, <1>4 DEF Backed
<1>5. CASE r # run[p]
  <2>1. Backed(r) \/ r \in unbacked
    BY <1>2, <1>5 DEF LiveRunIsBacked, Live
  <2> QED
    BY <1>1, <1>2, <1>5, <2>1 DEF Backed
<1> QED
  BY <1>4, <1>5

LEMMA NextBacked ==
  ASSUME QueueInv, RowInv, LiveRunIsBacked, [Next]_vars
  PROVE  LiveRunIsBacked'
<1>1. CASE UNCHANGED vars
  BY <1>1 DEF vars, LiveRunIsBacked, Backed, HasJob
<1>2. ASSUME NEW c \in Calls, Call(c) PROVE LiveRunIsBacked'
  <2>1. ASSUME NEW r \in Runs, StartInserts(c, r) \/ Replay(c, r) PROVE LiveRunIsBacked'
    BY <2>1, BackedByCall DEF StartInserts, Replay
  <2>2. ASSUME NEW r \in Runs, StartDedupes(c, r) PROVE LiveRunIsBacked'
    <3>1. /\ pc[c] = "idle" /\ \E d \in Runs : target' = [target EXCEPT ![c] = d]
          /\ Goto(c, "dispatch")
      BY <2>2 DEF StartDedupes, Duplicates, Existing
    <3>2. \A q \in Runs : Dispatching(q) => Dispatching(q)'
      BY <3>1, DispatchersStay
    <3> QED
      BY <2>2, <3>2, BackedByRows DEF StartDedupes, rowVars, Live
  <2>3. ASSUME NEW r \in Runs, CancelCall(c, r) PROVE LiveRunIsBacked'
    <3>1. \A q \in Runs : Dispatching(q) => Dispatching(q)'
      BY <2>3, DispatchersStay DEF CancelCall
    <3> QED
      BY <2>3, <3>1, BackedByRows, SuperCancelKills DEF CancelCall
  <2>4. CASE CancelFailed(c)
    <3>1. \A q \in Runs : Dispatching(q) => Dispatching(q)'
      BY <2>4, DispatchersStay DEF CancelFailed
    <3> QED
      BY <2>4, <3>1, BackedByRows, SuperCancelKills DEF CancelFailed
  <2>5. CASE RemoveTarget(c)
    <3>1. \A q \in Runs : Dispatching(q) => Dispatching(q)'
      BY <2>5, DispatchersStay DEF RemoveTarget
    <3>2. target[c] \in Runs
      BY <2>5 DEF RemoveTarget, RowInv
    <3> QED
      BY <2>5, <3>1, <3>2, BackedRemove DEF RemoveTarget
  <2>6. CASE CancelFetch(c)
    <3>1. \A q \in Runs : Dispatching(q) => Dispatching(q)'
      BY <2>6, DispatchersStay DEF CancelFetch
    <3> QED
      BY <2>6, <3>1, BackedByRows DEF CancelFetch, rowVars, Live
  <2>7. CASE RemoveDescendant(c)
    <3>1. PICK d \in todo[c] :
            /\ RemoveFromQueue(d)
            /\ IF todo[c] = {d} THEN Return(c)
               ELSE todo' = [todo EXCEPT ![c] = @ \ {d}] /\ UNCHANGED <<pc, target>>
      BY <2>7 DEF RemoveDescendant
    <3>2. d \in Runs
      BY DEF RowInv
    <3>3. \A q \in Runs : Dispatching(q) => Dispatching(q)'
      BY <2>7, <3>1, DispatchersStay DEF RemoveDescendant
    <3> QED
      BY <2>7, <3>1, <3>2, <3>3, BackedRemove DEF RemoveDescendant
  <2> QED
    BY <1>2, <2>1, <2>2, <2>3, <2>4, <2>5, <2>6, <2>7, BackedDispatch DEF Call
<1>3. ASSUME NEW c \in Calls, CallDies(c) PROVE LiveRunIsBacked'
  <2>1. /\ Return(c) /\ UNCHANGED <<status, key, queue, at, run, exhausted>>
    BY <1>3 DEF CallDies, rowVars, procVars
  <2>2. \A d \in Calls \ {c} : pc'[d] = pc[d] /\ target'[d] = target[d]
    BY <2>1 DEF Return, Goto, RowInv
  <2>3. \A q \in Runs : q \in unbacked => q \in unbacked'
    BY <1>3 DEF CallDies, RowInv
  <2>4. \A q \in Runs : Dispatching(q) => Dispatching(q)' \/ q \in unbacked'
    <3> SUFFICES ASSUME NEW q \in Runs, Dispatching(q), ~ Dispatching(q)' PROVE q \in unbacked'
      OBVIOUS
    <3>1. pc[c] = "dispatch" /\ target[c] = q
      BY <2>2 DEF Dispatching
    <3> QED
      BY <1>3, <2>3, <3>1 DEF CallDies, RowInv
  <2>5. \A q \in Runs : HasJob(q) => HasJob(q)'
    BY <2>1 DEF HasJob
  <2> SUFFICES ASSUME NEW q \in Runs, Live(q) PROVE Backed(q)' \/ q \in unbacked'
    BY <2>1 DEF LiveRunIsBacked, Live
  <2>6. HasJob(q) \/ Dispatching(q) \/ q \in exhausted \/ q \in unbacked
    BY DEF LiveRunIsBacked, Live, Backed, Dispatching
  <2> QED
    BY <2>1, <2>3, <2>4, <2>5, <2>6 DEF Backed, Dispatching
<1>4. ASSUME NEW c \in Calls, NEW r \in Runs, MarkFailed(c, r) PROVE LiveRunIsBacked'
  <2>1. pc[c] = "idle" /\ (UNCHANGED <<pc, target>> \/ (Goto(c, "super") /\ target' = [target EXCEPT ![c] = r]))
    BY <1>4 DEF MarkFailed, callVars
  <2>2. \A q \in Runs : Dispatching(q) => Dispatching(q)'
    BY <2>1, DispatchersStay
  <2>3. \A q \in Runs : Live(q)' => Live(q) /\ q # r
    BY <1>4 DEF MarkFailed, Live, RowInv
  <2>4. /\ UNCHANGED <<key, queue, at, run, unbacked>>
        /\ \A q \in Runs : q \in exhausted /\ q # r => q \in exhausted'
    BY <1>4 DEF MarkFailed, procVars
  <2> SUFFICES ASSUME NEW q \in Runs, Live(q)' PROVE Backed(q)' \/ q \in unbacked
    BY <2>4 DEF LiveRunIsBacked, Live
  <2>5. HasJob(q) \/ Dispatching(q) \/ q \in exhausted \/ q \in unbacked
    BY <2>3 DEF LiveRunIsBacked, Live, Backed, Dispatching
  <2>6. HasJob(q) => HasJob(q)'
    BY <2>4 DEF HasJob
  <2> QED
    BY <2>2, <2>3, <2>4, <2>5, <2>6 DEF Backed, Dispatching
<1>5. ASSUME NEW p \in Processors, Process(p) PROVE LiveRunIsBacked'
  <2>1. CASE Acknowledge(p)
    <3>1. /\ at[p] = "ack" /\ ProcessorEnds(p) /\ UNCHANGED <<rowVars, callVars, exhausted, unbacked>>
          /\ queue' = [queue EXCEPT ![job[p]] = [queue[job[p]] EXCEPT !.state = "completed"]]
      BY <2>1 DEF Acknowledge
    <3> QED
      BY <3>1, BackedEnds
  <2> QED
    BY <1>5, <2>1, BackedFetch, BackedStatement, BackedThrows DEF Process
<1>6. ASSUME NEW p \in Processors, ProcessorDies(p) PROVE LiveRunIsBacked'
  <2> DEFINE x == [queue[job[p]] EXCEPT !.state = "waiting"]
  <2>1. /\ at[p] # "idle" /\ ProcessorEnds(p) /\ UNCHANGED <<rowVars, callVars, exhausted, unbacked>>
        /\ queue' = [queue EXCEPT ![job[p]] = x]
    BY <1>6 DEF ProcessorDies
  <2>2. queue[job[p]] \in JobRecords /\ queue[job[p]].run = run[p]
    BY <2>1, KeyIsJobId DEF QueueInv, Held
  <2>3. x.state = "waiting" /\ x.run = run[p]
    BY <2>2 DEF JobRecords
  <2> HIDE DEF x
  <2> QED
    BY <2>1, <2>3, BackedEnds
<1>7. ASSUME NEW r \in Runs, ListenerDies(r) PROVE LiveRunIsBacked'
  <2>1. /\ UNCHANGED <<status, key, queue, at, run, pc, target>>
        /\ exhausted' = exhausted \ {r} /\ unbacked' = unbacked \cup {r}
    BY <1>7 DEF ListenerDies, rowVars, procVars, callVars
  <2>2. \A q \in Runs : q \in unbacked' <=> q = r \/ q \in unbacked
    BY <2>1 DEF RowInv
  <2>3. \A q \in Runs : HasJob(q) => HasJob(q)'
    BY <2>1 DEF HasJob
  <2> SUFFICES ASSUME NEW q \in Runs, Live(q) PROVE Backed(q)' \/ q \in unbacked'
    BY <2>1 DEF LiveRunIsBacked, Live
  <2>4. Backed(q) \/ q \in unbacked
    BY DEF LiveRunIsBacked, Live
  <2>5. CASE q = r
    BY <2>2, <2>5
  <2>6. CASE q # r
    BY <2>1, <2>2, <2>3, <2>4, <2>6 DEF Backed
  <2> QED
    BY <2>5, <2>6
<1> QED
  BY <1>1, <1>2, <1>3, <1>4, <1>5, <1>6, <1>7 DEF Next

\* A row that is not terminal has a job, a call that will add one, or a listener
\* that will write it, unless one of the three named gaps took its job.
THEOREM LiveRunsAreBacked == Spec => []LiveRunIsBacked
<1>1. Init => LiveRunIsBacked
  BY DEF Init, LiveRunIsBacked
<1>2. QueueInv /\ RowInv /\ LiveRunIsBacked /\ [Next]_vars
        => (QueueInv /\ RowInv /\ LiveRunIsBacked)'
  BY NextQueueInv, NextRowInv, NextBacked
<1> QED
  BY <1>1, <1>2, InitInv, PTL DEF Spec

-----------------------------------------------------------------------------
(* The lease *)

\* A run has one processor at most, so the CHOOSE of the mapping has one choice.
HolderIsProcessor ==
  \A r \in Runs :
    /\ \A p \in Processors : HolderOf(r) = p <=> run[p] = r
    /\ HolderOf(r) = Nobody <=> \A p \in Processors : run[p] # r

LEMMA ProcessorHolds == OneProcessorPerRun => HolderIsProcessor
<1> SUFFICES ASSUME OneProcessorPerRun, NEW r \in Runs
             PROVE  /\ \A p \in Processors : HolderOf(r) = p <=> run[p] = r
                    /\ HolderOf(r) = Nobody <=> \A p \in Processors : run[p] # r
  BY DEF HolderIsProcessor
<1>1. \A p, q \in Processors : run[p] = r /\ run[q] = r => p = q
  BY BullJobsAssumption DEF OneProcessorPerRun
<1>2. CASE \E p \in Processors : run[p] = r
  <2>1. HolderOf(r) \in Processors /\ run[HolderOf(r)] = r
    BY <1>2 DEF HolderOf
  <2> QED
    BY <1>1, <2>1, BullJobsAssumption
<1>3. CASE ~ \E p \in Processors : run[p] = r
  <2>1. HolderOf(r) = Nobody
    BY <1>3 DEF HolderOf
  <2> QED
    BY <1>3, <2>1, BullJobsAssumption
<1> QED
  BY <1>2, <1>3

\* A processor gets a job whose run nobody had.
LEMMA FetchAcquires ==
  ASSUME QueueInv, HolderIsProcessor, HolderIsProcessor', OneProcessorPerRun',
         NEW p \in Processors, NEW j \in JobIds, Fetch(p, j)
  PROVE  Lease!LeaseNext
<1>1. PICK r \in Runs : /\ run' = [run EXCEPT ![p] = r] /\ run[p] = NoRun
                         /\ run \in [Processors -> Runs \cup {NoRun}]
  BY DEF Fetch, Holds, QueueInv, Queued
<1>2. \A q \in Processors : q # p => run'[q] = run[q] /\ run[q] # r
  <2>1. \A q \in Processors : q # p => run'[q] = run[q]
    BY <1>1
  <2>2. run'[p] = r /\ r # NoRun
    BY <1>1, BullJobsAssumption
  <2> QED
    BY <2>1, <2>2 DEF OneProcessorPerRun
<1>3. HolderOf(r) = Nobody /\ HolderOf(r)' = p
  <2>1. run[p] # r /\ run'[p] = r
    BY <1>1, BullJobsAssumption
  <2> QED
    BY <1>1, <1>2, <2>1 DEF HolderIsProcessor
<1>4. \A q \in Runs : HolderOf(q) # p
  BY <1>1, BullJobsAssumption DEF HolderIsProcessor
<1>5. ASSUME NEW q \in Runs, q # r PROVE HolderOf(q)' = HolderOf(q)
  <2>1. \A x \in Processors : run'[x] = q <=> run[x] = q
    BY <1>1, <1>5, BullJobsAssumption
  <2> QED
    BY <2>1 DEF HolderIsProcessor
<1>6. [q \in Runs |-> HolderOf(q)]' = [q \in Runs |-> HolderOf(q)']
  OBVIOUS
<1>7. [q \in Runs |-> HolderOf(q)'] = [[q \in Runs |-> HolderOf(q)] EXCEPT ![r] = p]
  BY <1>1, <1>3, <1>5
<1>8. Lease!Acquire(r, p)
  BY <1>1, <1>3, <1>4, <1>6, <1>7 DEF Lease!Acquire
<1> QED
  BY <1>1, <1>8 DEF Lease!LeaseNext

\* A processor that acknowledges, throws or dies ends its hold.
LEMMA EndsHold ==
  ASSUME QueueInv, HolderIsProcessor, HolderIsProcessor', NEW p \in Processors,
         at[p] # "idle", ProcessorEnds(p)
  PROVE  Lease!LeaseNext
<1>1. PICK r \in Runs : /\ run' = [run EXCEPT ![p] = NoRun] /\ run[p] = r
                         /\ run \in [Processors -> Runs \cup {NoRun}]
  BY DEF ProcessorEnds, QueueInv, Held
<1>2. HolderOf(r) = p /\ HolderOf(r) # Nobody /\ \A q \in Processors : q # p => run[q] # r
  BY <1>1, BullJobsAssumption DEF HolderIsProcessor
<1>3. HolderOf(r)' = Nobody
  <2>1. \A q \in Processors : run'[q] # r
    BY <1>1, <1>2, BullJobsAssumption
  <2> QED
    BY <1>1, <2>1 DEF HolderIsProcessor
<1>4. ASSUME NEW q \in Runs, q # r PROVE HolderOf(q)' = HolderOf(q)
  <2>1. \A x \in Processors : run'[x] = q <=> run[x] = q
    BY <1>1, <1>4, BullJobsAssumption
  <2> QED
    BY <2>1 DEF HolderIsProcessor
<1>5. [q \in Runs |-> HolderOf(q)]' = [q \in Runs |-> HolderOf(q)']
  OBVIOUS
<1>6. {r} \in SUBSET Lease!Held
  BY <1>1, <1>2 DEF Lease!Held
<1>7. Lease!End({r})
  BY <1>1, <1>3, <1>4, <1>5 DEF Lease!End
<1> QED
  BY <1>6, <1>7 DEF Lease!LeaseNext

\* The BullMQ backend implements the lease, for every number of runs, calls and
\* processors and every assignment of dedupe keys: a run is acquired when nobody
\* holds it, and held until its processor is through with it or dies.
THEOREM QueueImplementsLease == Spec => ImplementsLease
<1> DEFINE Inv == QueueInv /\ RowInv
<1>1. Init => Lease!LeaseInit
  <2> SUFFICES ASSUME Init PROVE [r \in Runs |-> HolderOf(r)] = [r \in Runs |-> Nobody]
    BY DEF Lease!LeaseInit
  <2> QED
    BY BullJobsAssumption DEF Init, HolderOf
<1>2. Inv => OneProcessorPerRun
  BY DEF QueueInv, Held, OneProcessorPerRun
<1>3. Inv /\ [Next]_vars => Inv'
  BY NextQueueInv, NextRowInv
<1>4. Inv /\ Inv' /\ [Next]_vars => [Lease!LeaseNext]_(Lease!leaseVars)
  <2> SUFFICES ASSUME Inv, Inv', [Next]_vars
               PROVE  Lease!LeaseNext \/ UNCHANGED Lease!leaseVars
    OBVIOUS
  <2>1. OneProcessorPerRun /\ HolderIsProcessor
    BY <1>2, ProcessorHolds
  <2>2. OneProcessorPerRun'
    BY <1>2, PTL
  <2>3. HolderIsProcessor'
    BY <2>2, ProcessorHolds, PTL
  <2>4. CASE UNCHANGED run
    BY <2>4 DEF Lease!leaseVars, HolderOf
  <2>5. ASSUME NEW p \in Processors, NEW j \in JobIds, Fetch(p, j) PROVE Lease!LeaseNext
    BY <2>1, <2>2, <2>3, <2>5, FetchAcquires
  <2>6. ASSUME NEW p \in Processors, Acknowledge(p) \/ Throws(p) \/ ProcessorDies(p)
        PROVE  Lease!LeaseNext
    BY <2>1, <2>3, <2>6, EndsHold DEF Acknowledge, Throws, ProcessorDies
  <2> QED
    BY <2>4, <2>5, <2>6
       DEF Next, Call, Process, StartInserts, StartDedupes, CancelCall, Replay, Dispatch,
           CancelFailed, RemoveTarget, CancelFetch, RemoveDescendant, CallDies, MarkFailed, Load,
           MarkRunning, MarkCompleted, ListenerDies, procVars, vars
<1> QED
  BY <1>1, <1>3, <1>4, InitInv, PTL DEF Spec, ImplementsLease, Lease!LeaseSpec

=============================================================================
