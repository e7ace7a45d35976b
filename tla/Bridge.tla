-------------------------------- MODULE Bridge --------------------------------
(***************************************************************************)
(* The event-to-job bridge, composed with the outbox that drives it:       *)
(* bridge-outbox-drain-hook.ts writes ledger and wrapper rows in the       *)
(* transaction of a drained event, event-flow.service.ts writes the ledger *)
(* ahead of the drain when it starts the job itself, and                   *)
(* bridge-delivery-handler.ts is what a worker runs for a wrapper.         *)
(*                                                                         *)
(* A DELIVERY is a pair of an event and a trigger of its type; the unique  *)
(* key of bridge_delivery makes it the name of its ledger row, and of its  *)
(* wrapper run, which is written with the row.  The job worker is reduced  *)
(* to what it does to a wrapper (JobWorker has how): one execution at a    *)
(* time unless a live claim is swept, and step results kept in job_step.   *)
(***************************************************************************)
EXTENDS EventOutbox

CONSTANTS
  Triggers,   \* trigger ids
  Registry,   \* bridgeRegistry: the triggers of an event's type
  EagerJob,   \* the triggers whose jobType publishAndStart is called with
  Inert,      \* events of the audit tier, or without a direction
  Execs,      \* executions of wrappers that can be open at once
  Declined,   \* of each execution, by its build: the deliveries whose `when`
              \* is false or whose trigger it does not know
  NoDelivery

Deliveries == {d \in Events \X Triggers : d[2] \in Registry[d[1]]}

BridgeFaults == {"dbError", "workerCrash", "stall", "replay"}

ASSUME BridgeAssumption ==
  /\ Registry \in [Events -> SUBSET Triggers]
  /\ EagerJob \subseteq Triggers
  /\ Inert \subseteq Events
  /\ Declined \in [Execs -> SUBSET (Events \X Triggers)]
  /\ NoDelivery \notin Events \X Triggers
  /\ Allowed \subseteq OutboxFaults \cup BridgeFaults

VARIABLES
  ledger,     \* bridge_delivery.status, "absent" before the insert
  wrapper,    \* status of the wrapper run, "absent" when there is none
  memo,       \* deliveries whose step spawn_user_run is recorded completed
  at,         \* the await an execution of a wrapper is suspended at
  on,         \* the delivery it works on
  spawned,    \* history: user runs started by the wrapper of a delivery
  eager,      \* history: events published with publishAndStart
  doubtful    \* history: deliveries whose memo was lost, or never alone

ledgerVars  == <<ledger, wrapper, memo>>
handlerVars == <<at, on>>
bridgeOnly  == <<ledger, wrapper, memo, at, on, spawned, eager, doubtful>>
vars == <<outboxVars, ledger, wrapper, memo, at, on, spawned, eager, doubtful>>

Steps == {"idle", "load", "skip", "find", "open", "start", "record", "mark", "settle", "error"}

TypeOK ==
  /\ OutboxTypeOK
  /\ ledger \in [Deliveries -> {"absent", "pending", "delivered", "skipped"}]
  /\ wrapper \in [Deliveries -> {"absent", "pending", "running", "completed", "failed"}]
  /\ memo \in SUBSET Deliveries
  /\ at \in [Execs -> Steps]
  /\ on \in [Execs -> Deliveries \cup {NoDelivery}]
  /\ spawned \in [Deliveries -> Nat]
  /\ eager \in SUBSET Events
  /\ doubtful \in SUBSET Deliveries
  /\ \A x \in Execs : on[x] = NoDelivery <=> at[x] = "idle"

DeliveriesOf(e) == {d \in Deliveries : d[1] = e}

-----------------------------------------------------------------------------
(* The outbox with the bridge's hook in it *)

PublishOnly(e) == Publish(e) /\ UNCHANGED bridgeOnly

\* publishAndStart: event, user run and the ledger rows of every trigger with
\* that job type commit together.
PublishAndStart(e) ==
  /\ Publish(e)
  /\ ready' = ready \cup {e}
  /\ LET matching == {d \in DeliveriesOf(e) : d[2] \in EagerJob}
     IN ledger' = [d \in Deliveries |-> IF d \in matching THEN "delivered" ELSE ledger[d]]
  /\ eager' = eager \cup {e}
  /\ UNCHANGED <<wrapper, memo, handlerVars, spawned, doubtful>>

\* Mutants of the hook: a conflict gives up the siblings; the wrapper stays when
\* the ledger row conflicts; the insert is an upsert; the wrapper is deleted in
\* every case.
FanoutUnlessConflict(e) ==
  LET new == IF \E d \in DeliveriesOf(e) : ledger[d] # "absent" THEN {} ELSE DeliveriesOf(e)
  IN /\ ledger' = [d \in Deliveries |-> IF d \in new THEN "pending" ELSE ledger[d]]
     /\ wrapper' = [d \in Deliveries |-> IF d \in new THEN "pending" ELSE wrapper[d]]

FanoutKeepsOrphans(e) ==
  LET new == {d \in DeliveriesOf(e) : ledger[d] = "absent"}
  IN /\ ledger' = [d \in Deliveries |-> IF d \in new THEN "pending" ELSE ledger[d]]
     /\ wrapper' = [d \in Deliveries |-> IF d \in DeliveriesOf(e) /\ wrapper[d] = "absent"
                                         THEN "pending" ELSE wrapper[d]]

FanoutOverwrites(e) ==
  LET new == DeliveriesOf(e)
  IN /\ ledger' = [d \in Deliveries |-> IF d \in new THEN "pending" ELSE ledger[d]]
     /\ wrapper' = [d \in Deliveries |-> IF d \in new THEN "pending" ELSE wrapper[d]]

FanoutDropsWrappers(e) ==
  LET new == {d \in DeliveriesOf(e) : ledger[d] = "absent"}
  IN /\ ledger' = [d \in Deliveries |-> IF d \in new THEN "pending" ELSE ledger[d]]
     /\ UNCHANGED wrapper

\* processEvent: for each trigger a wrapper and a ledger row; when the row is
\* there already the wrapper is deleted again and the siblings go on.
Fanout(e) ==
  LET new == IF e \in Inert THEN {} ELSE {d \in DeliveriesOf(e) : ledger[d] = "absent"}
  IN /\ ledger' = [d \in Deliveries |-> IF d \in new THEN "pending" ELSE ledger[d]]
     /\ wrapper' = [d \in Deliveries |-> IF d \in new THEN "pending" ELSE wrapper[d]]

\* The event's transaction: the hook, whether or not the row is still pending,
\* and the stamp.
CommitWithFanout(t) ==
  /\ Commit(t)
  /\ Fanout(current'[t])
  /\ UNCHANGED <<memo, handlerVars, spawned, eager, doubtful>>

-----------------------------------------------------------------------------
(* The worker around a wrapper *)

Goto(x, step) == at' = [at EXCEPT ![x] = step]

Leave(x) ==
  /\ Goto(x, "idle")
  /\ on' = [on EXCEPT ![x] = NoDelivery]

ClaimWrapper(x, d) ==
  /\ at[x] = "idle" /\ wrapper[d] = "pending"
  /\ wrapper' = [wrapper EXCEPT ![d] = "running"]
  /\ Goto(x, "load")
  /\ on' = [on EXCEPT ![x] = d]
  /\ doubtful' = IF \E y \in Execs : on[y] = d THEN doubtful \cup {d} ELSE doubtful
  /\ UNCHANGED <<outboxVars, ledger, memo, spawned, eager>>

\* The settling writes of processRun, keyed on the id alone.  An error is
\* retried or final (the attempts are counted in JobWorker).
SettleWrapper(x) ==
  /\ \/ at[x] = "settle" /\ wrapper' = [wrapper EXCEPT ![on[x]] = "completed"]
     \/ at[x] = "error" /\ \E new \in {"pending", "failed"} :
                             wrapper' = [wrapper EXCEPT ![on[x]] = new]
  /\ Leave(x)
  /\ UNCHANGED <<outboxVars, ledger, memo, spawned, eager, doubtful>>

\* The claim is taken away: of a dead worker, or (a fault) of a live one.
SweepWrapper(d) ==
  /\ wrapper[d] = "running"
  /\ wrapper' = [wrapper EXCEPT ![d] = "pending"]
  /\ IF \E x \in Execs : on[x] = d THEN Spend("stall") ELSE UNCHANGED spent
  /\ UNCHANGED <<row, ready, process, taskVars, wakeVars, dispatchVars,
                 ledger, memo, handlerVars, spawned, eager, doubtful>>

\* The worker dies.  Between the start of the user run and the record of the
\* step, nothing remembers the run.
WorkerCrash(x) ==
  /\ at[x] # "idle"
  /\ Spend("workerCrash")
  /\ doubtful' = IF at[x] = "record" THEN doubtful \cup {on[x]} ELSE doubtful
  /\ Leave(x)
  /\ UNCHANGED <<row, ready, process, taskVars, wakeVars, dispatchVars,
                 ledgerVars, spawned, eager>>

\* replay with replayFrom 'last_step' keeps the completed steps.
ReplayWrapper(d) ==
  /\ wrapper[d] \in {"completed", "failed"}
  /\ Spend("replay")
  /\ wrapper' = [wrapper EXCEPT ![d] = "pending"]
  /\ UNCHANGED <<row, ready, process, taskVars, wakeVars, dispatchVars,
                 ledger, memo, handlerVars, spawned, eager, doubtful>>

-----------------------------------------------------------------------------
(* BridgeDeliveryHandler.run *)

\* Mutant: a declined delivery is left as it is.
LoadForgetsVerdict(x) ==
  /\ at[x] = "load"
  /\ Goto(x, IF on[x] \in Declined[x] THEN "settle" ELSE "find")
  /\ UNCHANGED <<outboxVars, ledgerVars, on, spawned, eager, doubtful>>

\* Delivery, event and registry entry are looked up and `when` is asked, in the
\* build of this execution.
Load(x) ==
  /\ at[x] = "load"
  /\ Goto(x, IF on[x] \in Declined[x] THEN "skip" ELSE "find")
  /\ UNCHANGED <<outboxVars, ledgerVars, on, spawned, eager, doubtful>>

MarkSkipped(x) ==
  /\ at[x] = "skip"
  /\ ledger' = [ledger EXCEPT ![on[x]] = "skipped"]
  /\ Goto(x, "settle")
  /\ UNCHANGED <<outboxVars, wrapper, memo, on, spawned, eager, doubtful>>

\* ctx.step: a completed step is not run again.
FindStep(x) ==
  /\ at[x] = "find"
  /\ Goto(x, IF on[x] \in memo THEN "mark" ELSE "open")
  /\ UNCHANGED <<outboxVars, ledgerVars, on, spawned, eager, doubtful>>

\* recordStep(running): the upsert overwrites whatever the row said.
OpenStep(x) ==
  /\ at[x] = "open"
  /\ memo' = memo \ {on[x]}
  /\ Goto(x, "start")
  /\ UNCHANGED <<outboxVars, ledger, wrapper, on, spawned, eager, doubtful>>

StartUserRun(x) ==
  /\ at[x] = "start"
  /\ spawned' = [spawned EXCEPT ![on[x]] = @ + 1]
  /\ Goto(x, "record")
  /\ UNCHANGED <<outboxVars, ledgerVars, on, eager, doubtful>>

\* Mutant: the result of the step is not recorded.
RecordNothing(x) ==
  /\ at[x] = "record"
  /\ Goto(x, "mark")
  /\ UNCHANGED <<outboxVars, ledgerVars, on, spawned, eager, doubtful>>

RecordStep(x) ==
  /\ at[x] = "record"
  /\ memo' = memo \cup {on[x]}
  /\ Goto(x, "mark")
  /\ UNCHANGED <<outboxVars, ledger, wrapper, on, spawned, eager, doubtful>>

MarkDelivered(x) ==
  /\ at[x] = "mark"
  /\ ledger' = [ledger EXCEPT ![on[x]] = "delivered"]
  /\ Goto(x, "settle")
  /\ UNCHANGED <<outboxVars, wrapper, memo, on, spawned, eager, doubtful>>

\* A statement, or orchestrator.start, throws.  Inside the step the catch then
\* records the step as failed, which may itself fail; when it was the record
\* of a run that did start, the run is forgotten.
Throws(x) ==
  /\ at[x] \in {"load", "skip", "find", "open", "start", "record", "mark"}
  /\ Spend("dbError")
  /\ IF at[x] \in {"start", "record"}
     THEN memo' \in {memo, memo \ {on[x]}}
     ELSE UNCHANGED memo
  /\ doubtful' = IF at[x] = "record" THEN doubtful \cup {on[x]} ELSE doubtful
  /\ Goto(x, "error")
  /\ UNCHANGED <<row, ready, process, taskVars, wakeVars, dispatchVars,
                 ledger, wrapper, on, spawned, eager>>

-----------------------------------------------------------------------------
Init ==
  /\ OutboxInit
  /\ ledger = [d \in Deliveries |-> "absent"]
  /\ wrapper = [d \in Deliveries |-> "absent"]
  /\ memo = {}
  /\ at = [x \in Execs |-> "idle"]
  /\ on = [x \in Execs |-> NoDelivery]
  /\ spawned = [d \in Deliveries |-> 0]
  /\ eager = {} /\ doubtful = {}

Handle(x) ==
  \/ Load(x) \/ MarkSkipped(x) \/ FindStep(x) \/ OpenStep(x) \/ StartUserRun(x)
  \/ RecordStep(x) \/ MarkDelivered(x) \/ SettleWrapper(x)

ClaimSome(x) == \E d \in Deliveries : ClaimWrapper(x, d)

\* The steps of the outbox the bridge has no part in.
DrainOnly(t) == DrainStep(t) /\ UNCHANGED bridgeOnly
ProcessOnly(p) == ProcessStep(p) /\ UNCHANGED bridgeOnly
ReadyOnly(e) == ComesReady(e) /\ UNCHANGED bridgeOnly

Next ==
  \/ \E e \in Events : PublishOnly(e) \/ PublishAndStart(e) \/ ReadyOnly(e)
  \/ \E p \in Drainers : ProcessOnly(p)
  \/ \E t \in Tasks : DrainOnly(t) \/ CommitWithFanout(t)
  \/ \E x \in Execs : ClaimSome(x) \/ Handle(x) \/ Throws(x) \/ WorkerCrash(x)
  \/ \E d \in Deliveries : SweepWrapper(d) \/ ReplayWrapper(d)

Spec == Init /\ [][Next]_vars

\* As in EventOutbox and JobWorker: timers fire, awaited calls return, free
\* workers claim, dead ones are restarted and their claims swept.
Recover(d) == (\A x \in Execs : on[x] # d) /\ SweepWrapper(d)

Fairness ==
  /\ \A p \in Drainers : /\ WF_vars(PollFires(p) /\ UNCHANGED bridgeOnly)
                         /\ WF_vars(Reopen(p) /\ UNCHANGED bridgeOnly)
                         /\ WF_vars(process[p] = "closing" /\ Exit(p) /\ UNCHANGED bridgeOnly)
  /\ \A t \in Tasks : /\ WF_vars(Claim(t) /\ UNCHANGED bridgeOnly)
                      /\ WF_vars(CommitWithFanout(t))
                      /\ WF_vars(Dispatch(t) /\ UNCHANGED bridgeOnly)
  /\ \A e \in Events : WF_vars(ReadyOnly(e))
  /\ \A x \in Execs : WF_vars(Handle(x)) /\ WF_vars(ClaimSome(x))
  /\ \A d \in Deliveries : WF_vars(Recover(d))

FairSpec == Spec /\ Fairness

-----------------------------------------------------------------------------
(* Properties *)

\* The drain hook: the fan-out and the stamp are one transaction, and a
\* conflict on one trigger leaves its siblings alone.  A processed event has a
\* ledger row for every trigger; one that waits for a wrapper has one.
FanoutComplete ==
  /\ \A e \in Events \ Inert : row[e] = "processed" =>
       \A d \in DeliveriesOf(e) : ledger[d] # "absent"
  /\ \A d \in Deliveries : ledger[d] = "pending" => wrapper[d] # "absent"

\* publishAndStart: the job it started itself is not started a second time by
\* the drain, whatever else the drain does for the event.
EagerStartsOnce ==
  \A d \in Deliveries :
    d[1] \in eager /\ d[2] \in EagerJob => wrapper[d] = "absent" /\ spawned[d] = 0

\* ctx.step in the wrapper: retries, replays and double drains start the user
\* job once, as long as the record of the start is not lost and one execution
\* works on the wrapper at a time.
SpawnOnce == \A d \in Deliveries : spawned[d] > 1 => d \in doubtful

\* The ledger tells the truth: 'delivered' means that a user run was started, and
\* a completed wrapper has told the ledger.
LedgerTruth ==
  \A d \in Deliveries :
    /\ ledger[d] = "delivered" => spawned[d] > 0 \/ (d[1] \in eager /\ d[2] \in EagerJob)
    /\ wrapper[d] = "completed" => ledger[d] \in {"delivered", "skipped"}

EagerDelivery(d) == d[1] \in eager /\ d[2] \in EagerJob

\* What drains, wrappers, step records, sweeps and replays come to for those who
\* publish events and read the ledger (BridgePromise): an event is processed
\* together with the birth of its deliveries, 'delivered' follows the start of
\* the job, a job is started and a delivery skipped only as some build has it,
\* and a verdict is given once, but for deliveries the builds do not agree on.
Promise == INSTANCE BridgePromise WITH
  Eager    <- {d \in Deliveries : d[2] \in EagerJob},
  Wanted   <- {d \in Deliveries : \E x \in Execs : d \notin Declined[x]},
  Unwanted <- {d \in Deliveries : \E x \in Execs : d \in Declined[x]},
  verdict  <- ledger,
  started  <- {d \in Deliveries : spawned[d] > 0 \/ EagerDelivery(d)}

ImplementsPromise == Promise!Spec

\* An event whose triggers are live leads, through drain and worker, to a
\* verdict on each of its deliveries or to a wrapper that gave up.
EveryDeliverySettles ==
  \A d \in Deliveries :
    row[d[1]] = "pending" /\ d[1] \notin Inert
      ~> ledger[d] \in {"delivered", "skipped"} \/ wrapper[d] = "failed"

=============================================================================
