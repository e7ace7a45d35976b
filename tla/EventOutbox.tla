----------------------------- MODULE EventOutbox -----------------------------
(***************************************************************************)
(* The transactional outbox: runtime/subsystems/events/                    *)
(* event-bus.drizzle-backend.ts on the domain_events table.                *)
(*                                                                         *)
(* A drainer process runs processBatch from two places that do not know of *)
(* each other: the poll timer, which starts the next poll when the last is *)
(* over, and the wake handler of LISTEN/NOTIFY, which is debounced.  Each  *)
(* is a TASK with its own batch.  A batch is claimed in one transaction    *)
(* whose row locks end with it; every event of the batch then has its own  *)
(* transaction, after which the in-process subscribers are called.         *)
(***************************************************************************)
EXTENDS Naturals, FiniteSets

CONSTANTS
  Events,     \* rows of domain_events
  NoEvent,
  Drainers,   \* processes that drain the outbox
  Serves,     \* the events in the pools a drainer is configured for
  BatchSize,  \* POLL_BATCH_SIZE
  Allowed,    \* the faults that may happen
  MaxFaults   \* how many of them, of any kind, in one behaviour (a bound)

OutboxFaults == {"rollback", "claimError", "shutdown", "crash"}

ASSUME OutboxAssumption ==
  /\ NoEvent \notin Events
  /\ Serves \in [Drainers -> SUBSET Events]
  /\ BatchSize \in Nat \ {0}
  /\ MaxFaults \in Nat

Tasks == Drainers \X {"poll", "wake"}
Of(t) == t[1]
WakeTask(p) == <<p, "wake">>

VARIABLES
  row,        \* domain_events.status, "absent" before the insert
  ready,      \* rows with occurred_at <= now
  process,    \* life cycle of a drainer: up is `polling = true`
  stage,      \* the await each task is suspended at
  batch,      \* the rows of its batch it is not through with
  current,    \* the event whose subscribers it is about to call
  recheck,    \* drainers with wakeRecheckPending
  notified,   \* drainers a notification is on its way to
  owed,       \* history: drainers that were woken and have not claimed since
  dispatched, \* history: how often the subscribers were given an event
  missed,     \* history: events whose drainer ended between stamp and dispatch
  shared,     \* history: events claimed while another task had them in its batch
  spent       \* faults so far

taskVars   == <<stage, batch, current>>
wakeVars   == <<recheck, notified, owed>>
dispatchVars == <<dispatched, missed, shared>>
outboxVars == <<row, ready, process, stage, batch, current,
                recheck, notified, owed, dispatched, missed, shared, spent>>

OutboxTypeOK ==
  /\ row \in [Events -> {"absent", "pending", "processed"}]
  /\ ready \in SUBSET Events
  /\ process \in [Drainers -> {"up", "closing", "down"}]
  /\ stage \in [Tasks -> {"idle", "claim", "tx", "dispatch"}]
  /\ batch \in [Tasks -> SUBSET Events]
  /\ current \in [Tasks -> Events \cup {NoEvent}]
  /\ recheck \in SUBSET Drainers
  /\ notified \in SUBSET Drainers
  /\ owed \in SUBSET Drainers
  /\ dispatched \in [Events -> Nat]
  /\ missed \in SUBSET Events
  /\ shared \in SUBSET Events
  /\ spent \in Nat
  /\ \A t \in Tasks : batch[t] # {} <=> stage[t] \in {"tx", "dispatch"}
  /\ \A t \in Tasks : current[t] # NoEvent <=> stage[t] = "dispatch"

Spend(f) == f \in Allowed /\ spent < MaxFaults /\ spent' = spent + 1

-----------------------------------------------------------------------------
(* Publishing *)

\* The row and its pg_notify commit together.  The drainers of the event's pool
\* that listen at that moment hear it; a scheduled slot in the future is not
\* announced.
Publish(e) ==
  /\ row[e] = "absent"
  /\ row' = [row EXCEPT ![e] = "pending"]
  /\ \/ /\ ready' = ready \cup {e}
        /\ \E heard \in SUBSET {p \in Drainers : process[p] = "up" /\ e \in Serves[p]} :
             notified' = notified \cup heard
     \/ UNCHANGED <<ready, notified>>
  /\ UNCHANGED <<process, taskVars, recheck, owed, dispatchVars, spent>>

ComesReady(e) ==
  /\ row[e] = "pending" /\ e \notin ready
  /\ ready' = ready \cup {e}
  /\ UNCHANGED <<row, process, taskVars, wakeVars, dispatchVars, spent>>

-----------------------------------------------------------------------------
(* Starting a drain *)

\* Mutant: with a listener connected, the timer waits for a notification.
PollWhenNotified(p) ==
  /\ process[p] = "up" /\ p \in notified
  /\ stage[<<p, "poll">>] = "idle"
  /\ stage' = [stage EXCEPT ![<<p, "poll">>] = "claim"]
  /\ UNCHANGED <<row, ready, process, batch, current, wakeVars, dispatchVars, spent>>

\* setTimeout, re-armed in the finally of the poll before.
PollFires(p) ==
  /\ process[p] = "up"
  /\ stage[<<p, "poll">>] = "idle"
  /\ stage' = [stage EXCEPT ![<<p, "poll">>] = "claim"]
  /\ UNCHANGED <<row, ready, process, batch, current, wakeVars, dispatchVars, spent>>

\* Mutant: a wake that finds a drain under way is ignored.
WakeIgnoredWhileDraining(p) ==
  /\ p \in notified
  /\ notified' = notified \ {p}
  /\ owed' = owed \cup {p}
  /\ IF stage[WakeTask(p)] # "idle"
     THEN UNCHANGED <<stage, recheck>>
     ELSE /\ stage' = [stage EXCEPT ![WakeTask(p)] = "claim"]
          /\ recheck' = recheck \ {p}
  /\ UNCHANGED <<row, ready, process, batch, current, dispatchVars, spent>>

\* onWake: a notification during a wake drain only asks for another round.
OnWake(p) ==
  /\ p \in notified
  /\ notified' = notified \ {p}
  /\ owed' = owed \cup {p}
  /\ IF stage[WakeTask(p)] # "idle"
     THEN /\ recheck' = recheck \cup {p}
          /\ UNCHANGED stage
     ELSE /\ stage' = [stage EXCEPT ![WakeTask(p)] = "claim"]
          /\ recheck' = recheck \ {p}
  /\ UNCHANGED <<row, ready, process, batch, current, dispatchVars, spent>>

-----------------------------------------------------------------------------
(* processBatch *)

\* processBatch returns: the poll re-arms its timer, drainOnWake looks at the
\* flag and goes round again.
BatchEnds(t) ==
  /\ batch' = [batch EXCEPT ![t] = {}]
  /\ current' = [current EXCEPT ![t] = NoEvent]
  /\ IF t = WakeTask(Of(t)) /\ Of(t) \in recheck /\ process[Of(t)] = "up"
     THEN /\ stage' = [stage EXCEPT ![t] = "claim"]
          /\ recheck' = recheck \ {Of(t)}
     ELSE /\ stage' = [stage EXCEPT ![t] = "idle"]
          /\ UNCHANGED recheck

\* The loop is through with an event of the batch.
Advance(t, e) ==
  IF batch[t] = {e}
  THEN BatchEnds(t)
  ELSE /\ batch' = [batch EXCEPT ![t] = @ \ {e}]
       /\ current' = [current EXCEPT ![t] = NoEvent]
       /\ stage' = [stage EXCEPT ![t] = "tx"]
       /\ UNCHANGED recheck

\* Mutant: the claim goes by the time alone, not by the status.
ClaimableByTime(p) == {e \in Serves[p] \cap ready : row[e] # "absent"}

Claimable(p) == {e \in Serves[p] \cap ready : row[e] = "pending"}

\* The oldest ready rows of the drainer's pools, as many as fit the batch.
Claim(t) ==
  /\ stage[t] = "claim"
  /\ owed' = IF t = WakeTask(Of(t)) THEN owed \ {Of(t)} ELSE owed
  /\ \E S \in SUBSET Claimable(Of(t)) :
       \* SKIP LOCKED can leave out rows that other tasks hold.
       /\ \/ Cardinality(S) = BatchSize
          \/ /\ Cardinality(S) < BatchSize
             /\ Claimable(Of(t)) \ S \subseteq UNION {batch[u] : u \in Tasks \ {t}}
       /\ shared' = shared \cup {e \in S : \E u \in Tasks \ {t} : e \in batch[u]}
       /\ IF S = {}
          THEN BatchEnds(t)
          ELSE /\ batch' = [batch EXCEPT ![t] = S]
               /\ stage' = [stage EXCEPT ![t] = "tx"]
               /\ UNCHANGED <<current, recheck>>
  /\ UNCHANGED <<row, ready, process, notified, dispatched, missed, spent>>

\* The claim query fails: both callers log it, and drainOnWake leaves its loop
\* whatever the flag says.
ClaimFails(t) ==
  /\ stage[t] = "claim"
  /\ Spend("claimError")
  /\ stage' = [stage EXCEPT ![t] = "idle"]
  /\ owed' = IF t = WakeTask(Of(t)) THEN owed \ {Of(t)} ELSE owed
  /\ UNCHANGED <<row, ready, process, batch, current, recheck, notified, dispatchVars>>

\* The transaction of one event commits.  The stamp is guarded by the status:
\* when another task got there first it changes nothing, and is not looked at.
Commit(t) ==
  /\ stage[t] = "tx"
  /\ \E e \in batch[t] :
       /\ row' = [row EXCEPT ![e] = "processed"]
       /\ current' = [current EXCEPT ![t] = e]
  /\ stage' = [stage EXCEPT ![t] = "dispatch"]
  /\ UNCHANGED <<ready, process, batch, wakeVars, dispatchVars, spent>>

\* Mutant: the catch does not `continue`, so the subscribers are called.
TxFailsAndDispatches(t) ==
  /\ stage[t] = "tx"
  /\ Spend("rollback")
  /\ \E e \in batch[t] : current' = [current EXCEPT ![t] = e]
  /\ stage' = [stage EXCEPT ![t] = "dispatch"]
  /\ UNCHANGED <<row, ready, process, batch, wakeVars, dispatchVars>>

\* It rolls back: the error is logged and the event waits for another drain.
TxFails(t) ==
  /\ stage[t] = "tx"
  /\ Spend("rollback")
  /\ \E e \in batch[t] : Advance(t, e)
  /\ UNCHANGED <<row, ready, process, notified, owed, dispatchVars>>

\* Mutant: a drain that a shutdown overtakes returns before the subscribers.
DispatchUnlessClosing(t) ==
  /\ stage[t] = "dispatch"
  /\ IF process[Of(t)] = "up"
     THEN dispatched' = [dispatched EXCEPT ![current[t]] = @ + 1]
     ELSE UNCHANGED dispatched
  /\ Advance(t, current[t])
  /\ UNCHANGED <<row, ready, process, notified, owed, missed, shared, spent>>

\* The subscribers are called; their errors are logged.
Dispatch(t) ==
  /\ stage[t] = "dispatch"
  /\ dispatched' = [dispatched EXCEPT ![current[t]] = @ + 1]
  /\ Advance(t, current[t])
  /\ UNCHANGED <<row, ready, process, notified, owed, missed, shared, spent>>

-----------------------------------------------------------------------------
(* Life cycle of a drainer *)

\* onModuleDestroy: no new drain is started; one under way is not waited for.
BeginClose(p) ==
  /\ process[p] = "up"
  /\ Spend("shutdown")
  /\ process' = [process EXCEPT ![p] = "closing"]
  /\ notified' = notified \ {p}
  /\ UNCHANGED <<row, ready, taskVars, recheck, owed, dispatchVars>>

\* The process ends, after a shutdown or by a crash.
Exit(p) ==
  /\ \/ process[p] = "closing" /\ UNCHANGED spent
     \/ process[p] = "up" /\ Spend("crash")
  /\ process' = [process EXCEPT ![p] = "down"]
  /\ stage' = [t \in Tasks |-> IF Of(t) = p THEN "idle" ELSE stage[t]]
  /\ batch' = [t \in Tasks |-> IF Of(t) = p THEN {} ELSE batch[t]]
  /\ current' = [t \in Tasks |-> IF Of(t) = p THEN NoEvent ELSE current[t]]
  /\ recheck' = recheck \ {p}
  /\ notified' = notified \ {p}
  /\ owed' = owed \ {p}
  /\ missed' = missed \cup {current[t] : t \in {u \in Tasks : Of(u) = p /\ current[u] # NoEvent}}
  /\ UNCHANGED <<row, ready, dispatched, shared>>

Reopen(p) ==
  /\ process[p] = "down"
  /\ process' = [process EXCEPT ![p] = "up"]
  /\ UNCHANGED <<row, ready, taskVars, wakeVars, dispatchVars, spent>>

-----------------------------------------------------------------------------
OutboxInit ==
  /\ row = [e \in Events |-> "absent"]
  /\ ready = {}
  /\ process = [p \in Drainers |-> "up"]
  /\ stage = [t \in Tasks |-> "idle"]
  /\ batch = [t \in Tasks |-> {}]
  /\ current = [t \in Tasks |-> NoEvent]
  /\ recheck = {} /\ notified = {} /\ owed = {}
  /\ dispatched = [e \in Events |-> 0]
  /\ missed = {} /\ shared = {}
  /\ spent = 0

\* The steps that write nothing but the outbox (Bridge adds to the others).
DrainStep(t) == Claim(t) \/ ClaimFails(t) \/ TxFails(t) \/ Dispatch(t)

ProcessStep(p) == PollFires(p) \/ OnWake(p) \/ BeginClose(p) \/ Exit(p) \/ Reopen(p)

OutboxNext ==
  \/ \E e \in Events : Publish(e) \/ ComesReady(e)
  \/ \E p \in Drainers : ProcessStep(p)
  \/ \E t \in Tasks : DrainStep(t) \/ Commit(t)

OutboxSpec == OutboxInit /\ [][OutboxNext]_outboxVars

\* Timers fire, queries and subscribers return, time passes, a supervisor
\* restarts a process that went down.  Nothing is assumed of notifications.
OutboxFairness ==
  /\ \A p \in Drainers : WF_outboxVars(PollFires(p)) /\ WF_outboxVars(Reopen(p))
                         /\ WF_outboxVars(process[p] = "closing" /\ Exit(p))
  /\ \A t \in Tasks : WF_outboxVars(Claim(t)) /\ WF_outboxVars(Commit(t))
                      /\ WF_outboxVars(Dispatch(t))
  /\ \A e \in Events : WF_outboxVars(ComesReady(e))

OutboxFairSpec == OutboxSpec /\ OutboxFairness

-----------------------------------------------------------------------------
(* Properties *)

\* LISTEN-NOTIFY-1: a burst of notifications collapses, but none is swallowed:
\* after each, the wake task still has a claim ahead of it.
WakeNotSwallowed ==
  \A p \in owed :
    \/ process[p] # "up"
    \/ stage[WakeTask(p)] = "claim"
    \/ stage[WakeTask(p)] # "idle" /\ p \in recheck

\* Subscribers see committed events only: an event they were given, or are about
\* to be given, is stamped and its transaction does not run again as a first.
DispatchAfterCommit ==
  /\ \A e \in Events : dispatched[e] > 0 => row[e] = "processed"
  /\ \A t \in Tasks : current[t] # NoEvent => row[current[t]] = "processed"

\* The row is stamped before the subscribers are called, so a stamped event is one
\* they were given, or are about to be, unless its drainer ended in between: no
\* shutdown of a live process, rollback of a sibling or second drain loses one.
StampedIsDelivered ==
  \A e \in Events : row[e] = "processed" =>
    dispatched[e] > 0 \/ e \in missed \/ \E t \in Tasks : current[t] = e

\* FOR UPDATE SKIP LOCKED and the guarded stamp: subscribers get an event a second
\* time only when it was claimed again while another task still worked on it; a
\* rollback, a crash or a drain that comes later does not repeat it.
TwiceOnlyWhenShared == \A e \in Events : dispatched[e] > 1 => e \in shared

\* With all notifications lost, drains failing and processes dying, every event
\* whose time has come is processed: the timer is the durability heartbeat.
EveryEventProcessed == \A e \in Events : row[e] = "pending" ~> row[e] = "processed"

=============================================================================
