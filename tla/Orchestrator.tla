----------------------------- MODULE Orchestrator -----------------------------
(***************************************************************************)
(* The calls of runtime/subsystems/jobs/job-orchestrator.drizzle-backend   *)
(* on the tree of job runs: start with its dedupe and collision checks,    *)
(* cancel with its cascade, replay, and the two ways the worker calls them *)
(* (ctx.spawnChild, and the cascade of a failed run).                      *)
(*                                                                         *)
(* A call is a sequence of awaited statements with no transaction around   *)
(* them (replay's reset apart), so a CALL has a program counter and calls  *)
(* of different clients interleave.  The worker is reduced to what it does *)
(* to a row: JobWorker models how it gets there.                           *)
(***************************************************************************)
EXTENDS Naturals, FiniteSets

CONSTANTS
  Runs,       \* ids of job_run rows
  NoRun,
  Calls,      \* calls of the orchestrator that can be open at once
  Starters,   \* those that may be a start
  Cancellers, \* those that may be a client's cancel or replay
  Payloads,   \* job types with their inputs; both keys are functions of them
  Key,        \* the concurrency key of a payload
  Mode,       \* the collisionMode of its job type
  Policies,   \* parentClosePolicy values in use
  Deduped,    \* the job types have a dedupe key and window
  Keyed,      \* the job types have a concurrency key
  Spawning,   \* handlers call ctx.spawnChild
  Mortal      \* calls may die with their process

ASSUME OrchestratorAssumption ==
  /\ NoRun \notin Runs \cup Payloads
  /\ Starters \subseteq Calls
  /\ Cancellers \subseteq Calls
  /\ Policies \subseteq {"terminate", "cancel", "abandon"}
  /\ Deduped \in BOOLEAN
  /\ Keyed \in BOOLEAN
  /\ Spawning \in BOOLEAN
  /\ Mortal \in BOOLEAN
  /\ DOMAIN Key = Payloads
  /\ Mode \in [Payloads -> {"queue", "reject", "replace"}]

VARIABLES
  status,    \* job_run.status, "absent" before the insert
  parent,    \* parentRunId
  root,      \* rootRunId
  policy,    \* parentClosePolicy
  payload,   \* input
  recent,    \* rows created within the dedupe window
  handling,  \* runs whose handler is executing
  pc,        \* the statement each call awaits
  args,      \* the arguments of a start
  target,    \* the run a cancel or replay is about
  todo,      \* descendants a cancel has still to visit
  seen,      \* history: rows that existed when the descendants were read
  overtaken, \* history: starts that made a check before another start's insert
  revived,   \* history: runs that have left a terminal status
  raced      \* history: rows whose start was overtaken between check and insert

rowVars  == <<status, parent, root, policy, payload, recent>>
callVars == <<pc, args, target, todo, seen, overtaken>>
vars == <<status, parent, root, policy, payload, recent, handling,
          pc, args, target, todo, seen, overtaken, revived, raced>>

\* 'timed_out' is never written by this backend.
TERMINAL_STATUSES == {"completed", "failed", "canceled"}
DEDUPE_EXCLUDED_STATUSES == {"canceled", "failed"}
IN_FLIGHT_STATUSES == {"pending", "running"}

\* The two checks of start, of the dedupe key and of the concurrency key.
Checks == {"dedupe", "collide"}

NoArgs    == [payload |-> NoRun, parent |-> NoRun, policy |-> "terminate"]
StartArgs == [payload : Payloads, parent : Runs \cup {NoRun}, policy : Policies]

StateTypeOK ==
  /\ status \in [Runs -> {"absent"} \cup IN_FLIGHT_STATUSES \cup TERMINAL_STATUSES]
  /\ parent \in [Runs -> Runs \cup {NoRun}]
  /\ root \in [Runs -> Runs \cup {NoRun}]
  /\ policy \in [Runs -> Policies \cup {"terminate"}]
  /\ payload \in [Runs -> Payloads \cup {NoRun}]
  /\ recent \in SUBSET Runs
  /\ handling \in SUBSET Runs
  /\ pc \in [Calls -> {"idle", "dedupe", "collide", "insert", "load", "cancel",
                       "fetch", "cascade", "reset"}]
  /\ args \in [Calls -> StartArgs \cup {NoArgs}]
  /\ target \in [Calls -> Runs \cup {NoRun}]
  /\ todo \in [Calls -> SUBSET Runs]
  /\ seen \in [Calls -> SUBSET Runs]
  /\ revived \in SUBSET Runs
  /\ \A r \in Runs : status[r] # "absent" => root[r] \in Runs  \* NOT NULL

TypeOK ==
  /\ StateTypeOK
  /\ overtaken \in [Checks -> SUBSET Calls]
  /\ raced \in [Checks -> SUBSET Runs]

Live(r)     == status[r] \in IN_FLIGHT_STATUSES
Terminal(r) == status[r] \in TERMINAL_STATUSES
Existing    == {r \in Runs : status[r] # "absent"}
Goto(c, at) == pc' = [pc EXCEPT ![c] = at]

Leave(c) ==
  /\ Goto(c, "idle")
  /\ args' = [args EXCEPT ![c] = NoArgs]
  /\ target' = [target EXCEPT ![c] = NoRun]
  /\ todo' = [todo EXCEPT ![c] = {}]
  /\ seen' = [seen EXCEPT ![c] = {}]

\* A call returns to its caller, or dies with its process.
Return(c) == Leave(c) /\ overtaken' = [k \in Checks |-> overtaken[k] \ {c}]

\* cancel returns: to its client, or to the start that replaces an incumbent.
CancelReturns(c) ==
  IF args[c] = NoArgs
  THEN Return(c)
  ELSE /\ Goto(c, "insert")
       /\ target' = [target EXCEPT ![c] = NoRun]
       /\ todo' = [todo EXCEPT ![c] = {}]
       /\ seen' = [seen EXCEPT ![c] = {}]
       /\ UNCHANGED <<args, overtaken>>

\* An UPDATE sets the status of a run.
SetStatus(r, new) ==
  /\ status' = [status EXCEPT ![r] = new]
  /\ revived' = IF Terminal(r) /\ new # status[r] THEN revived \cup {r} ELSE revived
  /\ UNCHANGED <<parent, root, policy, payload, recent, raced>>

-----------------------------------------------------------------------------
(* start *)

\* The checks a job type asks for, in order; each is one awaited query.
AfterDedupe == IF Keyed THEN "collide" ELSE "insert"
FirstCheck  == IF Deduped THEN "dedupe" ELSE AfterDedupe

\* A client, or a handler through ctx.spawnChild, calls start.  Ids are left
\* for the starts that are under way (the bound on rows).
StartCall(c) ==
  /\ pc[c] = "idle" /\ c \in Starters
  /\ Cardinality({d \in Calls : args[d] # NoArgs}) < Cardinality(Runs \ Existing)
  /\ \E a \in StartArgs :
       /\ a.parent \in IF Spawning THEN handling \cup {NoRun} ELSE {NoRun}
       /\ args' = [args EXCEPT ![c] = a]
  /\ Goto(c, FirstCheck)
  /\ UNCHANGED <<rowVars, handling, target, todo, seen, overtaken, revived, raced>>

\* Mutant: only runs in flight count as duplicates.
DuplicatesInFlight(p) == {r \in recent : payload[r] = p /\ Live(r)}

Duplicates(p) == {r \in recent : /\ payload[r] = p
                                 /\ status[r] \notin DEDUPE_EXCLUDED_STATUSES}

\* 1b: an earlier run with the same key inside the window is returned.
DedupeHit(c) ==
  /\ pc[c] = "dedupe"
  /\ Duplicates(args[c].payload) # {}
  /\ Return(c)
  /\ UNCHANGED <<rowVars, handling, revived, raced>>

DedupeMiss(c) ==
  /\ pc[c] = "dedupe"
  /\ Duplicates(args[c].payload) = {}
  /\ Goto(c, AfterDedupe)
  /\ UNCHANGED <<rowVars, handling, args, target, todo, seen, overtaken, revived, raced>>

\* Mutant: a pending run is not an incumbent.
IncumbentsRunning(p) == {r \in Runs : status[r] = "running" /\ Key[payload[r]] = Key[p]}

\* The query asks for the key only: runs of every job type count.
Incumbents(p) == {r \in Runs : Live(r) /\ Key[payload[r]] = Key[p]}

\* 1c: nobody in flight under the key, or the mode is to queue behind them.
NoCollision(c) ==
  /\ pc[c] = "collide"
  /\ Incumbents(args[c].payload) = {} \/ Mode[args[c].payload] = "queue"
  /\ Goto(c, "insert")
  /\ UNCHANGED <<rowVars, handling, args, target, todo, seen, overtaken, revived, raced>>

\* throw new JobCollisionError
Reject(c) ==
  /\ pc[c] = "collide"
  /\ Mode[args[c].payload] = "reject" /\ Incumbents(args[c].payload) # {}
  /\ Return(c)
  /\ UNCHANGED <<rowVars, handling, revived, raced>>

\* One of the incumbents, in no particular order, is cancelled with cascade.
Replace(c) ==
  /\ pc[c] = "collide"
  /\ Mode[args[c].payload] = "replace"
  /\ \E r \in Incumbents(args[c].payload) : target' = [target EXCEPT ![c] = r]
  /\ Goto(c, "load")
  /\ UNCHANGED <<rowVars, handling, args, todo, seen, overtaken, revived, raced>>

\* The starts whose check of a key the insert of p overtakes.
Overtaken(k, p) ==
  {d \in Calls :
    \/ k = "dedupe" /\ Deduped /\ pc[d] \notin {"idle", "dedupe"} /\ args[d].payload = p
    \/ /\ k = "collide" /\ Keyed /\ pc[d] \notin {"idle", "dedupe", "collide"}
       /\ args[d] # NoArgs /\ Key[args[d].payload] = Key[p]}

\* 1d: the row is inserted; the root is the parent's, or the run itself.
Insert(c) ==
  /\ pc[c] = "insert"
  /\ \E r \in Runs \ Existing :
       /\ status' = [status EXCEPT ![r] = "pending"]
       /\ parent' = [parent EXCEPT ![r] = args[c].parent]
       /\ root' = [root EXCEPT ![r] = IF args[c].parent = NoRun THEN r
                                      ELSE root[args[c].parent]]
       /\ policy' = [policy EXCEPT ![r] = args[c].policy]
       /\ payload' = [payload EXCEPT ![r] = args[c].payload]
       /\ recent' = recent \cup {r}
       /\ raced' = [k \in Checks |-> raced[k] \cup IF c \in overtaken[k] THEN {r} ELSE {}]
  /\ overtaken' = [k \in Checks |-> (overtaken[k] \cup Overtaken(k, args[c].payload)) \ {c}]
  /\ Leave(c)
  /\ UNCHANGED <<handling, revived>>

\* The dedupe window of a run passes.
WindowPasses(r) ==
  /\ Deduped /\ r \in recent
  /\ recent' = recent \ {r}
  /\ UNCHANGED <<status, parent, root, policy, payload, handling, callVars, revived, raced>>

-----------------------------------------------------------------------------
(* cancel and replay.  cascade: false, which returns after the target, and  *)
(* the tenant gate are left out.                                           *)

CancelCall(c) ==
  /\ pc[c] = "idle" /\ c \in Cancellers
  /\ \E r \in Existing : target' = [target EXCEPT ![c] = r]
  /\ Goto(c, "load")
  /\ UNCHANGED <<rowVars, handling, args, todo, seen, overtaken, revived, raced>>

\* The row is loaded; a run that is terminal already is left alone.
CancelLoad(c) ==
  /\ pc[c] = "load"
  /\ IF Terminal(target[c])
     THEN CancelReturns(c)
     ELSE Goto(c, "cancel") /\ UNCHANGED <<args, target, todo, seen, overtaken>>
  /\ UNCHANGED <<rowVars, handling, revived, raced>>

\* The guarded UPDATE of the target.
CancelTarget(c) ==
  /\ pc[c] = "cancel"
  /\ IF Terminal(target[c])
     THEN CancelReturns(c) /\ UNCHANGED <<rowVars, revived, raced>>
     ELSE /\ SetStatus(target[c], "canceled")
          /\ Goto(c, "fetch")
          /\ UNCHANGED <<args, target, todo, seen, overtaken>>
  /\ UNCHANGED handling

\* Mutant: the rows whose parent is the target.
DescendantsDirect(r) == {d \in Runs \ {r} : parent[d] = r /\ Live(d) /\ policy[d] # "abandon"}

\* "Descendants": every other live row with the same root.  The loop skips
\* those whose policy is 'abandon'.
Tree(r) == {d \in Runs \ {r} : root[d] = root[r] /\ policy[d] # "abandon"}
Descendants(r) == {d \in Tree(r) : Live(d)}

CancelFetch(c) ==
  /\ pc[c] = "fetch"
  /\ IF Descendants(target[c]) = {}
     THEN CancelReturns(c)
     ELSE /\ Goto(c, "cascade")
          /\ todo' = [todo EXCEPT ![c] = Descendants(target[c])]
          /\ seen' = [seen EXCEPT ![c] = Existing]
          /\ UNCHANGED <<args, target, overtaken>>
  /\ UNCHANGED <<rowVars, handling, revived, raced>>

\* The guarded UPDATE of one descendant.
CancelDescendant(c) ==
  /\ pc[c] = "cascade"
  /\ \E d \in todo[c] :
       /\ IF Terminal(d) THEN UNCHANGED <<rowVars, revived, raced>> ELSE SetStatus(d, "canceled")
       /\ IF todo[c] = {d}
          THEN CancelReturns(c)
          ELSE /\ todo' = [todo EXCEPT ![c] = @ \ {d}]
               /\ UNCHANGED <<pc, args, target, seen, overtaken>>
  /\ UNCHANGED handling

\* replay tests the status, and resets the row in a transaction that does not.
ReplayCall(c) ==
  /\ pc[c] = "idle" /\ c \in Cancellers
  /\ \E r \in Runs : Terminal(r) /\ target' = [target EXCEPT ![c] = r]
  /\ Goto(c, "reset")
  /\ UNCHANGED <<rowVars, handling, args, todo, seen, overtaken, revived, raced>>

ReplayReset(c) ==
  /\ pc[c] = "reset"
  /\ SetStatus(target[c], "pending")
  /\ Return(c)
  /\ UNCHANGED handling

CallDies(c) ==
  /\ Mortal /\ pc[c] # "idle"
  /\ Return(c)
  /\ UNCHANGED <<rowVars, handling, revived, raced>>

-----------------------------------------------------------------------------
(* The worker's writes to a run (JobWorker) *)

\* Claim and start of the handler.  One handler per run at a time (a bound:
\* JobWorker has the double executions).
Begin(r) ==
  /\ status[r] = "pending" /\ r \notin handling
  /\ SetStatus(r, "running")
  /\ handling' = handling \cup {r}
  /\ UNCHANGED callVars

\* A handler awaits the children it spawns.
Ends(r) ==
  /\ r \in handling
  /\ \A c \in Calls : args[c].parent # r
  /\ handling' = handling \ {r}

\* The settling writes of processRun are keyed on the id alone.
Complete(r) == Ends(r) /\ SetStatus(r, "completed") /\ UNCHANGED callVars
Retry(r)    == Ends(r) /\ SetStatus(r, "pending") /\ UNCHANGED callVars

\* markFailed: the row, then cancel of the same run if its own policy is
\* 'terminate'.
Fail(c, r) ==
  /\ Ends(r)
  /\ SetStatus(r, "failed")
  /\ IF policy[r] = "terminate"
     THEN /\ pc[c] = "idle"
          /\ Goto(c, "load")
          /\ target' = [target EXCEPT ![c] = r]
          /\ UNCHANGED <<args, todo, seen, overtaken>>
     ELSE UNCHANGED callVars

\* The worker dies and the sweep puts the row back.
WorkerDies(r) ==
  /\ r \in handling
  /\ \A c \in Calls : args[c].parent # r
  /\ handling' = handling \ {r}
  /\ IF status[r] = "running" THEN SetStatus(r, "pending") ELSE UNCHANGED <<rowVars, revived, raced>>
  /\ UNCHANGED callVars

-----------------------------------------------------------------------------
Init ==
  /\ status = [r \in Runs |-> "absent"]
  /\ parent = [r \in Runs |-> NoRun]
  /\ root = [r \in Runs |-> NoRun]
  /\ policy = [r \in Runs |-> "terminate"]
  /\ payload = [r \in Runs |-> NoRun]
  /\ recent = {}
  /\ handling = {}
  /\ pc = [c \in Calls |-> "idle"]
  /\ args = [c \in Calls |-> NoArgs]
  /\ target = [c \in Calls |-> NoRun]
  /\ todo = [c \in Calls |-> {}]
  /\ seen = [c \in Calls |-> {}]
  /\ overtaken = [k \in Checks |-> {}]
  /\ revived = {}
  /\ raced = [k \in Checks |-> {}]

CallStep(c) ==
  \/ StartCall(c) \/ DedupeHit(c) \/ DedupeMiss(c)
  \/ NoCollision(c) \/ Reject(c) \/ Replace(c) \/ Insert(c)
  \/ CancelCall(c) \/ CancelLoad(c) \/ CancelTarget(c)
  \/ CancelFetch(c) \/ CancelDescendant(c)
  \/ ReplayCall(c) \/ ReplayReset(c) \/ CallDies(c)

RunStep(r) ==
  \/ WindowPasses(r) \/ Begin(r) \/ Complete(r) \/ Retry(r) \/ WorkerDies(r)
  \/ \E c \in Calls : Fail(c, r)

Next == (\E c \in Calls : CallStep(c)) \/ (\E r \in Runs : RunStep(r))

Spec == Init /\ [][Next]_vars

-----------------------------------------------------------------------------
(* Properties *)

\* Two runs are in flight under a key in the modes reject and replace only after
\* a start of the key was overtaken, between its check and its insert, by the
\* insert of another, or a run of the key came back from a terminal status (a
\* replay, or the late write of a cancelled handler).  Cancels, failures,
\* crashes and a replace that loses its race are no reason.
SoleInFlight ==
  \A r, s \in Runs :
    r # s /\ Live(r) /\ Live(s) /\ Key[payload[r]] = Key[payload[s]]
      => \/ \E t \in raced["collide"] \cup revived : Key[payload[t]] = Key[payload[r]]
         \/ \E p \in Payloads : Key[p] = Key[payload[r]] /\ Mode[p] = "queue"

\* Two rows of the window that count have one (job_type, dedupe_key) only if the
\* start of one of the two was overtaken between its check and its insert, or
\* the row came back from a status that does not count.
SoleInWindow ==
  \A r, s \in recent :
    r # s /\ payload[r] = payload[s] /\ {status[r], status[s]} \cap DEDUPE_EXCLUDED_STATUSES = {}
      => {r, s} \cap (raced["dedupe"] \cup revived) # {}

\* The cascade of cancel loses no row: one that shared the root when the
\* descendants were read, and whose policy is not 'abandon', has ended or is
\* still to be visited, whatever the workers do to the tree meanwhile.
CascadeCovers(c) ==
  pc[c] = "cascade" =>
    \A r \in seen[c] \cap Tree(target[c]) : Terminal(r) \/ r \in todo[c] \/ r \in revived

CascadeLosesNone == \A c \in Calls : CascadeCovers(c)

=============================================================================
