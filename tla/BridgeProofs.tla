----------------------------- MODULE BridgeProofs -----------------------------
(***************************************************************************)
(* Theorems about EventOutbox, and about Bridge, which extends it, for any *)
(* events, triggers, registry, pools, drainers and executions of wrappers. *)
(* What the first part shows of the outbox's steps is used for the         *)
(* composition in the second.                                              *)
(***************************************************************************)
EXTENDS Bridge, TLAPS

-----------------------------------------------------------------------------
(* The outbox *)

LEMMA TaskFacts ==
  /\ \A p \in Drainers : WakeTask(p) \in Tasks /\ Of(WakeTask(p)) = p
  /\ \A p \in Drainers : <<p, "poll">> \in Tasks /\ <<p, "poll">> # WakeTask(p)
  /\ \A p, q \in Drainers : <<p, "poll">> # WakeTask(q)
  /\ \A t \in Tasks : Of(t) \in Drainers
BY DEF Tasks, WakeTask, Of

-----------------------------------------------------------------------------
(* Types *)

\* The part of the type invariant that is about one task.
TaskOK(t) ==
  /\ stage[t] \in {"idle", "claim", "tx", "dispatch"}
  /\ batch[t] \in SUBSET Events
  /\ current[t] \in Events \cup {NoEvent}
  /\ batch[t] # {} <=> stage[t] \in {"tx", "dispatch"}
  /\ current[t] # NoEvent <=> stage[t] = "dispatch"

LEMMA BatchEndsTypes ==
  ASSUME OutboxTypeOK, NEW t \in Tasks, BatchEnds(t)
  PROVE  /\ stage' \in [Tasks -> {"idle", "claim", "tx", "dispatch"}]
         /\ batch' \in [Tasks -> SUBSET Events]
         /\ current' \in [Tasks -> Events \cup {NoEvent}]
         /\ recheck' \in SUBSET Drainers
         /\ \A u \in Tasks : TaskOK(u)'
BY DEF OutboxTypeOK, BatchEnds, TaskOK

LEMMA AdvanceTypes ==
  ASSUME OutboxTypeOK, NEW t \in Tasks, NEW e \in Events, batch[t] # {}, Advance(t, e)
  PROVE  /\ stage' \in [Tasks -> {"idle", "claim", "tx", "dispatch"}]
         /\ batch' \in [Tasks -> SUBSET Events]
         /\ current' \in [Tasks -> Events \cup {NoEvent}]
         /\ recheck' \in SUBSET Drainers
         /\ \A u \in Tasks : TaskOK(u)'
<1>1. CASE batch[t] = {e}
  BY <1>1, BatchEndsTypes DEF Advance
<1>2. CASE batch[t] # {e}
  <2>1. batch[t] \ {e} # {}
    BY <1>2
  <2> QED
    BY <1>2, <2>1 DEF Advance, OutboxTypeOK, TaskOK
<1> QED
  BY <1>1, <1>2

LEMMA InitOutboxTypes == OutboxInit => OutboxTypeOK
BY OutboxAssumption DEF OutboxInit, OutboxTypeOK, Tasks

LEMMA NextOutboxTypes == OutboxTypeOK /\ [OutboxNext]_outboxVars => OutboxTypeOK'
<1> SUFFICES ASSUME OutboxTypeOK, [OutboxNext]_outboxVars PROVE OutboxTypeOK'
  OBVIOUS
<1> USE OutboxAssumption, TaskFacts DEF dispatchVars
<1>0. \A t \in Tasks : TaskOK(t)
  BY DEF OutboxTypeOK, TaskOK
<1>1. ASSUME NEW e \in Events, Publish(e) \/ ComesReady(e) PROVE OutboxTypeOK'
  BY <1>1 DEF OutboxTypeOK, Publish, ComesReady, taskVars, wakeVars
<1>2. ASSUME NEW p \in Drainers, PollFires(p) \/ OnWake(p) PROVE OutboxTypeOK'
  <2>1. CASE PollFires(p)
    BY <2>1 DEF OutboxTypeOK, PollFires, wakeVars
  <2>2. CASE OnWake(p)
    <3>1. CASE stage[WakeTask(p)] = "idle"
      BY <2>2, <3>1 DEF OutboxTypeOK, OnWake
    <3>2. CASE stage[WakeTask(p)] # "idle"
      BY <2>2, <3>2 DEF OutboxTypeOK, OnWake
    <3> QED
      BY <3>1, <3>2
  <2> QED
    BY <1>2, <2>1, <2>2
<1>3. ASSUME NEW p \in Drainers, BeginClose(p) \/ Reopen(p) PROVE OutboxTypeOK'
  BY <1>3 DEF OutboxTypeOK, BeginClose, Reopen, Spend, taskVars, wakeVars
<1>4. ASSUME NEW p \in Drainers, Exit(p) PROVE OutboxTypeOK'
  BY <1>4 DEF OutboxTypeOK, Exit, Spend
<1>5. ASSUME NEW t \in Tasks, Claim(t) PROVE OutboxTypeOK'
  <2>1. /\ stage[t] = "claim" /\ owed' \in SUBSET Drainers
        /\ shared' \in SUBSET Events
        /\ UNCHANGED <<row, ready, process, notified, dispatched, missed, spent>>
    BY <1>5 DEF Claim, Claimable, OutboxTypeOK
  <2>2. PICK S \in SUBSET Claimable(Of(t)) :
          IF S = {} THEN BatchEnds(t)
          ELSE /\ batch' = [batch EXCEPT ![t] = S]
               /\ stage' = [stage EXCEPT ![t] = "tx"]
               /\ UNCHANGED <<current, recheck>>
    BY <1>5 DEF Claim
  <2>3. CASE S = {}
    BY <2>1, <2>2, <2>3, BatchEndsTypes DEF OutboxTypeOK, TaskOK
  <2>4. CASE S # {}
    BY <2>1, <2>2, <2>4 DEF OutboxTypeOK, Claimable
  <2> QED
    BY <2>3, <2>4
<1>6. ASSUME NEW t \in Tasks, ClaimFails(t) PROVE OutboxTypeOK'
  BY <1>6 DEF OutboxTypeOK, ClaimFails, Spend
<1>7. ASSUME NEW t \in Tasks, TxFails(t) PROVE OutboxTypeOK'
  <2>1. PICK e \in batch[t] : Advance(t, e)
    BY <1>7 DEF TxFails
  <2>2. e \in Events /\ batch[t] # {}
    BY <2>1 DEF OutboxTypeOK
  <2> QED
    BY <1>7, <2>1, <2>2, AdvanceTypes DEF TxFails, Spend, OutboxTypeOK, TaskOK
<1>8. ASSUME NEW t \in Tasks, Dispatch(t) PROVE OutboxTypeOK'
  <2>1. current[t] \in Events /\ batch[t] # {} /\ Advance(t, current[t])
    BY <1>8 DEF Dispatch, OutboxTypeOK
  <2> QED
    BY <1>8, <2>1, AdvanceTypes DEF Dispatch, OutboxTypeOK, TaskOK
<1>9. ASSUME NEW t \in Tasks, Commit(t) PROVE OutboxTypeOK'
  BY <1>9 DEF OutboxTypeOK, Commit, wakeVars
<1>10. CASE UNCHANGED outboxVars
  BY <1>10 DEF OutboxTypeOK, outboxVars
<1> QED
  BY <1>1, <1>2, <1>3, <1>4, <1>5, <1>6, <1>7, <1>8, <1>9, <1>10
     DEF OutboxNext, DrainStep, ProcessStep

\* OutboxTypeOK is an invariant: a task holds a batch exactly while it works on
\* one, and an event to dispatch exactly after a commit.
THEOREM OutboxTypes == OutboxSpec => []OutboxTypeOK
BY InitOutboxTypes, NextOutboxTypes, PTL DEF OutboxSpec

-----------------------------------------------------------------------------
(* Dispatch *)

LEMMA AdvanceClears ==
  ASSUME OutboxTypeOK, NEW t \in Tasks, NEW e \in Events, Advance(t, e)
  PROVE  current' = [current EXCEPT ![t] = NoEvent]
BY DEF Advance, BatchEnds

LEMMA NextDispatchAfterCommit ==
  OutboxTypeOK /\ DispatchAfterCommit /\ [OutboxNext]_outboxVars => DispatchAfterCommit'
<1> SUFFICES ASSUME OutboxTypeOK, DispatchAfterCommit, [OutboxNext]_outboxVars
             PROVE  DispatchAfterCommit'
  OBVIOUS
<1> USE OutboxAssumption DEF DispatchAfterCommit, OutboxTypeOK, dispatchVars
<1>1. ASSUME NEW e \in Events, Publish(e) \/ ComesReady(e) PROVE DispatchAfterCommit'
  BY <1>1 DEF Publish, ComesReady, taskVars
<1>2. ASSUME UNCHANGED <<row, dispatched>>,
             \A t \in Tasks : current'[t] \in {current[t], NoEvent}
      PROVE  DispatchAfterCommit'
  BY <1>2
<1>3. ASSUME NEW p \in Drainers, ProcessStep(p) PROVE DispatchAfterCommit'
  BY <1>2, <1>3 DEF ProcessStep, PollFires, OnWake, BeginClose, Exit, Reopen, taskVars
<1>4. ASSUME NEW t \in Tasks, Claim(t) \/ ClaimFails(t) PROVE DispatchAfterCommit'
  BY <1>2, <1>4 DEF Claim, ClaimFails, BatchEnds
<1>5. ASSUME NEW t \in Tasks, TxFails(t) PROVE DispatchAfterCommit'
  <2>1. PICK e \in batch[t] : Advance(t, e)
    BY <1>5 DEF TxFails
  <2> QED
    BY <1>2, <1>5, <2>1, AdvanceClears DEF TxFails
<1>6. ASSUME NEW t \in Tasks, Dispatch(t) PROVE DispatchAfterCommit'
  <2>1. current[t] \in Events /\ row[current[t]] = "processed" /\ Advance(t, current[t])
    BY <1>6 DEF Dispatch
  <2> QED
    BY <1>6, <2>1, AdvanceClears DEF Dispatch
<1>7. ASSUME NEW t \in Tasks, Commit(t) PROVE DispatchAfterCommit'
  BY <1>7 DEF Commit
<1>8. CASE UNCHANGED outboxVars
  BY <1>8 DEF outboxVars
<1> QED
  BY <1>1, <1>3, <1>4, <1>5, <1>6, <1>7, <1>8 DEF OutboxNext, DrainStep

\* A rolled-back event is never given to the subscribers: what they have seen, or
\* are about to see, is committed and stays so.
THEOREM DispatchesAreCommitted == OutboxSpec => []DispatchAfterCommit
<1>1. OutboxInit => DispatchAfterCommit
  BY DEF OutboxInit, DispatchAfterCommit
<1> QED
  BY <1>1, NextDispatchAfterCommit, OutboxTypes, PTL DEF OutboxSpec

-----------------------------------------------------------------------------
(* Stamp and dispatch *)

\* A stamped event that nobody has given, or is about to give, to the subscribers.
Unseen(e) == ~(dispatched[e] > 0) /\ \A t \in Tasks : current[t] # e

LEMMA NextStampedIsDelivered ==
  OutboxTypeOK /\ StampedIsDelivered /\ [OutboxNext]_outboxVars => StampedIsDelivered'
<1> SUFFICES ASSUME OutboxTypeOK, StampedIsDelivered, [OutboxNext]_outboxVars,
                    NEW e \in Events, row'[e] = "processed"
             PROVE  e \in missed' \/ ~Unseen(e)'
  BY DEF StampedIsDelivered, Unseen, OutboxTypeOK
<1> USE OutboxAssumption DEF OutboxTypeOK, dispatchVars, Unseen
<1>1. row[e] = "processed" => e \in missed \/ ~Unseen(e)
  BY DEF StampedIsDelivered
<1>2. CASE UNCHANGED <<row, current, dispatched, missed>>
  BY <1>1, <1>2
<1>3. ASSUME NEW f \in Events, Publish(f) \/ ComesReady(f)
      PROVE  e \in missed' \/ ~Unseen(e)'
  BY <1>1, <1>3 DEF Publish, ComesReady, taskVars
<1>4. ASSUME NEW p \in Drainers, Exit(p) PROVE e \in missed' \/ ~Unseen(e)'
  <2>1. row[e] = "processed" /\ dispatched' = dispatched /\ missed \subseteq missed'
    BY <1>4 DEF Exit
  <2>2. ASSUME NEW t \in Tasks, current[t] = e PROVE e \in missed' \/ ~Unseen(e)'
    <3>1. CASE Of(t) = p
      BY <1>4, <2>2, <3>1 DEF Exit
    <3>2. CASE Of(t) # p
      BY <1>4, <2>2, <3>2 DEF Exit
    <3> QED
      BY <3>1, <3>2
  <2> QED
    BY <1>1, <2>1, <2>2
<1>5. ASSUME NEW p \in Drainers, PollFires(p) \/ OnWake(p) \/ BeginClose(p) \/ Reopen(p)
      PROVE  e \in missed' \/ ~Unseen(e)'
  BY <1>2, <1>5 DEF PollFires, OnWake, BeginClose, Reopen, taskVars
\* A task that has no event in hand ends, or goes on to the next.
<1>6. ASSUME NEW t \in Tasks, current[t] = NoEvent, UNCHANGED <<row, dispatched, missed>>,
             current' \in {current, [current EXCEPT ![t] = NoEvent]}
      PROVE  e \in missed' \/ ~Unseen(e)'
  BY <1>1, <1>6
<1>7. ASSUME NEW t \in Tasks, Claim(t) \/ ClaimFails(t)
      PROVE  e \in missed' \/ ~Unseen(e)'
  BY <1>6, <1>7 DEF Claim, ClaimFails, BatchEnds
<1>8. ASSUME NEW t \in Tasks, TxFails(t) PROVE e \in missed' \/ ~Unseen(e)'
  <2>1. PICK f \in batch[t] : Advance(t, f)
    BY <1>8 DEF TxFails
  <2> QED
    BY <1>6, <1>8, <2>1, AdvanceClears DEF TxFails
<1>9. ASSUME NEW t \in Tasks, Dispatch(t) PROVE e \in missed' \/ ~Unseen(e)'
  <2>1. current[t] \in Events /\ Advance(t, current[t])
    BY <1>9 DEF Dispatch
  <2>2. current' = [current EXCEPT ![t] = NoEvent]
    BY <2>1, AdvanceClears
  <2> QED
    BY <1>1, <1>9, <2>1, <2>2 DEF Dispatch
<1>10. ASSUME NEW t \in Tasks, Commit(t) PROVE e \in missed' \/ ~Unseen(e)'
  <2>1. PICK f \in batch[t] : row' = [row EXCEPT ![f] = "processed"]
                              /\ current' = [current EXCEPT ![t] = f]
    BY <1>10 DEF Commit
  <2>2. current[t] = NoEvent
    BY <1>10 DEF Commit
  <2> QED
    BY <1>1, <1>10, <2>1, <2>2 DEF Commit
<1>11. CASE UNCHANGED outboxVars
  BY <1>2, <1>11 DEF outboxVars
<1> QED
  BY <1>3, <1>4, <1>5, <1>7, <1>8, <1>9, <1>10, <1>11 DEF OutboxNext, DrainStep, ProcessStep

\* Between the stamp and the subscribers nothing but the end of the process comes
\* in: no event is stamped and then forgotten by a drainer that lives.
THEOREM StampsAreDelivered == OutboxSpec => []StampedIsDelivered
<1>1. OutboxInit => StampedIsDelivered
  BY DEF OutboxInit, StampedIsDelivered
<1> QED
  BY <1>1, NextStampedIsDelivered, OutboxTypes, PTL DEF OutboxSpec

\* What a task has in hand is in its batch.
CurrentInBatch == \A t \in Tasks : current[t] # NoEvent => current[t] \in batch[t]

\* An event that was never shared has one task at most, which is the first to
\* give it to the subscribers.
SoleTask(e) ==
  /\ \A t, u \in Tasks : e \in batch[t] /\ e \in batch[u] => t = u
  /\ \A t \in Tasks : e \in batch[t] => dispatched[e] = 0
  /\ dispatched[e] <= 1

SharedInv == CurrentInBatch /\ \A e \in Events : e \notin shared => SoleTask(e)

\* The batch of one task loses events, or all of them; it has none in hand then.
Shrinks(t) ==
  /\ \A u \in Tasks : batch'[u] \subseteq batch[u]
  /\ \A u \in Tasks \ {t} : batch'[u] = batch[u] /\ current'[u] = current[u]
  /\ current'[t] = NoEvent

LEMMA AdvanceShrinks ==
  ASSUME OutboxTypeOK, NEW t \in Tasks, NEW e \in Events, Advance(t, e)
  PROVE  Shrinks(t) /\ e \notin batch'[t]
<1>1. CASE batch[t] = {e}
  BY <1>1 DEF Advance, BatchEnds, Shrinks, OutboxTypeOK
<1>2. CASE batch[t] # {e}
  BY <1>2 DEF Advance, Shrinks, OutboxTypeOK
<1> QED
  BY <1>1, <1>2

LEMMA NextShared ==
  OutboxTypeOK /\ DispatchAfterCommit /\ SharedInv /\ [OutboxNext]_outboxVars => SharedInv'
<1> SUFFICES ASSUME OutboxTypeOK, DispatchAfterCommit, SharedInv, [OutboxNext]_outboxVars
             PROVE  SharedInv'
  OBVIOUS
<1> USE OutboxAssumption DEF OutboxTypeOK, dispatchVars, SharedInv, CurrentInBatch, SoleTask
<1>1. CASE UNCHANGED <<batch, current, dispatched, shared>>
  BY <1>1
<1>2. ASSUME NEW e \in Events, Publish(e) \/ ComesReady(e) PROVE SharedInv'
  BY <1>1, <1>2 DEF Publish, ComesReady, taskVars
<1>3. ASSUME NEW p \in Drainers, PollFires(p) \/ OnWake(p) \/ BeginClose(p) \/ Reopen(p)
      PROVE  SharedInv'
  BY <1>1, <1>3 DEF PollFires, OnWake, BeginClose, Reopen, taskVars
<1>4. ASSUME NEW p \in Drainers, Exit(p) PROVE SharedInv'
  <2>1. /\ UNCHANGED <<dispatched, shared>>
        /\ \A t \in Tasks : batch'[t] \subseteq batch[t]
        /\ \A t \in Tasks : current'[t] # NoEvent => current'[t] = current[t]
                                                   /\ batch'[t] = batch[t]
    BY <1>4 DEF Exit
  <2> QED
    BY <2>1
<1>5. ASSUME NEW t \in Tasks, Shrinks(t), UNCHANGED <<dispatched, shared>>
      PROVE  SharedInv'
  <2>1. CurrentInBatch'
    BY <1>5 DEF Shrinks
  <2>2. ASSUME NEW e \in Events, e \notin shared' PROVE SoleTask(e)'
    BY <1>5, <2>2 DEF Shrinks
  <2> QED
    BY <2>1, <2>2
<1>6. ASSUME NEW t \in Tasks, Claim(t) PROVE SharedInv'
  <2>1. PICK S \in SUBSET Claimable(Of(t)) :
          /\ shared' = shared \cup {e \in S : \E u \in Tasks \ {t} : e \in batch[u]}
          /\ IF S = {}
             THEN BatchEnds(t)
             ELSE /\ batch' = [batch EXCEPT ![t] = S]
                  /\ UNCHANGED current
    BY <1>6 DEF Claim
  <2>2. dispatched' = dispatched /\ current[t] = NoEvent /\ batch[t] = {}
    BY <1>6 DEF Claim
  <2>3. \A e \in S : e \in Events /\ dispatched[e] = 0
    BY DEF Claimable, DispatchAfterCommit
  <2>4. CASE S = {}
    BY <1>1, <2>1, <2>2, <2>4 DEF BatchEnds
  <2>5. CASE S # {}
    <3>1. CurrentInBatch'
      BY <2>1, <2>2, <2>5
    <3>2. ASSUME NEW e \in Events, e \notin shared' PROVE SoleTask(e)'
      BY <2>1, <2>2, <2>3, <2>5, <3>2
    <3> QED
      BY <3>1, <3>2
  <2> QED
    BY <2>4, <2>5
<1>7. ASSUME NEW t \in Tasks, ClaimFails(t) PROVE SharedInv'
  BY <1>1, <1>7 DEF ClaimFails
<1>8. ASSUME NEW t \in Tasks, TxFails(t) PROVE SharedInv'
  <2>1. PICK e \in batch[t] : Advance(t, e)
    BY <1>8 DEF TxFails
  <2> QED
    BY <1>5, <1>8, <2>1, AdvanceShrinks DEF TxFails
<1>9. ASSUME NEW t \in Tasks, Dispatch(t) PROVE SharedInv'
  <2>1. /\ current[t] \in Events /\ current[t] \in batch[t]
        /\ Advance(t, current[t])
        /\ dispatched' = [dispatched EXCEPT ![current[t]] = @ + 1]
        /\ shared' = shared
    BY <1>9 DEF Dispatch
  <2>2. Shrinks(t) /\ current[t] \notin batch'[t]
    BY <2>1, AdvanceShrinks
  <2>3. CurrentInBatch'
    BY <2>2 DEF Shrinks
  <2>4. ASSUME NEW e \in Events, e \notin shared' PROVE SoleTask(e)'
    <3>1. CASE e = current[t]
      <4>1. dispatched[e] = 0 /\ dispatched'[e] = 1
        BY <2>1, <2>4, <3>1
      <4>2. \A u \in Tasks : e \notin batch'[u]
        BY <2>1, <2>2, <2>4, <3>1 DEF Shrinks
      <4> QED
        BY <4>1, <4>2
    <3>2. CASE e # current[t]
      BY <2>1, <2>2, <2>4, <3>2 DEF Shrinks
    <3> QED
      BY <3>1, <3>2
  <2> QED
    BY <2>3, <2>4
<1>10. ASSUME NEW t \in Tasks, Commit(t) PROVE SharedInv'
  BY <1>10 DEF Commit
<1>11. CASE UNCHANGED outboxVars
  BY <1>1, <1>11 DEF outboxVars
<1> QED
  BY <1>2, <1>3, <1>4, <1>6, <1>7, <1>8, <1>9, <1>10, <1>11
     DEF OutboxNext, DrainStep, ProcessStep

LEMMA InitShared == OutboxInit => SharedInv
BY DEF OutboxInit, SharedInv, CurrentInBatch, SoleTask

LEMMA SharedSuffices == OutboxTypeOK /\ SharedInv => TwiceOnlyWhenShared
BY DEF OutboxTypeOK, SharedInv, SoleTask, TwiceOnlyWhenShared

\* Without a second claim while a task works on an event, the subscribers get the
\* event once: the first dispatch is of a stamped row, which nobody claims again.
THEOREM DoublesAreShared == OutboxSpec => []TwiceOnlyWhenShared
BY InitShared, NextShared, SharedSuffices, OutboxTypes, DispatchesAreCommitted, PTL
   DEF OutboxSpec

-----------------------------------------------------------------------------
(* Wakes *)

\* A wake that is owed is kept by a task's end of batch: that of the wake task
\* itself goes round again because of the flag.
Kept(p) == \/ process[p] # "up"
           \/ stage[WakeTask(p)] = "claim"
           \/ stage[WakeTask(p)] # "idle" /\ p \in recheck

LEMMA BatchEndsKeeps ==
  ASSUME OutboxTypeOK, NEW t \in Tasks, BatchEnds(t), process' = process,
         NEW p \in Drainers, Kept(p),
         t = WakeTask(p) /\ process[p] = "up" => p \in recheck
  PROVE  Kept(p)'
<1>1. CASE t = WakeTask(p)
  BY <1>1, TaskFacts DEF OutboxTypeOK, BatchEnds, Kept
<1>2. CASE t # WakeTask(p)
  <2>1. stage'[WakeTask(p)] = stage[WakeTask(p)]
    BY <1>2, TaskFacts DEF OutboxTypeOK, BatchEnds
  <2>2. p \in recheck => p \in recheck'
    BY <1>2, TaskFacts DEF BatchEnds
  <2> QED
    BY <2>1, <2>2 DEF Kept
<1> QED
  BY <1>1, <1>2

LEMMA AdvanceKeeps ==
  ASSUME OutboxTypeOK, NEW t \in Tasks, NEW e \in Events, Advance(t, e), process' = process,
         stage[t] \in {"tx", "dispatch"}, NEW p \in Drainers, Kept(p)
  PROVE  Kept(p)'
<1>1. t = WakeTask(p) /\ process[p] = "up" => p \in recheck
  BY DEF Kept
<1>2. CASE batch[t] = {e}
  BY <1>1, <1>2, BatchEndsKeeps DEF Advance
<1>3. CASE batch[t] # {e}
  BY <1>1, <1>3, TaskFacts DEF Advance, OutboxTypeOK, Kept
<1> QED
  BY <1>2, <1>3

\* Only a process that is up is notified, and one that is down owes nothing.
Listening ==
  /\ \A p \in notified : process[p] = "up"
  /\ \A p \in owed : process[p] # "down"

LEMMA NextListening == OutboxTypeOK /\ Listening /\ [OutboxNext]_outboxVars => Listening'
<1> SUFFICES ASSUME OutboxTypeOK, Listening, [OutboxNext]_outboxVars PROVE Listening'
  OBVIOUS
<1> USE DEF OutboxTypeOK, Listening
<1>1. ASSUME NEW e \in Events, Publish(e) PROVE Listening'
  BY <1>1 DEF Publish
<1>2. ASSUME owed' \subseteq owed, UNCHANGED <<notified, process>> PROVE Listening'
  BY <1>2
<1>3. ASSUME NEW e \in Events, ComesReady(e) PROVE Listening'
  BY <1>2, <1>3 DEF ComesReady, wakeVars
<1>4. ASSUME NEW p \in Drainers, PollFires(p) PROVE Listening'
  BY <1>2, <1>4 DEF PollFires, wakeVars
<1>5. ASSUME NEW p \in Drainers, OnWake(p) PROVE Listening'
  BY <1>5 DEF OnWake
<1>6. ASSUME NEW p \in Drainers, BeginClose(p) \/ Exit(p) PROVE Listening'
  BY <1>6 DEF BeginClose, Exit
<1>7. ASSUME NEW p \in Drainers, Reopen(p) PROVE Listening'
  BY <1>7 DEF Reopen, wakeVars
<1>8. ASSUME NEW t \in Tasks, DrainStep(t) PROVE Listening'
  BY <1>2, <1>8 DEF DrainStep, Claim, ClaimFails, TxFails, Dispatch
<1>9. ASSUME NEW t \in Tasks, Commit(t) PROVE Listening'
  BY <1>2, <1>9 DEF Commit, wakeVars
<1>10. CASE UNCHANGED outboxVars
  BY <1>10 DEF outboxVars
<1> QED
  BY <1>1, <1>3, <1>4, <1>5, <1>6, <1>7, <1>8, <1>9, <1>10 DEF OutboxNext, ProcessStep

LEMMA NextWakeNotSwallowed ==
  OutboxTypeOK /\ Listening /\ WakeNotSwallowed /\ [OutboxNext]_outboxVars => WakeNotSwallowed'
<1> SUFFICES ASSUME OutboxTypeOK, Listening, WakeNotSwallowed, [OutboxNext]_outboxVars,
                    NEW p \in owed'
             PROVE  Kept(p)'
  BY DEF WakeNotSwallowed, Kept
<1>1. owed \subseteq Drainers /\ \A q \in owed : Kept(q)
  BY DEF OutboxTypeOK, WakeNotSwallowed, Kept
<1>2. ASSUME NEW e \in Events, Publish(e) \/ ComesReady(e) PROVE Kept(p)'
  BY <1>1, <1>2 DEF Publish, ComesReady, taskVars, wakeVars, Kept
<1>3. ASSUME NEW q \in Drainers, PollFires(q) PROVE Kept(p)'
  BY <1>1, <1>3, TaskFacts DEF PollFires, wakeVars, Kept, OutboxTypeOK
<1>4. ASSUME NEW q \in Drainers, OnWake(q) PROVE Kept(p)'
  <2>1. CASE p = q
    BY <1>4, <2>1, TaskFacts DEF OnWake, Kept, OutboxTypeOK
  <2>2. CASE p # q
    <3>1. p \in owed /\ p \in Drainers /\ WakeTask(p) # WakeTask(q)
      BY <1>1, <1>4, <2>2 DEF OnWake, WakeTask
    <3>2. stage'[WakeTask(p)] = stage[WakeTask(p)] /\ (p \in recheck => p \in recheck')
      BY <1>4, <2>2, <3>1, TaskFacts DEF OnWake, OutboxTypeOK
    <3> QED
      BY <1>1, <1>4, <3>1, <3>2 DEF OnWake, Kept
  <2> QED
    BY <2>1, <2>2
<1>5. ASSUME NEW q \in Drainers, BeginClose(q) \/ Reopen(q) \/ Exit(q) PROVE Kept(p)'
  <2>1. CASE BeginClose(q)
    BY <1>1, <2>1 DEF BeginClose, taskVars, Kept, OutboxTypeOK
  <2>2. CASE Reopen(q)
    BY <1>1, <2>2 DEF Reopen, taskVars, wakeVars, Kept, OutboxTypeOK, Listening
  <2>3. CASE Exit(q)
    <3>1. p \in owed /\ p # q /\ p \in Drainers
      BY <1>1, <2>3 DEF Exit
    <3>2. stage'[WakeTask(p)] = stage[WakeTask(p)]
      BY <2>3, <3>1, TaskFacts DEF Exit
    <3> QED
      BY <1>1, <2>3, <3>1, <3>2 DEF Exit, Kept, OutboxTypeOK
  <2> QED
    BY <1>5, <2>1, <2>2, <2>3
<1>6. ASSUME NEW t \in Tasks, Claim(t) \/ ClaimFails(t) PROVE Kept(p)'
  <2>1. p \in owed /\ t # WakeTask(p)
    <3>1. owed' = IF t = WakeTask(Of(t)) THEN owed \ {Of(t)} ELSE owed
      BY <1>6 DEF Claim, ClaimFails
    <3>2. p \in owed /\ p \in Drainers
      BY <1>1, <3>1
    <3>3. Of(WakeTask(p)) = p
      BY <3>2, TaskFacts
    <3> QED
      BY <3>1, <3>2, <3>3
  <2> QED
    BY <1>1, <1>6, <2>1, TaskFacts, BatchEndsKeeps DEF Claim, ClaimFails, Kept, OutboxTypeOK
<1>7. ASSUME NEW t \in Tasks, TxFails(t) \/ Dispatch(t) PROVE Kept(p)'
  <2>1. PICK e \in Events : Advance(t, e)
    BY <1>7 DEF TxFails, Dispatch, OutboxTypeOK
  <2> QED
    BY <1>1, <1>7, <2>1, AdvanceKeeps DEF TxFails, Dispatch
<1>8. ASSUME NEW t \in Tasks, Commit(t) PROVE Kept(p)'
  BY <1>1, <1>8, TaskFacts DEF Commit, wakeVars, Kept, OutboxTypeOK
<1>9. CASE UNCHANGED outboxVars
  BY <1>1, <1>9 DEF outboxVars, Kept
<1> QED
  BY <1>2, <1>3, <1>4, <1>5, <1>6, <1>7, <1>8, <1>9 DEF OutboxNext, DrainStep, ProcessStep

\* The debounce of wakes loses none: a claim follows each, whatever the poll
\* timer, rollbacks, shutdowns and crashes do in between.
THEOREM WakesAreKept == OutboxSpec => []WakeNotSwallowed
<1>1. OutboxInit => WakeNotSwallowed /\ Listening
  BY DEF OutboxInit, WakeNotSwallowed, Listening
<1> QED
  BY <1>1, NextListening, NextWakeNotSwallowed, OutboxTypes, PTL DEF OutboxSpec

-----------------------------------------------------------------------------
(* The bridge *)

LEMMA DeliveryFacts ==
  /\ \A d \in Deliveries : d[1] \in Events /\ d[2] \in Triggers
  /\ NoDelivery \notin Deliveries
  /\ \A e \in Events : DeliveriesOf(e) \subseteq Deliveries
BY BridgeAssumption DEF Deliveries, DeliveriesOf

-----------------------------------------------------------------------------
(* Types *)

\* A fault of the bridge's own: the budget shrinks, the outbox is left alone.
OnlySpends ==
  /\ UNCHANGED <<row, ready, process, taskVars, wakeVars, dispatchVars>>
  /\ spent' \in {spent, spent + 1}

\* What a step of the composition is to the outbox.
LEMMA StepOfOutbox == [Next]_vars => [OutboxNext]_outboxVars \/ OnlySpends
<1> SUFFICES ASSUME [Next]_vars PROVE [OutboxNext]_outboxVars \/ OnlySpends
  OBVIOUS
<1>1. ASSUME NEW e \in Events, PublishOnly(e) \/ PublishAndStart(e) \/ ReadyOnly(e)
      PROVE  OutboxNext
  BY <1>1 DEF PublishOnly, PublishAndStart, ReadyOnly, OutboxNext
<1>2. ASSUME NEW p \in Drainers, ProcessOnly(p) PROVE OutboxNext
  BY <1>2 DEF ProcessOnly, OutboxNext
<1>3. ASSUME NEW t \in Tasks, DrainOnly(t) \/ CommitWithFanout(t) PROVE OutboxNext
  BY <1>3 DEF DrainOnly, CommitWithFanout, OutboxNext
<1>4. ASSUME NEW x \in Execs, Handle(x) \/ ClaimSome(x) PROVE UNCHANGED outboxVars
  BY <1>4 DEF Handle, ClaimSome, ClaimWrapper, Load, MarkSkipped, FindStep, OpenStep,
              StartUserRun, RecordStep, MarkDelivered, SettleWrapper
<1>5. ASSUME NEW x \in Execs, Throws(x) \/ WorkerCrash(x) PROVE OnlySpends
  BY <1>5 DEF Throws, WorkerCrash, Spend, OnlySpends
<1>6. ASSUME NEW d \in Deliveries, SweepWrapper(d) \/ ReplayWrapper(d) PROVE OnlySpends
  BY <1>6 DEF SweepWrapper, ReplayWrapper, Spend, OnlySpends
<1>7. CASE UNCHANGED vars
  BY <1>7 DEF vars
<1> QED
  BY <1>1, <1>2, <1>3, <1>4, <1>5, <1>6, <1>7 DEF Next

\* The bridge's part of the type invariant.
BridgeTypeOK ==
  /\ ledger \in [Deliveries -> {"absent", "pending", "delivered", "skipped"}]
  /\ wrapper \in [Deliveries -> {"absent", "pending", "running", "completed", "failed"}]
  /\ memo \in SUBSET Deliveries
  /\ at \in [Execs -> Steps]
  /\ on \in [Execs -> Deliveries \cup {NoDelivery}]
  /\ spawned \in [Deliveries -> Nat]
  /\ eager \in SUBSET Events
  /\ doubtful \in SUBSET Deliveries
  /\ \A x \in Execs : on[x] = NoDelivery <=> at[x] = "idle"

LEMMA InitTypes == Init => TypeOK
<1> SUFFICES ASSUME Init PROVE TypeOK
  OBVIOUS
<1>1. OutboxTypeOK
  BY InitOutboxTypes DEF Init
<1>2. BridgeTypeOK
  BY DEF Init, BridgeTypeOK, Steps
<1> QED
  BY <1>1, <1>2 DEF TypeOK, BridgeTypeOK

LEMMA NextTypes == TypeOK /\ [Next]_vars => TypeOK'
<1> SUFFICES ASSUME TypeOK, [Next]_vars PROVE TypeOK'
  OBVIOUS
<1>1. OutboxTypeOK /\ BridgeTypeOK
  BY DEF TypeOK, BridgeTypeOK
<1>2. OutboxTypeOK'
  <2>1. CASE [OutboxNext]_outboxVars
    BY <1>1, <2>1, NextOutboxTypes
  <2>2. CASE OnlySpends
    BY <1>1, <2>2 DEF OnlySpends, OutboxTypeOK, taskVars, wakeVars, dispatchVars
  <2> QED
    BY <2>1, <2>2, StepOfOutbox
<1>3. BridgeTypeOK'
  <2> USE <1>1, DeliveryFacts DEF BridgeTypeOK, Steps
  <2>1. CASE UNCHANGED bridgeOnly
    BY <2>1 DEF bridgeOnly
  <2>2. ASSUME NEW e \in Events, PublishAndStart(e) PROVE BridgeTypeOK'
    BY <2>2 DEF PublishAndStart, handlerVars
  <2>3. ASSUME NEW t \in Tasks, CommitWithFanout(t) PROVE BridgeTypeOK'
    BY <2>3 DEF CommitWithFanout, Fanout, handlerVars
  <2>4. ASSUME NEW x \in Execs, ClaimSome(x) PROVE BridgeTypeOK'
    BY <2>4 DEF ClaimSome, ClaimWrapper, Goto
  <2>5. ASSUME NEW x \in Execs, SettleWrapper(x) PROVE BridgeTypeOK'
    BY <2>5 DEF SettleWrapper, Leave, Goto
  <2>6. ASSUME NEW x \in Execs, Load(x) \/ MarkSkipped(x) \/ FindStep(x) \/ MarkDelivered(x)
        PROVE  BridgeTypeOK'
    BY <2>6 DEF Load, MarkSkipped, FindStep, MarkDelivered, Goto, ledgerVars
  <2>7. ASSUME NEW x \in Execs, OpenStep(x) \/ StartUserRun(x) \/ RecordStep(x)
        PROVE  BridgeTypeOK'
    BY <2>7 DEF OpenStep, StartUserRun, RecordStep, Goto, ledgerVars
  <2>8. ASSUME NEW x \in Execs, Throws(x) PROVE BridgeTypeOK'
    BY <2>8 DEF Throws, Goto
  <2>9. ASSUME NEW x \in Execs, WorkerCrash(x) PROVE BridgeTypeOK'
    BY <2>9 DEF WorkerCrash, Leave, Goto, ledgerVars
  <2>10. ASSUME NEW d \in Deliveries, SweepWrapper(d) \/ ReplayWrapper(d) PROVE BridgeTypeOK'
    BY <2>10 DEF SweepWrapper, ReplayWrapper, handlerVars
  <2> QED
    BY <2>1, <2>2, <2>3, <2>4, <2>5, <2>6, <2>7, <2>8, <2>9, <2>10
       DEF Next, PublishOnly, ReadyOnly, ProcessOnly, DrainOnly, Handle, vars, bridgeOnly
<1> QED
  BY <1>2, <1>3 DEF TypeOK, BridgeTypeOK

\* TypeOK is an invariant of outbox, ledger and handlers together.
THEOREM BridgeTypes == Spec => []TypeOK
BY InitTypes, NextTypes, PTL DEF Spec

\* The composition keeps what the outbox promises: the hook runs inside its
\* transaction and disturbs neither wakes nor the order of commit and dispatch.
THEOREM BridgeKeepsOutbox ==
  Spec => /\ []WakeNotSwallowed /\ []DispatchAfterCommit
          /\ []StampedIsDelivered /\ []TwiceOnlyWhenShared
<1> DEFINE OutboxInv == /\ OutboxTypeOK /\ Listening /\ WakeNotSwallowed
                        /\ DispatchAfterCommit /\ StampedIsDelivered /\ SharedInv
<1>1. Init => OutboxInv
  BY InitOutboxTypes, InitShared
     DEF Init, OutboxInit, Listening, WakeNotSwallowed, DispatchAfterCommit, StampedIsDelivered
<1>2. OutboxInv /\ [Next]_vars => OutboxInv'
  <2> SUFFICES ASSUME OutboxInv, [Next]_vars PROVE OutboxInv'
    OBVIOUS
  <2>1. CASE [OutboxNext]_outboxVars
    BY <2>1, NextOutboxTypes, NextListening, NextWakeNotSwallowed, NextDispatchAfterCommit,
       NextStampedIsDelivered, NextShared
  <2>2. CASE OnlySpends
    <3> USE <2>2 DEF OnlySpends, taskVars, wakeVars, dispatchVars
    <3>1. OutboxTypeOK' /\ Listening' /\ WakeNotSwallowed'
      BY DEF OutboxTypeOK, Listening, WakeNotSwallowed
    <3>2. DispatchAfterCommit' /\ StampedIsDelivered'
      BY DEF DispatchAfterCommit, StampedIsDelivered
    <3>3. SharedInv'
      BY DEF SharedInv, CurrentInBatch, SoleTask
    <3> QED
      BY <3>1, <3>2, <3>3
  <2> QED
    BY <2>1, <2>2, StepOfOutbox
<1>3. OutboxInv => TwiceOnlyWhenShared
  BY SharedSuffices
<1> QED
  BY <1>1, <1>2, <1>3, PTL DEF Spec

-----------------------------------------------------------------------------
(* The ledger *)

\* What the fan-out and the facade rely on: a delivery comes into being with its
\* ledger row, which is not there before its event is, and only rows of the
\* outbox are drained.
RowsInOrder ==
  /\ \A d \in Deliveries :
       /\ row[d[1]] = "absent" => ledger[d] = "absent"
       /\ ledger[d] = "absent" => wrapper[d] = "absent"
       /\ wrapper[d] = "absent" => spawned[d] = 0
       /\ EagerDelivery(d) => ledger[d] # "absent"
  /\ \A t \in Tasks : \A e \in batch[t] : row[e] # "absent"
  /\ \A x \in Execs : on[x] # NoDelivery => wrapper[on[x]] # "absent"

LedgerInv == RowsInOrder /\ FanoutComplete /\ EagerStartsOnce

LEMMA InitLedger == Init => LedgerInv
<1> SUFFICES ASSUME Init PROVE LedgerInv
  OBVIOUS
<1>1. RowsInOrder
  BY DeliveryFacts DEF Init, OutboxInit, RowsInOrder, EagerDelivery
<1>2. FanoutComplete /\ EagerStartsOnce
  BY DeliveryFacts DEF Init, OutboxInit, FanoutComplete, EagerStartsOnce
<1> QED
  BY <1>1, <1>2 DEF LedgerInv

\* Steps of the outbox other than a commit: no event is processed, none goes away,
\* and batches are filled with rows that are there.
OutboxQuiet ==
  /\ \A e \in Events : row[e] # "absent" => row'[e] = row[e]
  /\ \A e \in Events : row[e] = "absent" => row'[e] # "processed"
  /\ \A t \in Tasks : \A e \in batch'[t] : e \in Events /\ row[e] # "absent"

LEMMA QuietSteps ==
  ASSUME TypeOK, RowsInOrder
  PROVE  /\ \A e \in Events : Publish(e) \/ ComesReady(e) => OutboxQuiet
         /\ \A p \in Drainers : ProcessStep(p) => OutboxQuiet
         /\ \A t \in Tasks : DrainStep(t) => OutboxQuiet
         /\ UNCHANGED outboxVars \/ OnlySpends => OutboxQuiet
<1> USE DEF TypeOK, OutboxTypeOK, RowsInOrder
<1>0. ASSUME UNCHANGED row, \A t \in Tasks : batch'[t] \subseteq batch[t] PROVE OutboxQuiet
  BY <1>0 DEF OutboxQuiet
<1>1. ASSUME NEW e \in Events, Publish(e) \/ ComesReady(e) PROVE OutboxQuiet
  BY <1>1 DEF Publish, ComesReady, taskVars, OutboxQuiet
<1>2. ASSUME NEW p \in Drainers, ProcessStep(p) PROVE OutboxQuiet
  <2>1. UNCHANGED row /\ \A t \in Tasks : batch'[t] \subseteq batch[t]
    BY <1>2 DEF ProcessStep, PollFires, OnWake, BeginClose, Exit, Reopen, taskVars
  <2> QED
    BY <1>0, <2>1
<1>3. ASSUME NEW t \in Tasks, NEW e, Advance(t, e) PROVE \A u \in Tasks : batch'[u] \subseteq batch[u]
  BY <1>3 DEF Advance, BatchEnds
<1>4. ASSUME NEW t \in Tasks, ClaimFails(t) \/ TxFails(t) \/ Dispatch(t) PROVE OutboxQuiet
  <2>1. UNCHANGED row /\ \A u \in Tasks : batch'[u] \subseteq batch[u]
    BY <1>3, <1>4 DEF ClaimFails, TxFails, Dispatch
  <2> QED
    BY <1>0, <2>1
<1>5. ASSUME NEW t \in Tasks, Claim(t) PROVE OutboxQuiet
  <2>1. UNCHANGED row
    BY <1>5 DEF Claim
  <2>2. \A u \in Tasks : \A e \in batch'[u] : e \in batch[u] \/ e \in Claimable(Of(t))
    BY <1>5 DEF Claim, BatchEnds
  <2>3. \A e \in Claimable(Of(t)) : e \in Events /\ row[e] = "pending"
    BY DEF Claimable
  <2> QED
    BY <2>1, <2>2, <2>3 DEF OutboxQuiet
<1>6. UNCHANGED outboxVars \/ OnlySpends => OutboxQuiet
  BY <1>0 DEF outboxVars, OnlySpends, taskVars
<1> QED
  BY <1>1, <1>2, <1>4, <1>5, <1>6 DEF DrainStep

\* A step that leaves the outbox quiet, takes no ledger row away and starts user
\* runs for wrappers only keeps the invariant.
LEMMA QuietKeepsLedger ==
  ASSUME TypeOK, TypeOK', LedgerInv, OutboxQuiet, UNCHANGED eager,
         \A d \in Deliveries :
           /\ ledger'[d] = "absent" <=> ledger[d] = "absent"
           /\ wrapper'[d] = "absent" <=> wrapper[d] = "absent"
           /\ ledger'[d] = "pending" => ledger[d] = "pending"
           /\ wrapper[d] = "absent" => spawned'[d] = spawned[d],
         \A x \in Execs : on'[x] # NoDelivery => wrapper[on'[x]] # "absent"
  PROVE  LedgerInv'
<1> USE DeliveryFacts DEF LedgerInv
<1>0. \A x \in Execs : on'[x] # NoDelivery => on'[x] \in Deliveries
  BY DEF TypeOK
<1>1. RowsInOrder'
  BY <1>0 DEF RowsInOrder, EagerDelivery, OutboxQuiet
<1>2. FanoutComplete'
  <2>1. \A e \in Events : row'[e] = "processed" => row[e] = "processed"
    BY DEF OutboxQuiet, TypeOK, OutboxTypeOK
  <2> QED
    BY <2>1 DEF FanoutComplete, DeliveriesOf
<1>3. EagerStartsOnce'
  BY DEF EagerStartsOnce
<1> QED
  BY <1>1, <1>2, <1>3

LEMMA EagerPublishKeepsLedger ==
  ASSUME TypeOK, TypeOK', LedgerInv, NEW e \in Events, PublishAndStart(e)
  PROVE  LedgerInv'
<1> USE DeliveryFacts DEF LedgerInv
<1>1. /\ row[e] = "absent" /\ row' = [row EXCEPT ![e] = "pending"]
      /\ eager' = eager \cup {e}
      /\ UNCHANGED <<batch, wrapper, spawned, on>>
  BY DEF PublishAndStart, Publish, taskVars, handlerVars
<1>2. \A d \in Deliveries :
        ledger'[d] = IF d[1] = e /\ d[2] \in EagerJob THEN "delivered" ELSE ledger[d]
  BY DEF PublishAndStart, DeliveriesOf
<1>3. \A f \in Events : row'[f] = IF f = e THEN "pending" ELSE row[f]
  BY <1>1 DEF TypeOK, OutboxTypeOK
<1>4. \A d \in Deliveries : d[1] = e =>
        ledger[d] = "absent" /\ wrapper[d] = "absent" /\ spawned[d] = 0
  BY <1>1 DEF RowsInOrder
<1>5. \A t \in Tasks : batch[t] \subseteq Events
  BY DEF TypeOK, OutboxTypeOK
<1>6. RowsInOrder'
  <2>1. \A d \in Deliveries : EagerDelivery(d)' => ledger'[d] # "absent"
    BY <1>1, <1>2 DEF RowsInOrder, EagerDelivery
  <2>2. \A d \in Deliveries :
          /\ row'[d[1]] = "absent" => ledger'[d] = "absent"
          /\ ledger'[d] = "absent" => wrapper'[d] = "absent"
          /\ wrapper'[d] = "absent" => spawned'[d] = 0
    BY <1>1, <1>2, <1>3 DEF RowsInOrder
  <2>3. \A t \in Tasks : \A f \in batch'[t] : row'[f] # "absent"
    BY <1>1, <1>3, <1>5 DEF RowsInOrder
  <2>4. \A x \in Execs : on'[x] # NoDelivery => wrapper'[on'[x]] # "absent"
    BY <1>1 DEF RowsInOrder
  <2> QED
    BY <2>1, <2>2, <2>3, <2>4 DEF RowsInOrder
<1>7. FanoutComplete'
  BY <1>1, <1>2, <1>3 DEF FanoutComplete, DeliveriesOf
<1>8. EagerStartsOnce'
  BY <1>1, <1>4 DEF EagerStartsOnce
<1> QED
  BY <1>6, <1>7, <1>8

LEMMA CommitKeepsLedger ==
  ASSUME TypeOK, TypeOK', LedgerInv, NEW t \in Tasks, CommitWithFanout(t)
  PROVE  LedgerInv'
<1> USE DeliveryFacts DEF LedgerInv
<1>1. PICK e \in batch[t] : row' = [row EXCEPT ![e] = "processed"]
                            /\ current' = [current EXCEPT ![t] = e]
  BY DEF CommitWithFanout, Commit
<1>2. e \in Events /\ row[e] # "absent" /\ current'[t] = e
  BY <1>1 DEF RowsInOrder, TypeOK, OutboxTypeOK
<1> DEFINE new == IF e \in Inert THEN {} ELSE {d \in DeliveriesOf(e) : ledger[d] = "absent"}
<1>3. /\ UNCHANGED <<batch, eager, spawned, on>>
      /\ \A d \in Deliveries :
           /\ ledger'[d] = IF d \in new THEN "pending" ELSE ledger[d]
           /\ wrapper'[d] = IF d \in new THEN "pending" ELSE wrapper[d]
  BY <1>2 DEF CommitWithFanout, Commit, Fanout, handlerVars
<1>4. \A d \in new : d \in Deliveries /\ d[1] = e /\ ledger[d] = "absent"
  BY DEF DeliveriesOf
<1>5. e \notin Inert => \A d \in DeliveriesOf(e) : d \in new \/ ledger[d] # "absent"
  OBVIOUS
<1>6. \A f \in Events : row'[f] = IF f = e THEN "processed" ELSE row[f]
  BY <1>1, <1>2 DEF TypeOK, OutboxTypeOK
<1> HIDE DEF new
<1>7. \A u \in Tasks : batch[u] \subseteq Events
  BY DEF TypeOK, OutboxTypeOK
<1>8. \A x \in Execs : on[x] # NoDelivery => on[x] \in Deliveries
  BY DEF TypeOK
<1>9. RowsInOrder'
  <2>1. \A d \in Deliveries :
          /\ row'[d[1]] = "absent" => ledger'[d] = "absent"
          /\ ledger'[d] = "absent" => wrapper'[d] = "absent"
          /\ wrapper'[d] = "absent" => spawned'[d] = 0
          /\ EagerDelivery(d)' => ledger'[d] # "absent"
    BY <1>2, <1>3, <1>4, <1>6 DEF RowsInOrder, EagerDelivery
  <2>2. \A u \in Tasks : \A f \in batch'[u] : row'[f] # "absent"
    BY <1>2, <1>3, <1>6, <1>7 DEF RowsInOrder
  <2>3. \A x \in Execs : on'[x] # NoDelivery => wrapper'[on'[x]] # "absent"
    BY <1>3, <1>8 DEF RowsInOrder
  <2> QED
    BY <2>1, <2>2, <2>3 DEF RowsInOrder
<1>10. FanoutComplete'
  <2>1. ASSUME NEW f \in Events \ Inert, row'[f] = "processed", NEW d \in DeliveriesOf(f)
        PROVE  ledger'[d] # "absent"
    <3>1. d \in Deliveries /\ d[1] = f
      BY DEF DeliveriesOf
    <3> QED
      BY <1>3, <1>5, <1>6, <2>1, <3>1 DEF FanoutComplete
  <2>2. \A d \in Deliveries : ledger'[d] = "pending" => wrapper'[d] # "absent"
    BY <1>3 DEF FanoutComplete
  <2> QED
    BY <2>1, <2>2 DEF FanoutComplete, DeliveriesOf
<1>11. EagerStartsOnce'
  BY <1>3, <1>4 DEF EagerStartsOnce, RowsInOrder, EagerDelivery
<1> QED
  BY <1>9, <1>10, <1>11

LEMMA NextLedger == TypeOK /\ TypeOK' /\ LedgerInv /\ [Next]_vars => LedgerInv'
<1> SUFFICES ASSUME TypeOK, TypeOK', LedgerInv, [Next]_vars PROVE LedgerInv'
  OBVIOUS
<1> USE DeliveryFacts
<1>0. RowsInOrder
  BY DEF LedgerInv
<1>1. ASSUME OutboxQuiet, UNCHANGED bridgeOnly PROVE LedgerInv'
  BY <1>0, <1>1, QuietKeepsLedger DEF bridgeOnly, RowsInOrder
<1>2. ASSUME NEW e \in Events, PublishOnly(e) \/ ReadyOnly(e) PROVE LedgerInv'
  BY <1>0, <1>1, <1>2, QuietSteps DEF PublishOnly, ReadyOnly
<1>3. ASSUME NEW p \in Drainers, ProcessOnly(p) PROVE LedgerInv'
  BY <1>0, <1>1, <1>3, QuietSteps DEF ProcessOnly
<1>4. ASSUME NEW t \in Tasks, DrainOnly(t) PROVE LedgerInv'
  BY <1>0, <1>1, <1>4, QuietSteps DEF DrainOnly
<1>5. CASE UNCHANGED vars
  BY <1>0, <1>1, <1>5, QuietSteps DEF vars, bridgeOnly
<1>6. ASSUME NEW x \in Execs, ClaimSome(x) PROVE LedgerInv'
  <2>1. PICK d \in Deliveries : ClaimWrapper(x, d)
    BY <1>6 DEF ClaimSome
  <2>2. OutboxQuiet
    BY <1>0, <2>1, QuietSteps DEF ClaimWrapper
  <2> QED
    BY <1>0, <2>1, <2>2, QuietKeepsLedger
       DEF ClaimWrapper, Goto, TypeOK, RowsInOrder
<1>7. ASSUME NEW x \in Execs, at[x] # "idle" PROVE on[x] \in Deliveries /\ wrapper[on[x]] # "absent"
  BY <1>0, <1>7 DEF TypeOK, RowsInOrder
<1>8. ASSUME NEW x \in Execs, SettleWrapper(x) PROVE LedgerInv'
  <2>1. OutboxQuiet
    BY <1>0, <1>8, QuietSteps DEF SettleWrapper
  <2> QED
    BY <1>0, <1>7, <1>8, <2>1, QuietKeepsLedger
       DEF SettleWrapper, Leave, Goto, TypeOK, RowsInOrder
<1>9. ASSUME NEW x \in Execs, Load(x) \/ FindStep(x) \/ OpenStep(x) \/ StartUserRun(x) \/ RecordStep(x)
      PROVE  LedgerInv'
  <2>1. OutboxQuiet /\ UNCHANGED <<ledger, wrapper, on, eager>>
    BY <1>0, <1>9, QuietSteps DEF Load, FindStep, OpenStep, StartUserRun, RecordStep, ledgerVars
  <2>2. \A d \in Deliveries : wrapper[d] = "absent" => spawned'[d] = spawned[d]
    BY <1>7, <1>9 DEF Load, FindStep, OpenStep, StartUserRun, RecordStep, TypeOK
  <2> QED
    BY <1>0, <2>1, <2>2, QuietKeepsLedger DEF RowsInOrder
<1>10. ASSUME NEW x \in Execs, MarkSkipped(x) \/ MarkDelivered(x) PROVE LedgerInv'
  <2>1. OutboxQuiet /\ UNCHANGED <<wrapper, on, eager, spawned>>
    BY <1>0, <1>10, QuietSteps DEF MarkSkipped, MarkDelivered
  <2>2. on[x] \in Deliveries /\ ledger[on[x]] # "absent"
    BY <1>0, <1>7, <1>10 DEF MarkSkipped, MarkDelivered, RowsInOrder
  <2>3. \A d \in Deliveries : \/ ledger'[d] = ledger[d]
                              \/ d = on[x] /\ ledger'[d] \in {"skipped", "delivered"}
    BY <1>10 DEF MarkSkipped, MarkDelivered, TypeOK
  <2> QED
    BY <1>0, <2>1, <2>2, <2>3, QuietKeepsLedger DEF RowsInOrder
<1>11. ASSUME NEW x \in Execs, Throws(x) \/ WorkerCrash(x) PROVE LedgerInv'
  <2>1. OnlySpends /\ UNCHANGED <<ledger, wrapper, eager, spawned>>
    BY <1>11 DEF Throws, WorkerCrash, Spend, OnlySpends, ledgerVars
  <2>2. OutboxQuiet
    BY <1>0, <2>1, QuietSteps
  <2>3. \A y \in Execs : on'[y] \in {on[y], NoDelivery}
    BY <1>11 DEF Throws, WorkerCrash, Leave, TypeOK
  <2> QED
    BY <1>0, <2>1, <2>2, <2>3, QuietKeepsLedger DEF RowsInOrder
<1>12. ASSUME NEW d \in Deliveries, SweepWrapper(d) \/ ReplayWrapper(d) PROVE LedgerInv'
  <2>1. OnlySpends /\ UNCHANGED <<ledger, eager, spawned, on>>
    BY <1>12 DEF SweepWrapper, ReplayWrapper, Spend, OnlySpends, handlerVars
  <2>2. OutboxQuiet
    BY <1>0, <2>1, QuietSteps
  <2>3. wrapper[d] # "absent" /\ wrapper' = [wrapper EXCEPT ![d] = "pending"]
    BY <1>12 DEF SweepWrapper, ReplayWrapper
  <2> QED
    BY <1>0, <2>1, <2>2, <2>3, QuietKeepsLedger DEF RowsInOrder, TypeOK
<1> QED
  BY <1>2, <1>3, <1>4, <1>5, <1>6, <1>8, <1>9, <1>10, <1>11, <1>12,
     EagerPublishKeepsLedger, CommitKeepsLedger DEF Next, Handle

LEMMA LedgerCorrect == Spec => []LedgerInv
BY InitLedger, NextLedger, BridgeTypes, PTL DEF Spec

\* Fan-out and stamp are one transaction and conflicts are settled per trigger: no
\* event is processed with a trigger left out, no ledger row waits for nothing.
THEOREM FanoutIsComplete == Spec => []FanoutComplete
BY LedgerCorrect, PTL DEF LedgerInv

\* What publishAndStart has started, the drain does not start again.
THEOREM EagerIsNotRepeated == Spec => []EagerStartsOnce
BY LedgerCorrect, PTL DEF LedgerInv

-----------------------------------------------------------------------------
(* The truth of the ledger *)

\* What is marked has happened: a memo, or an execution past the start of the
\* user run, has a run to show; a wrapper about to complete has told the ledger.
TruthInv ==
  /\ LedgerTruth
  /\ \A d \in memo : spawned[d] > 0
  /\ \A x \in Execs :
       /\ at[x] \in {"record", "mark"} => spawned[on[x]] > 0
       /\ at[x] = "settle" => ledger[on[x]] \in {"delivered", "skipped"}

LEMMA NextTruth == TypeOK /\ TruthInv /\ [Next]_vars => TruthInv'
<1> SUFFICES ASSUME TypeOK, TruthInv, [Next]_vars PROVE TruthInv'
  OBVIOUS
<1> USE DeliveryFacts
<1>0. /\ \A x \in Execs : at[x] # "idle" => on[x] \in Deliveries
      /\ spawned \in [Deliveries -> Nat] /\ memo \subseteq Deliveries
      /\ at \in [Execs -> Steps] /\ on \in [Execs -> Deliveries \cup {NoDelivery}]
      /\ ledger \in [Deliveries -> {"absent", "pending", "delivered", "skipped"}]
      /\ wrapper \in [Deliveries -> {"absent", "pending", "running", "completed", "failed"}]
  BY DEF TypeOK
<1> USE DEF TruthInv, LedgerTruth
<1>1. CASE UNCHANGED bridgeOnly
  BY <1>1 DEF bridgeOnly
<1>2. ASSUME NEW e \in Events, PublishAndStart(e) PROVE TruthInv'
  <2>1. /\ eager' = eager \cup {e} /\ UNCHANGED <<wrapper, memo, at, on, spawned>>
        /\ \A d \in Deliveries :
             ledger'[d] = IF d[1] = e /\ d[2] \in EagerJob THEN "delivered" ELSE ledger[d]
    BY <1>2 DEF PublishAndStart, handlerVars, DeliveriesOf
  <2> QED
    BY <1>0, <2>1
<1>3. ASSUME NEW t \in Tasks, CommitWithFanout(t) PROVE TruthInv'
  <2>1. /\ UNCHANGED <<memo, at, on, spawned, eager>>
        /\ \A d \in Deliveries :
             \/ ledger'[d] = ledger[d] /\ wrapper'[d] = wrapper[d]
             \/ ledger[d] = "absent" /\ ledger'[d] = "pending" /\ wrapper'[d] = "pending"
    BY <1>3 DEF CommitWithFanout, Fanout, handlerVars
  <2> QED
    BY <1>0, <2>1
<1>4. ASSUME NEW x \in Execs, ClaimSome(x) PROVE TruthInv'
  <2>1. PICK d \in Deliveries : ClaimWrapper(x, d)
    BY <1>4 DEF ClaimSome
  <2>2. /\ UNCHANGED <<ledger, memo, spawned, eager>>
        /\ wrapper' = [wrapper EXCEPT ![d] = "running"]
        /\ at' = [at EXCEPT ![x] = "load"] /\ on' = [on EXCEPT ![x] = d]
    BY <2>1 DEF ClaimWrapper, Goto
  <2> QED
    BY <1>0, <2>2
<1>5. ASSUME NEW x \in Execs, SettleWrapper(x) PROVE TruthInv'
  <2>1. /\ UNCHANGED <<ledger, memo, spawned, eager>>
        /\ at' = [at EXCEPT ![x] = "idle"] /\ on' = [on EXCEPT ![x] = NoDelivery]
    BY <1>5 DEF SettleWrapper, Leave, Goto
  <2>2. \A d \in Deliveries : wrapper'[d] = "completed" =>
          wrapper[d] = "completed" \/ (at[x] = "settle" /\ d = on[x])
    <3>1. CASE at[x] = "settle" /\ wrapper' = [wrapper EXCEPT ![on[x]] = "completed"]
      BY <1>0, <3>1
    <3>2. CASE \E new \in {"pending", "failed"} : wrapper' = [wrapper EXCEPT ![on[x]] = new]
      <4>1. PICK new \in {"pending", "failed"} : wrapper' = [wrapper EXCEPT ![on[x]] = new]
        BY <3>2
      <4> QED
        BY <1>0, <4>1
    <3> QED
      BY <1>5, <3>1, <3>2 DEF SettleWrapper
  <2> QED
    BY <1>0, <2>1, <2>2
<1>6. ASSUME NEW x \in Execs, Load(x) \/ FindStep(x) \/ OpenStep(x) PROVE TruthInv'
  <2>1. /\ UNCHANGED <<ledger, wrapper, spawned, eager, on>> /\ memo' \subseteq memo
        /\ at[x] # "idle"
        /\ \/ at' = [at EXCEPT ![x] = "mark"] /\ on[x] \in memo
           \/ \E s \in {"skip", "find", "open", "start"} : at' = [at EXCEPT ![x] = s]
    BY <1>6 DEF Load, FindStep, OpenStep, Goto, ledgerVars
  <2> QED
    BY <1>0, <2>1
<1>7. ASSUME NEW x \in Execs, StartUserRun(x) PROVE TruthInv'
  <2>1. /\ UNCHANGED <<ledger, wrapper, memo, eager, on>>
        /\ at[x] = "start" /\ at' = [at EXCEPT ![x] = "record"]
        /\ spawned' = [spawned EXCEPT ![on[x]] = @ + 1]
    BY <1>7 DEF StartUserRun, Goto, ledgerVars
  <2>2. spawned'[on[x]] > 0 /\ \A d \in Deliveries : spawned[d] > 0 => spawned'[d] > 0
    BY <1>0, <2>1
  <2> QED
    BY <1>0, <2>1, <2>2
<1>8. ASSUME NEW x \in Execs, RecordStep(x) PROVE TruthInv'
  BY <1>0, <1>8 DEF RecordStep, Goto
<1>9. ASSUME NEW x \in Execs, MarkSkipped(x) \/ MarkDelivered(x) PROVE TruthInv'
  BY <1>0, <1>9 DEF MarkSkipped, MarkDelivered, Goto
<1>10. ASSUME NEW x \in Execs, Throws(x) \/ WorkerCrash(x) PROVE TruthInv'
  <2>1. /\ UNCHANGED <<ledger, wrapper, spawned, eager>> /\ memo' \subseteq memo
        /\ \A y \in Execs \ {x} : at'[y] = at[y] /\ on'[y] = on[y]
        /\ at'[x] \in {"idle", "error"}
    BY <1>0, <1>10 DEF Throws, WorkerCrash, Leave, Goto, ledgerVars
  <2> QED
    BY <1>0, <2>1
<1>11. ASSUME NEW d \in Deliveries, SweepWrapper(d) \/ ReplayWrapper(d) PROVE TruthInv'
  <2>1. /\ UNCHANGED <<ledger, memo, spawned, eager, at, on>>
        /\ wrapper' = [wrapper EXCEPT ![d] = "pending"]
    BY <1>11 DEF SweepWrapper, ReplayWrapper, handlerVars
  <2> QED
    BY <1>0, <2>1
<1> QED
  BY <1>1, <1>2, <1>3, <1>4, <1>5, <1>6, <1>7, <1>8, <1>9, <1>10, <1>11
     DEF Next, PublishOnly, ReadyOnly, ProcessOnly, DrainOnly, Handle, vars, bridgeOnly

\* A delivery is marked delivered only when a user run was started for it, and a
\* wrapper completes only after the ledger has its verdict.
THEOREM LedgerIsTrue == Spec => []LedgerTruth
<1>1. Init => TruthInv
  BY DEF Init, TruthInv, LedgerTruth
<1>2. TruthInv => LedgerTruth
  BY DEF TruthInv
<1> QED
  BY <1>1, <1>2, NextTruth, BridgeTypes, PTL DEF Spec

-----------------------------------------------------------------------------
(* Starting the user job once *)

\* As long as a delivery is not doubtful, one execution works on it, and the run
\* it has started is in the memo or about to be.
OneStart(d) ==
  /\ \A x, y \in Execs : on[x] = d /\ on[y] = d => x = y
  /\ spawned[d] \in {0, 1}
  /\ spawned[d] = 1 => d \in memo \/ \E x \in Execs : on[x] = d /\ at[x] = "record"
  /\ \A x \in Execs : on[x] = d /\ at[x] \in {"open", "start"} => d \notin memo

SpawnInv == \A d \in Deliveries \ doubtful : OneStart(d)

LEMMA NextSpawn == TypeOK /\ SpawnInv /\ [Next]_vars => SpawnInv'
<1> SUFFICES ASSUME TypeOK, SpawnInv, [Next]_vars, NEW d \in Deliveries, d \notin doubtful'
             PROVE  OneStart(d)'
  BY DEF SpawnInv
<1> USE DeliveryFacts
<1>0. /\ \A x \in Execs : at[x] = "idle" <=> on[x] = NoDelivery
      /\ spawned \in [Deliveries -> Nat] /\ memo \subseteq Deliveries
      /\ at \in [Execs -> Steps] /\ on \in [Execs -> Deliveries \cup {NoDelivery}]
      /\ d # NoDelivery
  BY DEF TypeOK
<1>1. ASSUME doubtful \subseteq doubtful' PROVE OneStart(d)
  BY <1>1 DEF SpawnInv
<1>2. ASSUME UNCHANGED <<memo, at, on, spawned, doubtful>> PROVE OneStart(d)'
  BY <1>1, <1>2 DEF OneStart
<1>3. ASSUME NEW x \in Execs, ClaimSome(x) PROVE OneStart(d)'
  <2>1. PICK f \in Deliveries : ClaimWrapper(x, f)
    BY <1>3 DEF ClaimSome
  <2>2. /\ UNCHANGED <<memo, spawned>> /\ at[x] = "idle" /\ on[x] = NoDelivery
        /\ at' = [at EXCEPT ![x] = "load"] /\ on' = [on EXCEPT ![x] = f]
        /\ doubtful \subseteq doubtful' /\ (d = f => \A y \in Execs : on[y] # d)
    BY <1>0, <2>1 DEF ClaimWrapper, Goto
  <2> QED
    BY <1>0, <1>1, <2>2 DEF OneStart
\* A step of an execution that neither starts a run nor touches the memo, and
\* that opens the step only when there is no memo.
<1>4. ASSUME NEW x \in Execs, UNCHANGED <<memo, spawned, doubtful>>, at[x] # "record",
             \A y \in Execs \ {x} : at'[y] = at[y] /\ on'[y] = on[y],
             on'[x] \in {on[x], NoDelivery},
             at'[x] \in {"open", "start"} => on[x] \notin memo
      PROVE  OneStart(d)'
  BY <1>0, <1>1, <1>4 DEF OneStart
<1>5. ASSUME NEW x \in Execs,
             SettleWrapper(x) \/ Load(x) \/ MarkSkipped(x) \/ FindStep(x) \/ MarkDelivered(x)
      PROVE  OneStart(d)'
  BY <1>0, <1>4, <1>5
     DEF SettleWrapper, Load, MarkSkipped, FindStep, MarkDelivered, Leave, Goto, ledgerVars
<1>6. ASSUME NEW x \in Execs, on[x] = d, at[x] \in {"open", "start"}, OneStart(d)
      PROVE  spawned[d] = 0 /\ d \notin memo
  BY <1>6 DEF OneStart
<1>7. ASSUME NEW x \in Execs, OpenStep(x) PROVE OneStart(d)'
  <2>1. /\ memo' = memo \ {on[x]} /\ at[x] = "open" /\ at' = [at EXCEPT ![x] = "start"]
        /\ UNCHANGED <<on, spawned, doubtful>>
    BY <1>7 DEF OpenStep, Goto
  <2>2. on[x] = d => spawned[d] = 0
    BY <1>1, <1>6, <2>1
  <2> QED
    BY <1>0, <1>1, <2>1, <2>2 DEF OneStart
<1>8. ASSUME NEW x \in Execs, StartUserRun(x) PROVE OneStart(d)'
  <2>1. /\ spawned' = [spawned EXCEPT ![on[x]] = @ + 1]
        /\ at[x] = "start" /\ at' = [at EXCEPT ![x] = "record"]
        /\ UNCHANGED <<memo, on, doubtful>>
    BY <1>8 DEF StartUserRun, Goto, ledgerVars
  <2>2. CASE on[x] = d
    <3>1. spawned[d] = 0
      BY <1>1, <1>6, <2>1, <2>2
    <3>2. spawned'[d] = 1
      BY <1>0, <2>1, <2>2, <3>1
    <3> QED
      BY <1>0, <1>1, <2>1, <2>2, <3>2 DEF OneStart
  <2>3. CASE on[x] # d
    BY <1>0, <1>1, <2>1, <2>3 DEF OneStart
  <2> QED
    BY <2>2, <2>3
<1>9. ASSUME NEW x \in Execs, RecordStep(x) PROVE OneStart(d)'
  <2>1. /\ memo' = memo \cup {on[x]} /\ at[x] = "record" /\ at' = [at EXCEPT ![x] = "mark"]
        /\ UNCHANGED <<on, spawned, doubtful>>
    BY <1>9 DEF RecordStep, Goto
  <2> QED
    BY <1>0, <1>1, <2>1 DEF OneStart
<1>10. ASSUME NEW x \in Execs, Throws(x) PROVE OneStart(d)'
  <2>1. /\ at' = [at EXCEPT ![x] = "error"] /\ UNCHANGED <<on, spawned>>
        /\ doubtful \subseteq doubtful' /\ (at[x] = "record" => on[x] # d)
        /\ memo' = memo \/ (at[x] \in {"start", "record"} /\ memo' = memo \ {on[x]})
    <3>1. at' = [at EXCEPT ![x] = "error"] /\ UNCHANGED <<on, spawned>>
      BY <1>10 DEF Throws, Goto
    <3>2. doubtful' = IF at[x] = "record" THEN doubtful \cup {on[x]} ELSE doubtful
      BY <1>10 DEF Throws
    <3>3. memo' = memo \/ (at[x] \in {"start", "record"} /\ memo' = memo \ {on[x]})
      BY <1>10 DEF Throws
    <3>4. doubtful \subseteq doubtful' /\ (at[x] = "record" => on[x] # d)
      BY <3>2, <1>1
    <3> QED
      BY <3>1, <3>3, <3>4
  <2>2. on[x] = d /\ at[x] = "start" => spawned[d] = 0
    BY <1>1, <1>6, <2>1
  <2> QED
    BY <1>0, <1>1, <2>1, <2>2 DEF OneStart
<1>11. ASSUME NEW x \in Execs, WorkerCrash(x) PROVE OneStart(d)'
  <2>1. /\ at' = [at EXCEPT ![x] = "idle"] /\ on' = [on EXCEPT ![x] = NoDelivery]
        /\ UNCHANGED <<memo, spawned>>
        /\ doubtful \subseteq doubtful' /\ (at[x] = "record" => on[x] # d)
    BY <1>11 DEF WorkerCrash, Leave, Goto, ledgerVars
  <2> QED
    BY <1>0, <1>1, <2>1 DEF OneStart
<1> QED
  BY <1>2, <1>3, <1>5, <1>7, <1>8, <1>9, <1>10, <1>11
     DEF Next, PublishOnly, PublishAndStart, ReadyOnly, ProcessOnly, DrainOnly, CommitWithFanout,
         SweepWrapper, ReplayWrapper, Handle, handlerVars, vars, bridgeOnly

\* The memo of the step makes the start of the user job happen once, over retries,
\* replays and double drains: a second start takes a lost record or a second
\* execution of the wrapper.
THEOREM UserRunStartsOnce == Spec => []SpawnOnce
<1>1. Init => SpawnInv
  BY DeliveryFacts DEF Init, SpawnInv, OneStart
<1>2. TypeOK /\ SpawnInv => SpawnOnce
  BY DEF SpawnInv, OneStart, SpawnOnce, TypeOK
<1> QED
  BY <1>1, <1>2, NextSpawn, BridgeTypes, PTL DEF Spec

-----------------------------------------------------------------------------
(* The promise of the bridge *)

\* Builds decide: an execution is past the question with its own answer, a user
\* run or a skipped row has a build behind it.
BuildInv ==
  /\ \A x \in Execs :
       /\ at[x] \in {"find", "open", "start", "record", "mark"} => on[x] \notin Declined[x]
       /\ at[x] = "skip" => on[x] \in Declined[x]
  /\ \A d \in Deliveries :
       /\ ledger[d] = "skipped" => \E x \in Execs : d \in Declined[x]
       /\ spawned[d] > 0 => \E x \in Execs : d \notin Declined[x]

\* The step of an execution that goes to another await, or leaves.
Moves(x) ==
  /\ \A y \in Execs \ {x} : at'[y] = at[y] /\ on'[y] = on[y]
  /\ \/ at'[x] \in {"idle", "load", "settle", "error"}
     \/ /\ on'[x] = on[x]
        /\ \/ at[x] = "load" /\ at'[x] = IF on[x] \in Declined[x] THEN "skip" ELSE "find"
           \/ /\ at[x] \in {"find", "open", "start", "record", "mark"}
              /\ at'[x] \in {"find", "open", "start", "record", "mark"}

LEMMA ExecsMove ==
  ASSUME TypeOK, NEW x \in Execs,
         Handle(x) \/ ClaimSome(x) \/ Throws(x) \/ WorkerCrash(x)
  PROVE  Moves(x)
<1> USE DEF TypeOK, Moves, Goto, Leave
<1>1. CASE ClaimSome(x)
  BY <1>1 DEF ClaimSome, ClaimWrapper
<1>2. CASE Throws(x) \/ WorkerCrash(x)
  BY <1>2 DEF Throws, WorkerCrash
<1>3. CASE Load(x) \/ FindStep(x) \/ OpenStep(x) \/ StartUserRun(x)
  BY <1>3 DEF Load, FindStep, OpenStep, StartUserRun
<1>4. CASE MarkSkipped(x) \/ RecordStep(x) \/ MarkDelivered(x)
  BY <1>4 DEF MarkSkipped, RecordStep, MarkDelivered
<1>5. CASE SettleWrapper(x)
  BY <1>5 DEF SettleWrapper
<1> QED
  BY <1>1, <1>2, <1>3, <1>4, <1>5 DEF Handle

LEMMA NextBuild == TypeOK /\ BuildInv /\ [Next]_vars => BuildInv'
<1> SUFFICES ASSUME TypeOK, BuildInv, [Next]_vars PROVE BuildInv'
  OBVIOUS
<1> USE DeliveryFacts
<1>0. /\ \A x \in Execs : at[x] # "idle" => on[x] \in Deliveries
      /\ spawned \in [Deliveries -> Nat]
      /\ ledger \in [Deliveries -> {"absent", "pending", "delivered", "skipped"}]
  BY DEF TypeOK
<1> USE DEF BuildInv
\* What an execution must have done for a verdict or a start to be new.
<1>1. ASSUME NEW x \in Execs, Moves(x),
             \A d \in Deliveries :
               /\ ledger'[d] = "skipped" => ledger[d] = "skipped" \/ (at[x] = "skip" /\ on[x] = d)
               /\ spawned'[d] > 0 => spawned[d] > 0 \/ (at[x] = "start" /\ on[x] = d)
      PROVE  BuildInv'
  BY <1>1 DEF Moves
<1>2. ASSUME UNCHANGED <<at, on, spawned>>,
             \A d \in Deliveries : ledger'[d] = "skipped" => ledger[d] = "skipped"
      PROVE  BuildInv'
  BY <1>2
<1>3. CASE UNCHANGED bridgeOnly
  BY <1>2, <1>3 DEF bridgeOnly
<1>4. ASSUME NEW e \in Events, PublishAndStart(e) PROVE BuildInv'
  <2>1. /\ UNCHANGED <<at, on, spawned>>
        /\ \A d \in Deliveries : ledger'[d] = "skipped" => ledger[d] = "skipped"
    BY <1>4 DEF PublishAndStart, handlerVars
  <2> QED
    BY <1>2, <2>1
<1>5. ASSUME NEW t \in Tasks, CommitWithFanout(t) PROVE BuildInv'
  <2>1. /\ UNCHANGED <<at, on, spawned>>
        /\ \A d \in Deliveries : ledger'[d] = "skipped" => ledger[d] = "skipped"
    BY <1>5 DEF CommitWithFanout, Fanout, handlerVars
  <2> QED
    BY <1>2, <2>1
<1>6. ASSUME NEW d \in Deliveries, SweepWrapper(d) \/ ReplayWrapper(d) PROVE BuildInv'
  BY <1>2, <1>6 DEF SweepWrapper, ReplayWrapper, handlerVars
<1>7. ASSUME NEW x \in Execs, Handle(x) \/ ClaimSome(x) \/ Throws(x) \/ WorkerCrash(x)
      PROVE  BuildInv'
  <2>1. Moves(x)
    BY <1>7, ExecsMove
  <2>2. CASE UNCHANGED <<ledger, spawned>>
    BY <1>1, <2>1, <2>2
  <2>3. CASE MarkSkipped(x) \/ MarkDelivered(x)
    BY <1>0, <1>1, <2>1, <2>3 DEF MarkSkipped, MarkDelivered
  <2>4. CASE StartUserRun(x)
    BY <1>0, <1>1, <2>1, <2>4 DEF StartUserRun, ledgerVars
  <2> QED
    BY <1>7, <2>2, <2>3, <2>4
       DEF Handle, ClaimSome, ClaimWrapper, Throws, WorkerCrash, Load, FindStep, OpenStep,
           RecordStep, SettleWrapper, ledgerVars
<1> QED
  BY <1>3, <1>4, <1>5, <1>6, <1>7
     DEF Next, PublishOnly, ReadyOnly, ProcessOnly, DrainOnly, vars, bridgeOnly


LEMMA BuildsDecide == Spec => []BuildInv
<1>1. Init => BuildInv
  BY DEF Init, BuildInv
<1> QED
  BY <1>1, NextBuild, BridgeTypes, PTL DEF Spec

LEMMA InitPromise == Init => Promise!Init
BY DEF Init, OutboxInit, Promise!Init, EagerDelivery

Started == {d \in Deliveries : spawned[d] > 0 \/ EagerDelivery(d)}

\* What an execution says or starts is still open, or has been said already.
LEMMA ExecMayDecide ==
  ASSUME TypeOK, LedgerInv, TruthInv, BuildInv,
         NEW x \in Execs, at[x] \in {"skip", "start", "mark"}
  PROVE  /\ on[x] \in Deliveries /\ ledger[on[x]] # "absent"
         /\ at[x] \in {"start", "mark"} =>
              /\ \E y \in Execs : on[x] \notin Declined[y]
              /\ Promise!Open(on[x]) \/ ledger[on[x]] = "delivered"
         /\ at[x] = "skip" =>
              /\ \E y \in Execs : on[x] \in Declined[y]
              /\ Promise!Open(on[x]) \/ ledger[on[x]] = "skipped"
         /\ ledger[on[x]] = "delivered" \/ at[x] = "mark" => on[x] \in Started
<1> USE DeliveryFacts DEF LedgerInv, TruthInv, BuildInv
<1>1. on[x] \in Deliveries /\ wrapper[on[x]] # "absent" /\ ledger[on[x]] # "absent"
  BY DEF TypeOK, RowsInOrder
<1>2. ledger[on[x]] \in {"pending", "delivered", "skipped"}
  BY <1>1 DEF TypeOK
<1>3. ~ EagerDelivery(on[x])
  BY <1>1 DEF EagerStartsOnce, EagerDelivery
<1>4. ledger[on[x]] = "delivered" \/ at[x] = "mark" => spawned[on[x]] > 0
  BY <1>1, <1>3 DEF LedgerTruth, EagerDelivery
<1>5. CASE at[x] \in {"start", "mark"}
  BY <1>1, <1>2, <1>4, <1>5 DEF Promise!Open, Promise!Disputed, Started
<1>6. CASE at[x] = "skip"
  BY <1>1, <1>2, <1>4, <1>6 DEF Promise!Open, Promise!Disputed, Started
<1> QED
  BY <1>1, <1>5, <1>6

LEMMA NextPromise ==
  TypeOK /\ LedgerInv /\ TruthInv /\ BuildInv /\ [Next]_vars
    => [Promise!Next]_<<row, ledger, Started>>
<1> SUFFICES ASSUME TypeOK, LedgerInv, TruthInv, BuildInv, [Next]_vars
             PROVE  [Promise!Next]_<<row, ledger, Started>>
  OBVIOUS
<1> USE DeliveryFacts
<1>0. /\ row \in [Events -> {"absent", "pending", "processed"}]
      /\ ledger \in [Deliveries -> {"absent", "pending", "delivered", "skipped"}]
      /\ spawned \in [Deliveries -> Nat]
  BY DEF TypeOK, OutboxTypeOK
<1>1. ASSUME UNCHANGED <<row, ledger, spawned, eager>>
      PROVE  UNCHANGED <<row, ledger, Started>>
  BY <1>1 DEF Started, EagerDelivery
<1>2. ASSUME NEW e \in Events, PublishOnly(e) PROVE Promise!Next
  <2>1. UNCHANGED Started
    BY <1>2 DEF PublishOnly, bridgeOnly, Started, EagerDelivery
  <2>2. Promise!Publish(e)
    BY <1>2, <2>1 DEF PublishOnly, Publish, bridgeOnly, Promise!Publish, Started
  <2> QED
    BY <2>2 DEF Promise!Next
<1>3. ASSUME NEW e \in Events, PublishAndStart(e) PROVE Promise!Next
  <2> DEFINE now == {d \in {f \in Deliveries : f[2] \in EagerJob} : d[1] = e}
  <2>1. Started' = Started \cup now
    BY <1>3 DEF PublishAndStart, Started, EagerDelivery
  <2>2. ledger' = [d \in Deliveries |-> IF d \in now THEN "delivered" ELSE ledger[d]]
    BY <1>3 DEF PublishAndStart, DeliveriesOf
  <2>3. Promise!PublishAndStart(e)
    BY <1>3, <2>1, <2>2 DEF PublishAndStart, Publish, Promise!PublishAndStart, Started
  <2> QED
    BY <2>3 DEF Promise!Next
<1>4. ASSUME NEW t \in Tasks, CommitWithFanout(t)
      PROVE  Promise!Next \/ UNCHANGED <<row, ledger, Started>>
  <2>1. PICK e \in batch[t] : row' = [row EXCEPT ![e] = "processed"]
                              /\ current' = [current EXCEPT ![t] = e]
    BY <1>4 DEF CommitWithFanout, Commit
  <2>2. e \in Events /\ row[e] \in {"pending", "processed"} /\ current'[t] = e
    BY <2>1 DEF TypeOK, OutboxTypeOK, LedgerInv, RowsInOrder
  <2>3. UNCHANGED Started
    BY <1>4 DEF CommitWithFanout, Started, EagerDelivery
  <2>4. Fanout(e)
    BY <1>4, <2>2 DEF CommitWithFanout
  <2>5. CASE row[e] = "pending"
    <3>1. ledger' = [d \in Deliveries |->
                       IF d \in {f \in Deliveries : f[1] = e /\ e \notin Inert /\ ledger[f] = "absent"}
                       THEN "pending" ELSE ledger[d]]
      BY <2>4 DEF Fanout, DeliveriesOf
    <3>2. Promise!Process(e)
      BY <2>1, <2>3, <2>5, <3>1 DEF Promise!Process, Started
    <3> QED
      BY <2>2, <3>2 DEF Promise!Next
  <2>6. CASE row[e] = "processed"
    <3>1. \A d \in Deliveries : ledger'[d] = ledger[d]
      BY <2>2, <2>4, <2>6 DEF Fanout, LedgerInv, FanoutComplete
    <3>2. ledger' = ledger
      BY <1>0, <2>4, <3>1 DEF Fanout
    <3> QED
      BY <1>0, <2>1, <2>2, <2>3, <2>6, <3>2
  <2> QED
    BY <2>2, <2>5, <2>6
<1>5. ASSUME NEW x \in Execs, StartUserRun(x)
      PROVE  Promise!Next \/ UNCHANGED <<row, ledger, Started>>
  <2>1. /\ UNCHANGED <<row, ledger, eager>> /\ at[x] = "start"
        /\ spawned' = [spawned EXCEPT ![on[x]] = @ + 1]
    BY <1>5 DEF StartUserRun, outboxVars, ledgerVars
  <2>2. on[x] \in Deliveries
    BY <2>1, ExecMayDecide
  <2>3. Started' = Started \cup {on[x]}
    BY <1>0, <2>1, <2>2 DEF Started, EagerDelivery
  <2>4. CASE Promise!Open(on[x])
    <3>1. PICK d \in Deliveries : d = on[x]
      BY <2>2
    <3>2. d \in {f \in Deliveries : \E y \in Execs : f \notin Declined[y]}
      BY <2>1, <3>1, ExecMayDecide
    <3>3. Promise!StartJob(d)
      BY <2>1, <2>3, <2>4, <3>1, <3>2 DEF Promise!StartJob, Started
    <3> QED
      BY <3>3 DEF Promise!Next
  <2>5. CASE ledger[on[x]] = "delivered"
    BY <2>1, <2>3, <2>5, ExecMayDecide
  <2> QED
    BY <2>1, <2>4, <2>5, ExecMayDecide
<1>6. ASSUME NEW x \in Execs, MarkDelivered(x)
      PROVE  Promise!Next \/ UNCHANGED <<row, ledger, Started>>
  <2>1. /\ UNCHANGED <<row, spawned, eager>> /\ at[x] = "mark"
        /\ ledger' = [ledger EXCEPT ![on[x]] = "delivered"]
    BY <1>6 DEF MarkDelivered, outboxVars
  <2>2. UNCHANGED Started
    BY <2>1 DEF Started, EagerDelivery
  <2>3. CASE Promise!Open(on[x])
    <3>1. Promise!Deliver(on[x])
      BY <2>1, <2>2, <2>3, ExecMayDecide DEF Promise!Deliver, Started
    <3> QED
      BY <2>1, <3>1, ExecMayDecide DEF Promise!Next
  <2>4. CASE ledger[on[x]] = "delivered"
    BY <1>0, <2>1, <2>2, <2>4, ExecMayDecide
  <2> QED
    BY <2>1, <2>3, <2>4, ExecMayDecide
<1>7. ASSUME NEW x \in Execs, MarkSkipped(x)
      PROVE  Promise!Next \/ UNCHANGED <<row, ledger, Started>>
  <2>1. /\ UNCHANGED <<row, spawned, eager>> /\ at[x] = "skip"
        /\ ledger' = [ledger EXCEPT ![on[x]] = "skipped"]
    BY <1>7 DEF MarkSkipped, outboxVars
  <2>2. UNCHANGED Started
    BY <2>1 DEF Started, EagerDelivery
  <2>3. CASE Promise!Open(on[x])
    <3>1. Promise!Skip(on[x])
      BY <2>1, <2>2, <2>3, ExecMayDecide DEF Promise!Skip, Started
    <3> QED
      BY <2>1, <3>1, ExecMayDecide DEF Promise!Next
  <2>4. CASE ledger[on[x]] = "skipped"
    BY <1>0, <2>1, <2>2, <2>4, ExecMayDecide
  <2> QED
    BY <2>1, <2>3, <2>4, ExecMayDecide
<1>8. ASSUME NEW x \in Execs,
             \/ ClaimSome(x) \/ Throws(x) \/ WorkerCrash(x) \/ Load(x) \/ FindStep(x)
             \/ OpenStep(x) \/ RecordStep(x) \/ SettleWrapper(x)
      PROVE  UNCHANGED <<row, ledger, spawned, eager>>
  BY <1>8 DEF ClaimSome, ClaimWrapper, Throws, WorkerCrash, Load, FindStep, OpenStep, RecordStep,
              SettleWrapper, outboxVars, ledgerVars
<1>9. ASSUME NEW d \in Deliveries, SweepWrapper(d) \/ ReplayWrapper(d)
      PROVE  UNCHANGED <<row, ledger, spawned, eager>>
  BY <1>9 DEF SweepWrapper, ReplayWrapper
<1>10. ASSUME UNCHANGED vars \/ (\E e \in Events : ReadyOnly(e)) \/ (\E p \in Drainers : ProcessOnly(p))
                \/ (\E t \in Tasks : DrainOnly(t))
       PROVE  UNCHANGED <<row, ledger, spawned, eager>>
  BY <1>10 DEF vars, outboxVars, bridgeOnly, ReadyOnly, ComesReady, ProcessOnly, ProcessStep,
               PollFires, OnWake, BeginClose, Exit, Reopen, DrainOnly, DrainStep, Claim, ClaimFails,
               TxFails, Dispatch
<1> QED
  BY <1>1, <1>2, <1>3, <1>4, <1>5, <1>6, <1>7, <1>8, <1>9, <1>10 DEF Next, Handle

\* The bridge keeps its promise, whatever drains overlap and whatever fails: each
\* of its steps is a step of the promise or one that publisher and reader of the
\* ledger do not see.
THEOREM BridgeKeepsPromise == Spec => ImplementsPromise
<1>1. [Promise!Next]_<<row, ledger, Started>> <=>
        [Promise!Next]_<<row, ledger, {d \in Deliveries : spawned[d] > 0 \/ EagerDelivery(d)}>>
  BY DEF Started
<1>2. Init => TruthInv
  BY DEF Init, TruthInv, LedgerTruth
<1> QED
  BY <1>1, <1>2, InitPromise, NextPromise, NextTruth, BuildsDecide, LedgerCorrect, BridgeTypes, PTL
     DEF Spec, ImplementsPromise, Promise!Spec


=============================================================================
