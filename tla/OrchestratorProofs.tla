-------------------------- MODULE OrchestratorProofs --------------------------
(***************************************************************************)
(* Theorems about Orchestrator, for any number of runs and open calls.     *)
(***************************************************************************)
EXTENDS Orchestrator, TLAPS

\* What a call remembers is still there, for rows are never deleted; and its
\* cascade covers the tree.
CallOK(c) ==
  /\ pc[c] \in {"load", "cancel", "fetch", "cascade", "reset"} => target[c] \in Existing
  /\ args[c].parent # NoRun => args[c].parent \in Existing
  /\ seen[c] \subseteq Existing
  /\ todo[c] \subseteq Existing
  /\ CascadeCovers(c)

TreeInv ==
  /\ StateTypeOK
  /\ handling \subseteq Existing
  /\ \A c \in Calls : CallOK(c)

Written == IN_FLIGHT_STATUSES \cup TERMINAL_STATUSES

LEMMA InitTree == Init => TreeInv
BY OrchestratorAssumption
   DEF Init, TreeInv, StateTypeOK, CallOK, CascadeCovers, Tree, NoArgs, StartArgs, Existing,
       IN_FLIGHT_STATUSES, TERMINAL_STATUSES

\* A call that a step does not touch is kept by a step that does not touch the
\* tree,
LEMMA CallKept ==
  ASSUME NEW d \in Calls, CallOK(d),
         UNCHANGED <<status, root, policy, revived>>,
         UNCHANGED <<pc[d], args[d], target[d], todo[d], seen[d]>>
  PROVE  CallOK(d)'
BY DEF CallOK, CascadeCovers, Tree, Existing, Terminal

\* by an UPDATE of a status: a row that leaves a terminal status is recorded as
\* revived,
LEMMA CallKeptByUpdate ==
  ASSUME StateTypeOK, NEW d \in Calls, CallOK(d),
         NEW r \in Existing, NEW new \in Written, SetStatus(r, new),
         UNCHANGED <<pc[d], args[d], target[d], todo[d], seen[d]>>
  PROVE  CallOK(d)'
<1>1. Existing' = Existing
  BY DEF Existing, SetStatus, Written, StateTypeOK, IN_FLIGHT_STATUSES, TERMINAL_STATUSES
<1>2. \A s \in Runs : Terminal(s) => Terminal(s)' \/ s \in revived'
  BY DEF Terminal, SetStatus, StateTypeOK
<1>3. revived \subseteq revived' /\ UNCHANGED <<root, policy>>
  BY DEF SetStatus
<1>4. seen[d] \subseteq Runs
  BY DEF StateTypeOK
<1> QED
  BY <1>1, <1>2, <1>3, <1>4 DEF CallOK, CascadeCovers, Tree

\* and by an INSERT: the new row is in no cascade's snapshot.
LEMMA CallKeptByInsert ==
  ASSUME StateTypeOK, NEW d \in Calls, CallOK(d), NEW r \in Runs \ Existing,
         status' = [status EXCEPT ![r] = "pending"],
         NEW R, root' = [root EXCEPT ![r] = R],
         NEW P, policy' = [policy EXCEPT ![r] = P],
         UNCHANGED revived,
         UNCHANGED <<pc[d], args[d], target[d], todo[d], seen[d]>>
  PROVE  CallOK(d)'
<1>1. Existing' = Existing \cup {r}
  BY DEF Existing, StateTypeOK
<1>2. \A s \in Existing : status'[s] = status[s] /\ root'[s] = root[s] /\ policy'[s] = policy[s]
  BY DEF Existing, StateTypeOK
<1>3. \A s \in Existing : Terminal(s) => Terminal(s)'
  BY <1>2 DEF Terminal
<1>4. Existing \subseteq Runs
  BY DEF Existing
<1> QED
  BY <1>1, <1>2, <1>3, <1>4 DEF CallOK, CascadeCovers, Tree

\* A call that has returned, or goes on with the start it belongs to.
LEMMA ReturnTypes ==
  ASSUME StateTypeOK, NEW c \in Calls, Leave(c) \/ Return(c) \/ CancelReturns(c)
  PROVE  /\ pc' \in [Calls -> {"idle", "dedupe", "collide", "insert", "load", "cancel",
                               "fetch", "cascade", "reset"}]
         /\ args' \in [Calls -> StartArgs \cup {NoArgs}]
         /\ target' \in [Calls -> Runs \cup {NoRun}]
         /\ todo' \in [Calls -> SUBSET Runs]
         /\ seen' \in [Calls -> SUBSET Runs]
BY DEF StateTypeOK, Leave, Return, CancelReturns, Goto

LEMMA ReturnOK ==
  ASSUME StateTypeOK, NEW c \in Calls, CallOK(c), Leave(c) \/ Return(c) \/ CancelReturns(c),
         Existing \subseteq Existing'
  PROVE  CallOK(c)'
<1>1. pc'[c] \in {"idle", "insert"} /\ seen'[c] = {} /\ todo'[c] = {}
  BY DEF StateTypeOK, Leave, Return, CancelReturns, Goto
<1>2. args'[c] = args[c] \/ args'[c].parent = NoRun
  BY DEF StateTypeOK, Leave, Return, CancelReturns, Goto, NoArgs
<1> QED
  BY <1>1, <1>2 DEF CallOK, CascadeCovers, Tree

LEMMA OthersUntouched ==
  ASSUME StateTypeOK, NEW c \in Calls, NEW d \in Calls, d # c, Leave(c) \/ Return(c) \/ CancelReturns(c)
  PROVE  UNCHANGED <<pc[d], args[d], target[d], todo[d], seen[d]>>
BY DEF StateTypeOK, Leave, Return, CancelReturns, Goto

\* A call that returns without touching the tree.
LEMMA ReturnKeeps ==
  ASSUME TreeInv, NEW c \in Calls, Return(c) \/ CancelReturns(c),
         UNCHANGED <<rowVars, handling, revived>>
  PROVE  TreeInv'
<1>1. StateTypeOK'
  BY ReturnTypes DEF TreeInv, StateTypeOK, rowVars
<1>2. Existing' = Existing
  BY DEF Existing, rowVars
<1>3. ASSUME NEW d \in Calls PROVE CallOK(d)'
  <2>1. CASE d = c
    BY <2>1, <1>2, ReturnOK DEF TreeInv
  <2>2. CASE d # c
    BY <2>2, OthersUntouched, CallKept DEF TreeInv, rowVars
  <2> QED
    BY <2>1, <2>2
<1> QED
  BY <1>1, <1>2, <1>3 DEF TreeInv

\* A call that moves on without touching the tree.
LEMMA MoveKeeps ==
  ASSUME TreeInv, NEW c \in Calls, StateTypeOK', CallOK(c)',
         UNCHANGED <<status, root, policy, handling, revived>>,
         \A d \in Calls \ {c} : UNCHANGED <<pc[d], args[d], target[d], todo[d], seen[d]>>
  PROVE  TreeInv'
<1>1. Existing' = Existing
  BY DEF Existing
<1>2. ASSUME NEW d \in Calls PROVE CallOK(d)'
  BY CallKept DEF TreeInv
<1> QED
  BY <1>1, <1>2 DEF TreeInv

\* An UPDATE leaves the types alone and the rows in place.
LEMMA UpdateTypes ==
  ASSUME StateTypeOK, NEW r \in Existing, NEW new \in Written, SetStatus(r, new)
  PROVE  /\ Existing' = Existing
         /\ status' \in [Runs -> {"absent"} \cup IN_FLIGHT_STATUSES \cup TERMINAL_STATUSES]
         /\ revived' \in SUBSET Runs
         /\ \A s \in Runs : status'[s] # "absent" => root'[s] \in Runs
<1>1. Existing' = Existing
  BY DEF Existing, SetStatus, Written, StateTypeOK, IN_FLIGHT_STATUSES, TERMINAL_STATUSES
<1>2. status' \in [Runs -> {"absent"} \cup IN_FLIGHT_STATUSES \cup TERMINAL_STATUSES]
  BY DEF SetStatus, Written, StateTypeOK
<1>3. revived' \in SUBSET Runs
  BY DEF SetStatus, StateTypeOK, Existing
<1>4. \A s \in Runs : status'[s] # "absent" => root'[s] \in Runs
  <2> SUFFICES ASSUME NEW s \in Runs, status'[s] # "absent" PROVE root'[s] \in Runs
    OBVIOUS
  <2>1. s \in Existing
    BY <1>1 DEF Existing
  <2> QED
    BY <2>1 DEF StateTypeOK, SetStatus, Existing
<1> QED
  BY <1>1, <1>2, <1>3, <1>4

\* A worker's UPDATE.
LEMMA WorkerUpdateKeeps ==
  ASSUME TreeInv, NEW r \in Existing, NEW new \in Written, SetStatus(r, new),
         UNCHANGED callVars, handling' \subseteq Existing
  PROVE  TreeInv'
<1>1. StateTypeOK'
  BY UpdateTypes DEF TreeInv, StateTypeOK, SetStatus, callVars, Existing
<1>2. ASSUME NEW d \in Calls PROVE CallOK(d)'
  BY CallKeptByUpdate DEF TreeInv, callVars
<1>3. handling' \subseteq Existing'
  BY UpdateTypes DEF TreeInv
<1> QED
  BY <1>1, <1>2, <1>3 DEF TreeInv

LEMMA StartSteps ==
  ASSUME TreeInv, NEW c \in Calls,
         StartCall(c) \/ DedupeHit(c) \/ DedupeMiss(c) \/ NoCollision(c) \/ Reject(c) \/ Replace(c)
  PROVE  TreeInv'
<1> USE DEF TreeInv
<1>1. CASE StartCall(c)
  <2>1. PICK a \in StartArgs :
          a.parent \in handling \cup {NoRun} /\ args' = [args EXCEPT ![c] = a]
    BY <1>1 DEF StartCall
  <2>2. /\ pc' = [pc EXCEPT ![c] = FirstCheck]
        /\ FirstCheck \in {"dedupe", "collide", "insert"}
        /\ UNCHANGED <<rowVars, handling, target, todo, seen, revived>>
    BY <1>1 DEF StartCall, Goto, FirstCheck, AfterDedupe
  <2>3. StateTypeOK'
    BY <2>1, <2>2 DEF StateTypeOK, rowVars
  <2>4. CallOK(c)'
    BY <2>1, <2>2 DEF StateTypeOK, CallOK, CascadeCovers, Tree, Existing, rowVars
  <2>5. \A d \in Calls \ {c} : UNCHANGED <<pc[d], args[d], target[d], todo[d], seen[d]>>
    BY <2>1, <2>2 DEF StateTypeOK
  <2> QED
    BY <2>2, <2>3, <2>4, <2>5, MoveKeeps DEF rowVars
<1>2. CASE DedupeHit(c) \/ Reject(c)
  BY <1>2, ReturnKeeps DEF DedupeHit, Reject
<1>3. CASE DedupeMiss(c) \/ NoCollision(c)
  <2>1. PICK at \in {"collide", "insert"} : pc' = [pc EXCEPT ![c] = at]
    BY <1>3 DEF DedupeMiss, NoCollision, Goto, AfterDedupe
  <2>2. UNCHANGED <<rowVars, handling, args, target, todo, seen, revived>>
    BY <1>3 DEF DedupeMiss, NoCollision
  <2>3. StateTypeOK'
    BY <2>1, <2>2 DEF StateTypeOK, rowVars
  <2>4. CallOK(c)'
    BY <2>1, <2>2 DEF StateTypeOK, CallOK, CascadeCovers, Tree, Existing, rowVars
  <2>5. \A d \in Calls \ {c} : UNCHANGED <<pc[d], args[d], target[d], todo[d], seen[d]>>
    BY <2>1, <2>2 DEF StateTypeOK
  <2> QED
    BY <2>2, <2>3, <2>4, <2>5, MoveKeeps DEF rowVars
<1>4. CASE Replace(c)
  <2>1. PICK r \in Existing : target' = [target EXCEPT ![c] = r]
    BY <1>4 DEF Replace, Incumbents, Live, Existing, IN_FLIGHT_STATUSES
  <2>2. /\ pc' = [pc EXCEPT ![c] = "load"]
        /\ UNCHANGED <<rowVars, handling, args, todo, seen, revived>>
    BY <1>4 DEF Replace, Goto
  <2>3. StateTypeOK'
    BY <2>1, <2>2 DEF StateTypeOK, rowVars, Existing
  <2>4. CallOK(c)'
    BY <2>1, <2>2 DEF StateTypeOK, CallOK, CascadeCovers, Tree, Existing, rowVars
  <2>5. \A d \in Calls \ {c} : UNCHANGED <<pc[d], args[d], target[d], todo[d], seen[d]>>
    BY <2>1, <2>2 DEF StateTypeOK
  <2> QED
    BY <2>2, <2>3, <2>4, <2>5, MoveKeeps DEF rowVars
<1> QED
  BY <1>1, <1>2, <1>3, <1>4

LEMMA InsertStep == ASSUME TreeInv, NEW c \in Calls, Insert(c) PROVE TreeInv'
<1> USE DEF TreeInv
<1> DEFINE a == args[c]
<1> DEFINE R(r) == IF a.parent = NoRun THEN r ELSE root[a.parent]
<1>1. PICK r \in Runs \ Existing :
        /\ status' = [status EXCEPT ![r] = "pending"]
        /\ parent' = [parent EXCEPT ![r] = a.parent]
        /\ root' = [root EXCEPT ![r] = R(r)]
        /\ policy' = [policy EXCEPT ![r] = a.policy]
        /\ payload' = [payload EXCEPT ![r] = a.payload]
        /\ recent' = recent \cup {r}
  BY DEF Insert
<1>2. Leave(c) /\ UNCHANGED <<handling, revived>>
  BY DEF Insert
<1>3. Existing' = Existing \cup {r}
  BY <1>1 DEF Existing, StateTypeOK
<1>4. R(r) \in Runs
  BY DEF StateTypeOK, CallOK, Existing
<1>5. a.policy \in Policies \cup {"terminate"} /\ a.payload \in Payloads \cup {NoRun}
      /\ a.parent \in Runs \cup {NoRun}
  BY DEF StateTypeOK, StartArgs, NoArgs
<1> HIDE DEF a, R
<1>6. StateTypeOK'
  <2>1. status' \in [Runs -> {"absent"} \cup IN_FLIGHT_STATUSES \cup TERMINAL_STATUSES]
    BY <1>1 DEF StateTypeOK, IN_FLIGHT_STATUSES
  <2>2. /\ root' \in [Runs -> Runs \cup {NoRun}]
        /\ parent' \in [Runs -> Runs \cup {NoRun}]
        /\ policy' \in [Runs -> Policies \cup {"terminate"}]
        /\ payload' \in [Runs -> Payloads \cup {NoRun}]
        /\ recent' \in SUBSET Runs
    BY <1>1, <1>4, <1>5 DEF StateTypeOK
  <2>3. \A s \in Runs : status'[s] # "absent" => root'[s] \in Runs
    BY <1>1, <1>4 DEF StateTypeOK
  <2> QED
    BY <1>2, <2>1, <2>2, <2>3, ReturnTypes DEF StateTypeOK
<1>7. ASSUME NEW d \in Calls PROVE CallOK(d)'
  <2>1. CASE d = c
    BY <1>2, <1>3, <2>1, ReturnOK
  <2>2. CASE d # c
    <3>1. UNCHANGED <<pc[d], args[d], target[d], todo[d], seen[d]>>
      BY <1>2, <2>2, OthersUntouched
    <3> QED
      BY <1>1, <1>2, <3>1, CallKeptByInsert
  <2> QED
    BY <2>1, <2>2
<1> QED
  BY <1>2, <1>3, <1>6, <1>7

\* The steps of cancel that do not write.
LEMMA CancelReads ==
  ASSUME TreeInv, NEW c \in Calls, CancelCall(c) \/ CancelLoad(c) \/ CancelFetch(c) \/ ReplayCall(c)
  PROVE  TreeInv'
<1> USE DEF TreeInv
<1>1. CASE CancelCall(c) \/ ReplayCall(c)
  <2>1. PICK r \in Existing : target' = [target EXCEPT ![c] = r]
    BY <1>1 DEF CancelCall, ReplayCall, Existing, Terminal, TERMINAL_STATUSES
  <2>2. PICK at \in {"load", "reset"} : pc' = [pc EXCEPT ![c] = at]
    BY <1>1 DEF CancelCall, ReplayCall, Goto
  <2>3. UNCHANGED <<rowVars, handling, args, todo, seen, revived>>
    BY <1>1 DEF CancelCall, ReplayCall
  <2>4. StateTypeOK'
    BY <2>1, <2>2, <2>3 DEF StateTypeOK, rowVars, Existing
  <2>5. CallOK(c)'
    BY <2>1, <2>2, <2>3 DEF StateTypeOK, CallOK, CascadeCovers, Tree, Existing, rowVars
  <2>6. \A d \in Calls \ {c} : UNCHANGED <<pc[d], args[d], target[d], todo[d], seen[d]>>
    BY <2>1, <2>2, <2>3 DEF StateTypeOK
  <2> QED
    BY <2>3, <2>4, <2>5, <2>6, MoveKeeps DEF rowVars
<1>2. CASE CancelLoad(c)
  <2>1. CASE Terminal(target[c])
    BY <1>2, <2>1, ReturnKeeps DEF CancelLoad
  <2>2. CASE ~Terminal(target[c])
    <3>1. /\ pc[c] = "load" /\ pc' = [pc EXCEPT ![c] = "cancel"]
          /\ UNCHANGED <<rowVars, handling, args, target, todo, seen, revived>>
      BY <1>2, <2>2 DEF CancelLoad, Goto
    <3>2. StateTypeOK'
      BY <3>1 DEF StateTypeOK, rowVars
    <3>3. CallOK(c)'
      BY <3>1 DEF StateTypeOK, CallOK, CascadeCovers, Tree, Existing, rowVars
    <3>4. \A d \in Calls \ {c} : UNCHANGED <<pc[d], args[d], target[d], todo[d], seen[d]>>
      BY <3>1 DEF StateTypeOK
    <3> QED
      BY <3>1, <3>2, <3>3, <3>4, MoveKeeps DEF rowVars
  <2> QED
    BY <2>1, <2>2
<1>3. CASE CancelFetch(c)
  <2>1. CASE Descendants(target[c]) = {}
    BY <1>3, <2>1, ReturnKeeps DEF CancelFetch
  <2>2. CASE Descendants(target[c]) # {}
    <3>1. /\ pc[c] = "fetch" /\ pc' = [pc EXCEPT ![c] = "cascade"]
          /\ todo' = [todo EXCEPT ![c] = Descendants(target[c])]
          /\ seen' = [seen EXCEPT ![c] = Existing]
          /\ UNCHANGED <<rowVars, handling, args, target, revived>>
      BY <1>3, <2>2 DEF CancelFetch, Goto
    <3>2. Descendants(target[c]) \subseteq Existing /\ Existing \subseteq Runs
      BY DEF Descendants, Tree, Existing, Live, IN_FLIGHT_STATUSES
    <3>3. StateTypeOK'
      BY <3>1, <3>2 DEF StateTypeOK, rowVars
    <3>4. CascadeCovers(c)'
      <4>1. \A r \in Existing \cap Tree(target[c]) : Terminal(r) \/ r \in Descendants(target[c])
        BY DEF Existing, Descendants, Tree, Live, Terminal, StateTypeOK, IN_FLIGHT_STATUSES, TERMINAL_STATUSES
      <4> QED
        BY <3>1, <4>1 DEF CascadeCovers, Tree, StateTypeOK, rowVars, Terminal
    <3>5. CallOK(c)'
      BY <3>1, <3>2, <3>4 DEF StateTypeOK, CallOK, Existing, rowVars
    <3>6. \A d \in Calls \ {c} : UNCHANGED <<pc[d], args[d], target[d], todo[d], seen[d]>>
      BY <3>1 DEF StateTypeOK
    <3> QED
      BY <3>1, <3>3, <3>5, <3>6, MoveKeeps DEF rowVars
  <2> QED
    BY <2>1, <2>2
<1> QED
  BY <1>1, <1>2, <1>3

\* A call that writes a status and then returns.
LEMMA UpdateReturns ==
  ASSUME TreeInv, NEW c \in Calls, Return(c) \/ CancelReturns(c),
         NEW r \in Existing, NEW new \in Written, SetStatus(r, new), UNCHANGED handling
  PROVE  TreeInv'
<1>1. StateTypeOK'
  BY ReturnTypes, UpdateTypes DEF TreeInv, StateTypeOK, SetStatus
<1>2. ASSUME NEW d \in Calls PROVE CallOK(d)'
  <2>1. CASE d = c
    BY <2>1, ReturnOK, UpdateTypes DEF TreeInv
  <2>2. CASE d # c
    BY <2>2, OthersUntouched, CallKeptByUpdate DEF TreeInv
  <2> QED
    BY <2>1, <2>2
<1> QED
  BY <1>1, <1>2, UpdateTypes DEF TreeInv

\* A call that writes a status and goes on.
LEMMA UpdateMoves ==
  ASSUME TreeInv, NEW c \in Calls, NEW r \in Existing, NEW new \in Written, SetStatus(r, new),
         handling' \subseteq Existing,
         pc' \in [Calls -> {"idle", "dedupe", "collide", "insert", "load", "cancel",
                            "fetch", "cascade", "reset"}],
         UNCHANGED args,
         target' \in [Calls -> Runs \cup {NoRun}],
         todo' \in [Calls -> SUBSET Runs],
         UNCHANGED seen,
         \A d \in Calls \ {c} : UNCHANGED <<pc[d], args[d], target[d], todo[d], seen[d]>>,
         CallOK(c)'
  PROVE  TreeInv'
<1>1. StateTypeOK'
  <2>1. StateTypeOK
    BY DEF TreeInv
  <2>2. /\ status' \in [Runs -> {"absent"} \cup IN_FLIGHT_STATUSES \cup TERMINAL_STATUSES]
        /\ revived' \in SUBSET Runs
        /\ \A s \in Runs : status'[s] # "absent" => root'[s] \in Runs
    BY <2>1, UpdateTypes
  <2>3. handling' \in SUBSET Runs
    BY DEF Existing
  <2>4. UNCHANGED <<parent, root, policy, payload, recent>>
    BY DEF SetStatus
  <2> QED
    BY <2>1, <2>2, <2>3, <2>4 DEF StateTypeOK
<1>2. ASSUME NEW d \in Calls \ {c} PROVE CallOK(d)'
  <2>1. StateTypeOK /\ CallOK(d)
    BY DEF TreeInv
  <2>2. UNCHANGED <<pc[d], args[d], target[d], todo[d], seen[d]>>
    OBVIOUS
  <2> QED
    BY <2>1, <2>2, CallKeptByUpdate
<1>3. Existing' = Existing
  BY UpdateTypes DEF TreeInv
<1> QED
  BY <1>1, <1>2, <1>3 DEF TreeInv

LEMMA CancelWrites ==
  ASSUME TreeInv, NEW c \in Calls, CancelTarget(c) \/ CancelDescendant(c) \/ ReplayReset(c)
  PROVE  TreeInv'
<1> USE DEF TreeInv
<1>1. {"pending", "canceled"} \subseteq Written
  BY DEF Written, IN_FLIGHT_STATUSES, TERMINAL_STATUSES
<1>2. CASE CancelTarget(c)
  <2>1. CASE Terminal(target[c])
    BY <1>2, <2>1, ReturnKeeps DEF CancelTarget
  <2>2. CASE ~Terminal(target[c])
    <3>1. /\ pc[c] = "cancel" /\ pc' = [pc EXCEPT ![c] = "fetch"]
          /\ SetStatus(target[c], "canceled")
          /\ UNCHANGED <<handling, args, target, todo, seen>>
      BY <1>2, <2>2 DEF CancelTarget, Goto
    <3>2. target[c] \in Existing
      BY <3>1 DEF CallOK
    <3>3. Existing' = Existing
      BY <1>1, <3>1, <3>2, UpdateTypes
    <3>4. status'[target[c]] = "canceled"
      BY <3>1, <3>2 DEF StateTypeOK, SetStatus, Existing
    <3>5. CallOK(c)'
      BY <3>1, <3>2, <3>3, <3>4 DEF StateTypeOK, CallOK, CascadeCovers, Tree
    <3>6. \A d \in Calls \ {c} : UNCHANGED <<pc[d], args[d], target[d], todo[d], seen[d]>>
      BY <3>1 DEF StateTypeOK
    <3>7. pc' \in [Calls -> {"idle", "dedupe", "collide", "insert", "load", "cancel",
                             "fetch", "cascade", "reset"}]
      BY <3>1 DEF StateTypeOK
    <3> QED
      BY <1>1, <3>1, <3>2, <3>5, <3>6, <3>7, UpdateMoves DEF StateTypeOK
  <2> QED
    BY <2>1, <2>2
<1>3. CASE CancelDescendant(c)
  <2>1. PICK d \in todo[c] :
          /\ IF Terminal(d) THEN UNCHANGED <<rowVars, revived>> ELSE SetStatus(d, "canceled")
          /\ IF todo[c] = {d}
             THEN CancelReturns(c)
             ELSE /\ todo' = [todo EXCEPT ![c] = @ \ {d}]
                  /\ UNCHANGED <<pc, args, target, seen>>
    BY <1>3 DEF CancelDescendant
  <2>2. pc[c] = "cascade" /\ UNCHANGED handling
    BY <1>3 DEF CancelDescendant
  <2>3. d \in Existing
    BY <2>1 DEF CallOK
  <2>4. CASE todo[c] = {d}
    <3>1. CASE Terminal(d)
      BY <2>1, <2>2, <2>4, <3>1, ReturnKeeps
    <3>2. CASE ~Terminal(d)
      BY <1>1, <2>1, <2>2, <2>3, <2>4, <3>2, UpdateReturns
    <3> QED
      BY <3>1, <3>2
  <2>5. CASE todo[c] # {d}
    <3>1. /\ todo' = [todo EXCEPT ![c] = @ \ {d}]
          /\ UNCHANGED <<pc, args, target, seen>>
      BY <2>1, <2>5
    <3>2. /\ todo' \in [Calls -> SUBSET Runs] /\ todo'[c] = todo[c] \ {d}
          /\ \A e \in Calls \ {c} : UNCHANGED <<pc[e], args[e], target[e], todo[e], seen[e]>>
      BY <3>1 DEF StateTypeOK
    <3>3. CASE Terminal(d)
      <4>1. UNCHANGED <<rowVars, revived>>
        BY <2>1, <3>3
      <4>2. StateTypeOK'
        BY <2>2, <3>1, <3>2, <4>1 DEF StateTypeOK, rowVars
      <4>3. Existing' = Existing /\ \A s \in Runs : Terminal(s)' = Terminal(s)
        BY <4>1 DEF Existing, Terminal, rowVars
      <4>4. CascadeCovers(c)'
        BY <3>1, <3>2, <3>3, <4>1, <4>3 DEF CallOK, CascadeCovers, Tree, rowVars, StateTypeOK
      <4>5. CallOK(c)'
        BY <3>1, <3>2, <4>3, <4>4 DEF CallOK
      <4> QED
        BY <2>2, <3>1, <3>2, <4>1, <4>2, <4>5, MoveKeeps DEF rowVars
    <3>4. CASE ~Terminal(d)
      <4>1. SetStatus(d, "canceled")
        BY <2>1, <3>4
      <4>2. Existing' = Existing
        BY <1>1, <2>3, <4>1, UpdateTypes
      <4>3. \A s \in Runs : Terminal(s) => Terminal(s)' \/ s \in revived'
        BY <4>1 DEF Terminal, SetStatus, StateTypeOK
      <4>4. Terminal(d)' /\ revived \subseteq revived' /\ UNCHANGED <<root, policy>>
        BY <2>3, <4>1 DEF Terminal, SetStatus, StateTypeOK, TERMINAL_STATUSES, Existing
      <4>5. CascadeCovers(c)'
        BY <3>1, <3>2, <4>3, <4>4 DEF CallOK, CascadeCovers, Tree, StateTypeOK
      <4>6. CallOK(c)'
        BY <3>1, <3>2, <4>2, <4>5 DEF CallOK
      <4> QED
        BY <1>1, <2>2, <2>3, <3>1, <3>2, <4>1, <4>6, UpdateMoves DEF StateTypeOK
    <3> QED
      BY <3>3, <3>4
  <2> QED
    BY <2>4, <2>5
<1>4. CASE ReplayReset(c)
  <2>1. target[c] \in Existing
    BY <1>4 DEF ReplayReset, CallOK
  <2>2. /\ SetStatus(target[c], "pending") /\ Return(c)
        /\ UNCHANGED handling
    BY <1>4 DEF ReplayReset
  <2> QED
    BY <1>1, <2>1, <2>2, UpdateReturns
<1> QED
  BY <1>2, <1>3, <1>4

LEMMA RunSteps == ASSUME TreeInv, NEW r \in Runs, RunStep(r) PROVE TreeInv'
<1> USE DEF TreeInv
<1>1. {"pending", "running", "completed", "failed"} \subseteq Written
  BY DEF Written, IN_FLIGHT_STATUSES, TERMINAL_STATUSES
<1>2. CASE WindowPasses(r)
  <2>1. /\ recent' \in SUBSET Runs
        /\ UNCHANGED <<status, parent, root, policy, payload, handling, callVars, revived>>
    BY <1>2 DEF WindowPasses, StateTypeOK
  <2>2. StateTypeOK' /\ Existing' = Existing
    BY <2>1 DEF StateTypeOK, callVars, Existing
  <2>3. ASSUME NEW d \in Calls PROVE CallOK(d)'
    BY <2>1, CallKept DEF callVars
  <2> QED
    BY <2>1, <2>2, <2>3
<1>3. CASE Begin(r)
  <2>1. r \in Existing
    BY <1>3 DEF Begin, Existing
  <2> QED
    BY <1>1, <1>3, <2>1, WorkerUpdateKeeps DEF Begin
<1>4. CASE Complete(r) \/ Retry(r)
  <2>1. r \in Existing /\ handling' \subseteq Existing
    BY <1>4 DEF Complete, Retry, Ends
  <2> QED
    BY <1>1, <1>4, <2>1, WorkerUpdateKeeps DEF Complete, Retry
<1>5. CASE WorkerDies(r)
  <2>1. r \in Existing /\ handling' \subseteq Existing /\ UNCHANGED callVars
    BY <1>5 DEF WorkerDies
  <2>2. CASE status[r] = "running"
    BY <1>1, <1>5, <2>1, <2>2, WorkerUpdateKeeps DEF WorkerDies
  <2>3. CASE status[r] # "running"
    <3>1. UNCHANGED <<rowVars, revived>>
      BY <1>5, <2>3 DEF WorkerDies
    <3>2. StateTypeOK' /\ Existing' = Existing
      BY <2>1, <3>1 DEF StateTypeOK, rowVars, callVars, Existing
    <3>3. ASSUME NEW d \in Calls PROVE CallOK(d)'
      BY <2>1, <3>1, CallKept DEF rowVars, callVars
    <3> QED
      BY <2>1, <3>2, <3>3
  <2> QED
    BY <2>2, <2>3
<1>6. ASSUME NEW c \in Calls, Fail(c, r) PROVE TreeInv'
  <2>1. r \in Existing /\ handling' \subseteq Existing /\ SetStatus(r, "failed")
    BY <1>6 DEF Fail, Ends
  <2>2. CASE policy[r] = "terminate"
    <3>1. /\ pc' = [pc EXCEPT ![c] = "load"]
          /\ target' = [target EXCEPT ![c] = r]
          /\ UNCHANGED <<args, todo, seen>>
      BY <1>6, <2>2 DEF Fail, Goto
    <3>2. Existing' = Existing
      BY <1>1, <2>1, UpdateTypes
    <3>3. /\ pc' \in [Calls -> {"idle", "dedupe", "collide", "insert", "load", "cancel",
                                "fetch", "cascade", "reset"}]
          /\ target' \in [Calls -> Runs \cup {NoRun}]
          /\ \A d \in Calls \ {c} : UNCHANGED <<pc[d], args[d], target[d], todo[d], seen[d]>>
      BY <3>1 DEF StateTypeOK
    <3>4. CallOK(c)'
      BY <2>1, <3>1, <3>2 DEF StateTypeOK, CallOK, CascadeCovers, Tree
    <3> QED
      BY <1>1, <2>1, <3>1, <3>3, <3>4, UpdateMoves DEF StateTypeOK
  <2>3. CASE policy[r] # "terminate"
    BY <1>1, <1>6, <2>1, <2>3, WorkerUpdateKeeps DEF Fail
  <2> QED
    BY <2>2, <2>3
<1> QED
  BY <1>2, <1>3, <1>4, <1>5, <1>6 DEF RunStep

LEMMA NextTree == TreeInv /\ [Next]_vars => TreeInv'
<1> SUFFICES ASSUME TreeInv, [Next]_vars PROVE TreeInv'
  OBVIOUS
<1>1. ASSUME NEW c \in Calls, CallStep(c) PROVE TreeInv'
  <2>1. CASE CallDies(c)
    BY <2>1, ReturnKeeps DEF CallDies
  <2> QED
    BY <1>1, <2>1, StartSteps, InsertStep, CancelReads, CancelWrites DEF CallStep
<1>2. ASSUME NEW r \in Runs, RunStep(r) PROVE TreeInv'
  BY <1>2, RunSteps
<1>3. CASE UNCHANGED vars
  <2>1. StateTypeOK' /\ Existing' = Existing /\ handling' = handling
    BY <1>3 DEF vars, TreeInv, StateTypeOK, Existing
  <2>2. ASSUME NEW d \in Calls PROVE CallOK(d)'
    BY <1>3, CallKept DEF vars, TreeInv
  <2> QED
    BY <2>1, <2>2 DEF TreeInv
<1> QED
  BY <1>1, <1>2, <1>3 DEF Next

LEMMA TreeInvariant == Spec => []TreeInv
BY InitTree, NextTree, PTL DEF Spec

\* The histories of overtaken starts.
HistoryTypeOK ==
  /\ overtaken \in [Checks -> SUBSET Calls]
  /\ raced \in [Checks -> SUBSET Runs]

LEMMA ReturnKeepsHistory ==
  ASSUME HistoryTypeOK, NEW c \in Calls, Return(c) \/ CancelReturns(c)
  PROVE  overtaken' \in [Checks -> SUBSET Calls]
BY DEF HistoryTypeOK, Return, CancelReturns

LEMMA InsertKeepsHistory ==
  ASSUME HistoryTypeOK, NEW c \in Calls, Insert(c) PROVE HistoryTypeOK'
<1>1. PICK r \in Runs :
        raced' = [k \in Checks |-> raced[k] \cup IF c \in overtaken[k] THEN {r} ELSE {}]
  BY DEF Insert
<1>2. overtaken' = [k \in Checks |-> (overtaken[k] \cup Overtaken(k, args[c].payload)) \ {c}]
  BY DEF Insert
<1>3. \A k, p : Overtaken(k, p) \subseteq Calls
  BY DEF Overtaken
<1> QED
  BY <1>1, <1>2, <1>3 DEF HistoryTypeOK

LEMMA StepKeepsHistory == HistoryTypeOK /\ [Next]_vars => HistoryTypeOK'
<1> SUFFICES ASSUME HistoryTypeOK, [Next]_vars PROVE HistoryTypeOK'
  OBVIOUS
<1>1. ASSUME NEW c \in Calls, CallStep(c) PROVE HistoryTypeOK'
  <2>1. CASE Insert(c)
    BY <2>1, InsertKeepsHistory
  <2>2. CASE ~ Insert(c)
    <3>1. UNCHANGED raced
      BY <1>1, <2>2
         DEF CallStep, StartCall, DedupeHit, DedupeMiss, NoCollision, Reject, Replace, CancelCall,
             CancelLoad, CancelTarget, CancelFetch, CancelDescendant, ReplayCall, ReplayReset,
             CallDies, SetStatus
    <3>2. UNCHANGED overtaken \/ Return(c) \/ CancelReturns(c)
      BY <1>1, <2>2
         DEF CallStep, StartCall, DedupeHit, DedupeMiss, NoCollision, Reject, Replace, CancelCall,
             CancelLoad, CancelTarget, CancelFetch, CancelDescendant, ReplayCall, ReplayReset,
             CallDies
    <3> QED
      BY <3>1, <3>2, ReturnKeepsHistory DEF HistoryTypeOK
  <2> QED
    BY <2>1, <2>2
<1>2. ASSUME NEW r \in Runs, RunStep(r) PROVE HistoryTypeOK'
  <2>1. UNCHANGED <<overtaken, raced>>
    BY <1>2 DEF RunStep, WindowPasses, Begin, Complete, Retry, WorkerDies, Fail, SetStatus, callVars
  <2> QED
    BY <2>1 DEF HistoryTypeOK
<1>3. CASE UNCHANGED vars
  BY <1>3 DEF vars, HistoryTypeOK
<1> QED
  BY <1>1, <1>2, <1>3 DEF Next

\* The types of rows, calls and histories.
THEOREM OrchestratorTypes == Spec => []TypeOK
<1>1. Init => HistoryTypeOK
  BY DEF Init, HistoryTypeOK
<1>2. TreeInv /\ HistoryTypeOK => TypeOK
  BY DEF TreeInv, HistoryTypeOK, TypeOK
<1> QED
  BY <1>1, <1>2, StepKeepsHistory, TreeInvariant, PTL DEF Spec

\* However starts, cancels, replays, failures and crashes interleave, the
\* cascade of cancel leaves out no row it is about.
THEOREM CascadeIsComplete == Spec => []CascadeLosesNone
<1>1. TreeInv => CascadeLosesNone
  BY DEF TreeInv, CallOK, CascadeLosesNone
<1> QED
  BY <1>1, TreeInvariant, PTL


-----------------------------------------------------------------------------
(* One run in flight per key.  What a start found out about its key is still *)
(* true when it inserts, unless another start has inserted since, which is    *)
(* recorded as overtaking it; a run that comes back in flight is recorded as  *)
(* revived.                                                                   *)

\* Two runs may be in flight under the key of p.
Excused(p) ==
  \/ \E t \in raced["collide"] \cup revived : Key[payload[t]] = Key[p]
  \/ \E q \in Payloads : Key[q] = Key[p] /\ Mode[q] = "queue"

\* No run but those in S holds the key of p.
Free(p, S) == \A r \in Runs \ S : Live(r) /\ Key[payload[r]] = Key[p] => Excused(p)

\* The start of c still has the key to itself, or is known to be overtaken.
Keeps(c, S) == Free(args[c].payload, S) \/ c \in overtaken["collide"]

StartOK(c) ==
  /\ pc[c] = "idle" => args[c] = NoArgs
  /\ pc[c] \in {"dedupe", "collide", "insert"} => args[c] # NoArgs
  /\ args[c] # NoArgs /\ pc[c] \in {"insert", "fetch", "cascade"} => Keeps(c, {})
  /\ args[c] # NoArgs /\ pc[c] \in {"load", "cancel"} => Keeps(c, {target[c]})

KeyInv ==
  /\ TreeInv
  /\ revived \subseteq Existing
  /\ raced["collide"] \subseteq Existing
  /\ SoleInFlight
  /\ \A c \in Calls : StartOK(c)

\* The rest of a start that a step leaves alone.
Stays(d) ==
  /\ UNCHANGED <<pc[d], args[d], target[d]>>
  /\ \A k \in Checks : d \in overtaken[k] => d \in overtaken'[k]

\* A step that is not an insert.
NoInsert ==
  /\ Existing' = Existing
  /\ UNCHANGED <<payload, raced>>
  /\ revived \subseteq revived' /\ revived' \subseteq Existing
  /\ \A s \in Runs : Live(s)' => Live(s) \/ s \in revived'

LEMMA UpdateIsNoInsert ==
  ASSUME StateTypeOK, revived \subseteq Existing, NEW r \in Existing, NEW new \in Written, SetStatus(r, new)
  PROVE  NoInsert
<1>1. Existing' = Existing
  BY UpdateTypes
<1>2. revived \subseteq revived' /\ revived' \subseteq Existing /\ UNCHANGED <<payload, raced>>
  BY DEF SetStatus
<1>3. ASSUME NEW s \in Runs, Live(s)', ~Live(s) PROVE s \in revived'
  <2>1. s = r /\ new = status'[r] /\ new \in IN_FLIGHT_STATUSES
    BY <1>3 DEF Live, SetStatus, StateTypeOK, Existing
  <2>2. Terminal(r) /\ new # status[r]
    BY <1>3, <2>1 DEF Live, Terminal, StateTypeOK, Existing
  <2> QED
    BY <2>1, <2>2 DEF SetStatus
<1> QED
  BY <1>1, <1>2, <1>3 DEF NoInsert

LEMMA KeptIsNoInsert ==
  ASSUME revived \subseteq Existing, UNCHANGED <<status, payload, revived, raced>>
  PROVE  NoInsert
BY DEF NoInsert, Existing, Live

LEMMA ExcusedStays == ASSUME NoInsert, NEW p, Excused(p) PROVE Excused(p)'
BY DEF NoInsert, Excused

LEMMA FreeStays == ASSUME NoInsert, NEW p, NEW S, Free(p, S) PROVE Free(p, S)'
<1> SUFFICES ASSUME NEW r \in Runs \ S, Live(r)', Key[payload'[r]] = Key[p] PROVE Excused(p)'
  BY DEF Free
<1>1. CASE Live(r)
  BY <1>1, ExcusedStays DEF Free, NoInsert
<1>2. CASE r \in revived'
  BY <1>2 DEF Excused
<1> QED
  BY <1>1, <1>2 DEF NoInsert

LEMMA SoleStays == ASSUME NoInsert, SoleInFlight PROVE SoleInFlight'
<1> SUFFICES ASSUME NEW r \in Runs, NEW s \in Runs, r # s, Live(r)', Live(s)', Key[payload'[r]] = Key[payload'[s]]
             PROVE  Excused(payload[r])'
  BY DEF SoleInFlight, Excused
<1>1. CASE r \in revived' \/ s \in revived'
  BY <1>1 DEF Excused
<1>2. CASE Live(r) /\ Live(s)
  <2>1. Excused(payload[r]) /\ payload' = payload
    BY <1>2 DEF SoleInFlight, NoInsert, Excused
  <2> QED
    BY <2>1, ExcusedStays
<1> QED
  BY <1>1, <1>2 DEF NoInsert

LEMMA StartKept ==
  ASSUME NoInsert, NEW d \in Calls, StartOK(d), Stays(d)
  PROVE  StartOK(d)'
<1>1. \A S : Keeps(d, S) => Keeps(d, S)'
  BY FreeStays DEF Keeps, Stays, Checks
<1> QED
  BY <1>1 DEF StartOK, Stays

\* A call that ends, or a cancel that gives way to the insert of its start.
LEMMA StartReturns ==
  ASSUME NoInsert, StateTypeOK, NEW c \in Calls, StartOK(c),
         \/ Return(c)
         \/ CancelReturns(c) /\ (args[c] # NoArgs => Keeps(c, {})')
  PROVE  StartOK(c)'
<1>1. CASE Return(c)
  <2>1. pc'[c] = "idle" /\ args'[c] = NoArgs
    BY <1>1 DEF Return, Leave, Goto, StateTypeOK
  <2> QED
    BY <2>1 DEF StartOK
<1>2. CASE CancelReturns(c) /\ args[c] # NoArgs /\ Keeps(c, {})'
  <2>1. pc'[c] = "insert" /\ args' = args
    BY <1>2 DEF CancelReturns, Goto, StateTypeOK
  <2> QED
    BY <1>2, <2>1 DEF StartOK
<1> QED
  BY <1>1, <1>2 DEF CancelReturns

\* A step of one call which is not an insert keeps the invariant if it keeps
\* the call's own part.
LEMMA StepKeepsKey ==
  ASSUME KeyInv, TreeInv', NoInsert, NEW c \in Calls, StartOK(c)',
         \A d \in Calls \ {c} : Stays(d)
  PROVE  KeyInv'
<1>1. ASSUME NEW d \in Calls \ {c} PROVE StartOK(d)'
  BY StartKept DEF KeyInv
<1>2. revived' \subseteq Existing' /\ raced'["collide"] \subseteq Existing'
  BY DEF NoInsert, KeyInv
<1> QED
  BY <1>1, <1>2, SoleStays DEF KeyInv

LEMMA OthersKeepPlace ==
  ASSUME StateTypeOK, NEW c \in Calls, Return(c) \/ CancelReturns(c)
  PROVE  \A d \in Calls \ {c} : Stays(d)
BY DEF StateTypeOK, Leave, Return, CancelReturns, Goto, Stays, Checks

LEMMA ReturnKeepsKey ==
  ASSUME KeyInv, TreeInv', NoInsert, NEW c \in Calls,
         \/ Return(c)
         \/ CancelReturns(c) /\ (args[c] # NoArgs => Keeps(c, {})')
  PROVE  KeyInv'
<1>1. StartOK(c)'
  BY StartReturns DEF KeyInv, TreeInv
<1> QED
  BY <1>1, OthersKeepPlace, StepKeepsKey DEF KeyInv, TreeInv

LEMMA StartStepsKeepKey ==
  ASSUME Keyed, KeyInv, TreeInv', NEW c \in Calls,
         StartCall(c) \/ DedupeHit(c) \/ DedupeMiss(c) \/ NoCollision(c) \/ Reject(c) \/ Replace(c)
  PROVE  KeyInv'
<1>1. StateTypeOK /\ StartOK(c) /\ SoleInFlight /\ revived \subseteq Existing
  BY DEF KeyInv, TreeInv
<1>2. NoInsert
  <2>1. UNCHANGED <<status, payload, revived, raced>>
    BY DEF StartCall, DedupeHit, DedupeMiss, NoCollision, Reject, Replace, rowVars
  <2> QED
    BY <1>1, <2>1, KeptIsNoInsert
<1>3. CASE StartCall(c)
  <2>1. /\ pc' = [pc EXCEPT ![c] = FirstCheck] /\ FirstCheck \in {"dedupe", "collide"}
        /\ UNCHANGED <<target, overtaken>>
    BY <1>3 DEF StartCall, Goto, FirstCheck, AfterDedupe
  <2>2. PICK a \in StartArgs : args' = [args EXCEPT ![c] = a]
    BY <1>3 DEF StartCall
  <2>3. a # NoArgs
    BY OrchestratorAssumption DEF StartArgs, NoArgs
  <2>4. StartOK(c)'
    BY <1>1, <2>1, <2>2, <2>3 DEF StartOK, StateTypeOK
  <2> QED
    BY <1>1, <1>2, <2>1, <2>2, <2>4, StepKeepsKey DEF StateTypeOK, Stays
<1>4. CASE DedupeHit(c) \/ Reject(c)
  BY <1>2, <1>4, ReturnKeepsKey DEF DedupeHit, Reject
<1>5. CASE DedupeMiss(c)
  <2>1. /\ pc[c] = "dedupe" /\ pc' = [pc EXCEPT ![c] = "collide"]
        /\ UNCHANGED <<args, target, overtaken>>
    BY <1>5 DEF DedupeMiss, Goto, AfterDedupe
  <2>2. StartOK(c)'
    BY <1>1, <2>1 DEF StartOK, StateTypeOK
  <2> QED
    BY <1>1, <1>2, <2>1, <2>2, StepKeepsKey DEF StateTypeOK, Stays
<1>6. CASE NoCollision(c)
  <2>0. args[c].payload \in Payloads
    BY <1>1, <1>6 DEF StartOK, NoCollision, StateTypeOK, StartArgs
  <2>1. /\ pc[c] = "collide" /\ pc' = [pc EXCEPT ![c] = "insert"]
        /\ UNCHANGED <<args, target, overtaken>>
        /\ Incumbents(args[c].payload) = {} \/ Mode[args[c].payload] = "queue"
    BY <1>6 DEF NoCollision, Goto
  <2>2. Free(args[c].payload, {})
    BY <2>0, <2>1 DEF Free, Incumbents, Excused
  <2>3. Keeps(c, {})'
    BY <1>2, <2>1, <2>2, FreeStays DEF Keeps
  <2>4. StartOK(c)'
    BY <1>1, <2>1, <2>3 DEF StartOK, StateTypeOK
  <2> QED
    BY <1>1, <1>2, <2>1, <2>4, StepKeepsKey DEF StateTypeOK, Stays
<1>7. CASE Replace(c)
  <2>1. PICK r \in Incumbents(args[c].payload) : target' = [target EXCEPT ![c] = r]
    BY <1>7 DEF Replace
  <2>2. /\ pc[c] = "collide" /\ pc' = [pc EXCEPT ![c] = "load"]
        /\ UNCHANGED <<args, overtaken>>
    BY <1>7 DEF Replace, Goto
  <2>3. Free(args[c].payload, {r})
    <3> SUFFICES ASSUME NEW s \in Runs \ {r}, Live(s), Key[payload[s]] = Key[args[c].payload]
                 PROVE  Excused(args[c].payload)
      BY DEF Free
    <3>1. r \in Runs /\ Live(r) /\ Key[payload[r]] = Key[args[c].payload] /\ r # s
      BY <2>1 DEF Incumbents
    <3> QED
      BY <1>1, <3>1 DEF SoleInFlight, Excused
  <2>4. Keeps(c, {r})'
    BY <1>2, <2>2, <2>3, FreeStays DEF Keeps
  <2>5. StartOK(c)'
    BY <1>1, <2>1, <2>2, <2>4 DEF StartOK, StateTypeOK
  <2> QED
    BY <1>1, <1>2, <2>1, <2>2, <2>5, StepKeepsKey DEF StateTypeOK, Stays
<1> QED
  BY <1>3, <1>4, <1>5, <1>6, <1>7

LEMMA InsertKeepsKey ==
  ASSUME Keyed, KeyInv, TreeInv', NEW c \in Calls, Insert(c)
  PROVE  KeyInv'
<1>1. PICK r \in Runs \ Existing :
        /\ status' = [status EXCEPT ![r] = "pending"]
        /\ payload' = [payload EXCEPT ![r] = args[c].payload]
        /\ raced' = [k \in Checks |-> raced[k] \cup IF c \in overtaken[k] THEN {r} ELSE {}]
  BY DEF Insert
<1>2. /\ pc[c] = "insert" /\ Leave(c) /\ UNCHANGED revived
      /\ overtaken' = [k \in Checks |-> (overtaken[k] \cup Overtaken(k, args[c].payload)) \ {c}]
  BY DEF Insert
<1>3. /\ StateTypeOK /\ SoleInFlight /\ revived \subseteq Existing /\ raced["collide"] \subseteq Existing
      /\ \A d \in Calls : StartOK(d)
  BY DEF KeyInv, TreeInv
<1>4. Existing' = Existing \cup {r} /\ Existing \subseteq Runs
  BY <1>1, <1>3 DEF Existing, StateTypeOK
<1>5. /\ \A s \in Runs \ {r} : (Live(s)' <=> Live(s)) /\ payload'[s] = payload[s]
      /\ payload'[r] = args[c].payload
  BY <1>1, <1>3 DEF Live, StateTypeOK
<1>6. raced'["collide"] = raced["collide"] \cup IF c \in overtaken["collide"] THEN {r} ELSE {}
  BY <1>1 DEF Checks
<1>7. ASSUME NEW p, Excused(p) PROVE Excused(p)'
  <2>1. CASE \E t \in raced["collide"] \cup revived : Key[payload[t]] = Key[p]
    <3>1. PICK t \in raced["collide"] \cup revived : Key[payload[t]] = Key[p]
      BY <2>1
    <3>2. t \in Runs \ {r} /\ t \in raced'["collide"] \cup revived'
      BY <1>2, <1>3, <1>4, <1>6, <3>1
    <3> QED
      BY <1>5, <3>1, <3>2 DEF Excused
  <2>2. CASE \E q \in Payloads : Key[q] = Key[p] /\ Mode[q] = "queue"
    BY <2>2 DEF Excused
  <2> QED
    BY <1>7, <2>1, <2>2 DEF Excused
<1>8. args[c] # NoArgs /\ Keeps(c, {})
  BY <1>2, <1>3 DEF StartOK
\* Whoever holds the key beside the new row, the excuse is on record.
<1>p. PICK p : p = args[c].payload
  OBVIOUS
<1>9. ASSUME NEW s \in Runs \ {r}, Live(s), Key[payload[s]] = Key[p]
      PROVE  Excused(p)'
  <2>1. CASE c \in overtaken["collide"]
    BY <1>p, <1>5, <1>6, <2>1 DEF Excused
  <2>2. CASE Free(p, {})
    BY <1>7, <1>9, <2>2 DEF Free
  <2> QED
    BY <1>p, <1>8, <2>1, <2>2 DEF Keeps
<1>10. SoleInFlight'
  <2> SUFFICES ASSUME NEW s \in Runs, NEW t \in Runs, s # t, Live(s)', Live(t)',
                      Key[payload'[s]] = Key[payload'[t]],
                      NEW q, q = payload'[s]
               PROVE  Excused(q)'
    BY DEF SoleInFlight, Excused
  <2>1. CASE s = r \/ t = r
    <3>1. Excused(p)' /\ Key[q] = Key[p]
      BY <1>p, <1>5, <1>9, <2>1
    <3> QED
      BY <3>1 DEF Excused
  <2>2. CASE s # r /\ t # r
    <3>1. Excused(q)
      BY <1>3, <1>5, <2>2 DEF SoleInFlight, Excused
    <3> QED
      BY <1>7, <3>1
  <2> QED
    BY <2>1, <2>2
\* A start that has checked the same key is overtaken; one of another key does
\* not mind.
<1>11. ASSUME NEW d \in Calls \ {c} PROVE StartOK(d)'
  <2>1. UNCHANGED <<pc[d], args[d], target[d]>>
    BY <1>2, <1>3 DEF Leave, Goto, StateTypeOK
  <2>2. StartOK(d)
    BY <1>3
  <2>3. ASSUME NEW S, args[d] # NoArgs, pc[d] \in {"insert", "fetch", "cascade", "load", "cancel"}, Keeps(d, S)
        PROVE  Keeps(d, S)'
    <3>1. CASE Key[args[d].payload] = Key[args[c].payload]
      BY <1>2, <2>3, <3>1 DEF Overtaken, Keeps, Checks
    <3>2. CASE Key[args[d].payload] # Key[args[c].payload] /\ Free(args[d].payload, S)
      <4>1. PICK q : q = args[d].payload
        OBVIOUS
      <4>2. ASSUME NEW s \in Runs \ S, Live(s)', Key[payload'[s]] = Key[q]
            PROVE  Excused(q)'
        BY <1>5, <1>7, <3>2, <4>1, <4>2 DEF Free
      <4>3. Free(q, S)'
        BY <4>2 DEF Free
      <4> QED
        BY <2>1, <4>1, <4>3 DEF Keeps
    <3>3. CASE d \in overtaken["collide"]
      BY <1>2, <3>3 DEF Keeps, Checks
    <3> QED
      BY <2>3, <3>1, <3>2, <3>3 DEF Keeps
  <2> QED
    BY <2>1, <2>2, <2>3 DEF StartOK
<1>12. StartOK(c)'
  <2>1. pc'[c] = "idle" /\ args'[c] = NoArgs
    BY <1>2, <1>3 DEF Leave, Goto, StateTypeOK
  <2> QED
    BY <2>1 DEF StartOK
<1>13. revived' \subseteq Existing' /\ raced'["collide"] \subseteq Existing'
  BY <1>2, <1>3, <1>4, <1>6
<1> QED
  BY <1>10, <1>11, <1>12, <1>13 DEF KeyInv

LEMMA CancelStepsKeepKey ==
  ASSUME KeyInv, TreeInv', NEW c \in Calls,
         \/ CancelCall(c) \/ CancelLoad(c) \/ CancelTarget(c) \/ CancelFetch(c)
         \/ CancelDescendant(c) \/ ReplayCall(c) \/ ReplayReset(c) \/ CallDies(c)
  PROVE  KeyInv'
<1>1. /\ StateTypeOK /\ StartOK(c) /\ revived \subseteq Existing
      /\ pc[c] \in {"load", "cancel", "fetch", "cascade", "reset"} => target[c] \in Existing
      /\ todo[c] \subseteq Existing
  BY DEF KeyInv, TreeInv, CallOK
<1>2. {"pending", "canceled"} \subseteq Written
  BY DEF Written, IN_FLIGHT_STATUSES, TERMINAL_STATUSES
<1>3. CASE CancelCall(c) \/ ReplayCall(c)
  <2>1. PICK at \in {"load", "reset"} : pc' = [pc EXCEPT ![c] = at]
    BY <1>3 DEF CancelCall, ReplayCall, Goto
  <2>2. /\ pc[c] = "idle" /\ UNCHANGED <<status, payload, revived, raced, args, overtaken>>
        /\ \E r \in Runs : target' = [target EXCEPT ![c] = r]
    BY <1>3 DEF CancelCall, ReplayCall, rowVars, Existing
  <2>3. StartOK(c)'
    BY <1>1, <2>1, <2>2 DEF StartOK, StateTypeOK
  <2>4. NoInsert
    BY <1>1, <2>2, KeptIsNoInsert
  <2>5. \A d \in Calls \ {c} : Stays(d)
    BY <1>1, <2>1, <2>2 DEF StateTypeOK, Stays
  <2> QED
    BY <2>3, <2>4, <2>5, StepKeepsKey
<1>4. CASE CancelLoad(c)
  <2>1. NoInsert
    BY <1>1, <1>4, KeptIsNoInsert DEF CancelLoad, rowVars
  <2>2. CASE Terminal(target[c])
    <3>1. CancelReturns(c) /\ UNCHANGED <<status, payload, revived, raced>> /\ pc[c] = "load"
      BY <1>4, <2>2 DEF CancelLoad, rowVars
    <3>2. ASSUME args[c] # NoArgs PROVE Keeps(c, {})'
      <4>1. Keeps(c, {target[c]}) /\ ~Live(target[c])
        BY <1>1, <2>2, <3>1, <3>2
           DEF StartOK, Live, Terminal, IN_FLIGHT_STATUSES, TERMINAL_STATUSES
      <4>2. Keeps(c, {}) /\ UNCHANGED <<args, overtaken>>
        BY <3>1, <3>2, <4>1 DEF Keeps, Free, CancelReturns
      <4> QED
        BY <2>1, <4>2, FreeStays DEF Keeps
    <3> QED
      BY <2>1, <3>1, <3>2, ReturnKeepsKey
  <2>3. CASE ~Terminal(target[c])
    <3>1. /\ pc[c] = "load" /\ pc' = [pc EXCEPT ![c] = "cancel"]
          /\ UNCHANGED <<args, target, overtaken>>
      BY <1>4, <2>3 DEF CancelLoad, Goto
    <3>2. args[c] # NoArgs => Keeps(c, {target[c]})'
      BY <1>1, <2>1, <3>1, FreeStays DEF StartOK, Keeps
    <3>3. StartOK(c)'
      BY <1>1, <3>1, <3>2 DEF StartOK, StateTypeOK
    <3> QED
      BY <1>1, <2>1, <3>1, <3>3, StepKeepsKey DEF StateTypeOK, Stays
  <2> QED
    BY <2>2, <2>3
<1>5. CASE CancelTarget(c)
  <2>1. CASE Terminal(target[c])
    <3>1. CancelReturns(c) /\ UNCHANGED <<status, payload, revived, raced>> /\ pc[c] = "cancel"
      BY <1>5, <2>1 DEF CancelTarget, rowVars
    <3>2. NoInsert
      BY <1>1, <3>1, KeptIsNoInsert
    <3>3. ASSUME args[c] # NoArgs PROVE Keeps(c, {})'
      <4>1. Keeps(c, {target[c]}) /\ ~Live(target[c])
        BY <1>1, <2>1, <3>1, <3>3
           DEF StartOK, Live, Terminal, IN_FLIGHT_STATUSES, TERMINAL_STATUSES
      <4>2. Keeps(c, {}) /\ UNCHANGED <<args, overtaken>>
        BY <3>1, <3>3, <4>1 DEF Keeps, Free, CancelReturns
      <4> QED
        BY <3>2, <4>2, FreeStays DEF Keeps
    <3> QED
      BY <3>1, <3>2, <3>3, ReturnKeepsKey
  <2>2. CASE ~Terminal(target[c])
    <3>1. /\ pc[c] = "cancel" /\ pc' = [pc EXCEPT ![c] = "fetch"]
          /\ SetStatus(target[c], "canceled") /\ UNCHANGED <<args, target, overtaken>>
      BY <1>5, <2>2 DEF CancelTarget, Goto
    <3>2. target[c] \in Existing
      BY <1>1, <3>1
    <3>3. NoInsert
      BY <1>1, <1>2, <3>1, <3>2, UpdateIsNoInsert
    <3>4. ~Live(target[c])'
      BY <1>1, <3>1, <3>2 DEF SetStatus, Live, StateTypeOK, Existing, IN_FLIGHT_STATUSES
    <3>5. ASSUME args[c] # NoArgs PROVE Keeps(c, {})'
      <4>1. Keeps(c, {target[c]})'
        BY <1>1, <3>1, <3>3, <3>5, FreeStays DEF StartOK, Keeps
      <4> QED
        BY <3>1, <3>4, <4>1 DEF Keeps, Free
    <3>6. StartOK(c)'
      BY <1>1, <3>1, <3>5 DEF StartOK, StateTypeOK
    <3> QED
      BY <1>1, <3>1, <3>3, <3>6, StepKeepsKey DEF StateTypeOK, Stays
  <2> QED
    BY <2>1, <2>2
<1>6. ASSUME NoInsert, pc[c] \in {"fetch", "cascade"},
             \/ CancelReturns(c)
             \/ pc' = [pc EXCEPT ![c] = "cascade"] /\ UNCHANGED <<args, target, overtaken>>
      PROVE  KeyInv'
  <2>1. args[c] # NoArgs /\ UNCHANGED <<args, overtaken>> => Keeps(c, {})'
    BY <1>1, <1>6, FreeStays DEF StartOK, Keeps
  <2>2. CASE CancelReturns(c)
    <3>1. args[c] # NoArgs => UNCHANGED <<args, overtaken>>
      BY <2>2 DEF CancelReturns
    <3> QED
      BY <1>6, <2>1, <2>2, <3>1, ReturnKeepsKey
  <2>3. CASE pc' = [pc EXCEPT ![c] = "cascade"] /\ UNCHANGED <<args, target, overtaken>>
    <3>1. StartOK(c)'
      BY <1>1, <2>1, <2>3 DEF StartOK, StateTypeOK
    <3> QED
      BY <1>1, <1>6, <2>3, <3>1, StepKeepsKey DEF StateTypeOK, Stays
  <2> QED
    BY <1>6, <2>2, <2>3
<1>7. CASE CancelFetch(c)
  <2>1. NoInsert
    BY <1>1, <1>7, KeptIsNoInsert DEF CancelFetch, rowVars
  <2> QED
    BY <1>6, <1>7, <2>1 DEF CancelFetch, Goto
<1>8. CASE CancelDescendant(c)
  <2>1. PICK d \in todo[c] :
          /\ IF Terminal(d) THEN UNCHANGED <<rowVars, revived, raced>> ELSE SetStatus(d, "canceled")
          /\ IF todo[c] = {d}
             THEN CancelReturns(c)
             ELSE /\ todo' = [todo EXCEPT ![c] = @ \ {d}]
                  /\ UNCHANGED <<pc, args, target, seen, overtaken>>
    BY <1>8 DEF CancelDescendant
  <2>2. d \in Existing /\ pc[c] = "cascade"
    BY <1>1, <1>8, <2>1 DEF CancelDescendant
  <2>3. NoInsert
    BY <1>1, <1>2, <2>1, <2>2, KeptIsNoInsert, UpdateIsNoInsert DEF rowVars
  <2>4. UNCHANGED pc => pc' = [pc EXCEPT ![c] = "cascade"]
    BY <1>1, <2>2 DEF StateTypeOK
  <2> QED
    BY <1>6, <2>1, <2>2, <2>3, <2>4
<1>9. CASE ReplayReset(c)
  <2>1. SetStatus(target[c], "pending") /\ Return(c) /\ target[c] \in Existing
    BY <1>1, <1>9 DEF ReplayReset
  <2>2. NoInsert
    BY <1>1, <1>2, <2>1, UpdateIsNoInsert
  <2> QED
    BY <2>1, <2>2, ReturnKeepsKey
<1>10. CASE CallDies(c)
  <2>1. NoInsert
    BY <1>1, <1>10, KeptIsNoInsert DEF CallDies, rowVars
  <2> QED
    BY <1>10, <2>1, ReturnKeepsKey DEF CallDies
<1> QED
  BY <1>3, <1>4, <1>5, <1>7, <1>8, <1>9, <1>10

LEMMA RunStepsKeepKey == ASSUME KeyInv, TreeInv', NEW r \in Runs, RunStep(r) PROVE KeyInv'
<1>1. /\ StateTypeOK /\ revived \subseteq Existing /\ raced["collide"] \subseteq Existing /\ handling \subseteq Existing /\ SoleInFlight
      /\ \A d \in Calls : StartOK(d)
  BY DEF KeyInv, TreeInv
<1>2. {"pending", "running", "completed", "failed"} \subseteq Written
  BY DEF Written, IN_FLIGHT_STATUSES, TERMINAL_STATUSES
<1>3. NoInsert
  <2>1. CASE UNCHANGED <<status, payload, revived, raced>>
    BY <1>1, <2>1, KeptIsNoInsert
  <2>2. CASE r \in Existing /\ \E new \in Written : SetStatus(r, new)
    BY <1>1, <2>2, UpdateIsNoInsert
  <2>3. r \in handling \/ status[r] = "pending" => r \in Existing
    BY <1>1 DEF Existing
  <2> QED
    BY <1>2, <2>1, <2>2, <2>3
       DEF RunStep, WindowPasses, Begin, Complete, Retry, WorkerDies, Fail, Ends, rowVars
<1>4. CASE UNCHANGED <<pc, args, target, overtaken>>
  <2>1. ASSUME NEW d \in Calls PROVE StartOK(d)'
    BY <1>1, <1>3, <1>4, StartKept DEF Stays
  <2>2. revived' \subseteq Existing' /\ raced'["collide"] \subseteq Existing'
    BY <1>1, <1>3 DEF NoInsert
  <2> QED
    BY <1>1, <1>3, <2>1, <2>2, SoleStays DEF KeyInv
<1>5. ASSUME NEW c \in Calls, pc[c] = "idle", pc' = [pc EXCEPT ![c] = "load"],
             target' = [target EXCEPT ![c] = r], UNCHANGED <<args, overtaken>>
      PROVE  KeyInv'
  <2>1. StartOK(c)'
    BY <1>1, <1>5 DEF StartOK, StateTypeOK
  <2> QED
    BY <1>1, <1>3, <1>5, <2>1, StepKeepsKey DEF StateTypeOK, Stays
<1> QED
  BY <1>4, <1>5
     DEF RunStep, WindowPasses, Begin, Complete, Retry, WorkerDies, Fail, Goto, callVars

\* For any number of concurrent starts: if two runs are in flight under a key,
\* a start of the key was overtaken between its check and its insert, or a run of
\* the key came back, or the mode of one of its job types is to queue.
THEOREM OnlyRacesShareAKey == ASSUME Keyed PROVE Spec => []SoleInFlight
<1>1. Init => KeyInv
  <2> SUFFICES ASSUME Init PROVE KeyInv
    OBVIOUS
  <2>1. SoleInFlight /\ revived \subseteq Existing /\ raced["collide"] \subseteq Existing
    BY DEF Init, SoleInFlight, Live, IN_FLIGHT_STATUSES, Checks
  <2>2. ASSUME NEW c \in Calls PROVE StartOK(c)
    BY DEF Init, StartOK
  <2> QED
    BY <2>1, <2>2, InitTree DEF KeyInv
<1>2. KeyInv /\ [Next]_vars => KeyInv'
  <2> SUFFICES ASSUME KeyInv, [Next]_vars PROVE KeyInv'
    OBVIOUS
  <2>1. TreeInv'
    BY NextTree DEF KeyInv
  <2>2. ASSUME NEW c \in Calls, CallStep(c) PROVE KeyInv'
    BY <2>1, <2>2, StartStepsKeepKey, InsertKeepsKey, CancelStepsKeepKey DEF CallStep
  <2>3. ASSUME NEW r \in Runs, RunStep(r) PROVE KeyInv'
    BY <2>1, <2>3, RunStepsKeepKey
  <2>4. CASE UNCHANGED vars
    <3>1. NoInsert
      BY <2>4, KeptIsNoInsert DEF vars, KeyInv
    <3>2. ASSUME NEW d \in Calls PROVE StartOK(d)'
      BY <2>4, <3>1, StartKept DEF vars, KeyInv, Stays
    <3>3. revived' \subseteq Existing' /\ raced'["collide"] \subseteq Existing'
      BY <3>1 DEF NoInsert, KeyInv
    <3> QED
      BY <2>1, <3>1, <3>2, <3>3, SoleStays DEF KeyInv
  <2> QED
    BY <2>2, <2>3, <2>4 DEF Next
<1>3. KeyInv => SoleInFlight
  BY DEF KeyInv
<1> QED
  BY <1>1, <1>2, <1>3, PTL DEF Spec

-----------------------------------------------------------------------------
(* The dedupe window *)

\* A row that dedupe would return, and a key for which it would return none, but
\* for rows that came back or were inserted by an overtaken start.
Counts(r) == r \in recent /\ status[r] \notin DEDUPE_EXCLUDED_STATUSES
Odd(r)    == r \in raced["dedupe"] \cup revived
Clear(p)  == \A r \in Runs : Counts(r) /\ payload[r] = p => Odd(r)

WindowOK(c) ==
  /\ pc[c] = "idle" => args[c] = NoArgs
  /\ pc[c] \in {"dedupe", "collide", "insert"} => args[c] # NoArgs
  /\ args[c] # NoArgs /\ pc[c] # "dedupe" => Clear(args[c].payload) \/ c \in overtaken["dedupe"]

WindowInv ==
  /\ TreeInv
  /\ recent \subseteq Existing
  /\ SoleInWindow
  /\ \A c \in Calls : WindowOK(c)

\* The rest of a start that a step leaves alone.
Holds(d) ==
  /\ UNCHANGED <<pc[d], args[d]>>
  /\ d \in overtaken["dedupe"] => d \in overtaken'["dedupe"]

\* A step after which no row counts that did not, but for rows that came back.
NoneEnters ==
  /\ UNCHANGED <<payload, raced>>
  /\ recent' \subseteq recent /\ Existing' = Existing /\ revived \subseteq revived'
  /\ \A s \in Runs : Counts(s)' => Counts(s) \/ s \in revived'

LEMMA UpdateEntersNone ==
  ASSUME StateTypeOK, NEW r \in Existing, NEW new \in Written, SetStatus(r, new)
  PROVE  NoneEnters
<1>1. Existing' = Existing
  BY UpdateTypes
<1>2. UNCHANGED <<payload, recent, raced>> /\ revived \subseteq revived'
  BY DEF SetStatus
<1>3. ASSUME NEW s \in Runs, Counts(s)', ~ Counts(s) PROVE s \in revived'
  <2>1. s = r /\ new = status'[r] /\ status[r] \in DEDUPE_EXCLUDED_STATUSES
        /\ new \notin DEDUPE_EXCLUDED_STATUSES
    BY <1>2, <1>3 DEF Counts, SetStatus, StateTypeOK, Existing
  <2>2. Terminal(r) /\ new # status[r]
    BY <2>1 DEF Terminal, TERMINAL_STATUSES, DEDUPE_EXCLUDED_STATUSES
  <2> QED
    BY <2>1, <2>2 DEF SetStatus
<1> QED
  BY <1>1, <1>2, <1>3 DEF NoneEnters

LEMMA KeptEntersNone ==
  ASSUME UNCHANGED <<status, payload, revived, raced>>, recent' \subseteq recent
  PROVE  NoneEnters
BY DEF NoneEnters, Existing, Counts

LEMMA ClearStays == ASSUME NoneEnters, NEW p, Clear(p) PROVE Clear(p)'
BY DEF NoneEnters, Clear, Odd

LEMMA WindowStays == ASSUME NoneEnters, StateTypeOK, SoleInWindow PROVE SoleInWindow'
<1> SUFFICES ASSUME NEW r \in recent', NEW s \in recent', r # s, payload'[r] = payload'[s],
                    {status'[r], status'[s]} \cap DEDUPE_EXCLUDED_STATUSES = {}
             PROVE  {r, s} \cap (raced'["dedupe"] \cup revived') # {}
  BY DEF SoleInWindow
<1>1. Counts(r)' /\ Counts(s)' /\ r \in Runs /\ s \in Runs
  BY DEF Counts, NoneEnters, StateTypeOK
<1>2. CASE Counts(r) /\ Counts(s)
  BY <1>2 DEF SoleInWindow, NoneEnters, Counts
<1> QED
  BY <1>1, <1>2 DEF NoneEnters

\* A step of one call which lets no row in keeps the invariant if it keeps the
\* call's own part.
LEMMA StepKeepsWindow ==
  ASSUME WindowInv, TreeInv', NoneEnters, NEW c \in Calls, WindowOK(c)',
         \A d \in Calls \ {c} : Holds(d)
  PROVE  WindowInv'
<1>1. ASSUME NEW d \in Calls \ {c} PROVE WindowOK(d)'
  <2>1. /\ WindowOK(d) /\ pc'[d] = pc[d] /\ args'[d] = args[d]
        /\ d \in overtaken["dedupe"] => d \in overtaken'["dedupe"]
    BY DEF WindowInv, Holds
  <2>2. \A p : Clear(p) => Clear(p)'
    BY ClearStays
  <2> QED
    BY <2>1, <2>2 DEF WindowOK, Clear, Odd, Counts
<1>2. recent' \subseteq Existing'
  BY DEF WindowInv, NoneEnters
<1> QED
  BY <1>1, <1>2, WindowStays DEF WindowInv, TreeInv

\* A call that returns, or gives way to the insert of its start, or goes on.
LEMMA ReturnKeepsWindow ==
  ASSUME WindowInv, TreeInv', NoneEnters, NEW c \in Calls, pc[c] # "dedupe" \/ Return(c),
         \/ Return(c) \/ CancelReturns(c)
         \/ /\ UNCHANGED <<args, overtaken>>
            /\ \E at \in {"collide", "insert", "load", "cancel", "fetch", "cascade", "reset"} :
                 /\ pc' = [pc EXCEPT ![c] = at]
                 /\ at \in {"collide", "insert"} => args[c] # NoArgs
  PROVE  WindowInv'
<1>1. StateTypeOK /\ WindowOK(c)
  BY DEF WindowInv, TreeInv
<1>2. \A d \in Calls \ {c} : Holds(d)
  BY <1>1 DEF StateTypeOK, Leave, Return, CancelReturns, Goto, Holds, Checks
<1>3. \/ pc'[c] = "idle" /\ args'[c] = NoArgs
      \/ /\ args'[c] = args[c] /\ overtaken' = overtaken
         /\ pc[c] # "dedupe" /\ pc'[c] \notin {"idle", "dedupe"}
         /\ pc'[c] \in {"collide", "insert"} => args[c] # NoArgs
  BY <1>1 DEF StateTypeOK, Leave, Return, CancelReturns, Goto
<1>4. CASE pc'[c] = "idle" /\ args'[c] = NoArgs
  <2>1. WindowOK(c)'
    BY <1>4 DEF WindowOK
  <2> QED
    BY <1>2, <2>1, StepKeepsWindow
<1>5. CASE /\ args'[c] = args[c] /\ overtaken' = overtaken /\ pc[c] # "dedupe" /\ pc'[c] \notin {"idle", "dedupe"}
           /\ pc'[c] \in {"collide", "insert"} => args[c] # NoArgs
  <2>1. \A p : Clear(p) => Clear(p)'
    BY ClearStays
  <2>2. WindowOK(c)'
    BY <1>1, <1>5, <2>1 DEF WindowOK, Clear, Odd, Counts
  <2> QED
    BY <1>2, <2>2, StepKeepsWindow
<1> QED
  BY <1>3, <1>4, <1>5

LEMMA DedupeKeepsWindow ==
  ASSUME Deduped, WindowInv, TreeInv', NEW c \in Calls,
         StartCall(c) \/ DedupeHit(c) \/ DedupeMiss(c) \/ NoCollision(c) \/ Reject(c) \/ Replace(c)
  PROVE  WindowInv'
<1>1. StateTypeOK /\ WindowOK(c)
  BY DEF WindowInv, TreeInv
<1>2. NoneEnters
  <2>1. UNCHANGED <<status, payload, revived, raced, recent>>
    BY DEF StartCall, DedupeHit, DedupeMiss, NoCollision, Reject, Replace, rowVars
  <2> QED
    BY <2>1, KeptEntersNone
<1>3. CASE StartCall(c)
  <2>1. pc' = [pc EXCEPT ![c] = "dedupe"] /\ UNCHANGED overtaken
    BY <1>3 DEF StartCall, Goto, FirstCheck
  <2>2. PICK a \in StartArgs : args' = [args EXCEPT ![c] = a]
    BY <1>3 DEF StartCall
  <2>3. a # NoArgs
    BY OrchestratorAssumption DEF StartArgs, NoArgs
  <2>4. WindowOK(c)'
    BY <1>1, <2>1, <2>2, <2>3 DEF WindowOK, StateTypeOK
  <2> QED
    BY <1>1, <1>2, <2>1, <2>2, <2>4, StepKeepsWindow DEF StateTypeOK, Holds
<1>4. CASE DedupeHit(c) \/ Reject(c)
  BY <1>2, <1>4, ReturnKeepsWindow DEF DedupeHit, Reject
<1>5. CASE DedupeMiss(c)
  <2>1. /\ pc[c] = "dedupe" /\ UNCHANGED <<args, overtaken>> /\ Duplicates(args[c].payload) = {}
        /\ pc' = [pc EXCEPT ![c] = AfterDedupe] /\ AfterDedupe \in {"collide", "insert"}
    BY <1>5 DEF DedupeMiss, Goto, AfterDedupe
  <2>2. Clear(args[c].payload)
    BY <2>1 DEF Clear, Counts, Duplicates
  <2>3. Clear(args[c].payload)'
    BY <1>2, <2>1, <2>2, ClearStays
  <2>4. WindowOK(c)'
    BY <1>1, <2>1, <2>3 DEF WindowOK, StateTypeOK
  <2> QED
    BY <1>1, <1>2, <2>1, <2>4, StepKeepsWindow DEF StateTypeOK, Holds
<1>6. CASE NoCollision(c) \/ Replace(c)
  <2>1. /\ UNCHANGED <<args, overtaken>> /\ pc[c] = "collide"
        /\ \E at \in {"insert", "load"} : pc' = [pc EXCEPT ![c] = at]
    BY <1>6 DEF NoCollision, Replace, Goto
  <2>2. args[c] # NoArgs
    BY <1>1, <2>1 DEF WindowOK
  <2> QED
    BY <1>2, <2>1, <2>2, ReturnKeepsWindow
<1> QED
  BY <1>3, <1>4, <1>5, <1>6

LEMMA InsertKeepsWindow ==
  ASSUME Deduped, WindowInv, TreeInv', NEW c \in Calls, Insert(c)
  PROVE  WindowInv'
<1>1. PICK r \in Runs \ Existing :
        /\ status' = [status EXCEPT ![r] = "pending"]
        /\ payload' = [payload EXCEPT ![r] = args[c].payload]
        /\ recent' = recent \cup {r}
        /\ raced' = [k \in Checks |-> raced[k] \cup IF c \in overtaken[k] THEN {r} ELSE {}]
  BY DEF Insert
<1>2. /\ pc[c] = "insert" /\ Leave(c) /\ UNCHANGED revived
      /\ overtaken' = [k \in Checks |-> (overtaken[k] \cup Overtaken(k, args[c].payload)) \ {c}]
  BY DEF Insert
<1>3. /\ StateTypeOK /\ SoleInWindow /\ recent \subseteq Existing
      /\ \A d \in Calls : WindowOK(d)
  BY DEF WindowInv, TreeInv
<1>4. Existing' = Existing \cup {r} /\ Existing \subseteq Runs
  BY <1>1, <1>3 DEF Existing, StateTypeOK
<1>5. args[c] # NoArgs /\ (Clear(args[c].payload) \/ c \in overtaken["dedupe"])
  BY <1>2, <1>3 DEF WindowOK
<1>6. payload'[r] = args[c].payload
  BY <1>1, <1>3 DEF StateTypeOK
<1>7. \A s \in recent : s # r /\ s \in Runs /\ status'[s] = status[s] /\ payload'[s] = payload[s]
  BY <1>1, <1>3, <1>4 DEF StateTypeOK
<1>8. raced'["dedupe"] = raced["dedupe"] \cup IF c \in overtaken["dedupe"] THEN {r} ELSE {}
  BY <1>1 DEF Checks
<1>9. \A s \in Runs : Odd(s) => Odd(s)'
  BY <1>2, <1>8 DEF Odd
<1>10. SoleInWindow'
  <2> SUFFICES ASSUME NEW s \in recent', NEW t \in recent', s # t, payload'[s] = payload'[t],
                      {status'[s], status'[t]} \cap DEDUPE_EXCLUDED_STATUSES = {}
               PROVE  Odd(s)' \/ Odd(t)'
    BY DEF SoleInWindow, Odd
  <2>1. ASSUME NEW u \in recent, payload'[u] = payload'[r], status'[u] \notin DEDUPE_EXCLUDED_STATUSES
        PROVE  Odd(u)' \/ Odd(r)'
    <3>1. CASE c \in overtaken["dedupe"]
      BY <1>8, <3>1 DEF Odd
    <3>2. CASE Clear(args[c].payload)
      BY <1>6, <1>7, <1>9, <2>1, <3>2 DEF Clear, Counts
    <3> QED
      BY <1>5, <3>1, <3>2
  <2>2. CASE s = r
    BY <1>1, <2>1, <2>2
  <2>3. CASE t = r
    BY <1>1, <2>1, <2>3
  <2>4. CASE s # r /\ t # r
    <3>1. s \in recent /\ t \in recent
      BY <1>1, <2>4
    <3>2. Odd(s) \/ Odd(t)
      BY <1>3, <1>7, <3>1 DEF SoleInWindow, Odd
    <3> QED
      BY <1>7, <1>9, <3>1, <3>2
  <2> QED
    BY <2>2, <2>3, <2>4
\* A start with the same key is overtaken; one with another does not mind.
<1>11. ASSUME NEW d \in Calls \ {c} PROVE WindowOK(d)'
  <2>1. UNCHANGED <<pc[d], args[d]>>
    BY <1>2, <1>3 DEF Leave, Goto, StateTypeOK
  <2>2. WindowOK(d)
    BY <1>3
  <2>3. ASSUME args[d] # NoArgs, pc[d] # "dedupe"
        PROVE  Clear(args[d].payload)' \/ d \in overtaken'["dedupe"]
    <3>1. CASE args[d].payload = args[c].payload
      <4>1. pc[d] # "idle"
        BY <2>2, <2>3 DEF WindowOK
      <4> QED
        BY <1>2, <2>3, <3>1, <4>1 DEF Overtaken, Checks
    <3>2. CASE args[d].payload # args[c].payload /\ Clear(args[d].payload)
      <4>1. PICK q : q = args[d].payload
        OBVIOUS
      <4>2. ASSUME NEW s \in Runs, Counts(s)', payload'[s] = q PROVE Odd(s)'
        <5>1. s # r /\ s \in recent
          BY <1>1, <1>6, <3>2, <4>1, <4>2 DEF Counts
        <5> QED
          BY <1>7, <1>9, <3>2, <4>1, <4>2, <5>1 DEF Clear, Counts
      <4> QED
        BY <2>1, <4>1, <4>2 DEF Clear, Odd, Counts
    <3>3. CASE d \in overtaken["dedupe"]
      BY <1>2, <3>3 DEF Checks
    <3> QED
      BY <2>2, <2>3, <3>1, <3>2, <3>3 DEF WindowOK
  <2> QED
    BY <2>1, <2>2, <2>3 DEF WindowOK
<1>12. WindowOK(c)'
  <2>1. pc'[c] = "idle" /\ args'[c] = NoArgs
    BY <1>2, <1>3 DEF Leave, Goto, StateTypeOK
  <2> QED
    BY <2>1 DEF WindowOK
<1>13. recent' \subseteq Existing'
  BY <1>1, <1>3, <1>4
<1> QED
  BY <1>10, <1>11, <1>12, <1>13 DEF WindowInv

LEMMA CancelKeepsWindow ==
  ASSUME WindowInv, TreeInv', NEW c \in Calls,
         \/ CancelCall(c) \/ CancelLoad(c) \/ CancelTarget(c) \/ CancelFetch(c)
         \/ CancelDescendant(c) \/ ReplayCall(c) \/ ReplayReset(c) \/ CallDies(c)
  PROVE  WindowInv'
<1>1. /\ StateTypeOK
      /\ pc[c] \in {"load", "cancel", "fetch", "cascade", "reset"} => target[c] \in Existing
      /\ todo[c] \subseteq Existing
  BY DEF WindowInv, TreeInv, CallOK
<1>2. {"pending", "canceled"} \subseteq Written
  BY DEF Written, IN_FLIGHT_STATUSES, TERMINAL_STATUSES
<1>3. NoneEnters
  <2>1. CASE UNCHANGED <<status, payload, revived, raced, recent>>
    BY <2>1, KeptEntersNone
  <2>2. CASE \E r \in Existing : \E new \in Written : SetStatus(r, new)
    BY <1>1, <2>2, UpdateEntersNone
  <2>3. \/ UNCHANGED <<status, payload, revived, raced, recent>>
        \/ \E r \in Existing : \E new \in Written : SetStatus(r, new)
    BY <1>1, <1>2 DEF CancelCall, CancelLoad, CancelTarget, CancelFetch, CancelDescendant,
                      ReplayCall, ReplayReset, CallDies, rowVars
  <2> QED
    BY <2>1, <2>2, <2>3
<1>4. CASE Return(c)
  BY <1>3, <1>4, ReturnKeepsWindow
<1>5. CASE /\ CancelReturns(c)
           /\ pc[c] # "dedupe"
  BY <1>3, <1>5, ReturnKeepsWindow
<1>6. CASE /\ UNCHANGED <<args, overtaken>> /\ pc[c] # "dedupe"
           /\ \E at \in {"load", "cancel", "fetch", "cascade", "reset"} : pc' = [pc EXCEPT ![c] = at]
  BY <1>3, <1>6, ReturnKeepsWindow
<1>7. \/ Return(c)
      \/ /\ CancelReturns(c)
         /\ pc[c] # "dedupe"
      \/ /\ UNCHANGED <<args, overtaken>> /\ pc[c] # "dedupe"
         /\ \E at \in {"load", "cancel", "fetch", "cascade", "reset"} : pc' = [pc EXCEPT ![c] = at]
  <2>1. pc[c] = "cascade" /\ UNCHANGED pc => pc' = [pc EXCEPT ![c] = "cascade"]
    BY <1>1 DEF StateTypeOK
  <2>2. CASE ReplayReset(c) \/ CallDies(c)
    BY <2>2 DEF ReplayReset, CallDies
  <2>7. CASE CancelCall(c)
    BY <2>7 DEF CancelCall, Goto
  <2>8. CASE ReplayCall(c)
    BY <2>8 DEF ReplayCall, Goto
  <2>3. CASE CancelLoad(c)
    BY <2>3 DEF CancelLoad, Goto
  <2>4. CASE CancelTarget(c)
    BY <2>4 DEF CancelTarget, Goto
  <2>5. CASE CancelFetch(c)
    BY <2>5 DEF CancelFetch, Goto
  <2>6. CASE CancelDescendant(c)
    BY <2>1, <2>6 DEF CancelDescendant
  <2> QED
    BY <2>2, <2>3, <2>4, <2>5, <2>6, <2>7, <2>8
<1> QED
  BY <1>4, <1>5, <1>6, <1>7

LEMMA RunKeepsWindow == ASSUME WindowInv, TreeInv', NEW r \in Runs, RunStep(r) PROVE WindowInv'
<1>1. StateTypeOK /\ handling \subseteq Existing
  BY DEF WindowInv, TreeInv
<1>2. {"pending", "running", "completed", "failed"} \subseteq Written
  BY DEF Written, IN_FLIGHT_STATUSES, TERMINAL_STATUSES
<1>3. NoneEnters
  <2>1. CASE UNCHANGED <<status, payload, revived, raced>> /\ recent' \subseteq recent
    BY <2>1, KeptEntersNone
  <2>2. CASE r \in Existing /\ \E new \in Written : SetStatus(r, new)
    BY <1>1, <2>2, UpdateEntersNone
  <2>3. r \in handling \/ status[r] = "pending" => r \in Existing
    BY <1>1 DEF Existing
  <2> QED
    BY <1>2, <2>1, <2>2, <2>3
       DEF RunStep, WindowPasses, Begin, Complete, Retry, WorkerDies, Fail, Ends, rowVars
<1>4. CASE UNCHANGED <<pc, args, overtaken>>
  <2>1. ASSUME NEW d \in Calls PROVE WindowOK(d)'
    <3>1. WindowOK(d)
      BY DEF WindowInv
    <3>2. \A p : Clear(p) => Clear(p)'
      BY <1>3, ClearStays
    <3> QED
      BY <1>4, <3>1, <3>2 DEF WindowOK
  <2>2. recent' \subseteq Existing'
    BY <1>3 DEF NoneEnters, WindowInv
  <2> QED
    BY <1>1, <1>3, <2>1, <2>2, WindowStays DEF WindowInv
<1>5. ASSUME NEW c \in Calls, pc[c] = "idle", pc' = [pc EXCEPT ![c] = "load"], UNCHANGED <<args, overtaken>>
      PROVE  WindowInv'
  BY <1>3, <1>5, ReturnKeepsWindow
<1> QED
  BY <1>4, <1>5
     DEF RunStep, WindowPasses, Begin, Complete, Retry, WorkerDies, Fail, Goto, callVars

\* For any number of concurrent starts: of two rows of a window that count and
\* have one dedupe key, one was inserted by a start that was overtaken between
\* its check and its insert, or came back from a status that does not count.
THEOREM OnlyRacesShareAWindow == ASSUME Deduped PROVE Spec => []SoleInWindow
<1>1. Init => WindowInv
  <2> SUFFICES ASSUME Init PROVE WindowInv
    OBVIOUS
  <2>1. SoleInWindow /\ recent \subseteq Existing
    BY DEF Init, SoleInWindow
  <2>2. ASSUME NEW c \in Calls PROVE WindowOK(c)
    BY DEF Init, WindowOK
  <2> QED
    BY <2>1, <2>2, InitTree DEF WindowInv
<1>2. WindowInv /\ [Next]_vars => WindowInv'
  <2> SUFFICES ASSUME WindowInv, [Next]_vars PROVE WindowInv'
    OBVIOUS
  <2>1. TreeInv'
    BY NextTree DEF WindowInv
  <2>2. ASSUME NEW c \in Calls, CallStep(c) PROVE WindowInv'
    BY <2>1, <2>2, DedupeKeepsWindow, InsertKeepsWindow, CancelKeepsWindow DEF CallStep
  <2>3. ASSUME NEW r \in Runs, RunStep(r) PROVE WindowInv'
    BY <2>1, <2>3, RunKeepsWindow
  <2>4. CASE UNCHANGED vars
    <3>1. UNCHANGED <<status, payload, recent, revived, raced, overtaken, pc, args>>
      BY <2>4 DEF vars
    <3> QED
      BY <2>1, <3>1 DEF WindowInv, SoleInWindow, WindowOK, Clear, Counts, Odd, Existing
  <2> QED
    BY <2>2, <2>3, <2>4 DEF Next
<1>3. WindowInv => SoleInWindow
  BY DEF WindowInv
<1> QED
  BY <1>1, <1>2, <1>3, PTL DEF Spec

=============================================================================
