----------------------------- MODULE Integration ------------------------------
(***************************************************************************)
(* Runs of ExecuteIntegrationUseCase (runtime/subsystems/integration) for  *)
(* one subscription, reading through IncrementalReadBase and writing to    *)
(* the sink, the run recorder, the change emitter and the cursor store.    *)
(*                                                                         *)
(* The vendor keeps a feed of changes; a position in it is a cursor and    *)
(* names the content that a record has from then on.  A walk lists each    *)
(* changed record once, at its latest position, and fetches the content    *)
(* page by page later, when it may have moved on.  Some contents never     *)
(* come out of the source: hydrate has no answer for them, toCanonical     *)
(* makes null of them, or the filter rejects them.  Every await is a step, *)
(* and runs may overlap: nothing in the use case prevents it.              *)
(***************************************************************************)
EXTENDS Naturals, Sequences, FiniteSets

CONSTANTS
  Syncs,       \* executions that can be under way at once
  Records,     \* external ids
  Strategies,  \* values of cursorDivisible to consider
  PageSize,    \* refs that are hydrated together
  MaxChanges,  \* bound on the feed
  MaxFaults    \* bound on failing calls and crashes

ASSUME IntegrationAssumption ==
  /\ Strategies \subseteq BOOLEAN
  /\ PageSize \in Nat \ {0}
  /\ MaxChanges \in Nat
  /\ MaxFaults \in Nat

VARIABLES
  divisible,  \* cursorDivisible of the source
  feed,       \* the vendor's changes: which record, whether it is gone, and whether
              \* the source yields this content or drops it
  newest,     \* the position of the last change of a record, 0 if there is none
  cursor,     \* the stored cursor; 0 is null
  local,      \* the content of the local row: a position, 0 if there is none; the
              \* position of a deletion if the row is soft-deleted or never was
  events,     \* change events published
  pc,         \* what each execution awaits
  latest,     \* latestCursor, cursorBefore to begin with
  refs,       \* positions of the walk that are not hydrated yet
  token,      \* the end of the walk, which is the cursor of an atomic source
  page,       \* hydrated changes that are not delivered yet
  change,     \* the change in hand
  written,    \* the change in hand has changed the local row
  found,      \* recordsFound > 0, which goes with cursorAdvanced
  processed,  \* recordsProcessed > 0
  outcome,    \* the status the run is heading for
  failures,   \* integration_run_items with status failed: the content in hand
  overlapped, \* history: two runs were under way at once
  stale,      \* history: records whose row went back to older content
  repeated,   \* history: changes published twice
  lost,       \* history: changes that failed without an item
  faults

source  == <<divisible, feed, newest>>
runVars == <<latest, refs, token, page, change, written, found, processed, outcome>>
history == <<failures, overlapped, stale, repeated, lost>>
vars == <<divisible, feed, newest, cursor, local, events, pc, latest, refs, token, page,
          change, written, found, processed, outcome, failures, overlapped, stale, repeated,
          lost, faults>>

Withheld == MaxChanges + 1   \* the undefined cursor of an atomic source

Positions == 1 .. MaxChanges
Change    == [pos : Positions, ver : Positions]
NoChange  == [pos |-> 0, ver |-> 0]

TypeOK ==
  /\ divisible \in Strategies
  /\ feed \in Seq([id : Records, gone : BOOLEAN, kept : BOOLEAN]) /\ Len(feed) <= MaxChanges
  /\ newest \in [Records -> 0 .. MaxChanges]
  /\ cursor \in 0 .. Len(feed)
  /\ local \in [Records -> 0 .. MaxChanges]
  /\ events \in SUBSET Positions
  /\ pc \in [Syncs -> {"idle", "list", "walk", "find", "upsert", "remove", "record",
                       "caught", "emit", "put", "complete"}]
  /\ latest \in [Syncs -> 0 .. Withheld]
  /\ refs \in [Syncs -> SUBSET Positions]
  /\ token \in [Syncs -> 0 .. MaxChanges]
  /\ page \in [Syncs -> SUBSET Change]
  /\ change \in [Syncs -> Change \cup {NoChange}]
  /\ written \in [Syncs -> BOOLEAN]
  /\ found \in [Syncs -> BOOLEAN]
  /\ processed \in [Syncs -> BOOLEAN]
  /\ outcome \in [Syncs -> {"no_changes", "success", "failed"}]
  /\ failures \in SUBSET Positions
  /\ overlapped \in BOOLEAN
  /\ stale \in SUBSET Records
  /\ repeated \in SUBSET Positions
  /\ lost \in SUBSET Positions
  /\ faults \in 0 .. MaxFaults

Goto(s, at) == pc' = [pc EXCEPT ![s] = at]
Id(p)       == feed[p].id
Running     == {s \in Syncs : pc[s] # "idle"}

\* The latest position of the record that changed at p.
Current(p) == newest[Id(p)]

\* There is a local row for the record, and it is not soft-deleted.
HasRow(r) == local[r] # 0 /\ ~ feed[local[r]].gone

-----------------------------------------------------------------------------
(* The vendor *)

\* A deletion that leaves no tombstone is a content that is dropped.
VendorChanges(r, gone, kept) ==
  /\ Len(feed) < MaxChanges /\ (gone => kept)
  /\ feed' = Append(feed, [id |-> r, gone |-> gone, kept |-> kept])
  /\ newest' = [newest EXCEPT ![r] = Len(feed) + 1]
  /\ UNCHANGED <<divisible, cursor, local, events, pc, runVars, history, faults>>

-----------------------------------------------------------------------------
(* One run *)

\* cursors.get and recorder.startRun.
Begin(s) ==
  /\ pc[s] = "idle"
  /\ latest' = [latest EXCEPT ![s] = cursor]
  /\ found' = [found EXCEPT ![s] = FALSE]
  /\ processed' = [processed EXCEPT ![s] = FALSE]
  /\ outcome' = [outcome EXCEPT ![s] = "no_changes"]
  /\ overlapped' = (overlapped \/ Running # {})
  /\ Goto(s, "list")
  /\ UNCHANGED <<source, cursor, local, events, refs, token, page, change, written,
                 failures, stale, repeated, lost, faults>>

\* Mutant: the cursor is not handed to the listing.
ListEverything(s) ==
  /\ pc[s] = "list"
  /\ refs' = [refs EXCEPT ![s] = {Current(p) : p \in 1 .. Len(feed)}]
  /\ token' = [token EXCEPT ![s] = Len(feed)]
  /\ Goto(s, "walk")
  /\ UNCHANGED <<source, cursor, local, events, latest, page, change, written,
                 found, processed, outcome, history, faults>>

\* enumerate: the records that changed after the cursor, or all of them.
List(s) ==
  /\ pc[s] = "list"
  /\ refs' = [refs EXCEPT ![s] = {Current(p) : p \in latest[s] + 1 .. Len(feed)}]
  /\ token' = [token EXCEPT ![s] = Len(feed)]
  /\ Goto(s, "walk")
  /\ UNCHANGED <<source, cursor, local, events, latest, page, change, written,
                 found, processed, outcome, history, faults>>

\* The next page of refs: the oldest ones.
NextPage(s) ==
  {P \in SUBSET refs[s] : /\ Cardinality(P) <= PageSize
                          /\ Cardinality(P) < PageSize => P = refs[s]
                          /\ \A p \in P, q \in refs[s] \ P : p < q}

\* An atomic source looks one record ahead before it yields.
Lookahead == IF divisible THEN 0 ELSE 1

\* What is left of a page: a content that does not survive is passed over, and
\* the cursor of its ref with it.
Survivors(P) == {[pos |-> p, ver |-> Current(p)] : p \in {q \in P : feed[Current(q)].kept}}

Hydrate(s) ==
  /\ pc[s] = "walk" /\ refs[s] # {} /\ Cardinality(page[s]) <= Lookahead
  /\ \E P \in NextPage(s) :
       /\ page' = [page EXCEPT ![s] = @ \cup Survivors(P)]
       /\ refs' = [refs EXCEPT ![s] = @ \ P]
  /\ UNCHANGED <<source, cursor, local, events, pc, latest, token, change,
                 written, found, processed, outcome, history, faults>>

\* Mutant: an atomic source stamps its token on every record.
CursorOfEager(s, c) == IF divisible THEN c.pos ELSE token[s]

\* Mutant: the last record of an atomic source is held back like the others.
CursorOfNever(s, c) == IF divisible THEN c.pos ELSE Withheld

\* The cursor a change carries: its own position, or for an atomic source the
\* token of the walk, which only the last surviving record carries.
CursorOf(s, c) ==
  IF divisible THEN c.pos
  ELSE IF page[s] = {c} /\ refs[s] = {} THEN token[s] ELSE Withheld

\* The loop takes a change, and the cursor with it, before it is processed.  (The
\* listing marks every change 'updated'; deletions come from sources that do not
\* extend IncrementalReadBase, and are treated alike here.)
Deliver(s) ==
  /\ pc[s] = "walk"
  /\ refs[s] = {} \/ Cardinality(page[s]) > Lookahead
  /\ \E c \in page[s] :
       /\ \A d \in page[s] : c.pos <= d.pos
       /\ page' = [page EXCEPT ![s] = @ \ {c}]
       /\ change' = [change EXCEPT ![s] = c]
       /\ latest' = [latest EXCEPT ![s] = CursorOf(s, c)]
       /\ found' = [found EXCEPT ![s] = TRUE]
       /\ Goto(s, IF feed[c.ver].gone THEN "remove" ELSE "find")
  /\ written' = [written EXCEPT ![s] = FALSE]
  /\ UNCHANGED <<source, cursor, local, events, refs, token, processed, outcome,
                 history, faults>>

\* Mutant: every record that comes in is taken for a change.
IsNoopNever(s) == FALSE

\* differ.diff: the local row has this very content.
IsNoop(s) == HasRow(Id(change[s].pos)) /\ local[Id(change[s].pos)] = change[s].ver

\* sink.findByExternalId and the diff.
Find(s) ==
  /\ pc[s] = "find"
  /\ Goto(s, IF IsNoop(s) THEN "record" ELSE "upsert")
  /\ UNCHANGED <<source, cursor, local, events, runVars, history, faults>>

\* The sink writes the content in hand, whatever the row holds by now.
Write(s) ==
  LET r == Id(change[s].pos) IN
  /\ local' = [local EXCEPT ![r] = change[s].ver]
  /\ stale' = IF local[r] > change[s].ver THEN stale \cup {r} ELSE stale
  /\ written' = [written EXCEPT ![s] = TRUE]

Upsert(s) ==
  /\ pc[s] = "upsert"
  /\ Write(s)
  /\ Goto(s, "record")
  /\ UNCHANGED <<source, cursor, events, latest, refs, token, page, change,
                 found, processed, outcome, failures, overlapped, repeated, lost, faults>>

\* sink.softDeleteByExternalId: null when there is no row, and then nothing
\* changes but the tombstone that `local` names.
Remove(s) ==
  /\ pc[s] = "remove"
  /\ IF HasRow(Id(change[s].pos))
     THEN Write(s)
     ELSE /\ local' = [local EXCEPT ![Id(change[s].pos)] =
                           IF @ < change[s].ver THEN change[s].ver ELSE @]
          /\ UNCHANGED <<stale, written>>
  /\ Goto(s, "record")
  /\ UNCHANGED <<source, cursor, events, latest, refs, token, page, change,
                 found, processed, outcome, failures, overlapped, repeated, lost, faults>>

\* Back to the head of the loop.
NextItem(s) ==
  /\ Goto(s, "walk")
  /\ change' = [change EXCEPT ![s] = NoChange]
  /\ written' = [written EXCEPT ![s] = FALSE]

\* recorder.recordItem; a change that was a noop is done.
RecordItem(s) ==
  /\ pc[s] = "record"
  /\ processed' = [processed EXCEPT ![s] = TRUE]
  /\ IF written[s] THEN Goto(s, "emit") /\ UNCHANGED <<change, written>> ELSE NextItem(s)
  /\ UNCHANGED <<source, cursor, local, events, latest, refs, token, page, found,
                 outcome, history, faults>>

\* The emitter publishes, or fails, which is logged.
Emit(s, published) ==
  /\ pc[s] = "emit"
  /\ published \/ faults < MaxFaults
  /\ IF published
     THEN /\ events' = events \cup {change[s].ver}
          /\ repeated' = repeated \cup ({change[s].ver} \cap events)
          /\ UNCHANGED faults
     ELSE faults' = faults + 1 /\ UNCHANGED <<events, repeated>>
  /\ NextItem(s)
  /\ UNCHANGED <<source, cursor, local, latest, refs, token, page, found, processed,
                 outcome, failures, overlapped, stale, lost>>

\* A call of processChange throws: the item is recorded as failed.
ItemFails(s) ==
  /\ pc[s] \in {"find", "upsert", "remove", "record"} /\ faults < MaxFaults
  /\ faults' = faults + 1
  /\ Goto(s, "caught")
  /\ UNCHANGED <<source, cursor, local, events, runVars, history>>

RecordFailedItem(s) ==
  /\ pc[s] = "caught"
  /\ failures' = failures \cup {change[s].ver}
  /\ NextItem(s)
  /\ UNCHANGED <<source, cursor, local, events, latest, refs, token, page, found,
                 processed, outcome, overlapped, stale, repeated, lost, faults>>

\* An atomic source has nothing left to do once it has yielded its last record.
Reading(s) == divisible \/ refs[s] # {} \/ page[s] # {} \/ ~ found[s]

\* The outer catch: the source threw (its walk, hydrate or toCanonical, after the
\* last page too), or the outage that failed an item also fails the recording of it.
Abort(s) ==
  /\ \/ /\ pc[s] = "list" \/ (pc[s] = "walk" /\ Reading(s))
        /\ faults < MaxFaults
        /\ faults' = faults + 1
     \/ /\ pc[s] = "caught"
        /\ UNCHANGED faults
  /\ outcome' = [outcome EXCEPT ![s] = "failed"]
  /\ refs' = [refs EXCEPT ![s] = {}]
  /\ page' = [page EXCEPT ![s] = {}]
  /\ lost' = IF pc[s] = "caught" THEN lost \cup {change[s].ver} ELSE lost
  /\ change' = [change EXCEPT ![s] = NoChange]
  /\ written' = [written EXCEPT ![s] = FALSE]
  /\ Goto(s, "put")
  /\ UNCHANGED <<source, cursor, local, events, latest, token, found, processed,
                 failures, overlapped, stale, repeated>>

\* The loop is over: the run failed if every record did.
EndWalk(s) ==
  /\ pc[s] = "walk" /\ refs[s] = {} /\ page[s] = {}
  /\ outcome' = [outcome EXCEPT ![s] =
       IF ~ found[s] THEN "no_changes" ELSE IF processed[s] THEN "success" ELSE "failed"]
  /\ Goto(s, "put")
  /\ UNCHANGED <<source, cursor, local, events, latest, refs, token, page, change,
                 written, found, processed, history, faults>>

\* cursors.put, whatever the outcome, if a change was seen and its cursor is
\* defined.
PutCursor(s) ==
  /\ pc[s] = "put"
  /\ cursor' = IF found[s] /\ latest[s] # Withheld THEN latest[s] ELSE cursor
  /\ Goto(s, "complete")
  /\ UNCHANGED <<source, local, events, runVars, history, faults>>

PutFails(s) ==
  /\ pc[s] = "put" /\ found[s] /\ latest[s] # Withheld /\ faults < MaxFaults
  /\ faults' = faults + 1
  /\ outcome' = [outcome EXCEPT ![s] = "failed"]
  /\ Goto(s, "complete")
  /\ UNCHANGED <<source, cursor, local, events, latest, refs, token, page,
                 change, written, found, processed, history>>

Reset(s) ==
  /\ latest' = [latest EXCEPT ![s] = 0]
  /\ refs' = [refs EXCEPT ![s] = {}]
  /\ token' = [token EXCEPT ![s] = 0]
  /\ page' = [page EXCEPT ![s] = {}]
  /\ change' = [change EXCEPT ![s] = NoChange]
  /\ written' = [written EXCEPT ![s] = FALSE]
  /\ found' = [found EXCEPT ![s] = FALSE]
  /\ processed' = [processed EXCEPT ![s] = FALSE]
  /\ outcome' = [outcome EXCEPT ![s] = "no_changes"]

\* recorder.completeRun.
CompleteRun(s) ==
  /\ pc[s] = "complete"
  /\ Reset(s)
  /\ Goto(s, "idle")
  /\ UNCHANGED <<source, cursor, local, events, history, faults>>

\* The process dies: the row of the run stays 'running' for good.
Crash(s) ==
  /\ pc[s] # "idle" /\ faults < MaxFaults
  /\ faults' = faults + 1
  /\ Reset(s)
  /\ Goto(s, "idle")
  /\ UNCHANGED <<source, cursor, local, events, history>>

-----------------------------------------------------------------------------
Init ==
  /\ divisible \in Strategies
  /\ feed = <<>>
  /\ newest = [r \in Records |-> 0]
  /\ cursor = 0
  /\ local = [r \in Records |-> 0]
  /\ events = {}
  /\ pc = [s \in Syncs |-> "idle"]
  /\ latest = [s \in Syncs |-> 0]
  /\ refs = [s \in Syncs |-> {}]
  /\ token = [s \in Syncs |-> 0]
  /\ page = [s \in Syncs |-> {}]
  /\ change = [s \in Syncs |-> NoChange]
  /\ written = [s \in Syncs |-> FALSE]
  /\ found = [s \in Syncs |-> FALSE]
  /\ processed = [s \in Syncs |-> FALSE]
  /\ outcome = [s \in Syncs |-> "no_changes"]
  /\ failures = {}
  /\ overlapped = FALSE
  /\ stale = {}
  /\ repeated = {}
  /\ lost = {}
  /\ faults = 0

\* What an execution does of itself, and what can go wrong.
Proceed(s) ==
  \/ List(s) \/ Hydrate(s) \/ Deliver(s) \/ Find(s) \/ Upsert(s) \/ Remove(s)
  \/ RecordItem(s) \/ Emit(s, TRUE) \/ RecordFailedItem(s) \/ EndWalk(s)
  \/ PutCursor(s) \/ CompleteRun(s)

Fault(s) == Emit(s, FALSE) \/ ItemFails(s) \/ Abort(s) \/ PutFails(s) \/ Crash(s)

Next ==
  \/ \E r \in Records : \E gone, kept \in BOOLEAN : VendorChanges(r, gone, kept)
  \/ \E s \in Syncs : Begin(s) \/ Proceed(s) \/ Fault(s)

Spec == Init /\ [][Next]_vars

\* Runs are started again and again (a schedule) and their calls return.
Fairness == \A s \in Syncs : WF_vars(Begin(s)) /\ WF_vars(Proceed(s))

FairSpec == Spec /\ Fairness

-----------------------------------------------------------------------------
(* Properties *)

\* The content of p, or newer content of its record, is in the local database.
Applied(p) == local[Id(p)] >= p

\* The change is the last one of its record, and its content survives the read.
Wanted(p) == Current(p) = p /\ feed[p].kept

\* What became of a change that is not applied: it has a failed run item, or
\* its run failed without being able to write one.
Reported(p) == \E q \in failures \cup lost : q >= p /\ Id(q) = Id(p)

\* Nothing behind the stored cursor is missing: a record that has not changed
\* since is up to date, unless the source drops its content, or the change was
\* reported, or an overlapping run has put older content over it.  This is what
\* allows the next run to start from the cursor, after failed items, failed runs
\* and crashes.
BehindCursorAccounted ==
  \A p \in 1 .. cursor : Wanted(p) => Applied(p) \/ Reported(p) \/ Id(p) \in stale

\* As long as runs do not overlap, a row never goes back to older content and no
\* change is published twice, whatever is read again after failures and crashes.
SerialRunsKeepOrder == stale # {} \/ repeated # {} => overlapped

\* A run that closes as 'success' or 'no_changes' leaves nothing that it could
\* have yielded between the stored cursor and the end of its walk: what the next
\* run reads again has changed since, or is dropped again.  An atomic source that
\* has yielded a record has left its token, the last record dropped or not; one
\* that has yielded none leaves the cursor where it was.
SuccessMovesCursor ==
  \A s \in Syncs :
    pc[s] = "complete" /\ outcome[s] # "failed" /\ ~ overlapped =>
      /\ \A p \in cursor + 1 .. token[s] : ~ Wanted(p)
      /\ ~ divisible => cursor = IF found[s] THEN token[s] ELSE latest[s]

\* The cursor goes back only when runs overlap.
CursorGoesForward == [][cursor' >= cursor \/ overlapped]_vars

\* Once the vendor is quiet and calls succeed, the local rows catch up with
\* everything that survives the read and was not reported.
CatchesUp ==
  <>[](\A p \in 1 .. Len(feed) :
         Wanted(p) => Applied(p) \/ Reported(p) \/ Id(p) \in stale)

=============================================================================
