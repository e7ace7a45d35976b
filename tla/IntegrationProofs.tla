--------------------------- MODULE IntegrationProofs ---------------------------
(***************************************************************************)
(* Theorems about Integration, for every number of overlapping runs and    *)
(* records, every page size, feed and number of faults, and both kinds of  *)
(* source.                                                                 *)
(***************************************************************************)
EXTENDS Integration, FiniteSetTheorems, TLAPS

Walking  == {"walk", "find", "upsert", "remove", "record", "caught", "emit"}
InHand   == Walking \ {"walk"}
Pcs      == Walking \cup {"idle", "list", "put", "complete"}
Outcomes == {"no_changes", "success", "failed"}

-----------------------------------------------------------------------------
(* The invariants *)

\* The vendor's feed, and where the last change of each record is.
FeedInv ==
  /\ divisible \in Strategies
  /\ feed \in Seq([id : Records, gone : BOOLEAN, kept : BOOLEAN])
  /\ Len(feed) <= MaxChanges
  /\ newest \in [Records -> 0 .. Len(feed)]
  /\ \A r \in Records : newest[r] # 0 => Id(newest[r]) = r
  /\ \A p \in 1 .. Len(feed) : p <= newest[Id(p)]

\* What is stored: no row is ahead of the vendor.
StoreInv ==
  /\ cursor \in 0 .. Len(feed)
  /\ local \in [Records -> 0 .. Len(feed)]
  /\ events \in SUBSET (1 .. Len(feed))
  /\ failures \in SUBSET (1 .. Len(feed))
  /\ lost \in SUBSET (1 .. Len(feed))
  /\ repeated \in SUBSET (1 .. Len(feed))
  /\ stale \in SUBSET Records
  /\ overlapped \in BOOLEAN
  /\ faults \in 0 .. MaxFaults
  /\ \A r \in Records : local[r] <= newest[r]

\* A position of the feed, and a change that was hydrated from it.
Version(c) ==
  /\ c.pos \in 1 .. Len(feed) /\ c.ver \in 1 .. Len(feed)
  /\ c.pos <= c.ver /\ Id(c.ver) = Id(c.pos)

RunTypes ==
  /\ pc \in [Syncs -> Pcs]
  /\ latest \in [Syncs -> 0 .. Withheld]
  /\ refs \in [Syncs -> SUBSET Positions]
  /\ token \in [Syncs -> 0 .. MaxChanges]
  /\ page \in [Syncs -> SUBSET Change]
  /\ change \in [Syncs -> Change \cup {NoChange}]
  /\ written \in [Syncs -> BOOLEAN]
  /\ found \in [Syncs -> BOOLEAN]
  /\ processed \in [Syncs -> BOOLEAN]
  /\ outcome \in [Syncs -> Outcomes]

\* What a run still has to do lies behind its token, one change per record, what
\* is hydrated ahead of what is not.
RunInv(s) ==
  /\ latest[s] = Withheld \/ latest[s] <= Len(feed)
  /\ pc[s] = "list" => latest[s] <= Len(feed)
  /\ token[s] <= Len(feed)
  /\ pc[s] \notin Walking => refs[s] = {} /\ page[s] = {}
  /\ pc[s] \in InHand => Version(change[s])
  /\ pc[s] \in {"find", "upsert"} => ~ feed[change[s].ver].gone
  /\ pc[s] = "remove" => feed[change[s].ver].gone
  /\ pc[s] = "emit" => written[s]
  /\ written[s] => pc[s] \in {"record", "caught", "emit"}
  /\ \A p \in refs[s] : p <= token[s]
  /\ \A c \in page[s] : Version(c) /\ c.pos <= token[s]
  /\ \A p, q \in refs[s] : Id(p) = Id(q) => p = q
  /\ \A c, d \in page[s] : Id(c.pos) = Id(d.pos) => c = d
  /\ \A c \in page[s] : \A q \in refs[s] : c.pos < q /\ Id(c.pos) # Id(q)
  /\ pc[s] \in InHand =>
       /\ \A c \in page[s] : Id(c.pos) # Id(change[s].pos)
       /\ \A q \in refs[s] : Id(q) # Id(change[s].pos)

Structure == FeedInv /\ StoreInv /\ RunTypes /\ \A s \in Syncs : RunInv(s)

\* What became of a change.
Accounted(p) == Applied(p) \/ Reported(p) \/ Id(p) \in stale
Handles(s, p) == pc[s] \in {"find", "upsert", "remove", "caught"} /\ change[s].pos = p

\* Up to the stored cursor everything is accounted for; up to the cursor of a run,
\* everything but the change in hand; up to its token, everything but what the run
\* has still to do.
CursorInv == \A p \in 1 .. cursor : Wanted(p) => Accounted(p)
LatestInv(s) ==
  latest[s] # Withheld =>
    \A p \in 1 .. latest[s] : Wanted(p) => Accounted(p) \/ Handles(s, p)
WalkInv(s) ==
  pc[s] \in Walking =>
    \A p \in 1 .. token[s] : Wanted(p) =>
      \/ Accounted(p) \/ Handles(s, p)
      \/ p \in refs[s] \/ \E c \in page[s] : c.pos = p

AccountInv == CursorInv /\ \A s \in Syncs : LatestInv(s) /\ WalkInv(s)

\* As long as runs do not overlap.
Alone == \A s, t \in Syncs : pc[s] # "idle" /\ pc[t] # "idle" => s = t

Forward(s) ==
  /\ pc[s] # "idle" => cursor <= latest[s]
  /\ pc[s] \in Walking => cursor <= token[s]
  /\ \A p \in refs[s] : cursor <= p
  /\ \A c \in page[s] : cursor <= c.pos
  /\ pc[s] # "idle" /\ ~ found[s] => latest[s] = cursor

\* What a walk comes to.  The cursor in hand is that of the last record delivered,
\* if the source is divisible, and nothing wanted lies between it and what is still
\* to do; it is the one the run began with, as long as nothing was delivered; and
\* an atomic source that has delivered something holds one record back, and with it
\* the token, until there is no other.
InDoubt(s) == {p \in 1 .. token[s] : latest[s] < p /\ Wanted(p)}

EndInv(s) ==
  /\ pc[s] = "list" => ~ found[s]
  /\ pc[s] \in Walking =>
       IF divisible \/ ~ found[s]
       THEN /\ latest[s] # Withheld
            /\ \A q \in refs[s] : latest[s] < q
            /\ \A c \in page[s] : latest[s] < c.pos
            /\ \A p \in InDoubt(s) : p \in refs[s] \/ \E c \in page[s] : c.pos = p
       ELSE page[s] = {} => refs[s] = {} /\ latest[s] = token[s]
  /\ pc[s] = "put" /\ outcome[s] # "failed" =>
       IF divisible \/ ~ found[s] THEN latest[s] # Withheld /\ InDoubt(s) = {}
       ELSE latest[s] = token[s]

SuccessInv(s) ==
  pc[s] = "complete" /\ outcome[s] # "failed" =>
    /\ \A p \in cursor + 1 .. token[s] : ~ Wanted(p)
    /\ ~ divisible => cursor = IF found[s] THEN token[s] ELSE latest[s]

\* A run writes newer content, and publishes it once.
OrderInv(s) ==
  /\ \A c \in page[s] : local[Id(c.pos)] <= c.ver
  /\ pc[s] \in {"find", "upsert", "remove"} => local[Id(change[s].pos)] <= change[s].ver
  /\ pc[s] = "upsert" => local[Id(change[s].pos)] < change[s].ver
  /\ written[s] => local[Id(change[s].pos)] = change[s].ver /\ change[s].ver \notin events

SerialInv ==
  overlapped \/
    /\ Alone /\ stale = {} /\ repeated = {}
    /\ \A e \in events : e <= local[Id(e)]
    /\ \A s \in Syncs : Forward(s) /\ SuccessInv(s) /\ OrderInv(s)

Inv == Structure /\ AccountInv /\ (\A s \in Syncs : EndInv(s)) /\ SerialInv

-----------------------------------------------------------------------------
(* What a step leaves alone *)

Others(s) == \A t \in Syncs \ {s} :
  /\ pc'[t] = pc[t] /\ latest'[t] = latest[t] /\ refs'[t] = refs[t] /\ token'[t] = token[t]
  /\ page'[t] = page[t] /\ change'[t] = change[t] /\ written'[t] = written[t]
  /\ found'[t] = found[t] /\ processed'[t] = processed[t] /\ outcome'[t] = outcome[t]

LEMMA ProceedFrame ==
  ASSUME RunTypes, NEW s \in Syncs, Begin(s) \/ Proceed(s)
  PROVE  Others(s) /\ UNCHANGED source
<1>1. CASE Begin(s)
  BY <1>1 DEF Begin, Goto, Others, RunTypes
<1>2. CASE List(s)
  BY <1>2 DEF List, Goto, Others, RunTypes
<1>3. CASE Hydrate(s)
  BY <1>3 DEF Hydrate, Others, RunTypes
<1>4. CASE Deliver(s)
  BY <1>4 DEF Deliver, Goto, Others, RunTypes
<1>5. CASE Find(s)
  BY <1>5 DEF Find, Goto, Others, RunTypes, runVars
<1>6. CASE Upsert(s)
  BY <1>6 DEF Upsert, Write, Goto, Others, RunTypes
<1>7. CASE Remove(s)
  BY <1>7 DEF Remove, Write, Goto, Others, RunTypes
<1>8. CASE RecordItem(s)
  BY <1>8 DEF RecordItem, NextItem, Goto, Others, RunTypes
<1>9. CASE Emit(s, TRUE)
  BY <1>9 DEF Emit, NextItem, Goto, Others, RunTypes
<1>10. CASE RecordFailedItem(s)
  BY <1>10 DEF RecordFailedItem, NextItem, Goto, Others, RunTypes
<1>11. CASE EndWalk(s)
  BY <1>11 DEF EndWalk, Goto, Others, RunTypes
<1>12. CASE PutCursor(s)
  BY <1>12 DEF PutCursor, Goto, Others, RunTypes, runVars
<1>13. CASE CompleteRun(s)
  BY <1>13 DEF CompleteRun, Reset, Goto, Others, RunTypes
<1> QED
  BY <1>1, <1>2, <1>3, <1>4, <1>5, <1>6, <1>7, <1>8, <1>9, <1>10, <1>11, <1>12, <1>13 DEF Proceed

LEMMA FaultFrame ==
  ASSUME RunTypes, NEW s \in Syncs, Fault(s)
  PROVE  Others(s) /\ UNCHANGED source
<1>1. CASE Emit(s, FALSE)
  BY <1>1 DEF Emit, NextItem, Goto, Others, RunTypes
<1>2. CASE ItemFails(s)
  BY <1>2 DEF ItemFails, Goto, Others, RunTypes, runVars
<1>3. CASE Abort(s)
  BY <1>3 DEF Abort, Goto, Others, RunTypes
<1>4. CASE PutFails(s)
  BY <1>4 DEF PutFails, Goto, Others, RunTypes
<1>5. CASE Crash(s)
  BY <1>5 DEF Crash, Reset, Goto, Others, RunTypes
<1> QED
  BY <1>1, <1>2, <1>3, <1>4, <1>5 DEF Fault

LEMMA SeqEntries ==
  ASSUME NEW S, NEW q \in Seq(S)
  PROVE  Len(q) \in Nat /\ \A p \in 1 .. Len(q) : q[p] \in S
OBVIOUS

LEMMA FeedEntries ==
  ASSUME FeedInv
  PROVE  /\ Len(feed) \in Nat
         /\ \A p \in 1 .. Len(feed) : Id(p) \in Records /\ feed[p].gone \in BOOLEAN
<1>1. feed \in Seq([id : Records, gone : BOOLEAN, kept : BOOLEAN])
  BY DEF FeedInv
<1>2. Len(feed) \in Nat /\ \A p \in 1 .. Len(feed) : feed[p] \in [id : Records, gone : BOOLEAN, kept : BOOLEAN]
  BY <1>1, SeqEntries
<1> QED
  BY <1>2 DEF Id

\* The feed only grows.
LEMMA FeedGrows ==
  ASSUME FeedInv, NEW r \in Records, NEW gone \in BOOLEAN, NEW kept \in BOOLEAN,
         VendorChanges(r, gone, kept)
  PROVE  /\ FeedInv'
         /\ Len(feed') = Len(feed) + 1
         /\ \A p \in 1 .. Len(feed) : feed'[p] = feed[p] /\ Id(p)' = Id(p)
         /\ \A q \in Records : newest[q] <= newest'[q]
         /\ \A q \in Records : newest'[q] = newest[q] \/ newest'[q] = Len(feed) + 1
<1>1. /\ feed \in Seq([id : Records, gone : BOOLEAN, kept : BOOLEAN]) /\ Len(feed) \in Nat
      /\ [id |-> r, gone |-> gone, kept |-> kept] \in [id : Records, gone : BOOLEAN, kept : BOOLEAN]
      /\ feed' = Append(feed, [id |-> r, gone |-> gone, kept |-> kept])
      /\ newest' = [newest EXCEPT ![r] = Len(feed) + 1]
      /\ Len(feed) < MaxChanges /\ divisible' = divisible
  BY DEF FeedInv, VendorChanges
<1>2. /\ feed' \in Seq([id : Records, gone : BOOLEAN, kept : BOOLEAN])
      /\ Len(feed') = Len(feed) + 1
      /\ \A p \in 1 .. Len(feed) : feed'[p] = feed[p]
      /\ feed'[Len(feed) + 1] = [id |-> r, gone |-> gone, kept |-> kept]
  BY <1>1
<1>3. \A p \in 1 .. Len(feed) : feed'[p].id = feed[p].id /\ feed[p].id \in Records
  BY <1>2, FeedEntries DEF Id
<1>4. feed'[Len(feed) + 1].id = r
  BY <1>2
<1>5. /\ newest' \in [Records -> 0 .. Len(feed')]
      /\ \A q \in Records \ {r} : newest'[q] = newest[q]
      /\ newest'[r] = Len(feed) + 1
      /\ \A q \in Records : newest[q] \in 0 .. Len(feed)
  BY <1>1, <1>2 DEF FeedInv
<1>6. \A q \in Records : newest'[q] # 0 => feed'[newest'[q]].id = q
  <2> SUFFICES ASSUME NEW q \in Records, newest'[q] # 0 PROVE feed'[newest'[q]].id = q
    OBVIOUS
  <2>1. CASE q = r
    BY <1>4, <1>5, <2>1
  <2>2. CASE q # r
    <3>1. newest[q] # 0 /\ newest[q] \in 1 .. Len(feed) /\ newest'[q] = newest[q]
      BY <1>1, <1>5, <2>2
    <3>2. feed[newest[q]].id = q
      BY <3>1 DEF FeedInv, Id
    <3> QED
      BY <1>3, <3>1, <3>2
  <2> QED
    BY <2>1, <2>2
<1>7. \A p \in 1 .. Len(feed') : p <= newest'[feed'[p].id]
  <2> SUFFICES ASSUME NEW p \in 1 .. Len(feed') PROVE p <= newest'[feed'[p].id]
    OBVIOUS
  <2>1. CASE p = Len(feed) + 1
    BY <1>1, <1>4, <1>5, <2>1
  <2>2. CASE p # Len(feed) + 1
    <3>1. p \in 1 .. Len(feed)
      BY <1>1, <1>2, <2>2
    <3>2. p <= newest[feed[p].id]
      BY <3>1 DEF FeedInv, Id
    <3>3. feed[p].id \in Records /\ feed'[p].id = feed[p].id
      BY <1>3, <3>1
    <3>4. newest[feed[p].id] <= newest'[feed[p].id]
      BY <1>1, <1>5, <3>3
    <3>5. newest[feed[p].id] \in Nat /\ newest'[feed[p].id] \in Nat
      BY <1>1, <1>2, <1>5, <3>3
    <3> QED
      BY <3>2, <3>3, <3>4, <3>5
  <2> QED
    BY <2>1, <2>2
<1>8. Len(feed') <= MaxChanges
  BY <1>1, <1>2, IntegrationAssumption
<1>9. FeedInv'
  <2>1. divisible' \in Strategies
    BY <1>1 DEF FeedInv
  <2> QED
    BY <1>2, <1>5, <1>6, <1>7, <1>8, <2>1 DEF FeedInv, Id
<1>10. \A q \in Records : newest[q] <= newest'[q]
  BY <1>1, <1>5
<1> QED
  BY <1>2, <1>3, <1>5, <1>9, <1>10 DEF Id

\* A later change of the vendor makes no earlier one worth reading.
LEMMA VendorWants ==
  ASSUME FeedInv, NEW r \in Records, NEW gone \in BOOLEAN, NEW kept \in BOOLEAN,
         VendorChanges(r, gone, kept), NEW p \in 1 .. Len(feed), Wanted(p)'
  PROVE  Wanted(p)
<1>1. /\ Len(feed) \in Nat /\ feed'[p] = feed[p] /\ Id(p) \in Records
      /\ \A q \in Records : newest'[q] = newest[q] \/ newest'[q] = Len(feed) + 1
  BY FeedEntries, FeedGrows
<1>2. newest'[Id(p)] = p /\ feed[p].kept
  BY <1>1 DEF Wanted, Current, Id
<1>3. newest[Id(p)] = p
  BY <1>1, <1>2
<1> QED
  BY <1>2, <1>3 DEF Wanted, Current

\* What comes out of a page.
LEMMA SurvivorsOf ==
  ASSUME NEW P
  PROVE  /\ \A c \in Survivors(P) : c.pos \in P /\ c = [pos |-> c.pos, ver |-> Current(c.pos)]
         /\ \A p \in P : Wanted(p) => \E c \in Survivors(P) : c.pos = p
<1>1. ASSUME NEW p \in P, Wanted(p)
      PROVE  \E c \in Survivors(P) : c.pos = p
  <2>1. [pos |-> p, ver |-> Current(p)] \in Survivors(P)
    BY <1>1 DEF Survivors, Wanted
  <2> QED
    BY <2>1
<1> QED
  BY <1>1 DEF Survivors

LEMMA FeedStays ==
  ASSUME FeedInv, UNCHANGED source
  PROVE  FeedInv'
BY DEF FeedInv, source, Id

-----------------------------------------------------------------------------
(* Structure *)

\* The current position of a record that is in the feed.
LEMMA CurrentIsVersion ==
  ASSUME FeedInv, NEW p \in 1 .. Len(feed)
  PROVE  /\ Current(p) \in 1 .. Len(feed) /\ p <= Current(p)
         /\ Id(Current(p)) = Id(p) /\ Id(p) \in Records
<1>1. Id(p) \in Records /\ Len(feed) \in Nat
  BY FeedEntries
<1>2. newest[Id(p)] \in 0 .. Len(feed) /\ p <= newest[Id(p)]
  BY <1>1 DEF FeedInv
<1>3. newest[Id(p)] # 0
  BY <1>1, <1>2
<1> QED
  BY <1>1, <1>2, <1>3 DEF FeedInv, Current

\* The feed as it is, or longer.
Extends ==
  /\ Len(feed) \in Nat /\ Len(feed') \in Nat /\ Len(feed) <= Len(feed')
  /\ \A p \in 1 .. Len(feed) : feed'[p] = feed[p]

LEMMA StepExtends ==
  ASSUME FeedInv, UNCHANGED source \/ \E r \in Records : \E gone, kept \in BOOLEAN : VendorChanges(r, gone, kept)
  PROVE  Extends /\ FeedInv'
<1>1. CASE UNCHANGED source
  BY <1>1, FeedEntries, FeedStays DEF Extends, source
<1>2. ASSUME NEW r \in Records, NEW gone \in BOOLEAN, NEW kept \in BOOLEAN,
         VendorChanges(r, gone, kept)
      PROVE  Extends /\ FeedInv'
  BY <1>2, FeedEntries, FeedGrows DEF Extends
<1> QED
  BY <1>1, <1>2

LEMMA VersionStays ==
  ASSUME Extends, NEW c, Version(c)
  PROVE  Version(c)'
BY DEF Extends, Version, Id

LEMMA RunStays ==
  ASSUME FeedInv, RunTypes, NEW t \in Syncs, RunInv(t), Extends,
         pc'[t] = pc[t], latest'[t] = latest[t], refs'[t] = refs[t], token'[t] = token[t],
         page'[t] = page[t], change'[t] = change[t], written'[t] = written[t]
  PROVE  RunInv(t)'
<1>1. /\ token[t] \in Nat /\ latest[t] \in Nat /\ Len(feed) <= Len(feed')
      /\ Len(feed) \in Nat /\ Len(feed') \in Nat
  BY IntegrationAssumption DEF RunTypes, Withheld, Extends
<1>2. /\ latest'[t] = Withheld \/ latest'[t] <= Len(feed')
      /\ pc'[t] = "list" => latest'[t] <= Len(feed')
      /\ token'[t] <= Len(feed')
  BY <1>1 DEF RunInv
<1>3. pc[t] \in InHand => Version(change[t])'
  BY VersionStays DEF RunInv
<1>4. \A c \in page[t] : Version(c) /\ Version(c)'
  BY VersionStays DEF RunInv
<1>5. \A q \in refs[t] : q \in 1 .. Len(feed)
  BY <1>1 DEF RunInv, RunTypes, Positions
<1>6. \A q \in 1 .. Len(feed) : feed'[q] = feed[q] /\ Id(q)' = Id(q)
  BY DEF Extends, Id
<1>7. pc[t] \in InHand => change[t].ver \in 1 .. Len(feed) /\ change[t].pos \in 1 .. Len(feed)
  BY DEF RunInv, Version
<1>8. \A c \in page[t] : c.pos \in 1 .. Len(feed)
  BY <1>4 DEF Version
<1>9. /\ pc'[t] \in {"find", "upsert"} => ~ feed'[change'[t].ver].gone
      /\ pc'[t] = "remove" => feed'[change'[t].ver].gone
  BY <1>6, <1>7 DEF RunInv, InHand, Walking
<1>10. /\ \A u, q \in refs'[t] : Id(u)' = Id(q)' => u = q
       /\ \A c, d \in page'[t] : feed'[c.pos].id = feed'[d.pos].id => c = d
       /\ \A c \in page'[t] : \A q \in refs'[t] : c.pos < q /\ feed'[c.pos].id # feed'[q].id
  BY <1>5, <1>6, <1>8 DEF RunInv, Id
<1>11. pc'[t] \in InHand =>
         /\ \A c \in page'[t] : feed'[c.pos].id # feed'[change'[t].pos].id
         /\ \A q \in refs'[t] : feed'[q].id # feed'[change'[t].pos].id
  BY <1>5, <1>6, <1>7, <1>8 DEF RunInv, Id
<1> QED
  BY <1>2, <1>3, <1>4, <1>9, <1>10, <1>11 DEF RunInv, Id

\* What a run may touch of itself has the right type after each of its steps.
LEMMA RunTypesHold ==
  ASSUME Structure, NEW s \in Syncs, Begin(s) \/ Proceed(s) \/ Fault(s)
  PROVE  RunTypes'
<1> USE DEF Structure, RunTypes, Goto, Pcs, InHand, Walking, Outcomes
<1>0. /\ MaxChanges \in Nat /\ Withheld = MaxChanges + 1 /\ Len(feed) \in 0 .. MaxChanges
      /\ cursor \in 0 .. Withheld /\ NoChange \in Change \cup {NoChange}
  BY IntegrationAssumption, FeedEntries DEF FeedInv, StoreInv, Withheld
<1>1. CASE Begin(s)
  BY <1>0, <1>1 DEF Begin
<1>2. CASE List(s)
  <2>1. \A p \in latest[s] + 1 .. Len(feed) : Current(p) \in Positions
    <3> TAKE p \in latest[s] + 1 .. Len(feed)
    <3>1. p \in 1 .. Len(feed)
      BY <1>0
    <3> QED
      BY <1>0, <3>1, CurrentIsVersion DEF Positions
  <2>2. refs' \in [Syncs -> SUBSET Positions]
    BY <1>2, <2>1 DEF List
  <2>3. token' \in [Syncs -> 0 .. MaxChanges]
    BY <1>0, <1>2 DEF List
  <2> QED
    BY <1>2, <2>2, <2>3 DEF List
<1>3. CASE Hydrate(s)
  <2>1. PICK P \in NextPage(s) :
          /\ page' = [page EXCEPT ![s] = @ \cup Survivors(P)]
          /\ refs' = [refs EXCEPT ![s] = @ \ P]
    BY <1>3 DEF Hydrate
  <2>2. Survivors(P) \subseteq Change
    <3> SUFFICES ASSUME NEW c \in Survivors(P) PROVE c \in Change
      OBVIOUS
    <3>1. c.pos \in P /\ c = [pos |-> c.pos, ver |-> Current(c.pos)]
      BY SurvivorsOf
    <3>2. c.pos \in 1 .. Len(feed)
      BY <1>0, <2>1, <3>1 DEF NextPage, RunInv, Positions
    <3>3. c.pos \in Positions /\ Current(c.pos) \in Positions
      BY <1>0, <3>2, CurrentIsVersion DEF Positions
    <3> QED
      BY <3>1, <3>3 DEF Change
  <2>3. page' \in [Syncs -> SUBSET Change]
    BY <2>1, <2>2
  <2>4. refs' \in [Syncs -> SUBSET Positions]
    BY <2>1
  <2> QED
    BY <1>3, <2>3, <2>4 DEF Hydrate
<1>4. CASE Deliver(s)
  <2>1. PICK c \in page[s] :
          /\ page' = [page EXCEPT ![s] = @ \ {c}]
          /\ change' = [change EXCEPT ![s] = c]
          /\ latest' = [latest EXCEPT ![s] = CursorOf(s, c)]
          /\ pc' = [pc EXCEPT ![s] = IF feed[c.ver].gone THEN "remove" ELSE "find"]
    BY <1>4 DEF Deliver
  <2>2. c \in Change /\ c.pos \in 0 .. MaxChanges
    BY <2>1 DEF Change, Positions
  <2>3. CursorOf(s, c) \in 0 .. Withheld
    BY <1>0, <2>2 DEF CursorOf
  <2> QED
    BY <1>4, <2>1, <2>2, <2>3 DEF Deliver
<1>5. CASE Find(s)
  BY <1>5 DEF Find, runVars
<1>6. CASE Upsert(s)
  BY <1>6 DEF Upsert, Write
<1>7. CASE Remove(s)
  BY <1>7 DEF Remove, Write
<1>8. CASE RecordItem(s)
  BY <1>0, <1>8 DEF RecordItem, NextItem
<1>9. CASE Emit(s, TRUE) \/ Emit(s, FALSE)
  BY <1>0, <1>9 DEF Emit, NextItem
<1>10. CASE RecordFailedItem(s)
  BY <1>0, <1>10 DEF RecordFailedItem, NextItem
<1>11. CASE EndWalk(s)
  BY <1>11 DEF EndWalk
<1>12. CASE PutCursor(s)
  BY <1>12 DEF PutCursor, runVars
<1>13. CASE CompleteRun(s) \/ Crash(s)
  <2>1. Reset(s) /\ pc' = [pc EXCEPT ![s] = "idle"]
    BY <1>13 DEF CompleteRun, Crash
  <2>2. /\ latest' \in [Syncs -> 0 .. Withheld] /\ token' \in [Syncs -> 0 .. MaxChanges]
        /\ refs' \in [Syncs -> SUBSET Positions] /\ page' \in [Syncs -> SUBSET Change]
    BY <1>0, <2>1 DEF Reset
  <2>3. /\ change' \in [Syncs -> Change \cup {NoChange}] /\ outcome' \in [Syncs -> Outcomes]
        /\ pc' \in [Syncs -> Pcs]
    BY <1>0, <2>1 DEF Reset
  <2>4. /\ written' \in [Syncs -> BOOLEAN] /\ found' \in [Syncs -> BOOLEAN]
        /\ processed' \in [Syncs -> BOOLEAN]
    BY <2>1 DEF Reset
  <2> QED
    BY <2>2, <2>3, <2>4
<1>14. CASE ItemFails(s)
  BY <1>14 DEF ItemFails, runVars
<1>15. CASE Abort(s)
  BY <1>0, <1>15 DEF Abort
<1>16. CASE PutFails(s)
  BY <1>16 DEF PutFails
<1> QED
  BY <1>1, <1>2, <1>3, <1>4, <1>5, <1>6, <1>7, <1>8, <1>9, <1>10, <1>11, <1>12, <1>13,
     <1>14, <1>15, <1>16 DEF Proceed, Fault

\* The change in hand names a record and content that it has had.
LEMMA InHandIsVersion ==
  ASSUME Structure, NEW s \in Syncs, pc[s] \in InHand
  PROVE  /\ Version(change[s]) /\ Id(change[s].pos) \in Records
         /\ change[s].ver <= newest[Id(change[s].pos)]
         /\ Id(change[s].ver) = Id(change[s].pos)
         /\ Len(feed) \in Nat
<1>1. Version(change[s]) /\ Len(feed) \in Nat
  BY FeedEntries DEF Structure, RunInv
<1>2. Id(change[s].pos) \in Records
  BY <1>1, FeedEntries DEF Structure, Version
<1> QED
  BY <1>1, <1>2 DEF Structure, FeedInv, Version

LEMMA StoreHolds ==
  ASSUME Structure, NEW s \in Syncs, Begin(s) \/ Proceed(s) \/ Fault(s)
  PROVE  StoreInv'
<1> USE DEF Structure, RunTypes, StoreInv
<1>0. /\ Len(feed) \in Nat /\ MaxFaults \in Nat
      /\ \A r \in Records : newest[r] \in 0 .. Len(feed)
  BY IntegrationAssumption, FeedEntries DEF FeedInv
<1>a. feed' = feed /\ newest' = newest
  BY ProceedFrame, FaultFrame DEF source
<1>1. CASE Begin(s)
  BY <1>a, <1>1 DEF Begin
<1>2. CASE List(s) \/ Hydrate(s) \/ Find(s) \/ RecordItem(s) \/ Deliver(s) \/ EndWalk(s) \/ CompleteRun(s)
  BY <1>a, <1>2 DEF List, Hydrate, Find, RecordItem, Deliver, EndWalk, CompleteRun, history
<1>3. ASSUME Upsert(s) \/ Remove(s)
      PROVE  StoreInv'
  <2> DEFINE r == Id(change[s].pos)
  <2>1. /\ r \in Records /\ change[s].ver \in 1 .. Len(feed) /\ change[s].ver <= newest[r]
    BY <1>3, InHandIsVersion DEF Upsert, Remove, InHand, Walking, Version
  <2>2. PICK v \in 0 .. Len(feed) : v <= newest[r] /\ local' = [local EXCEPT ![r] = v]
    BY <1>0, <1>3, <2>1 DEF Upsert, Remove, Write
  <2>3. stale' \in SUBSET Records
    BY <1>3, <2>1 DEF Upsert, Remove, Write
  <2> HIDE DEF r
  <2>4. local' \in [Records -> 0 .. Len(feed)] /\ \A q \in Records : local'[q] <= newest[q]
    BY <2>1, <2>2
  <2> QED
    BY <1>a, <1>3, <2>3, <2>4 DEF Upsert, Remove
<1>4. CASE Emit(s, TRUE) \/ Emit(s, FALSE)
  <2>1. change[s].ver \in 1 .. Len(feed)
    BY <1>4, InHandIsVersion DEF Emit, InHand, Walking, Version
  <2>2. events' \in SUBSET (1 .. Len(feed)) /\ repeated' \in SUBSET (1 .. Len(feed))
    BY <1>4, <2>1 DEF Emit
  <2>3. faults' \in 0 .. MaxFaults
    BY <1>0, <1>4 DEF Emit
  <2> QED
    BY <1>a, <1>4, <2>2, <2>3 DEF Emit
<1>5. CASE RecordFailedItem(s)
  <2>1. change[s].ver \in 1 .. Len(feed)
    BY <1>5, InHandIsVersion DEF RecordFailedItem, InHand, Walking, Version
  <2> QED
    BY <1>a, <1>5, <2>1 DEF RecordFailedItem
<1>6. CASE PutCursor(s)
  <2>1. cursor' \in 0 .. Len(feed)
    BY <1>0, <1>6 DEF PutCursor, RunInv
  <2> QED
    BY <1>a, <1>6, <2>1 DEF PutCursor, history
<1>7. CASE ItemFails(s) \/ PutFails(s) \/ Crash(s)
  <2>1. faults' \in 0 .. MaxFaults
    BY <1>0, <1>7 DEF ItemFails, PutFails, Crash
  <2> QED
    BY <1>a, <1>7, <2>1 DEF ItemFails, PutFails, Crash, history
<1>8. CASE Abort(s)
  <2>1. pc[s] = "caught" => change[s].ver \in 1 .. Len(feed)
    BY InHandIsVersion DEF InHand, Walking, Version
  <2>2. lost' \in SUBSET (1 .. Len(feed))
    BY <1>8, <2>1 DEF Abort
  <2>3. faults' \in 0 .. MaxFaults
    BY <1>0, <1>8 DEF Abort
  <2> QED
    BY <1>a, <1>8, <2>2, <2>3 DEF Abort
<1> QED
  BY <1>1, <1>2, <1>3, <1>4, <1>5, <1>6, <1>7, <1>8 DEF Proceed, Fault
\* What a run has still to do, after each of its steps.
LEMMA RunHolds ==
  ASSUME Structure, NEW s \in Syncs, Begin(s) \/ Proceed(s) \/ Fault(s)
  PROVE  RunInv(s)'
<1> USE DEF Structure, RunTypes, Goto, InHand, Walking
<1>0. /\ Len(feed) \in Nat /\ token[s] \in Nat /\ latest[s] \in Nat
      /\ MaxChanges \in Nat /\ Len(feed) <= MaxChanges /\ Withheld = MaxChanges + 1
      /\ cursor \in 0 .. Len(feed)
  BY IntegrationAssumption, FeedEntries DEF Withheld, FeedInv, StoreInv
<1>a. /\ feed' = feed /\ newest' = newest /\ Withheld' = Withheld
      /\ \A p : Id(p)' = Id(p)
      /\ \A c : Version(c)' <=> Version(c)
  BY ProceedFrame, FaultFrame DEF source, Withheld, Version, Id
<1>b. /\ \A p \in refs[s] : p <= token[s]
      /\ \A c \in page[s] : Version(c) /\ c.pos <= token[s]
      /\ \A p, q \in refs[s] : Id(p) = Id(q) => p = q
      /\ \A c, d \in page[s] : Id(c.pos) = Id(d.pos) => c = d
      /\ \A c \in page[s] : \A q \in refs[s] : c.pos < q /\ Id(c.pos) # Id(q)
      /\ token[s] <= Len(feed)
      /\ latest[s] = Withheld \/ latest[s] <= Len(feed)
  BY DEF RunInv
<1>c. \A p : feed'[p].id = Id(p)
  BY <1>a DEF Id
<1>1. CASE Begin(s)
  <2>1. /\ refs'[s] = {} /\ page'[s] = {} /\ token'[s] = token[s] /\ latest'[s] = cursor
        /\ pc'[s] = "list" /\ ~ written'[s]
    BY <1>1 DEF Begin, RunInv
  <2> QED
    BY <1>0, <1>a, <1>b, <2>1 DEF RunInv
<1>2. CASE List(s)
  <2>1. /\ pc'[s] = "walk" /\ token'[s] = Len(feed) /\ latest'[s] = latest[s]
        /\ page'[s] = {} /\ ~ written'[s]
        /\ refs'[s] = {Current(p) : p \in latest[s] + 1 .. Len(feed)}
    BY <1>2 DEF List, RunInv
  <2>2. \A q \in refs'[s] : q <= Len(feed) /\ newest[Id(q)] = q
    <3> TAKE q \in refs'[s]
    <3>1. PICK p \in 1 .. Len(feed) : q = Current(p)
      BY <1>0, <2>1
    <3> QED
      BY <1>0, <3>1, CurrentIsVersion DEF Current
  <2>3. \A p, q \in refs'[s] : Id(p) = Id(q) => p = q
    BY <2>2
  <2> QED
    BY <1>0, <1>a, <1>b, <1>c, <2>1, <2>2, <2>3 DEF RunInv
<1>3. CASE Hydrate(s)
  <2>1. PICK P \in NextPage(s) :
          /\ page'[s] = page[s] \cup Survivors(P)
          /\ refs'[s] = refs[s] \ P
    BY <1>3 DEF Hydrate
  <2>2. /\ P \subseteq refs[s] /\ \A p \in P, q \in refs[s] \ P : p < q
        /\ \A p \in refs[s] : p \in 1 .. Len(feed)
    BY <1>0, <1>b, <2>1 DEF NextPage, Positions
  <2>3. \A c \in page'[s] : c \in page[s] \/ (c.pos \in P /\ c = [pos |-> c.pos, ver |-> Current(c.pos)])
    BY <2>1, SurvivorsOf
  <2>4. /\ pc'[s] = "walk" /\ pc[s] = "walk" /\ token'[s] = token[s] /\ latest'[s] = latest[s]
        /\ written'[s] = written[s]
    BY <1>3 DEF Hydrate
  <2>5. \A c \in page'[s] : Version(c) /\ c.pos <= token[s]
    <3> TAKE c \in page'[s]
    <3>1. CASE c \in page[s]
      BY <1>b, <3>1
    <3>2. CASE c.pos \in P /\ c.ver = Current(c.pos)
      BY <1>b, <2>2, <3>2, CurrentIsVersion DEF Version
    <3> QED
      BY <2>3, <3>1, <3>2
  <2>6. \A c, d \in page'[s] : Id(c.pos) = Id(d.pos) => c = d
    <3> SUFFICES ASSUME NEW c \in page'[s], NEW d \in page'[s], Id(c.pos) = Id(d.pos) PROVE c = d
      OBVIOUS
    <3>1. CASE c \in page[s] /\ d \in page[s]
      BY <1>b, <3>1
    <3>2. CASE c \in page[s] /\ d.pos \in P
      BY <1>b, <2>2, <3>2
    <3>3. CASE c.pos \in P /\ d \in page[s]
      BY <1>b, <2>2, <3>3
    <3>4. CASE c.pos \in P /\ d.pos \in P /\ c \notin page[s] /\ d \notin page[s]
      BY <1>b, <2>2, <2>3, <3>4
    <3> QED
      BY <2>3, <3>1, <3>2, <3>3, <3>4
  <2>7. \A c \in page'[s] : \A q \in refs'[s] : c.pos < q /\ Id(c.pos) # Id(q)
    <3> SUFFICES ASSUME NEW c \in page'[s], NEW q \in refs'[s]
                 PROVE  c.pos < q /\ Id(c.pos) # Id(q)
      OBVIOUS
    <3>1. CASE c \in page[s]
      BY <1>b, <2>1, <3>1
    <3>2. CASE c.pos \in P
      BY <1>b, <2>1, <2>2, <3>2
    <3> QED
      BY <2>3, <3>1, <3>2
  <2>8. /\ \A p \in refs'[s] : p <= token[s]
        /\ \A p, q \in refs'[s] : Id(p) = Id(q) => p = q
    BY <1>b, <2>1
  <2>9. ~ written'[s]
    BY <2>4 DEF RunInv
  <2> QED
    BY <1>a, <1>b, <1>c, <2>4, <2>5, <2>6, <2>7, <2>8, <2>9 DEF RunInv
<1>4. CASE Deliver(s)
  <2>1. PICK c \in page[s] :
          /\ page'[s] = page[s] \ {c} /\ change'[s] = c /\ latest'[s] = CursorOf(s, c)
          /\ pc'[s] = IF feed[c.ver].gone THEN "remove" ELSE "find"
    BY <1>4 DEF Deliver
  <2>2. refs'[s] = refs[s] /\ token'[s] = token[s] /\ ~ written'[s]
    BY <1>4 DEF Deliver
  <2>3. Version(c) /\ c.pos \in 1 .. Len(feed)
    BY <1>b, <2>1 DEF Version
  <2>4. CursorOf(s, c) = Withheld \/ CursorOf(s, c) <= Len(feed)
    BY <1>0, <1>b, <2>3 DEF CursorOf
  <2>5. /\ \A d \in page'[s] : Id(d.pos) # Id(c.pos)
        /\ \A q \in refs'[s] : Id(q) # Id(c.pos)
    BY <1>b, <2>1, <2>2
  <2> QED
    BY <1>a, <1>b, <1>c, <2>1, <2>2, <2>3, <2>4, <2>5 DEF RunInv
<1>5. CASE Find(s) \/ ItemFails(s) \/ Emit(s, TRUE) \/ Emit(s, FALSE) \/ RecordItem(s) \/ RecordFailedItem(s)
  <2>1. /\ refs'[s] = refs[s] /\ page'[s] = page[s] /\ token'[s] = token[s]
        /\ latest'[s] = latest[s]
    BY <1>5 DEF Find, ItemFails, Emit, RecordItem, RecordFailedItem, NextItem, runVars
  <2>2. \/ pc'[s] = "walk" /\ ~ written'[s]
        \/ pc'[s] = "emit" /\ pc[s] = "record" /\ written'[s] /\ change'[s] = change[s]
        \/ /\ change'[s] = change[s] /\ written'[s] = written[s]
           /\ \/ pc[s] = "find" /\ pc'[s] \in {"record", "upsert"}
              \/ pc[s] \in {"find", "upsert", "remove", "record"} /\ pc'[s] = "caught"
    BY <1>5 DEF Find, ItemFails, Emit, RecordItem, RecordFailedItem, NextItem, runVars
  <2>3. pc[s] \in Walking
    BY <1>5 DEF Find, ItemFails, Emit, RecordItem, RecordFailedItem
  <2>4. pc'[s] \in InHand =>
          /\ pc[s] \in InHand /\ change'[s] = change[s] /\ Version(change[s])
          /\ \A c \in page[s] : Id(c.pos) # Id(change[s].pos)
          /\ \A q \in refs[s] : Id(q) # Id(change[s].pos)
    BY <2>2 DEF RunInv
  <2>5. /\ pc'[s] = "emit" => written'[s]
        /\ written'[s] => pc'[s] \in {"record", "caught", "emit"}
        /\ pc'[s] = "upsert" => ~ feed[change'[s].ver].gone
        /\ pc'[s] \notin {"find", "remove", "list"}
    BY <2>2 DEF RunInv
  <2> QED
    BY <1>a, <1>b, <1>c, <2>1, <2>2, <2>3, <2>4, <2>5 DEF RunInv
<1>6. CASE Upsert(s) \/ Remove(s)
  <2>1. /\ refs'[s] = refs[s] /\ page'[s] = page[s] /\ token'[s] = token[s]
        /\ latest'[s] = latest[s] /\ change'[s] = change[s] /\ pc'[s] = "record"
        /\ pc[s] \in InHand
    BY <1>6 DEF Upsert, Remove
  <2>2. /\ Version(change[s])
        /\ \A c \in page[s] : Id(c.pos) # Id(change[s].pos)
        /\ \A q \in refs[s] : Id(q) # Id(change[s].pos)
    BY <2>1 DEF RunInv
  <2> QED
    BY <1>a, <1>b, <1>c, <2>1, <2>2 DEF RunInv
<1>7. CASE EndWalk(s) \/ Abort(s) \/ PutCursor(s) \/ PutFails(s)
  <2>1. /\ refs'[s] = {} /\ page'[s] = {} /\ token'[s] = token[s]
        /\ latest'[s] = latest[s] /\ pc'[s] \in {"put", "complete"}
    BY <1>7 DEF EndWalk, Abort, PutCursor, PutFails, runVars, RunInv
  <2>2. ~ written'[s]
    BY <1>7 DEF EndWalk, Abort, PutCursor, PutFails, runVars, RunInv
  <2> QED
    BY <1>a, <1>b, <2>1, <2>2 DEF RunInv
<1>8. CASE CompleteRun(s) \/ Crash(s)
  <2>1. /\ refs'[s] = {} /\ page'[s] = {} /\ token'[s] = 0 /\ latest'[s] = 0
        /\ pc'[s] = "idle" /\ ~ written'[s]
    BY <1>8 DEF CompleteRun, Crash, Reset
  <2> QED
    BY <1>0, <1>a, <2>1 DEF RunInv
<1> QED
  BY <1>1, <1>2, <1>3, <1>4, <1>5, <1>6, <1>7, <1>8 DEF Proceed, Fault

LEMMA VendorKeepsStore ==
  ASSUME Structure, NEW r \in Records, NEW gone \in BOOLEAN, NEW kept \in BOOLEAN,
         VendorChanges(r, gone, kept)
  PROVE  StoreInv' /\ RunTypes'
<1>1. /\ Len(feed) \in Nat /\ Len(feed') = Len(feed) + 1
      /\ \A q \in Records : newest[q] <= newest'[q]
      /\ \A q \in Records : newest[q] \in Nat /\ newest'[q] \in Nat /\ local[q] \in Nat
  <2>1. /\ Len(feed) \in Nat /\ Len(feed') = Len(feed) + 1 /\ FeedInv'
        /\ \A q \in Records : newest[q] <= newest'[q]
    BY FeedEntries, FeedGrows DEF Structure
  <2>2. /\ newest \in [Records -> 0 .. Len(feed)]
        /\ local \in [Records -> 0 .. Len(feed)]
        /\ newest' \in [Records -> 0 .. Len(feed')]
    BY <2>1 DEF Structure, FeedInv, StoreInv
  <2> QED
    BY <2>1, <2>2
<1>2. UNCHANGED <<cursor, local, events, pc, runVars, history, faults>>
  BY DEF VendorChanges
<1>3. \A q \in Records : local'[q] <= newest'[q]
  BY <1>1, <1>2 DEF Structure, StoreInv
<1>4. StoreInv'
  BY <1>1, <1>2, <1>3 DEF Structure, StoreInv, history
<1>5. RunTypes'
  BY <1>2 DEF Structure, RunTypes, runVars, Withheld
<1> QED
  BY <1>4, <1>5

LEMMA StructureInit ==
  ASSUME Init
  PROVE  Structure
<1>1. FeedInv
  <2>1. Len(feed) = 0 /\ feed \in Seq([id : Records, gone : BOOLEAN, kept : BOOLEAN])
    BY DEF Init
  <2> QED
    BY <2>1, IntegrationAssumption DEF Init, FeedInv
<1>2. StoreInv
  <2>1. Len(feed) = 0
    BY DEF Init
  <2>2. /\ cursor \in 0 .. Len(feed) /\ local \in [Records -> 0 .. Len(feed)]
        /\ \A r \in Records : local[r] <= newest[r]
    BY <2>1 DEF Init
  <2>3. faults \in 0 .. MaxFaults
    BY IntegrationAssumption DEF Init
  <2> QED
    BY <2>2, <2>3 DEF Init, StoreInv
<1>3. RunTypes
  BY IntegrationAssumption
     DEF Init, RunTypes, Pcs, Walking, Outcomes, Withheld, NoChange
<1>4. \A s \in Syncs : RunInv(s)
  BY IntegrationAssumption DEF Init, RunInv, InHand, Walking
<1> QED
  BY <1>1, <1>2, <1>3, <1>4 DEF Structure

LEMMA StructureStep ==
  ASSUME Structure, [Next]_vars
  PROVE  Structure'
<1>1. ASSUME NEW s \in Syncs, Begin(s) \/ Proceed(s) \/ Fault(s)
      PROVE  Structure'
  <2>1. Others(s) /\ UNCHANGED source
    BY <1>1, ProceedFrame, FaultFrame DEF Structure
  <2>2. FeedInv' /\ Extends
    BY <2>1, StepExtends DEF Structure
  <2>3. ASSUME NEW t \in Syncs \ {s}
        PROVE  RunInv(t)'
    BY <2>1, <2>2, RunStays DEF Structure, Others
  <2>4. RunInv(s)' /\ StoreInv' /\ RunTypes'
    BY <1>1, RunHolds, StoreHolds, RunTypesHold
  <2>5. \A t \in Syncs : RunInv(t)'
    BY <2>3, <2>4
  <2> QED
    BY <2>2, <2>4, <2>5 DEF Structure
<1>2. ASSUME NEW r \in Records, NEW gone \in BOOLEAN, NEW kept \in BOOLEAN,
         VendorChanges(r, gone, kept)
      PROVE  Structure'
  <2>1. FeedInv' /\ Extends
    BY <1>2, StepExtends DEF Structure
  <2>2. StoreInv' /\ RunTypes'
    BY <1>2, VendorKeepsStore
  <2>3. ASSUME NEW t \in Syncs
        PROVE  RunInv(t)'
    BY <1>2, <2>1, RunStays DEF Structure, VendorChanges, runVars
  <2> QED
    BY <2>1, <2>2, <2>3 DEF Structure
<1>3. CASE UNCHANGED vars
  <2>1. UNCHANGED <<source, cursor, local, events, pc, runVars, history, faults>>
    BY <1>3 DEF vars, source, runVars, history
  <2>2. FeedInv' /\ Extends
    BY <2>1, StepExtends DEF Structure
  <2>3. StoreInv' /\ RunTypes'
    BY <2>1 DEF Structure, StoreInv, RunTypes, source, runVars, history, Withheld
  <2>4. ASSUME NEW t \in Syncs
        PROVE  RunInv(t)'
    BY <2>1, <2>2, RunStays DEF Structure, runVars
  <2> QED
    BY <2>2, <2>3, <2>4 DEF Structure
<1> QED
  BY <1>1, <1>2, <1>3 DEF Next

LEMMA StructureTypes ==
  ASSUME Structure
  PROVE  TypeOK
<1>1. /\ Len(feed) \in Nat /\ MaxChanges \in Nat /\ Len(feed) <= MaxChanges
      /\ \A p \in 0 .. Len(feed) : p \in 0 .. MaxChanges
      /\ \A p \in 1 .. Len(feed) : p \in Positions
  BY IntegrationAssumption, FeedEntries DEF Structure, FeedInv, Positions
<1>2. newest \in [Records -> 0 .. MaxChanges] /\ local \in [Records -> 0 .. MaxChanges]
  BY <1>1 DEF Structure, FeedInv, StoreInv
<1>3. /\ events \in SUBSET Positions /\ failures \in SUBSET Positions
      /\ lost \in SUBSET Positions /\ repeated \in SUBSET Positions
  BY <1>1 DEF Structure, StoreInv
<1> QED
  BY <1>1, <1>2, <1>3
     DEF Structure, FeedInv, StoreInv, RunTypes, TypeOK, Pcs, Walking, Outcomes

\* Whatever the vendor does, the variables have their types and what a run still
\* has to do is a change of the feed, once per record, behind the end of its walk.
THEOREM IntegrationTypes == Spec => [](TypeOK /\ Structure)
<1>1. Init => Structure
  BY StructureInit
<1>2. Structure /\ [Next]_vars => Structure'
  BY StructureStep
<1>3. Structure => TypeOK
  BY StructureTypes
<1> QED
  BY <1>1, <1>2, <1>3, PTL DEF Spec

-----------------------------------------------------------------------------
(* Nothing behind the cursor is missing *)

\* What became of a change does not become undone.
LEMMA AccountedStays ==
  ASSUME Structure, NEW s \in Syncs, Begin(s) \/ Proceed(s) \/ Fault(s),
         NEW p \in 1 .. Len(feed), Accounted(p)
  PROVE  Accounted(p)'
<1>0. /\ feed' = feed /\ Id(p)' = Id(p) /\ \A q : Id(q)' = Id(q)
      /\ Id(p) \in Records /\ p \in Nat
      /\ failures \subseteq failures' /\ lost \subseteq lost' /\ stale \subseteq stale'
  <2>1. feed' = feed
    BY ProceedFrame, FaultFrame DEF Structure, source
  <2>2. failures \subseteq failures'
    BY DEF Begin, Proceed, Fault, List, Hydrate, Deliver, Find, Upsert, Remove, RecordItem,
           Emit, RecordFailedItem, EndWalk, PutCursor, CompleteRun, ItemFails, Abort,
           PutFails, Crash, Write, history
  <2>3. lost \subseteq lost'
    BY DEF Begin, Proceed, Fault, List, Hydrate, Deliver, Find, Upsert, Remove, RecordItem,
           Emit, RecordFailedItem, EndWalk, PutCursor, CompleteRun, ItemFails, Abort,
           PutFails, Crash, Write, history
  <2>4. stale \subseteq stale'
    BY DEF Begin, Proceed, Fault, List, Hydrate, Deliver, Find, Upsert, Remove, RecordItem,
           Emit, RecordFailedItem, EndWalk, PutCursor, CompleteRun, ItemFails, Abort,
           PutFails, Crash, Write, history
  <2>5. Id(p) \in Records /\ p \in Nat
    BY FeedEntries DEF Structure
  <2> QED
    BY <2>1, <2>2, <2>3, <2>4, <2>5 DEF Id
<1>1. CASE Reported(p)
  BY <1>0, <1>1 DEF Accounted, Reported
<1>2. CASE Id(p) \in stale
  BY <1>0, <1>2 DEF Accounted
<1>3. CASE Applied(p)
  <2>1. /\ local[Id(p)] >= p
        /\ local \in [Records -> 0 .. Len(feed)] /\ Len(feed) \in Nat
    BY <1>3, FeedEntries DEF Applied, Structure, StoreInv
  <2>2. CASE local'[Id(p)] >= local[Id(p)]
    <3>1. local'[Id(p)] >= p
      <4>1. local' \in [Records -> 0 .. Len(feed)]
        BY <1>0, StoreHolds DEF StoreInv
      <4> QED
        BY <1>0, <2>1, <2>2, <4>1
    <3> QED
      BY <1>0, <3>1 DEF Accounted, Applied
  <2>3. CASE Upsert(s) \/ Remove(s)
    <3>1. /\ change[s].ver \in Nat
          /\ Id(change[s].pos) \in Records
      BY <2>3, InHandIsVersion DEF Upsert, Remove, InHand, Walking, Version
    <3>2. CASE Id(p) # Id(change[s].pos)
      <4>1. local'[Id(p)] = local[Id(p)]
        BY <1>0, <2>1, <2>3, <3>2 DEF Upsert, Remove, Write
      <4> QED
        BY <1>0, <2>1, <2>2, <4>1
    <3>3. CASE Id(p) = Id(change[s].pos)
      <4>1. CASE local[Id(p)] > change[s].ver
        <5>1. Id(p) \in stale' \/ local'[Id(p)] = local[Id(p)]
          BY <1>0, <2>1, <2>3, <3>1, <3>3, <4>1 DEF Upsert, Remove, Write
        <5> QED
          BY <1>0, <2>1, <2>2, <5>1 DEF Accounted
      <4>2. CASE local[Id(p)] <= change[s].ver
        <5>1. local'[Id(p)] >= local[Id(p)]
          BY <1>0, <2>1, <2>3, <3>1, <3>3, <4>2 DEF Upsert, Remove, Write
        <5> QED
          BY <2>2, <5>1
      <4> QED
        BY <1>0, <2>1, <3>1, <4>1, <4>2
    <3> QED
      BY <3>2, <3>3
  <2>4. CASE ~ (Upsert(s) \/ Remove(s))
    <3>1. local' = local
      BY <2>4 DEF Begin, Proceed, Fault, List, Hydrate, Deliver, Find, RecordItem,
           Emit, RecordFailedItem, EndWalk, PutCursor, CompleteRun, ItemFails, Abort,
           PutFails, Crash
    <3> QED
      BY <1>0, <2>1, <2>2, <3>1
  <2> QED
    BY <2>3, <2>4
<1> QED
  BY <1>1, <1>2, <1>3 DEF Accounted
\* The change in hand is dealt with, or stays in hand, unless the process dies.
LEMMA HandledOrDone ==
  ASSUME Structure, NEW s \in Syncs, Begin(s) \/ Proceed(s) \/ Fault(s), ~ Crash(s),
         NEW p \in 1 .. Len(feed), Handles(s, p)
  PROVE  Accounted(p)' \/ Handles(s, p)'
<1>0. /\ pc[s] \in {"find", "upsert", "remove", "caught"} /\ change[s].pos = p
      /\ s \in Syncs /\ pc \in [Syncs -> Pcs] /\ change \in [Syncs -> Change \cup {NoChange}]
  BY DEF Handles, Structure, RunTypes
<1>1. /\ Version(change[s]) /\ change[s].ver \in Nat /\ p \in Nat /\ p <= change[s].ver
      /\ Id(change[s].ver) = Id(p) /\ Id(p) \in Records /\ Id(change[s].pos) = Id(p)
      /\ local \in [Records -> 0 .. Len(feed)] /\ Len(feed) \in Nat
  BY <1>0, InHandIsVersion DEF InHand, Walking, Version, Structure, StoreInv
<1>2. /\ feed' = feed /\ \A q : Id(q)' = Id(q)
  BY ProceedFrame, FaultFrame DEF Structure, source, Id
<1>3. CASE Find(s)
  <2>1. CASE IsNoop(s)
    <3>1. local'[Id(p)] >= p
      BY <1>1, <1>3, <2>1 DEF IsNoop, Find
    <3> QED
      BY <1>2, <3>1 DEF Accounted, Applied
  <2>2. CASE ~ IsNoop(s)
    <3>1. pc'[s] = "upsert" /\ change'[s] = change[s]
      BY <1>0, <1>3, <2>2 DEF Find, Goto, runVars
    <3> QED
      BY <1>0, <3>1 DEF Handles
  <2> QED
    BY <2>1, <2>2
<1>4. CASE Upsert(s) \/ Remove(s)
  <2>1. local'[Id(p)] >= change[s].ver
    BY <1>1, <1>4 DEF Upsert, Remove, Write
  <2>2. local'[Id(p)] \in Nat
    BY <1>1, <1>4, StoreHolds, <1>2 DEF StoreInv
  <2>3. local'[Id(p)] >= p
    BY <1>1, <2>1, <2>2
  <2> QED
    BY <1>2, <2>3 DEF Accounted, Applied
<1>5. CASE RecordFailedItem(s) \/ (Abort(s) /\ pc[s] = "caught")
  <2>1. change[s].ver \in failures' \cup lost'
    BY <1>5 DEF RecordFailedItem, Abort
  <2>2. Reported(p)'
    BY <1>1, <1>2, <2>1 DEF Reported
  <2> QED
    BY <2>2 DEF Accounted
<1>6. CASE ItemFails(s)
  <2>1. pc'[s] = "caught" /\ change'[s] = change[s]
    BY <1>0, <1>6 DEF ItemFails, Goto, runVars
  <2> QED
    BY <1>0, <2>1 DEF Handles
<1>7. Find(s) \/ Upsert(s) \/ Remove(s) \/ RecordFailedItem(s) \/ (Abort(s) /\ pc[s] = "caught") \/ ItemFails(s)
  BY <1>0 DEF Begin, Proceed, Fault, List, Hydrate, Deliver, RecordItem, Emit, EndWalk,
              PutCursor, CompleteRun, PutFails, Abort
<1> QED
  BY <1>3, <1>4, <1>5, <1>6, <1>7

LEMMA LatestHolds ==
  ASSUME Structure, NEW s \in Syncs, Begin(s) \/ Proceed(s) \/ Fault(s), AccountInv
  PROVE  LatestInv(s)'
<1> USE DEF Structure, RunTypes, Goto
<1>0. /\ Len(feed) \in Nat /\ feed' = feed /\ newest' = newest /\ \A q : Id(q)' = Id(q)
      /\ Withheld' = Withheld /\ \A q : Wanted(q)' <=> Wanted(q)
      /\ Withheld = MaxChanges + 1 /\ MaxChanges \in Nat /\ Len(feed) <= MaxChanges
      /\ cursor \in 0 .. Len(feed) /\ token[s] \in Nat /\ token[s] <= Len(feed)
  <2>1. UNCHANGED source
    BY ProceedFrame, FaultFrame
  <2> QED
    BY <2>1, FeedEntries, IntegrationAssumption
       DEF source, Id, Wanted, Current, Withheld, FeedInv, StoreInv, RunInv
<1>a. latest'[s] \in Nat /\ (latest'[s] = Withheld \/ latest'[s] <= Len(feed))
  BY <1>0, RunTypesHold, RunHolds DEF RunInv
<1> SUFFICES ASSUME latest'[s] # Withheld, NEW p \in 1 .. latest'[s], Wanted(p)
             PROVE  Accounted(p)' \/ Handles(s, p)'
  BY <1>0 DEF LatestInv
<1>b. p \in 1 .. Len(feed)
  BY <1>0, <1>a
<1>1. CASE Begin(s)
  <2>1. latest'[s] = cursor
    BY <1>1 DEF Begin
  <2>2. Accounted(p)
    BY <2>1 DEF AccountInv, CursorInv
  <2> QED
    BY <1>b, <2>2, AccountedStays
<1>2. CASE CompleteRun(s) \/ Crash(s)
  BY <1>2 DEF CompleteRun, Crash, Reset
<1>3. CASE Deliver(s)
  <2>1. PICK c \in page[s] :
          /\ \A d \in page[s] : c.pos <= d.pos
          /\ change'[s] = c /\ latest'[s] = CursorOf(s, c) /\ pc'[s] \in {"remove", "find"}
    BY <1>3 DEF Deliver
  <2>2. pc[s] = "walk" /\ c.pos \in Nat /\ c.pos <= token[s]
    BY <1>3, <2>1 DEF Deliver, RunInv, Version
  <2>3. \/ Accounted(p) \/ p \in refs[s] \/ \E d \in page[s] : d.pos = p
    <3>1. p \in 1 .. token[s]
      BY <1>0, <2>1, <2>2 DEF CursorOf
    <3> QED
      BY <2>2, <3>1 DEF AccountInv, WalkInv, Walking, Handles
  <2>4. CASE Accounted(p)
    BY <1>b, <2>4, AccountedStays
  <2>5. CASE p \in refs[s]
    <3>1. c.pos < p
      BY <2>1, <2>5 DEF RunInv
    <3> QED
      BY <1>0, <2>1, <2>2, <2>5, <3>1 DEF CursorOf
  <2>6. CASE \E d \in page[s] : d.pos = p
    <3>1. c.pos = p
      BY <1>0, <1>b, <2>1, <2>2, <2>6 DEF CursorOf
    <3> QED
      BY <2>1, <3>1 DEF Handles
  <2> QED
    BY <2>3, <2>4, <2>5, <2>6
<1>4. CASE ~ (Begin(s) \/ CompleteRun(s) \/ Crash(s) \/ Deliver(s))
  <2>1. latest'[s] = latest[s]
    BY <1>4 DEF Proceed, Fault, List, Hydrate, Find, Upsert, Remove, RecordItem,
           Emit, RecordFailedItem, EndWalk, PutCursor, ItemFails, Abort, PutFails,
           Write, NextItem, runVars
  <2>2. Accounted(p) \/ Handles(s, p)
    BY <2>1 DEF AccountInv, LatestInv
  <2> QED
    BY <1>4, <1>b, <2>2, AccountedStays, HandledOrDone
<1> QED
  BY <1>1, <1>2, <1>3, <1>4

LEMMA WalkHolds ==
  ASSUME Structure, NEW s \in Syncs, Begin(s) \/ Proceed(s) \/ Fault(s), AccountInv
  PROVE  WalkInv(s)'
<1> USE DEF Structure, RunTypes, Goto
<1>0. /\ Len(feed) \in Nat /\ feed' = feed /\ newest' = newest /\ \A q : Id(q)' = Id(q)
      /\ \A q : Wanted(q)' <=> Wanted(q)
      /\ Withheld = MaxChanges + 1 /\ MaxChanges \in Nat /\ Len(feed) <= MaxChanges
      /\ token[s] \in Nat /\ token[s] <= Len(feed) /\ latest[s] \in Nat
  <2>1. UNCHANGED source
    BY ProceedFrame, FaultFrame
  <2> QED
    BY <2>1, FeedEntries, IntegrationAssumption
       DEF source, Id, Wanted, Current, Withheld, FeedInv, RunInv
<1> SUFFICES ASSUME pc'[s] \in Walking, NEW p \in 1 .. token'[s], Wanted(p)
             PROVE  \/ Accounted(p)' \/ Handles(s, p)'
                    \/ p \in refs'[s] \/ \E c \in page'[s] : c.pos = p
  BY <1>0 DEF WalkInv
<1>a. token'[s] \in Nat /\ token'[s] <= Len(feed)
  BY <1>0, RunTypesHold, RunHolds DEF RunInv
<1>b. p \in 1 .. Len(feed)
  BY <1>0, <1>a
<1>1. CASE List(s)
  <2>1. CASE p <= latest[s]
    <3>1. latest[s] # Withheld
      BY <1>0, <1>1 DEF List, RunInv
    <3>2. Accounted(p)
      <4>1. p \in 1 .. latest[s]
        BY <1>0, <1>b, <2>1
      <4>2. Accounted(p) \/ Handles(s, p)
        BY <3>1, <4>1 DEF AccountInv, LatestInv
      <4>3. ~ Handles(s, p)
        BY <1>1 DEF List, Handles
      <4> QED
        BY <4>2, <4>3
    <3> QED
      BY <1>b, <3>2, AccountedStays
  <2>2. CASE p > latest[s]
    <3>1. p \in latest[s] + 1 .. Len(feed) /\ Current(p) = p
      BY <1>0, <1>b, <2>2 DEF Wanted, Current
    <3> QED
      BY <1>1, <3>1 DEF List
  <2> QED
    BY <1>0, <1>b, <2>1, <2>2
<1>2. CASE ~ List(s)
  <2>1. pc[s] \in Walking /\ token'[s] = token[s] /\ ~ Crash(s) /\ ~ Begin(s)
    BY <1>2 DEF Begin, Proceed, Fault, Hydrate, Deliver, Find, Upsert, Remove, RecordItem,
           Emit, RecordFailedItem, EndWalk, PutCursor, CompleteRun, ItemFails, Abort,
           PutFails, Crash, Write, NextItem, Reset, runVars, Walking
  <2>2. \/ Accounted(p) \/ Handles(s, p)
        \/ p \in refs[s] \/ \E c \in page[s] : c.pos = p
    BY <2>1 DEF AccountInv, WalkInv
  <2>3. CASE Accounted(p) \/ Handles(s, p)
    BY <1>b, <2>1, <2>3, AccountedStays, HandledOrDone
  <2>4. CASE Hydrate(s) /\ (p \in refs[s] \/ \E c \in page[s] : c.pos = p)
    <3>1. PICK P \in NextPage(s) :
            /\ page'[s] = page[s] \cup Survivors(P)
            /\ refs'[s] = refs[s] \ P
      BY <2>4 DEF Hydrate
    <3>2. CASE p \in P
      BY <3>1, <3>2, SurvivorsOf
    <3>3. CASE p \notin P
      BY <2>4, <3>1, <3>3
    <3> QED
      BY <3>2, <3>3
  <2>5. CASE Deliver(s) /\ (p \in refs[s] \/ \E c \in page[s] : c.pos = p)
    <3>1. PICK d \in page[s] :
            /\ page'[s] = page[s] \ {d} /\ change'[s] = d /\ pc'[s] \in {"remove", "find"}
      BY <2>5 DEF Deliver
    <3>2. refs'[s] = refs[s]
      BY <2>5 DEF Deliver
    <3>3. CASE d.pos = p
      BY <3>1, <3>3 DEF Handles
    <3>4. CASE d.pos # p
      BY <2>5, <3>1, <3>2, <3>4
    <3> QED
      BY <3>3, <3>4
  <2>6. CASE ~ Hydrate(s) /\ ~ Deliver(s) /\ (p \in refs[s] \/ \E c \in page[s] : c.pos = p)
    <3>1. page'[s] = page[s] /\ refs'[s] = refs[s]
      BY <1>2, <2>1, <2>6 DEF Proceed, Fault, Find, Upsert, Remove, RecordItem,
           Emit, RecordFailedItem, EndWalk, PutCursor, CompleteRun, ItemFails, Abort,
           PutFails, Write, NextItem, runVars, Walking
    <3> QED
      BY <2>6, <3>1
  <2> QED
    BY <2>2, <2>3, <2>4, <2>5, <2>6
<1> QED
  BY <1>1, <1>2
\* The vendor's changes leave what became of earlier ones as it is.
LEMMA VendorKeepsAccount ==
  ASSUME Structure, AccountInv, NEW r \in Records, NEW gone \in BOOLEAN, NEW kept \in BOOLEAN,
         VendorChanges(r, gone, kept)
  PROVE  AccountInv'
<1>0. /\ Len(feed) \in Nat /\ Len(feed') = Len(feed) + 1
      /\ \A p \in 1 .. Len(feed) : Id(p)' = Id(p) /\ Id(p) \in Records
      /\ \A q \in Records : newest'[q] = newest[q] \/ newest'[q] = Len(feed) + 1
  BY FeedEntries, FeedGrows DEF Structure
<1>1. UNCHANGED <<cursor, local, events, pc, runVars, history, faults>>
  BY DEF VendorChanges
<1>2. /\ failures \subseteq 1 .. Len(feed) /\ lost \subseteq 1 .. Len(feed)
      /\ cursor \in 0 .. Len(feed)
  BY DEF Structure, StoreInv
<1>3. ASSUME NEW p \in 1 .. Len(feed), Wanted(p)'
      PROVE  Wanted(p)
  BY <1>3, VendorWants DEF Structure
<1>4. ASSUME NEW p \in 1 .. Len(feed), Accounted(p)
      PROVE  Accounted(p)'
  <2>1. local' = local /\ stale' = stale /\ failures' = failures /\ lost' = lost
    BY <1>1 DEF history
  <2>2. Applied(p) => Applied(p)'
    BY <1>0, <2>1 DEF Applied
  <2>3. Reported(p) => Reported(p)'
    <3>1. ASSUME NEW q \in failures \cup lost, q >= p, Id(q) = Id(p)
          PROVE  Reported(p)'
      <4>1. Id(q)' = Id(p)'
        BY <1>0, <1>2, <3>1
      <4> QED
        BY <2>1, <3>1, <4>1 DEF Reported
    <3> QED
      BY <3>1 DEF Reported
  <2> QED
    BY <1>0, <1>4, <2>1, <2>2, <2>3 DEF Accounted
<1>5. CursorInv'
  <2> SUFFICES ASSUME NEW p \in 1 .. cursor, Wanted(p)' PROVE Accounted(p)'
    BY <1>1 DEF CursorInv
  <2>1. p \in 1 .. Len(feed)
    BY <1>0, <1>2
  <2> QED
    BY <1>3, <1>4, <2>1 DEF AccountInv, CursorInv
<1>6. ASSUME NEW s \in Syncs
      PROVE  LatestInv(s)' /\ WalkInv(s)'
  <2>0. /\ latest' = latest /\ pc' = pc /\ change' = change /\ refs' = refs /\ page' = page
        /\ token' = token /\ Withheld' = Withheld
        /\ \A p : Handles(s, p)' <=> Handles(s, p)
    BY <1>1 DEF runVars, Handles, Withheld
  <2>1. /\ latest[s] = Withheld \/ latest[s] <= Len(feed)
        /\ latest[s] \in Nat /\ token[s] \in Nat /\ token[s] <= Len(feed)
    BY IntegrationAssumption DEF Structure, RunInv, RunTypes, Withheld
  <2>2. LatestInv(s)'
    <3> SUFFICES ASSUME latest[s] # Withheld, NEW p \in 1 .. latest[s], Wanted(p)'
                 PROVE  Accounted(p)' \/ Handles(s, p)
      BY <2>0 DEF LatestInv
    <3>1. p \in 1 .. Len(feed)
      BY <1>0, <2>1
    <3> QED
      BY <1>3, <1>4, <3>1 DEF AccountInv, LatestInv
  <2>3. WalkInv(s)'
    <3> SUFFICES ASSUME pc[s] \in Walking, NEW p \in 1 .. token[s], Wanted(p)'
                 PROVE  \/ Accounted(p)' \/ Handles(s, p)
                        \/ p \in refs[s] \/ \E c \in page[s] : c.pos = p
      BY <2>0 DEF WalkInv
    <3>1. p \in 1 .. Len(feed)
      BY <1>0, <2>1
    <3> QED
      BY <1>3, <1>4, <3>1 DEF AccountInv, WalkInv
  <2> QED
    BY <2>2, <2>3
<1> QED
  BY <1>5, <1>6 DEF AccountInv

LEMMA OtherKeepsAccount ==
  ASSUME Structure, AccountInv, NEW s \in Syncs, Begin(s) \/ Proceed(s) \/ Fault(s),
         NEW t \in Syncs \ {s}
  PROVE  LatestInv(t)' /\ WalkInv(t)'
<1>1. Others(s) /\ UNCHANGED source
  BY ProceedFrame, FaultFrame DEF Structure
<1>2. /\ latest'[t] = latest[t] /\ pc'[t] = pc[t] /\ change'[t] = change[t]
      /\ refs'[t] = refs[t] /\ page'[t] = page[t] /\ token'[t] = token[t]
      /\ Withheld' = Withheld
      /\ \A p : Handles(t, p)' <=> Handles(t, p)
      /\ \A p : Wanted(p)' <=> Wanted(p)
  BY <1>1 DEF Others, Handles, Withheld, source, Wanted, Current, Id
<1>3. /\ latest[t] = Withheld \/ latest[t] <= Len(feed)
      /\ latest[t] \in Nat /\ token[t] \in Nat /\ token[t] <= Len(feed) /\ Len(feed) \in Nat
  BY IntegrationAssumption, FeedEntries DEF Structure, RunInv, RunTypes, Withheld
<1>4. LatestInv(t)'
  <2> SUFFICES ASSUME latest[t] # Withheld, NEW p \in 1 .. latest[t], Wanted(p)
               PROVE  Accounted(p)' \/ Handles(t, p)
    BY <1>2 DEF LatestInv
  <2>1. p \in 1 .. Len(feed)
    BY <1>3
  <2> QED
    BY <2>1, AccountedStays DEF AccountInv, LatestInv
<1>5. WalkInv(t)'
  <2> SUFFICES ASSUME pc[t] \in Walking, NEW p \in 1 .. token[t], Wanted(p)
               PROVE  \/ Accounted(p)' \/ Handles(t, p)
                      \/ p \in refs[t] \/ \E c \in page[t] : c.pos = p
    BY <1>2 DEF WalkInv
  <2>1. p \in 1 .. Len(feed)
    BY <1>3
  <2> QED
    BY <2>1, AccountedStays DEF AccountInv, WalkInv
<1> QED
  BY <1>4, <1>5

LEMMA CursorHolds ==
  ASSUME Structure, AccountInv, NEW s \in Syncs, Begin(s) \/ Proceed(s) \/ Fault(s)
  PROVE  CursorInv'
<1>1. /\ \A p : Wanted(p)' <=> Wanted(p)
      /\ Len(feed) \in Nat /\ cursor \in 0 .. Len(feed)
  BY ProceedFrame, FaultFrame, FeedEntries DEF Structure, StoreInv, source, Wanted, Current, Id
<1>2. \/ cursor' = cursor
      \/ /\ PutCursor(s) /\ cursor' = latest[s] /\ latest[s] # Withheld /\ pc[s] = "put"
         /\ latest[s] <= Len(feed) /\ latest[s] \in Nat
  <2>1. CASE PutCursor(s)
    BY <2>1 DEF PutCursor, Structure, RunInv, RunTypes
  <2>2. CASE ~ PutCursor(s)
    BY <2>2 DEF Begin, Proceed, Fault, List, Hydrate, Deliver, Find, Upsert, Remove, RecordItem,
           Emit, RecordFailedItem, EndWalk, CompleteRun, ItemFails, Abort,
           PutFails, Crash
  <2> QED
    BY <2>1, <2>2
<1> SUFFICES ASSUME NEW p \in 1 .. cursor', Wanted(p) PROVE Accounted(p)'
  BY <1>1 DEF CursorInv
<1>3. p \in 1 .. Len(feed)
  BY <1>1, <1>2
<1>4. Accounted(p)
  BY <1>2 DEF AccountInv, CursorInv, LatestInv, Handles
<1> QED
  BY <1>3, <1>4, AccountedStays

LEMMA AccountStep ==
  ASSUME Structure, AccountInv, [Next]_vars
  PROVE  AccountInv'
<1>1. ASSUME NEW s \in Syncs, Begin(s) \/ Proceed(s) \/ Fault(s)
      PROVE  AccountInv'
  <2>1. \A t \in Syncs \ {s} : LatestInv(t)' /\ WalkInv(t)'
    BY <1>1, OtherKeepsAccount
  <2>2. LatestInv(s)' /\ WalkInv(s)' /\ CursorInv'
    BY <1>1, LatestHolds, WalkHolds, CursorHolds
  <2> QED
    BY <2>1, <2>2 DEF AccountInv
<1>2. ASSUME NEW r \in Records, NEW gone \in BOOLEAN, NEW kept \in BOOLEAN,
         VendorChanges(r, gone, kept)
      PROVE  AccountInv'
  BY <1>2, VendorKeepsAccount
<1>3. CASE UNCHANGED vars
  BY <1>3 DEF vars, AccountInv, CursorInv, LatestInv, WalkInv, Accounted, Applied, Reported,
              Handles, Wanted, Current, Id, Withheld
<1> QED
  BY <1>1, <1>2, <1>3 DEF Next

LEMMA AccountInit ==
  ASSUME Init
  PROVE  AccountInv
BY DEF Init, AccountInv, CursorInv, LatestInv, WalkInv, Walking

\* Every change behind the stored cursor whose record has not changed since is
\* applied, or reported as failed, or overwritten by an overlapping run: the next
\* run may start from the cursor, whatever failed or crashed before.
THEOREM CursorIsSafe == Spec => []BehindCursorAccounted
<1>1. Init => Structure /\ AccountInv
  BY StructureInit, AccountInit
<1>2. Structure /\ AccountInv /\ [Next]_vars => Structure' /\ AccountInv'
  BY StructureStep, AccountStep
<1>3. AccountInv => BehindCursorAccounted
  BY DEF AccountInv, CursorInv, BehindCursorAccounted, Accounted
<1> QED
  BY <1>1, <1>2, <1>3, PTL DEF Spec
-----------------------------------------------------------------------------
(* How a walk ends *)

LEMMA EndHolds ==
  ASSUME Structure, NEW s \in Syncs, Begin(s) \/ Proceed(s) \/ Fault(s), EndInv(s)
  PROVE  EndInv(s)'
<1> USE DEF Structure, RunTypes, Goto
<1>0. /\ Len(feed) \in Nat /\ token[s] \in Nat /\ token[s] <= Len(feed) /\ latest[s] \in Nat
      /\ s \in Syncs /\ Len(feed) < Withheld /\ Withheld \in Nat
      /\ \A c \in page[s] : c.pos \in Nat /\ c.pos <= token[s]
      /\ \A q \in refs[s] : q \in Nat /\ q <= token[s]
      /\ \A c \in page[s] : \A q \in refs[s] : c.pos < q
      /\ \A c, d \in page[s] : c.pos = d.pos => c = d
  BY IntegrationAssumption, FeedEntries DEF RunInv, Withheld, Version, Positions, FeedInv
<1>a. /\ UNCHANGED source /\ Withheld' = Withheld /\ divisible' = divisible
      /\ \A p : Wanted(p)' <=> Wanted(p)
  <2>1. UNCHANGED source
    BY ProceedFrame, FaultFrame
  <2> QED
    BY <2>1 DEF source, Withheld, Wanted, Current, Id
<1>1. CASE List(s)
  <2>1. /\ pc'[s] = "walk" /\ token'[s] = Len(feed) /\ latest'[s] = latest[s]
        /\ found'[s] = found[s] /\ page'[s] = {} /\ latest[s] <= Len(feed)
        /\ refs'[s] = {Current(p) : p \in latest[s] + 1 .. Len(feed)}
    BY <1>1 DEF List, RunInv, Walking
  <2>2. ~ found[s]
    BY <1>1 DEF List, EndInv
  <2>3. ASSUME NEW p \in InDoubt(s)' PROVE p \in refs'[s]
    <3>1. p \in latest[s] + 1 .. Len(feed) /\ Current(p) = p
      BY <1>0, <1>a, <2>1 DEF InDoubt, Wanted
    <3> QED
      BY <2>1, <3>1
  <2>4. \A q \in refs'[s] : latest[s] < q
    <3> TAKE q \in refs'[s]
    <3>1. PICK p \in latest[s] + 1 .. Len(feed) : q = Current(p)
      BY <2>1
    <3>2. p \in 1 .. Len(feed) /\ latest[s] < p
      BY <1>0, <3>1
    <3>3. p <= q /\ q \in Nat
      BY <1>0, <3>1, <3>2, CurrentIsVersion
    <3> QED
      BY <1>0, <3>2, <3>3
  <2> QED
    BY <1>0, <1>a, <2>1, <2>2, <2>3, <2>4 DEF EndInv
<1>2. CASE Hydrate(s)
  <2>1. PICK P \in NextPage(s) :
          /\ page'[s] = page[s] \cup Survivors(P)
          /\ refs'[s] = refs[s] \ P
    BY <1>2 DEF Hydrate
  <2>2. /\ pc[s] = "walk" /\ pc'[s] = "walk" /\ token'[s] = token[s] /\ refs[s] # {}
        /\ latest'[s] = latest[s] /\ found'[s] = found[s]
    BY <1>2 DEF Hydrate
  <2>3. InDoubt(s)' = InDoubt(s)
    BY <1>a, <2>2 DEF InDoubt
  <2>4. CASE divisible \/ ~ found[s]
    <3>1. /\ latest[s] # Withheld
          /\ \A q \in refs[s] : latest[s] < q
          /\ \A c \in page[s] : latest[s] < c.pos
          /\ \A p \in InDoubt(s) : p \in refs[s] \/ \E c \in page[s] : c.pos = p
      BY <2>2, <2>4 DEF EndInv, Walking
    <3>2. ASSUME NEW p \in InDoubt(s)
          PROVE  p \in refs'[s] \/ \E c \in page'[s] : c.pos = p
      <4>1. Wanted(p)
        BY DEF InDoubt
      <4> QED
        BY <2>1, <3>1, <4>1, SurvivorsOf
    <3>3. \A c \in Survivors(P) : latest[s] < c.pos
      BY <2>1, <3>1, SurvivorsOf DEF NextPage
    <3> QED
      BY <1>a, <2>1, <2>2, <2>3, <2>4, <3>1, <3>2, <3>3 DEF EndInv
  <2>5. CASE ~ (divisible \/ ~ found[s])
    <3>1. page[s] # {}
      BY <2>2, <2>5 DEF EndInv, Walking
    <3>2. page'[s] # {}
      BY <2>1, <3>1
    <3> QED
      BY <1>a, <2>2, <2>5, <3>2 DEF EndInv
  <2> QED
    BY <2>4, <2>5
<1>3. CASE Deliver(s)
  <2>1. PICK c \in page[s] :
          /\ \A d \in page[s] : c.pos <= d.pos
          /\ page'[s] = page[s] \ {c} /\ latest'[s] = CursorOf(s, c)
          /\ pc'[s] \in {"remove", "find"}
    BY <1>3 DEF Deliver
  <2>2. /\ refs'[s] = refs[s] /\ token'[s] = token[s] /\ pc[s] = "walk" /\ found'[s]
        /\ refs[s] = {} \/ Cardinality(page[s]) > Lookahead
    BY <1>3 DEF Deliver
  <2>3. CASE divisible
    <3>0. /\ \A d \in page[s] : latest[s] < d.pos
          /\ \A p \in InDoubt(s) : p \in refs[s] \/ \E d \in page[s] : d.pos = p
      BY <2>2, <2>3 DEF EndInv, Walking
    <3>1. latest'[s] = c.pos /\ c.pos # Withheld
      BY <1>0, <2>1, <2>3 DEF CursorOf
    <3>2. ASSUME NEW p \in InDoubt(s)'
          PROVE  p \in refs'[s] \/ \E d \in page'[s] : d.pos = p
      <4>1. p \in 1 .. token[s] /\ c.pos < p /\ Wanted(p)
        BY <1>a, <2>2, <3>1 DEF InDoubt
      <4>2. latest[s] < p
        BY <1>0, <2>1, <3>0, <4>1
      <4>3. p \in refs[s] \/ \E d \in page[s] : d.pos = p
        BY <3>0, <4>1, <4>2 DEF InDoubt
      <4>4. \A d \in page[s] : d.pos = p => d # c
        BY <1>0, <4>1
      <4> QED
        BY <2>1, <2>2, <4>3, <4>4
    <3>3. (\A q \in refs'[s] : c.pos < q) /\ \A d \in page'[s] : c.pos < d.pos
      BY <1>0, <2>1, <2>2
    <3> QED
      BY <1>a, <2>1, <2>3, <3>1, <3>2, <3>3 DEF EndInv, Walking
  <2>4. CASE ~ divisible
    <3>1. ASSUME page'[s] = {} PROVE refs'[s] = {} /\ latest'[s] = token'[s]
      <4>1. page[s] = {c}
        BY <2>1, <3>1
      <4>2. Cardinality(page[s]) = 1 /\ Lookahead = 1
        BY <2>4, <4>1, FS_Singleton DEF Lookahead
      <4>3. refs[s] = {}
        BY <2>2, <4>2
      <4> QED
        BY <2>1, <2>2, <2>4, <4>1, <4>3 DEF CursorOf
    <3> QED
      BY <1>a, <2>1, <2>2, <2>4, <3>1 DEF EndInv
  <2> QED
    BY <2>3, <2>4
<1>4. CASE EndWalk(s)
  <2>1. /\ latest'[s] = latest[s] /\ token'[s] = token[s] /\ found'[s] = found[s]
        /\ pc'[s] = "put" /\ pc[s] = "walk" /\ refs[s] = {} /\ page[s] = {}
    BY <1>4 DEF EndWalk
  <2>2. InDoubt(s)' = InDoubt(s)
    BY <1>a, <2>1 DEF InDoubt
  <2> QED
    BY <1>a, <2>1, <2>2 DEF EndInv, Walking
<1>5. CASE Begin(s) \/ Abort(s) \/ PutCursor(s) \/ PutFails(s) \/ CompleteRun(s) \/ Crash(s)
  <2>1. \/ pc'[s] \notin Walking \cup {"put"} /\ (pc'[s] = "list" => ~ found'[s])
        \/ pc'[s] = "put" /\ outcome'[s] = "failed"
    BY <1>5 DEF Begin, Abort, PutCursor, PutFails, CompleteRun, Crash, Walking
  <2> QED
    BY <2>1 DEF EndInv, Walking
<1>6. CASE Find(s) \/ Upsert(s) \/ Remove(s) \/ RecordItem(s) \/ Emit(s, TRUE) \/ Emit(s, FALSE)
           \/ RecordFailedItem(s) \/ ItemFails(s)
  <2>1. /\ pc[s] \in Walking /\ pc'[s] \in Walking
        /\ refs'[s] = refs[s] /\ page'[s] = page[s] /\ token'[s] = token[s]
        /\ latest'[s] = latest[s] /\ found'[s] = found[s]
    BY <1>6 DEF Find, Upsert, Remove, RecordItem, Emit, RecordFailedItem, ItemFails, NextItem,
                Write, Walking, runVars
  <2>2. InDoubt(s)' = InDoubt(s)
    BY <1>a, <2>1 DEF InDoubt
  <2> QED
    BY <1>a, <2>1, <2>2 DEF EndInv, Walking
<1> QED
  BY <1>1, <1>2, <1>3, <1>4, <1>5, <1>6 DEF Proceed, Fault

LEMMA EndStep ==
  ASSUME Structure, \A s \in Syncs : EndInv(s), [Next]_vars
  PROVE  \A s \in Syncs : EndInv(s)'
<1>1. ASSUME NEW s \in Syncs, Begin(s) \/ Proceed(s) \/ Fault(s), NEW t \in Syncs
      PROVE  EndInv(t)'
  <2>1. CASE t = s
    BY <1>1, <2>1, EndHolds
  <2>2. CASE t # s
    <3>1. Others(s) /\ UNCHANGED source
      BY <1>1, ProceedFrame, FaultFrame DEF Structure
    <3>2. InDoubt(t)' = InDoubt(t)
      BY <2>2, <3>1 DEF Others, source, InDoubt, Wanted, Current, Id
    <3> QED
      BY <2>2, <3>1, <3>2 DEF Others, source, EndInv, Withheld
  <2> QED
    BY <2>1, <2>2
<1>2. ASSUME NEW r \in Records, NEW gone \in BOOLEAN, NEW kept \in BOOLEAN,
             VendorChanges(r, gone, kept), NEW t \in Syncs
      PROVE  EndInv(t)'
  <2>1. UNCHANGED <<divisible, pc, runVars>>
    BY <1>2 DEF VendorChanges
  <2>2. token[t] \in Nat /\ token[t] <= Len(feed) /\ Len(feed) \in Nat
    BY FeedEntries DEF Structure, RunTypes, RunInv
  <2>3. InDoubt(t)' \subseteq InDoubt(t)
    <3> SUFFICES ASSUME NEW p \in InDoubt(t)' PROVE p \in InDoubt(t)
      OBVIOUS
    <3>1. p \in 1 .. token[t] /\ latest[t] < p /\ Wanted(p)'
      BY <2>1 DEF InDoubt, runVars
    <3>2. p \in 1 .. Len(feed)
      BY <2>2, <3>1
    <3>3. Wanted(p)
      BY <1>2, <3>1, <3>2, VendorWants DEF Structure
    <3> QED
      BY <3>1, <3>3 DEF InDoubt
  <2> QED
    BY <2>1, <2>3 DEF EndInv, runVars, Withheld
<1>3. CASE UNCHANGED vars
  BY <1>3 DEF vars, EndInv, InDoubt, Wanted, Current, Id, Withheld
<1> QED
  BY <1>1, <1>2, <1>3 DEF Next

-----------------------------------------------------------------------------
(* Runs that do not overlap *)

\* A run that is not under way has nothing in hand.
LEMMA IdleIsQuiet ==
  ASSUME Structure', NEW t \in Syncs, pc'[t] = "idle"
  PROVE  Forward(t)' /\ SuccessInv(t)' /\ OrderInv(t)'
<1>1. refs'[t] = {} /\ page'[t] = {} /\ ~ written'[t]
  BY DEF Structure, RunInv, Walking
<1> QED
  BY <1>1 DEF Forward, SuccessInv, OrderInv, Walking

LEMMA ForwardHolds ==
  ASSUME Structure, NEW s \in Syncs, Begin(s) \/ Proceed(s) \/ Fault(s), Forward(s),
         ~ CompleteRun(s), ~ Crash(s)
  PROVE  Forward(s)'
<1> USE DEF Structure, RunTypes, Goto
<1>0. /\ Len(feed) \in Nat /\ token[s] \in Nat /\ token[s] <= Len(feed) /\ latest[s] \in Nat
      /\ cursor \in Nat /\ cursor <= Len(feed) /\ Withheld \in Nat /\ Len(feed) <= Withheld
      /\ \A c \in page[s] : c.pos \in Nat
      /\ \A q \in refs[s] : q \in Nat
  BY IntegrationAssumption, FeedEntries
     DEF RunInv, Withheld, Version, Positions, FeedInv, StoreInv
<1>1. CASE Begin(s)
  <2>1. /\ refs'[s] = {} /\ page'[s] = {} /\ latest'[s] = cursor /\ pc'[s] = "list"
        /\ cursor' = cursor
    BY <1>1 DEF Begin, RunInv, Walking
  <2> QED
    BY <1>0, <2>1 DEF Forward, Walking
<1>2. CASE List(s)
  <2>1. /\ pc'[s] = "walk" /\ token'[s] = Len(feed) /\ latest'[s] = latest[s]
        /\ page'[s] = {} /\ cursor' = cursor /\ found'[s] = found[s] /\ pc[s] = "list"
        /\ refs'[s] = {Current(p) : p \in latest[s] + 1 .. Len(feed)}
    BY <1>2 DEF List, RunInv, Walking
  <2>2. cursor <= latest[s]
    BY <2>1 DEF Forward
  <2>3. \A q \in refs'[s] : cursor <= q
    <3> TAKE q \in refs'[s]
    <3>1. PICK p \in latest[s] + 1 .. Len(feed) : q = Current(p)
      BY <2>1
    <3>2. p \in 1 .. Len(feed) /\ latest[s] < p
      BY <1>0, <3>1
    <3>3. p <= q /\ q \in Nat
      BY <1>0, <3>1, <3>2, CurrentIsVersion
    <3> QED
      BY <1>0, <2>2, <3>2, <3>3
  <2> QED
    BY <1>0, <2>1, <2>2, <2>3 DEF Forward
<1>3. CASE Hydrate(s)
  <2>1. PICK P \in NextPage(s) :
          /\ page'[s] = page[s] \cup Survivors(P)
          /\ refs'[s] = refs[s] \ P
    BY <1>3 DEF Hydrate
  <2>2. /\ pc[s] = "walk" /\ pc'[s] = "walk" /\ token'[s] = token[s] /\ latest'[s] = latest[s]
        /\ found'[s] = found[s] /\ cursor' = cursor /\ P \subseteq refs[s]
    BY <1>3, <2>1 DEF Hydrate, NextPage
  <2>3. \A c \in page'[s] : cursor <= c.pos
    BY <2>1, <2>2, SurvivorsOf DEF Forward
  <2> QED
    BY <2>1, <2>2, <2>3 DEF Forward, Walking
<1>4. CASE Deliver(s)
  <2>1. PICK c \in page[s] :
          page'[s] = page[s] \ {c} /\ latest'[s] = CursorOf(s, c) /\ pc'[s] \in {"remove", "find"}
    BY <1>4 DEF Deliver
  <2>2. /\ refs'[s] = refs[s] /\ token'[s] = token[s] /\ pc[s] = "walk" /\ found'[s]
        /\ cursor' = cursor
    BY <1>4 DEF Deliver
  <2>3. cursor <= CursorOf(s, c)
    BY <1>0, <2>1, <2>2 DEF Forward, CursorOf, Walking
  <2> QED
    BY <2>1, <2>2, <2>3 DEF Forward, Walking
<1>5. CASE PutCursor(s)
  <2>1. /\ refs'[s] = {} /\ page'[s] = {} /\ latest'[s] = latest[s] /\ found'[s] = found[s]
        /\ pc'[s] = "complete" /\ pc[s] = "put"
        /\ cursor' = IF found[s] /\ latest[s] # Withheld THEN latest[s] ELSE cursor
    BY <1>5 DEF PutCursor, RunInv, Walking, runVars
  <2> QED
    BY <1>0, <2>1 DEF Forward, Walking
<1>6. CASE Abort(s) \/ PutFails(s) \/ EndWalk(s)
  <2>1. /\ refs'[s] = {} /\ page'[s] = {} /\ latest'[s] = latest[s] /\ found'[s] = found[s]
        /\ pc'[s] \in {"put", "complete"} /\ pc[s] # "idle" /\ cursor' = cursor
    BY <1>6 DEF Abort, PutFails, EndWalk, RunInv, Walking
  <2> QED
    BY <2>1 DEF Forward, Walking
<1>7. CASE Find(s) \/ Upsert(s) \/ Remove(s) \/ RecordItem(s) \/ Emit(s, TRUE) \/ Emit(s, FALSE)
           \/ RecordFailedItem(s) \/ ItemFails(s)
  <2>1. /\ pc[s] \in Walking
        /\ refs'[s] = refs[s] /\ page'[s] = page[s] /\ token'[s] = token[s]
        /\ latest'[s] = latest[s] /\ found'[s] = found[s] /\ cursor' = cursor
    BY <1>7 DEF Find, Upsert, Remove, RecordItem, Emit, RecordFailedItem, ItemFails, NextItem,
                Write, Walking, runVars
  <2> QED
    BY <2>1 DEF Forward, Walking
<1> QED
  BY <1>1, <1>2, <1>3, <1>4, <1>5, <1>6, <1>7 DEF Proceed, Fault

LEMMA SuccessHolds ==
  ASSUME Structure, NEW s \in Syncs, Begin(s) \/ Proceed(s) \/ Fault(s), Forward(s),
         EndInv(s), SuccessInv(s)
  PROVE  SuccessInv(s)'
<1> USE DEF Structure, RunTypes, Goto
<1>0. /\ token[s] \in Nat /\ token[s] <= Len(feed) /\ latest[s] \in Nat /\ cursor \in Nat
      /\ Len(feed) \in Nat /\ Len(feed) < Withheld /\ Withheld \in Nat
  BY IntegrationAssumption, FeedEntries DEF RunInv, Withheld, FeedInv, StoreInv
<1>1. CASE PutCursor(s)
  <2>1. /\ latest'[s] = latest[s] /\ token'[s] = token[s] /\ outcome'[s] = outcome[s]
        /\ found'[s] = found[s] /\ divisible' = divisible /\ pc[s] = "put"
        /\ \A p : Wanted(p)' <=> Wanted(p)
        /\ cursor' = IF found[s] /\ latest[s] # Withheld THEN latest[s] ELSE cursor
    BY <1>1 DEF PutCursor, runVars, source, Wanted, Current, Id
  <2> SUFFICES ASSUME outcome[s] # "failed"
               PROVE  /\ \A p \in cursor' + 1 .. token[s] : ~ Wanted(p)
                      /\ ~ divisible => cursor' = IF found[s] THEN token[s] ELSE latest[s]
    BY <2>1 DEF SuccessInv
  <2>2. CASE divisible \/ ~ found[s]
    <3>1. latest[s] # Withheld /\ InDoubt(s) = {}
      BY <2>1, <2>2 DEF EndInv
    <3>2. cursor' = latest[s]
      BY <2>1, <3>1 DEF Forward
    <3>3. \A p \in latest[s] + 1 .. token[s] : ~ Wanted(p)
      <4> TAKE p \in latest[s] + 1 .. token[s]
      <4>1. p \in 1 .. token[s] /\ latest[s] < p
        BY <1>0
      <4> QED
        BY <3>1, <4>1 DEF InDoubt
    <3> QED
      BY <2>2, <3>2, <3>3
  <2>3. CASE ~ (divisible \/ ~ found[s])
    <3>1. latest[s] = token[s]
      BY <2>1, <2>3 DEF EndInv
    <3>2. cursor' = token[s]
      BY <1>0, <2>1, <2>3, <3>1
    <3> QED
      BY <1>0, <2>3, <3>2
  <2> QED
    BY <2>2, <2>3
<1>2. CASE ~ PutCursor(s)
  <2>1. pc'[s] = "complete" => outcome'[s] = "failed"
    BY <1>2 DEF Begin, Proceed, Fault, List, Hydrate, Deliver, Find, Upsert, Remove, RecordItem,
           Emit, RecordFailedItem, EndWalk, CompleteRun, ItemFails, Abort,
           PutFails, Crash, NextItem
  <2> QED
    BY <2>1 DEF SuccessInv
<1> QED
  BY <1>1, <1>2

\* Newer content is written, once.
LEMMA OrderHolds ==
  ASSUME Structure, NEW s \in Syncs, Begin(s) \/ Proceed(s) \/ Fault(s), OrderInv(s),
         \A e \in events : e <= local[Id(e)]
  PROVE  /\ OrderInv(s)'
         /\ \A e \in events' : e <= local'[Id(e)]
         /\ stale' = stale /\ repeated' = repeated
<1> USE DEF Structure, RunTypes, Goto
<1>0. /\ Len(feed) \in Nat /\ feed' = feed /\ newest' = newest /\ \A q : Id(q)' = Id(q)
      /\ local \in [Records -> 0 .. Len(feed)] /\ events \subseteq 1 .. Len(feed)
      /\ \A r \in Records : local[r] <= newest[r] /\ newest[r] \in 0 .. Len(feed)
      /\ \A p \in 1 .. Len(feed) : Id(p) \in Records
      /\ \A c \in page[s] : c.pos \in 1 .. Len(feed) /\ c.ver \in 1 .. Len(feed)
  BY ProceedFrame, FaultFrame, FeedEntries DEF source, Id, StoreInv, FeedInv, RunInv, Version
<1>1. CASE Hydrate(s)
  <2>1. PICK P \in NextPage(s) :
          page'[s] = page[s] \cup Survivors(P)
    BY <1>1 DEF Hydrate
  <2>2. /\ pc[s] = "walk" /\ pc'[s] = "walk" /\ written'[s] = written[s] /\ local' = local
        /\ events' = events /\ stale' = stale /\ repeated' = repeated /\ P \subseteq refs[s]
    BY <1>1, <2>1 DEF Hydrate, NextPage, history
  <2>3. \A c \in page'[s] : local[Id(c.pos)] <= c.ver
    <3> TAKE c \in page'[s]
    <3>1. CASE c \in page[s]
      BY <3>1 DEF OrderInv
    <3>2. CASE c \in Survivors(P)
      <4>1. c.pos \in P /\ c.ver = Current(c.pos)
        BY <3>2, SurvivorsOf
      <4>2. c.pos \in 1 .. Len(feed)
        <5>1. /\ c.pos \in refs[s] /\ refs[s] \subseteq Positions /\ c.pos <= token[s]
              /\ token[s] <= Len(feed) /\ token[s] \in Nat
          BY <2>2, <4>1 DEF RunInv
        <5> QED
          BY <1>0, <5>1, IntegrationAssumption DEF Positions
      <4>3. c.ver = newest[Id(c.pos)] /\ Id(c.pos) \in Records
        BY <1>0, <4>1, <4>2 DEF Current
      <4> QED
        BY <1>0, <4>3
    <3> QED
      BY <2>1, <3>1, <3>2
  <2>4. ~ written[s]
    BY <2>2 DEF RunInv
  <2> QED
    BY <1>0, <2>2, <2>3, <2>4 DEF OrderInv
<1>2. CASE Deliver(s)
  <2>1. PICK c \in page[s] :
          page'[s] = page[s] \ {c} /\ change'[s] = c /\ pc'[s] \in {"remove", "find"}
    BY <1>2 DEF Deliver
  <2>2. /\ ~ written'[s] /\ local' = local
        /\ events' = events /\ stale' = stale /\ repeated' = repeated
    BY <1>2 DEF Deliver, history
  <2> QED
    BY <1>0, <2>1, <2>2 DEF OrderInv
<1>3. CASE Find(s)
  <2>1. /\ page'[s] = page[s] /\ change'[s] = change[s] /\ written'[s] = written[s]
        /\ local' = local /\ events' = events /\ stale' = stale /\ repeated' = repeated
        /\ pc[s] = "find" /\ pc'[s] = IF IsNoop(s) THEN "record" ELSE "upsert"
    BY <1>3 DEF Find, runVars, history
  <2>2. /\ local[Id(change[s].pos)] <= change[s].ver /\ Id(change[s].pos) \in Records
        /\ change[s].ver \in 1 .. Len(feed) /\ ~ feed[change[s].ver].gone
    BY <2>1, InHandIsVersion DEF OrderInv, RunInv, InHand, Walking, Version
  <2>3. ~ IsNoop(s) => local[Id(change[s].pos)] # change[s].ver
    BY <1>0, <2>2 DEF IsNoop, HasRow
  <2>4. pc'[s] = "upsert" => local[Id(change[s].pos)] < change[s].ver
    BY <1>0, <2>1, <2>2, <2>3
  <2>5. ~ written[s]
    BY <2>1 DEF RunInv
  <2> QED
    BY <1>0, <2>1, <2>2, <2>4, <2>5 DEF OrderInv
<1>4. CASE Upsert(s) \/ (Remove(s) /\ HasRow(Id(change[s].pos)))
  <2>0. /\ Version(change[s]) /\ Id(change[s].pos) \in Records
        /\ change[s].ver \in 1 .. Len(feed) /\ Id(change[s].ver) = Id(change[s].pos)
        /\ local[Id(change[s].pos)] \in Nat
    BY <1>0, <1>4, InHandIsVersion DEF Upsert, Remove, InHand, Walking, Version
  <2>1. local[Id(change[s].pos)] < change[s].ver
    <3>1. CASE Upsert(s)
      BY <3>1 DEF OrderInv, Upsert
    <3>2. CASE Remove(s) /\ HasRow(Id(change[s].pos))
      <4>1. feed[change[s].ver].gone /\ local[Id(change[s].pos)] <= change[s].ver
        BY <3>2 DEF OrderInv, Remove, RunInv
      <4>2. local[Id(change[s].pos)] # change[s].ver
        BY <3>2, <4>1 DEF HasRow
      <4> QED
        BY <2>0, <4>1, <4>2
    <3> QED
      BY <1>4, <3>1, <3>2
  <2>2. PICK r \in Records : r = Id(change[s].pos)
    BY <2>0
  <2>3. PICK v \in 1 .. Len(feed) : v = change[s].ver
    BY <2>0
  <2>4. /\ page'[s] = page[s] /\ change'[s] = change[s] /\ written'[s] /\ pc'[s] = "record"
        /\ local' = [local EXCEPT ![r] = v] /\ events' = events /\ repeated' = repeated
    BY <1>4, <2>2, <2>3 DEF Upsert, Remove, Write
  <2>5. stale' = stale
    BY <1>4, <2>0, <2>1 DEF Upsert, Remove, Write
  <2>6. v \notin events
    BY <1>0, <2>0, <2>1, <2>2, <2>3
  <2>7. \A c \in page[s] : local'[Id(c.pos)] <= c.ver
    <3> TAKE c \in page[s]
    <3>1. Id(c.pos) # r /\ Id(c.pos) \in Records
      BY <1>0, <1>4, <2>2 DEF RunInv, InHand, Walking, Upsert, Remove
    <3> QED
      BY <1>0, <2>4, <3>1 DEF OrderInv
  <2>8. \A e \in events : e <= local'[Id(e)]
    <3> TAKE e \in events
    <3>1. e <= local[Id(e)] /\ Id(e) \in Records /\ e \in Nat
      BY <1>0
    <3>2. CASE Id(e) = r
      BY <1>0, <2>1, <2>2, <2>3, <2>4, <3>1, <3>2
    <3>3. CASE Id(e) # r
      BY <1>0, <2>4, <3>1, <3>3
    <3> QED
      BY <3>2, <3>3
  <2>9. local'[r] = v
    BY <1>0, <2>4
  <2> QED
    BY <1>0, <2>2, <2>3, <2>4, <2>5, <2>6, <2>7, <2>8, <2>9 DEF OrderInv
<1>5. CASE Remove(s) /\ ~ HasRow(Id(change[s].pos))
  <2>0. /\ Version(change[s]) /\ Id(change[s].pos) \in Records
        /\ change[s].ver \in 1 .. Len(feed)
        /\ local[Id(change[s].pos)] \in Nat
    BY <1>0, <1>5, InHandIsVersion DEF Upsert, Remove, InHand, Walking, Version
  <2>1. local[Id(change[s].pos)] <= change[s].ver
    BY <1>5 DEF OrderInv, Remove
  <2>2. PICK r \in Records : r = Id(change[s].pos)
    BY <2>0
  <2>3. PICK v \in 1 .. Len(feed) : v = change[s].ver
    BY <2>0
  <2>4. /\ page'[s] = page[s] /\ ~ written'[s] /\ pc'[s] = "record"
        /\ local' = [local EXCEPT ![r] = IF @ < v THEN v ELSE @]
        /\ events' = events /\ repeated' = repeated /\ stale' = stale
    BY <1>5, <2>2, <2>3 DEF Remove, RunInv
  <2>7. \A c \in page[s] : local'[Id(c.pos)] <= c.ver
    <3> TAKE c \in page[s]
    <3>1. Id(c.pos) # r /\ Id(c.pos) \in Records
      BY <1>0, <1>5, <2>2 DEF RunInv, InHand, Walking, Remove
    <3> QED
      BY <1>0, <2>4, <3>1 DEF OrderInv
  <2>8. \A e \in events : e <= local'[Id(e)]
    <3> TAKE e \in events
    <3>1. e <= local[Id(e)] /\ Id(e) \in Records /\ e \in Nat
      BY <1>0
    <3>2. CASE Id(e) = r
      BY <1>0, <2>1, <2>2, <2>3, <2>4, <3>1, <3>2
    <3>3. CASE Id(e) # r
      BY <1>0, <2>4, <3>1, <3>3
    <3> QED
      BY <3>2, <3>3
  <2> QED
    BY <1>0, <2>4, <2>7, <2>8 DEF OrderInv
<1>6. CASE Emit(s, TRUE)
  <2>0. /\ Version(change[s]) /\ Id(change[s].ver) = Id(change[s].pos)
        /\ change[s].ver \in 1 .. Len(feed) /\ written[s]
    BY <1>0, <1>6, InHandIsVersion DEF Emit, InHand, Walking, Version, RunInv
  <2>1. local[Id(change[s].pos)] = change[s].ver /\ change[s].ver \notin events
    BY <2>0 DEF OrderInv
  <2>2. /\ page'[s] = page[s] /\ ~ written'[s] /\ pc'[s] = "walk" /\ local' = local
        /\ stale' = stale /\ events' = events \cup {change[s].ver}
        /\ repeated' = repeated \cup ({change[s].ver} \cap events)
    BY <1>6 DEF Emit, NextItem
  <2>3. repeated' = repeated
    BY <2>1, <2>2
  <2>4. \A e \in events' : e <= local[Id(e)]
    <3> TAKE e \in events'
    <3>1. CASE e = change[s].ver
      BY <2>0, <2>1, <3>1
    <3>2. CASE e \in events
      BY <3>2
    <3> QED
      BY <2>2, <3>1, <3>2
  <2> QED
    BY <1>0, <2>2, <2>3, <2>4 DEF OrderInv
<1>7. CASE RecordItem(s) \/ ItemFails(s)
  <2>1. /\ page'[s] = page[s] /\ local' = local /\ events' = events
        /\ stale' = stale /\ repeated' = repeated
        /\ \/ ~ written'[s]
           \/ change'[s] = change[s] /\ written'[s] = written[s]
        /\ pc'[s] \in {"walk", "emit", "caught"}
    BY <1>7 DEF RecordItem, ItemFails, NextItem, runVars, history
  <2> QED
    BY <1>0, <2>1 DEF OrderInv
<1>8. CASE Emit(s, FALSE) \/ RecordFailedItem(s)
  <2>1. /\ page'[s] = page[s] /\ local' = local /\ events' = events
        /\ stale' = stale /\ repeated' = repeated /\ ~ written'[s] /\ pc'[s] = "walk"
    BY <1>8 DEF Emit, RecordFailedItem, NextItem
  <2> QED
    BY <1>0, <2>1 DEF OrderInv
<1>9. CASE Begin(s) \/ List(s) \/ EndWalk(s) \/ Abort(s) \/ PutCursor(s) \/ PutFails(s)
           \/ CompleteRun(s) \/ Crash(s)
  <2>1. /\ page'[s] = {} /\ local' = local /\ events' = events
        /\ stale' = stale /\ repeated' = repeated /\ ~ written'[s]
        /\ pc'[s] \notin {"find", "upsert", "remove"}
    <3>1. CASE Begin(s) \/ List(s) \/ EndWalk(s)
      BY <3>1 DEF Begin, List, EndWalk, RunInv, Walking, history
    <3>2. CASE PutCursor(s) \/ PutFails(s)
      BY <3>2 DEF PutCursor, PutFails, RunInv, Walking, runVars, history
    <3>3. CASE Abort(s)
      BY <3>3 DEF Abort
    <3>4. CASE CompleteRun(s) \/ Crash(s)
      BY <3>4 DEF CompleteRun, Crash, Reset, history
    <3> QED
      BY <1>9, <3>1, <3>2, <3>3, <3>4
  <2> QED
    BY <1>0, <2>1 DEF OrderInv
<1> QED
  BY <1>1, <1>2, <1>3, <1>4, <1>5, <1>6, <1>7, <1>8, <1>9 DEF Proceed, Fault

LEMMA SerialRuns ==
  ASSUME Structure, Structure', \A t \in Syncs : EndInv(t), SerialInv,
         NEW s \in Syncs, Begin(s) \/ Proceed(s) \/ Fault(s)
  PROVE  SerialInv'
<1>1. overlapped \in BOOLEAN /\ overlapped' \in BOOLEAN /\ (overlapped => overlapped')
  <2>1. overlapped \in BOOLEAN /\ overlapped' \in BOOLEAN
    BY DEF Structure, StoreInv
  <2>2. overlapped => overlapped'
    BY DEF Begin, Proceed, Fault, List, Hydrate, Deliver, Find, Upsert, Remove, RecordItem,
           Emit, RecordFailedItem, EndWalk, PutCursor, CompleteRun, ItemFails, Abort,
           PutFails, Crash, history
  <2> QED
    BY <2>1, <2>2
<1> SUFFICES ASSUME ~ overlapped' PROVE SerialInv'
  BY DEF SerialInv
<1>2. /\ Alone /\ stale = {} /\ repeated = {}
      /\ \A e \in events : e <= local[Id(e)]
      /\ \A t \in Syncs : Forward(t) /\ SuccessInv(t) /\ OrderInv(t)
  BY <1>1 DEF SerialInv
<1>3. \A t \in Syncs \ {s} : pc[t] = "idle" /\ pc'[t] = "idle"
  <2>1. \A t \in Syncs \ {s} : pc'[t] = pc[t]
    BY ProceedFrame, FaultFrame DEF Structure, Others
  <2>2. CASE Begin(s)
    BY <2>1, <2>2 DEF Begin, Running
  <2>3. CASE ~ Begin(s)
    <3>1. pc[s] # "idle"
      BY <2>3 DEF Proceed, Fault, List, Hydrate, Deliver, Find, Upsert, Remove, RecordItem,
             Emit, RecordFailedItem, EndWalk, PutCursor, CompleteRun, ItemFails, Abort,
             PutFails, Crash
    <3> QED
      BY <1>2, <2>1, <3>1 DEF Alone
  <2> QED
    BY <2>2, <2>3
<1>4. Alone'
  BY <1>3 DEF Alone
<1>5. /\ OrderInv(s)' /\ \A e \in events' : e <= local'[Id(e)]
      /\ stale' = {} /\ repeated' = {}
  BY <1>2, OrderHolds
<1>6. \A e \in events' : e <= local'[Id(e)']
  <2>1. \A q : Id(q)' = Id(q)
    BY ProceedFrame, FaultFrame DEF Structure, source, Id
  <2> QED
    BY <1>5, <2>1
<1>7. Forward(s)' /\ SuccessInv(s)'
  <2>1. CASE CompleteRun(s) \/ Crash(s)
    <3>1. pc'[s] = "idle"
      BY <2>1 DEF CompleteRun, Crash, Goto, Structure, RunTypes
    <3> QED
      BY <3>1, IdleIsQuiet
  <2>2. CASE ~ CompleteRun(s) /\ ~ Crash(s)
    BY <1>2, <2>2, ForwardHolds, SuccessHolds
  <2> QED
    BY <2>1, <2>2
<1>8. \A t \in Syncs \ {s} : Forward(t)' /\ SuccessInv(t)' /\ OrderInv(t)'
  BY <1>3, IdleIsQuiet
<1> QED
  BY <1>4, <1>5, <1>6, <1>7, <1>8 DEF SerialInv

LEMMA SerialVendor ==
  ASSUME Structure, SerialInv, NEW r \in Records, NEW gone \in BOOLEAN, NEW kept \in BOOLEAN,
         VendorChanges(r, gone, kept)
  PROVE  SerialInv'
<1>1. UNCHANGED <<cursor, local, events, pc, runVars, history>>
  BY DEF VendorChanges
<1>2. /\ \A p \in 1 .. Len(feed) : Id(p)' = Id(p)
      /\ events \subseteq 1 .. Len(feed)
      /\ \A s \in Syncs : \A c \in page[s] : c.pos \in 1 .. Len(feed)
      /\ \A s \in Syncs : pc[s] \in InHand => change[s].pos \in 1 .. Len(feed)
      /\ \A s \in Syncs : written[s] => pc[s] \in InHand
  BY FeedGrows DEF Structure, StoreInv, RunInv, Version, InHand, Walking
<1>3. ASSUME NEW s \in Syncs, Forward(s), SuccessInv(s), OrderInv(s)
      PROVE  Forward(s)' /\ SuccessInv(s)' /\ OrderInv(s)'
  <2>0. Forward(s)'
    BY <1>1, <1>3 DEF Forward, runVars
  <2>1. SuccessInv(s)'
    <3>1. /\ token[s] \in Nat /\ token[s] <= Len(feed) /\ Len(feed) \in Nat /\ cursor \in Nat
          /\ divisible' = divisible
      BY FeedEntries DEF Structure, RunTypes, RunInv, StoreInv, VendorChanges
    <3>2. ASSUME NEW p \in cursor + 1 .. token[s], Wanted(p)' PROVE Wanted(p)
      <4>1. p \in 1 .. Len(feed)
        BY <3>1
      <4> QED
        BY <3>2, <4>1, VendorWants DEF Structure
    <3> QED
      BY <1>1, <1>3, <3>1, <3>2 DEF SuccessInv, runVars
  <2>2. \A c \in page[s] : local[Id(c.pos)'] <= c.ver
    BY <1>2, <1>3 DEF OrderInv
  <2>3. pc[s] \in InHand => Id(change[s].pos)' = Id(change[s].pos)
    <3>1. ASSUME NEW p \in 1 .. Len(feed), p = change[s].pos
          PROVE  feed'[change[s].pos].id = feed[change[s].pos].id
      BY <1>2, <3>1 DEF Id
    <3>2. change'[s] = change[s]
      BY <1>1 DEF runVars
    <3> QED
      BY <1>2, <3>1, <3>2 DEF Id
  <2>4. OrderInv(s)'
    BY <1>1, <1>2, <1>3, <2>2, <2>3 DEF OrderInv, InHand, Walking, runVars
  <2> QED
    BY <2>0, <2>1, <2>4
<1>4. Alone' <=> Alone
  BY <1>1 DEF Alone
<1>5. (\A e \in events : e <= local[Id(e)]) => \A e \in events' : e <= local'[Id(e)']
  BY <1>1, <1>2
<1> QED
  BY <1>1, <1>3, <1>4, <1>5 DEF SerialInv, history

LEMMA SerialStep ==
  ASSUME Structure, Structure', \A s \in Syncs : EndInv(s), SerialInv, [Next]_vars
  PROVE  SerialInv'
<1>1. ASSUME NEW s \in Syncs, Begin(s) \/ Proceed(s) \/ Fault(s)
      PROVE  SerialInv'
  BY <1>1, SerialRuns
<1>2. ASSUME NEW r \in Records, NEW gone \in BOOLEAN, NEW kept \in BOOLEAN,
         VendorChanges(r, gone, kept)
      PROVE  SerialInv'
  BY <1>2, SerialVendor
<1>3. CASE UNCHANGED vars
  BY <1>3 DEF vars, SerialInv, Alone, Forward, SuccessInv, OrderInv, Wanted, Current, Id
<1> QED
  BY <1>1, <1>2, <1>3 DEF Next

LEMMA InvInit ==
  ASSUME Init
  PROVE  Inv
<1>1. Structure /\ AccountInv
  BY StructureInit, AccountInit
<1>2. \A s \in Syncs : EndInv(s)
  BY DEF Init, EndInv, Walking
<1>3. SerialInv
  BY DEF Init, SerialInv, Alone, Forward, SuccessInv, OrderInv, Walking
<1> QED
  BY <1>1, <1>2, <1>3 DEF Inv

LEMMA InvStep ==
  ASSUME Inv, [Next]_vars
  PROVE  Inv'
<1>1. Structure' /\ AccountInv'
  BY StructureStep, AccountStep DEF Inv
<1>2. \A s \in Syncs : EndInv(s)'
  BY EndStep DEF Inv
<1>3. SerialInv'
  BY <1>1, SerialStep DEF Inv
<1> QED
  BY <1>1, <1>2, <1>3 DEF Inv

\* As long as no two runs were under way at once, no row went back to older content
\* and no change was published twice, whatever failed, crashed and was read again.
THEOREM SerialRunsAreOrdered == Spec => []SerialRunsKeepOrder
<1>1. Init => Inv
  BY InvInit
<1>2. Inv /\ [Next]_vars => Inv'
  BY InvStep
<1>3. Inv => SerialRunsKeepOrder
  BY DEF Inv, SerialInv, SerialRunsKeepOrder
<1> QED
  BY <1>1, <1>2, <1>3, PTL DEF Spec

\* A run that closes without a failure leaves nothing between the stored cursor and
\* the end of its walk that the source would have yielded, whatever it dropped on the
\* way; and an atomic source has left its token, unless it yielded nothing at all.
THEOREM SuccessIsStored == Spec => []SuccessMovesCursor
<1>1. Init => Inv
  BY InvInit
<1>2. Inv /\ [Next]_vars => Inv'
  BY InvStep
<1>3. Inv => SuccessMovesCursor
  BY DEF Inv, SerialInv, SuccessInv, SuccessMovesCursor
<1> QED
  BY <1>1, <1>2, <1>3, PTL DEF Spec

LEMMA CursorStep ==
  ASSUME Inv, [Next]_vars
  PROVE  cursor' >= cursor \/ overlapped
<1>0. cursor \in Nat
  BY FeedEntries DEF Inv, Structure, StoreInv
<1>1. ASSUME NEW s \in Syncs, PutCursor(s)
      PROVE  cursor' >= cursor \/ overlapped
  <2>1. overlapped \/ cursor <= latest[s]
    BY <1>1 DEF Inv, SerialInv, Forward, PutCursor
  <2>2. latest[s] \in Nat
    BY IntegrationAssumption DEF Inv, Structure, RunTypes, Withheld
  <2> QED
    BY <1>0, <1>1, <2>1, <2>2 DEF PutCursor
<1>2. ASSUME NEW s \in Syncs, Begin(s) \/ Proceed(s) \/ Fault(s), ~ PutCursor(s)
      PROVE  cursor' = cursor
  BY <1>2 DEF Begin, Proceed, Fault, List, Hydrate, Deliver, Find, Upsert, Remove, RecordItem,
           Emit, RecordFailedItem, EndWalk, CompleteRun, ItemFails, Abort, PutFails, Crash
<1>3. (\E r \in Records : \E gone, kept \in BOOLEAN : VendorChanges(r, gone, kept)) \/ UNCHANGED vars
      => cursor' = cursor
  BY DEF VendorChanges, vars
<1> QED
  BY <1>0, <1>1, <1>2, <1>3 DEF Next

\* The stored cursor goes back only after runs have overlapped.
THEOREM CursorIsMonotonic == Spec => CursorGoesForward
<1>1. Init => Inv
  BY InvInit
<1>2. Inv /\ [Next]_vars => Inv'
  BY InvStep
<1>3. Inv /\ [Next]_vars => [cursor' >= cursor \/ overlapped]_vars
  BY CursorStep
<1> QED
  BY <1>1, <1>2, <1>3, PTL DEF Spec, CursorGoesForward

=============================================================================
