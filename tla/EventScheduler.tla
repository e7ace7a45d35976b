---------------------------- MODULE EventScheduler ----------------------------
(***************************************************************************)
(* runtime/subsystems/events/event-scheduler.ts on several instances of    *)
(* the application: the boot pass with its bounded backfill, the timer and *)
(* its tick passes, and the idempotent insert of a slot's event            *)
(* (event-bus.drizzle-backend.ts, materializeScheduledEvent).              *)
(*                                                                         *)
(* A pass reads the clock once and then awaits one insert after the other, *)
(* so `todo` holds what a pass has still to insert, schedule by schedule   *)
(* in registry order and from the oldest slot on, and passes of different  *)
(* instances interleave.  A slot is named by its start, as in the slot key. *)
(***************************************************************************)
EXTENDS Integers

CONSTANTS
  Instances,       \* processes with an EventScheduler
  Types,           \* scheduled event types
  Rank,            \* the position of a type in the registry
  Every,           \* everyMs of a type
  Aligned,         \* the types with align: true
  CatchUp,         \* the types with catchUp: true
  MaxCatchUpSlots,
  TickInterval,    \* tickIntervalMs: the smallest `every`, but no less than the floor
  Lateness,        \* how late a timer of a live process may fire (a bound)
  Skew,            \* how far the clock of an instance is ahead
  MaxTime,         \* bound on the clock
  MaxFaults        \* bound on crashes and failed statements

ASSUME SchedulerAssumption ==
  /\ Rank \in [Types -> Nat]
  /\ Every \in [Types -> Nat \ {0}]
  /\ Aligned \subseteq Types
  /\ CatchUp \subseteq Types
  /\ MaxCatchUpSlots \in Nat \ {0}
  /\ TickInterval \in Nat \ {0}
  /\ Lateness \in Nat
  /\ Skew \in [Instances -> Nat]
  /\ MaxTime \in Nat
  /\ MaxFaults \in Nat

VARIABLES
  now,     \* the time, in units that divide every period
  rows,    \* domain_events with a schedule slot: <<type, slot start>>
  life,    \* the scheduler of each instance
  anchor,  \* anchorMs, when the scheduler was constructed
  readAt,  \* nowMs of the pass under way
  todo,    \* the slots the pass has still to insert, by type
  due,     \* when the timer fires next
  steady,  \* history: the timer of this process has fired
  lapsed,  \* history: slots given up by policy, by the cap or by a failure
  straddled, \* history: slots between a boot pass and the first tick
  faults

vars == <<now, rows, life, anchor, readAt, todo, due, steady, lapsed, straddled, faults>>

Lookup == -1   \* marks the query for the newest slot, ahead of a backfill

Idle == [t \in Types |-> {}]

TypeOK ==
  /\ now \in 0 .. MaxTime
  /\ rows \in SUBSET (Types \X Nat)
  /\ life \in [Instances -> {"down", "boot", "up"}]
  /\ anchor \in [Instances -> Nat]
  /\ readAt \in [Instances -> Nat]
  /\ todo \in [Instances -> [Types -> SUBSET (Nat \cup {Lookup})]]
  /\ due \in [Instances -> Nat]
  /\ steady \in [Instances -> BOOLEAN]
  /\ lapsed \in SUBSET (Types \X Nat)
  /\ straddled \in SUBSET (Types \X Nat)
  /\ faults \in 0 .. MaxFaults
  /\ \A i \in Instances : todo[i] # Idle => life[i] # "down"

Clock(i) == now + Skew[i]

\* Mutant: the slot of a moment is the moment.
slotStartForRaw(t, at, anchorMs) == at

\* The start of the slot of type t that holds the moment `at`.
slotStartFor(t, at, anchorMs) ==
  IF t \in Aligned THEN (at \div Every[t]) * Every[t]
  ELSE IF at < anchorMs THEN anchorMs
  ELSE anchorMs + ((at - anchorMs) \div Every[t]) * Every[t]

Slots(t) == {r[2] : r \in {q \in rows : q[1] = t}}

IsNewest(t, s) == s \in Slots(t) /\ \A u \in Slots(t) : u <= s

\* What is missing between the newest row of t and the slot `current`; a
\* schedule without any event starts now.
Missed(t, current) ==
  IF Slots(t) = {} THEN {t} \X {s \in 0 .. current - 1 : (current - s) % Every[t] = 0}
  ELSE LET last == CHOOSE s \in Slots(t) : IsNewest(t, s)
       IN  {<<t, s>> : s \in {u \in last + 1 .. current - 1 : (u - last) % Every[t] = 0}}

-----------------------------------------------------------------------------
(* Passes *)

\* materializeBoot: the current slot, or what the lookup will say.
BootSlots(t, i) == {IF t \in CatchUp THEN Lookup ELSE slotStartFor(t, Clock(i), Clock(i))}

\* Mutant: the tick prepares the next slot only.
TickSlotsNext(t, i) == {slotStartFor(t, Clock(i), anchor[i]) + Every[t]}

\* Mutant: the tick does not look ahead.
TickSlotsCurrent(t, i) == {slotStartFor(t, Clock(i), anchor[i])}

\* materializeTick: the current slot and the next one.
TickSlots(t, i) ==
  LET current == slotStartFor(t, Clock(i), anchor[i]) IN {current, current + Every[t]}

\* The pass of i is at type t and its slot s.
At(i, t, s) ==
  /\ s \in todo[i][t] /\ \A u \in todo[i][t] : s <= u
  /\ \A u \in Types : Rank[u] < Rank[t] => todo[i][u] = {}

\* The constructor and start() up to the first await.  A schedule without
\* catchUp gives up what was missed while nobody ticked.
Boot(i) ==
  /\ life[i] = "down"
  /\ life' = [life EXCEPT ![i] = "boot"]
  /\ anchor' = [anchor EXCEPT ![i] = Clock(i)]
  /\ readAt' = [readAt EXCEPT ![i] = Clock(i)]
  /\ todo' = [todo EXCEPT ![i] = [t \in Types |-> BootSlots(t, i)]]
  /\ lapsed' = lapsed \cup UNION {Missed(t, slotStartFor(t, Clock(i), Clock(i))) :
                                    t \in Types \ CatchUp}
  /\ UNCHANGED <<now, rows, due, steady, straddled, faults>>

\* Where a backfill begins: after the newest slot, not after the current one,
\* and no further back than the cap.
BackfillFrom(t, last, current) ==
  LET from  == IF last = Lookup \/ last + Every[t] > current THEN current ELSE last + Every[t]
      total == ((current - from) \div Every[t]) + 1
  IN  IF total > MaxCatchUpSlots THEN current - (MaxCatchUpSlots - 1) * Every[t] ELSE from

\* backfill: the answer of lastScheduledSlotMs turns into slots to insert.
LookupNewest(i, t) ==
  /\ At(i, t, Lookup)
  /\ LET current == slotStartFor(t, readAt[i], anchor[i])
         last    == IF Slots(t) = {} THEN Lookup ELSE CHOOSE s \in Slots(t) : IsNewest(t, s)
         from    == BackfillFrom(t, last, current)
     IN  /\ todo' = [todo EXCEPT ![i][t] = {s \in from .. current : (s - from) % Every[t] = 0}]
         /\ lapsed' = lapsed \cup {m \in Missed(t, current) : m[2] < from}
  /\ UNCHANGED <<now, rows, life, anchor, readAt, due, steady, straddled, faults>>

\* INSERT ... ON CONFLICT DO NOTHING on the slot key.
Insert(i, t, s) ==
  /\ At(i, t, s) /\ s # Lookup
  /\ rows' = rows \cup {<<t, s>>}
  /\ lapsed' = lapsed \ {<<t, s>>}
  /\ straddled' = straddled \ {<<t, s>>}
  /\ todo' = [todo EXCEPT ![i][t] = @ \ {s}]
  /\ UNCHANGED <<now, life, anchor, readAt, due, steady, faults>>

\* A statement fails: the rest of this schedule's slots are dropped, the pass
\* goes on with the next schedule.
StatementFails(i, t, s) ==
  /\ At(i, t, s) /\ faults < MaxFaults
  /\ todo' = [todo EXCEPT ![i][t] = {}]
  /\ lapsed' = lapsed \cup
       (IF s = Lookup
        THEN Missed(t, slotStartFor(t, readAt[i], anchor[i]) + Every[t])
        ELSE ({t} \X todo[i][t]) \ rows)
  /\ faults' = faults + 1
  /\ UNCHANGED <<now, rows, life, anchor, readAt, due, steady, straddled>>

\* The boot pass is over: setInterval.
StartTimer(i) ==
  /\ life[i] = "boot" /\ todo[i] = Idle
  /\ life' = [life EXCEPT ![i] = "up"]
  /\ due' = [due EXCEPT ![i] = now + TickInterval]
  /\ UNCHANGED <<now, rows, anchor, readAt, todo, steady, lapsed, straddled, faults>>

\* The slots that are in neither pass: behind the one of the boot pass, whose
\* time is still in readAt, and ahead of the one of the first tick.
Straddled(t, i) ==
  LET booted  == slotStartFor(t, readAt[i], anchor[i])
      current == slotStartFor(t, Clock(i), anchor[i])
  IN  {t} \X {s \in booted + 1 .. current - 1 : (s - booted) % Every[t] = 0}

\* The timer fires.  A tick pass is over before the next one (a bound).
Tick(i) ==
  /\ life[i] = "up" /\ todo[i] = Idle /\ now >= due[i]
  /\ readAt' = [readAt EXCEPT ![i] = Clock(i)]
  /\ todo' = [todo EXCEPT ![i] = [t \in Types |-> TickSlots(t, i)]]
  /\ due' = [due EXCEPT ![i] = now + TickInterval]
  /\ steady' = [steady EXCEPT ![i] = TRUE]
  /\ straddled' = IF steady[i] THEN straddled
                  ELSE straddled \cup ((UNION {Straddled(t, i) : t \in Types}) \ rows)
  /\ UNCHANGED <<now, rows, life, anchor, lapsed, faults>>

\* Nothing of a scheduler outlives its process.
Ends(i) ==
  /\ life' = [life EXCEPT ![i] = "down"]
  /\ anchor' = [anchor EXCEPT ![i] = 0]
  /\ readAt' = [readAt EXCEPT ![i] = 0]
  /\ todo' = [todo EXCEPT ![i] = Idle]
  /\ due' = [due EXCEPT ![i] = 0]
  /\ steady' = [steady EXCEPT ![i] = FALSE]
  /\ UNCHANGED <<now, rows, lapsed, straddled>>

\* stop() at a shutdown, between passes.
Stop(i) ==
  /\ life[i] = "up" /\ todo[i] = Idle
  /\ Ends(i)
  /\ UNCHANGED faults

\* The process dies in the middle of a pass.
Crash(i) ==
  /\ todo[i] # Idle /\ faults < MaxFaults
  /\ Ends(i)
  /\ faults' = faults + 1

\* Time passes, but no timer of a live process is later than Lateness.
Advance ==
  /\ now < MaxTime
  /\ \A i \in Instances : life[i] = "up" => now < due[i] + Lateness
  /\ now' = now + 1
  /\ UNCHANGED <<rows, life, anchor, readAt, todo, due, steady, lapsed, straddled, faults>>

-----------------------------------------------------------------------------
Init ==
  /\ now = 0
  /\ rows = {}
  /\ life = [i \in Instances |-> "down"]
  /\ anchor = [i \in Instances |-> 0]
  /\ readAt = [i \in Instances |-> 0]
  /\ todo = [i \in Instances |-> Idle]
  /\ due = [i \in Instances |-> 0]
  /\ steady = [i \in Instances |-> FALSE]
  /\ lapsed = {}
  /\ straddled = {}
  /\ faults = 0

Step(i) ==
  \/ Boot(i) \/ StartTimer(i) \/ Tick(i) \/ Stop(i) \/ Crash(i)
  \/ \E t \in Types :
       \/ LookupNewest(i, t)
       \/ \E s \in todo[i][t] : Insert(i, t, s) \/ StatementFails(i, t, s)

Next == Advance \/ \E i \in Instances : Step(i)

Spec == Init /\ [][Next]_vars

-----------------------------------------------------------------------------
(* Properties *)

\* Whatever instances boot, tick, crash and overlap with clocks that differ, no
\* two events of an aligned schedule lie within one period.
OneEventPerSlot ==
  \A t \in Aligned : \A s, u \in Slots(t) : s < u => u - s >= Every[t]

\* A slot below an event of an aligned schedule is missing for one of four
\* reasons: its schedule has no catchUp and nobody ticked, the backfill was
\* capped, a statement failed, or the slot began after the boot pass of a process
\* had read its clock and was over at its first tick.  (The last one hits
\* schedules with catchUp too.)  In particular a crash in the middle of a
\* backfill, and passes of other instances, leave no hole behind.
EverySlotAccounted ==
  \A t \in Aligned : \A s, u \in Slots(t) :
    \A v \in s .. u :
      (v - s) % Every[t] = 0 => v \in Slots(t) \/ <<t, v>> \in lapsed \cup straddled

\* While a timer is running no slot begins without its event: once an instance
\* has ticked, the event of the current slot is there, or a tick is due or
\* under way, or a statement failed.
CurrentSlotReady ==
  \A i \in Instances : \A t \in Aligned :
    LET current == slotStartFor(t, Clock(i), anchor[i])
    IN  life[i] = "up" /\ steady[i] /\ todo[i] = Idle /\ now < due[i]
          => current \in Slots(t) \/ <<t, current>> \in lapsed

=============================================================================
