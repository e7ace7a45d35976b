------------------------- MODULE EventSchedulerProofs -------------------------
(***************************************************************************)
(* Theorems about EventScheduler, for any instances with any skew, any     *)
(* schedules and cap, and any number of faults.                            *)
(***************************************************************************)
EXTENDS EventScheduler, TLAPS

-----------------------------------------------------------------------------
(* The grid of an aligned schedule *)

\* The slots of period n, counted from time 0.
Grid(n) == {q * n : q \in Nat}

LEMMA GridIsNat ==
  ASSUME NEW n \in Nat \ {0}, NEW v \in Grid(n)
  PROVE  v \in Nat
BY DEF Grid

LEMMA Multiply ==
  ASSUME NEW p \in Int, NEW q \in Int, NEW n \in Int
  PROVE  /\ p * n \in Int
         /\ (p + q) * n = p * n + q * n
         /\ (p - q) * n = p * n - q * n
         /\ 1 * n = n
OBVIOUS

LEMMA MultiplyGrows ==
  ASSUME NEW p \in Nat, NEW n \in Nat \ {0}
  PROVE  p * n \in Nat /\ (p >= 1 => p * n >= n)
OBVIOUS

\* Distances on the grid are multiples of the period, and nothing else.
LEMMA GridStep ==
  ASSUME NEW n \in Nat \ {0}, NEW u \in Grid(n)
  PROVE  u + n \in Grid(n)
<1>1. PICK q \in Nat : u = q * n
  BY DEF Grid
<1>2. u + n = (q + 1) * n /\ q + 1 \in Nat
  BY <1>1, Multiply
<1>3. \E r \in Nat : u + n = r * n
  BY <1>2, Zenon
<1> QED
  BY <1>3 DEF Grid

LEMMA GridDistance ==
  ASSUME NEW n \in Nat \ {0}, NEW u \in Grid(n), NEW v \in Grid(n), u < v
  PROVE  v - u >= n /\ (v - u) % n = 0
<1>1. PICK p \in Nat, q \in Nat : u = p * n /\ v = q * n
  BY DEF Grid
<1>2. q > p
  <2>1. SUFFICES ASSUME q <= p PROVE FALSE
    OBVIOUS
  <2>2. u = v + (p - q) * n /\ p - q \in Nat
    BY <1>1, <2>1, Multiply
  <2>3. (p - q) * n >= 0
    BY <2>2, MultiplyGrows
  <2> QED
    BY <2>2, <2>3, GridIsNat
<1>3. q - p \in Nat /\ q - p >= 1 /\ v - u = (q - p) * n
  BY <1>1, <1>2, Multiply
<1>4. (q - p) * n >= n
  BY <1>3, MultiplyGrows
<1>5. ((q - p) * n) % n = 0
  BY <1>3
<1> QED
  BY <1>3, <1>4, <1>5

LEMMA GridReached ==
  ASSUME NEW n \in Nat \ {0}, NEW u \in Grid(n), NEW v \in Nat, u <= v, (v - u) % n = 0
  PROVE  v \in Grid(n)
<1>1. PICK p \in Nat : u = p * n
  BY DEF Grid
<1> DEFINE d == (v - u) \div n
<1>2. u \in Nat /\ v - u \in Nat
  BY GridIsNat
<1>3. d \in Nat /\ v - u = d * n
  BY <1>2
<1>4. (p + d) * n = p * n + d * n
  BY <1>3, Multiply
<1>5. v = (p + d) * n /\ p + d \in Nat
  BY <1>1, <1>2, <1>3, <1>4
<1>6. \E r \in Nat : v = r * n
  BY <1>5, Zenon
<1> QED
  BY <1>6 DEF Grid

LEMMA GridBack ==
  ASSUME NEW n \in Nat \ {0}, NEW v \in Grid(n), NEW k \in Nat, v - k * n >= 0
  PROVE  v - k * n \in Grid(n)
<1>1. PICK q \in Nat : v = q * n
  BY DEF Grid
<1>2. v - k * n = (q - k) * n /\ q - k \in Int
  BY <1>1, Multiply
<1>3. q - k >= 0
  <2>1. SUFFICES ASSUME q - k < 0 PROVE FALSE
    BY <1>2
  <2>2. k - q \in Nat /\ k - q >= 1
    BY <2>1
  <2>3. (k - q) * n >= n /\ (k - q) * n = k * n - q * n
    BY <2>2, MultiplyGrows, Multiply
  <2> QED
    BY <1>1, <2>3, GridIsNat
<1> QED
  BY <1>2, <1>3 DEF Grid

\* The slot of a moment in an aligned schedule.
LEMMA SlotOnGrid ==
  ASSUME NEW t \in Aligned, NEW at \in Nat, NEW a
  PROVE  /\ slotStartFor(t, at, a) \in Grid(Every[t])
         /\ slotStartFor(t, at, a) <= at
         /\ at < slotStartFor(t, at, a) + Every[t]
<1> DEFINE n == Every[t]
<1>1. n \in Nat \ {0}
  BY SchedulerAssumption
<1> HIDE DEF n
<1>2. /\ (at \div n) \in Nat
      /\ (at \div n) * n <= at /\ at < (at \div n) * n + n
  BY <1>1
<1>3. slotStartFor(t, at, a) = (at \div n) * n
  BY DEF slotStartFor, n
<1>4. slotStartFor(t, at, a) \in Grid(n)
  BY <1>2, <1>3 DEF Grid
<1> QED
  BY <1>2, <1>3, <1>4 DEF n

LEMMA SlotIsNat ==
  ASSUME NEW t \in Types, NEW at \in Nat, NEW a \in Nat
  PROVE  slotStartFor(t, at, a) \in Nat
<1> DEFINE n == Every[t]
<1>1. n \in Nat \ {0}
  BY SchedulerAssumption
<1> HIDE DEF n
<1>2. CASE t \in Aligned
  BY <1>1, <1>2, SlotOnGrid, GridIsNat DEF n
<1>3. CASE t \notin Aligned
  <2>1. CASE at < a
    BY <1>3, <2>1 DEF slotStartFor
  <2>2. CASE ~ (at < a)
    <3>1. (at - a) \div n \in Nat
      BY <1>1, <2>2
    <3>2. ((at - a) \div n) * n \in Nat
      BY <1>1, <3>1, MultiplyGrows
    <3> QED
      BY <1>3, <2>2, <3>2 DEF slotStartFor, n
  <2> QED
    BY <2>1, <2>2
<1> QED
  BY <1>2, <1>3

-----------------------------------------------------------------------------
(* Types *)

\* The slots of a type have a newest one as soon as there is any, so that the
\* answer of lastScheduledSlotMs is a row.
HasNewest == \A t \in Types : Slots(t) = {} \/ \E s \in Slots(t) : IsNewest(t, s)

TypeInv == TypeOK /\ HasNewest

LEMMA SlotsAreNat ==
  ASSUME TypeOK, NEW t \in Types
  PROVE  Slots(t) \subseteq Nat /\ \A s : s \in Slots(t) <=> <<t, s>> \in rows
<1>1. rows \in SUBSET (Types \X Nat)
  BY DEF TypeOK
<1> QED
  BY <1>1 DEF Slots

LEMMA ClockIsNat ==
  ASSUME TypeOK, NEW i \in Instances
  PROVE  Clock(i) \in Nat
BY SchedulerAssumption DEF TypeOK, Clock

\* The newest slot, as LookupNewest and Missed choose it.
Last(t) == CHOOSE s \in Slots(t) : IsNewest(t, s)

LEMMA LastIsNewest ==
  ASSUME TypeInv, NEW t \in Types, Slots(t) # {}
  PROVE  Last(t) \in Slots(t) /\ Last(t) \in Nat /\ \A u \in Slots(t) : u <= Last(t)
<1>1. \E s \in Slots(t) : IsNewest(t, s)
  BY DEF TypeInv, HasNewest
<1>2. Last(t) \in Slots(t) /\ IsNewest(t, Last(t))
  BY <1>1 DEF Last
<1> QED
  BY <1>2, SlotsAreNat DEF TypeInv, IsNewest

LEMMA MissedMembers ==
  ASSUME TypeInv, NEW t \in Types, NEW current \in Nat
  PROVE  /\ Slots(t) = {} => \A v \in Nat :
              v < current /\ (current - v) % Every[t] = 0 => <<t, v>> \in Missed(t, current)
         /\ Slots(t) # {} => \A v \in Nat :
              Last(t) < v /\ v < current /\ (v - Last(t)) % Every[t] = 0
                => <<t, v>> \in Missed(t, current)
         /\ Missed(t, current) \in SUBSET (Types \X Nat)
<1>1. CASE Slots(t) = {}
  <2>1. Missed(t, current) = {t} \X {s \in 0 .. current - 1 : (current - s) % Every[t] = 0}
    BY <1>1 DEF Missed
  <2> QED
    BY <1>1, <2>1
<1>2. CASE Slots(t) # {}
  <2>1. Missed(t, current)
          = {<<t, s>> : s \in {u \in Last(t) + 1 .. current - 1 : (u - Last(t)) % Every[t] = 0}}
    BY <1>2 DEF Missed, Last
  <2>2. Last(t) \in Nat
    BY <1>2, LastIsNewest
  <2> QED
    BY <1>2, <2>1, <2>2
<1> QED
  BY <1>1, <1>2

\* A backfill starts at or before the current slot, and on its grid.
LEMMA BackfillFromType ==
  ASSUME NEW t \in Types, NEW current \in Nat, NEW last \in Nat \cup {Lookup}
  PROVE  /\ BackfillFrom(t, last, current) \in Nat
         /\ BackfillFrom(t, last, current) <= current
         /\ current \in Grid(Every[t]) /\ last \in Grid(Every[t]) \cup {Lookup}
              => BackfillFrom(t, last, current) \in Grid(Every[t])
<1> DEFINE n     == Every[t]
           from  == IF last = Lookup \/ last + n > current THEN current ELSE last + n
           total == ((current - from) \div n) + 1
           back  == MaxCatchUpSlots - 1
<1>1. n \in Nat \ {0} /\ back \in Nat /\ MaxCatchUpSlots \in Nat
  BY SchedulerAssumption
<1> HIDE DEF n
<1>2. from \in Nat /\ from <= current
  BY <1>1 DEF Lookup
<1>3. BackfillFrom(t, last, current)
        = IF total > MaxCatchUpSlots THEN current - back * n ELSE from
  BY DEF BackfillFrom, n
<1>4. ASSUME total > MaxCatchUpSlots
      PROVE  back * n \in Nat /\ current - back * n >= from
  <2> HIDE DEF from
  <2> DEFINE d == (current - from) \div n
  <2>1. d \in Nat /\ d * n <= current - from
    BY <1>1, <1>2
  <2>2. d - back \in Nat
    BY <1>1, <1>4, <2>1
  <2> HIDE DEF d, back
  <2>3. d * n = back * n + (d - back) * n /\ (d - back) * n \in Nat /\ back * n \in Nat
    <3>1. (back + (d - back)) * n = back * n + (d - back) * n
      BY <1>1, <2>1, <2>2, Multiply
    <3>2. back + (d - back) = d
      BY <1>1, <2>1
    <3> QED
      BY <1>1, <2>2, <3>1, <3>2, MultiplyGrows
  <2> QED
    BY <1>2, <2>1, <2>3
<1>5. ASSUME current \in Grid(n), last \in Grid(n) \cup {Lookup}
      PROVE  BackfillFrom(t, last, current) \in Grid(n)
  <2>1. CASE total > MaxCatchUpSlots
    <3>1. current - back * n >= 0
      BY <1>2, <1>4, <2>1
    <3> QED
      BY <1>1, <1>3, <1>5, <2>1, <3>1, GridBack
  <2>2. CASE ~ (total > MaxCatchUpSlots)
    <3>1. from \in Grid(n)
      BY <1>1, <1>5, GridStep
    <3> QED
      BY <1>3, <2>2, <3>1
  <2> QED
    BY <2>1, <2>2
<1>6. BackfillFrom(t, last, current) \in Nat /\ BackfillFrom(t, last, current) <= current
  <2>1. CASE total > MaxCatchUpSlots
    BY <1>2, <1>3, <1>4, <2>1
  <2>2. CASE ~ (total > MaxCatchUpSlots)
    BY <1>2, <1>3, <2>2
  <2> QED
    BY <2>1, <2>2
<1> QED
  BY <1>5, <1>6 DEF n

\* A new row leaves a newest one.
LEMMA InsertKeepsNewest ==
  ASSUME TypeInv, NEW t \in Types, NEW s \in Nat, rows' = rows \cup {<<t, s>>}
  PROVE  HasNewest'
<1> SUFFICES ASSUME NEW y \in Types
             PROVE  (Slots(y) = {})' \/ \E m \in Slots(y)' : IsNewest(y, m)'
  BY DEF HasNewest
<1>1. Slots(y)' = IF y = t THEN Slots(y) \cup {s} ELSE Slots(y)
  <2>1. rows' \in SUBSET (Types \X Nat)
    BY DEF TypeInv, TypeOK
  <2>2. \A v : v \in Slots(y)' <=> <<y, v>> \in rows'
    BY <2>1 DEF Slots
  <2>3. \A v : v \in Slots(y) <=> <<y, v>> \in rows
    BY SlotsAreNat DEF TypeInv
  <2>4. \A v : v \in Slots(y)' <=> v \in Slots(y) \/ (y = t /\ v = s)
    BY <2>2, <2>3
  <2> QED
    BY <2>4
<1>2. CASE y # t
  BY <1>1, <1>2 DEF TypeInv, HasNewest, IsNewest
<1>3. CASE y = t /\ Slots(t) = {}
  BY <1>1, <1>3 DEF IsNewest
<1>4. CASE y = t /\ Slots(t) # {}
  <2>1. PICK m \in Slots(t) : \A u \in Slots(t) : u <= m
    BY <1>4 DEF TypeInv, HasNewest, IsNewest
  <2>2. m \in Nat /\ Slots(t) \subseteq Nat
    BY <2>1, SlotsAreNat DEF TypeInv
  <2>3. CASE m <= s
    BY <1>1, <1>4, <2>1, <2>2, <2>3 DEF IsNewest
  <2>4. CASE s <= m
    BY <1>1, <1>4, <2>1, <2>2, <2>4 DEF IsNewest
  <2> QED
    BY <2>2, <2>3, <2>4
<1> QED
  BY <1>2, <1>3, <1>4

LEMMA InitTypeInv == Init => TypeInv
BY SchedulerAssumption
   DEF Init, TypeInv, TypeOK, HasNewest, Slots, Idle, Lookup

\* What a pass has still to insert is well typed when each type's share is.
LEMMA TodoType ==
  ASSUME TypeOK, NEW i \in Instances,
         NEW f \in [Types -> SUBSET (Nat \cup {Lookup})],
         todo' = [todo EXCEPT ![i] = f]
  PROVE  todo' \in [Instances -> [Types -> SUBSET (Nat \cup {Lookup})]]
BY DEF TypeOK

LEMMA PassType ==
  ASSUME TypeOK, NEW i \in Instances, NEW t \in Types, NEW S \in SUBSET (Nat \cup {Lookup}),
         todo[i][t] # {}, todo' = [todo EXCEPT ![i][t] = S], UNCHANGED life
  PROVE  /\ todo' \in [Instances -> [Types -> SUBSET (Nat \cup {Lookup})]]
         /\ \A j \in Instances : todo'[j] # Idle => life'[j] # "down"
<1>1. todo[i] \in [Types -> SUBSET (Nat \cup {Lookup})]
  BY DEF TypeOK
<1>2. [todo[i] EXCEPT ![t] = S] \in [Types -> SUBSET (Nat \cup {Lookup})]
  BY <1>1
<1>3. todo' = [todo EXCEPT ![i] = [todo[i] EXCEPT ![t] = S]]
  BY DEF TypeOK
<1>4. todo[i] # Idle
  BY DEF Idle
<1>5. \A j \in Instances : todo'[j] # Idle => life'[j] # "down"
  BY <1>3, <1>4 DEF TypeOK
<1> QED
  BY <1>2, <1>3, <1>5, TodoType

LEMMA NextTypeInv == TypeInv /\ [Next]_vars => TypeInv'
<1> SUFFICES ASSUME TypeInv, [Next]_vars PROVE TypeInv'
  OBVIOUS
<1> USE SchedulerAssumption
<1>1. TypeOK /\ HasNewest /\ \A i \in Instances : Clock(i) \in Nat
  BY ClockIsNat DEF TypeInv
<1>2. ASSUME UNCHANGED rows PROVE HasNewest'
  BY <1>1, <1>2 DEF HasNewest, IsNewest, Slots
<1>3. ASSUME NEW i \in Instances, Boot(i) PROVE TypeInv'
  <2> DEFINE f == [t \in Types |-> BootSlots(t, i)]
  <2>1. f \in [Types -> SUBSET (Nat \cup {Lookup})]
    BY <1>1, SlotIsNat DEF BootSlots
  <2>2. todo' \in [Instances -> [Types -> SUBSET (Nat \cup {Lookup})]]
    BY <1>1, <1>3, <2>1, TodoType DEF Boot
  <2>3. lapsed' \in SUBSET (Types \X Nat)
    <3>1. \A t \in Types : Missed(t, slotStartFor(t, Clock(i), Clock(i))) \in SUBSET (Types \X Nat)
      BY <1>1, SlotIsNat, MissedMembers
    <3> QED
      BY <1>1, <1>3, <3>1 DEF Boot, TypeOK
  <2>4. \A j \in Instances : todo'[j] # Idle => life'[j] # "down"
    BY <1>1, <1>3 DEF Boot, TypeOK
  <2> QED
    BY <1>1, <1>2, <1>3, <2>2, <2>3, <2>4 DEF Boot, TypeInv, TypeOK
<1>4. ASSUME NEW i \in Instances, StartTimer(i) PROVE TypeInv'
  BY <1>1, <1>2, <1>4 DEF StartTimer, TypeInv, TypeOK
<1>5. ASSUME NEW i \in Instances, Tick(i) PROVE TypeInv'
  <2> DEFINE f == [t \in Types |-> TickSlots(t, i)]
  <2>0. anchor[i] \in Nat
    BY <1>1 DEF TypeOK
  <2>1. f \in [Types -> SUBSET (Nat \cup {Lookup})]
    <3>1. \A t \in Types : slotStartFor(t, Clock(i), anchor[i]) \in Nat
      BY <1>1, <2>0, SlotIsNat
    <3>2. \A t \in Types : TickSlots(t, i) \in SUBSET (Nat \cup {Lookup})
      BY <3>1 DEF TickSlots
    <3> QED
      BY <3>2
  <2>2. todo' \in [Instances -> [Types -> SUBSET (Nat \cup {Lookup})]]
    BY <1>1, <1>5, <2>1, TodoType DEF Tick
  <2>3. straddled' \in SUBSET (Types \X Nat)
    <3>1. \A t \in Types : Straddled(t, i) \in SUBSET (Types \X Nat)
      <4>1. \A t \in Types : slotStartFor(t, Clock(i), anchor[i]) \in Nat
                             /\ slotStartFor(t, readAt[i], anchor[i]) \in Nat
        BY <1>1, <2>0, SlotIsNat DEF TypeOK
      <4> QED
        BY <4>1 DEF Straddled
    <3> QED
      BY <1>1, <1>5, <3>1 DEF Tick, TypeOK
  <2>4. \A j \in Instances : todo'[j] # Idle => life'[j] # "down"
    BY <1>1, <1>5 DEF Tick, TypeOK
  <2> QED
    BY <1>1, <1>2, <1>5, <2>2, <2>3, <2>4 DEF Tick, TypeInv, TypeOK
<1>6. ASSUME NEW i \in Instances, Stop(i) \/ Crash(i) PROVE TypeInv'
  <2>1. Idle \in [Types -> SUBSET (Nat \cup {Lookup})]
    BY DEF Idle
  <2>2. todo' \in [Instances -> [Types -> SUBSET (Nat \cup {Lookup})]]
    BY <1>1, <1>6, <2>1, TodoType DEF Stop, Crash, Ends
  <2>3. \A j \in Instances : todo'[j] # Idle => life'[j] # "down"
    BY <1>1, <1>6 DEF Stop, Crash, Ends, TypeOK
  <2>4. faults' \in 0 .. MaxFaults
    BY <1>1, <1>6 DEF Stop, Crash, TypeOK
  <2>5. Ends(i)
    BY <1>6 DEF Stop, Crash
  <2>6. /\ life' \in [Instances -> {"down", "boot", "up"}]
        /\ anchor' \in [Instances -> Nat] /\ readAt' \in [Instances -> Nat]
        /\ due' \in [Instances -> Nat] /\ steady' \in [Instances -> BOOLEAN]
        /\ UNCHANGED <<now, rows, lapsed, straddled>>
    BY <1>1, <2>5 DEF Ends, TypeOK
  <2> QED
    BY <1>1, <1>2, <2>2, <2>3, <2>4, <2>6 DEF TypeInv, TypeOK
<1>7. ASSUME NEW i \in Instances, NEW t \in Types, LookupNewest(i, t) PROVE TypeInv'
  <2> DEFINE current == slotStartFor(t, readAt[i], anchor[i])
             last    == IF Slots(t) = {} THEN Lookup ELSE Last(t)
             from    == BackfillFrom(t, last, current)
             S       == {s \in from .. current : (s - from) % Every[t] = 0}
  <2>1. current \in Nat
    BY <1>1, SlotIsNat DEF TypeOK
  <2> HIDE DEF current
  <2>2. last \in Nat \cup {Lookup}
    BY LastIsNewest
  <2> HIDE DEF last
  <2>3. from \in Nat
    BY <2>1, <2>2, BackfillFromType
  <2> HIDE DEF from
  <2>4. S \in SUBSET (Nat \cup {Lookup})
    BY <2>1, <2>3
  <2> HIDE DEF S
  <2>5. todo' = [todo EXCEPT ![i][t] = S] /\ todo[i][t] # {}
        /\ lapsed' = lapsed \cup {m \in Missed(t, current) : m[2] < from}
    BY <1>7 DEF LookupNewest, Last, At, current, last, from, S
  <2>6. /\ todo' \in [Instances -> [Types -> SUBSET (Nat \cup {Lookup})]]
        /\ \A j \in Instances : todo'[j] # Idle => life'[j] # "down"
    BY <1>1, <1>7, <2>4, <2>5, PassType DEF LookupNewest
  <2>7. lapsed' \in SUBSET (Types \X Nat)
    BY <1>1, <2>1, <2>5, MissedMembers DEF TypeOK
  <2> QED
    BY <1>1, <1>2, <1>7, <2>6, <2>7 DEF LookupNewest, TypeInv, TypeOK
<1>8. ASSUME NEW i \in Instances, NEW t \in Types, NEW s \in todo[i][t], Insert(i, t, s)
      PROVE  TypeInv'
  <2>1. s \in Nat /\ todo[i][t] \in SUBSET (Nat \cup {Lookup})
    BY <1>1, <1>8 DEF Insert, TypeOK
  <2>2. HasNewest'
    BY <1>8, <2>1, InsertKeepsNewest DEF Insert
  <2>3. /\ todo' \in [Instances -> [Types -> SUBSET (Nat \cup {Lookup})]]
        /\ \A j \in Instances : todo'[j] # Idle => life'[j] # "down"
    <3>1. todo' = [todo EXCEPT ![i][t] = todo[i][t] \ {s}]
      BY <1>1, <1>8 DEF Insert, TypeOK
    <3>2. todo[i][t] \ {s} \in SUBSET (Nat \cup {Lookup}) /\ todo[i][t] # {} /\ UNCHANGED life
      BY <1>8, <2>1 DEF Insert
    <3> QED
      BY <1>1, <3>1, <3>2, PassType
  <2> QED
    BY <1>1, <1>8, <2>1, <2>2, <2>3 DEF Insert, TypeInv, TypeOK
<1>9. ASSUME NEW i \in Instances, NEW t \in Types, NEW s \in todo[i][t], StatementFails(i, t, s)
      PROVE  TypeInv'
  <2>1. /\ todo' \in [Instances -> [Types -> SUBSET (Nat \cup {Lookup})]]
        /\ \A j \in Instances : todo'[j] # Idle => life'[j] # "down"
    <3> DEFINE none == {}
    <3>1. /\ todo' = [todo EXCEPT ![i][t] = none] /\ todo[i][t] # {} /\ UNCHANGED life
          /\ none \in SUBSET (Nat \cup {Lookup})
      BY <1>9 DEF StatementFails
    <3> HIDE DEF none
    <3> QED
      BY <1>1, <3>1, PassType
  <2>2. todo[i][t] \in SUBSET (Nat \cup {Lookup}) /\ readAt[i] \in Nat /\ anchor[i] \in Nat
    BY <1>1 DEF TypeOK
  <2>3. CASE s = Lookup
    <3>1. slotStartFor(t, readAt[i], anchor[i]) + Every[t] \in Nat
      <4>1. slotStartFor(t, readAt[i], anchor[i]) \in Nat
        BY <2>2, SlotIsNat
      <4> QED
        BY <4>1
    <3>2. lapsed' \in SUBSET (Types \X Nat)
      BY <1>1, <1>9, <2>3, <3>1, MissedMembers DEF StatementFails, TypeOK
    <3> QED
      BY <1>1, <1>2, <1>9, <2>1, <3>2 DEF StatementFails, TypeInv, TypeOK
  <2>4. CASE s # Lookup
    <3>1. s \in Nat /\ \A u \in todo[i][t] : s <= u
      BY <1>9, <2>2, <2>4 DEF StatementFails, At
    <3>2. todo[i][t] \in SUBSET Nat
      BY <2>2, <3>1 DEF Lookup
    <3>3. lapsed' \in SUBSET (Types \X Nat)
      BY <1>1, <1>9, <2>4, <3>2 DEF StatementFails, TypeOK
    <3> QED
      BY <1>1, <1>2, <1>9, <2>1, <3>3 DEF StatementFails, TypeInv, TypeOK
  <2> QED
    BY <2>3, <2>4
<1>10. CASE Advance
  BY <1>1, <1>2, <1>10 DEF Advance, TypeInv, TypeOK
<1>11. CASE UNCHANGED vars
  BY <1>1, <1>2, <1>11 DEF vars, TypeInv, TypeOK
<1> QED
  BY <1>3, <1>4, <1>5, <1>6, <1>7, <1>8, <1>9, <1>10, <1>11 DEF Next, Step

LEMMA TypeInvCorrect == Spec => []TypeInv
BY InitTypeInv, NextTypeInv, PTL DEF Spec

\* Every state of the scheduler is well typed; in particular a backfill never
\* reaches back before time 0, whatever the cap.
THEOREM SchedulerTypes == Spec => []TypeOK
BY TypeInvCorrect, PTL DEF TypeInv

-----------------------------------------------------------------------------
(* One event per slot *)

\* Every slot an instance inserts or is about to insert in an aligned schedule
\* is on the grid, whatever its clock says and wherever its backfill begins.
OnGrid ==
  \A t \in Aligned :
    /\ \A s \in Slots(t) : s \in Grid(Every[t])
    /\ \A i \in Instances : \A s \in todo[i][t] : s # Lookup => s \in Grid(Every[t])

\* A step changes the rows of the type it inserts for, and of no other.
LEMMA InsertSlots ==
  ASSUME TypeOK, NEW t \in Types, NEW s \in Nat, rows' = rows \cup {<<t, s>>}
  PROVE  \A y \in Types : \A v : v \in Slots(y)' <=> v \in Slots(y) \/ (y = t /\ v = s)
<1>1. rows' \in SUBSET (Types \X Nat)
  BY DEF TypeOK
<1>2. \A y \in Types : \A v : v \in Slots(y)' <=> <<y, v>> \in rows'
  BY <1>1 DEF Slots
<1>3. \A y \in Types : \A v : v \in Slots(y) <=> <<y, v>> \in rows
  BY SlotsAreNat
<1> SUFFICES ASSUME NEW y \in Types, NEW v
             PROVE  v \in Slots(y)' <=> v \in Slots(y) \/ (y = t /\ v = s)
  OBVIOUS
<1>4. <<y, v>> \in rows' <=> <<y, v>> \in rows \/ (y = t /\ v = s)
  OBVIOUS
<1> QED
  BY <1>2, <1>3, <1>4

\* The share of type t in the pass of i is replaced by S, which is on the grid.
LEMMA PassOnGrid ==
  ASSUME TypeOK, OnGrid, NEW i \in Instances, NEW t \in Types, NEW S,
         todo' = [todo EXCEPT ![i][t] = S],
         t \in Aligned => \A s \in S : s # Lookup => s \in Grid(Every[t])
  PROVE  \A y \in Aligned : \A j \in Instances : \A s \in todo'[j][y] :
           s # Lookup => s \in Grid(Every[y])
<1>1. ASSUME NEW y \in Aligned, NEW j \in Instances
      PROVE  todo'[j][y] = IF j = i /\ y = t THEN S ELSE todo[j][y]
  BY SchedulerAssumption DEF TypeOK
<1> QED
  BY <1>1 DEF OnGrid

LEMMA AlignedSlot ==
  ASSUME TypeOK, NEW i \in Instances, NEW t \in Aligned
  PROVE  \A at \in Nat, a \in Nat :
           /\ slotStartFor(t, at, a) \in Grid(Every[t])
           /\ slotStartFor(t, at, a) + Every[t] \in Grid(Every[t])
BY SlotOnGrid, GridStep, SchedulerAssumption

\* What the lookup of a backfill turns into.
LEMMA BackfillOnGrid ==
  ASSUME TypeInv, OnGrid, NEW i \in Instances, NEW t \in Aligned
  PROVE  LET current == slotStartFor(t, readAt[i], anchor[i])
             last    == IF Slots(t) = {} THEN Lookup ELSE Last(t)
             from    == BackfillFrom(t, last, current)
         IN  /\ current \in Grid(Every[t]) /\ from \in Grid(Every[t])
             /\ current \in Nat /\ from \in Nat /\ from <= current
             /\ \A s \in {u \in from .. current : (u - from) % Every[t] = 0} : s \in Grid(Every[t])
<1> DEFINE current == slotStartFor(t, readAt[i], anchor[i])
           last    == IF Slots(t) = {} THEN Lookup ELSE Last(t)
           from    == BackfillFrom(t, last, current)
<1>0. Every[t] \in Nat \ {0} /\ t \in Types
  BY SchedulerAssumption
<1>1. current \in Grid(Every[t]) /\ current \in Nat
  BY <1>0, AlignedSlot, GridIsNat DEF TypeInv, TypeOK
<1> HIDE DEF current
<1>2. last \in Nat \cup {Lookup} /\ last \in Grid(Every[t]) \cup {Lookup}
  BY <1>0, LastIsNewest DEF OnGrid
<1> HIDE DEF last
<1>3. from \in Nat /\ from <= current /\ from \in Grid(Every[t])
  BY <1>0, <1>1, <1>2, BackfillFromType
<1> HIDE DEF from
<1>4. \A s \in {u \in from .. current : (u - from) % Every[t] = 0} : s \in Grid(Every[t])
  BY <1>0, <1>1, <1>3, GridReached
<1> QED
  BY <1>1, <1>3, <1>4 DEF current, last, from

LEMMA NextOnGrid == TypeInv /\ OnGrid /\ [Next]_vars => OnGrid'
<1> SUFFICES ASSUME TypeInv, OnGrid, [Next]_vars PROVE OnGrid'
  OBVIOUS
<1>1. TypeOK /\ \A i \in Instances : Clock(i) \in Nat /\ anchor[i] \in Nat
  BY ClockIsNat DEF TypeInv, TypeOK
<1>2. Aligned \subseteq Types /\ \A t \in Types : Every[t] \in Nat \ {0}
  BY SchedulerAssumption
<1>3. ASSUME UNCHANGED rows,
             \A t \in Aligned : \A i \in Instances : \A s \in todo'[i][t] :
               s # Lookup => s \in Grid(Every[t])
      PROVE  OnGrid'
  BY <1>3 DEF OnGrid, Slots
<1>4. ASSUME NEW i \in Instances, NEW f, UNCHANGED rows, todo' = [todo EXCEPT ![i] = f],
             \A t \in Aligned : \A s \in f[t] : s # Lookup => s \in Grid(Every[t])
      PROVE  OnGrid'
  <2>1. \A j \in Instances : todo'[j] = IF j = i THEN f ELSE todo[j]
    BY <1>1, <1>4 DEF TypeOK
  <2> QED
    BY <1>3, <1>4, <2>1 DEF OnGrid
<1>5. ASSUME NEW i \in Instances, Boot(i) PROVE OnGrid'
  <2> DEFINE f == [t \in Types |-> BootSlots(t, i)]
  <2>1. \A t \in Aligned : \A s \in f[t] : s # Lookup => s \in Grid(Every[t])
    BY <1>1, <1>2, AlignedSlot DEF BootSlots
  <2> HIDE DEF f
  <2>2. UNCHANGED rows /\ todo' = [todo EXCEPT ![i] = f]
    BY <1>5 DEF Boot, f
  <2> QED
    BY <1>4, <2>1, <2>2
<1>6. ASSUME NEW i \in Instances, Tick(i) PROVE OnGrid'
  <2> DEFINE f == [t \in Types |-> TickSlots(t, i)]
  <2>1. \A t \in Aligned : \A s \in f[t] : s # Lookup => s \in Grid(Every[t])
    BY <1>1, <1>2, AlignedSlot DEF TickSlots
  <2> HIDE DEF f
  <2>2. UNCHANGED rows /\ todo' = [todo EXCEPT ![i] = f]
    BY <1>6 DEF Tick, f
  <2> QED
    BY <1>4, <2>1, <2>2
<1>7. ASSUME NEW i \in Instances, Stop(i) \/ Crash(i) PROVE OnGrid'
  <2>1. \A t \in Aligned : \A s \in Idle[t] : s # Lookup => s \in Grid(Every[t])
    BY <1>2 DEF Idle
  <2>2. UNCHANGED rows /\ todo' = [todo EXCEPT ![i] = Idle]
    BY <1>7 DEF Stop, Crash, Ends
  <2> QED
    BY <1>4, <2>1, <2>2
<1>8. ASSUME NEW i \in Instances, NEW t \in Types, LookupNewest(i, t) PROVE OnGrid'
  <2>1. PICK S : /\ todo' = [todo EXCEPT ![i][t] = S]
                 /\ t \in Aligned => \A s \in S : s # Lookup => s \in Grid(Every[t])
    BY <1>8, BackfillOnGrid DEF LookupNewest, Last
  <2> QED
    BY <1>1, <1>3, <1>8, <2>1, PassOnGrid DEF LookupNewest
<1>9. ASSUME NEW i \in Instances, NEW t \in Types, NEW s \in todo[i][t], Insert(i, t, s)
      PROVE  OnGrid'
  <2>1. s \in Nat /\ (t \in Aligned => s \in Grid(Every[t]))
    BY <1>1, <1>9 DEF Insert, TypeOK, OnGrid
  <2>2. \A y \in Aligned : \A v \in Slots(y)' : v \in Grid(Every[y])
    BY <1>1, <1>2, <1>9, <2>1, InsertSlots DEF Insert, OnGrid
  <2>3. todo' = [todo EXCEPT ![i][t] = todo[i][t] \ {s}]
    BY <1>1, <1>9 DEF Insert, TypeOK
  <2>4. \A y \in Aligned : \A j \in Instances : \A v \in todo'[j][y] :
          v # Lookup => v \in Grid(Every[y])
    BY <1>1, <2>3, PassOnGrid DEF OnGrid
  <2> QED
    BY <2>2, <2>4 DEF OnGrid
<1>10. ASSUME NEW i \in Instances, NEW t \in Types, NEW s \in todo[i][t], StatementFails(i, t, s)
      PROVE  OnGrid'
  <2>1. todo' = [todo EXCEPT ![i][t] = {}]
    BY <1>10 DEF StatementFails
  <2>2. \A y \in Aligned : \A j \in Instances : \A v \in todo'[j][y] :
          v # Lookup => v \in Grid(Every[y])
    <3> DEFINE none == {}
    <3>1. /\ todo' = [todo EXCEPT ![i][t] = none]
          /\ t \in Aligned => \A v \in none : v # Lookup => v \in Grid(Every[t])
      BY <2>1
    <3> HIDE DEF none
    <3> QED
      BY <1>1, <3>1, PassOnGrid
  <2> QED
    BY <1>3, <1>10, <2>2 DEF StatementFails
<1>11. ASSUME UNCHANGED <<rows, todo>> PROVE OnGrid'
  BY <1>11 DEF OnGrid, Slots
<1> QED
  BY <1>5, <1>6, <1>7, <1>8, <1>9, <1>10, <1>11 DEF Next, Step, StartTimer, Advance, vars

LEMMA GridCorrect == Spec => [](TypeInv /\ OnGrid)
<1>1. Init => OnGrid
  BY SchedulerAssumption DEF Init, OnGrid, Slots, Idle
<1> QED
  BY <1>1, InitTypeInv, NextTypeInv, NextOnGrid, PTL DEF Spec

\* No two events of an aligned schedule lie within one period, whatever
\* instances boot, tick and crash and however far their clocks differ.
THEOREM OneEvent == Spec => []OneEventPerSlot
<1>1. TypeInv /\ OnGrid => OneEventPerSlot
  <2> SUFFICES ASSUME OnGrid, NEW t \in Aligned, NEW s \in Slots(t), NEW u \in Slots(t), s < u
               PROVE  u - s >= Every[t]
    BY DEF OneEventPerSlot
  <2>1. s \in Grid(Every[t]) /\ u \in Grid(Every[t]) /\ Every[t] \in Nat \ {0}
    BY SchedulerAssumption DEF OnGrid
  <2> QED
    BY <2>1, GridDistance
<1> QED
  BY <1>1, GridCorrect, PTL

-----------------------------------------------------------------------------
(* No slot is lost silently *)

\* The tick of an aligned schedule comes once a period, and its lateness leaves
\* it within the slot that the tick before looked ahead to, or the next one.
Timely == \A t \in Aligned : /\ TickInterval <= Every[t]
                             /\ TickInterval + Lateness <= Every[t] + Every[t]

\* A slot has its event, or is known to have been given up.
Settled(t, v)   == v \in Slots(t) \/ <<t, v>> \in lapsed
Accounted(t, v) == v \in Slots(t) \/ <<t, v>> \in lapsed \cup straddled

CurrentSlot(i, t) == slotStartFor(t, readAt[i], anchor[i])

\* Below an event every slot is accounted for; below a slot that a pass is
\* about to insert too, or the pass inserts it first.
Behind == \A t \in Aligned : \A s \in Slots(t) : \A v \in Grid(Every[t]) :
            v <= s => Accounted(t, v)

PassAccounts ==
  \A i \in Instances : \A t \in Aligned : \A s \in todo[i][t] : \A v \in Grid(Every[t]) :
    s # Lookup /\ v < s => Accounted(t, v) \/ v \in todo[i][t]

\* A pass accounts for everything up to the slot it has read, or is still to
\* look up where to begin.
Booted ==
  \A i \in Instances : \A t \in Aligned : \A v \in Grid(Every[t]) :
    life[i] # "down" /\ v <= CurrentSlot(i, t)
      => Accounted(t, v) \/ v \in todo[i][t] \/ Lookup \in todo[i][t]

\* A running timer has looked at the slot of its last tick and the one after,
\* so the next tick, which is not too late, starts where this one ended.
TickedAhead ==
  \A i \in Instances : \A t \in Aligned : \A v \in Grid(Every[t]) :
    steady[i] /\ v <= CurrentSlot(i, t) + Every[t] => Accounted(t, v) \/ v \in todo[i][t]

Prepared ==
  \A i \in Instances : \A t \in Aligned : \A v \in Grid(Every[t]) :
    steady[i] /\ v \in {CurrentSlot(i, t), CurrentSlot(i, t) + Every[t]}
      => Settled(t, v) \/ v \in todo[i][t]

Timing ==
  \A i \in Instances :
    /\ steady[i] => /\ life[i] = "up"
                    /\ readAt[i] <= Clock(i)
                    /\ due[i] + Skew[i] = readAt[i] + TickInterval
                    /\ \A t \in Aligned : Lookup \notin todo[i][t]
    /\ life[i] = "up" => now <= due[i] + Lateness

PassInv == PassAccounts /\ Booted /\ TickedAhead /\ Prepared

AccountInv == Behind /\ PassInv /\ Timing

LEMMA InitAccount == Init => AccountInv
BY SchedulerAssumption
   DEF Init, AccountInv, Behind, PassInv, PassAccounts, Booted, TickedAhead, Prepared, Timing,
       Slots, Idle

\* What a pass gives up completes what is accounted for below its current slot.
LEMMA MissedAccounts ==
  ASSUME TypeInv, OnGrid, Behind, NEW t \in Aligned, NEW current \in Grid(Every[t]),
         NEW v \in Grid(Every[t]), v < current
  PROVE  Accounted(t, v) \/ <<t, v>> \in Missed(t, current)
<1>1. Every[t] \in Nat \ {0} /\ t \in Types
  BY SchedulerAssumption
<1>2. current \in Nat /\ v \in Nat /\ (current - v) % Every[t] = 0
  BY <1>1, GridIsNat, GridDistance
<1>3. CASE Slots(t) = {}
  BY <1>1, <1>2, <1>3, MissedMembers
<1>4. CASE Slots(t) # {}
  <2>1. Last(t) \in Slots(t) /\ Last(t) \in Nat /\ Last(t) \in Grid(Every[t])
    BY <1>1, <1>4, LastIsNewest DEF OnGrid
  <2>2. CASE v <= Last(t)
    BY <2>1, <2>2 DEF Behind
  <2>3. CASE Last(t) < v
    <3>1. (v - Last(t)) % Every[t] = 0
      BY <1>1, <2>1, <2>3, GridDistance
    <3> QED
      BY <1>1, <1>2, <1>4, <2>3, <3>1, MissedMembers
  <2> QED
    BY <1>2, <2>1, <2>2, <2>3
<1> QED
  BY <1>3, <1>4

\* A step that leaves the rows alone and gives up some slots.
LEMMA LapseKeeps ==
  ASSUME UNCHANGED rows, lapsed \subseteq lapsed', straddled \subseteq straddled'
  PROVE  /\ \A t \in Aligned : Slots(t)' = Slots(t)
         /\ \A t \in Aligned : \A v : Accounted(t, v) => Accounted(t, v)'
         /\ \A t \in Aligned : \A v : Settled(t, v) => Settled(t, v)'
         /\ Behind => Behind'
<1>1. \A t \in Aligned : Slots(t)' = Slots(t)
  BY DEF Slots
<1>2. \A t \in Aligned : \A v : Accounted(t, v) => Accounted(t, v)'
  BY <1>1 DEF Accounted
<1>3. \A t \in Aligned : \A v : Settled(t, v) => Settled(t, v)'
  BY <1>1 DEF Settled
<1> QED
  BY <1>1, <1>2, <1>3 DEF Behind

\* A step in which no pass moves.
LEMMA PassesStay ==
  ASSUME TypeOK, PassInv, UNCHANGED <<readAt, anchor, steady, todo>>,
         \A i \in Instances : life'[i] # "down" => life[i] # "down",
         \A t \in Aligned : \A v : Accounted(t, v) => Accounted(t, v)',
         \A t \in Aligned : \A v : Settled(t, v) => Settled(t, v)'
  PROVE  PassInv'
<1>1. ASSUME NEW i \in Instances, NEW t \in Aligned PROVE CurrentSlot(i, t)' = CurrentSlot(i, t)
  BY DEF CurrentSlot, slotStartFor
<1>2. PassAccounts'
  BY DEF PassAccounts, PassInv
<1>3. Booted'
  BY <1>1 DEF Booted, PassInv
<1>4. TickedAhead'
  BY <1>1 DEF TickedAhead, PassInv
<1>5. Prepared'
  BY <1>1 DEF Prepared, PassInv
<1> QED
  BY <1>2, <1>3, <1>4, <1>5 DEF PassInv

\* One pass changes, and the instances beside it keep theirs.
LEMMA OnePassChanges ==
  ASSUME TypeOK, AccountInv, NEW i \in Instances,
         \A j \in Instances \ {i} : todo'[j] = todo[j] /\ readAt'[j] = readAt[j] /\ life'[j] = life[j]
                                    /\ anchor'[j] = anchor[j] /\ steady'[j] = steady[j],
         \A t \in Aligned : \A v : Accounted(t, v) => Accounted(t, v)',
         \A t \in Aligned : \A v : Settled(t, v) => Settled(t, v)',
         \A t \in Aligned : \A s \in todo'[i][t] : \A v \in Grid(Every[t]) :
           s # Lookup /\ v < s => Accounted(t, v)' \/ v \in todo'[i][t],
         \A t \in Aligned : \A v \in Grid(Every[t]) :
           life'[i] # "down" /\ v <= CurrentSlot(i, t)'
             => Accounted(t, v)' \/ v \in todo'[i][t] \/ Lookup \in todo'[i][t],
         \A t \in Aligned : \A v \in Grid(Every[t]) :
           steady'[i] /\ v <= CurrentSlot(i, t)' + Every[t]
             => Accounted(t, v)' \/ v \in todo'[i][t],
         \A t \in Aligned : \A v \in Grid(Every[t]) :
           steady'[i] /\ v \in {CurrentSlot(i, t)', CurrentSlot(i, t)' + Every[t]}
             => Settled(t, v)' \/ v \in todo'[i][t]
  PROVE  PassInv'
<1>1. PassAccounts'
  BY DEF PassAccounts, AccountInv, PassInv
<1>2. ASSUME NEW j \in Instances \ {i}, NEW t \in Aligned PROVE CurrentSlot(j, t)' = CurrentSlot(j, t)
  BY <1>2 DEF CurrentSlot, slotStartFor
<1>3. TickedAhead'
  BY <1>2 DEF TickedAhead, AccountInv, PassInv
<1>4. Booted'
  BY <1>2 DEF Booted, AccountInv, PassInv
<1>5. Prepared'
  BY <1>2 DEF Prepared, AccountInv, PassInv
<1> QED
  BY <1>1, <1>3, <1>4, <1>5 DEF PassInv

LEMMA BootAccounts ==
  ASSUME TypeInv, OnGrid, AccountInv, NEW i \in Instances, Boot(i)
  PROVE  AccountInv'
<1>1. /\ TypeOK /\ Clock(i) \in Nat /\ Aligned \subseteq Types
      /\ todo' = [todo EXCEPT ![i] = [t \in Types |-> BootSlots(t, i)]]
      /\ UNCHANGED <<now, rows, due, steady>> /\ lapsed \subseteq lapsed'
      /\ UNCHANGED straddled
      /\ ~ steady[i]
  BY ClockIsNat, SchedulerAssumption DEF Boot, TypeInv, AccountInv, Timing
<1>2. ASSUME NEW t \in Aligned, NEW s \in todo'[i][t], NEW v \in Grid(Every[t]), s # Lookup, v < s
      PROVE  Accounted(t, v)'
  <2> DEFINE current == slotStartFor(t, Clock(i), Clock(i))
  <2>1. todo'[i][t] = BootSlots(t, i)
    BY <1>1 DEF TypeOK
  <2>2. t \notin CatchUp /\ s = current
    BY <1>2, <2>1 DEF BootSlots
  <2>3. current \in Grid(Every[t])
    BY <1>1, AlignedSlot
  <2>4. Accounted(t, v) \/ <<t, v>> \in Missed(t, current)
    BY <1>2, <2>2, <2>3, MissedAccounts DEF AccountInv
  <2>5. Missed(t, current) \subseteq lapsed'
    BY <1>1, <2>2 DEF Boot
  <2> QED
    BY <1>1, <2>4, <2>5, LapseKeeps DEF Accounted
<1>3. \A j \in Instances \ {i} : todo'[j] = todo[j] /\ readAt'[j] = readAt[j]
                                 /\ anchor'[j] = anchor[j] /\ steady'[j] = steady[j]
                                 /\ life'[j] = life[j]
  BY DEF Boot, TypeInv, TypeOK
<1>4. ASSUME NEW t \in Aligned, NEW v \in Grid(Every[t]), v <= CurrentSlot(i, t)'
      PROVE  Accounted(t, v)' \/ v \in todo'[i][t] \/ Lookup \in todo'[i][t]
  <2> DEFINE current == slotStartFor(t, Clock(i), Clock(i))
  <2>1. todo'[i][t] = BootSlots(t, i)
    BY <1>1 DEF TypeOK
  <2>2. CurrentSlot(i, t)' = current
    BY <1>1 DEF Boot, CurrentSlot, slotStartFor, TypeOK
  <2>3. current \in Grid(Every[t]) /\ Every[t] \in Nat \ {0}
    BY <1>1, AlignedSlot, SchedulerAssumption
  <2>4. CASE t \in CatchUp
    BY <2>1, <2>4 DEF BootSlots
  <2>5. CASE t \notin CatchUp
    <3>1. todo'[i][t] = {current}
      BY <2>1, <2>5 DEF BootSlots
    <3> HIDE DEF current
    <3>2. current \in Nat /\ v \in Nat /\ current # Lookup
      BY <2>3, GridIsNat DEF Lookup
    <3>3. v < current => Accounted(t, v)'
      BY <1>2, <3>1, <3>2
    <3> QED
      BY <1>4, <2>2, <3>1, <3>2, <3>3
  <2> QED
    BY <2>4, <2>5
<1>5. PassInv'
  BY <1>1, <1>2, <1>3, <1>4, LapseKeeps, OnePassChanges
<1>6. Timing'
  BY <1>1, <1>3 DEF Boot, Timing, AccountInv, TypeOK, Clock
<1> QED
  BY <1>1, <1>5, <1>6, LapseKeeps DEF AccountInv

LEMMA LookupAccounts ==
  ASSUME TypeInv, OnGrid, AccountInv, NEW i \in Instances, NEW t \in Types, LookupNewest(i, t)
  PROVE  AccountInv'
<1> DEFINE current == slotStartFor(t, readAt[i], anchor[i])
           last    == IF Slots(t) = {} THEN Lookup ELSE Last(t)
           from    == BackfillFrom(t, last, current)
           S       == {s \in from .. current : (s - from) % Every[t] = 0}
<1>1. /\ TypeOK /\ Aligned \subseteq Types /\ Lookup \in todo[i][t]
      /\ todo' = [todo EXCEPT ![i][t] = S]
      /\ lapsed' = lapsed \cup {m \in Missed(t, current) : m[2] < from}
      /\ UNCHANGED <<now, rows, life, anchor, readAt, due, steady, straddled>>
  BY SchedulerAssumption DEF LookupNewest, At, Last, TypeInv
<1>2. \A y \in Types : todo'[i][y] = IF y = t THEN S ELSE todo[i][y]
  BY <1>1 DEF TypeOK
<1>3. ASSUME t \in Aligned, NEW s \in S, NEW v \in Grid(Every[t]), v < s
      PROVE  Accounted(t, v)' \/ v \in S
  <2>1. /\ current \in Grid(Every[t]) /\ from \in Grid(Every[t])
        /\ current \in Nat /\ from \in Nat /\ from <= current
    BY <1>3, BackfillOnGrid
  <2>2. Every[t] \in Nat \ {0} /\ v \in Nat
    BY SchedulerAssumption, GridIsNat
  <2> HIDE DEF current, from
  <2>3. s \in Nat /\ s <= current
    BY <2>1
  <2>4. CASE v < from
    <3>1. v < current
      BY <2>1, <2>2, <2>4
    <3>2. Accounted(t, v) \/ <<t, v>> \in Missed(t, current)
      BY <1>3, <2>1, <3>1, MissedAccounts DEF AccountInv
    <3>3. Accounted(t, v) => Accounted(t, v)'
      BY <1>1, <1>3, LapseKeeps
    <3> QED
      BY <1>1, <2>4, <3>2, <3>3 DEF Accounted
  <2>5. CASE v = from
    BY <2>1, <2>2, <2>5
  <2>6. CASE from < v
    <3>1. (v - from) % Every[t] = 0
      BY <2>1, <2>2, <2>6, GridDistance
    <3> QED
      BY <1>3, <2>1, <2>2, <2>3, <2>6, <3>1
  <2> QED
    BY <2>1, <2>2, <2>4, <2>5, <2>6
<1>3A. ASSUME t \in Aligned, NEW v \in Grid(Every[t]), v <= current
      PROVE  Accounted(t, v)' \/ v \in S
  <2>1. /\ current \in Grid(Every[t]) /\ from \in Grid(Every[t])
        /\ current \in Nat /\ from \in Nat /\ from <= current
    BY <1>3A, BackfillOnGrid
  <2>2. Every[t] \in Nat \ {0} /\ v \in Nat
    BY SchedulerAssumption, GridIsNat
  <2> HIDE DEF current, from
  <2>3. current \in S
    <3>1. CASE from = current
      BY <2>1, <2>2, <3>1
    <3>2. CASE from < current
      BY <2>1, <2>2, <3>2, GridDistance
    <3> QED
      BY <2>1, <3>1, <3>2
  <2>4. CASE v = current
    BY <2>3, <2>4
  <2>5. CASE v < current
    BY <1>3, <1>3A, <2>3, <2>5
  <2> QED
    BY <1>3A, <2>1, <2>2, <2>4, <2>5
<1> HIDE DEF S
<1>4. \A j \in Instances \ {i} : todo'[j] = todo[j] /\ readAt'[j] = readAt[j]
                                 /\ anchor'[j] = anchor[j] /\ steady'[j] = steady[j]
                                 /\ life'[j] = life[j]
  BY <1>1 DEF TypeOK
<1>5. \A y \in Aligned : \A v : /\ Accounted(y, v) => Accounted(y, v)'
                                /\ Settled(y, v) => Settled(y, v)'
  BY <1>1, LapseKeeps
<1>6. \A y \in Aligned : \A s \in todo'[i][y] : \A v \in Grid(Every[y]) :
        s # Lookup /\ v < s => Accounted(y, v)' \/ v \in todo'[i][y]
  BY <1>1, <1>2, <1>3, <1>5 DEF AccountInv, PassInv, PassAccounts
\* A process whose timer has fired has no lookup to make.
<1>7. t \in Aligned => ~ steady[i]
  BY <1>1 DEF AccountInv, Timing
<1>8. ASSUME NEW y \in Aligned, NEW v \in Grid(Every[y]),
             steady'[i], v <= CurrentSlot(i, y)' + Every[y]
      PROVE  Accounted(y, v)' \/ v \in todo'[i][y]
  <2>1. y # t
    BY <1>1, <1>7, <1>8
  <2>2. CurrentSlot(i, y)' = CurrentSlot(i, y)
    BY <1>1 DEF CurrentSlot, slotStartFor
  <2>3. Accounted(y, v) \/ v \in todo[i][y]
    BY <1>1, <1>8, <2>2 DEF AccountInv, PassInv, TickedAhead
  <2> QED
    BY <1>1, <1>2, <1>5, <2>1, <2>3
<1>9. ASSUME NEW y \in Aligned, NEW v \in Grid(Every[y]),
             life'[i] # "down", v <= CurrentSlot(i, y)'
      PROVE  Accounted(y, v)' \/ v \in todo'[i][y] \/ Lookup \in todo'[i][y]
  <2>1. CurrentSlot(i, y)' = CurrentSlot(i, y)
    BY <1>1 DEF CurrentSlot, slotStartFor
  <2>2. CASE y # t
    <3>1. Accounted(y, v) \/ v \in todo[i][y] \/ Lookup \in todo[i][y]
      BY <1>1, <1>9, <2>1 DEF AccountInv, PassInv, Booted
    <3> QED
      BY <1>1, <1>2, <1>5, <2>2, <3>1
  <2>3. CASE y = t
    BY <1>2, <1>3A, <1>9, <2>1, <2>3 DEF CurrentSlot
  <2> QED
    BY <2>2, <2>3
<1>10. ASSUME NEW y \in Aligned, NEW v \in Grid(Every[y]),
              steady'[i], v \in {CurrentSlot(i, y)', CurrentSlot(i, y)' + Every[y]}
       PROVE  Settled(y, v)' \/ v \in todo'[i][y]
  <2>1. y # t
    BY <1>1, <1>7, <1>10
  <2>2. CurrentSlot(i, y)' = CurrentSlot(i, y)
    BY <1>1 DEF CurrentSlot, slotStartFor
  <2>3. Settled(y, v) \/ v \in todo[i][y]
    BY <1>1, <1>10, <2>2 DEF AccountInv, PassInv, Prepared
  <2> QED
    BY <1>1, <1>2, <1>5, <2>1, <2>3
<1>11. PassInv'
  BY <1>1, <1>4, <1>5, <1>6, <1>8, <1>9, <1>10, OnePassChanges
<1>12. Timing'
  <2>1. \A j \in Instances : \A y \in Aligned : steady[j] => Lookup \notin todo'[j][y]
    BY <1>1, <1>2, <1>4, <1>7 DEF AccountInv, Timing
  <2> QED
    BY <1>1, <2>1 DEF AccountInv, Timing, Clock
<1> QED
  BY <1>1, <1>11, <1>12, LapseKeeps DEF AccountInv

LEMMA InsertAccounts ==
  ASSUME TypeInv, AccountInv, NEW i \in Instances, NEW t \in Types, NEW s \in todo[i][t],
         Insert(i, t, s)
  PROVE  AccountInv'
<1>1. /\ TypeOK /\ Aligned \subseteq Types /\ s \in Nat
      /\ todo[i][t] \in SUBSET (Nat \cup {Lookup}) /\ \A u \in todo[i][t] : s <= u
      /\ rows' = rows \cup {<<t, s>>} /\ lapsed' = lapsed \ {<<t, s>>}
      /\ straddled' = straddled \ {<<t, s>>}
      /\ UNCHANGED <<now, life, anchor, readAt, due, steady>>
  BY SchedulerAssumption DEF Insert, At, TypeInv, TypeOK
<1>2. \A y \in Types : todo'[i][y] = IF y = t THEN todo[i][t] \ {s} ELSE todo[i][y]
  BY <1>1 DEF Insert, TypeOK
<1>3. \A y \in Aligned : \A v : v \in Slots(y)' <=> v \in Slots(y) \/ (y = t /\ v = s)
  BY <1>1, InsertSlots
<1>4. ASSUME NEW y \in Aligned, NEW v, Accounted(y, v) \/ (y = t /\ v = s)
      PROVE  Accounted(y, v)'
  <2>1. CASE y = t /\ v = s
    BY <1>3, <2>1 DEF Accounted
  <2>2. CASE ~ (y = t /\ v = s)
    <3>1. <<y, v>> # <<t, s>>
      BY <2>2
    <3> QED
      BY <1>1, <1>3, <1>4, <2>2, <3>1 DEF Accounted
  <2> QED
    BY <2>1, <2>2
<1>4S. ASSUME NEW y \in Aligned, NEW v, Settled(y, v) \/ (y = t /\ v = s)
      PROVE  Settled(y, v)'
  <2>1. CASE y = t /\ v = s
    BY <1>3, <2>1 DEF Settled
  <2>2. CASE ~ (y = t /\ v = s)
    <3>1. <<y, v>> # <<t, s>>
      BY <2>2
    <3> QED
      BY <1>1, <1>3, <1>4S, <2>2, <3>1 DEF Settled
  <2> QED
    BY <2>1, <2>2
<1>5. ASSUME NEW y \in Aligned, NEW u \in Slots(y)', NEW v \in Grid(Every[y]), v <= u
      PROVE  Accounted(y, v)'
  <2>1. v \in Nat
    BY SchedulerAssumption, GridIsNat
  <2>2. CASE u \in Slots(y)
    BY <1>4, <1>5, <2>2 DEF AccountInv, Behind
  <2>3. CASE y = t /\ u = s
    <3>1. CASE v = s
      BY <1>4, <2>3, <3>1
    <3>2. CASE v < s
      <4>1. v \notin todo[i][t]
        BY <1>1, <2>1, <3>2
      <4>2. s # Lookup
        BY <1>1 DEF Lookup
      <4> QED
        BY <1>4, <2>3, <3>2, <4>1, <4>2 DEF AccountInv, PassInv, PassAccounts
    <3> QED
      BY <1>1, <1>5, <2>1, <2>3, <3>1, <3>2
  <2> QED
    BY <1>3, <1>5, <2>2, <2>3
<1>6. \A j \in Instances \ {i} : todo'[j] = todo[j] /\ readAt'[j] = readAt[j]
                                 /\ anchor'[j] = anchor[j] /\ steady'[j] = steady[j]
                                 /\ life'[j] = life[j]
  BY <1>1 DEF Insert, TypeOK
<1>7. \A y \in Aligned : \A u \in todo'[i][y] : \A v \in Grid(Every[y]) :
        u # Lookup /\ v < u => Accounted(y, v)' \/ v \in todo'[i][y]
  BY <1>1, <1>2, <1>4 DEF AccountInv, PassInv, PassAccounts
<1>8. ASSUME NEW y \in Aligned, NEW v \in Grid(Every[y]),
             steady'[i], v <= CurrentSlot(i, y)' + Every[y]
      PROVE  Accounted(y, v)' \/ v \in todo'[i][y]
  <2>1. CurrentSlot(i, y)' = CurrentSlot(i, y)
    BY <1>1 DEF CurrentSlot, slotStartFor
  <2>2. Accounted(y, v) \/ v \in todo[i][y]
    BY <1>1, <1>8, <2>1 DEF AccountInv, PassInv, TickedAhead
  <2> QED
    BY <1>1, <1>2, <1>4, <2>2
<1>9. ASSUME NEW y \in Aligned, NEW v \in Grid(Every[y]),
             life'[i] # "down", v <= CurrentSlot(i, y)'
      PROVE  Accounted(y, v)' \/ v \in todo'[i][y] \/ Lookup \in todo'[i][y]
  <2>1. CurrentSlot(i, y)' = CurrentSlot(i, y)
    BY <1>1 DEF CurrentSlot, slotStartFor
  <2>2. Accounted(y, v) \/ v \in todo[i][y] \/ Lookup \in todo[i][y]
    BY <1>1, <1>9, <2>1 DEF AccountInv, PassInv, Booted
  <2>3. Lookup # s
    BY <1>1 DEF Lookup
  <2> QED
    BY <1>1, <1>2, <1>4, <2>2, <2>3
<1>10. ASSUME NEW y \in Aligned, NEW v \in Grid(Every[y]),
              steady'[i], v \in {CurrentSlot(i, y)', CurrentSlot(i, y)' + Every[y]}
       PROVE  Settled(y, v)' \/ v \in todo'[i][y]
  <2>1. CurrentSlot(i, y)' = CurrentSlot(i, y)
    BY <1>1 DEF CurrentSlot, slotStartFor
  <2>2. Settled(y, v) \/ v \in todo[i][y]
    BY <1>1, <1>10, <2>1 DEF AccountInv, PassInv, Prepared
  <2> QED
    BY <1>1, <1>2, <1>4S, <2>2
<1>11. PassInv'
  BY <1>1, <1>4, <1>4S, <1>6, <1>7, <1>8, <1>9, <1>10, OnePassChanges
<1>12. Timing'
  <2>1. \A j \in Instances : \A y \in Aligned : steady[j] => Lookup \notin todo'[j][y]
    BY <1>1, <1>2, <1>6 DEF AccountInv, Timing
  <2> QED
    BY <1>1, <2>1 DEF AccountInv, Timing, Clock
<1> QED
  BY <1>5, <1>11, <1>12 DEF AccountInv, Behind

LEMMA FailureAccounts ==
  ASSUME TypeInv, OnGrid, AccountInv, NEW i \in Instances, NEW t \in Types, NEW s \in todo[i][t],
         StatementFails(i, t, s)
  PROVE  AccountInv'
<1>1. /\ TypeOK /\ Aligned \subseteq Types /\ lapsed \subseteq lapsed'
      /\ UNCHANGED <<now, rows, life, anchor, readAt, due, steady, straddled>>
  BY SchedulerAssumption DEF StatementFails, TypeInv
<1>2. \A y \in Types : todo'[i][y] = IF y = t THEN {} ELSE todo[i][y]
  BY <1>1 DEF StatementFails, TypeOK
<1>3. \A j \in Instances \ {i} : todo'[j] = todo[j] /\ readAt'[j] = readAt[j]
                                 /\ anchor'[j] = anchor[j] /\ steady'[j] = steady[j]
                                 /\ life'[j] = life[j]
  BY <1>1 DEF StatementFails, TypeOK
<1>4. \A y \in Aligned : \A v : /\ Accounted(y, v) => Accounted(y, v)'
                                /\ Settled(y, v) => Settled(y, v)'
  BY <1>1, LapseKeeps
<1>5. \A y \in Aligned : \A u \in todo'[i][y] : \A v \in Grid(Every[y]) :
        u # Lookup /\ v < u => Accounted(y, v)' \/ v \in todo'[i][y]
  BY <1>1, <1>2, <1>4 DEF AccountInv, PassInv, PassAccounts
\* What was left of this schedule is given up, unless a lookup failed.
<1>6. ASSUME t \in Aligned, s # Lookup, NEW v \in todo[i][t] PROVE Settled(t, v)'
  <2>1. <<t, v>> \in rows \/ <<t, v>> \in lapsed'
    BY <1>6 DEF StatementFails
  <2>2. <<t, v>> \in rows => v \in Slots(t)
    BY <1>1, SlotsAreNat
  <2> QED
    BY <1>1, <1>6, <2>1, <2>2, LapseKeeps DEF Settled
<1>7. ASSUME NEW y \in Aligned, NEW v \in Grid(Every[y]),
             steady'[i], v <= CurrentSlot(i, y)' + Every[y]
      PROVE  Accounted(y, v)' \/ v \in todo'[i][y]
  <2>1. CurrentSlot(i, y)' = CurrentSlot(i, y)
    BY <1>1 DEF CurrentSlot, slotStartFor
  <2>2. Accounted(y, v) \/ v \in todo[i][y]
    BY <1>1, <1>7, <2>1 DEF AccountInv, PassInv, TickedAhead
  <2>3. CASE y # t
    BY <1>1, <1>2, <1>4, <2>2, <2>3
  <2>4. CASE y = t /\ v \in todo[i][t]
    <3>1. s # Lookup
      BY <1>1, <1>7, <2>4 DEF AccountInv, Timing
    <3> QED
      BY <1>6, <2>4, <3>1 DEF Accounted, Settled
  <2> QED
    BY <1>4, <2>2, <2>3, <2>4
<1>8. ASSUME NEW y \in Aligned, NEW v \in Grid(Every[y]),
             life'[i] # "down", v <= CurrentSlot(i, y)'
      PROVE  Accounted(y, v)' \/ v \in todo'[i][y] \/ Lookup \in todo'[i][y]
  <2>1. CurrentSlot(i, y)' = CurrentSlot(i, y)
    BY <1>1 DEF CurrentSlot, slotStartFor
  <2>2. Accounted(y, v) \/ v \in todo[i][y] \/ Lookup \in todo[i][y]
    BY <1>1, <1>8, <2>1 DEF AccountInv, PassInv, Booted
  <2>3. CASE y # t
    BY <1>1, <1>2, <1>4, <2>2, <2>3
  <2>4. CASE y = t /\ s # Lookup
    <3>1. Lookup \notin todo[i][t]
      <4>1. todo[i][t] \in SUBSET (Nat \cup {Lookup}) /\ \A u \in todo[i][t] : s <= u
        BY <1>1 DEF StatementFails, At, TypeOK
      <4> QED
        BY <2>4, <4>1 DEF Lookup
    <3> QED
      BY <1>4, <1>6, <2>2, <2>4, <3>1 DEF Accounted, Settled
  <2>5. CASE y = t /\ s = Lookup
    <3> DEFINE c == CurrentSlot(i, t)
    <3>1. c \in Grid(Every[t]) /\ c + Every[t] \in Grid(Every[t]) /\ Every[t] \in Nat \ {0}
      BY <1>1, <2>5, AlignedSlot, SchedulerAssumption DEF CurrentSlot, TypeOK
    <3>2. lapsed' = lapsed \cup Missed(t, c + Every[t])
      BY <2>5 DEF StatementFails, CurrentSlot
    <3>3. v <= c
      BY <1>8, <2>1, <2>5
    <3> HIDE DEF c
    <3>4. v < c + Every[t]
      BY <2>5, <3>1, <3>3, GridIsNat
    <3>5. Accounted(t, v) \/ <<t, v>> \in Missed(t, c + Every[t])
      BY <2>5, <3>1, <3>4, MissedAccounts DEF AccountInv
    <3> QED
      BY <1>4, <2>5, <3>2, <3>5 DEF Accounted
  <2> QED
    BY <2>3, <2>4, <2>5
<1>9. ASSUME NEW y \in Aligned, NEW v \in Grid(Every[y]),
             steady'[i], v \in {CurrentSlot(i, y)', CurrentSlot(i, y)' + Every[y]}
      PROVE  Settled(y, v)' \/ v \in todo'[i][y]
  <2>1. CurrentSlot(i, y)' = CurrentSlot(i, y)
    BY <1>1 DEF CurrentSlot, slotStartFor
  <2>2. Settled(y, v) \/ v \in todo[i][y]
    BY <1>1, <1>9, <2>1 DEF AccountInv, PassInv, Prepared
  <2>3. y = t => s # Lookup
    BY <1>1, <1>9 DEF AccountInv, Timing
  <2> QED
    BY <1>1, <1>2, <1>4, <1>6, <2>2, <2>3
<1>10. PassInv'
  BY <1>1, <1>3, <1>4, <1>5, <1>7, <1>8, <1>9, OnePassChanges
<1>11. Timing'
  <2>1. \A j \in Instances : \A y \in Aligned : steady[j] => Lookup \notin todo'[j][y]
    BY <1>1, <1>2, <1>3 DEF AccountInv, Timing
  <2> QED
    BY <1>1, <2>1 DEF AccountInv, Timing, Clock
<1> QED
  BY <1>1, <1>10, <1>11, LapseKeeps DEF AccountInv

\* Where the clock can be when the timer fires: in the slot of the tick before,
\* or at most two slots on; and before it fires, at most one.
LEMMA ClockAfterTick ==
  ASSUME TypeInv, Timing, Timely, NEW i \in Instances, NEW t \in Aligned,
         steady[i], NEW current \in Grid(Every[t]), current <= Clock(i)
  PROVE  /\ current <= CurrentSlot(i, t) + Every[t] + Every[t]
         /\ now < due[i] => current <= CurrentSlot(i, t) + Every[t]
<1> DEFINE n == Every[t]
           c == CurrentSlot(i, t)
<1>1. /\ n \in Nat \ {0} /\ t \in Types /\ TickInterval \in Nat /\ Lateness \in Nat
      /\ Skew[i] \in Nat /\ now \in Nat /\ due[i] \in Nat /\ readAt[i] \in Nat /\ anchor[i] \in Nat
  BY SchedulerAssumption DEF TypeInv, TypeOK
<1>2. c \in Grid(n) /\ readAt[i] < c + n
  BY <1>1, SlotOnGrid DEF CurrentSlot
<1> HIDE DEF c
<1>3. c \in Nat /\ current \in Nat /\ c + n \in Grid(n) /\ (c + n) + n \in Grid(n)
  BY <1>1, <1>2, GridIsNat, GridStep
<1>4. now + Skew[i] <= readAt[i] + TickInterval + Lateness
  BY <1>1 DEF Timing
<1>5. now < due[i] => now + Skew[i] < readAt[i] + TickInterval
  BY <1>1 DEF Timing
<1>6. TickInterval <= n /\ TickInterval + Lateness <= n + n
  BY DEF Timely
<1> HIDE DEF n
<1>7. current < c + n + n + n
  BY <1>1, <1>2, <1>3, <1>4, <1>6 DEF Clock
<1>8. now < due[i] => current < c + n + n
  BY <1>1, <1>2, <1>3, <1>5, <1>6 DEF Clock
<1>9. (c + n) + n < current => current - ((c + n) + n) >= n
  BY <1>1, <1>3, GridDistance DEF n
<1>10. c + n < current => current - (c + n) >= n
  BY <1>1, <1>3, GridDistance DEF n
<1> QED
  BY <1>1, <1>3, <1>7, <1>8, <1>9, <1>10 DEF n, c

LEMMA TickAccounts ==
  ASSUME Timely, TypeInv, OnGrid, AccountInv, NEW i \in Instances, Tick(i)
  PROVE  AccountInv'
<1>1. /\ TypeOK /\ Clock(i) \in Nat /\ anchor[i] \in Nat /\ Aligned \subseteq Types
      /\ todo[i] = Idle /\ life[i] = "up"
      /\ lapsed' = lapsed /\ straddled \subseteq straddled'
      /\ UNCHANGED <<now, rows, life, anchor>>
      /\ steady'[i] /\ readAt'[i] = Clock(i) /\ due'[i] = now + TickInterval
      /\ \A t \in Types : todo'[i][t] = TickSlots(t, i)
  BY ClockIsNat, SchedulerAssumption DEF Tick, TypeInv, TypeOK
<1>2. \A j \in Instances \ {i} : /\ todo'[j] = todo[j] /\ readAt'[j] = readAt[j]
                                 /\ anchor'[j] = anchor[j] /\ steady'[j] = steady[j]
                                 /\ due'[j] = due[j] /\ life'[j] = life[j]
  BY DEF Tick, TypeInv, TypeOK
<1>3. \A t \in Aligned : \A v : /\ Accounted(t, v) => Accounted(t, v)'
                                /\ Settled(t, v) => Settled(t, v)'
  BY <1>1, LapseKeeps
<1>4. ASSUME NEW t \in Aligned
      PROVE  /\ slotStartFor(t, Clock(i), anchor[i]) \in Grid(Every[t])
             /\ slotStartFor(t, Clock(i), anchor[i]) <= Clock(i)
  BY <1>1, SlotOnGrid
<1>5. ASSUME NEW t \in Aligned, NEW v \in Grid(Every[t]), v < slotStartFor(t, Clock(i), anchor[i])
      PROVE  Accounted(t, v)'
  <2> DEFINE current == slotStartFor(t, Clock(i), anchor[i])
             n == Every[t]
             c == CurrentSlot(i, t)
  <2>1. n \in Nat \ {0} /\ current \in Grid(n) /\ current <= Clock(i) /\ v < current /\ t \in Types
    BY <1>1, <1>4, <1>5, SchedulerAssumption
  <2> HIDE DEF current
  <2>2. CASE steady[i]
    <3>1. current <= c + n + n
      BY <2>1, <2>2, ClockAfterTick DEF AccountInv
    <3>2. current - v >= n /\ current \in Nat /\ v \in Nat
      BY <2>1, GridDistance, GridIsNat
    <3>3. c \in Nat
      BY <1>1, <2>1, SlotIsNat DEF CurrentSlot, TypeOK
    <3>4. v <= c + n
      BY <2>1, <3>1, <3>2, <3>3
    <3>5. v \notin todo[i][t]
      BY <1>1, <2>1 DEF Idle
    <3> QED
      BY <1>3, <2>2, <3>4, <3>5 DEF AccountInv, PassInv, TickedAhead
  <2>3. CASE ~ steady[i]
    <3>1. c \in Grid(n)
      BY <1>1, SlotOnGrid DEF CurrentSlot, TypeOK
    <3> HIDE DEF c
    <3>2. c \in Nat /\ current \in Nat /\ v \in Nat
      BY <2>1, <3>1, GridIsNat
    <3>3. CASE v <= c
      <4>1. v \notin todo[i][t] /\ Lookup \notin todo[i][t]
        BY <1>1, <2>1 DEF Idle
      <4> QED
        BY <1>1, <1>3, <3>3, <4>1 DEF AccountInv, PassInv, Booted, c
    <3>4. CASE c < v
      <4>1. (v - c) % n = 0
        BY <2>1, <3>1, <3>4, GridDistance
      <4>2. v \in {s \in c + 1 .. current - 1 : (s - c) % n = 0}
        BY <2>1, <3>2, <3>4, <4>1
      <4>3. <<t, v>> \in Straddled(t, i)
        BY <4>2 DEF Straddled, CurrentSlot, c, current
      <4>4. <<t, v>> \in straddled' \cup rows
        <5> DEFINE all == UNION {Straddled(y, i) : y \in Types}
        <5>1. straddled' = straddled \cup (all \ rows)
          BY <2>3 DEF Tick
        <5>2. <<t, v>> \in all
          BY <2>1, <4>3
        <5> HIDE DEF all
        <5> QED
          BY <5>1, <5>2
      <4>5. <<t, v>> \in rows => v \in Slots(t)
        BY <1>1, <2>1, SlotsAreNat
      <4>6. Slots(t)' = Slots(t)
        BY <1>1 DEF Slots
      <4> QED
        BY <4>4, <4>5, <4>6 DEF Accounted
    <3> QED
      BY <3>2, <3>3, <3>4
  <2> QED
    BY <2>2, <2>3
<1>6. ASSUME NEW t \in Aligned, NEW v \in Grid(Every[t]),
             v <= slotStartFor(t, Clock(i), anchor[i]) + Every[t]
      PROVE  Accounted(t, v)' \/ v \in todo'[i][t]
  <2> DEFINE current == slotStartFor(t, Clock(i), anchor[i])
             n == Every[t]
  <2>1. n \in Nat \ {0} /\ current \in Grid(n) /\ current \in Nat /\ v \in Nat
    BY <1>1, <1>4, SchedulerAssumption, GridIsNat
  <2>2. todo'[i][t] = {current, current + n}
    BY <1>1 DEF TickSlots
  <2> HIDE DEF current
  <2>3. CASE v < current
    BY <1>5, <2>3 DEF current
  <2>4. CASE v = current
    BY <2>2, <2>4
  <2>5. CASE current < v
    <3>1. v - current >= n
      BY <2>1, <2>5, GridDistance
    <3>2. v = current + n
      BY <1>6, <2>1, <3>1 DEF current
    <3> QED
      BY <2>2, <3>2
  <2> QED
    BY <2>1, <2>3, <2>4, <2>5
<1>7. ASSUME NEW t \in Aligned, NEW s \in todo'[i][t], NEW v \in Grid(Every[t]), v < s
      PROVE  Accounted(t, v)' \/ v \in todo'[i][t]
  <2> DEFINE current == slotStartFor(t, Clock(i), anchor[i])
             n == Every[t]
  <2>1. n \in Nat \ {0} /\ current \in Nat /\ v \in Nat
    BY <1>4, SchedulerAssumption, GridIsNat
  <2>2. s \in {current, current + n}
    BY <1>1 DEF TickSlots
  <2> HIDE DEF current
  <2>3. v <= current + n
    BY <1>7, <2>1, <2>2
  <2> QED
    BY <1>6, <2>3 DEF current
<1>8. ASSUME NEW t \in Aligned PROVE CurrentSlot(i, t)' = slotStartFor(t, Clock(i), anchor[i])
  BY <1>1 DEF CurrentSlot, slotStartFor
<1>9. PassInv'
  <2>1. \A t \in Aligned : \A v \in Grid(Every[t]) :
          steady'[i] /\ v <= CurrentSlot(i, t)' + Every[t] => Accounted(t, v)' \/ v \in todo'[i][t]
    BY <1>6, <1>8
  <2>2. ASSUME NEW t \in Aligned, NEW v \in Grid(Every[t]), v <= CurrentSlot(i, t)'
        PROVE  Accounted(t, v)' \/ v \in todo'[i][t]
    <3>1. CurrentSlot(i, t)' \in Nat /\ Every[t] \in Nat \ {0} /\ v \in Nat
      BY <1>4, <1>8, SchedulerAssumption, GridIsNat
    <3> QED
      BY <1>1, <2>1, <2>2, <3>1
  <2>3. \A t \in Aligned : todo'[i][t] = {CurrentSlot(i, t)', CurrentSlot(i, t)' + Every[t]}
    BY <1>1, <1>8 DEF TickSlots
  <2> QED
    BY <1>1, <1>2, <1>3, <1>7, <2>1, <2>2, <2>3, OnePassChanges
<1>10. Timing'
  <2>1. ASSUME NEW t \in Aligned PROVE Lookup \notin todo'[i][t]
    <3>1. slotStartFor(t, Clock(i), anchor[i]) \in Nat /\ Every[t] \in Nat
      BY <1>1, <1>4, SchedulerAssumption, GridIsNat
    <3> QED
      BY <1>1, <3>1 DEF TickSlots, Lookup
  <2>2. /\ due'[i] + Skew[i] = readAt'[i] + TickInterval
        /\ now' <= due'[i] + Lateness /\ readAt'[i] <= Clock(i)'
    BY <1>1, SchedulerAssumption DEF Clock, TypeOK
  <2> QED
    BY <1>1, <1>2, <2>1, <2>2 DEF AccountInv, Timing, Clock
<1> QED
  BY <1>1, <1>9, <1>10, LapseKeeps DEF AccountInv

LEMMA NextAccount ==
  ASSUME Timely, TypeInv, OnGrid, AccountInv, [Next]_vars
  PROVE  AccountInv'
<1>1. TypeOK /\ Aligned \subseteq Types
  BY SchedulerAssumption DEF TypeInv
<1>2. ASSUME NEW i \in Instances, Stop(i) \/ Crash(i) PROVE AccountInv'
  <2>1. Ends(i)
    BY <1>2 DEF Stop, Crash
  <2>2. /\ \A j \in Instances \ {i} : /\ todo'[j] = todo[j] /\ readAt'[j] = readAt[j]
                                      /\ anchor'[j] = anchor[j] /\ steady'[j] = steady[j]
                                      /\ due'[j] = due[j] /\ life'[j] = life[j]
        /\ todo'[i] = Idle /\ ~ steady'[i] /\ life'[i] = "down"
        /\ UNCHANGED <<now, rows, lapsed, straddled>>
    BY <1>1, <2>1 DEF Ends, TypeOK
  <2>3. PassInv'
    <3>1. \A t \in Aligned : todo'[i][t] = {}
      BY <1>1, <2>2 DEF Idle
    <3>2. \A t \in Aligned : \A v : /\ Accounted(t, v) => Accounted(t, v)'
                                    /\ Settled(t, v) => Settled(t, v)'
      BY <2>2, LapseKeeps
    <3> QED
      BY <1>1, <2>2, <3>1, <3>2, OnePassChanges
  <2>4. Timing'
    BY <2>2 DEF AccountInv, Timing, Clock
  <2> QED
    BY <2>2, <2>3, <2>4, LapseKeeps DEF AccountInv
<1>3. ASSUME NEW i \in Instances, StartTimer(i) PROVE AccountInv'
  <2>1. /\ UNCHANGED <<now, rows, anchor, readAt, todo, steady, lapsed, straddled>>
        /\ ~ steady[i] /\ due'[i] = now + TickInterval /\ life[i] = "boot"
        /\ \A j \in Instances \ {i} : life'[j] = life[j] /\ due'[j] = due[j]
    BY <1>1, <1>3 DEF StartTimer, AccountInv, Timing, TypeOK
  <2>2. PassInv'
    BY <1>1, <2>1, LapseKeeps, PassesStay DEF AccountInv
  <2>3. now' <= due'[i] + Lateness
    BY <1>1, <2>1, SchedulerAssumption DEF TypeOK
  <2>4. Timing'
    BY <2>1, <2>3 DEF AccountInv, Timing, Clock
  <2> QED
    BY <2>1, <2>2, <2>4, LapseKeeps DEF AccountInv
<1>4. CASE Advance
  <2>1. UNCHANGED <<rows, life, anchor, readAt, todo, due, steady, lapsed, straddled>>
    BY <1>4 DEF Advance
  <2>2. PassInv'
    BY <1>1, <2>1, LapseKeeps, PassesStay DEF AccountInv
  <2>3. \A i \in Instances : life'[i] = "up" => now' <= due'[i] + Lateness
    BY <1>1, <1>4, <2>1, SchedulerAssumption DEF Advance, TypeOK
  <2>4. \A i \in Instances : readAt[i] <= Clock(i) => readAt'[i] <= Clock(i)'
    BY <1>1, <1>4, <2>1, SchedulerAssumption DEF Advance, Clock, TypeOK
  <2>5. Timing'
    BY <2>1, <2>3, <2>4 DEF AccountInv, Timing
  <2> QED
    BY <2>1, <2>2, <2>5, LapseKeeps DEF AccountInv
<1>5. CASE UNCHANGED vars
  <2>1. UNCHANGED <<now, rows, life, anchor, readAt, todo, due, steady, lapsed, straddled>>
    BY <1>5 DEF vars
  <2>2. PassInv'
    BY <1>1, <2>1, LapseKeeps, PassesStay DEF AccountInv
  <2>3. Timing'
    BY <2>1 DEF AccountInv, Timing, Clock
  <2> QED
    BY <2>1, <2>2, <2>3, LapseKeeps DEF AccountInv
<1> QED
  BY <1>2, <1>3, <1>4, <1>5, BootAccounts, LookupAccounts, InsertAccounts, FailureAccounts,
     TickAccounts DEF Next, Step

LEMMA AccountCorrect ==
  ASSUME Timely
  PROVE  Spec => [](TypeInv /\ OnGrid /\ AccountInv)
<1>1. TypeInv /\ OnGrid /\ AccountInv /\ [Next]_vars => AccountInv'
  BY NextAccount
<1> QED
  BY <1>1, InitAccount, GridCorrect, PTL DEF Spec

\* When the timer is in time, a slot between two events of an aligned schedule
\* is missing for one of four reasons only: the misfire policy, the cap, a failed
\* statement, or a start of the process that the slot straddles, whose boot pass
\* had read its clock before the slot and whose first tick came after it.  Passes
\* of other instances and crashes in the middle of a backfill leave no hole.
THEOREM SlotsAreAccounted == ASSUME Timely PROVE Spec => []EverySlotAccounted
<1>1. OnGrid /\ AccountInv /\ TypeInv => EverySlotAccounted
  <2> SUFFICES ASSUME OnGrid, AccountInv, TypeInv, NEW t \in Aligned, NEW s \in Slots(t),
                      NEW u \in Slots(t), NEW v \in s .. u, (v - s) % Every[t] = 0
               PROVE  Accounted(t, v)
    BY DEF EverySlotAccounted, Accounted
  <2>1. s \in Grid(Every[t]) /\ Every[t] \in Nat \ {0} /\ s \in Nat /\ u \in Nat
    BY SchedulerAssumption, SlotsAreNat DEF OnGrid, TypeInv
  <2>2. v \in Nat /\ s <= v /\ v <= u
    BY <2>1
  <2>3. v \in Grid(Every[t])
    BY <2>1, <2>2, GridReached
  <2> QED
    BY <2>2, <2>3 DEF AccountInv, Behind
<1> QED
  BY <1>1, AccountCorrect, PTL

\* Under the same condition the event of a slot is there before the slot begins:
\* each tick has looked one slot ahead, and the next one comes before that ends.
THEOREM SlotIsReady == ASSUME Timely PROVE Spec => []CurrentSlotReady
<1>1. OnGrid /\ AccountInv /\ TypeInv => CurrentSlotReady
  <2> SUFFICES ASSUME OnGrid, AccountInv, TypeInv, NEW i \in Instances, NEW t \in Aligned,
                      steady[i], todo[i] = Idle, now < due[i]
               PROVE  Settled(t, slotStartFor(t, Clock(i), anchor[i]))
    BY DEF CurrentSlotReady, Settled
  <2> DEFINE current == slotStartFor(t, Clock(i), anchor[i])
             c == CurrentSlot(i, t)
             n == Every[t]
  <2>1. /\ Clock(i) \in Nat /\ t \in Types /\ n \in Nat \ {0}
        /\ readAt[i] \in Nat /\ readAt[i] <= Clock(i)
    BY ClockIsNat, SchedulerAssumption DEF TypeInv, TypeOK, AccountInv, Timing
  <2>2. /\ current \in Grid(n) /\ current <= Clock(i) /\ Clock(i) < current + n
        /\ c \in Grid(n) /\ c <= readAt[i]
    BY <2>1, SlotOnGrid DEF CurrentSlot
  <2> HIDE DEF current
  <2>3. current <= c + n
    BY <2>2, ClockAfterTick DEF AccountInv
  <2>4. current \notin todo[i][t]
    BY <2>1 DEF Idle
  <2> HIDE DEF c, n
  <2>5. current \in Nat /\ c \in Nat
    BY <2>1, <2>2, GridIsNat
  <2>6. current < c => c - current >= n
    BY <2>1, <2>2, GridDistance
  <2>7. c < current => current - c >= n
    BY <2>1, <2>2, GridDistance
  <2>8. current \in {c, c + n}
    BY <2>1, <2>2, <2>3, <2>5, <2>6, <2>7
  <2> QED
    BY <2>2, <2>4, <2>8 DEF AccountInv, PassInv, Prepared, current, c, n
<1> QED
  BY <1>1, AccountCorrect, PTL

=============================================================================
