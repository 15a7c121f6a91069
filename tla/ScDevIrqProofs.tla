--------------------------- MODULE ScDevIrqProofs ---------------------------
(***************************************************************************)
(* Proofs about the driver, for every set of sources, processors and       *)
(* readers, every counter width and every number of interrupts.            *)
(***************************************************************************)
EXTENDS ScDevIrq, FiniteSetTheorems, TLAPS

LEMMA TypeOKStep == TypeOK /\ [Next]_vars => TypeOK'
<1> SUFFICES ASSUME TypeOK, [Next]_vars
             PROVE  TypeOK'
  OBVIOUS
<1> USE ConstantsAssumption
    DEF TypeOK, IsrState, ReadState, Count, Result, Pending, ERESTARTSYS,
        EFAULT, EINVAL, devVars, isrVars, readVars, served
<1>1. ASSUME NEW s \in Source, Raise(s) PROVE TypeOK'
  BY <1>1 DEF Raise
<1>2. CASE EnableIrqs
  BY <1>2 DEF EnableIrqs
<1>3. CASE DisableIrqs
  BY <1>3 DEF DisableIrqs
<1>4. ASSUME NEW c \in CPU, NEW s \in Source, IsrEnter(c, s) PROVE TypeOK'
  BY <1>4 DEF IsrEnter
<1>5. ASSUME NEW c \in CPU, IsrReadStatus(c) PROVE TypeOK'
  BY <1>5 DEF IsrReadStatus
<1>6. ASSUME NEW c \in CPU, IsrClear(c) PROVE TypeOK'
  BY <1>6 DEF IsrClear
<1>7. ASSUME NEW c \in CPU, IsrCount(c) PROVE TypeOK'
  <2>1. \A s \in Source : (count[s] + 1) % CountMod \in 0 .. CountMod - 1
    OBVIOUS
  <2>2. count' \in [Source -> 0 .. CountMod - 1]
    BY <1>7, <2>1 DEF IsrCount
  <2>3. wrapped' \in [Source -> BOOLEAN]
    BY <1>7 DEF IsrCount
  <2>4. QED
    BY <1>7, <2>2, <2>3 DEF IsrCount
<1>8. ASSUME NEW c \in CPU, IsrWake(c) PROVE TypeOK'
  BY <1>8 DEF IsrWake
<1>9. ASSUME NEW r \in Reader, ReadShort(r) PROVE TypeOK'
  BY <1>9 DEF ReadShort
<1>10. ASSUME NEW r \in Reader, NEW s \in Source, ReadEnter(r, s) PROVE TypeOK'
  BY <1>10 DEF ReadEnter
<1>11. ASSUME NEW r \in Reader, ReadCheck(r) PROVE TypeOK'
  BY <1>11 DEF ReadCheck
<1>12. ASSUME NEW r \in Reader, ReadSignal(r) PROVE TypeOK'
  BY <1>12 DEF ReadSignal
<1>13. ASSUME NEW r \in Reader, ReadTake(r) PROVE TypeOK'
  <2>1. node[r] \in Source /\ count[node[r]] \in 0 .. CountMod - 1
    OBVIOUS
  <2>2. QED
    BY <1>13, <2>1 DEF ReadTake
<1>14. CASE UNCHANGED vars
  BY <1>14 DEF vars
<1>15. QED
  BY <1>1, <1>2, <1>3, <1>4, <1>5, <1>6, <1>7, <1>8, <1>9, <1>10, <1>11,
     <1>12, <1>13, <1>14 DEF Next, IsrStep, ReadStep

\* The variables always have values of their types; in particular a counter
\* never leaves the range of a u32.
THEOREM TypeCorrect == Spec => []TypeOK
<1>1. Init => TypeOK
  BY ConstantsAssumption
     DEF Init, TypeOK, IsrState, ReadState, Count, Result, ERESTARTSYS
<1>2. QED
  BY <1>1, TypeOKStep, PTL DEF Spec

\* A reader that takes a counter moves all of it to the delivered interrupts,
\* or to the lost ones, and touches no other source.
LEMMA TakeAccounts ==
    ASSUME TypeOK, NEW r \in Reader, ReadTake(r), NEW s \in Source
    PROVE  /\ count'[s] + delivered'[s] + faulted'[s]
                = count[s] + delivered[s] + faulted[s]
           /\ delivered'[s] \in Nat /\ faulted'[s] \in Nat
<1>1. /\ node[r] \in Source /\ count[node[r]] \in Nat /\ count[s] \in Nat
      /\ delivered[s] \in Nat /\ faulted[s] \in Nat
  BY ConstantsAssumption DEF TypeOK, Count
<1>2. count'[s] = IF s = node[r] THEN 0 ELSE count[s]
  BY DEF ReadTake, TypeOK
<1>3. \/ /\ delivered'[s] = delivered[s] + (IF s = node[r] THEN count[s] ELSE 0)
         /\ faulted'[s] = faulted[s]
      \/ /\ faulted'[s] = faulted[s] + (IF s = node[r] THEN count[s] ELSE 0)
         /\ delivered'[s] = delivered[s]
  BY <1>1 DEF ReadTake, TypeOK
<1>4. QED
  BY <1>1, <1>2, <1>3

-----------------------------------------------------------------------------
(* No interrupt is lost, for any number of processors.                     *)

LEMMA InFlightType ==
    ASSUME TypeOK, NEW s \in Source
    PROVE  /\ IsFiniteSet(InFlight(s))
           /\ Cardinality(InFlight(s)) \in Nat
<1>1. InFlight(s) \in SUBSET CPU
  BY DEF InFlight
<1>2. IsFiniteSet(CPU)
  BY ConstantsAssumption
<1>3. IsFiniteSet(InFlight(s))
  BY <1>1, <1>2, FS_Subset
<1>4. QED
  BY <1>3, FS_CardinalityType

\* A step that neither starts nor ends a CPU's "cleared" stage leaves InFlight.
LEMMA InFlightStable ==
    ASSUME TypeOK, NEW s \in Source,
           \A c \in CPU : isr'[c] = "cleared" <=> isr[c] = "cleared",
           \A c \in CPU : isr[c] = "cleared" => seen'[c] = seen[c]
    PROVE  InFlight(s)' = InFlight(s)
BY DEF InFlight

\* Clearing the status register takes what the handler saw into flight.
LEMMA InFlightClear ==
    ASSUME TypeOK, NEW c \in CPU, IsrClear(c), NEW s \in Source
    PROVE  Cardinality(InFlight(s)') =
             Cardinality(InFlight(s)) + (IF s \in seen[c] THEN 1 ELSE 0)
<1>1. c \notin InFlight(s)
  BY DEF InFlight, IsrClear
<1>2. InFlight(s)' = IF s \in seen[c] THEN InFlight(s) \cup {c} ELSE InFlight(s)
  BY DEF InFlight, IsrClear, TypeOK
<1>3. IsFiniteSet(InFlight(s)) /\ Cardinality(InFlight(s)) \in Nat
  BY InFlightType
<1>4. Cardinality(InFlight(s) \cup {c}) = Cardinality(InFlight(s)) + 1
  BY <1>1, <1>3, FS_AddElement
<1>5. QED
  BY <1>2, <1>3, <1>4

\* Counting takes it out of flight.
LEMMA InFlightCount ==
    ASSUME TypeOK, NEW c \in CPU, IsrCount(c), NEW s \in Source
    PROVE  Cardinality(InFlight(s)') =
             Cardinality(InFlight(s)) - (IF s \in seen[c] THEN 1 ELSE 0)
<1>1. s \in seen[c] => c \in InFlight(s)
  BY DEF InFlight, IsrCount
<1>2. InFlight(s)' = IF s \in seen[c] THEN InFlight(s) \ {c} ELSE InFlight(s)
  BY DEF InFlight, IsrCount, TypeOK
<1>3. IsFiniteSet(InFlight(s)) /\ Cardinality(InFlight(s)) \in Nat
  BY InFlightType
<1>4. s \in seen[c] => Cardinality(InFlight(s) \ {c}) = Cardinality(InFlight(s)) - 1
  BY <1>1, <1>3, FS_RemoveElement
<1>5. QED
  BY <1>2, <1>3, <1>4

\* The steps that touch no term of the count of interrupts.
LEMMA BystanderStep ==
    ASSUME TypeOK, [Next]_vars,
           ~ (\E s \in Source : Raise(s)), ~ (\E c \in CPU : IsrClear(c) \/ IsrCount(c)),
           ~ (\E r \in Reader : ReadTake(r))
    PROVE  /\ UNCHANGED <<status, count, raised, delivered, faulted, wrapped>>
           /\ \A c \in CPU : isr'[c] = "cleared" <=> isr[c] = "cleared"
           /\ \A c \in CPU : isr[c] = "cleared" => seen'[c] = seen[c]
<1> USE DEF TypeOK, devVars, isrVars, readVars, served
<1>1. CASE EnableIrqs \/ DisableIrqs
  BY <1>1 DEF EnableIrqs, DisableIrqs
<1>2. ASSUME NEW c \in CPU, NEW s \in Source, IsrEnter(c, s)
      PROVE  /\ UNCHANGED <<status, count, raised, delivered, faulted, wrapped, seen>>
             /\ isr[c] = "idle" /\ isr' = [isr EXCEPT ![c] = "entered"]
  BY <1>2 DEF IsrEnter
<1>3. ASSUME NEW c \in CPU, IsrReadStatus(c)
      PROVE  /\ UNCHANGED <<status, count, raised, delivered, faulted, wrapped>>
             /\ isr[c] = "entered" /\ isr'[c] # "cleared"
             /\ \A d \in CPU \ {c} : isr'[d] = isr[d] /\ seen'[d] = seen[d]
  BY <1>3 DEF IsrReadStatus
<1>4. ASSUME NEW c \in CPU, IsrWake(c)
      PROVE  /\ UNCHANGED <<status, count, raised, delivered, faulted, wrapped>>
             /\ isr[c] = "wake" /\ isr'[c] # "cleared"
             /\ \A d \in CPU \ {c} : isr'[d] = isr[d] /\ seen'[d] = seen[d]
  BY <1>4 DEF IsrWake
<1>5. ASSUME NEW r \in Reader,
             ReadShort(r) \/ (\E s \in Source : ReadEnter(r, s))
               \/ ReadCheck(r) \/ ReadSignal(r)
      PROVE  UNCHANGED <<status, count, raised, delivered, faulted, wrapped, isr, seen>>
  BY <1>5 DEF ReadShort, ReadEnter, ReadCheck, ReadSignal
<1>6. CASE UNCHANGED vars
  BY <1>6 DEF vars
<1>7. QED
  BY <1>1, <1>2, <1>3, <1>4, <1>5, <1>6 DEF Next, IsrStep, ReadStep

LEMMA NothingLostStep == TypeOK /\ NothingLost /\ [Next]_vars => NothingLost'
<1> SUFFICES ASSUME TypeOK, NothingLost, [Next]_vars, NEW s \in Source, ~wrapped'[s]
             PROVE  raised'[s] <= Unread(s)' + delivered'[s] + faulted'[s]
  BY DEF NothingLost
<1>1. Cardinality(InFlight(s)) \in Nat /\ count[s] \in Nat /\ count'[s] \in Nat
      /\ raised[s] \in Nat /\ delivered[s] \in Nat /\ faulted[s] \in Nat
  <2>1. TypeOK'
    BY TypeOKStep
  <2>2. QED
    BY <2>1, InFlightType, ConstantsAssumption DEF TypeOK, Count
<1>2. ~wrapped[s] => raised[s] <= Unread(s) + delivered[s] + faulted[s]
  BY DEF NothingLost
<1> USE DEF devVars, isrVars, readVars, served
<1>3. CASE \E t \in Source : Raise(t)
  <2>1. PICK t \in Source : Raise(t)
    BY <1>3
  <2>2. InFlight(s)' = InFlight(s) /\ UNCHANGED <<count, delivered, faulted, wrapped>>
    BY <2>1 DEF Raise, InFlight
  <2>3. raised'[s] = raised[s] + (IF s = t THEN 1 ELSE 0)
    BY <2>1, <1>1 DEF Raise, TypeOK
  <2>4. (s = t => s \notin status) /\ (s \in status' <=> s \in status \/ s = t)
    BY <2>1 DEF Raise
  <2>5. QED
    BY <1>1, <1>2, <2>2, <2>3, <2>4 DEF Unread
<1>4. ASSUME NEW c \in CPU, IsrClear(c)
      PROVE  raised'[s] <= Unread(s)' + delivered'[s] + faulted'[s]
  <2>1. Cardinality(InFlight(s)') =
          Cardinality(InFlight(s)) + (IF s \in seen[c] THEN 1 ELSE 0)
    BY <1>4, InFlightClear
  <2>2. (s \in status' <=> s \in status /\ s \notin seen[c])
        /\ UNCHANGED <<count, raised, delivered, faulted, wrapped>>
    BY <1>4 DEF IsrClear
  <2>3. QED
    BY <1>1, <1>2, <2>1, <2>2 DEF Unread
<1>5. ASSUME NEW c \in CPU, IsrCount(c)
      PROVE  raised'[s] <= Unread(s)' + delivered'[s] + faulted'[s]
  <2>1. Cardinality(InFlight(s)') =
          Cardinality(InFlight(s)) - (IF s \in seen[c] THEN 1 ELSE 0)
    BY <1>5, InFlightCount
  <2>2. ~wrapped[s] /\ (s \in seen[c] => count[s] + 1 # CountMod)
    BY <1>5 DEF IsrCount
  <2>3. count'[s] = count[s] + (IF s \in seen[c] THEN 1 ELSE 0)
    <3>1. count[s] \in 0 .. CountMod - 1 /\ CountMod \in Nat
      BY ConstantsAssumption DEF TypeOK, Count
    <3>2. s \in seen[c] => (count[s] + 1) % CountMod = count[s] + 1
      BY <2>2, <3>1
    <3>3. QED
      BY <1>5, <3>1, <3>2 DEF IsrCount
  <2>4. UNCHANGED <<status, raised, delivered, faulted>>
    BY <1>5 DEF IsrCount
  <2>5. QED
    BY <1>1, <1>2, <2>1, <2>2, <2>3, <2>4 DEF Unread
<1>6. ASSUME NEW r \in Reader, ReadTake(r)
      PROVE  raised'[s] <= Unread(s)' + delivered'[s] + faulted'[s]
  <2>1. InFlight(s)' = InFlight(s) /\ UNCHANGED <<status, raised, wrapped>>
    BY <1>6 DEF ReadTake, InFlight
  <2>2. count'[s] + delivered'[s] + faulted'[s] = count[s] + delivered[s] + faulted[s]
        /\ delivered'[s] \in Nat /\ faulted'[s] \in Nat
    BY <1>1, <1>6, TakeAccounts
  <2>3. QED
    BY <1>1, <1>2, <2>1, <2>2 DEF Unread
<1>7. CASE ~ (\E t \in Source : Raise(t)) /\ ~ (\E c \in CPU : IsrClear(c) \/ IsrCount(c))
           /\ ~ (\E r \in Reader : ReadTake(r))
  <2>1. UNCHANGED <<status, count, raised, delivered, faulted, wrapped>>
        /\ InFlight(s)' = InFlight(s)
    BY <1>7, BystanderStep, InFlightStable
  <2>2. QED
    BY <1>2, <2>1 DEF Unread
<1>8. QED
  BY <1>3, <1>4, <1>5, <1>6, <1>7

LEMMA InitUnread ==
    ASSUME Init, NEW s \in Source
    PROVE  Unread(s) = 0
<1>1. InFlight(s) = {}
  BY DEF Init, InFlight
<1>2. QED
  BY <1>1, FS_EmptySet DEF Init, Unread

\* However many processors serve the lines and whoever reads the nodes, no
\* interrupt is lost between the device's status bit and a reader, as long as
\* the counter does not overflow.
THEOREM NoInterruptLost == Spec => []NothingLost
<1>1. Init => NothingLost
  <2> SUFFICES ASSUME Init, NEW s \in Source
               PROVE  raised[s] <= Unread(s) + delivered[s] + faulted[s]
    BY DEF NothingLost
  <2> QED
    BY InitUnread DEF Init
<1>2. QED
  BY <1>1, NothingLostStep, TypeCorrect, PTL DEF Spec

-----------------------------------------------------------------------------
(* No wake-up is lost, for any number of processors and readers.           *)

\* A thread never sleeps beside a nonzero counter with no handler left to wake it.
THEOREM NoWakeupLost == Spec => []NoLostWakeup
<1>1. Init => NoLostWakeup
  BY DEF Init, NoLostWakeup
<1>2. TypeOK /\ NoLostWakeup /\ [Next]_vars => NoLostWakeup'
  <2> SUFFICES ASSUME TypeOK, NoLostWakeup, [Next]_vars, NEW r \in Reader,
                      rd'[r] = "asleep", count'[node'[r]] # 0
               PROVE  \E c \in CPU : isr'[c] = "wake" /\ node'[r] \in seen'[c]
    BY DEF NoLostWakeup
  <2> DEFINE Waker(c) == isr[c] = "wake" /\ node[r] \in seen[c]
             Goal == \E c \in CPU : isr'[c] = "wake" /\ node'[r] \in seen'[c]
  <2>1. rd[r] = "asleep" /\ count[node[r]] # 0 => \E c \in CPU : Waker(c)
    BY DEF NoLostWakeup
  <2> USE DEF TypeOK, devVars, isrVars, readVars, served
  <2>2. CASE UNCHANGED <<isr, seen, rd, node, count>>
    BY <2>1, <2>2
  <2>3. ASSUME NEW c \in CPU, NEW s \in Source, IsrEnter(c, s) PROVE Goal
    BY <2>1, <2>3 DEF IsrEnter
  <2>4. ASSUME NEW c \in CPU, IsrReadStatus(c) PROVE Goal
    BY <2>1, <2>4 DEF IsrReadStatus
  <2>5. ASSUME NEW c \in CPU, IsrClear(c) PROVE Goal
    BY <2>1, <2>5 DEF IsrClear
  <2>6. ASSUME NEW c \in CPU, IsrCount(c) PROVE Goal
    <3>1. node[r] \in Source /\ node'[r] = node[r] /\ rd[r] = "asleep"
          /\ seen' = seen /\ isr'[c] = "wake"
          /\ \A d \in CPU \ {c} : isr'[d] = isr[d]
          /\ isr[c] = "cleared"
      BY <2>6 DEF IsrCount
    <3>2. node[r] \notin seen[c] => count'[node[r]] = count[node[r]]
      BY <2>6, <3>1 DEF IsrCount
    <3>3. CASE node[r] \in seen[c]
      BY <3>1, <3>3
    <3>4. CASE node[r] \notin seen[c]
      BY <2>1, <3>1, <3>2, <3>4
    <3>5. QED
      BY <3>3, <3>4
  <2>7. ASSUME NEW c \in CPU, IsrWake(c) PROVE Goal
    <3>1. PICK s \in seen[c] :
            /\ seen' = [seen EXCEPT ![c] = @ \ {s}]
            /\ isr' = [isr EXCEPT ![c] = IF seen[c] = {s} THEN "idle" ELSE "wake"]
            /\ rd' = [q \in Reader |-> IF rd[q] = "asleep" /\ node[q] = s
                                       THEN "check" ELSE rd[q]]
            /\ UNCHANGED <<node, count>>
      BY <2>7 DEF IsrWake
    <3>2. rd[r] = "asleep" /\ node[r] # s
      BY <3>1
    <3>3. PICK d \in CPU : Waker(d)
      BY <2>1, <3>1, <3>2
    <3>4. isr'[d] = "wake" /\ node'[r] \in seen'[d]
      BY <3>1, <3>2, <3>3
    <3>5. QED
      BY <3>4
  <2>8. ASSUME NEW q \in Reader, NEW s \in Source, ReadEnter(q, s) PROVE Goal
    BY <2>1, <2>8 DEF ReadEnter
  <2>9. ASSUME NEW q \in Reader, ReadCheck(q) PROVE Goal
    BY <2>1, <2>9 DEF ReadCheck
  <2>10. ASSUME NEW q \in Reader, ReadSignal(q) PROVE Goal
    BY <2>1, <2>10 DEF ReadSignal
  <2>11. ASSUME NEW q \in Reader, ReadTake(q) PROVE Goal
    <3>1. UNCHANGED <<isr, seen, node>> /\ rd[r] = "asleep"
          /\ count' = [count EXCEPT ![node[q]] = 0]
      BY <2>11 DEF ReadTake
    <3>2. node[r] # node[q] /\ count'[node[r]] = count[node[r]]
      BY <3>1
    <3>3. QED
      BY <2>1, <3>1, <3>2
  <2>12. ASSUME \/ \E s \in Source : Raise(s)
                \/ EnableIrqs \/ DisableIrqs
                \/ \E q \in Reader : ReadShort(q)
                \/ UNCHANGED vars
         PROVE  UNCHANGED <<isr, seen, rd, node, count>>
    BY <2>12 DEF Raise, EnableIrqs, DisableIrqs, ReadShort, vars
  <2>13. QED
    BY <2>2, <2>3, <2>4, <2>5, <2>6, <2>7, <2>8, <2>9, <2>10, <2>11, <2>12
       DEF Next, IsrStep, ReadStep
<1>3. QED
  BY <1>1, <1>2, TypeCorrect, PTL DEF Spec

-----------------------------------------------------------------------------
(* With one processor the count is exact.                                  *)

OneCPU == \A c, d \in CPU : c = d

\* What makes the count exact: between a handler's read of the status register
\* and its clear, nobody else clears, so what it saw is still pending.
SeenIsPending == \A c \in CPU : isr[c] = "read" => seen[c] \subseteq status

LEMMA SeenIsPendingStep ==
    ASSUME OneCPU, TypeOK, SeenIsPending, [Next]_vars
    PROVE  SeenIsPending'
<1> SUFFICES ASSUME NEW c \in CPU, isr'[c] = "read"
             PROVE  seen'[c] \subseteq status'
  BY DEF SeenIsPending
<1>1. isr[c] = "read" => seen[c] \subseteq status
  BY DEF SeenIsPending
<1> USE DEF TypeOK, devVars, isrVars, readVars, served
<1>2. CASE \E s \in Source : Raise(s)
  BY <1>1, <1>2 DEF Raise
<1>3. CASE EnableIrqs \/ DisableIrqs
  BY <1>1, <1>3 DEF EnableIrqs, DisableIrqs
<1>4. ASSUME NEW d \in CPU, IsrStep(d) PROVE seen'[c] \subseteq status'
  <2>1. c = d
    BY DEF OneCPU
  <2>2. CASE \E s \in Source : IsrEnter(c, s)
    BY <2>2 DEF IsrEnter
  <2>3. CASE IsrReadStatus(c)
    BY <2>3 DEF IsrReadStatus
  <2>4. CASE IsrClear(c) \/ IsrCount(c) \/ IsrWake(c)
    BY <2>4 DEF IsrClear, IsrCount, IsrWake
  <2>5. QED
    BY <1>4, <2>1, <2>2, <2>3, <2>4 DEF IsrStep
<1>5. ASSUME NEW r \in Reader,
             ReadShort(r) \/ (\E s \in Source : ReadEnter(r, s))
               \/ ReadStep(r) \/ ReadSignal(r)
      PROVE  UNCHANGED <<status, isr, seen>>
  BY <1>5 DEF ReadShort, ReadEnter, ReadStep, ReadCheck, ReadTake, ReadSignal
<1>6. CASE UNCHANGED vars
  BY <1>1, <1>6 DEF vars
<1>7. QED
  BY <1>1, <1>2, <1>3, <1>4, <1>5, <1>6 DEF Next

\* Clearing the status register loses nothing and gains nothing.
LEMMA ClearIsExact ==
    ASSUME TypeOK, SeenIsPending, NEW c \in CPU, IsrClear(c), NEW s \in Source
    PROVE  Unread(s)' = Unread(s)
<1>1. Cardinality(InFlight(s)') =
        Cardinality(InFlight(s)) + (IF s \in seen[c] THEN 1 ELSE 0)
  BY InFlightClear
<1>2. (s \in seen[c] => s \in status) /\ (s \in status' <=> s \in status /\ s \notin seen[c])
      /\ count' = count
  BY DEF IsrClear, SeenIsPending
<1>3. Cardinality(InFlight(s)) \in Nat /\ count[s] \in Nat
  BY InFlightType, ConstantsAssumption DEF TypeOK, Count
<1>4. QED
  BY <1>1, <1>2, <1>3 DEF Unread

\* Counting loses nothing, unless the counter overflows: then it loses 2^32.
LEMMA CountIsExact ==
    ASSUME TypeOK, NEW c \in CPU, IsrCount(c), NEW s \in Source
    PROVE  IF s \in seen[c] /\ count[s] + 1 = CountMod
           THEN Unread(s)' = Unread(s) - CountMod /\ wrapped'[s] /\ Unread(s) >= CountMod
           ELSE Unread(s)' = Unread(s)
<1>1. Cardinality(InFlight(s)') =
        Cardinality(InFlight(s)) - (IF s \in seen[c] THEN 1 ELSE 0)
  BY InFlightCount
<1>2. count[s] \in 0 .. CountMod - 1 /\ CountMod \in Nat
      /\ Cardinality(InFlight(s)) \in Nat /\ Cardinality(InFlight(s)') \in Nat
  <2>1. TypeOK'
    BY TypeOKStep DEF Next, IsrStep
  <2>2. Cardinality(InFlight(s)') \in Nat
    <3>1. Cardinality(InFlight(s)) >= (IF s \in seen[c] THEN 1 ELSE 0)
      <4>1. s \in seen[c] => InFlight(s) # {}
        BY DEF InFlight, IsrCount
      <4>2. QED
        BY <4>1, InFlightType, FS_EmptySet
    <3>2. QED
      BY <1>1, <3>1, InFlightType
  <2>3. QED
    BY <2>2, InFlightType, ConstantsAssumption DEF TypeOK, Count
<1>3. count'[s] = IF s \in seen[c]
                  THEN IF count[s] + 1 = CountMod THEN 0 ELSE count[s] + 1
                  ELSE count[s]
  <2>1. s \in seen[c] /\ count[s] + 1 # CountMod => (count[s] + 1) % CountMod = count[s] + 1
    BY <1>2
  <2>2. s \in seen[c] /\ count[s] + 1 = CountMod => (count[s] + 1) % CountMod = 0
    BY <1>2
  <2>3. QED
    BY <1>2, <2>1, <2>2 DEF IsrCount
<1>4. status' = status /\ (wrapped'[s] <=> wrapped[s] \/ (s \in seen[c] /\ count[s] + 1 = CountMod))
  BY DEF IsrCount, devVars, TypeOK
<1>5. QED
  BY <1>1, <1>2, <1>3, <1>4 DEF Unread

LEMMA NothingTwiceStep ==
    ASSUME TypeOK, SeenIsPending, NothingTwice, [Next]_vars
    PROVE  NothingTwice'
<1> SUFFICES ASSUME NEW s \in Source, ~wrapped'[s]
             PROVE  raised'[s] = Unread(s)' + delivered'[s] + faulted'[s]
  BY DEF NothingTwice
<1>1. /\ ~wrapped[s] => raised[s] = Unread(s) + delivered[s] + faulted[s]
      /\ Cardinality(InFlight(s)) \in Nat /\ count[s] \in Nat /\ raised[s] \in Nat
      /\ delivered[s] \in Nat /\ faulted[s] \in Nat
  BY InFlightType, ConstantsAssumption DEF NothingTwice, TypeOK, Count
<1> USE DEF devVars, isrVars, readVars, served
<1>2. ASSUME NEW t \in Source, Raise(t)
      PROVE  raised'[s] = Unread(s)' + delivered'[s] + faulted'[s]
  <2>1. InFlight(s)' = InFlight(s) /\ UNCHANGED <<count, delivered, faulted, wrapped>>
    BY <1>2 DEF Raise, InFlight
  <2>2. raised'[s] = raised[s] + (IF s = t THEN 1 ELSE 0)
        /\ (s = t => s \notin status) /\ (s \in status' <=> s \in status \/ s = t)
    BY <1>1, <1>2 DEF Raise, TypeOK
  <2>3. QED
    BY <1>1, <2>1, <2>2 DEF Unread
<1>3. ASSUME NEW c \in CPU, IsrClear(c)
      PROVE  raised'[s] = Unread(s)' + delivered'[s] + faulted'[s]
  BY <1>1, <1>3, ClearIsExact DEF IsrClear
<1>4. ASSUME NEW c \in CPU, IsrCount(c)
      PROVE  raised'[s] = Unread(s)' + delivered'[s] + faulted'[s]
  <2>1. Unread(s)' = Unread(s)
    BY <1>4, CountIsExact
  <2>2. ~wrapped[s] /\ UNCHANGED <<raised, delivered, faulted>>
    BY <1>4 DEF IsrCount
  <2>3. QED
    BY <1>1, <2>1, <2>2
<1>5. ASSUME NEW r \in Reader, ReadTake(r)
      PROVE  raised'[s] = Unread(s)' + delivered'[s] + faulted'[s]
  <2>1. InFlight(s)' = InFlight(s) /\ UNCHANGED <<status, raised, wrapped>>
    BY <1>5 DEF ReadTake, InFlight
  <2>2. count'[s] + delivered'[s] + faulted'[s] = count[s] + delivered[s] + faulted[s]
        /\ count'[s] \in Nat /\ delivered'[s] \in Nat /\ faulted'[s] \in Nat
    <3>1. count'[s] \in Nat
      BY <1>1, <1>5 DEF ReadTake, TypeOK
    <3>2. QED
      BY <1>5, <3>1, TakeAccounts
  <2>3. QED
    BY <1>1, <2>1, <2>2 DEF Unread
<1>6. CASE ~ (\E t \in Source : Raise(t)) /\ ~ (\E c \in CPU : IsrClear(c) \/ IsrCount(c))
           /\ ~ (\E r \in Reader : ReadTake(r))
  <2>1. UNCHANGED <<status, count, raised, delivered, faulted, wrapped>>
        /\ InFlight(s)' = InFlight(s)
    BY <1>6, BystanderStep, InFlightStable
  <2>2. QED
    BY <1>1, <2>1 DEF Unread
<1>7. QED
  BY <1>2, <1>3, <1>4, <1>5, <1>6

\* On one processor the counts are exact: nothing is lost and nothing is counted
\* twice, as long as the counter does not overflow.
THEOREM CountExact ==
    ASSUME OneCPU
    PROVE  Spec => []NothingTwice
<1>1. Init => NothingTwice /\ SeenIsPending
  <2> SUFFICES ASSUME Init
               PROVE  NothingTwice /\ SeenIsPending
    OBVIOUS
  <2>1. SeenIsPending
    BY DEF Init, SeenIsPending
  <2>2. ASSUME NEW s \in Source
        PROVE  raised[s] = Unread(s) + delivered[s] + faulted[s]
    BY InitUnread DEF Init
  <2>3. QED
    BY <2>1, <2>2 DEF NothingTwice
<1>2. TypeOK /\ SeenIsPending /\ NothingTwice /\ [Next]_vars
        => SeenIsPending' /\ NothingTwice'
  BY SeenIsPendingStep, NothingTwiceStep
<1>3. QED
  BY <1>1, <1>2, TypeCorrect, PTL DEF Spec

-----------------------------------------------------------------------------
(* With one processor the driver implements the counting channel.          *)

unreadBar == [s \in Source |-> Unread(s)]

LEMMA ChannelStep ==
    ASSUME TypeOK, SeenIsPending, [Next]_vars
    PROVE  [Channel!Next]_<<unreadBar, delivered, faulted>>
<1> USE DEF devVars, isrVars, readVars, served
<1>1. \A s \in Source : /\ Unread(s) \in Nat /\ count[s] \in Nat /\ count[s] <= Unread(s)
                        /\ Cardinality(InFlight(s)) \in Nat
                        /\ delivered[s] \in Nat /\ faulted[s] \in Nat
  BY InFlightType, ConstantsAssumption DEF TypeOK, Count, Unread
<1>2. ASSUME NEW t \in Source, Raise(t) PROVE Channel!Raise(t)
  <2>1. \A s \in Source : Unread(s)' = IF s = t THEN Unread(s) + 1 ELSE Unread(s)
    <3>1. ASSUME NEW s \in Source PROVE Unread(s)' = IF s = t THEN Unread(s) + 1 ELSE Unread(s)
      <4>1. InFlight(s)' = InFlight(s) /\ count' = count
            /\ (s = t => s \notin status) /\ (s \in status' <=> s \in status \/ s = t)
        BY <1>2 DEF Raise, InFlight
      <4>2. QED
        BY <1>1, <4>1 DEF Unread
    <3>2. QED
      BY <3>1
  <2>2. UNCHANGED <<delivered, faulted>>
    BY <1>2 DEF Raise
  <2>3. QED
    BY <2>1, <2>2 DEF Channel!Raise
<1>3. ASSUME NEW c \in CPU, IsrClear(c) PROVE UNCHANGED <<unreadBar, delivered, faulted>>
  BY <1>3, ClearIsExact DEF IsrClear, unreadBar
<1>4. ASSUME NEW c \in CPU, IsrCount(c) PROVE \E S \in SUBSET Source : Channel!Overflow(S)
  <2> DEFINE Over == {s \in Source : s \in seen[c] /\ count[s] + 1 = CountMod}
  <2>1. \A s \in Source : /\ s \in Over => Unread(s) >= CountMod
                          /\ Unread(s)' = IF s \in Over THEN Unread(s) - CountMod
                                                        ELSE Unread(s)
    BY <1>4, CountIsExact
  <2>2. UNCHANGED <<delivered, faulted>>
    BY <1>4 DEF IsrCount
  <2>3. Channel!Overflow(Over)
    BY <2>1, <2>2 DEF Channel!Overflow
  <2>4. QED
    BY <2>3
<1>5. ASSUME NEW r \in Reader, ReadTake(r)
      PROVE  \/ UNCHANGED <<unreadBar, delivered, faulted>>
             \/ \E s \in Source : \E k \in 1 .. Unread(s) :
                  Channel!Deliver(s, k) \/ Channel!Fault(s, k)
  <2> DEFINE t == node[r]
  <2>1. t \in Source
    BY DEF TypeOK
  <2>2. \A s \in Source : Unread(s)' = IF s = t THEN Unread(s) - count[t] ELSE Unread(s)
    <3>1. ASSUME NEW s \in Source
          PROVE  Unread(s)' = IF s = t THEN Unread(s) - count[t] ELSE Unread(s)
      <4>1. InFlight(s)' = InFlight(s) /\ status' = status
            /\ count'[s] = IF s = t THEN 0 ELSE count[s]
        BY <1>5 DEF ReadTake, InFlight, TypeOK
      <4>2. QED
        BY <1>1, <4>1 DEF Unread
    <3>2. QED
      BY <3>1
  <2>3. \/ delivered' = [delivered EXCEPT ![t] = @ + count[t]] /\ faulted' = faulted
        \/ faulted' = [faulted EXCEPT ![t] = @ + count[t]] /\ delivered' = delivered
    BY <1>5 DEF ReadTake
  <2>4. CASE count[t] = 0
    <3>1. delivered' = delivered /\ faulted' = faulted
      BY <1>1, <2>1, <2>3, <2>4 DEF TypeOK
    <3>2. QED
      BY <1>1, <2>1, <2>2, <2>4, <3>1 DEF unreadBar
  <2>5. CASE count[t] # 0
    <3>1. count[t] \in 1 .. Unread(t)
      BY <1>1, <2>1, <2>5
    <3>2. Channel!Deliver(t, count[t]) \/ Channel!Fault(t, count[t])
      BY <2>1, <2>2, <2>3, <3>1 DEF Channel!Deliver, Channel!Fault
    <3>3. QED
      BY <2>1, <3>1, <3>2
  <2>6. QED
    BY <2>4, <2>5
<1>6. CASE ~ (\E t \in Source : Raise(t)) /\ ~ (\E c \in CPU : IsrClear(c) \/ IsrCount(c))
           /\ ~ (\E r \in Reader : ReadTake(r))
  <2>1. UNCHANGED <<status, count, delivered, faulted>>
        /\ \A s \in Source : InFlight(s)' = InFlight(s)
    BY <1>6, BystanderStep, InFlightStable
  <2>2. QED
    BY <2>1 DEF Unread, unreadBar
<1>7. QED
  BY <1>2, <1>3, <1>4, <1>5, <1>6 DEF Channel!Next

\* On one processor, what the driver's users observe is a counting channel:
\* interrupts accumulate, and a read takes some and returns how many.
THEOREM ImplementsChannel ==
    ASSUME OneCPU
    PROVE  Spec => ChannelSpec
<1>1. Init => Channel!Init /\ SeenIsPending
  <2> SUFFICES ASSUME Init
               PROVE  Channel!Init /\ SeenIsPending
    OBVIOUS
  <2>1. \A s \in Source : Unread(s) = 0
    BY InitUnread
  <2>2. QED
    BY <2>1 DEF Init, Channel!Init, SeenIsPending
<1>2. TypeOK /\ SeenIsPending /\ [Next]_vars
        => SeenIsPending' /\ [Channel!Next]_Channel!channelVars
  BY SeenIsPendingStep, ChannelStep DEF Channel!channelVars, unreadBar
<1>3. QED
  BY <1>1, <1>2, TypeCorrect, PTL DEF Spec, ChannelSpec, Channel!Spec

-----------------------------------------------------------------------------
(* With one reading thread, a read that returns a count returns some.      *)

OneReader == \A r, q \in Reader : r = q

\* Nobody takes the counter between a reader's check and its take.
TakeFindsSome ==
    \A r \in Reader : rd[r] = "take" => count[node[r]] # 0 \/ wrapped[node[r]]

\* As long as its counter has not overflowed, a read() by the only reader never
\* returns a count of zero: it blocks until an interrupt has been counted.
THEOREM OnlyReaderGetsSome ==
    ASSUME OneReader
    PROVE  Spec => []ReadReturnsSome
<1>1. Init => TakeFindsSome /\ ReadReturnsSome
  BY DEF Init, TakeFindsSome, ReadReturnsSome, ERESTARTSYS
<1>2. TypeOK /\ TakeFindsSome /\ ReadReturnsSome /\ [Next]_vars
        => TakeFindsSome' /\ ReadReturnsSome'
  <2> SUFFICES ASSUME TypeOK, TakeFindsSome, ReadReturnsSome, [Next]_vars,
                      NEW r \in Reader
               PROVE  /\ rd'[r] = "take" => count'[node'[r]] # 0 \/ wrapped'[node'[r]]
                      /\ ret'[r] = 0 => wrapped'[node'[r]]
    BY DEF TakeFindsSome, ReadReturnsSome
  <2> DEFINE Goal == /\ rd'[r] = "take" => count'[node'[r]] # 0 \/ wrapped'[node'[r]]
                     /\ ret'[r] = 0 => wrapped'[node'[r]]
  <2>1. /\ rd[r] = "take" => count[node[r]] # 0 \/ wrapped[node[r]]
        /\ ret[r] = 0 => wrapped[node[r]]
        /\ node[r] \in Source
    BY DEF TakeFindsSome, ReadReturnsSome, TypeOK
  <2> USE DEF TypeOK, devVars, isrVars, readVars, served
  <2>2. CASE UNCHANGED <<count, rd, node, ret, wrapped>>
    BY <2>1, <2>2
  <2>3. ASSUME NEW c \in CPU, IsrCount(c) PROVE Goal
    <3>1. UNCHANGED <<rd, node, ret>>
      BY <2>3 DEF IsrCount
    <3>2. count'[node[r]] = 0 /\ count[node[r]] # 0 => wrapped'[node[r]]
      <4>1. count[node[r]] \in 0 .. CountMod - 1 /\ CountMod \in Nat \ {0, 1}
        BY <2>1, ConstantsAssumption DEF Count
      <4>2. count[node[r]] + 1 # CountMod => (count[node[r]] + 1) % CountMod # 0
        BY <4>1
      <4>3. QED
        BY <2>1, <2>3, <4>1, <4>2 DEF IsrCount
    <3>3. wrapped[node[r]] => wrapped'[node[r]]
      BY <2>1, <2>3 DEF IsrCount
    <3>4. QED
      BY <2>1, <3>1, <3>2, <3>3
  <2>4. ASSUME NEW c \in CPU, IsrWake(c) PROVE Goal
    BY <2>1, <2>4 DEF IsrWake
  <2>5. ASSUME NEW q \in Reader, ReadShort(q) PROVE Goal
    BY <2>1, <2>5 DEF ReadShort, EINVAL
  <2>6. ASSUME NEW q \in Reader, NEW s \in Source, ReadEnter(q, s) PROVE Goal
    BY <2>1, <2>6 DEF ReadEnter, OneReader, Pending
  <2>7. ASSUME NEW q \in Reader, ReadCheck(q) PROVE Goal
    BY <2>1, <2>7 DEF ReadCheck
  <2>8. ASSUME NEW q \in Reader, ReadSignal(q) PROVE Goal
    BY <2>1, <2>8 DEF ReadSignal, ERESTARTSYS
  <2>9. ASSUME NEW q \in Reader, ReadTake(q) PROVE Goal
    <3>1. q = r
      BY DEF OneReader
    <3>2. rd[r] = "take" /\ rd'[r] = "user" /\ UNCHANGED <<node, wrapped>>
          /\ (ret'[r] = count[node[r]] \/ ret'[r] = EFAULT)
      BY <2>9, <3>1 DEF ReadTake
    <3>3. QED
      BY <2>1, <3>2 DEF EFAULT
  <2>10. ASSUME \/ \E s \in Source : Raise(s)
                \/ EnableIrqs \/ DisableIrqs
                \/ \E c \in CPU : (\E s \in Source : IsrEnter(c, s))
                                  \/ IsrReadStatus(c) \/ IsrClear(c)
                \/ UNCHANGED vars
         PROVE  UNCHANGED <<count, rd, node, ret, wrapped>>
    BY <2>10 DEF Raise, EnableIrqs, DisableIrqs, IsrEnter, IsrReadStatus, IsrClear, vars
  <2>11. QED
    BY <2>2, <2>3, <2>4, <2>5, <2>6, <2>7, <2>8, <2>9, <2>10
       DEF Next, IsrStep, ReadStep
<1>3. QED
  BY <1>1, <1>2, TypeCorrect, PTL DEF Spec

-----------------------------------------------------------------------------
(* A call of the handler ends, and gives its line back.                    *)

\* A line is busy only while its handler runs, on one processor; and a handler
\* that has read the status register found something in it.
HandlerInv ==
    /\ \A c \in CPU : isr[c] = "idle" <=> line[c] = {}
    /\ \A c, d \in CPU : c # d => line[c] \cap line[d] = {}
    /\ \A c \in CPU : isr[c] \in {"read", "cleared", "wake"} => seen[c] # {}

\* The steps a handler still takes on processor c.
StepsLeft(c) ==
    CASE isr[c] = "idle"    -> 0
      [] isr[c] = "entered" -> Cardinality(Source) + 3
      [] isr[c] = "read"    -> Cardinality(seen[c]) + 2
      [] isr[c] = "cleared" -> Cardinality(seen[c]) + 1
      [] isr[c] = "wake"    -> Cardinality(seen[c])

HandlersBounded ==
    \A c \in CPU : /\ StepsLeft(c) \in 0 .. Cardinality(Source) + 3
                   /\ StepsLeft(c) = 0 <=> isr[c] = "idle"

\* A line that is busy is held by one processor, whose handler has steps left.
BusyIsRunning ==
    \A s \in Source : (\E c \in CPU : s \in line[c]) =>
        \E c \in CPU : s \in line[c] /\ StepsLeft(c) > 0 /\ \A d \in CPU \ {c} : s \notin line[d]

\* A step of a handler brings its end nearer, and no other step delays it.
HandlerDescends ==
    \A c \in CPU : StepsLeft(c) > 0 =>
        /\ StepsLeft(c)' <= StepsLeft(c)
        /\ IsrStep(c) => StepsLeft(c)' < StepsLeft(c)

LEMMA OthersKeepHandlers ==
  ASSUME [Next]_vars
  PROVE  UNCHANGED isrVars \/ \E c \in CPU : IsrStep(c)
<1>1. ASSUME \/ \E s \in Source : Raise(s)
             \/ EnableIrqs \/ DisableIrqs
             \/ \E r \in Reader : \/ ReadShort(r) \/ (\E s \in Source : ReadEnter(r, s))
                                  \/ ReadStep(r) \/ ReadSignal(r)
             \/ UNCHANGED vars
      PROVE  UNCHANGED isrVars
  BY <1>1 DEF Raise, EnableIrqs, DisableIrqs, ReadShort, ReadEnter, ReadStep, ReadCheck,
              ReadTake, ReadSignal, isrVars, vars
<1> QED  BY <1>1 DEF Next

LEMMA HandlerInvStep == TypeOK /\ HandlerInv /\ [Next]_vars => HandlerInv'
<1> SUFFICES ASSUME TypeOK, HandlerInv, [Next]_vars
             PROVE  HandlerInv'
  OBVIOUS
<1> USE DEF TypeOK, HandlerInv, devVars, isrVars, readVars, served
<1>1. ASSUME NEW c \in CPU, NEW s \in Source, IsrEnter(c, s) PROVE HandlerInv'
  <2>1. /\ line'[c] = {s} /\ isr'[c] = "entered" /\ seen' = seen
        /\ \A d \in CPU \ {c} : line'[d] = line[d] /\ isr'[d] = isr[d] /\ s \notin line[d]
    BY <1>1 DEF IsrEnter
  <2>2. \A d \in CPU : isr'[d] = "idle" <=> line'[d] = {}
    BY <2>1
  <2>3. \A d, e \in CPU : d # e => line'[d] \cap line'[e] = {}
    BY <2>1
  <2>4. isr[c] = "idle"
    BY <1>1 DEF IsrEnter
  <2>5. \A d \in CPU : isr'[d] \in {"read", "cleared", "wake"} => seen'[d] # {}
    BY <2>1, <2>4
  <2> QED  BY <2>2, <2>3, <2>5
<1>2. ASSUME NEW c \in CPU, IsrReadStatus(c) PROVE HandlerInv'
  BY <1>2 DEF IsrReadStatus
<1>3. ASSUME NEW c \in CPU, IsrClear(c) \/ IsrCount(c) PROVE HandlerInv'
  BY <1>3 DEF IsrClear, IsrCount
<1>4. ASSUME NEW c \in CPU, IsrWake(c) PROVE HandlerInv'
  BY <1>4 DEF IsrWake
<1>5. CASE UNCHANGED isrVars
  BY <1>5
<1> QED  BY <1>1, <1>2, <1>3, <1>4, <1>5, OthersKeepHandlers DEF IsrStep

LEMMA SeenSize ==
  ASSUME IsFiniteSet(Source), TypeOK, NEW c \in CPU
  PROVE  /\ IsFiniteSet(seen[c]) /\ Cardinality(Source) \in Nat
         /\ Cardinality(seen[c]) \in 0 .. Cardinality(Source)
         /\ Cardinality(seen[c]) = 0 <=> seen[c] = {}
<1>1. seen[c] \subseteq Source
  BY DEF TypeOK
<1>2. IsFiniteSet(seen[c]) /\ Cardinality(seen[c]) <= Cardinality(Source)
  BY <1>1, FS_Subset
<1>3. Cardinality(Source) \in Nat /\ Cardinality(seen[c]) \in Nat
  BY <1>2, FS_CardinalityType
<1>4. Cardinality(seen[c]) = 0 <=> seen[c] = {}
  BY <1>2, FS_EmptySet
<1> QED  BY <1>2, <1>3, <1>4

LEMMA HandlersAreBounded ==
  ASSUME IsFiniteSet(Source), TypeOK, HandlerInv
  PROVE  HandlersBounded /\ BusyIsRunning
<1>1. ASSUME NEW c \in CPU
      PROVE  /\ StepsLeft(c) \in 0 .. Cardinality(Source) + 3
             /\ StepsLeft(c) = 0 <=> isr[c] = "idle"
  <2>1. /\ Cardinality(Source) \in Nat
        /\ Cardinality(seen[c]) \in 0 .. Cardinality(Source)
        /\ Cardinality(seen[c]) = 0 <=> seen[c] = {}
    BY SeenSize
  <2>2. isr[c] \in {"read", "cleared", "wake"} => seen[c] # {}
    BY DEF HandlerInv
  <2>3. isr[c] \in IsrState
    BY DEF TypeOK
  <2> QED  BY <2>1, <2>2, <2>3 DEF StepsLeft, IsrState
<1>2. BusyIsRunning
  <2> SUFFICES ASSUME NEW s \in Source, NEW c \in CPU, s \in line[c]
               PROVE  StepsLeft(c) > 0 /\ \A d \in CPU \ {c} : s \notin line[d]
    BY DEF BusyIsRunning
  <2>1. isr[c] # "idle" /\ \A d \in CPU \ {c} : s \notin line[d]
    BY DEF HandlerInv
  <2>2. Cardinality(Source) \in Nat
    BY SeenSize
  <2>3. StepsLeft(c) \in 0 .. Cardinality(Source) + 3 /\ StepsLeft(c) # 0
    BY <1>1, <2>1
  <2>4. StepsLeft(c) > 0
    BY ONLY <2>2, <2>3
  <2> QED  BY <2>1, <2>4
<1> QED  BY <1>1, <1>2 DEF HandlersBounded

LEMMA HandlerDescendsStep ==
  ASSUME IsFiniteSet(Source), TypeOK, HandlerInv, [Next]_vars
  PROVE  HandlerDescends
<1> SUFFICES ASSUME NEW c \in CPU, StepsLeft(c) > 0
             PROVE  /\ StepsLeft(c)' <= StepsLeft(c)
                    /\ IsrStep(c) => StepsLeft(c)' < StepsLeft(c)
  BY DEF HandlerDescends
<1> DEFINE N == Cardinality(Source)
           n == Cardinality(seen[c])
<1>1. /\ isr[c] # "idle" /\ StepsLeft(c) \in 0 .. N + 3 /\ StepsLeft(c) > 0
      /\ N \in Nat /\ n \in 0 .. N /\ IsFiniteSet(seen[c])
  BY HandlersAreBounded, SeenSize DEF HandlersBounded
<1>2. CASE IsrReadStatus(c)
  <2>1. isr[c] = "entered" /\ StepsLeft(c) = N + 3
    BY <1>2 DEF IsrReadStatus, StepsLeft
  <2>2. CASE status = {}
    <3>1. StepsLeft(c)' = 0
      BY <1>2, <2>2 DEF IsrReadStatus, StepsLeft, TypeOK
    <3> QED  BY ONLY <1>1, <2>1, <3>1
  <2>3. CASE status # {}
    <3>1. StepsLeft(c)' = Cardinality(status) + 2
      BY <1>2, <2>3 DEF IsrReadStatus, StepsLeft, TypeOK
    <3>2. Cardinality(status) <= N /\ Cardinality(status) \in Nat
      <4>1. status \subseteq Source
        BY DEF TypeOK
      <4>2. IsFiniteSet(status) /\ Cardinality(status) <= N
        BY <4>1, FS_Subset
      <4> QED  BY <4>2, FS_CardinalityType
    <3> QED  BY ONLY <1>1, <2>1, <3>1, <3>2
  <2> QED  BY <2>2, <2>3
<1>3. CASE IsrClear(c)
  <2>1. StepsLeft(c) = n + 2 /\ StepsLeft(c)' = n + 1
    BY <1>3 DEF IsrClear, StepsLeft, TypeOK
  <2> QED  BY ONLY <1>1, <2>1
<1>4. CASE IsrCount(c)
  <2>1. StepsLeft(c) = n + 1 /\ StepsLeft(c)' = n
    BY <1>4 DEF IsrCount, StepsLeft, TypeOK
  <2> QED  BY ONLY <1>1, <2>1
<1>5. CASE IsrWake(c)
  <2>1. PICK s \in seen[c] : /\ seen' = [seen EXCEPT ![c] = @ \ {s}]
                             /\ isr' = [isr EXCEPT ![c] = IF seen[c] = {s} THEN "idle" ELSE "wake"]
    BY <1>5 DEF IsrWake
  <2>2. isr[c] = "wake" /\ StepsLeft(c) = n
    BY <1>5 DEF IsrWake, StepsLeft
  <2>3. Cardinality(seen[c] \ {s}) = n - 1
    BY <1>1, <2>1, FS_RemoveElement
  <2>4. CASE seen[c] = {s}
    <3>1. StepsLeft(c)' = 0
      BY <2>1, <2>4 DEF StepsLeft, TypeOK
    <3> QED  BY ONLY <1>1, <3>1
  <2>5. CASE seen[c] # {s}
    <3>1. StepsLeft(c)' = n - 1
      BY <2>1, <2>3, <2>5 DEF StepsLeft, TypeOK
    <3> QED  BY ONLY <1>1, <2>2, <3>1
  <2> QED  BY <2>4, <2>5
<1>6. CASE IsrStep(c)
  <2>1. ~ \E s \in Source : IsrEnter(c, s)
    BY <1>1 DEF IsrEnter
  <2> QED  BY <1>2, <1>3, <1>4, <1>5, <1>6, <2>1 DEF IsrStep
<1>7. CASE ~IsrStep(c)
  <2>1. isr'[c] = isr[c] /\ seen'[c] = seen[c]
    <3>1. ASSUME NEW d \in CPU, IsrStep(d) PROVE isr'[c] = isr[c] /\ seen'[c] = seen[c]
      BY <1>7, <3>1 DEF IsrStep, IsrEnter, IsrReadStatus, IsrClear, IsrCount, IsrWake, TypeOK
    <3>2. CASE UNCHANGED isrVars
      BY <3>2 DEF isrVars
    <3> QED  BY <3>1, <3>2, OthersKeepHandlers
  <2>2. StepsLeft(c)' = StepsLeft(c)
    BY <2>1 DEF StepsLeft
  <2> QED  BY ONLY <1>1, <1>7, <2>2
<1> QED  BY <1>6, <1>7

\* However many processors serve the lines, and however often the device raises
\* while they do, a call of the handler takes at most Cardinality(Source) + 4
\* steps, its entry included, so the line it serves is free again and what is
\* still pending on it can be served: no step of another handler, of a reader or
\* of the device makes it longer.
THEOREM HandlerCallEnds ==
    ASSUME IsFiniteSet(Source)
    PROVE  Spec => [](HandlersBounded /\ BusyIsRunning) /\ [][HandlerDescends]_vars
<1>1. Init => HandlerInv
  BY DEF Init, HandlerInv
<1>2. TypeOK /\ HandlerInv => HandlersBounded /\ BusyIsRunning
  BY HandlersAreBounded
<1>3. TypeOK /\ HandlerInv /\ [Next]_vars => [HandlerDescends]_vars
  BY HandlerDescendsStep
<1> QED  BY <1>1, <1>2, <1>3, HandlerInvStep, TypeCorrect, PTL DEF Spec

=============================================================================
