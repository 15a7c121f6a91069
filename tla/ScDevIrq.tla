------------------------------ MODULE ScDevIrq ------------------------------
(***************************************************************************)
(* The Linux driver sc_dev_irq.c at run time: the interrupt handler shared *)
(* by the device's three lines, the counter and the wait queue of each     *)
(* character device, and the blocking read() that takes a counter.  The    *)
(* device registers and the interrupt controller are external: they are    *)
(* modelled from how the driver uses them.                                 *)
(***************************************************************************)
EXTENDS Integers, FiniteSets

CONSTANTS
    Source,     \* the completion sources: ctrl, dma, job (one line, one node each)
    CPU,        \* the processors on which the handler can run
    Reader,     \* the threads that read the nodes
    CountMod,   \* the counters are u32: CountMod stands for 2^32
    MaxRaise    \* bound: interrupts the device raises, by source

ASSUME ConstantsAssumption ==
    /\ IsFiniteSet(CPU)
    /\ CountMod \in Nat \ {0, 1}
    /\ MaxRaise \in [Source -> Nat]

\* What a read() returns besides a count, as the errno values of the source.
Pending     == -1
ERESTARTSYS == -512
EFAULT      == -14
EINVAL      == -22

VARIABLES
    status,     \* REG_IRQ_STATUS: the sources with a pending bit
    enabled,    \* REG_IRQ_ENABLE: the code only ever writes all bits or none
    latched,    \* lines the interrupt controller still has to deliver
    isr,        \* progress of the handler on each CPU
    line,       \* the line each CPU serves: a set of one source, or none
    seen,       \* the handler's local "status" on each CPU
    count,      \* dma_count, ctrl_count, job_count
    rd,         \* progress of each reader's read()
    node,       \* the node a reader has open for its read()
    ret,        \* what the reader's last read() returned
    raised,     \* history: interrupts raised (rising status bits)
    delivered,  \* history: interrupts returned by a successful read()
    faulted,    \* history: interrupts taken by a read() that then failed
    wrapped     \* history: the counter has overflowed

devVars  == <<status, enabled, latched>>
isrVars  == <<isr, line, seen>>
readVars == <<rd, node, ret>>
served   == <<delivered, faulted>>
vars == <<devVars, isrVars, count, readVars, raised, served, wrapped>>

IsrState  == {"idle", "entered", "read", "cleared", "wake"}
ReadState == {"user", "check", "asleep", "take"}
Count     == 0 .. CountMod - 1
Result    == Count \cup {Pending, ERESTARTSYS, EFAULT, EINVAL}

TypeOK ==
    /\ status \subseteq Source /\ latched \subseteq Source
    /\ enabled \in BOOLEAN
    /\ isr \in [CPU -> IsrState] /\ line \in [CPU -> SUBSET Source]
    /\ seen \in [CPU -> SUBSET Source]
    /\ count \in [Source -> Count]
    /\ rd \in [Reader -> ReadState] /\ node \in [Reader -> Source]
    /\ ret \in [Reader -> Result]
    /\ raised \in [Source -> Nat] /\ delivered \in [Source -> Nat]
    /\ faulted \in [Source -> Nat]
    /\ wrapped \in [Source -> BOOLEAN]

\* The state probe() leaves behind: counters zero, sources enabled.
Init ==
    /\ status = {} /\ enabled = TRUE /\ latched = {}
    /\ isr = [c \in CPU |-> "idle"] /\ line = [c \in CPU |-> {}]
    /\ seen = [c \in CPU |-> {}]
    /\ count = [s \in Source |-> 0]
    /\ rd = [r \in Reader |-> "user"] /\ node \in [Reader -> Source]
    /\ ret = [r \in Reader |-> ERESTARTSYS]
    /\ raised = [s \in Source |-> 0] /\ delivered = [s \in Source |-> 0]
    /\ faulted = [s \in Source |-> 0]
    /\ wrapped = [s \in Source |-> FALSE]

-----------------------------------------------------------------------------
(* The device (external).                                                  *)

\* A completion sets its status bit; an enabled bit asserts the source's line.
\* A completion whose bit is already pending changes nothing: one interrupt.
Raise(s) ==
    /\ s \notin status /\ raised[s] < MaxRaise[s]
    /\ status' = status \cup {s}
    /\ latched' = IF enabled THEN latched \cup {s} ELSE latched
    /\ raised' = [raised EXCEPT ![s] = @ + 1]
    /\ UNCHANGED <<enabled, isrVars, count, readVars, served, wrapped>>

\* probe() and cim_init() write all bits of REG_IRQ_ENABLE, remove() and
\* cim_close() write 0.
EnableIrqs ==
    /\ ~enabled /\ enabled' = TRUE
    /\ latched' = latched \cup status
    /\ UNCHANGED <<status, isrVars, count, readVars, raised, served, wrapped>>

DisableIrqs ==
    /\ enabled /\ enabled' = FALSE
    /\ UNCHANGED <<status, latched, isrVars, count, readVars, raised, served, wrapped>>

-----------------------------------------------------------------------------
(* sc_dev_isr.  A line's handler does not run on two CPUs at once, but two  *)
(* lines' handlers do, and each serves every source it finds pending.      *)

Asserted(s) == enabled /\ s \in status

IsrEnter(c, s) ==
    /\ isr[c] = "idle" /\ (s \in latched \/ Asserted(s))
    /\ \A d \in CPU : s \notin line[d]
    /\ isr' = [isr EXCEPT ![c] = "entered"]
    /\ line' = [line EXCEPT ![c] = {s}]
    /\ latched' = latched \ {s}
    /\ UNCHANGED <<status, enabled, seen, count, readVars, raised, served, wrapped>>

\* status = readl(REG_IRQ_STATUS); if (!status) return IRQ_NONE
IsrReadStatus(c) ==
    /\ isr[c] = "entered"
    /\ seen' = [seen EXCEPT ![c] = status]
    /\ isr' = [isr EXCEPT ![c] = IF status = {} THEN "idle" ELSE "read"]
    /\ line' = [line EXCEPT ![c] = IF status = {} THEN {} ELSE @]
    /\ UNCHANGED <<devVars, count, readVars, raised, served, wrapped>>

\* Faulty: acknowledges every source, not those it has read.
IsrClearAll(c) ==
    /\ isr[c] = "read"
    /\ status' = {}
    /\ isr' = [isr EXCEPT ![c] = "cleared"]
    /\ UNCHANGED <<enabled, latched, line, seen, count, readVars, raised, served, wrapped>>

\* Faulty: does not acknowledge.
IsrClearNothing(c) ==
    /\ isr[c] = "read"
    /\ isr' = [isr EXCEPT ![c] = "cleared"]
    /\ UNCHANGED <<devVars, line, seen, count, readVars, raised, served, wrapped>>

\* writel(status, REG_IRQ_CLEAR), before the lock is taken
IsrClear(c) ==
    /\ isr[c] = "read"
    /\ status' = status \ seen[c]
    /\ isr' = [isr EXCEPT ![c] = "cleared"]
    /\ UNCHANGED <<enabled, latched, line, seen, count, readVars, raised, served, wrapped>>

\* Faulty: a counter that is not cut to 32 bits.
IsrCountWide(c) ==
    /\ isr[c] = "cleared"
    /\ count' = [s \in Source |-> IF s \in seen[c] THEN count[s] + 1 ELSE count[s]]
    /\ isr' = [isr EXCEPT ![c] = "wake"]
    /\ UNCHANGED <<devVars, line, seen, readVars, raised, served, wrapped>>

\* The counters, incremented under the spinlock; u32 arithmetic wraps.
IsrCount(c) ==
    /\ isr[c] = "cleared"
    /\ count' = [s \in Source |->
                   IF s \in seen[c] THEN (count[s] + 1) % CountMod ELSE count[s]]
    /\ wrapped' = [s \in Source |->
                     wrapped[s] \/ (s \in seen[c] /\ count[s] + 1 = CountMod)]
    /\ isr' = [isr EXCEPT ![c] = "wake"]
    /\ UNCHANGED <<devVars, line, seen, readVars, raised, served>>

\* Faulty: wakes the queue of one source and forgets the others.
IsrWakeFirst(c) ==
    /\ isr[c] = "wake"
    /\ \E s \in seen[c] :
         rd' = [r \in Reader |-> IF rd[r] = "asleep" /\ node[r] = s THEN "check" ELSE rd[r]]
    /\ seen' = [seen EXCEPT ![c] = {}]
    /\ isr' = [isr EXCEPT ![c] = "idle"]
    /\ line' = [line EXCEPT ![c] = {}]
    /\ UNCHANGED <<devVars, count, node, ret, raised, served, wrapped>>

\* wake_up_interruptible on one queue of those the handler has to wake;
\* the woken readers evaluate their condition again.
IsrWake(c) ==
    /\ isr[c] = "wake"
    /\ \E s \in seen[c] :
         /\ seen' = [seen EXCEPT ![c] = @ \ {s}]
         /\ isr' = [isr EXCEPT ![c] = IF seen[c] = {s} THEN "idle" ELSE "wake"]
         /\ line' = [line EXCEPT ![c] = IF seen[c] = {s} THEN {} ELSE @]
         /\ rd' = [r \in Reader |-> IF rd[r] = "asleep" /\ node[r] = s
                                    THEN "check" ELSE rd[r]]
    /\ UNCHANGED <<devVars, count, node, ret, raised, served, wrapped>>

IsrStep(c) ==
    \/ \E s \in Source : IsrEnter(c, s)
    \/ IsrReadStatus(c)
    \/ IsrClear(c)
    \/ IsrCount(c)
    \/ IsrWake(c)

-----------------------------------------------------------------------------
(* read() on one node: sc_dev_dma_read, sc_dev_ctrl_read, sc_dev_job_read.  *)

\* A read of fewer bytes than a count is refused at once.
ReadShort(r) ==
    /\ rd[r] = "user" /\ ret' = [ret EXCEPT ![r] = EINVAL]
    /\ UNCHANGED <<devVars, isrVars, count, rd, node, raised, served, wrapped>>

ReadEnter(r, s) ==
    /\ rd[r] = "user"
    /\ rd' = [rd EXCEPT ![r] = "check"]
    /\ node' = [node EXCEPT ![r] = s]
    /\ ret' = [ret EXCEPT ![r] = Pending]
    /\ UNCHANGED <<devVars, isrVars, count, raised, served, wrapped>>

\* Faulty: does not wait for the condition.
ReadCheckNot(r) ==
    /\ rd[r] = "check"
    /\ rd' = [rd EXCEPT ![r] = "take"]
    /\ UNCHANGED <<devVars, isrVars, count, node, ret, raised, served, wrapped>>

\* wait_event_interruptible: the reader is on the queue before it evaluates
\* the condition, without the lock, so evaluating and sleeping is one step.
ReadCheck(r) ==
    /\ rd[r] = "check"
    /\ rd' = [rd EXCEPT ![r] = IF count[node[r]] # 0 THEN "take" ELSE "asleep"]
    /\ UNCHANGED <<devVars, isrVars, count, node, ret, raised, served, wrapped>>

\* A signal ends the wait, unless the condition has come true meanwhile.
ReadSignal(r) ==
    /\ rd[r] = "asleep"
    /\ \/ /\ count[node[r]] # 0
          /\ rd' = [rd EXCEPT ![r] = "take"]
          /\ UNCHANGED ret
       \/ /\ count[node[r]] = 0
          /\ rd' = [rd EXCEPT ![r] = "user"]
          /\ ret' = [ret EXCEPT ![r] = ERESTARTSYS]
    /\ UNCHANGED <<devVars, isrVars, count, node, raised, served, wrapped>>

\* Faulty: does not clear the counter.
ReadTakeKeep(r) ==
    /\ rd[r] = "take"
    /\ ret' = [ret EXCEPT ![r] = count[node[r]]]
    /\ delivered' = [delivered EXCEPT ![node[r]] = @ + count[node[r]]]
    /\ rd' = [rd EXCEPT ![r] = "user"]
    /\ UNCHANGED <<devVars, isrVars, count, node, raised, faulted, wrapped>>

\* Take and clear under the lock, then copy_to_user of the local copy: no
\* other thread sees the step between the two.  A failed copy loses the count.
ReadTake(r) ==
    /\ rd[r] = "take"
    /\ LET s == node[r] IN
         /\ count' = [count EXCEPT ![s] = 0]
         /\ \/ /\ ret' = [ret EXCEPT ![r] = count[s]]
               /\ delivered' = [delivered EXCEPT ![s] = @ + count[s]]
               /\ UNCHANGED faulted
            \/ /\ ret' = [ret EXCEPT ![r] = EFAULT]
               /\ faulted' = [faulted EXCEPT ![s] = @ + count[s]]
               /\ UNCHANGED delivered
    /\ rd' = [rd EXCEPT ![r] = "user"]
    /\ UNCHANGED <<devVars, isrVars, node, raised, wrapped>>

ReadStep(r) == ReadCheck(r) \/ ReadTake(r)

-----------------------------------------------------------------------------

Next ==
    \/ \E s \in Source : Raise(s)
    \/ EnableIrqs
    \/ DisableIrqs
    \/ \E c \in CPU : IsrStep(c)
    \/ \E r \in Reader :
         \/ ReadShort(r)
         \/ \E s \in Source : ReadEnter(r, s)
         \/ ReadStep(r)
         \/ ReadSignal(r)

\* The kernel delivers an asserted line and runs the handler it entered to its
\* end; a woken reader is scheduled.  Nothing makes the device raise, and
\* nothing makes user code call read().
Fairness ==
    /\ WF_vars(\E c \in CPU : IsrStep(c))
    /\ \A r \in Reader : WF_vars(ReadStep(r))

Spec == Init /\ [][Next]_vars
FairSpec == Spec /\ Fairness

-----------------------------------------------------------------------------
(* Properties.                                                             *)

\* Handlers that have cleared source s at the device and not yet counted it.
InFlight(s) == {c \in CPU : isr[c] = "cleared" /\ s \in seen[c]}

\* Interrupts of s no reader has taken yet.
Unread(s) == (IF s \in status THEN 1 ELSE 0) + Cardinality(InFlight(s)) + count[s]

\* No interrupt is lost inside the driver, however many CPUs serve the lines: as
\* long as the counter does not overflow, an interrupt that was raised is still
\* pending, in a handler's hands or counted, or a reader has taken it.
NothingLost ==
    \A s \in Source :
        ~wrapped[s] => raised[s] <= Unread(s) + delivered[s] + faulted[s]

\* No interrupt is counted twice: what readers took plus what they still can
\* take is exactly what was raised.  The handler's unlocked read and clear of
\* the status register keep this only when one CPU serves the lines.
NothingTwice ==
    \A s \in Source :
        ~wrapped[s] => raised[s] = Unread(s) + delivered[s] + faulted[s]

\* No wake-up is lost: a reader sleeps beside a nonzero counter only while a
\* handler still has that reader's queue to wake.
NoLostWakeup ==
    \A r \in Reader :
        rd[r] = "asleep" /\ count[node[r]] # 0
            => \E c \in CPU : isr[c] = "wake" /\ node[r] \in seen[c]

\* A read() that returns a count returns at least one interrupt: it blocks until
\* an interrupt occurs.  True while no two threads read the same node: of two
\* that one interrupt wakes, the second takes a counter that is zero again.
ReadReturnsSome == \A r \in Reader : ret[r] = 0 => wrapped[node[r]]

\* The driver is a counting channel: every step is a step of IrqChannel on the
\* unread interrupts and the delivered ones.  One CPU only, as NothingTwice.
Channel == INSTANCE IrqChannel WITH unread <- [s \in Source |-> Unread(s)]
ChannelSpec == Channel!Spec

\* An interrupt raised while the sources stay enabled is served: its status bit
\* does not stay pending for ever.
PendingIsServed ==
    \A s \in Source : s \in status ~> (s \notin status \/ ~enabled)

\* A reader that sleeps while an interrupt of its node is pending gets out of
\* read(), unless user space masks the sources or its counter wraps to zero.
SleeperReturns ==
    \A r \in Reader :
        (rd[r] = "asleep" /\ node[r] \in status) ~> (rd[r] = "user" \/ ~enabled \/ wrapped[node[r]])

=============================================================================
