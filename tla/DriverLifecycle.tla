--------------------------- MODULE DriverLifecycle ---------------------------
(***************************************************************************)
(* The life cycle of the Linux driver sc_dev_irq.c: probe() with its        *)
(* failures, remove(), and the release of what the driver core manages     *)
(* (devm), beside the interrupt handler and user programs that open and    *)
(* read the three nodes.  How the handler and the readers interleave is    *)
(* the subject of ScDevIrq; here it matters what they touch.  The driver   *)
(* core, the device and the users' mapping of its registers are external.  *)
(***************************************************************************)
EXTENDS Integers

CONSTANTS
    User,       \* the threads that open and read the nodes
    MaxProbe    \* bound: instances of struct sc_dev that are allocated

ASSUME LifecycleAssumption == MaxProbe \in Nat

Source == {"dma", "ctrl", "job"}

\* probe() treats dma first, then ctrl, then job.
Before == [dma |-> {}, ctrl |-> {"dma"}, job |-> {"dma", "ctrl"}]

VARIABLES
    stage,      \* how far probe, remove or the driver core is
    result,     \* what the last probe() returned: 0, -errno, or irq_ctrl
    gen,        \* the number of struct sc_dev allocated; names the last one
    live,       \* it is allocated
    mapped,     \* its registers are mapped
    nodes,      \* the misc devices registered
    irqs,       \* the lines requested
    mask,       \* REG_IRQ_ENABLE: all bits or none
    status,     \* REG_IRQ_STATUS
    serving,    \* the lines whose handler runs
    taken,      \* what that handler has read and cleared
    count,      \* dma_count, ctrl_count, job_count
    file,       \* the sc_dev behind each node a user has open, 0 when closed
    rd,         \* the node whose read() a user is in
    kept,       \* history: users with a node open when its sc_dev was freed
    harmed      \* history: users whose read() touched a freed sc_dev

probeVars  == <<stage, result, gen, live, mapped, nodes, irqs>>
deviceVars == <<mask, status>>
isrVars    == <<serving, taken>>
userVars   == <<file, rd>>
history    == <<kept, harmed>>
driverVars == <<probeVars, deviceVars, isrVars, count, userVars, history>>

Stage == {"unbound", "register", "undo", "request", "enable", "returned", "bound",
          "withdraw", "release"}
Many  == 2      \* two interrupts or more: nobody tells them apart
Gen   == 0 .. MaxProbe

TypeOK ==
    /\ stage \in Stage /\ result \in {"none", "0", "-errno", "irq_ctrl"}
    /\ gen \in Gen /\ live \in BOOLEAN /\ mapped \in BOOLEAN
    /\ nodes \subseteq Source /\ irqs \subseteq Source
    /\ mask \in BOOLEAN /\ status \subseteq Source
    /\ serving \subseteq Source /\ taken \in [Source -> SUBSET Source]
    /\ count \in [Source -> 0 .. Many]
    /\ file \in [User -> [Source -> Gen]] /\ rd \in [User -> Source \cup {"none"}]
    /\ kept \subseteq User /\ harmed \subseteq User

Init ==
    /\ stage = "unbound" /\ result = "none"
    /\ gen = 0 /\ live = FALSE /\ mapped = FALSE
    /\ nodes = {} /\ irqs = {}
    /\ mask = FALSE /\ status = {}
    /\ serving = {} /\ taken = [s \in Source |-> {}]
    /\ count = [s \in Source |-> 0]
    /\ file = [u \in User |-> [s \in Source |-> 0]] /\ rd = [u \in User |-> "none"]
    /\ kept = {} /\ harmed = {}

-----------------------------------------------------------------------------
(* probe().  Until the first node is registered nobody else can tell how   *)
(* far it is.                                                              *)

\* devm_kzalloc finds no memory.
AllocFails ==
    /\ stage = "unbound"
    /\ stage' = "returned" /\ result' = "-errno"
    /\ UNCHANGED <<gen, live, mapped, nodes, irqs, deviceVars, isrVars, count, userVars, history>>

\* Faulty: returns 0 when the third line is missing.
AcquireReturnsZero ==
    /\ stage = "unbound" /\ gen < MaxProbe
    /\ gen' = gen + 1 /\ live' = TRUE
    /\ count' = [s \in Source |-> 0]
    /\ \/ stage' = "register" /\ result' = "none" /\ mapped' = TRUE
       \/ stage' = "returned" /\ result' = "-errno" /\ mapped' \in BOOLEAN
       \/ stage' = "returned" /\ result' = "0" /\ mapped' = TRUE
    /\ UNCHANGED <<nodes, irqs, deviceVars, isrVars, userVars, history>>

\* struct sc_dev, zeroed, then the register window and the three lines, or all up
\* to the one that is missing.  For the third line probe() returns irq_ctrl, the
\* positive number of the second.
Acquire ==
    /\ stage = "unbound" /\ gen < MaxProbe
    /\ gen' = gen + 1 /\ live' = TRUE
    /\ count' = [s \in Source |-> 0]
    /\ \/ stage' = "register" /\ result' = "none" /\ mapped' = TRUE
       \/ stage' = "returned" /\ result' = "-errno" /\ mapped' \in BOOLEAN
       \/ stage' = "returned" /\ result' = "irq_ctrl" /\ mapped' = TRUE
    /\ UNCHANGED <<nodes, irqs, deviceVars, isrVars, userVars, history>>

\* misc_register: from here on the node can be opened.
RegisterNode(s) ==
    /\ stage = "register" /\ nodes = Before[s]
    /\ \/ /\ nodes' = nodes \cup {s}
          /\ stage' = IF s = "job" THEN "request" ELSE "register"
          /\ UNCHANGED result
       \/ /\ result' = "-errno"
          /\ stage' = IF s = "dma" THEN "returned" ELSE "undo"
          /\ UNCHANGED nodes
    /\ UNCHANGED <<gen, live, mapped, irqs, deviceVars, isrVars, count, userVars, history>>

\* The nodes registered before the one that failed, in the order they came.
UndoNode(s) ==
    /\ stage = "undo" /\ s \in nodes /\ nodes \cap Before[s] = {}
    /\ nodes' = nodes \ {s}
    /\ stage' = IF nodes = {s} THEN "returned" ELSE "undo"
    /\ UNCHANGED <<result, gen, live, mapped, irqs, deviceVars, isrVars, count, userVars, history>>

\* Faulty: returns the error and leaves the nodes registered.
RequestIrqReturn(s) ==
    /\ stage = "request" /\ irqs = Before[s]
    /\ \/ /\ irqs' = irqs \cup {s}
          /\ stage' = IF s = "job" THEN "enable" ELSE "request"
          /\ UNCHANGED result
       \/ /\ result' = "-errno" /\ stage' = "returned"
          /\ UNCHANGED irqs
    /\ UNCHANGED <<gen, live, mapped, nodes, deviceVars, isrVars, count, userVars, history>>

\* devm_request_irq; goto err_misc when it fails.
RequestIrq(s) ==
    /\ stage = "request" /\ irqs = Before[s]
    /\ \/ /\ irqs' = irqs \cup {s}
          /\ stage' = IF s = "job" THEN "enable" ELSE "request"
          /\ UNCHANGED result
       \/ /\ result' = "-errno" /\ stage' = "withdraw"
          /\ UNCHANGED irqs
    /\ UNCHANGED <<gen, live, mapped, nodes, deviceVars, isrVars, count, userVars, history>>

EnableDevice ==
    /\ stage = "enable"
    /\ mask' = TRUE
    /\ stage' = "returned" /\ result' = "0"
    /\ UNCHANGED <<gen, live, mapped, nodes, irqs, status, isrVars, count, userVars, history>>

\* really_probe (external): the driver is bound if probe() returned 0; whatever
\* else it returned is a failure, and what it has acquired is released.
JudgeProbe ==
    /\ stage = "returned"
    /\ stage' = IF result = "0" THEN "bound" ELSE "release"
    /\ UNCHANGED <<result, gen, live, mapped, nodes, irqs, deviceVars, isrVars, count, userVars, history>>

-----------------------------------------------------------------------------
(* remove(), err_misc, and what the driver core does after either.         *)

Remove ==
    /\ stage = "bound"
    /\ mask' = FALSE
    /\ stage' = "withdraw"
    /\ UNCHANGED <<result, gen, live, mapped, nodes, irqs, status, isrVars, count, userVars, history>>

\* misc_deregister, job first: the node cannot be opened any more; files that
\* are open stay open.  After the last one remove() is done, or probe() returns.
WithdrawNode(s) ==
    /\ stage = "withdraw" /\ nodes = Before[s] \cup {s}
    /\ nodes' = nodes \ {s}
    /\ stage' = IF s # "dma" THEN "withdraw"
                ELSE IF result = "0" THEN "release" ELSE "returned"
    /\ UNCHANGED <<result, gen, live, mapped, irqs, deviceVars, isrVars, count, userVars, history>>

\* devm releases in reverse order; free_irq waits for a handler that runs.
ReleaseIrq(s) ==
    /\ stage = "release" /\ irqs = Before[s] \cup {s} /\ s \notin serving
    /\ irqs' = irqs \ {s}
    /\ UNCHANGED <<stage, result, gen, live, mapped, nodes, deviceVars, isrVars, count, userVars, history>>

\* The mapping and struct sc_dev go, whoever has a node open.
ReleaseMemory ==
    /\ stage = "release" /\ irqs = {}
    /\ mapped' = FALSE /\ live' = FALSE
    /\ kept' = kept \cup {u \in User : live /\ \E s \in Source : file[u][s] = gen}
    /\ stage' = "unbound"
    /\ UNCHANGED <<result, gen, nodes, irqs, deviceVars, isrVars, count, userVars, harmed>>

-----------------------------------------------------------------------------
(* The device and the handler.                                             *)

\* A completion sets its status bit.
Complete(s) ==
    /\ status' = status \cup {s}
    /\ UNCHANGED <<probeVars, mask, isrVars, count, userVars, history>>

\* cim_init() and cim_close() write the enable register through /dev/mem,
\* whether a driver is there or not.
SetMask(b) ==
    /\ mask' = b
    /\ UNCHANGED <<probeVars, status, isrVars, count, userVars, history>>

\* sc_dev_isr reads and clears the status register, ...
HandlerReads(s) ==
    /\ s \in irqs /\ s \notin serving
    /\ mask /\ s \in status
    /\ serving' = serving \cup {s}
    /\ taken' = [taken EXCEPT ![s] = status]
    /\ status' = {}
    /\ UNCHANGED <<probeVars, mask, count, userVars, history>>

Bump(n) == IF n = Many THEN Many ELSE n + 1

\* ... counts what it has read and wakes the queues.
HandlerCounts(s) ==
    /\ s \in serving
    /\ count' = [t \in Source |-> IF t \in taken[s] THEN Bump(count[t]) ELSE count[t]]
    /\ serving' = serving \ {s}
    /\ taken' = [taken EXCEPT ![s] = {}]
    /\ UNCHANGED <<probeVars, deviceVars, userVars, history>>

-----------------------------------------------------------------------------
(* Users.  A file stays bound to the sc_dev it was opened on.              *)

Stale(u, s) == file[u][s] # 0 /\ ~(live /\ file[u][s] = gen)

Touch(u) == harmed' = IF rd[u] # "none" /\ Stale(u, rd[u]) THEN harmed \cup {u} ELSE harmed

Open(u, s) ==
    /\ rd[u] = "none" /\ file[u][s] = 0
    /\ s \in nodes
    /\ file' = [file EXCEPT ![u][s] = gen]
    /\ UNCHANGED <<probeVars, deviceVars, isrVars, count, rd, history>>

Close(u) ==
    /\ rd[u] = "none"
    /\ file' = [file EXCEPT ![u] = [s \in Source |-> 0]]
    /\ UNCHANGED <<probeVars, deviceVars, isrVars, count, rd, history>>

\* sc_dev_from_file: the misc device in the file is a part of its sc_dev.
ReadBegins(u, s) ==
    /\ rd[u] = "none" /\ file[u][s] # 0
    /\ rd' = [rd EXCEPT ![u] = s]
    /\ harmed' = IF Stale(u, s) THEN harmed \cup {u} ELSE harmed
    /\ UNCHANGED <<probeVars, deviceVars, isrVars, count, file, kept>>

\* read() returns n interrupts, or n = -1 when the copy fails.  Nobody wakes a
\* reader that sleeps in an sc_dev that has been freed; one that went on to
\* read freed memory may find anything there.
ReadReturns(u, n) ==
    /\ rd[u] # "none"
    /\ \/ /\ ~Stale(u, rd[u])
          /\ count[rd[u]] # 0 /\ n \in {count[rd[u]], -1}
          /\ count' = [count EXCEPT ![rd[u]] = 0]
       \/ /\ Stale(u, rd[u]) /\ u \in harmed
          /\ n \in -1 .. Many
          /\ UNCHANGED count
    /\ rd' = [rd EXCEPT ![u] = "none"]
    /\ UNCHANGED <<probeVars, deviceVars, isrVars, file, history>>

\* A signal ends the wait, which takes the reader off the queue it slept in.
ReadInterrupted(u) ==
    /\ rd[u] # "none"
    /\ Stale(u, rd[u]) \/ count[rd[u]] = 0
    /\ rd' = [rd EXCEPT ![u] = "none"] /\ Touch(u)
    /\ UNCHANGED <<probeVars, deviceVars, isrVars, count, file, kept>>

\* The process is killed: a read() it is in ends, and its files are closed.
Dies(u) ==
    /\ rd' = [rd EXCEPT ![u] = "none"] /\ Touch(u)
    /\ file' = [file EXCEPT ![u] = [s \in Source |-> 0]]
    /\ UNCHANGED <<probeVars, deviceVars, isrVars, count, kept>>

-----------------------------------------------------------------------------

ProbeStep ==
    \/ AllocFails \/ Acquire \/ EnableDevice \/ JudgeProbe
    \/ \E s \in Source : RegisterNode(s) \/ UndoNode(s) \/ RequestIrq(s)

ReleaseStep ==
    \/ \E s \in Source : WithdrawNode(s) \/ ReleaseIrq(s)
    \/ ReleaseMemory

HandlerStep == \E s \in Source : HandlerReads(s) \/ HandlerCounts(s)

UserStep(u) ==
    \/ \E s \in Source : Open(u, s) \/ ReadBegins(u, s)
    \/ \E n \in -1 .. Many : ReadReturns(u, n)
    \/ Close(u) \/ ReadInterrupted(u) \/ Dies(u)

DriverNext ==
    \/ ProbeStep \/ Remove \/ ReleaseStep \/ HandlerStep
    \/ \E s \in Source : Complete(s)
    \/ \E b \in BOOLEAN : SetMask(b)
    \/ \E u \in User : UserStep(u)

DriverSpec == Init /\ [][DriverNext]_driverVars

-----------------------------------------------------------------------------
(* Properties.                                                             *)

\* Whatever of the driver others can reach has an sc_dev and its registers
\* behind it: a node that can be opened, a line that can interrupt, a handler
\* that runs.
Backed == nodes # {} \/ irqs # {} \/ serving # {} => live /\ mapped

\* probe() leaves all or nothing, at whichever of its steps it fails, and says so
\* by what it returns: a driver that is bound for its result is complete, and one
\* that failed or was removed has left no memory, mapping, node, line or running
\* handler behind, though the handler and the users went on all the time.
AllOrNothing ==
    /\ Backed
    /\ stage = "bound" => live /\ mapped /\ nodes = Source /\ irqs = Source
    /\ stage = "unbound" => ~live /\ ~mapped

\* Freed memory is touched only by a user that had a node open while the driver
\* was unbound or its probe() failed: misc_deregister does not wait for open
\* files.  Closing the nodes first is enough.
HarmOnlyToHolders == harmed \subseteq kept

=============================================================================
