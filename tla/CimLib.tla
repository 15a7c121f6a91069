------------------------------- MODULE CimLib -------------------------------
(***************************************************************************)
(* libcim (cim.c, cim_internal.c) as its processes use it: handles that    *)
(* open and close, calls that start an operation of the device by writing  *)
(* registers and then wait for one interrupt, processes that are killed    *)
(* and come back.  The driver below is the counting channel that ScDevIrq  *)
(* implements; the device is external but for the register behaviour of    *)
(* MemController that the library relies on.                               *)
(***************************************************************************)
EXTENDS Integers, FiniteSets

CONSTANTS
    Process,    \* processes that use the library, one handle and thread each
    Addr,       \* word addresses inside the SRAM
    BadAddr,    \* an aligned address outside
    MaxOps,     \* bound: operations started
    Killed,     \* processes may be killed at any point
    Careful     \* jobs are waited for before the next one, and before closing

ASSUME LibAssumption ==
    /\ IsFiniteSet(Process)
    /\ BadAddr \notin Addr
    /\ MaxOps \in Nat
    /\ Killed \in BOOLEAN /\ Careful \in BOOLEAN

Source == {"ctrl", "dma", "job"}
Op     == 1 .. MaxOps
NoOp   == 0
Result == {"none", "OK", "PROTO", "IO"}

VARIABLES
    open,       \* processes that hold a handle
    pc,         \* where each process's call is
    src,        \* the completion source the call waits for
    want,       \* the address a read was asked for, or none
    op,         \* the operation the call started
    job,        \* the job a process has started and not waited for
    res,        \* what the process's last call returned
    addr, rdata, statErr,   \* REG_ADDR, REG_RDATA, STAT_ERR
    run,        \* operations the device still works on, per source
    bit,        \* REG_IRQ_STATUS
    enabled,    \* REG_IRQ_ENABLE
    count,      \* the driver's counters
    next,       \* the next operation's number
    finished, ok,           \* history: operations completed, reported successful
    failed, blamed,         \* history: reads that failed, reported as failed
    misread,                \* history: reads that returned another word
    oks, completions,       \* history: how many of each, per source
    abandoned               \* history: operations nobody will wait for, per source

callVars == <<pc, src, want, op, job, res>>
regVars  == <<addr, rdata, statErr>>
devVars  == <<run, bit, enabled, count>>
history  == <<finished, ok, failed, blamed, misread, oks, completions, abandoned>>
vars     == <<open, callVars, regVars, devVars, next, history>>

RegAddr == Addr \cup {BadAddr}

TypeOK ==
    /\ open \subseteq Process
    /\ pc \in [Process -> {"idle", "start", "wait", "take", "status", "rdata"}]
    /\ src \in [Process -> Source]
    /\ want \in [Process -> RegAddr \cup {"none"}]
    /\ op \in [Process -> Op \cup {NoOp}] /\ job \in [Process -> Op \cup {NoOp}]
    /\ res \in [Process -> Result]
    /\ addr \in RegAddr \cup {"none"} /\ rdata \in RegAddr \cup {"none"} /\ statErr \in BOOLEAN
    /\ run \in [Source -> SUBSET Op] /\ bit \in [Source -> BOOLEAN] /\ enabled \in BOOLEAN
    /\ count \in [Source -> Nat]
    /\ next \in 1 .. MaxOps + 1
    /\ finished \subseteq Op /\ ok \subseteq Op /\ failed \subseteq Op
    /\ blamed \subseteq Op /\ misread \subseteq Op
    /\ oks \in [Source -> Nat] /\ completions \in [Source -> Nat]
    /\ abandoned \in [Source -> Nat]

\* After the driver's probe: all sources enabled, nothing counted.
Init ==
    /\ open = {}
    /\ pc = [p \in Process |-> "idle"] /\ src = [p \in Process |-> "ctrl"]
    /\ want = [p \in Process |-> "none"]
    /\ op = [p \in Process |-> NoOp] /\ job = [p \in Process |-> NoOp]
    /\ res = [p \in Process |-> "none"]
    /\ addr = "none" /\ rdata = "none" /\ statErr = FALSE
    /\ run = [s \in Source |-> {}] /\ bit = [s \in Source |-> FALSE] /\ enabled = TRUE
    /\ count = [s \in Source |-> 0]
    /\ next = 1
    /\ finished = {} /\ ok = {} /\ failed = {} /\ blamed = {} /\ misread = {}
    /\ oks = [s \in Source |-> 0] /\ completions = [s \in Source |-> 0]
    /\ abandoned = [s \in Source |-> 0]

-----------------------------------------------------------------------------
(* Handles.                                                                *)

\* Faulty: does not enable the device's interrupts.
OpenMasked(p) ==
    /\ p \notin open
    /\ open' = open \cup {p}
    /\ UNCHANGED <<callVars, regVars, devVars, next, history>>

\* cim_init: the counters of the nodes it opens are not read.
Open(p) ==
    /\ p \notin open
    /\ open' = open \cup {p} /\ enabled' = TRUE
    /\ UNCHANGED <<callVars, regVars, run, bit, count, next, history>>

\* cim_init that fails after the registers are mapped ends in cim_close.
OpenFails(p) ==
    /\ p \notin open /\ enabled' = FALSE
    /\ UNCHANGED <<open, callVars, regVars, run, bit, count, next, history>>

Idle(p) == p \in open /\ pc[p] = "idle"

\* Processes that have started an operation of source s and not waited for it yet.
Owing(s) ==
    {p \in Process : IF s = "job" THEN job[p] # NoOp
                     ELSE pc[p] \in {"wait", "take"} /\ src[p] = s}

Abandon(p) ==
    abandoned' = [s \in Source |-> abandoned[s] + (IF p \in Owing(s) THEN 1 ELSE 0)]

\* cim_close: masks the device's interrupts for everybody.
Close(p) ==
    /\ Idle(p) /\ (Careful => job[p] = NoOp)
    /\ open' = open \ {p} /\ enabled' = FALSE
    /\ job' = [job EXCEPT ![p] = NoOp] /\ Abandon(p)
    /\ UNCHANGED <<pc, src, want, op, res, regVars, run, bit, count, next,
                   finished, ok, failed, blamed, misread, oks, completions>>

\* The kernel closes the files of a killed process; nobody tells the device.
Kill(p) ==
    /\ Killed /\ p \in open
    /\ open' = open \ {p}
    /\ pc' = [pc EXCEPT ![p] = "idle"] /\ job' = [job EXCEPT ![p] = NoOp] /\ Abandon(p)
    /\ UNCHANGED <<src, want, op, res, regVars, devVars, next,
                   finished, ok, failed, blamed, misread, oks, completions>>

-----------------------------------------------------------------------------
(* Starting operations: the write of the control register.                 *)

\* Every call that starts an operation has its own number.
Fresh == next <= MaxOps /\ next' = next + 1

\* A device that is busy may ignore another start of the same source.
Launch(s, o) ==
    \/ run' = [run EXCEPT ![s] = @ \cup {o}]
    \/ run[s] # {} /\ UNCHANGED run

Waiting(p, s, o) ==
    /\ pc' = [pc EXCEPT ![p] = "wait"] /\ src' = [src EXCEPT ![p] = s]
    /\ op' = [op EXCEPT ![p] = o] /\ res' = [res EXCEPT ![p] = "none"]

\* cim_compute, and one chunk of a DMA transfer.
StartCompute(p) ==
    /\ Idle(p) /\ Fresh /\ Launch("ctrl", next) /\ Waiting(p, "ctrl", next)
    /\ want' = [want EXCEPT ![p] = "none"]
    /\ UNCHANGED <<open, job, regVars, bit, enabled, count, history>>

StartDma(p) ==
    /\ Idle(p) /\ Fresh /\ Launch("dma", next) /\ Waiting(p, "dma", next)
    /\ want' = [want EXCEPT ![p] = "none"]
    /\ UNCHANGED <<open, job, regVars, bit, enabled, count, history>>

\* cim_read_sram_u32_irq: REG_ADDR first, then REG_CONTROL.  The controller
\* carries the read out before it answers that write.
WriteAddr(p, a) ==
    /\ Idle(p) /\ Fresh
    /\ pc' = [pc EXCEPT ![p] = "start"] /\ op' = [op EXCEPT ![p] = next]
    /\ want' = [want EXCEPT ![p] = a] /\ addr' = a
    /\ UNCHANGED <<open, src, job, res, rdata, statErr, devVars, history>>

StartRead(p) ==
    /\ p \in open /\ pc[p] = "start" /\ Launch("ctrl", op[p]) /\ Waiting(p, "ctrl", op[p])
    /\ IF addr = BadAddr
       THEN statErr' = TRUE /\ failed' = failed \cup {op[p]} /\ UNCHANGED rdata
       ELSE rdata' = addr /\ UNCHANGED <<statErr, failed>>
    /\ UNCHANGED <<open, want, job, addr, bit, enabled, count, next,
                   finished, ok, blamed, misread, oks, completions, abandoned>>

\* cim_start_inference returns at once; cim_wait_inference is another call.
StartJob(p) ==
    /\ Idle(p) /\ (Careful => job[p] = NoOp)
    /\ Fresh /\ Launch("job", next) /\ job' = [job EXCEPT ![p] = next]
    /\ abandoned' = [abandoned EXCEPT !["job"] = @ + (IF job[p] = NoOp THEN 0 ELSE 1)]
    /\ UNCHANGED <<open, pc, src, want, op, res, regVars, bit, enabled, count,
                   finished, ok, failed, blamed, misread, oks, completions>>

WaitJob(p) ==
    /\ Idle(p) /\ job[p] # NoOp
    /\ pc' = [pc EXCEPT ![p] = "wait"] /\ src' = [src EXCEPT ![p] = "job"]
    /\ op' = [op EXCEPT ![p] = job[p]] /\ res' = [res EXCEPT ![p] = "none"]
    /\ want' = [want EXCEPT ![p] = "none"]
    /\ UNCHANGED <<open, job, regVars, devVars, next, history>>

-----------------------------------------------------------------------------
(* wait_one_irq: a read() of the node, then the count must be one.  There   *)
(* is no timeout; a read() that a signal interrupts is repeated.           *)

\* The driver lets the reader out when its counter is not zero.
Wake(p) ==
    /\ pc[p] = "wait" /\ count[src[p]] > 0
    /\ pc' = [pc EXCEPT ![p] = "take"]
    /\ UNCHANGED <<open, src, want, op, job, res, regVars, devVars, next, history>>

Waited(p) == job' = [job EXCEPT ![p] = IF src[p] = "job" THEN NoOp ELSE @]

LeftBehind(p) ==
    abandoned' = [abandoned EXCEPT ![src[p]] = @ + (IF count[src[p]] = 0 THEN 1 ELSE 0)]

\* Faulty: the counter is not cleared.
TakeOneKeep(p) ==
    /\ pc[p] = "take" /\ count[src[p]] = 1
    /\ oks' = [oks EXCEPT ![src[p]] = @ + 1]
    /\ pc' = [pc EXCEPT ![p] = "idle"] /\ res' = [res EXCEPT ![p] = "OK"]
    /\ ok' = ok \cup {op[p]}
    /\ Waited(p)
    /\ UNCHANGED <<open, src, want, op, regVars, devVars, next,
                   finished, failed, blamed, misread, completions, abandoned>>

\* It takes whatever the counter holds by then.
TakeOne(p) ==
    /\ pc[p] = "take" /\ count[src[p]] = 1
    /\ count' = [count EXCEPT ![src[p]] = 0]
    /\ oks' = [oks EXCEPT ![src[p]] = @ + 1]
    /\ IF want[p] # "none"
       THEN /\ pc' = [pc EXCEPT ![p] = "status"] /\ UNCHANGED <<res, ok>>
       ELSE /\ pc' = [pc EXCEPT ![p] = "idle"] /\ res' = [res EXCEPT ![p] = "OK"]
            /\ ok' = ok \cup {op[p]}
    /\ Waited(p)
    /\ UNCHANGED <<open, src, want, op, regVars, run, bit, enabled, next,
                   finished, failed, blamed, misread, completions, abandoned>>

\* Faulty: one is subtracted from whatever the counter holds by then.
TakeOtherMinus(p) ==
    /\ pc[p] = "take" /\ count[src[p]] # 1
    /\ count' = [count EXCEPT ![src[p]] = @ - 1]
    /\ pc' = [pc EXCEPT ![p] = "idle"] /\ res' = [res EXCEPT ![p] = "PROTO"]
    /\ Waited(p)
    /\ UNCHANGED <<open, src, want, op, regVars, run, bit, enabled, next, history>>

\* Faulty: a count that was not expected is left in the node.
TakeOtherKeep(p) ==
    /\ pc[p] = "take" /\ count[src[p]] # 1
    /\ pc' = [pc EXCEPT ![p] = "idle"] /\ res' = [res EXCEPT ![p] = "PROTO"]
    /\ Waited(p)
    /\ UNCHANGED <<open, src, want, op, regVars, devVars, next, history>>

\* Any other count is an error to the caller.  Another process's wait may have
\* taken the interrupt meanwhile: a call that took none leaves its operation behind.
TakeOther(p) ==
    /\ pc[p] = "take" /\ count[src[p]] # 1
    /\ count' = [count EXCEPT ![src[p]] = 0]
    /\ pc' = [pc EXCEPT ![p] = "idle"] /\ res' = [res EXCEPT ![p] = "PROTO"]
    /\ Waited(p) /\ LeftBehind(p)
    /\ UNCHANGED <<open, src, want, op, regVars, run, bit, enabled, next,
                   finished, ok, failed, blamed, misread, oks, completions>>

\* The read() fails, and the driver has cleared the counter already.
TakeFails(p) ==
    /\ pc[p] = "take"
    /\ count' = [count EXCEPT ![src[p]] = 0]
    /\ pc' = [pc EXCEPT ![p] = "idle"] /\ res' = [res EXCEPT ![p] = "IO"]
    /\ Waited(p) /\ LeftBehind(p)
    /\ UNCHANGED <<open, src, want, op, regVars, run, bit, enabled, next,
                   finished, ok, failed, blamed, misread, oks, completions>>

\* Faulty: the controller's error flag is not looked at.
ReadStatusNot(p) ==
    /\ pc[p] = "status"
    /\ pc' = [pc EXCEPT ![p] = "rdata"]
    /\ UNCHANGED <<open, src, want, op, job, res, regVars, devVars, next, history>>

\* The rest of cim_read_sram_u32_irq.
ReadStatus(p) ==
    /\ pc[p] = "status"
    /\ IF statErr
       THEN /\ pc' = [pc EXCEPT ![p] = "idle"] /\ res' = [res EXCEPT ![p] = "PROTO"]
            /\ blamed' = blamed \cup {op[p]}
       ELSE /\ pc' = [pc EXCEPT ![p] = "rdata"] /\ UNCHANGED <<res, blamed>>
    /\ UNCHANGED <<open, src, want, op, job, regVars, devVars, next,
                   finished, ok, failed, misread, oks, completions, abandoned>>

ReadRdata(p) ==
    /\ pc[p] = "rdata"
    /\ pc' = [pc EXCEPT ![p] = "idle"] /\ res' = [res EXCEPT ![p] = "OK"]
    /\ ok' = ok \cup {op[p]}
    /\ misread' = IF rdata = want[p] THEN misread ELSE misread \cup {op[p]}
    /\ UNCHANGED <<open, src, want, op, job, regVars, devVars, next,
                   finished, failed, blamed, oks, completions, abandoned>>

-----------------------------------------------------------------------------
(* The device completes an operation (external); the driver's handler      *)
(* clears the status bit and counts.                                       *)

Complete(s, o) ==
    /\ o \in run[s] /\ \A q \in run[s] : o <= q
    /\ run' = [run EXCEPT ![s] = @ \ {o}]
    /\ bit' = [bit EXCEPT ![s] = TRUE]
    /\ finished' = finished \cup {o}
    /\ completions' = [completions EXCEPT ![s] = @ + 1]
    /\ UNCHANGED <<open, callVars, regVars, enabled, count, next,
                   ok, failed, blamed, misread, oks, abandoned>>

Interrupt(s) ==
    /\ enabled /\ bit[s]
    /\ bit' = [bit EXCEPT ![s] = FALSE]
    /\ count' = [count EXCEPT ![s] = @ + 1]
    /\ UNCHANGED <<open, callVars, regVars, run, enabled, next, history>>

-----------------------------------------------------------------------------

Handle(p) == Open(p) \/ OpenFails(p) \/ Close(p) \/ Kill(p)

Begin(p) ==
    \/ StartCompute(p) \/ StartDma(p) \/ StartJob(p) \/ WaitJob(p)
    \/ \E a \in RegAddr : WriteAddr(p, a)

Continue(p) ==
    \/ StartRead(p) \/ Wake(p) \/ TakeOne(p) \/ TakeOther(p) \/ TakeFails(p)
    \/ ReadStatus(p) \/ ReadRdata(p)

Hardware(s) == (\E o \in Op : Complete(s, o)) \/ Interrupt(s)

Next ==
    \/ \E p \in Process : Handle(p) \/ Begin(p) \/ Continue(p)
    \/ \E s \in Source : Hardware(s)

\* A process that is inside a call runs, the device completes what it runs, and
\* an enabled interrupt is handled.  Nothing makes a process call the library.
Fairness ==
    /\ \A p \in Process : WF_vars(Continue(p))
    /\ \A s \in Source : WF_vars(Hardware(s))

Spec == Init /\ [][Next]_vars
FairSpec == Spec /\ Fairness

-----------------------------------------------------------------------------
(* Properties.                                                             *)

\* cim.h: a call that starts an operation and waits, or a wait for a job, returns
\* success only after the device has completed that very operation.
OkMeansDone == ok \subseteq finished

\* A lone process that is never killed and waits for its jobs gets just what
\* cim.h promises, though the counters know nothing of operations.
Service == INSTANCE CompletionService WITH started <- 1 .. next - 1
ServiceSpec == Service!Spec

\* It never sees another count than one, so it never gets CIM_E_PROTO for it.
ExactlyOne == \A p \in Process : pc[p] = "take" => count[src[p]] = 1

\* A word that was read is the word at the address that was asked for.
ReadsItsWord == misread = {}

\* However many processes share the device and die, no interrupt serves two
\* calls: there are never more successful waits than completions.
OksBacked == \A s \in Source : oks[s] <= completions[s]

\* What the nodes hold or will hold is bounded by the calls under way and those
\* abandoned before: a kill, a close or an overtaken wait is the only way for
\* a process to find an interrupt that is not its own.
StaleBounded ==
    \A s \in Source :
        count[s] + (IF bit[s] THEN 1 ELSE 0) + Cardinality(run[s])
            <= abandoned[s] + Cardinality(Owing(s))

\* The comment in cim_read_sram_u32_irq: "Operation completed but controller
\* flagged error": a read is reported as failed only if it failed.
ErrorIsOwn == blamed \subseteq failed

\* Every call of a lone process returns.
CallReturns == \A p \in Process : pc[p] # "idle" ~> pc[p] = "idle"

=============================================================================
