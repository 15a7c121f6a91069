---------------------------- MODULE MemController ----------------------------
(***************************************************************************)
(* The SystemC memory controller of mem_controller.cpp with the two        *)
(* threads that run it: the bridge's server loop, which carries out one    *)
(* request of the device at a time by calling b_transport, and the         *)
(* controller's irq_manager, which drives the interrupt signal the bridge  *)
(* forwards with every reply.                                              *)
(*                                                                         *)
(* SystemC threads are cooperative.  notify() makes a waiting irq_manager  *)
(* runnable and is lost when it does not wait; wait(SC_ZERO_TIME) lets all *)
(* runnable threads run, then updates the signals, then resumes.  Every    *)
(* action below is the code between two waits.                             *)
(***************************************************************************)
EXTENDS Integers

CONSTANTS
    Addr,           \* the word addresses inside the SRAM
    NoAddr,         \* stands for the addresses outside
    WrapAddr,       \* the ones so far outside that addr + len wraps past 2^32
    ComputeAddr,    \* SRAM_COMPUTE_CMD
    Value,          \* the contents of a word
    Zero,           \* what registers and memory start with
    Compute(_)      \* what compute_in_memory makes of the memory

Memory == [Addr -> Value]

ASSUME ControllerAssumption ==
    /\ NoAddr \notin Addr /\ WrapAddr \notin Addr /\ ComputeAddr \notin Addr
    /\ NoAddr # WrapAddr /\ NoAddr # ComputeAddr /\ WrapAddr # ComputeAddr
    /\ Zero \in Value
    /\ \A m \in Memory : Compute(m) \in Memory

VARIABLES
    control,        \* reg_control: the bits start, write, compute, irqen
    addr, len, wdata, rdata,        \* reg_addr, reg_len, reg_wdata, reg_rdata
    busy, done, err,                \* the bits of reg_status
    mem,            \* the SRAM
    irq, irqNext,   \* the signal, and the value written to it last
    mgr,            \* irq_manager: not started, waiting, or runnable
    pc,             \* where the bridge thread is
    resp,           \* the TLM response of the request in hand
    started         \* history: the request in hand started an operation

regs   == <<control, addr, len, wdata, rdata>>
status == <<busy, done, err>>
signal == <<irq, irqNext, mgr>>
vars   == <<regs, status, mem, signal, pc, resp, started>>

Control  == [start : BOOLEAN, write : BOOLEAN, compute : BOOLEAN, irqen : BOOLEAN]
RegAddr  == Addr \cup {NoAddr, WrapAddr, ComputeAddr}
Response == {"OK", "ADDRESS_ERROR", "COMMAND_ERROR", "GENERIC_ERROR"}

TypeOK ==
    /\ control \in Control /\ addr \in RegAddr /\ len \in {"word", "other"}
    /\ wdata \in Value /\ rdata \in Value
    /\ busy \in BOOLEAN /\ done \in BOOLEAN /\ err \in BOOLEAN
    /\ mem \in Memory
    /\ irq \in BOOLEAN /\ irqNext \in BOOLEAN
    /\ mgr \in {"start", "waiting", "ready"}
    /\ pc \in {"recv", "begin", "settle", "delay", "reply", "crashed"}
    /\ resp \in Response /\ started \in BOOLEAN

\* The scheduler starts the two threads in either order; when the bridge is
\* first it blocks in accept() before irq_manager waits for its event.
Init ==
    /\ control = [start |-> FALSE, write |-> FALSE, compute |-> FALSE, irqen |-> FALSE]
    /\ addr \in Addr /\ len = "other"
    /\ wdata = Zero /\ rdata = Zero
    /\ busy = FALSE /\ done = FALSE /\ err = FALSE
    /\ mem = [a \in Addr |-> Zero]
    /\ irq = FALSE /\ irqNext = FALSE /\ mgr \in {"start", "waiting"}
    /\ pc = "recv" /\ resp = "OK" /\ started = FALSE

-----------------------------------------------------------------------------
(* Helpers.                                                                *)

\* irq_update_event.notify()
Notify == mgr' = IF mgr = "waiting" THEN "ready" ELSE mgr

\* A request is taken only between two replies.
Accept == pc = "recv"

\* The handler is done without waiting: a request that succeeded has added to
\* the delay, one that failed has not.
Answer(r) ==
    /\ resp' = r
    /\ pc' = IF r = "OK" THEN "delay" ELSE "reply"
    /\ started' = FALSE

\* The rest of the handler runs after the irq manager.
Yield(next) == pc' = next /\ resp' = "OK"

\* A copy outside the SRAM's array takes the simulator down.
Crash ==
    /\ pc' = "crashed"
    /\ UNCHANGED <<regs, status, mem, signal, resp, started>>

-----------------------------------------------------------------------------
(* ctrl_handler: the register file.  A DMA request for an address below    *)
(* 0x20 is routed here as well.                                            *)

\* REG_CONTROL, with the first part of start_operation when START is set.
WriteControl(bits) ==
    /\ Accept
    /\ control' = bits
    /\ \/ /\ ~bits.start
          /\ Answer("OK")
          /\ UNCHANGED <<status, mgr>>
       \/ /\ bits.start /\ len # "word"
          /\ err' = TRUE /\ UNCHANGED <<busy, done>>
          /\ Notify /\ Yield("settle") /\ started' = FALSE
       \/ /\ bits.start /\ len = "word"
          /\ busy' = TRUE /\ done' = FALSE /\ UNCHANGED err
          /\ Notify /\ Yield("begin") /\ started' = TRUE
    /\ UNCHANGED <<addr, len, wdata, rdata, mem, irq, irqNext>>

WriteRegister ==
    /\ Accept
    /\ \/ \E a \in RegAddr : addr' = a /\ UNCHANGED <<len, wdata>>
       \/ \E l \in {"word", "other"} : len' = l /\ UNCHANGED <<addr, wdata>>
       \/ \E v \in Value : wdata' = v /\ UNCHANGED <<addr, len>>
    /\ Answer("OK")
    /\ UNCHANGED <<control, rdata, status, mem, signal>>

\* Faulty: does not notify irq_manager.
WriteStatusSilent(clearDone, clearErr) ==
    /\ Accept
    /\ done' = (done /\ ~clearDone)
    /\ err' = (err /\ ~clearErr)
    /\ Yield("settle") /\ started' = FALSE
    /\ UNCHANGED <<regs, busy, mem, signal>>

\* REG_STATUS: write one to clear DONE and ERR.
WriteStatus(clearDone, clearErr) ==
    /\ Accept
    /\ done' = (done /\ ~clearDone)
    /\ err' = (err /\ ~clearErr)
    /\ Notify /\ Yield("settle") /\ started' = FALSE
    /\ UNCHANGED <<regs, busy, mem, irq, irqNext>>

\* Reading a register changes none.
ReadRegister ==
    /\ Accept /\ Answer("OK")
    /\ UNCHANGED <<regs, status, mem, signal>>

\* An address with no register, REG_RDATA when written, or one between the
\* registers and the data region.
BadRegister ==
    /\ Accept /\ Answer("ADDRESS_ERROR")
    /\ UNCHANGED <<regs, status, mem, signal>>

-----------------------------------------------------------------------------
(* dma_handler: blocks, here of one word, beside the registers.  A block    *)
(* must fit in the SRAM and must not be empty; its end is computed in 32    *)
(* bits, here and in the SRAM.                                              *)

DmaWrite(a, v) ==
    /\ Accept
    /\ mem' = IF a = ComputeAddr THEN Compute(mem) ELSE [mem EXCEPT ![a] = v]
    /\ Answer("OK")
    /\ UNCHANGED <<regs, status, signal>>

DmaRead(a) ==
    /\ Accept
    /\ mem' = IF a = ComputeAddr THEN Compute(mem) ELSE mem
    /\ Answer("OK")
    /\ UNCHANGED <<regs, status, signal>>

\* A block whose end wraps passes both checks: the copy is outside the array, and
\* what it does there is undefined.  It takes the simulator down, or the block is
\* answered with the SRAM as it was.
DmaWrapped ==
    /\ Accept
    /\ \/ Crash
       \/ Answer("OK") /\ UNCHANGED <<regs, status, mem, signal>>

\* A block outside the SRAM, an empty write, or an empty read, which
\* mmio_read_block refuses before the controller sees it.
DmaRefused ==
    /\ Accept
    /\ Answer("COMMAND_ERROR") \/ Answer("GENERIC_ERROR")
    /\ UNCHANGED <<regs, status, mem, signal>>

-----------------------------------------------------------------------------
(* start_operation after its first wait.                                   *)

\* Faulty: copies the buffer of a failed read, and does not flag the failure.
AccessUnchecked ==
    \/ /\ control.compute
       /\ mem' = Compute(mem) /\ UNCHANGED <<rdata, err>>
    \/ /\ ~control.compute /\ control.write /\ addr \in Addr
       /\ mem' = [mem EXCEPT ![addr] = wdata] /\ UNCHANGED <<rdata, err>>
    \/ /\ ~control.compute /\ ~(control.write /\ addr \in Addr)
       /\ rdata' = IF addr \in Addr THEN mem[addr] ELSE addr
       /\ UNCHANGED <<mem, err>>

\* The SRAM access of the operation.  COMPUTE wins over WRITE; the SRAM
\* computes whenever it sees its special address, and a read of that address
\* copies an uninitialised buffer into reg_rdata.  An address whose end wraps
\* passes the SRAM's check: a write leaves the array, a read brings anything.
Access ==
    \/ /\ control.compute \/ (control.write /\ addr = ComputeAddr)
       /\ mem' = Compute(mem) /\ UNCHANGED <<rdata, err>>
    \/ /\ ~control.compute /\ ~control.write /\ addr = ComputeAddr
       /\ mem' = Compute(mem) /\ rdata' \in Value /\ UNCHANGED err
    \/ /\ ~control.compute /\ control.write /\ addr \in Addr
       /\ mem' = [mem EXCEPT ![addr] = wdata] /\ UNCHANGED <<rdata, err>>
    \/ /\ ~control.compute /\ ~control.write /\ addr \in Addr
       /\ rdata' = mem[addr] /\ UNCHANGED <<mem, err>>
    \/ /\ ~control.compute /\ control.write /\ addr = WrapAddr
       /\ UNCHANGED <<mem, rdata, err>>
    \/ /\ ~control.compute /\ ~control.write /\ addr = WrapAddr
       /\ rdata' \in Value /\ UNCHANGED <<mem, err>>
    \/ /\ ~control.compute /\ addr = NoAddr
       /\ err' = TRUE /\ UNCHANGED <<mem, rdata>>

\* The copy of such an access, when it takes the simulator down.
AccessCrashes ==
    /\ pc = "begin" /\ mgr = "waiting"
    /\ ~control.compute /\ addr = WrapAddr
    /\ Crash

\* Faulty: does not notify after setting DONE.
RunOperationSilent ==
    /\ pc = "begin" /\ mgr = "waiting"
    /\ irq' = irqNext
    /\ Access
    /\ busy' = FALSE /\ done' = TRUE
    /\ Yield("settle")
    /\ UNCHANGED <<control, addr, len, wdata, irqNext, mgr, started>>

\* Faulty: leaves BUSY set.
RunOperationBusy ==
    /\ pc = "begin" /\ mgr = "waiting"
    /\ irq' = irqNext
    /\ Access
    /\ done' = TRUE
    /\ Notify /\ Yield("settle")
    /\ UNCHANGED <<control, addr, len, wdata, busy, irqNext, started>>

\* All runnable threads have run and the signal is updated; the operation
\* accesses the SRAM and completes: DONE is set even when it failed.
RunOperation ==
    /\ pc = "begin" /\ mgr = "waiting"
    /\ irq' = irqNext
    /\ Access
    /\ busy' = FALSE /\ done' = TRUE
    /\ Notify /\ Yield("settle")
    /\ UNCHANGED <<control, addr, len, wdata, irqNext, started>>

\* The last wait(SC_ZERO_TIME) of a handler.
Settle ==
    /\ pc = "settle" /\ mgr = "waiting"
    /\ irq' = irqNext
    /\ pc' = "delay"
    /\ UNCHANGED <<regs, status, mem, irqNext, mgr, resp, started>>

\* The bridge waits for the accumulated delay.
Delay ==
    /\ pc = "delay" /\ mgr = "waiting"
    /\ irq' = irqNext
    /\ pc' = "reply"
    /\ UNCHANGED <<regs, status, mem, irqNext, mgr, resp, started>>

\* irq_manager: up to its first wait, or from one wait to the next.
IrqManager ==
    /\ pc \notin {"recv", "reply", "crashed"} /\ mgr # "waiting"
    /\ irqNext' = IF mgr = "start" THEN irqNext ELSE control.irqen /\ done
    /\ mgr' = "waiting"
    /\ UNCHANGED <<regs, status, mem, irq, pc, resp, started>>

\* Faulty: answers only the requests that succeeded.
ReplySuccess ==
    /\ pc = "reply" /\ resp = "OK"
    /\ pc' = "recv"
    /\ UNCHANGED <<regs, status, mem, signal, resp, started>>

\* The reply carries irq.read() and the response; then the next recv.
Reply ==
    /\ pc = "reply"
    /\ pc' = "recv"
    /\ UNCHANGED <<regs, status, mem, signal, resp, started>>

-----------------------------------------------------------------------------

Request ==
    \/ \E bits \in Control : WriteControl(bits)
    \/ WriteRegister
    \/ \E d, e \in BOOLEAN : WriteStatus(d, e)
    \/ ReadRegister
    \/ BadRegister
    \/ \E a \in Addr \cup {ComputeAddr}, v \in Value : DmaWrite(a, v)
    \/ \E a \in Addr \cup {ComputeAddr} : DmaRead(a)
    \/ DmaWrapped
    \/ DmaRefused

Kernel == RunOperation \/ AccessCrashes \/ Settle \/ Delay \/ IrqManager \/ Reply

Next == Request \/ Kernel

Spec == Init /\ [][Next]_vars

\* The SystemC kernel keeps running the threads that can run.
FairSpec == Spec /\ WF_vars(Kernel)

-----------------------------------------------------------------------------
(* Properties.                                                             *)

Replying == pc = "reply"

\* A reply never reports an interrupt without a completed operation behind it:
\* once DONE is cleared, by a new operation or by the host, the next reply has
\* the signal down, though another thread drives it.
NoSpuriousIrq == Replying /\ irq => done

\* The reply to the request that started an operation carries its outcome: the
\* operation has completed, and the interrupt is up exactly when it was enabled.
StartCompletes == Replying /\ started => ~busy /\ done /\ irq = control.irqen

\* What that operation did is there to be read: a write is in memory, a read
\* has the memory's word, and an address outside the SRAM has set ERR, but for
\* the ones whose end wraps, which promise nothing.
StartTakesEffect ==
    Replying /\ started /\ ~control.compute =>
        /\ addr = NoAddr => err
        /\ addr \in Addr => IF control.write THEN mem[addr] = wdata ELSE rdata = mem[addr]

\* Between two requests nothing of an operation is still under way: BUSY is down,
\* no notification is left unserved, and the signal shows its last value.
QuietBetweenRequests == pc = "recv" => ~busy /\ mgr # "ready" /\ irq = irqNext

\* Every request is answered, the first one too, whose notification may find
\* irq_manager not waiting yet, unless it takes the simulator down.
EveryRequestAnswered == pc # "recv" ~> pc \in {"recv", "crashed"}

=============================================================================
