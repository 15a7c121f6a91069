------------------------- MODULE MemControllerProofs -------------------------
(***************************************************************************)
(* Proofs about the memory controller, for every memory and computation.   *)
(***************************************************************************)
EXTENDS MemController, TLAPS

AfterOperation == started /\ pc \notin {"begin", "crashed"}

\* What the interrupt signal and its manager are doing, wait by wait.
SignalInv ==
    /\ mgr = "start" => ~irq /\ ~irqNext
    /\ mgr = "ready" => pc \in {"begin", "settle"}
    /\ mgr # "ready" /\ pc \notin {"begin", "crashed"} => (irqNext => done)
    /\ pc \in {"recv", "delay", "reply"} => irq = irqNext

\* What an operation has achieved, before and after its SRAM access.
OperationInv ==
    /\ busy => pc \in {"begin", "crashed"}
    /\ pc = "begin" => started
    /\ AfterOperation => /\ done /\ mgr # "start"
                         /\ mgr = "waiting" => irqNext = control.irqen
    /\ AfterOperation /\ ~control.compute =>
         /\ addr = NoAddr => err
         /\ addr \in Addr => IF control.write THEN mem[addr] = wdata ELSE rdata = mem[addr]

Inv == TypeOK /\ SignalInv /\ OperationInv

LEMMA TypeOKStep == TypeOK /\ [Next]_vars => TypeOK'
<1> SUFFICES ASSUME TypeOK, [Next]_vars
             PROVE  TypeOK'
  OBVIOUS
<1> USE ControllerAssumption
    DEF TypeOK, regs, status, signal, Response, Notify, Accept, Answer, Yield
<1>1. ASSUME NEW bits \in Control, WriteControl(bits) PROVE TypeOK'
  BY <1>1 DEF WriteControl
<1>2. CASE WriteRegister
  BY <1>2 DEF WriteRegister
<1>3. ASSUME NEW d \in BOOLEAN, NEW e \in BOOLEAN, WriteStatus(d, e) PROVE TypeOK'
  BY <1>3 DEF WriteStatus
<1>4. CASE ReadRegister \/ BadRegister \/ DmaRefused
  BY <1>4 DEF ReadRegister, BadRegister, DmaRefused
<1>11. CASE DmaWrapped \/ AccessCrashes
  <2>1. /\ UNCHANGED <<regs, status, mem, signal>>
        /\ pc' \in {"crashed", "delay", "reply"} /\ resp' \in {resp, "OK"}
        /\ started' \in {started, FALSE}
    BY <1>11 DEF DmaWrapped, AccessCrashes, Crash
  <2>2. pc' \in {"recv", "begin", "settle", "delay", "reply", "crashed"}
    BY <2>1
  <2>3. resp' \in Response /\ started' \in BOOLEAN
    BY <2>1
  <2>4. QED
    BY <2>1, <2>2, <2>3
<1>5. ASSUME NEW a \in Addr \cup {ComputeAddr}, NEW v \in Value, DmaWrite(a, v)
      PROVE  TypeOK'
  BY <1>5 DEF DmaWrite, Memory
<1>6. ASSUME NEW a \in Addr \cup {ComputeAddr}, DmaRead(a) PROVE TypeOK'
  BY <1>6 DEF DmaRead
<1>7. CASE RunOperation
  <2>1. mem' \in Memory /\ rdata' \in Value /\ err' \in BOOLEAN
    BY <1>7 DEF RunOperation, Access, Memory
  <2>2. QED
    BY <1>7, <2>1 DEF RunOperation
<1>8. CASE Settle \/ Delay \/ IrqManager \/ Reply
  BY <1>8 DEF Settle, Delay, IrqManager, Reply, Control
<1>9. CASE UNCHANGED vars
  BY <1>9 DEF vars
<1>10. QED
  BY <1>1, <1>2, <1>3, <1>4, <1>5, <1>6, <1>7, <1>8, <1>9, <1>11 DEF Next, Request, Kernel

LEMMA SignalStep == Inv /\ [Next]_vars => SignalInv'
<1> SUFFICES ASSUME TypeOK, SignalInv, OperationInv, [Next]_vars
             PROVE  SignalInv'
  BY DEF Inv
<1> USE DEF SignalInv, TypeOK, regs, status, signal, Notify, Accept, Answer, Yield
<1>1. ASSUME NEW bits \in Control, WriteControl(bits) PROVE SignalInv'
  BY <1>1 DEF WriteControl
<1>2. ASSUME NEW d \in BOOLEAN, NEW e \in BOOLEAN, WriteStatus(d, e) PROVE SignalInv'
  BY <1>2 DEF WriteStatus
<1>3. CASE WriteRegister \/ ReadRegister \/ BadRegister \/ DmaWrapped \/ DmaRefused
  BY <1>3 DEF WriteRegister, ReadRegister, BadRegister, DmaWrapped, DmaRefused, Crash
<1>4. ASSUME NEW a \in Addr \cup {ComputeAddr}, NEW v \in Value,
             DmaWrite(a, v) \/ DmaRead(a)
      PROVE  SignalInv'
  BY <1>4 DEF DmaWrite, DmaRead
<1>5. CASE RunOperation
  BY <1>5 DEF RunOperation
<1>6. CASE AccessCrashes \/ Settle \/ Delay \/ Reply
  BY <1>6 DEF AccessCrashes, Crash, Settle, Delay, Reply
<1>7. CASE IrqManager
  <2>1. CASE mgr = "start"
    BY <1>7, <2>1 DEF IrqManager
  <2>2. CASE mgr = "ready"
    BY <1>7, <2>2 DEF IrqManager
  <2>3. QED
    BY <1>7, <2>1, <2>2 DEF IrqManager
<1>8. CASE UNCHANGED vars
  BY <1>8 DEF vars
<1>9. QED
  <2>1. ASSUME NEW a \in Addr \cup {ComputeAddr}, DmaRead(a)
        PROVE  SignalInv'
    BY <1>4, <2>1, ControllerAssumption
  <2>2. QED
    BY <1>1, <1>2, <1>3, <1>4, <1>5, <1>6, <1>7, <1>8, <2>1 DEF Next, Request, Kernel

LEMMA OperationStep == Inv /\ [Next]_vars => OperationInv'
<1> SUFFICES ASSUME TypeOK, SignalInv, OperationInv, [Next]_vars
             PROVE  OperationInv'
  BY DEF Inv
<1> USE DEF OperationInv, AfterOperation, regs, status, signal,
            Notify, Accept, Answer, Yield
<1>1. ASSUME NEW bits \in Control, WriteControl(bits) PROVE OperationInv'
  BY <1>1 DEF WriteControl
<1>2. ASSUME NEW d \in BOOLEAN, NEW e \in BOOLEAN, WriteStatus(d, e)
      PROVE  OperationInv'
  BY <1>2 DEF WriteStatus
<1>3. CASE WriteRegister \/ ReadRegister \/ BadRegister \/ DmaWrapped \/ DmaRefused
  BY <1>3 DEF WriteRegister, ReadRegister, BadRegister, DmaWrapped, DmaRefused, Crash
<1>4. ASSUME NEW a \in Addr \cup {ComputeAddr}, NEW v \in Value, DmaWrite(a, v)
      PROVE  OperationInv'
  BY <1>4 DEF DmaWrite
<1>5. ASSUME NEW a \in Addr \cup {ComputeAddr}, DmaRead(a) PROVE OperationInv'
  BY <1>5 DEF DmaRead
<1>6. CASE RunOperation
  <2>1. /\ started' /\ done' /\ ~busy' /\ pc' = "settle" /\ mgr' = "ready"
        /\ UNCHANGED <<control, addr, wdata>>
    BY <1>6 DEF RunOperation
  <2>2. ~control.compute /\ addr = NoAddr => err'
    BY <1>6, ControllerAssumption DEF RunOperation, Access
  <2>3. ~control.compute /\ addr \in Addr =>
          IF control.write THEN mem'[addr] = wdata ELSE rdata' = mem'[addr]
    BY <1>6, ControllerAssumption DEF RunOperation, Access, TypeOK, Memory
  <2>4. QED
    BY <2>1, <2>2, <2>3
<1>7. CASE AccessCrashes \/ Settle \/ Delay \/ Reply
  BY <1>7 DEF AccessCrashes, Crash, Settle, Delay, Reply
<1>8. CASE IrqManager
  <2>1. UNCHANGED <<regs, status, mem, pc, started>> /\ mgr' = "waiting"
        /\ (mgr = "ready" => irqNext' = (control.irqen /\ done))
        /\ mgr # "waiting"
    BY <1>8 DEF IrqManager
  <2>2. mgr \in {"start", "waiting", "ready"} /\ control.irqen \in BOOLEAN
    BY DEF TypeOK, Control
  <2>3. QED
    BY <2>1, <2>2
<1>9. CASE UNCHANGED vars
  BY <1>9 DEF vars
<1>10. QED
  BY <1>1, <1>2, <1>3, <1>4, <1>5, <1>6, <1>7, <1>8, <1>9 DEF Next, Request, Kernel

LEMMA Invariance == Spec => []Inv
<1>1. Init => Inv
  <2> SUFFICES ASSUME Init
               PROVE  TypeOK /\ SignalInv /\ OperationInv
    BY DEF Inv
  <2>1. mem \in Memory /\ wdata \in Value /\ rdata \in Value
    BY ControllerAssumption DEF Init, Memory
  <2>2. control \in Control /\ addr \in RegAddr
    BY DEF Init, Control, RegAddr
  <2>3. TypeOK
    BY <2>1, <2>2 DEF Init, TypeOK, Response
  <2>4. SignalInv /\ OperationInv
    BY DEF Init, SignalInv, OperationInv, AfterOperation
  <2>5. QED
    BY <2>3, <2>4
<1>2. Inv /\ [Next]_vars => Inv'
  BY TypeOKStep, SignalStep, OperationStep DEF Inv
<1>3. QED
  BY <1>1, <1>2, PTL DEF Spec

\* The controller's registers, memory and threads always have values of their types.
THEOREM ControllerTypeCorrect == Spec => []TypeOK
BY Invariance, PTL DEF Inv

\* No reply ever reports an interrupt without a completed operation behind it.
THEOREM NeverSpurious == Spec => []NoSpuriousIrq
<1>1. Inv => NoSpuriousIrq
  BY DEF Inv, SignalInv, NoSpuriousIrq, Replying
<1>2. QED
  BY <1>1, Invariance, PTL

\* The reply to a start request finds the operation completed and its interrupt up
\* exactly when it was enabled, whichever thread the scheduler started first.
THEOREM StartAlwaysCompletes == Spec => []StartCompletes
<1>1. Inv => StartCompletes
  BY DEF Inv, TypeOK, SignalInv, OperationInv, AfterOperation, StartCompletes, Replying
<1>2. QED
  BY <1>1, Invariance, PTL

\* A completed operation's effect on memory, RDATA or ERR is there with its reply,
\* for every address inside the SRAM and every one its check refuses.
THEOREM StartAlwaysTakesEffect == Spec => []StartTakesEffect
<1>1. Inv => StartTakesEffect
  BY DEF Inv, OperationInv, AfterOperation, StartTakesEffect, Replying
<1>2. QED
  BY <1>1, Invariance, PTL

\* Between two requests the controller and its signal are at rest.
THEOREM AlwaysQuiet == Spec => []QuietBetweenRequests
<1>1. Inv => QuietBetweenRequests
  BY DEF Inv, SignalInv, OperationInv, QuietBetweenRequests
<1>2. QED
  BY <1>1, Invariance, PTL

-----------------------------------------------------------------------------
(* Every request is carried out in a bounded number of steps.              *)

\* The waits the bridge thread still has before it receives again, if ever.
Place == [recv |-> 0, crashed |-> 0, reply |-> 1, delay |-> 2, settle |-> 3, begin |-> 4]

\* A wait lasts until irq_manager waits too, and only the bridge thread, going on,
\* makes irq_manager runnable.
Work == 2 * Place[pc] + (IF mgr = "waiting" THEN 0 ELSE 1)

UnderWay == pc \notin {"recv", "crashed"}

WorkBounded == UnderWay => Work \in 1 .. 9

RequestDescends == UnderWay => Work' < Work

\* Once the controller has taken a request it takes at most nine steps to the
\* reply, or to the end of the simulator, whatever the request: every step of either thread leaves less to do, so
\* the notifications of one never keep the other from its reply.  That a thread
\* can run is a matter of types: one waits only for irq_manager to wait.
THEOREM RequestBounded == Spec => []WorkBounded /\ [][RequestDescends]_vars
<1>1. Inv => WorkBounded
  <2>1. SUFFICES ASSUME Inv, UnderWay
                 PROVE  Work \in 1 .. 9
    BY DEF WorkBounded
  <2>2. pc \in {"begin", "settle", "delay", "reply"}
    BY <2>1 DEF Inv, TypeOK, UnderWay
  <2>3. Place[pc] \in 1 .. 4
    BY <2>2 DEF Place
  <2>4. QED
    BY <2>3 DEF Work
<1>2. Inv /\ [Next]_vars => [RequestDescends]_vars
  <2>1. SUFFICES ASSUME Inv, Next, UnderWay
                 PROVE  Work' < Work
    BY DEF RequestDescends
  <2>2. Kernel
    BY <2>1 DEF Next, Request, WriteControl, WriteRegister, WriteStatus, ReadRegister,
       BadRegister, DmaWrite, DmaRead, DmaWrapped, DmaRefused, Accept, UnderWay
  <2>3. mgr = "ready" => pc \in {"begin", "settle"}
    BY <2>1 DEF Inv, SignalInv
  <2>4. CASE RunOperation
    BY <2>4 DEF RunOperation, Notify, Yield, Work, Place
  <2>9. CASE AccessCrashes
    BY <2>9 DEF AccessCrashes, Crash, signal, Work, Place
  <2>5. CASE Settle \/ Delay
    BY <2>5 DEF Settle, Delay, Work, Place
  <2>6. CASE IrqManager
    <3>1. pc \in {"begin", "settle", "delay"} /\ pc' = pc /\ mgr # "waiting" /\ mgr' = "waiting"
      BY <2>1, <2>6 DEF IrqManager, Inv, TypeOK, UnderWay
    <3>2. QED
      BY <3>1 DEF Work, Place
  <2>7. CASE Reply
    BY <2>7 DEF Reply, signal, Work, Place
  <2>8. QED
    BY <2>2, <2>4, <2>5, <2>6, <2>7, <2>9 DEF Kernel
<1>3. QED
  BY <1>1, <1>2, Invariance, PTL DEF Spec

=============================================================================
