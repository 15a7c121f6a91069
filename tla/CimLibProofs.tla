---------------------------- MODULE CimLibProofs ----------------------------
(***************************************************************************)
(* Proofs about CimLib: what holds for any number of processes, and what a *)
(* lone process that is not killed can rely on.                            *)
(***************************************************************************)
EXTENDS CimLib, FiniteSetTheorems, TLAPS

-----------------------------------------------------------------------------
(* Types.                                                                  *)

\* A call that has been entered has the number of an operation.
TypeInv ==
    /\ TypeOK
    /\ \A p \in Process : pc[p] # "idle" => op[p] \in Op

LEMMA TypeInit == Init => TypeInv
<1> SUFFICES ASSUME Init PROVE TypeInv
  OBVIOUS
<1>1. /\ open \subseteq Process
      /\ pc \in [Process -> {"idle", "start", "wait", "take", "status", "rdata"}]
      /\ src \in [Process -> Source] /\ want \in [Process -> RegAddr \cup {"none"}]
      /\ \A p \in Process : pc[p] # "idle" => op[p] \in Op
  BY DEF Init, Source
<1>2. /\ op \in [Process -> Op \cup {NoOp}] /\ job \in [Process -> Op \cup {NoOp}]
      /\ res \in [Process -> Result]
      /\ addr \in RegAddr \cup {"none"} /\ rdata \in RegAddr \cup {"none"} /\ statErr \in BOOLEAN
  BY DEF Init, Result
<1>3. /\ run \in [Source -> SUBSET Op] /\ bit \in [Source -> BOOLEAN] /\ enabled \in BOOLEAN
      /\ count \in [Source -> Nat]
  BY DEF Init
<1>4. next \in 1 .. MaxOps + 1
  BY LibAssumption DEF Init
<1>5. /\ finished \subseteq Op /\ ok \subseteq Op /\ failed \subseteq Op
      /\ blamed \subseteq Op /\ misread \subseteq Op
      /\ oks \in [Source -> Nat] /\ completions \in [Source -> Nat]
      /\ abandoned \in [Source -> Nat]
  BY DEF Init
<1> QED  BY <1>1, <1>2, <1>3, <1>4, <1>5 DEF TypeInv, TypeOK

LEMMA HandleType ==
  ASSUME TypeInv, NEW p \in Process, Handle(p)
  PROVE  TypeInv'
<1> USE DEF TypeInv, TypeOK
<1>1. CASE Open(p)
  BY <1>1 DEF Open, callVars, regVars, history
<1>2. CASE OpenFails(p)
  BY <1>2 DEF OpenFails, callVars, regVars, history
<1>3. CASE Close(p)
  <2>1. abandoned' \in [Source -> Nat] /\ job' \in [Process -> Op \cup {NoOp}]
    BY <1>3 DEF Close, Abandon
  <2> QED  BY <1>3, <2>1 DEF Close, regVars
<1>4. CASE Kill(p)
  BY <1>4 DEF Kill, Abandon, regVars, devVars
<1> QED  BY <1>1, <1>2, <1>3, <1>4 DEF Handle

LEMMA FreshIsOp ==
  ASSUME TypeInv, Fresh
  PROVE  /\ next \in Op /\ next \in Nat /\ next # NoOp
         /\ next' = next + 1 /\ next' \in 1 .. MaxOps + 1
  BY LibAssumption DEF TypeInv, TypeOK, Fresh, Op, NoOp

LEMMA LaunchType ==
  ASSUME TypeInv, NEW s \in Source, NEW o \in Op, Launch(s, o)
  PROVE  run' \in [Source -> SUBSET Op]
  BY DEF TypeInv, TypeOK, Launch

LEMMA BeginType ==
  ASSUME TypeInv, NEW p \in Process, Begin(p)
  PROVE  TypeInv'
<1> USE DEF TypeInv, TypeOK
<1>0. "ctrl" \in Source /\ "dma" \in Source /\ "job" \in Source /\ "none" \in Result
  BY DEF Source, Result
<1>1. CASE StartCompute(p)
  <2>1. run' \in [Source -> SUBSET Op]
    BY <1>0, <1>1, FreshIsOp, LaunchType DEF StartCompute
  <2> QED  BY <1>0, <1>1, <2>1, FreshIsOp DEF StartCompute, Waiting, regVars, history
<1>2. CASE StartDma(p)
  <2>1. run' \in [Source -> SUBSET Op]
    BY <1>0, <1>2, FreshIsOp, LaunchType DEF StartDma
  <2> QED  BY <1>0, <1>2, <2>1, FreshIsOp DEF StartDma, Waiting, regVars, history
<1>3. CASE StartJob(p)
  <2>1. run' \in [Source -> SUBSET Op]
    BY <1>0, <1>3, FreshIsOp, LaunchType DEF StartJob
  <2>2. abandoned' \in [Source -> Nat] /\ job' \in [Process -> Op \cup {NoOp}]
    BY <1>0, <1>3, FreshIsOp DEF StartJob
  <2>3. next' \in 1 .. MaxOps + 1
    BY <1>3, FreshIsOp DEF StartJob
  <2>4. UNCHANGED <<open, pc, src, want, op, res, addr, rdata, statErr, bit, enabled, count,
                    finished, ok, failed, blamed, misread, oks, completions>>
    BY <1>3 DEF StartJob, regVars
  <2> QED  BY <2>1, <2>2, <2>3, <2>4
<1>4. CASE WaitJob(p)
  BY <1>0, <1>4 DEF WaitJob, regVars, devVars, history
<1>5. CASE \E a \in RegAddr : WriteAddr(p, a)
  BY <1>5, FreshIsOp DEF WriteAddr, devVars, history
<1> QED  BY <1>1, <1>2, <1>3, <1>4, <1>5 DEF Begin

LEMMA ContinueType ==
  ASSUME TypeInv, NEW p \in Process, Continue(p)
  PROVE  TypeInv'
<1> USE DEF TypeInv, TypeOK
<1>0. "ctrl" \in Source /\ Result = {"none", "OK", "PROTO", "IO"}
  BY DEF Source, Result
<1>1. CASE StartRead(p)
  <2>1. run' \in [Source -> SUBSET Op] /\ op[p] \in Op
    BY <1>0, <1>1, LaunchType DEF StartRead
  <2> QED  BY <1>0, <1>1, <2>1 DEF StartRead, Waiting
<1>2. CASE Wake(p)
  BY <1>2 DEF Wake, regVars, devVars, history
<1>3. CASE TakeOne(p)
  BY <1>0, <1>3 DEF TakeOne, Waited, regVars
<1>4. CASE TakeOther(p)
  BY <1>0, <1>4 DEF TakeOther, Waited, LeftBehind, regVars
<1>5. CASE TakeFails(p)
  BY <1>0, <1>5 DEF TakeFails, Waited, LeftBehind, regVars
<1>6. CASE ReadStatus(p)
  BY <1>0, <1>6 DEF ReadStatus, regVars, devVars
<1>7. CASE ReadRdata(p)
  BY <1>0, <1>7 DEF ReadRdata, regVars, devVars
<1> QED  BY <1>1, <1>2, <1>3, <1>4, <1>5, <1>6, <1>7 DEF Continue

LEMMA HardwareType ==
  ASSUME TypeInv, NEW s \in Source, Hardware(s)
  PROVE  TypeInv'
<1> USE DEF TypeInv, TypeOK
<1>1. CASE \E o \in Op : Complete(s, o)
  BY <1>1 DEF Complete, callVars, regVars
<1>2. CASE Interrupt(s)
  BY <1>2 DEF Interrupt, callVars, regVars, history
<1> QED  BY <1>1, <1>2 DEF Hardware

LEMMA TypeStep == TypeInv /\ [Next]_vars => TypeInv'
<1> SUFFICES ASSUME TypeInv, [Next]_vars PROVE TypeInv'
  OBVIOUS
<1>1. CASE Next
  BY <1>1, HandleType, BeginType, ContinueType, HardwareType DEF Next
<1>2. CASE UNCHANGED vars
  BY <1>2 DEF TypeInv, TypeOK, vars, callVars, regVars, devVars, history
<1> QED  BY <1>1, <1>2

\* The variables of the library, the registers and the counters keep their types
\* for any processes, addresses and bound.
THEOREM LibTypeCorrect == Spec => []TypeOK
<1>1. Spec => []TypeInv
  BY TypeInit, TypeStep, PTL DEF Spec
<1> QED  BY <1>1, PTL DEF TypeInv

-----------------------------------------------------------------------------
(* Interrupts and calls: each completion makes at most one interrupt, which *)
(* is pending, counted, or taken by at most one call.                      *)

Bit(s) == IF bit[s] THEN 1 ELSE 0

\* The inductive invariant behind OksBacked.
Backed == \A s \in Source : oks[s] + count[s] + Bit(s) <= completions[s]

LEMMA BackedInit == Init => Backed
  BY DEF Init, Backed, Bit

LEMMA BackedStep == TypeInv /\ Backed /\ [Next]_vars => Backed'
<1> SUFFICES ASSUME TypeInv, Backed, [Next]_vars PROVE Backed'
  OBVIOUS
<1>t. /\ count \in [Source -> Nat] /\ oks \in [Source -> Nat] /\ completions \in [Source -> Nat]
      /\ bit \in [Source -> BOOLEAN] /\ src \in [Process -> Source]
  BY DEF TypeInv, TypeOK
<1> USE DEF Backed, Bit
<1>1. ASSUME NEW p \in Process, Handle(p) PROVE Backed'
  BY <1>1 DEF Handle, Open, OpenFails, Close, Kill, history, devVars
<1>2. ASSUME NEW p \in Process, Begin(p) PROVE Backed'
  BY <1>2 DEF Begin, StartCompute, StartDma, StartJob, WaitJob, WriteAddr, history, devVars
<1>3. ASSUME NEW p \in Process, Continue(p) PROVE Backed'
  <2>1. CASE StartRead(p) \/ Wake(p) \/ ReadStatus(p) \/ ReadRdata(p)
    BY <2>1 DEF StartRead, Wake, ReadStatus, ReadRdata, history, devVars
  <2>2. CASE TakeOne(p)
    BY <2>2, <1>t DEF TakeOne
  <2>3. CASE TakeOther(p) \/ TakeFails(p)
    BY <2>3, <1>t DEF TakeOther, TakeFails
  <2> QED  BY <1>3, <2>1, <2>2, <2>3 DEF Continue
<1>4. ASSUME NEW s \in Source, Hardware(s) PROVE Backed'
  <2>1. CASE \E o \in Op : Complete(s, o)
    BY <2>1, <1>t DEF Complete
  <2>2. CASE Interrupt(s)
    BY <2>2, <1>t DEF Interrupt, history
  <2> QED  BY <1>4, <2>1, <2>2 DEF Hardware
<1>5. CASE UNCHANGED vars
  BY <1>5 DEF vars, devVars, history
<1> QED  BY <1>1, <1>2, <1>3, <1>4, <1>5 DEF Next

\* No interrupt serves two calls: however many processes share the device, and
\* whenever they are killed, there are never more successful waits on a node than
\* operations completed on its source.
THEOREM OneCallPerInterrupt == Spec => []OksBacked
<1>1. Spec => []TypeInv
  BY TypeInit, TypeStep, PTL DEF Spec
<1>2. Spec => [](TypeInv /\ Backed)
  BY <1>1, BackedInit, BackedStep, PTL DEF Spec
<1>3. TypeInv /\ Backed => OksBacked
  BY DEF TypeInv, TypeOK, Backed, Bit, OksBacked
<1> QED  BY <1>2, <1>3, PTL

-----------------------------------------------------------------------------
(* What the nodes hold and will hold, and who is to take it.  StaleBounded  *)
(* is inductive given the types; its proof counts sets.                    *)

LEMMA CardinalityOfMore ==
  ASSUME NEW S, IsFiniteSet(S), NEW x, NEW T, T \subseteq S \cup {x}
  PROVE  /\ Cardinality(S) \in Nat /\ Cardinality(T) \in Nat
         /\ Cardinality(T) <= Cardinality(S) + 1
<1>0. Cardinality(S) \in Nat
  BY FS_CardinalityType
<1>1. /\ IsFiniteSet(S \cup {x})
      /\ Cardinality(S \cup {x}) <= Cardinality(S) + 1
  <2>1. /\ IsFiniteSet(S \cup {x})
        /\ \/ Cardinality(S \cup {x}) = Cardinality(S)
           \/ Cardinality(S \cup {x}) = Cardinality(S) + 1
    BY FS_AddElement
  <2> QED  BY <1>0, <2>1
<1>2. IsFiniteSet(T) /\ Cardinality(T) <= Cardinality(S \cup {x})
  BY <1>1, FS_Subset
<1> QED  BY <1>1, <1>2, FS_CardinalityType

LEMMA FiniteParts ==
  ASSUME TypeInv, NEW s \in Source
  PROVE  /\ IsFiniteSet(run[s]) /\ IsFiniteSet(Owing(s))
         /\ Cardinality(run[s]) \in Nat /\ Cardinality(Owing(s)) \in Nat
<1>1. IsFiniteSet(Op)
  BY LibAssumption, FS_Interval DEF Op
<1>2. run[s] \subseteq Op /\ Owing(s) \subseteq Process
  BY DEF TypeInv, TypeOK, Owing
<1>3. IsFiniteSet(Process)
  BY LibAssumption
<1>4. IsFiniteSet(run[s]) /\ IsFiniteSet(Owing(s))
  BY <1>1, <1>2, <1>3, FS_Subset
<1> QED  BY <1>4, FS_CardinalityType

LEMMA StaleInit == Init => StaleBounded
<1> SUFFICES ASSUME Init, NEW s \in Source
             PROVE  count[s] + (IF bit[s] THEN 1 ELSE 0) + Cardinality(run[s])
                      <= abandoned[s] + Cardinality(Owing(s))
  BY DEF StaleBounded
<1>1. Owing(s) = {} /\ run[s] = {}
  BY DEF Init, Owing
<1> QED  BY <1>1, FS_EmptySet DEF Init

\* Whoever leaves the set of processes that owe a wait is counted as abandoning.
LEMMA AbandonBounds ==
  ASSUME TypeInv, StaleBounded, NEW p \in Process, Abandon(p),
         \A s \in Source : Owing(s)' = Owing(s) \ {p},
         UNCHANGED <<count, bit, run>>
  PROVE  StaleBounded'
<1> SUFFICES ASSUME NEW s \in Source
             PROVE  count[s] + (IF bit[s] THEN 1 ELSE 0) + Cardinality(run[s])
                      <= abandoned'[s] + Cardinality(Owing(s)')
  BY DEF StaleBounded
<1>1. count[s] \in Nat /\ abandoned[s] \in Nat
  BY DEF TypeInv, TypeOK
<1>2. abandoned'[s] = abandoned[s] + (IF p \in Owing(s) THEN 1 ELSE 0)
  BY DEF Abandon
<1>3. Cardinality(Owing(s)') = Cardinality(Owing(s)) - (IF p \in Owing(s) THEN 1 ELSE 0)
  <2>1. CASE p \in Owing(s)
    BY <2>1, FiniteParts, FS_RemoveElement
  <2>2. CASE p \notin Owing(s)
    <3>1. Owing(s) \ {p} = Owing(s)
      BY <2>2
    <3> QED  BY <2>2, <3>1, FiniteParts
  <2> QED  BY <2>1, <2>2
<1> QED  BY <1>1, <1>2, <1>3, FiniteParts DEF StaleBounded

LEMMA StaleHandle ==
  ASSUME TypeInv, StaleBounded, NEW p \in Process, Handle(p)
  PROVE  StaleBounded'
<1>1. CASE Open(p) \/ OpenFails(p)
  BY <1>1 DEF Open, OpenFails, StaleBounded, Owing, callVars, history
<1>2. CASE Close(p)
  <2>1. \A s \in Source : Owing(s)' = Owing(s) \ {p}
    BY <1>2 DEF Close, Idle, Owing, TypeInv, TypeOK
  <2> QED  BY <1>2, <2>1, AbandonBounds DEF Close
<1>3. CASE Kill(p)
  <2>1. \A s \in Source : Owing(s)' = Owing(s) \ {p}
    BY <1>3 DEF Kill, Owing, TypeInv, TypeOK
  <2> QED  BY <1>3, <2>1, AbandonBounds DEF Kill, devVars
<1> QED  BY <1>1, <1>2, <1>3 DEF Handle

\* A start adds one operation at most, and one process that owes a wait.
LEMMA LaunchBounds ==
  ASSUME TypeInv, StaleBounded, NEW p \in Process, NEW s \in Source, NEW o,
         Launch(s, o), p \notin Owing(s), Owing(s)' = Owing(s) \cup {p},
         \A t \in Source \ {s} : Owing(t)' = Owing(t),
         UNCHANGED <<count, bit, abandoned>>
  PROVE  StaleBounded'
<1> SUFFICES ASSUME NEW t \in Source
             PROVE  count[t] + (IF bit[t] THEN 1 ELSE 0) + Cardinality(run'[t])
                      <= abandoned[t] + Cardinality(Owing(t)')
  BY DEF StaleBounded
<1>1. count[t] \in Nat /\ abandoned[t] \in Nat /\ run \in [Source -> SUBSET Op]
  BY DEF TypeInv, TypeOK
<1>2. CASE t = s
  <2>1. Cardinality(Owing(s)') = Cardinality(Owing(s)) + 1
    BY FiniteParts, FS_AddElement
  <2>2. run'[s] \subseteq run[s] \cup {o}
    BY <1>1 DEF Launch
  <2>3. Cardinality(run'[s]) <= Cardinality(run[s]) + 1 /\ Cardinality(run'[s]) \in Nat
    BY <2>2, FiniteParts, CardinalityOfMore
  <2> QED  BY <1>1, <1>2, <2>1, <2>3, FiniteParts DEF StaleBounded
<1>3. CASE t # s
  BY <1>1, <1>3 DEF Launch, StaleBounded
<1> QED  BY <1>2, <1>3

LEMMA StaleBegin ==
  ASSUME TypeInv, StaleBounded, NEW p \in Process, Begin(p)
  PROVE  StaleBounded'
<1>t. /\ pc \in [Process -> {"idle", "start", "wait", "take", "status", "rdata"}]
      /\ src \in [Process -> Source] /\ job \in [Process -> Op \cup {NoOp}]
      /\ "ctrl" \in Source /\ "dma" \in Source /\ "job" \in Source
      /\ abandoned \in [Source -> Nat]
  BY DEF TypeInv, TypeOK, Source
<1>1. CASE StartCompute(p)
  <2>1. /\ p \notin Owing("ctrl") /\ Owing("ctrl")' = Owing("ctrl") \cup {p}
        /\ \A t \in Source \ {"ctrl"} : Owing(t)' = Owing(t)
    BY <1>1, <1>t DEF StartCompute, Idle, Waiting, Owing
  <2> QED  BY <1>1, <1>t, <2>1, LaunchBounds DEF StartCompute, history
<1>2. CASE StartDma(p)
  <2>1. /\ p \notin Owing("dma") /\ Owing("dma")' = Owing("dma") \cup {p}
        /\ \A t \in Source \ {"dma"} : Owing(t)' = Owing(t)
    BY <1>2, <1>t DEF StartDma, Idle, Waiting, Owing
  <2> QED  BY <1>2, <1>t, <2>1, LaunchBounds DEF StartDma, history
<1>3. CASE StartJob(p)
  <2>0. Owing("job")' = Owing("job") \cup {p} /\ \A t \in Source \ {"job"} : Owing(t)' = Owing(t)
    BY <1>3, <1>t, FreshIsOp DEF StartJob, Owing
  <2>1. CASE job[p] = NoOp
    <3>1. p \notin Owing("job") /\ UNCHANGED abandoned
      BY <1>3, <1>t, <2>1 DEF Owing, StartJob
    <3> QED  BY <1>3, <1>t, <2>0, <3>1, LaunchBounds DEF StartJob
  <2>2. CASE job[p] # NoOp
    <3>1. Owing("job")' = Owing("job")
      BY <2>0, <2>2 DEF Owing
    <3>2. abandoned'["job"] = abandoned["job"] + 1
          /\ \A t \in Source \ {"job"} : abandoned'[t] = abandoned[t]
      BY <1>3, <1>t, <2>2 DEF StartJob
    <3>3. run'["job"] \subseteq run["job"] \cup {next}
          /\ \A t \in Source \ {"job"} : run'[t] = run[t]
      BY <1>3 DEF StartJob, Launch, TypeInv, TypeOK, Source
    <3>4. Cardinality(run'["job"]) <= Cardinality(run["job"]) + 1
          /\ Cardinality(run'["job"]) \in Nat
      BY <1>t, <3>3, FiniteParts, CardinalityOfMore
    <3>5. \A t \in Source : count[t] \in Nat /\ abandoned[t] \in Nat
      BY DEF TypeInv, TypeOK
    <3>6. UNCHANGED <<count, bit>>
      BY <1>3 DEF StartJob
    <3> SUFFICES ASSUME NEW t \in Source
                 PROVE  count[t] + (IF bit[t] THEN 1 ELSE 0) + Cardinality(run'[t])
                          <= abandoned'[t] + Cardinality(Owing(t)')
      BY <3>6 DEF StaleBounded
    <3>7. CASE t = "job"
      BY <3>1, <3>2, <3>4, <3>5, <3>7, FiniteParts DEF StaleBounded
    <3>8. CASE t # "job"
      BY <2>0, <3>2, <3>3, <3>8 DEF StaleBounded
    <3> QED  BY <3>7, <3>8
  <2> QED  BY <2>1, <2>2
<1>4. CASE WaitJob(p)
  <2>1. \A s \in Source : Owing(s)' = Owing(s)
    BY <1>4, <1>t DEF WaitJob, Idle, Owing
  <2> QED  BY <1>4, <2>1 DEF WaitJob, StaleBounded, devVars, history
<1>5. CASE \E a \in RegAddr : WriteAddr(p, a)
  <2>1. \A s \in Source : Owing(s)' = Owing(s)
    BY <1>5, <1>t DEF WriteAddr, Idle, Owing
  <2> QED  BY <1>5, <2>1 DEF WriteAddr, StaleBounded, devVars, history
<1> QED  BY <1>1, <1>2, <1>3, <1>4, <1>5 DEF Begin

\* A wait that ends takes the whole counter; one that took nothing is abandoned.
LEMMA TakeBounds ==
  ASSUME TypeInv, StaleBounded, NEW p \in Process, pc[p] = "take",
         count' = [count EXCEPT ![src[p]] = 0], UNCHANGED <<bit, run>>,
         abandoned' \in [Source -> Nat],
         \A t \in Source : abandoned[t] <= abandoned'[t],
         count[src[p]] = 0 => abandoned'[src[p]] >= abandoned[src[p]] + 1,
         \A t \in Source : Owing(t) \subseteq Owing(t)' \cup {p},
         \A t \in Source \ {src[p]} : Owing(t) \subseteq Owing(t)',
         \A t \in Source : Owing(t)' \subseteq Process
  PROVE  StaleBounded'
<1> SUFFICES ASSUME NEW t \in Source
             PROVE  count'[t] + (IF bit[t] THEN 1 ELSE 0) + Cardinality(run[t])
                      <= abandoned'[t] + Cardinality(Owing(t)')
  BY DEF StaleBounded
<1>1. /\ count[t] \in Nat /\ abandoned[t] \in Nat /\ abandoned'[t] \in Nat
      /\ count \in [Source -> Nat] /\ src[p] \in Source
  BY DEF TypeInv, TypeOK
<1>2. count[t] + (IF bit[t] THEN 1 ELSE 0) + Cardinality(run[t])
        <= abandoned[t] + Cardinality(Owing(t))
  BY DEF StaleBounded
<1>3. IsFiniteSet(Owing(t)')
  BY LibAssumption, FS_Subset DEF LibAssumption
<1>4. Cardinality(Owing(t)') \in Nat /\ Cardinality(Owing(t)) \in Nat /\ Cardinality(run[t]) \in Nat
  BY <1>3, FiniteParts, FS_CardinalityType
<1>5. CASE t = src[p]
  <2>1. Cardinality(Owing(t)) <= Cardinality(Owing(t)') + 1
    BY <1>3, CardinalityOfMore
  <2>2. count'[t] = 0 /\ (count[t] = 0 => abandoned'[t] >= abandoned[t] + 1)
    BY <1>1, <1>5
  <2>3. abandoned[t] <= abandoned'[t]
    OBVIOUS
  <2> QED  BY <1>1, <1>2, <1>4, <2>1, <2>2, <2>3
<1>6. CASE t # src[p]
  <2>1. Owing(t) \subseteq Owing(t)'
    BY <1>6
  <2>2. Cardinality(Owing(t)) <= Cardinality(Owing(t)')
    BY <1>3, <2>1, FS_Subset
  <2>3. count'[t] = count[t]
    BY <1>1, <1>6
  <2>4. abandoned[t] <= abandoned'[t]
    OBVIOUS
  <2> QED  BY <1>1, <1>2, <1>4, <2>2, <2>3, <2>4
<1> QED  BY <1>5, <1>6

LEMMA StaleContinue ==
  ASSUME TypeInv, StaleBounded, NEW p \in Process, Continue(p)
  PROVE  StaleBounded'
<1>t. /\ pc \in [Process -> {"idle", "start", "wait", "take", "status", "rdata"}]
      /\ src \in [Process -> Source] /\ job \in [Process -> Op \cup {NoOp}]
      /\ abandoned \in [Source -> Nat] /\ "ctrl" \in Source
  BY DEF TypeInv, TypeOK, Source
<1>1. CASE StartRead(p)
  <2>1. /\ p \notin Owing("ctrl") /\ Owing("ctrl")' = Owing("ctrl") \cup {p}
        /\ \A t \in Source \ {"ctrl"} : Owing(t)' = Owing(t)
    BY <1>1, <1>t DEF StartRead, Waiting, Owing
  <2> QED  BY <1>1, <1>t, <2>1, LaunchBounds DEF StartRead
<1>2. CASE Wake(p)
  <2>1. \A s \in Source : Owing(s)' = Owing(s)
    BY <1>2, <1>t DEF Wake, Owing
  <2> QED  BY <1>2, <2>1 DEF Wake, StaleBounded, devVars, history
<1>3. ASSUME TakeOne(p) \/ TakeOther(p) \/ TakeFails(p)
      PROVE  StaleBounded'
  <2>1. /\ pc[p] = "take" /\ count' = [count EXCEPT ![src[p]] = 0]
        /\ UNCHANGED <<bit, run>>
    BY <1>3 DEF TakeOne, TakeOther, TakeFails
  <2>2. /\ abandoned' \in [Source -> Nat]
        /\ \A t \in Source : abandoned[t] <= abandoned'[t]
        /\ count[src[p]] = 0 => abandoned'[src[p]] >= abandoned[src[p]] + 1
    <3>1. CASE TakeOne(p)
      BY <1>t, <3>1 DEF TakeOne
    <3>2. CASE TakeOther(p) \/ TakeFails(p)
      BY <1>t, <3>2 DEF TakeOther, TakeFails, LeftBehind
    <3> QED  BY <1>3, <3>1, <3>2
  <2>3. /\ \A q \in Process : q # p => pc'[q] = pc[q] /\ job'[q] = job[q]
        /\ src[p] # "job" => job'[p] = job[p]
        /\ UNCHANGED src
    BY <1>3, <1>t DEF TakeOne, TakeOther, TakeFails, Waited
  <2>4. \A t \in Source : Owing(t) \subseteq Owing(t)' \cup {p}
    BY <2>3 DEF Owing
  <2>5. \A t \in Source \ {src[p]} : Owing(t) \subseteq Owing(t)'
    BY <2>3 DEF Owing
  <2>6. \A t \in Source : Owing(t)' \subseteq Process
    BY DEF Owing
  <2> QED  BY <2>1, <2>2, <2>4, <2>5, <2>6, TakeBounds
<1>4. CASE ReadStatus(p) \/ ReadRdata(p)
  <2>1. \A s \in Source : Owing(s)' = Owing(s)
    BY <1>4, <1>t DEF ReadStatus, ReadRdata, Owing
  <2> QED  BY <1>4, <2>1 DEF ReadStatus, ReadRdata, StaleBounded, devVars
<1> QED  BY <1>1, <1>2, <1>3, <1>4 DEF Continue

LEMMA StaleHardware ==
  ASSUME TypeInv, StaleBounded, NEW s \in Source, Hardware(s)
  PROVE  StaleBounded'
<1>t. /\ count \in [Source -> Nat] /\ bit \in [Source -> BOOLEAN]
      /\ run \in [Source -> SUBSET Op] /\ \A t \in Source : abandoned[t] \in Nat
  BY DEF TypeInv, TypeOK
<1>1. CASE \E o \in Op : Complete(s, o)
  <2> PICK o \in Op : Complete(s, o)
    BY <1>1
  <2>1. \A t \in Source : Owing(t)' = Owing(t)
    BY DEF Complete, Owing, callVars
  <2>2. Cardinality(run'[s]) = Cardinality(run[s]) - 1
    <3>1. o \in run[s] /\ run'[s] = run[s] \ {o}
      BY <1>t DEF Complete
    <3> QED  BY <3>1, FiniteParts, FS_RemoveElement
  <2>3. /\ \A t \in Source \ {s} : run'[t] = run[t] /\ bit'[t] = bit[t]
        /\ UNCHANGED <<count, abandoned>>
    BY <1>t DEF Complete
  <2> SUFFICES ASSUME NEW t \in Source
               PROVE  count[t] + (IF bit'[t] THEN 1 ELSE 0) + Cardinality(run'[t])
                        <= abandoned[t] + Cardinality(Owing(t))
    BY <2>1, <2>3 DEF StaleBounded
  <2>4. CASE t = s
    BY <1>t, <2>2, <2>4, FiniteParts DEF StaleBounded
  <2>5. CASE t # s
    BY <2>3, <2>5 DEF StaleBounded
  <2> QED  BY <2>4, <2>5
<1>2. CASE Interrupt(s)
  <2>1. \A t \in Source : Owing(t)' = Owing(t)
    BY <1>2 DEF Interrupt, Owing, callVars
  <2>2. /\ count'[s] = count[s] + 1 /\ bit[s] /\ ~bit'[s]
        /\ \A t \in Source \ {s} : count'[t] = count[t] /\ bit'[t] = bit[t]
        /\ UNCHANGED <<run, abandoned>>
    BY <1>2, <1>t DEF Interrupt, history
  <2> SUFFICES ASSUME NEW t \in Source
               PROVE  count'[t] + (IF bit'[t] THEN 1 ELSE 0) + Cardinality(run[t])
                        <= abandoned[t] + Cardinality(Owing(t))
    BY <2>1, <2>2 DEF StaleBounded
  <2>3. CASE t = s
    BY <1>t, <2>2, <2>3, FiniteParts DEF StaleBounded
  <2>4. CASE t # s
    BY <2>2, <2>4 DEF StaleBounded
  <2> QED  BY <2>3, <2>4
<1> QED  BY <1>1, <1>2 DEF Hardware

LEMMA StaleStep == TypeInv /\ StaleBounded /\ [Next]_vars => StaleBounded'
<1> SUFFICES ASSUME TypeInv, StaleBounded, [Next]_vars PROVE StaleBounded'
  OBVIOUS
<1>1. CASE Next
  BY <1>1, StaleHandle, StaleBegin, StaleContinue, StaleHardware DEF Next
<1>2. CASE UNCHANGED vars
  BY <1>2 DEF StaleBounded, Owing, vars, callVars, devVars, history
<1> QED  BY <1>1, <1>2

\* What a node holds or will hold never exceeds the waits that are owed and the
\* operations abandoned before, for any processes and any number of kills.
THEOREM StaleIsBounded == Spec => []StaleBounded
<1>1. Spec => []TypeInv
  BY TypeInit, TypeStep, PTL DEF Spec
<1> QED  BY <1>1, StaleInit, StaleStep, PTL DEF Spec

-----------------------------------------------------------------------------
(* A lone process.  The driver's counter says how many interrupts came, not *)
(* whose they are.  One process that is not killed and waits for its jobs  *)
(* keeps in step with the device all the same: between its calls nothing   *)
(* is running, pending or counted, and inside a call exactly its own       *)
(* operation is.                                                           *)

Lone == (\E p : Process = {p}) /\ ~Killed /\ Careful

\* The operation p owes source s a wait for.
OwedOp(p, s) == IF s = "job" THEN job[p] ELSE op[p]

\* The operation is in exactly one place: running, pending or counted.
InOnePlace(s, o) ==
    \/ run[s] = {o} /\ o \notin finished /\ ~bit[s] /\ count[s] = 0
    \/ run[s] = {} /\ o \in finished /\ bit[s] /\ count[s] = 0
    \/ run[s] = {} /\ o \in finished /\ ~bit[s] /\ count[s] = 1

Quiet(s) == run[s] = {} /\ ~bit[s] /\ count[s] = 0

InStep ==
    \A p \in Process, s \in Source :
        IF p \in Owing(s)
        THEN OwedOp(p, s) \in (1 .. next - 1) \ ok /\ InOnePlace(s, OwedOp(p, s))
        ELSE Quiet(s)

\* Operations have one number each, and calls that overlap have two.
Numbered ==
    /\ finished \subseteq 1 .. next - 1 /\ ok \subseteq finished
    /\ \A p \in Process :
         /\ pc[p] = "take" => count[src[p]] = 1
         /\ pc[p] \in {"wait", "take"} => (src[p] = "job" <=> op[p] = job[p])
         /\ pc[p] = "start" => op[p] \in (1 .. next - 1) \ finished /\ op[p] # job[p]
         /\ pc[p] \in {"status", "rdata"} => op[p] \in finished \ ok /\ op[p] # job[p]

\* What a read finds in the registers.
Reads ==
    /\ misread = {}
    /\ \A p \in Process :
         /\ pc[p] = "start" => addr = want[p]
         /\ pc[p] \in {"wait", "take", "status"} /\ want[p] # "none" /\ ~statErr
              => rdata = want[p]
         /\ pc[p] = "status" => want[p] # "none"
         /\ pc[p] = "rdata" => rdata = want[p]

LoneInv == InStep /\ Numbered /\ Reads

LEMMA LoneInit == Init => LoneInv
<1> SUFFICES ASSUME Init PROVE LoneInv
  OBVIOUS
<1>1. InStep
  BY DEF Init, InStep, Owing, Quiet
<1>2. Numbered
  BY DEF Init, Numbered
<1>3. Reads
  BY DEF Init, Reads
<1> QED  BY <1>1, <1>2, <1>3 DEF LoneInv

LEMMA LoneTypes ==
  ASSUME TypeInv
  PROVE  /\ pc \in [Process -> {"idle", "start", "wait", "take", "status", "rdata"}]
         /\ src \in [Process -> Source]
         /\ want \in [Process -> RegAddr \cup {"none"}]
         /\ op \in [Process -> Op \cup {NoOp}] /\ job \in [Process -> Op \cup {NoOp}]
         /\ \A p \in Process : pc[p] # "idle" => op[p] \in Op
         /\ run \in [Source -> SUBSET Op] /\ bit \in [Source -> BOOLEAN]
         /\ count \in [Source -> Nat] /\ next \in Nat
         /\ Op \subseteq Nat /\ NoOp \notin Op /\ NoOp = 0
         /\ Source = {"ctrl", "dma", "job"}
         /\ finished \subseteq Op /\ ok \subseteq Op
  BY LibAssumption DEF TypeInv, TypeOK, Op, NoOp, Source

LEMMA LoneHandle ==
  ASSUME TypeInv, LoneInv, Lone, NEW p \in Process, Handle(p)
  PROVE  LoneInv'
<1> USE LoneTypes
<1>1. CASE Open(p) \/ OpenFails(p)
  <2>1. UNCHANGED <<callVars, regVars, run, bit, count, next, history>>
    BY <1>1 DEF Open, OpenFails
  <2>2. \A s \in Source : Owing(s)' = Owing(s)
    BY <2>1 DEF Owing, callVars
  <2> QED
    BY <2>1, <2>2 DEF LoneInv, InStep, OwedOp, InOnePlace, Quiet, Numbered, Reads,
                      callVars, regVars, history
<1>2. CASE Close(p)
  <2>1. /\ UNCHANGED <<pc, src, want, op, run, bit, count, next, finished, ok, misread,
                       addr, rdata, statErr>>
        /\ pc[p] = "idle" /\ job[p] = NoOp /\ job' = job
    BY <1>2 DEF Close, Idle, Lone, regVars
  <2>2. \A s \in Source : Owing(s)' = Owing(s)
    BY <2>1 DEF Owing
  <2> QED
    BY <2>1, <2>2 DEF LoneInv, InStep, OwedOp, InOnePlace, Quiet, Numbered, Reads
<1>3. ~Kill(p)
  BY DEF Kill, Lone
<1> QED  BY <1>1, <1>2, <1>3 DEF Handle

LEMMA LoneBegin ==
  ASSUME TypeInv, LoneInv, Lone, NEW p \in Process, Begin(p)
  PROVE  LoneInv'
<1> USE LoneTypes
<1>p. Process = {p}
  BY DEF Lone
\* A start of source s: nothing was in step with s before, the new operation is now.
<1>l. ASSUME NEW s \in Source, Quiet(s), Launch(s, next), next \in Nat \ {0}
      PROVE  run'[s] = {next} /\ \A t \in Source \ {s} : run'[t] = run[t]
  BY <1>l DEF Launch, Quiet
<1>1. CASE StartCompute(p)
  <2>1. /\ pc[p] = "idle" /\ next' = next + 1 /\ next \in Op /\ Launch("ctrl", next)
        /\ UNCHANGED <<job, addr, rdata, statErr, bit, count, finished, ok, misread>>
    BY <1>1, FreshIsOp DEF StartCompute, Idle, regVars, history
  <2>2. /\ pc' = [pc EXCEPT ![p] = "wait"] /\ src' = [src EXCEPT ![p] = "ctrl"]
        /\ op' = [op EXCEPT ![p] = next] /\ want' = [want EXCEPT ![p] = "none"]
    BY <1>1 DEF StartCompute, Waiting
  <2>3. /\ p \notin Owing("ctrl") /\ p \notin Owing("dma")
        /\ p \in Owing("ctrl")' /\ p \notin Owing("dma")'
        /\ p \in Owing("job")' <=> p \in Owing("job")
    BY <2>1, <2>2 DEF Owing
  <2>4. run'["ctrl"] = {next} /\ \A t \in Source \ {"ctrl"} : run'[t] = run[t]
    BY <1>l, <2>1, <2>3 DEF LoneInv, InStep
  <2>5. InStep'
    BY <1>p, <2>1, <2>2, <2>3, <2>4 DEF LoneInv, InStep, OwedOp, InOnePlace, Quiet, Numbered
  <2>6. Numbered'
    BY <1>p, <2>1, <2>2 DEF LoneInv, Numbered, InStep, Owing, OwedOp
  <2>7. Reads'
    BY <1>p, <2>1, <2>2 DEF LoneInv, Reads
  <2> QED  BY <2>5, <2>6, <2>7 DEF LoneInv
<1>2. CASE StartDma(p)
  <2>1. /\ pc[p] = "idle" /\ next' = next + 1 /\ next \in Op /\ Launch("dma", next)
        /\ UNCHANGED <<job, addr, rdata, statErr, bit, count, finished, ok, misread>>
    BY <1>2, FreshIsOp DEF StartDma, Idle, regVars, history
  <2>2. /\ pc' = [pc EXCEPT ![p] = "wait"] /\ src' = [src EXCEPT ![p] = "dma"]
        /\ op' = [op EXCEPT ![p] = next] /\ want' = [want EXCEPT ![p] = "none"]
    BY <1>2 DEF StartDma, Waiting
  <2>3. /\ p \notin Owing("dma") /\ p \notin Owing("ctrl")
        /\ p \in Owing("dma")' /\ p \notin Owing("ctrl")'
        /\ p \in Owing("job")' <=> p \in Owing("job")
    BY <2>1, <2>2 DEF Owing
  <2>4. run'["dma"] = {next} /\ \A t \in Source \ {"dma"} : run'[t] = run[t]
    BY <1>l, <2>1, <2>3 DEF LoneInv, InStep
  <2>5. InStep'
    BY <1>p, <2>1, <2>2, <2>3, <2>4 DEF LoneInv, InStep, OwedOp, InOnePlace, Quiet, Numbered
  <2>6. Numbered'
    BY <1>p, <2>1, <2>2 DEF LoneInv, Numbered, InStep, Owing, OwedOp
  <2>7. Reads'
    BY <1>p, <2>1, <2>2 DEF LoneInv, Reads
  <2> QED  BY <2>5, <2>6, <2>7 DEF LoneInv
<1>3. CASE StartJob(p)
  <2>1. /\ pc[p] = "idle" /\ job[p] = NoOp
        /\ next' = next + 1 /\ next \in Op /\ Launch("job", next)
        /\ UNCHANGED <<pc, src, want, op, addr, rdata, statErr, bit, count, finished, ok, misread>>
        /\ job' = [job EXCEPT ![p] = next]
    BY <1>3, FreshIsOp DEF StartJob, Idle, Lone, regVars
  <2>2. /\ \A s \in Source : p \notin Owing(s)
        /\ p \in Owing("job")' /\ p \notin Owing("ctrl")' /\ p \notin Owing("dma")'
    BY <2>1 DEF Owing
  <2>3. run'["job"] = {next} /\ \A t \in Source \ {"job"} : run'[t] = run[t]
    BY <1>l, <2>1, <2>2 DEF LoneInv, InStep
  <2>4. InStep'
    BY <1>p, <2>1, <2>2, <2>3 DEF LoneInv, InStep, OwedOp, InOnePlace, Quiet, Numbered
  <2>5. Numbered'
    BY <1>p, <2>1 DEF LoneInv, Numbered
  <2>6. Reads'
    BY <1>p, <2>1 DEF LoneInv, Reads
  <2> QED  BY <2>4, <2>5, <2>6 DEF LoneInv
<1>4. CASE WaitJob(p)
  <2>1. /\ pc[p] = "idle" /\ job[p] # NoOp
        /\ pc' = [pc EXCEPT ![p] = "wait"] /\ src' = [src EXCEPT ![p] = "job"]
        /\ op' = [op EXCEPT ![p] = job[p]] /\ want' = [want EXCEPT ![p] = "none"]
        /\ UNCHANGED <<job, run, bit, count, next, addr, rdata, statErr, finished, ok, misread>>
    BY <1>4 DEF WaitJob, Idle, regVars, devVars, history
  <2>2. /\ \A s \in Source : p \in Owing(s)' <=> p \in Owing(s)
        /\ p \notin Owing("ctrl") /\ p \notin Owing("dma")
    BY <2>1 DEF Owing
  <2>3. InStep'
    BY <1>p, <2>1, <2>2 DEF LoneInv, InStep, OwedOp, InOnePlace, Quiet
  <2>4. Numbered'
    BY <1>p, <2>1 DEF LoneInv, Numbered
  <2>5. Reads'
    BY <1>p, <2>1 DEF LoneInv, Reads
  <2> QED  BY <2>3, <2>4, <2>5 DEF LoneInv
<1>5. CASE \E a \in RegAddr : WriteAddr(p, a)
  <2> PICK a \in RegAddr : WriteAddr(p, a)
    BY <1>5
  <2>1. /\ pc[p] = "idle" /\ next' = next + 1 /\ next \in Op
        /\ pc' = [pc EXCEPT ![p] = "start"] /\ op' = [op EXCEPT ![p] = next]
        /\ want' = [want EXCEPT ![p] = a] /\ addr' = a
        /\ UNCHANGED <<src, job, run, bit, count, rdata, statErr, finished, ok, misread>>
    BY FreshIsOp DEF WriteAddr, Idle, devVars, history
  <2>2. /\ \A s \in Source : p \in Owing(s)' <=> p \in Owing(s)
        /\ p \notin Owing("ctrl") /\ p \notin Owing("dma")
    BY <2>1 DEF Owing
  <2>3. InStep'
    BY <1>p, <2>1, <2>2 DEF LoneInv, InStep, OwedOp, InOnePlace, Quiet
  <2>4. Numbered'
    BY <1>p, <2>1, <2>2 DEF LoneInv, Numbered, InStep, Owing, OwedOp
  <2>5. Reads'
    BY <1>p, <2>1 DEF LoneInv, Reads
  <2> QED  BY <2>3, <2>4, <2>5 DEF LoneInv
<1> QED  BY <1>1, <1>2, <1>3, <1>4, <1>5 DEF Begin

LEMMA LoneContinue ==
  ASSUME TypeInv, LoneInv, Lone, NEW p \in Process, Continue(p)
  PROVE  LoneInv'
<1> USE LoneTypes
<1>p. Process = {p}
  BY DEF Lone
<1>1. CASE StartRead(p)
  <2>1. /\ pc[p] = "start" /\ Launch("ctrl", op[p])
        /\ pc' = [pc EXCEPT ![p] = "wait"] /\ src' = [src EXCEPT ![p] = "ctrl"]
        /\ op' = op
        /\ addr = BadAddr => statErr'
        /\ addr # BadAddr => rdata' = addr
        /\ UNCHANGED <<want, job, addr, bit, count, next, finished, ok, misread>>
    BY <1>1 DEF StartRead, Waiting
  <2>2. /\ p \notin Owing("ctrl") /\ p \notin Owing("dma")
        /\ p \in Owing("ctrl")' /\ p \notin Owing("dma")'
        /\ p \in Owing("job")' <=> p \in Owing("job")
    BY <2>1 DEF Owing
  <2>3. run'["ctrl"] = {op[p]} /\ \A t \in Source \ {"ctrl"} : run'[t] = run[t]
    BY <2>1, <2>2 DEF LoneInv, InStep, Quiet, Launch
  <2>4. InStep'
    BY <1>p, <2>1, <2>2, <2>3 DEF LoneInv, InStep, OwedOp, InOnePlace, Quiet, Numbered
  <2>5. Numbered'
    BY <1>p, <2>1 DEF LoneInv, Numbered
  <2>6. Reads'
    BY <1>p, <2>1 DEF LoneInv, Reads
  <2> QED  BY <2>4, <2>5, <2>6 DEF LoneInv
<1>2. CASE Wake(p)
  <2>1. /\ pc[p] = "wait" /\ count[src[p]] > 0
        /\ pc' = [pc EXCEPT ![p] = "take"]
        /\ UNCHANGED <<src, want, op, job, run, bit, count, next, addr, rdata, statErr,
                       finished, ok, misread>>
    BY <1>2 DEF Wake, regVars, devVars, history
  <2>2. \A s \in Source : p \in Owing(s)' <=> p \in Owing(s)
    BY <2>1 DEF Owing
  <2>3. count[src[p]] = 1
    BY <2>1, <2>2 DEF LoneInv, InStep, InOnePlace, Quiet
  <2>4. InStep'
    BY <1>p, <2>1, <2>2 DEF LoneInv, InStep, OwedOp, InOnePlace, Quiet
  <2>5. Numbered'
    BY <1>p, <2>1, <2>3 DEF LoneInv, Numbered
  <2>6. Reads'
    BY <1>p, <2>1 DEF LoneInv, Reads
  <2> QED  BY <2>4, <2>5, <2>6 DEF LoneInv
\* What holds of every end of a wait.
<1>3. ASSUME TakeOne(p) \/ TakeOther(p) \/ TakeFails(p)
      PROVE  LoneInv'
  <2>1. /\ pc[p] = "take" /\ count' = [count EXCEPT ![src[p]] = 0]
        /\ job' = [job EXCEPT ![p] = IF src[p] = "job" THEN NoOp ELSE @]
        /\ UNCHANGED <<src, want, op, run, bit, next, addr, rdata, statErr, finished, misread>>
    BY <1>3 DEF TakeOne, TakeOther, TakeFails, Waited, regVars
  <2>2. \/ /\ pc' = [pc EXCEPT ![p] = "status"]
           /\ want[p] # "none" /\ ok' = ok
        \/ /\ pc' = [pc EXCEPT ![p] = "idle"]
           /\ ok' = ok \/ ok' = ok \cup {op[p]}
    <3>1. CASE TakeOne(p)
      BY <3>1 DEF TakeOne
    <3>2. CASE TakeOther(p) \/ TakeFails(p)
      BY <3>2 DEF TakeOther, TakeFails
    <3> QED  BY <1>3, <3>1, <3>2
  <2>3. /\ count[src[p]] = 1 /\ src[p] \in Source
        /\ src[p] = "job" <=> op[p] = job[p]
    BY <2>1 DEF LoneInv, Numbered
  <2>4. p \in Owing(src[p]) /\ OwedOp(p, src[p]) = op[p]
    BY <2>1, <2>3 DEF Owing, OwedOp
  <2>5. run[src[p]] = {} /\ ~bit[src[p]] /\ op[p] \in finished \ ok
    BY <2>3, <2>4 DEF LoneInv, InStep, InOnePlace
  <2>6. /\ p \notin Owing(src[p])'
        /\ \A t \in Source \ {src[p]} : p \in Owing(t)' <=> p \in Owing(t)
        /\ \A t \in Source \ {src[p]} : p \in Owing(t) => t = "job"
    BY <2>1, <2>2, <2>3 DEF Owing
  <2>7. InStep'
    BY <1>p, <2>1, <2>2, <2>3, <2>5, <2>6 DEF LoneInv, InStep, OwedOp, InOnePlace, Quiet
  <2>8. Numbered'
    <3>1. finished' \subseteq 1 .. next' - 1 /\ ok' \subseteq finished'
      BY <2>1, <2>2, <2>5 DEF LoneInv, Numbered
    <3>2. pc'[p] \in {"status", "idle"} /\ op[p] \in Op
      BY <2>1, <2>2
    <3>3. ASSUME pc'[p] = "status"
          PROVE  op[p] \in finished \ ok' /\ op[p] # job'[p]
      BY <2>1, <2>2, <2>3, <2>5, <3>2, <3>3
    <3> QED  BY <1>p, <2>1, <3>1, <3>2, <3>3 DEF Numbered
  <2>9. Reads'
    BY <1>p, <2>1, <2>2 DEF LoneInv, Reads
  <2> QED  BY <2>7, <2>8, <2>9 DEF LoneInv
<1>4. CASE ReadStatus(p)
  <2>1. /\ pc[p] = "status"
        /\ pc' = [pc EXCEPT ![p] = IF statErr THEN "idle" ELSE "rdata"]
        /\ UNCHANGED <<src, want, op, job, run, bit, count, next, addr, rdata, statErr,
                       finished, ok, misread>>
    BY <1>4 DEF ReadStatus, regVars, devVars
  <2>2. \A s \in Source : p \in Owing(s)' <=> p \in Owing(s)
    BY <2>1 DEF Owing
  <2>3. InStep'
    BY <1>p, <2>1, <2>2 DEF LoneInv, InStep, OwedOp, InOnePlace, Quiet, Owing
  <2>4. Numbered'
    BY <1>p, <2>1 DEF LoneInv, Numbered
  <2>5. Reads'
    BY <1>p, <2>1 DEF LoneInv, Reads
  <2> QED  BY <2>3, <2>4, <2>5 DEF LoneInv
<1>5. CASE ReadRdata(p)
  <2>1. /\ pc[p] = "rdata" /\ pc' = [pc EXCEPT ![p] = "idle"]
        /\ ok' = ok \cup {op[p]}
        /\ misread' = IF rdata = want[p] THEN misread ELSE misread \cup {op[p]}
        /\ UNCHANGED <<src, want, op, job, run, bit, count, next, addr, rdata, statErr, finished>>
    BY <1>5 DEF ReadRdata, regVars, devVars
  <2>2. \A s \in Source : /\ p \in Owing(s)' <=> p \in Owing(s)
                          /\ p \in Owing(s) => s = "job"
    BY <2>1 DEF Owing
  <2>3. InStep'
    BY <1>p, <2>1, <2>2 DEF LoneInv, InStep, OwedOp, InOnePlace, Quiet, Numbered
  <2>4. Numbered'
    BY <1>p, <2>1 DEF LoneInv, Numbered
  <2>5. Reads'
    BY <1>p, <2>1 DEF LoneInv, Reads
  <2> QED  BY <2>3, <2>4, <2>5 DEF LoneInv
<1> QED  BY <1>1, <1>2, <1>3, <1>4, <1>5 DEF Continue

LEMMA LoneHardware ==
  ASSUME TypeInv, LoneInv, Lone, NEW s \in Source, Hardware(s)
  PROVE  LoneInv'
<1> USE LoneTypes
<1> PICK p \in Process : Process = {p}
  BY DEF Lone
<1>1. CASE \E o \in Op : Complete(s, o)
  <2> PICK o \in Op : Complete(s, o)
    BY <1>1
  <2>1. /\ o \in run[s] /\ run' = [run EXCEPT ![s] = @ \ {o}]
        /\ bit' = [bit EXCEPT ![s] = TRUE] /\ finished' = finished \cup {o}
        /\ UNCHANGED <<pc, src, want, op, job, count, next, addr, rdata, statErr, ok, misread>>
    BY DEF Complete, callVars, regVars
  <2>2. \A t \in Source : p \in Owing(t)' <=> p \in Owing(t)
    BY <2>1 DEF Owing
  <2>3. /\ p \in Owing(s) /\ o = OwedOp(p, s) /\ run[s] = {o} /\ o \notin finished
        /\ o \in 1 .. next - 1 /\ count[s] = 0
    BY <2>1 DEF LoneInv, InStep, InOnePlace, Quiet
  <2>4. \A t \in Source \ {s} : p \in Owing(t) => OwedOp(p, t) # o
    BY <2>3 DEF Owing, OwedOp, LoneInv, Numbered
  <2>5. InStep'
    BY <2>1, <2>2, <2>3, <2>4 DEF LoneInv, InStep, OwedOp, InOnePlace, Quiet
  <2>6. pc[p] = "start" => op[p] # o
    BY <2>1, <2>3 DEF Owing, OwedOp, LoneInv, Numbered
  <2>7. Numbered'
    BY <2>1, <2>3, <2>6 DEF LoneInv, Numbered
  <2>8. Reads'
    BY <2>1 DEF LoneInv, Reads
  <2> QED  BY <2>5, <2>7, <2>8 DEF LoneInv
<1>2. CASE Interrupt(s)
  <2>1. /\ bit[s] /\ bit' = [bit EXCEPT ![s] = FALSE]
        /\ count' = [count EXCEPT ![s] = @ + 1]
        /\ UNCHANGED <<pc, src, want, op, job, run, next, addr, rdata, statErr,
                       finished, ok, misread>>
    BY <1>2 DEF Interrupt, callVars, regVars, history
  <2>2. \A t \in Source : p \in Owing(t)' <=> p \in Owing(t)
    BY <2>1 DEF Owing
  <2>3. InStep'
    BY <2>1, <2>2 DEF LoneInv, InStep, OwedOp, InOnePlace, Quiet
  <2>4. ~(pc[p] = "take" /\ src[p] = s)
    BY <2>1 DEF LoneInv, InStep, InOnePlace, Quiet, Numbered
  <2>5. Numbered'
    BY <2>1, <2>4 DEF LoneInv, Numbered
  <2>6. Reads'
    BY <2>1 DEF LoneInv, Reads
  <2> QED  BY <2>3, <2>5, <2>6 DEF LoneInv
<1> QED  BY <1>1, <1>2 DEF Hardware

LEMMA LoneStep == Lone /\ TypeInv /\ LoneInv /\ [Next]_vars => LoneInv'
<1> SUFFICES ASSUME Lone, TypeInv, LoneInv, [Next]_vars PROVE LoneInv'
  OBVIOUS
<1>1. CASE Next
  BY <1>1, LoneHandle, LoneBegin, LoneContinue, LoneHardware DEF Next
<1>2. CASE UNCHANGED vars
  BY <1>2 DEF LoneInv, InStep, Owing, OwedOp, InOnePlace, Quiet, Numbered, Reads,
              vars, callVars, regVars, devVars, history
<1> QED  BY <1>1, <1>2

LEMMA LoneInvariant == ASSUME Lone PROVE Spec => [](TypeInv /\ LoneInv)
<1>1. TypeInv /\ LoneInv /\ [Next]_vars => (TypeInv /\ LoneInv)'
  BY TypeStep, LoneStep
<1>2. Init => TypeInv /\ LoneInv
  BY TypeInit, LoneInit
<1> QED  BY <1>1, <1>2, PTL DEF Spec

\* A lone process never finds another count than one, so that it never gets
\* CIM_E_PROTO for an interrupt that is not its own.
THEOREM LoneCountsOne == ASSUME Lone PROVE Spec => []ExactlyOne
<1>1. LoneInv => ExactlyOne
  BY DEF LoneInv, Numbered, ExactlyOne
<1> QED  BY <1>1, LoneInvariant, PTL

\* A word that a lone process reads is the word it asked for.
THEOREM LoneReadsItsWord == ASSUME Lone PROVE Spec => []ReadsItsWord
<1>1. LoneInv => ReadsItsWord
  BY DEF LoneInv, Reads, ReadsItsWord
<1> QED  BY <1>1, LoneInvariant, PTL

\* To a lone process success means that its own operation has completed.
THEOREM LoneOkMeansDone == ASSUME Lone PROVE Spec => []OkMeansDone
<1>1. LoneInv => OkMeansDone
  BY DEF LoneInv, Numbered, OkMeansDone
<1> QED  BY <1>1, LoneInvariant, PTL

-----------------------------------------------------------------------------
(* The refinement.                                                         *)

LEMMA ServiceBegin ==
  ASSUME TypeInv, LoneInv, Lone, NEW p \in Process, Begin(p)
  PROVE  [Service!Next]_Service!vars
<1> USE LoneTypes
<1>1. ASSUME UNCHANGED <<finished, ok>>, next \in Op, next' = next + 1
      PROVE  Service!Next
  <2>1. Service!Start(next)
    BY <1>1 DEF Service!Start
  <2> QED  BY <1>1, <2>1 DEF Service!Next
<1>2. CASE StartCompute(p) \/ StartDma(p) \/ StartJob(p) \/ \E a \in RegAddr : WriteAddr(p, a)
  BY <1>1, <1>2, FreshIsOp DEF StartCompute, StartDma, StartJob, WriteAddr, history
<1>3. CASE WaitJob(p)
  BY <1>3 DEF WaitJob, history, Service!vars
<1> QED  BY <1>2, <1>3 DEF Begin

LEMMA ServiceContinue ==
  ASSUME TypeInv, LoneInv, Lone, NEW p \in Process, Continue(p)
  PROVE  [Service!Next]_Service!vars
<1> USE LoneTypes
<1>1. ASSUME UNCHANGED <<finished, next>>, op[p] \in finished \ ok, ok' = ok \cup {op[p]}
      PROVE  Service!Next
  <2>1. Service!ReturnOk(op[p])
    BY <1>1 DEF Service!ReturnOk
  <2> QED  BY <1>1, <2>1 DEF Service!Next
<1>2. CASE TakeOne(p)
  <2>1. /\ pc[p] = "take" /\ count[src[p]] = 1 /\ src[p] \in Source
        /\ UNCHANGED <<finished, next>>
        /\ ok' = ok \/ ok' = ok \cup {op[p]}
    BY <1>2 DEF TakeOne
  <2>2. op[p] \in finished \ ok
    <3>1. (src[p] = "job") <=> (op[p] = job[p])
      BY <2>1 DEF LoneInv, Numbered
    <3>2. op[p] \in Op
      BY <2>1
    <3>3. p \in Owing(src[p]) /\ OwedOp(p, src[p]) = op[p]
      BY <2>1, <3>1, <3>2 DEF Owing, OwedOp
    <3> QED  BY <2>1, <3>3 DEF LoneInv, InStep, InOnePlace
  <2> QED  BY <1>1, <2>1, <2>2 DEF Service!vars
<1>3. CASE ReadRdata(p)
  BY <1>1, <1>3 DEF ReadRdata, LoneInv, Numbered
<1>4. CASE StartRead(p) \/ Wake(p) \/ TakeOther(p) \/ TakeFails(p) \/ ReadStatus(p)
  BY <1>4 DEF StartRead, Wake, TakeOther, TakeFails, ReadStatus, history, Service!vars
<1> QED  BY <1>2, <1>3, <1>4 DEF Continue

LEMMA ServiceHardware ==
  ASSUME TypeInv, LoneInv, Lone, NEW s \in Source, Hardware(s)
  PROVE  [Service!Next]_Service!vars
<1> USE LoneTypes
<1> PICK p \in Process : Process = {p}
  BY DEF Lone
<1>1. CASE \E o \in Op : Complete(s, o)
  <2> PICK o \in Op : Complete(s, o)
    BY <1>1
  <2>1. o \in run[s] /\ finished' = finished \cup {o} /\ UNCHANGED <<next, ok>>
    BY DEF Complete
  <2>2. o \in (1 .. next - 1) \ finished
    BY <2>1 DEF LoneInv, InStep, InOnePlace, Quiet
  <2>3. Service!Finish(o)
    BY <2>1, <2>2 DEF Service!Finish
  <2> QED  BY <2>3 DEF Service!Next
<1>2. CASE Interrupt(s)
  BY <1>2 DEF Interrupt, history, Service!vars
<1> QED  BY <1>1, <1>2 DEF Hardware

\* To a lone process the library is the service of cim.h: every operation starts
\* once, completes once, and is reported as successful once, after it completed.
THEOREM LoneService == ASSUME Lone PROVE Spec => ServiceSpec
<1>1. Init => Service!Init
  BY DEF Init, Service!Init
<1>2. ASSUME TypeInv, LoneInv, [Next]_vars PROVE [Service!Next]_Service!vars
  <2>1. ASSUME NEW p \in Process, Handle(p) PROVE UNCHANGED Service!vars
    BY <2>1 DEF Handle, Open, OpenFails, Close, Kill, history, Service!vars
  <2>2. CASE UNCHANGED vars
    BY <2>2 DEF vars, history, Service!vars
  <2> QED
    BY <1>2, <2>1, <2>2, ServiceBegin, ServiceContinue, ServiceHardware DEF Next
<1> QED  BY <1>1, <1>2, LoneInvariant, PTL DEF Spec, ServiceSpec, Service!Spec

-----------------------------------------------------------------------------
(* Every call of a lone process has something to wait for, and little of it. *)

\* A handle that is open keeps the interrupts enabled, and only a process that has
\* one is inside a call.
HandleInv ==
    /\ open # {} => enabled
    /\ \A p \in Process : pc[p] # "idle" => p \in open

\* The call goes on by itself, or what it waits for is on its way: an operation the
\* device completes, a status bit that interrupts, or a counter that is not zero.
GoesOn(p) ==
    pc[p] = "wait" =>
        \/ count[src[p]] > 0
        \/ enabled /\ bit[src[p]]
        \/ \E o \in run[src[p]] : \A q \in run[src[p]] : o <= q

\* The steps until the completions of a source are counted, and those of the call.
Way(s) == IF run[s] # {} THEN 2 ELSE IF bit[s] THEN 1 ELSE 0
Rank == [idle |-> 0, rdata |-> 1, status |-> 2, take |-> 3, wait |-> 4, start |-> 7]
Work(p) == Rank[pc[p]] + Way("ctrl") + Way("dma") + Way("job")

LEMMA HandleInvStep ==
  ASSUME Lone, TypeInv, HandleInv, [Next]_vars
  PROVE  HandleInv'
<1> USE LoneTypes DEF HandleInv
<1>p. PICK p \in Process : Process = {p}
  BY DEF Lone
<1>1. CASE Handle(p)
  <2>1. CASE Open(p)
    BY <1>p, <2>1 DEF Open, callVars
  <2>2. CASE OpenFails(p)
    <3>1. open = {}
      BY <1>p, <2>2 DEF OpenFails, TypeInv, TypeOK
    <3> QED  BY <2>2, <3>1 DEF OpenFails, callVars
  <2>3. CASE Close(p)
    <3>1. open' = {} /\ pc' = pc /\ pc[p] = "idle"
      BY <1>p, <2>3 DEF Close, Idle, TypeInv, TypeOK
    <3> QED  BY <1>p, <3>1
  <2> QED  BY <1>1, <2>1, <2>2, <2>3 DEF Handle, Kill, Lone
<1>2. CASE Begin(p)
  <2>1. p \in open /\ UNCHANGED <<open, enabled>>
    BY <1>2 DEF Begin, StartCompute, StartDma, StartJob, WaitJob, WriteAddr, Idle, devVars
  <2> QED  BY <1>p, <2>1
<1>3. CASE Continue(p)
  <2>1. pc[p] # "idle" /\ UNCHANGED <<open, enabled>>
    BY <1>3 DEF Continue, StartRead, Wake, TakeOne, TakeOther, TakeFails, ReadStatus, ReadRdata,
       devVars
  <2> QED  BY <1>p, <2>1
<1>4. CASE (\E s \in Source : Hardware(s)) \/ UNCHANGED vars
  <2>1. UNCHANGED <<open, enabled, pc>>
    BY <1>4 DEF Hardware, Complete, Interrupt, vars, callVars, devVars
  <2> QED  BY <2>1
<1> QED  BY <1>p, <1>1, <1>2, <1>3, <1>4 DEF Next

LEMMA HandleInvariant == ASSUME Lone PROVE Spec => [](TypeInv /\ LoneInv /\ HandleInv)
<1>1. Init => HandleInv
  BY DEF Init, HandleInv
<1>2. TypeInv /\ HandleInv /\ [Next]_vars => HandleInv'
  BY HandleInvStep
<1> QED  BY <1>1, <1>2, LoneInvariant, PTL DEF Spec

\* Inside a call there is work left, and what is left of it is bounded.
LEMMA WorkBounds ==
  ASSUME TypeInv, LoneInv, Lone, NEW p \in Process
  PROVE  /\ \A s \in Source : Way(s) \in 0 .. 2
         /\ Rank[pc[p]] \in 0 .. 7
         /\ pc[p] # "idle" => Work(p) \in 1 .. 9
<1> USE LoneTypes
<1>1. \A s \in Source : Way(s) \in 0 .. 2
  BY DEF Way
<1>2. Rank[pc[p]] \in 0 .. 7 /\ (pc[p] # "idle" => Rank[pc[p]] > 0)
  BY DEF Rank
<1>3. pc[p] # "start" => Rank[pc[p]] <= 4
  BY DEF Rank
<1>4. \A s \in {"ctrl", "dma"} : Way(s) # 0 => pc[p] \in {"wait", "take"} /\ src[p] = s
  BY DEF Way, LoneInv, InStep, Quiet, Owing
<1>5. Way("ctrl") \in 0 .. 2 /\ Way("dma") \in 0 .. 2 /\ Way("job") \in 0 .. 2
  BY <1>1
<1>6. Way("ctrl") = 0 \/ (Way("dma") = 0 /\ pc[p] # "start")
  BY <1>4
<1>7. Way("dma") = 0 \/ pc[p] # "start"
  BY <1>4
<1>8. ASSUME pc[p] # "idle" PROVE Work(p) \in 1 .. 9
  BY ONLY <1>2, <1>3, <1>5, <1>6, <1>7, <1>8 DEF Work
<1> QED  BY <1>1, <1>2, <1>8

LEMMA WaitGoesOn ==
  ASSUME TypeInv, LoneInv, HandleInv, NEW p \in Process
  PROVE  GoesOn(p)
<1> USE LoneTypes
<1> SUFFICES ASSUME pc[p] = "wait"
             PROVE  \/ count[src[p]] > 0
                    \/ enabled /\ bit[src[p]]
                    \/ \E o \in run[src[p]] : \A q \in run[src[p]] : o <= q
  BY DEF GoesOn
<1> DEFINE s == src[p]
           o == OwedOp(p, s)
<1>1. s \in Source /\ op[p] \in Op /\ (s = "job" <=> op[p] = job[p])
  BY DEF LoneInv, Numbered
<1>2. p \in Owing(s) /\ o \in Nat
  BY <1>1 DEF Owing, OwedOp
<1>3. InOnePlace(s, o)
  BY <1>1, <1>2 DEF LoneInv, InStep
<1>4. enabled
  BY DEF HandleInv
<1> QED  BY <1>1, <1>2, <1>3, <1>4 DEF InOnePlace

LEMMA ContinueWorks ==
  ASSUME TypeInv, LoneInv, Lone, NEW p \in Process, Continue(p)
  PROVE  Work(p)' < Work(p)
<1> USE LoneTypes
<1>1. /\ Rank[pc[p]] \in 0 .. 7 /\ Way("ctrl") \in 0 .. 2 /\ Way("dma") \in 0 .. 2
      /\ Way("job") \in 0 .. 2
  BY WorkBounds
<1>2. CASE StartRead(p)
  <2>1. /\ pc[p] = "start" /\ pc' = [pc EXCEPT ![p] = "wait"]
        /\ UNCHANGED bit /\ Launch("ctrl", op[p])
    BY <1>2 DEF StartRead, Waiting
  <2>2. Rank[pc[p]] = 7 /\ Rank[pc'[p]] = 4
    BY <2>1 DEF Rank
  <2>3. Way("dma")' = Way("dma") /\ Way("job")' = Way("job") /\ Way("ctrl")' \in 0 .. 2
    BY <2>1 DEF Launch, Way
  <2> QED  BY ONLY <1>1, <2>2, <2>3 DEF Work
<1>3. CASE ~StartRead(p)
  <2>1. UNCHANGED <<run, bit>> /\ Rank[pc'[p]] \in 0 .. 7 /\ Rank[pc'[p]] < Rank[pc[p]]
    BY <1>3 DEF Continue, Wake, TakeOne, TakeOther, TakeFails, ReadStatus, ReadRdata, devVars, Rank
  <2>2. /\ Way("ctrl")' = Way("ctrl") /\ Way("dma")' = Way("dma")
        /\ Way("job")' = Way("job")
    BY <2>1 DEF Way
  <2> QED  BY ONLY <1>1, <2>1, <2>2 DEF Work
<1> QED  BY <1>2, <1>3

LEMMA HardwareWorks ==
  ASSUME TypeInv, LoneInv, Lone, NEW p \in Process, NEW s \in Source, Hardware(s)
  PROVE  Work(p)' < Work(p)
<1> USE LoneTypes
<1>p. Process = {p}
  BY DEF Lone
<1>1. /\ Rank[pc[p]] \in 0 .. 7 /\ Way("ctrl") \in 0 .. 2 /\ Way("dma") \in 0 .. 2
      /\ Way("job") \in 0 .. 2
  BY WorkBounds
<1>2. pc' = pc /\ \A t \in Source \ {s} : run'[t] = run[t] /\ bit'[t] = bit[t]
  BY DEF Hardware, Complete, Interrupt, callVars
<1>3. Way(s)' < Way(s) /\ Way(s)' \in 0 .. 2
  <2>1. CASE \E o \in Op : Complete(s, o)
    <3> PICK o \in Op : Complete(s, o)
      BY <2>1
    <3>1. o \in run[s] /\ run'[s] = run[s] \ {o} /\ bit'[s]
      BY DEF Complete
    <3>2. run[s] = {o}
      BY <1>p, <3>1 DEF LoneInv, InStep, InOnePlace, Quiet
    <3> QED  BY <3>1, <3>2 DEF Way
  <2>2. CASE Interrupt(s)
    <3>1. bit[s] /\ ~bit'[s] /\ run' = run
      BY <2>2 DEF Interrupt
    <3>2. run[s] = {}
      BY <1>p, <3>1 DEF LoneInv, InStep, InOnePlace, Quiet
    <3> QED  BY <3>1, <3>2 DEF Way
  <2> QED  BY <2>1, <2>2 DEF Hardware
<1>4. \A t \in Source \ {s} : Way(t)' = Way(t)
  BY <1>2 DEF Way
<1>5. Rank[pc[p]]' = Rank[pc[p]]
  BY <1>2 DEF Rank
<1>6. CASE s = "ctrl"
  <2>1. Way("dma")' = Way("dma") /\ Way("job")' = Way("job")
    BY <1>4, <1>6
  <2>2. Way("ctrl")' < Way("ctrl") /\ Way("ctrl")' \in 0 .. 2
    BY <1>3, <1>6
  <2> QED  BY ONLY <1>1, <1>5, <2>1, <2>2 DEF Work
<1>7. CASE s = "dma"
  <2>1. Way("ctrl")' = Way("ctrl") /\ Way("job")' = Way("job")
    BY <1>4, <1>7
  <2>2. Way("dma")' < Way("dma") /\ Way("dma")' \in 0 .. 2
    BY <1>3, <1>7
  <2> QED  BY ONLY <1>1, <1>5, <2>1, <2>2 DEF Work
<1>8. CASE s = "job"
  <2>1. Way("ctrl")' = Way("ctrl") /\ Way("dma")' = Way("dma")
    BY <1>4, <1>8
  <2>2. Way("job")' < Way("job") /\ Way("job")' \in 0 .. 2
    BY <1>3, <1>8
  <2> QED  BY ONLY <1>1, <1>5, <2>1, <2>2 DEF Work
<1> QED  BY <1>6, <1>7, <1>8

\* A lone process never waits in vain: whenever it waits, its completion is counted,
\* about to interrupt, or going to be made by the device, with the interrupts
\* enabled.  And whatever happens while it is inside a call, its own steps or the
\* device's, brings the end of the call nearer: after nine steps it has returned.
THEOREM LoneCallsEnd ==
    ASSUME Lone
    PROVE  Spec => /\ [](\A p \in Process : GoesOn(p) /\ (pc[p] # "idle" => Work(p) \in 1 .. 9))
                   /\ [][\A p \in Process : pc[p] # "idle" => Work(p)' < Work(p)]_vars
<1>1. TypeInv /\ LoneInv /\ HandleInv =>
        \A p \in Process : GoesOn(p) /\ (pc[p] # "idle" => Work(p) \in 1 .. 9)
  BY WaitGoesOn, WorkBounds
<1>2. ASSUME TypeInv, LoneInv, HandleInv, Next, NEW p \in Process, pc[p] # "idle"
      PROVE  Work(p)' < Work(p)
  <2>1. Process = {p} /\ p \in open
    BY <1>2 DEF Lone, HandleInv
  <2>2. ~Handle(p) /\ ~Begin(p)
    BY <1>2, <2>1 DEF Handle, Open, OpenFails, Close, Kill, Begin, StartCompute, StartDma,
       StartJob, WaitJob, WriteAddr, Idle, Lone
  <2> QED  BY <1>2, <2>1, <2>2, ContinueWorks, HardwareWorks DEF Next
<1>3. TypeInv /\ LoneInv /\ HandleInv /\ [Next]_vars
        => [\A p \in Process : pc[p] # "idle" => Work(p)' < Work(p)]_vars
  BY <1>2
<1> QED  BY <1>1, <1>3, HandleInvariant, PTL DEF Spec

=============================================================================
