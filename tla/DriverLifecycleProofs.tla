------------------------ MODULE DriverLifecycleProofs ------------------------
(***************************************************************************)
(* Proofs about DriverLifecycle: probe() leaves all or nothing, and freed  *)
(* memory is touched only by those who kept a node open, for any number of *)
(* users and of probes.                                                    *)
(***************************************************************************)
EXTENDS DriverLifecycle, TLAPS

\* The order of the sources.
LEMMA SourceOrder ==
    /\ Before["dma"] = {} /\ Before["ctrl"] = {"dma"} /\ Before["job"] = {"dma", "ctrl"}
    /\ \A s \in Source : s = "dma" \/ s = "ctrl" \/ s = "job"
BY DEF Before, Source

-----------------------------------------------------------------------------
(* Types.                                                                  *)

LEMMA LifecycleTypeInit == Init => TypeOK
<1> SUFFICES ASSUME Init PROVE TypeOK
  OBVIOUS
<1>1. 0 \in Gen /\ gen \in Gen
  BY LifecycleAssumption DEF Init, Gen
<1>2. count \in [Source -> 0 .. Many]
  BY DEF Init, Many
<1>3. file \in [User -> [Source -> Gen]] /\ rd \in [User -> Source \cup {"none"}]
  BY <1>1 DEF Init
<1>4. taken \in [Source -> SUBSET Source] /\ serving \subseteq Source
  BY DEF Init
<1> QED  BY <1>1, <1>2, <1>3, <1>4 DEF Init, TypeOK, Stage

LEMMA ProbeType == TypeOK /\ ProbeStep => TypeOK'
<1> SUFFICES ASSUME TypeOK, ProbeStep PROVE TypeOK'
  OBVIOUS
<1> USE DEF TypeOK, Stage
<1>1. CASE AllocFails \/ JudgeProbe
  BY <1>1 DEF AllocFails, JudgeProbe, deviceVars, isrVars, userVars, history
<1>2. CASE Acquire
  <2>1. gen' \in Gen
    BY <1>2, LifecycleAssumption DEF Acquire, Gen
  <2>2. count' \in [Source -> 0 .. Many]
    BY <1>2 DEF Acquire, Many
  <2> QED  BY <1>2, <2>1, <2>2 DEF Acquire, deviceVars, isrVars, userVars, history
<1>3. CASE EnableDevice
  BY <1>3 DEF EnableDevice, isrVars, userVars, history
<1>4. ASSUME NEW s \in Source, RegisterNode(s) PROVE TypeOK'
  BY <1>4 DEF RegisterNode, deviceVars, isrVars, userVars, history
<1>5. ASSUME NEW s \in Source, UndoNode(s) PROVE TypeOK'
  BY <1>5 DEF UndoNode, deviceVars, isrVars, userVars, history
<1>6. ASSUME NEW s \in Source, RequestIrq(s) PROVE TypeOK'
  BY <1>6 DEF RequestIrq, deviceVars, isrVars, userVars, history
<1> QED  BY <1>1, <1>2, <1>3, <1>4, <1>5, <1>6 DEF ProbeStep

LEMMA ReleaseType == TypeOK /\ (Remove \/ ReleaseStep) => TypeOK'
<1> SUFFICES ASSUME TypeOK, Remove \/ ReleaseStep PROVE TypeOK'
  OBVIOUS
<1> USE DEF TypeOK, Stage
<1>1. CASE Remove
  BY <1>1 DEF Remove, isrVars, userVars, history
<1>2. ASSUME NEW s \in Source, WithdrawNode(s) \/ ReleaseIrq(s) PROVE TypeOK'
  BY <1>2 DEF WithdrawNode, ReleaseIrq, deviceVars, isrVars, userVars, history
<1>3. CASE ReleaseMemory
  BY <1>3 DEF ReleaseMemory, deviceVars, isrVars, userVars
<1> QED  BY <1>1, <1>2, <1>3 DEF ReleaseStep

LEMMA DeviceType ==
    TypeOK /\ (HandlerStep \/ (\E s \in Source : Complete(s)) \/ (\E b \in BOOLEAN : SetMask(b)))
        => TypeOK'
<1> SUFFICES ASSUME TypeOK,
                    HandlerStep \/ (\E s \in Source : Complete(s)) \/ (\E b \in BOOLEAN : SetMask(b))
             PROVE  TypeOK'
  OBVIOUS
<1> USE DEF TypeOK, probeVars, userVars, history
<1>1. ASSUME NEW s \in Source, HandlerReads(s) PROVE TypeOK'
  BY <1>1 DEF HandlerReads
<1>2. ASSUME NEW s \in Source, HandlerCounts(s) PROVE TypeOK'
  <2>1. \A n \in 0 .. Many : Bump(n) \in 0 .. Many
    BY DEF Bump, Many
  <2>2. count' \in [Source -> 0 .. Many]
    BY <1>2, <2>1 DEF HandlerCounts
  <2> QED  BY <1>2, <2>2 DEF HandlerCounts, deviceVars
<1>3. ASSUME NEW s \in Source, Complete(s) PROVE TypeOK'
  BY <1>3 DEF Complete, isrVars
<1>4. ASSUME NEW b \in BOOLEAN, SetMask(b) PROVE TypeOK'
  BY <1>4 DEF SetMask, isrVars
<1> QED  BY <1>1, <1>2, <1>3, <1>4 DEF HandlerStep

LEMMA UserType == ASSUME TypeOK, NEW u \in User, UserStep(u) PROVE TypeOK'
<1> USE DEF TypeOK, probeVars, deviceVars, isrVars, history
<1>0. 0 \in Gen
  BY LifecycleAssumption DEF Gen
<1>1. ASSUME NEW s \in Source, Open(u, s) \/ ReadBegins(u, s) PROVE TypeOK'
  <2>1. CASE Open(u, s)
    <3>1. file' \in [User -> [Source -> Gen]]
      BY <2>1 DEF Open
    <3> QED  BY <2>1, <3>1 DEF Open
  <2>2. CASE ReadBegins(u, s)
    BY <2>2 DEF ReadBegins
  <2> QED  BY <1>1, <2>1, <2>2
<1>2. ASSUME NEW n \in -1 .. Many, ReadReturns(u, n) PROVE TypeOK'
  <2>1. count' \in [Source -> 0 .. Many]
    BY <1>2 DEF ReadReturns, Many
  <2> QED  BY <1>2, <2>1 DEF ReadReturns
<1>3. CASE Close(u)
  BY <1>0, <1>3 DEF Close
<1>4. CASE ReadInterrupted(u)
  BY <1>4 DEF ReadInterrupted, Touch
<1>5. CASE Dies(u)
  BY <1>0, <1>5 DEF Dies, Touch
<1> QED  BY <1>1, <1>2, <1>3, <1>4, <1>5 DEF UserStep

LEMMA LifecycleTypeStep == TypeOK /\ [DriverNext]_driverVars => TypeOK'
<1>1. ASSUME TypeOK, UNCHANGED driverVars PROVE TypeOK'
  BY <1>1 DEF TypeOK, driverVars, probeVars, deviceVars, isrVars, userVars, history
<1> QED  BY <1>1, ProbeType, ReleaseType, DeviceType, UserType DEF DriverNext

\* The variables keep to their values.
THEOREM LifecycleTypeCorrect == DriverSpec => []TypeOK
BY LifecycleTypeInit, LifecycleTypeStep, PTL DEF DriverSpec

-----------------------------------------------------------------------------
(* All or nothing.                                                         *)

\* What there is at each stage.  A running handler has its line.
StageInv ==
    /\ mapped => live
    /\ stage = "unbound" => ~live
    /\ stage \notin {"unbound", "returned", "release"} => mapped
    /\ nodes # {} \/ irqs # {} => mapped
    /\ serving \subseteq irqs
    /\ stage \in {"unbound", "release"} => nodes = {}
    /\ stage \in {"unbound", "register", "undo"} => irqs = {}
    /\ stage \in {"request", "enable", "bound"} => nodes = Source
    /\ stage \in {"enable", "bound"} => irqs = Source
    /\ stage = "returned" => IF result = "0" THEN nodes = Source /\ irqs = Source ELSE nodes = {}
    /\ stage = "undo" => result = "-errno"
    /\ stage = "bound" => result = "0"

LEMMA StageInit == Init => StageInv
BY DEF Init, StageInv

LEMMA StageProbe == TypeOK /\ StageInv /\ ProbeStep => StageInv'
<1> SUFFICES ASSUME TypeOK, StageInv, ProbeStep PROVE StageInv'
  OBVIOUS
<1> USE SourceOrder DEF StageInv, deviceVars, isrVars, userVars, history
<1>1. CASE AllocFails
  BY <1>1 DEF AllocFails
<1>7. CASE JudgeProbe
  <2>1. CASE result = "0"
    <3>1. stage = "returned" /\ stage' = "bound" /\ result' = "0"
      BY <1>7, <2>1 DEF JudgeProbe
    <3>2. nodes = Source /\ irqs = Source /\ mapped
      BY <2>1, <3>1 DEF Source
    <3>3. UNCHANGED <<live, mapped, nodes, irqs, serving>>
      BY <1>7 DEF JudgeProbe
    <3> QED  BY <3>1, <3>2, <3>3
  <2>2. CASE result # "0"
    BY <1>7, <2>2 DEF JudgeProbe
  <2> QED  BY <2>1, <2>2
<1>2. CASE Acquire
  BY <1>2 DEF Acquire
<1>3. CASE EnableDevice
  BY <1>3 DEF EnableDevice
<1>4. ASSUME NEW s \in Source, RegisterNode(s) PROVE StageInv'
  <2>1. s = "job" => nodes \cup {s} = Source
    BY <1>4 DEF RegisterNode, Source
  <2>2. s = "dma" => nodes = {}
    BY <1>4 DEF RegisterNode
  <2> QED  BY <1>4, <2>1, <2>2 DEF RegisterNode
<1>5. ASSUME NEW s \in Source, UndoNode(s) PROVE StageInv'
  BY <1>5 DEF UndoNode
<1>6. ASSUME NEW s \in Source, RequestIrq(s) PROVE StageInv'
  <2>1. s = "job" => irqs \cup {s} = Source
    BY <1>6 DEF RequestIrq, Source
  <2> QED  BY <1>6, <2>1 DEF RequestIrq
<1> QED  BY <1>1, <1>2, <1>3, <1>4, <1>5, <1>6, <1>7 DEF ProbeStep

LEMMA StageRelease == TypeOK /\ StageInv /\ (Remove \/ ReleaseStep) => StageInv'
<1> SUFFICES ASSUME TypeOK, StageInv, Remove \/ ReleaseStep PROVE StageInv'
  OBVIOUS
<1> USE SourceOrder DEF StageInv, deviceVars, isrVars, userVars, history
<1>1. CASE Remove
  BY <1>1 DEF Remove
<1>2. ASSUME NEW s \in Source, WithdrawNode(s) PROVE StageInv'
  BY <1>2 DEF WithdrawNode
<1>3. ASSUME NEW s \in Source, ReleaseIrq(s) PROVE StageInv'
  BY <1>3 DEF ReleaseIrq
<1>4. CASE ReleaseMemory
  BY <1>4 DEF ReleaseMemory
<1> QED  BY <1>1, <1>2, <1>3, <1>4 DEF ReleaseStep

LEMMA StageStep == TypeOK /\ StageInv /\ [DriverNext]_driverVars => StageInv'
<1> SUFFICES ASSUME TypeOK, StageInv, [DriverNext]_driverVars PROVE StageInv'
  OBVIOUS
<1>1. CASE UNCHANGED driverVars
  BY <1>1 DEF StageInv, driverVars, probeVars, isrVars
<1>2. CASE HandlerStep
  BY <1>2 DEF HandlerStep, HandlerReads, HandlerCounts, StageInv, probeVars
<1>3. ASSUME NEW s \in Source, Complete(s) PROVE StageInv'
  BY <1>3 DEF Complete, StageInv, probeVars, isrVars
<1>4. ASSUME NEW b \in BOOLEAN, SetMask(b) PROVE StageInv'
  BY <1>4 DEF SetMask, StageInv, probeVars, isrVars
<1>5. ASSUME NEW u \in User, UserStep(u) PROVE StageInv'
  BY <1>5 DEF UserStep, Open, Close, ReadBegins, ReadReturns, ReadInterrupted, Dies,
              StageInv, probeVars, isrVars
<1> QED  BY <1>1, <1>2, <1>3, <1>4, <1>5, StageProbe, StageRelease DEF DriverNext

LEMMA StageInvariant == DriverSpec => []StageInv
<1>1. TypeOK /\ TypeOK' /\ StageInv /\ [DriverNext]_driverVars => StageInv'
  BY StageStep
<1> QED  BY <1>1, StageInit, LifecycleTypeCorrect, PTL DEF DriverSpec

\* At whichever step probe() fails, and whatever the handler and the users do
\* meanwhile, a driver is bound as a whole or leaves nothing behind.
THEOREM ProbeAllOrNothing == DriverSpec => []AllOrNothing
<1>1. ASSUME TypeOK, StageInv PROVE AllOrNothing
  <2>1. stage = "unbound" => ~live /\ ~mapped
    BY <1>1 DEF TypeOK, StageInv
  <2>2. nodes # {} \/ irqs # {} \/ serving # {} => live /\ mapped
    BY <1>1 DEF TypeOK, StageInv
  <2>3. stage = "bound" => nodes = Source /\ irqs = Source
    BY <1>1 DEF StageInv
  <2>4. stage = "bound" => live /\ mapped
    BY <1>1 DEF StageInv
  <2> QED  BY <2>1, <2>2, <2>3, <2>4, Zenon DEF AllOrNothing, Backed
<1> QED  BY <1>1, LifecycleTypeCorrect, StageInvariant, PTL

-----------------------------------------------------------------------------
(* Freed memory.                                                           *)

\* Who has a file of an sc_dev that is gone had it open when it went.
FileInv ==
    /\ \A u \in User, s \in Source : file[u][s] <= gen
    /\ \A u \in User, s \in Source : Stale(u, s) => u \in kept
    /\ harmed \subseteq kept
    /\ nodes # {} => live
    /\ live => gen # 0

LEMMA FileInit == Init => FileInv
BY DEF Init, FileInv, Stale

\* Files go stale only when an sc_dev is freed, and no new sc_dev revives them.
LEMMA FileDriver ==
    TypeOK /\ StageInv /\ StageInv' /\ FileInv /\ (ProbeStep \/ Remove \/ ReleaseStep) => FileInv'
<1> SUFFICES ASSUME TypeOK, StageInv, StageInv', FileInv, ProbeStep \/ Remove \/ ReleaseStep
             PROVE  FileInv'
  OBVIOUS
<1>t. /\ gen \in Int /\ gen >= 0
      /\ \A u \in User, s \in Source : file[u][s] \in Int /\ file[u][s] >= 0
  BY LifecycleAssumption DEF TypeOK, Gen
<1>n. nodes' # {} => live'
  BY DEF StageInv, TypeOK
<1>1. CASE Acquire
  <2>1. ~live /\ gen' = gen + 1 /\ live' /\ file' = file /\ kept' = kept /\ harmed' = harmed
    BY <1>1 DEF Acquire, StageInv, userVars, history
  <2>2. \A u \in User, s \in Source : Stale(u, s)' => Stale(u, s)
    BY <2>1, <1>t DEF Stale
  <2> QED  BY <2>1, <2>2, <1>t, <1>n DEF FileInv
<1>2. CASE ReleaseMemory
  <2>1. /\ gen' = gen /\ ~live' /\ file' = file /\ harmed' = harmed
        /\ kept' = kept \cup {u \in User : live /\ \E s \in Source : file[u][s] = gen}
    BY <1>2 DEF ReleaseMemory, userVars
  <2>2. \A u \in User, s \in Source : Stale(u, s)' => Stale(u, s) \/ (live /\ file[u][s] = gen)
    BY <2>1 DEF Stale
  <2>3. \A u \in User, s \in Source : Stale(u, s)' => u \in kept'
    BY <2>1, <2>2 DEF FileInv
  <2> QED  BY <2>1, <2>3, <1>t, <1>n DEF FileInv
<1>3. CASE \/ AllocFails \/ EnableDevice \/ JudgeProbe \/ Remove
           \/ \E s \in Source : \/ RegisterNode(s) \/ UndoNode(s) \/ RequestIrq(s)
                                \/ WithdrawNode(s) \/ ReleaseIrq(s)
  <2>1. UNCHANGED <<gen, live, file, kept, harmed>>
    BY <1>3 DEF AllocFails, EnableDevice, JudgeProbe, Remove, RegisterNode, UndoNode, RequestIrq,
                WithdrawNode, ReleaseIrq, deviceVars, isrVars, userVars, history
  <2>2. \A u \in User, s \in Source : Stale(u, s)' = Stale(u, s)
    BY <2>1 DEF Stale
  <2> QED  BY <2>1, <2>2, <1>n DEF FileInv
<1> QED  BY <1>1, <1>2, <1>3 DEF ProbeStep, ReleaseStep

LEMMA FileUser ==
  ASSUME TypeOK, FileInv, NEW u \in User, UserStep(u)
  PROVE  FileInv'
<1>t. /\ gen \in Int /\ gen >= 0
      /\ \A v \in User, s \in Source : file[v][s] \in Int /\ file[v][s] >= 0
      /\ file \in [User -> [Source -> Gen]] /\ rd \in [User -> Source \cup {"none"}]
  BY LifecycleAssumption DEF TypeOK, Gen
<1>p. UNCHANGED <<gen, live, nodes, kept>>
  BY DEF UserStep, Open, Close, ReadBegins, ReadReturns, ReadInterrupted, Dies, probeVars, history
<1>1. \A v \in User, s \in Source : file'[v][s] \in {file[v][s], 0} \/ (live /\ file'[v][s] = gen)
  <2>1. ASSUME NEW s \in Source, Open(u, s)
        PROVE  \A v \in User, t \in Source : file'[v][t] \in {file[v][t], 0} \/ (live /\ file'[v][t] = gen)
    BY <2>1, <1>t DEF Open, FileInv
  <2>2. CASE Close(u) \/ Dies(u)
    BY <2>2, <1>t DEF Close, Dies
  <2>3. CASE \/ \E s \in Source : ReadBegins(u, s)
             \/ \E n \in -1 .. Many : ReadReturns(u, n)
             \/ ReadInterrupted(u)
    BY <2>3 DEF ReadBegins, ReadReturns, ReadInterrupted
  <2> QED  BY <2>1, <2>2, <2>3 DEF UserStep
<1>2. \A v \in User, s \in Source : Stale(v, s)' => Stale(v, s)
  BY <1>1, <1>p DEF Stale
<1>3. harmed' \subseteq harmed \cup {v \in User : \E s \in Source : Stale(v, s)}
  <2>1. ASSUME Touch(u) PROVE harmed' \subseteq harmed \cup {v \in User : \E s \in Source : Stale(v, s)}
    BY <2>1, <1>t DEF Touch
  <2> QED
    BY <2>1 DEF UserStep, Open, Close, ReadBegins, ReadReturns, ReadInterrupted, Dies, history
<1> QED  BY <1>t, <1>p, <1>1, <1>2, <1>3 DEF FileInv

LEMMA FileStep ==
    TypeOK /\ StageInv /\ StageInv' /\ FileInv /\ [DriverNext]_driverVars => FileInv'
<1> SUFFICES ASSUME TypeOK, StageInv, StageInv', FileInv, [DriverNext]_driverVars PROVE FileInv'
  OBVIOUS
<1>1. CASE \/ UNCHANGED driverVars \/ HandlerStep
           \/ (\E s \in Source : Complete(s)) \/ (\E b \in BOOLEAN : SetMask(b))
  <2>1. UNCHANGED <<gen, live, nodes, file, kept, harmed>>
    BY <1>1 DEF driverVars, HandlerStep, HandlerReads, HandlerCounts, Complete, SetMask,
                probeVars, userVars, history
  <2>2. \A u \in User, s \in Source : Stale(u, s)' = Stale(u, s)
    BY <2>1 DEF Stale
  <2> QED  BY <2>1, <2>2 DEF FileInv
<1> QED  BY <1>1, FileDriver, FileUser DEF DriverNext

LEMMA FileInvariant == DriverSpec => []FileInv
<1>1. TypeOK /\ StageInv /\ StageInv' /\ FileInv /\ [DriverNext]_driverVars => FileInv'
  BY FileStep
<1> QED  BY <1>1, FileInit, LifecycleTypeCorrect, StageInvariant, PTL DEF DriverSpec

\* Freed memory is touched only by users that had a node open when it was freed.
THEOREM OnlyHoldersHarmed == DriverSpec => []HarmOnlyToHolders
<1>1. FileInv => HarmOnlyToHolders
  BY DEF FileInv, HarmOnlyToHolders
<1> QED  BY <1>1, FileInvariant, PTL

=============================================================================
