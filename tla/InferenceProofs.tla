--------------------------- MODULE InferenceProofs ---------------------------
(***************************************************************************)
(* Proofs about Inference: the programs are users of the driver, so what   *)
(* is proved of the driver holds under them, their predictions are their   *)
(* own, and their exits are clean, for any dataset and any number of       *)
(* inferences, rounds of setup and probes.                                 *)
(***************************************************************************)
EXTENDS Inference, DriverLifecycleProofs

-----------------------------------------------------------------------------
(* The inductive invariant, in parts.                                      *)

InHandle == {"open", "enable", "phys", "dma", "dma wait", "ready",
             "quantize", "start", "job wait", "argmax"}
InLoop   == {"quantize", "start", "job wait", "argmax"}
InSetup  == {"init", "open", "enable", "phys", "dma", "dma wait", "ready"}
Closing  == {"mask", "close"}

\* main() goes around again after it has closed the handle.
Again == pc \in InSetup \/ (pc \in Closing /\ after = "init")

\* The bounds of the loops, and a dataset for as long as one is used.
LoopInv ==
    /\ Again => setups < MaxSetups
    /\ pc \in {"exited", "alloc", "load"} => setups = 0
    /\ pc \in {"start", "job wait", "argmax"} => it < MaxIters
    /\ pc \in InSetup \cup InLoop \/ (pc \in Closing /\ after = "init") => size \in Sizes
    /\ pc \in Closing => after # "none"

\* What is held where.
HeldInv ==
    /\ held \cap Files = {} /\ held \cap Dataset \in {{}, Dataset}
    /\ pc = "exited" /\ code = 0 => held = {}
    /\ pc \in {"exited", "alloc", "load", "init", "failed", "free"} => lib = {} /\ Opened = {}
    /\ pc = "out" /\ lib = {} => Opened = {}
    /\ pc = "out" /\ size = Unset => lib = {}
    /\ pc \in InHandle => lib # {}

WaitsFor(k) == (k = "dma" /\ pc = "dma wait") \/ (k = "job" /\ pc = "job wait")

\* The only read() is on the open node of the source that is waited for.
ReadInv == rd[client] # "none" => WaitsFor(rd[client]) /\ file[client][rd[client]] # 0

\* Which blocks are sent where.
SentInv ==
    /\ pc \in {"exited", "alloc", "load", "init", "open", "enable", "phys"} => sent = {}
    /\ pc \in Closing /\ after = "init" => sent = {}
    /\ pc \in {"dma", "dma wait"} => sent \in {{}, {"W"}}
    /\ pc \in {"ready"} \cup InLoop => sent = Block

\* The way of a completion: the engine works, the status bit is set, a handler
\* has taken it, the driver has counted it.
Works(k)     == (k = "dma" /\ dma # "none") \/ (k = "job" /\ job # Idle)
InHandler(k) == \E s \in Source : k \in taken[s]
Counted(k)   == live /\ count[k] # 0

Nowhere(k) == ~Works(k) /\ k \notin status /\ ~InHandler(k) /\ ~Counted(k)

OnePlace(k) ==
    /\ Works(k) => k \notin status
    /\ Works(k) \/ k \in status => ~InHandler(k)
    /\ Works(k) \/ k \in status \/ InHandler(k) => ~Counted(k)
    /\ \A s, t \in Source : k \in taken[s] /\ k \in taken[t] => s = t
    /\ Counted(k) => count[k] = 1

HandlerInv == \A s \in Source : s \in serving <=> taken[s] # {}

\* A completion is somewhere only while it is waited for, and in one place.
CompletionInv ==
    Unharmed => \A k \in Source : IF WaitsFor(k) THEN OnePlace(k) ELSE Nowhere(k)

\* What the engines work on is what is waited for.
DataInv ==
    Unharmed =>
        /\ sent \subseteq sram
        /\ pc = "dma wait" => IF dma = "none" THEN Sending \in sram ELSE dma = Sending
        /\ pc = "job wait" => IF job = Idle THEN logits = input ELSE job = input
        /\ pc = "argmax" => logits = input

ControlInv == HeldInv /\ ReadInv /\ SentInv

-----------------------------------------------------------------------------
(* The programs are users of the driver.                                   *)

LEMMA ClientIsUser == client \in User
BY ClientAssumption

LEMMA ClientStepIsUser ==
    ClientStep \/ WaitInterrupted \/ Start =>
        \/ UserStep(client) \/ (\E b \in BOOLEAN : SetMask(b))
        \/ UNCHANGED driverVars
<1> SUFFICES ASSUME ClientStep \/ WaitInterrupted \/ Start
             PROVE  \/ UserStep(client) \/ (\E b \in BOOLEAN : SetMask(b))
                    \/ UNCHANGED driverVars
  OBVIOUS
<1>1. CASE \/ Start \/ Allocate \/ Load \/ InitMaps \/ InitFailed \/ Configure \/ SendBlock
           \/ SetupDone \/ Quantize \/ StartJob \/ Argmax \/ Out \/ OutCrashes \/ Free
  BY <1>1 DEF Start, Allocate, Load, InitMaps, InitFailed, Configure, SendBlock, SetupDone,
              Quantize, StartJob, Argmax, Out, OutCrashes, Free
<1>2. ASSUME NEW s \in Source, InitOpens(s) PROVE UserStep(client) \/ UNCHANGED driverVars
  BY <1>2 DEF InitOpens, UserStep
<1>3. CASE InitEnables
  BY <1>3 DEF InitEnables
<1>4. CASE CloseMasks
  BY <1>4 DEF CloseMasks
<1>5. CASE CloseReleases
  BY <1>5 DEF CloseReleases, UserStep
<1>6. CASE WaitBegins
  <2>1. "dma" \in Source /\ "job" \in Source
    BY DEF Source
  <2> QED  BY <1>6, <2>1 DEF WaitBegins, UserStep
<1>7. CASE WaitFails
  BY <1>7 DEF WaitFails, UserStep
<1>8. CASE BlockSent \/ JobWaited
  <2>1. 1 \in -1 .. Many
    BY DEF Many
  <2> QED  BY <1>8, <2>1 DEF BlockSent, JobWaited, UserStep
<1>9. CASE QuantizeCrashes
  BY <1>9 DEF QuantizeCrashes, UserStep
<1>10. CASE WaitInterrupted
  BY <1>10 DEF WaitInterrupted, UserStep
<1> QED
  BY <1>1, <1>2, <1>3, <1>4, <1>5, <1>6, <1>7, <1>8, <1>9, <1>10 DEF ClientStep

LEMMA InferenceStepIsDriverStep == [InferenceNext]_allVars => [DriverNext]_driverVars
<1> SUFFICES ASSUME [InferenceNext]_allVars PROVE [DriverNext]_driverVars
  OBVIOUS
<1>1. CASE UNCHANGED allVars
  BY <1>1 DEF allVars
<1>2. CASE ClientStep \/ WaitInterrupted \/ Start
  BY <1>2, ClientStepIsUser, ClientIsUser DEF DriverNext
<1>3. CASE DmaDone \/ JobDone
  <2>1. "dma" \in Source /\ "job" \in Source
    BY DEF Source
  <2> QED  BY <1>3, <2>1 DEF DmaDone, JobDone, DriverNext
<1>4. CASE DriverStep \/ HandlerRuns
  BY <1>4 DEF DriverStep, HandlerRuns, DriverNext
<1> QED  BY <1>1, <1>2, <1>3, <1>4 DEF InferenceNext

\* A program with the library and the device around it is one of the driver's
\* users: every behaviour is one of the driver's life cycle.
THEOREM ProgramIsUser == InferenceSpec => DriverSpec
BY InferenceStepIsDriverStep, PTL DEF InferenceSpec, InferenceInit, DriverSpec

\* Under the programs too the driver is bound as a whole or not at all.
THEOREM AllOrNothingUnderProgram == InferenceSpec => []AllOrNothing
BY ProgramIsUser, ProbeAllOrNothing, PTL

\* Under the programs too freed memory is touched only by who kept a node open.
THEOREM HarmOnlyToHoldersUnderProgram == InferenceSpec => []HarmOnlyToHolders
BY ProgramIsUser, OnlyHoldersHarmed, PTL

-----------------------------------------------------------------------------
(* Types, and the bounds of the loops.                                     *)

LEMMA Values ==
    /\ Image \subseteq Nat
    /\ Idle = -1 /\ Garbage = -2
    /\ \A n \in Sizes, i \in Nat : n \in Nat /\ (n # 0 => i % n \in Image)
    /\ MaxIters \in Nat /\ MaxSetups \in Nat /\ MaxSetups > 0
<1>1. \A n \in Sizes : n \in Nat
  BY ClientAssumption
<1>2. Image \subseteq Nat
  BY <1>1 DEF Image
<1>3. ASSUME NEW n \in Sizes, NEW i \in Nat, n # 0 PROVE i % n \in Image
  <2>1. i % n \in 0 .. n - 1
    BY <1>1, <1>3
  <2> QED  BY <2>1 DEF Image
<1> QED  BY <1>1, <1>2, <1>3, ClientAssumption DEF Idle, Garbage

\* The loader and cim_init hold what they are said to hold, and release it.
LEMMA LoaderKeepsNothing ==
    \A step \in DOMAIN LoadHolds : LoadHolds[step] \ LoadFrees[step] = {}
<1>1. DOMAIN LoadHolds = {"openImages", "imagesHeader", "allocImages", "readImages",
                          "openLabels", "labelsHeader", "allocLabels", "readLabels"}
  BY DEF LoadHolds
<1>2. /\ LoadHolds["openImages"] = LoadFrees["openImages"]
      /\ LoadHolds["imagesHeader"] = LoadFrees["imagesHeader"]
      /\ LoadHolds["allocImages"] = LoadFrees["allocImages"]
      /\ LoadHolds["readImages"] = LoadFrees["readImages"]
  BY DEF LoadHolds, LoadFrees
<1>3. /\ LoadHolds["openLabels"] = LoadFrees["openLabels"]
      /\ LoadHolds["labelsHeader"] = LoadFrees["labelsHeader"]
      /\ LoadHolds["allocLabels"] = LoadFrees["allocLabels"]
      /\ LoadHolds["readLabels"] = LoadFrees["readLabels"]
  BY DEF LoadHolds, LoadFrees
<1> QED  BY <1>1, <1>2, <1>3

LEMMA InitKeepsNothing ==
    \A step \in DOMAIN InitHolds : InitHolds[step] \ InitFrees[step] = {}
<1>1. DOMAIN InitHolds = {"calloc", "sysconf", "devmem", "mmap"}
  BY DEF InitHolds
<1>2. /\ InitHolds["calloc"] = InitFrees["calloc"] /\ InitHolds["sysconf"] = InitFrees["sysconf"]
      /\ InitHolds["devmem"] = InitFrees["devmem"] /\ InitHolds["mmap"] = InitFrees["mmap"]
  BY DEF InitHolds, InitFrees
<1> QED  BY <1>1, <1>2

\* What ends a run leaves every local variable as a run begins with it.
LEMMA ExitTypes ==
  ASSUME ClientTypeOK, TypeOK', NEW c \in {0, 1, Crashed}, Exit(c),
         held' \subseteq Buffers \cup Dataset \cup Files, lib' \subseteq Handle
  PROVE  ClientTypeOK' /\ LoopInv'
<1>1. job' \in Image \cup {Idle, Garbage} /\ dma' = dma /\ sram' = {}
  BY DEF Exit, ClientTypeOK
<1>2. /\ pc' = "exited" /\ code' = c /\ after' = "none" /\ size' = Unset /\ rc' = "OK"
      /\ it' = 0 /\ setups' = 0 /\ sent' = {} /\ input' = Garbage /\ logits' = Garbage
  BY DEF Exit
<1>3. it' \in 0 .. MaxIters /\ setups' \in 0 .. MaxSetups
  BY <1>2, Values
<1>4. ClientTypeOK'
  BY <1>1, <1>2, <1>3 DEF ClientTypeOK, Place
<1>5. LoopInv'
  BY <1>2 DEF LoopInv, Again, InSetup, InLoop, Closing
<1> QED  BY <1>4, <1>5

LEMMA ClientInit == InferenceInit => ClientTypeOK /\ LoopInv
<1> SUFFICES ASSUME InferenceInit PROVE ClientTypeOK /\ LoopInv
  OBVIOUS
<1>1. it \in 0 .. MaxIters /\ setups \in 0 .. MaxSetups
  BY Values DEF InferenceInit
<1>2. TypeOK
  BY LifecycleTypeInit DEF InferenceInit
<1>3. ClientTypeOK
  BY <1>1, <1>2 DEF InferenceInit, ClientTypeOK, Place
<1>4. LoopInv
  BY DEF InferenceInit, LoopInv, Again, InSetup, InLoop, Closing
<1> QED  BY <1>3, <1>4

\* What a step that leaves these variables alone cannot disturb.
LEMMA FrameTypes ==
  ASSUME ClientTypeOK, LoopInv, TypeOK', UNCHANGED <<mainVars, engineVars>>
  PROVE  ClientTypeOK' /\ LoopInv'
<1>1. /\ pc' = pc /\ after' = after /\ held' = held /\ size' = size /\ lib' = lib /\ rc' = rc
      /\ it' = it /\ setups' = setups /\ sent' = sent /\ input' = input /\ logits' = logits
      /\ code' = code
  BY DEF mainVars
<1>2. dma' = dma /\ job' = job /\ sram' = sram
  BY DEF engineVars
<1>3. ClientTypeOK'
  BY <1>1, <1>2 DEF ClientTypeOK
<1>4. LoopInv'
  BY <1>1 DEF LoopInv, Again
<1> QED  BY <1>3, <1>4

LEMMA BeginTypes ==
  ASSUME ClientTypeOK, LoopInv, TypeOK', Start \/ Allocate \/ Load
  PROVE  ClientTypeOK' /\ LoopInv'
<1> USE DEF ClientTypeOK, LoopInv, Again, InSetup, InLoop, Closing, Place, engineVars, locals
<1>1. CASE Start
  BY <1>1 DEF Start
<1>2. CASE Allocate
  <2>1. CASE held' = Buffers /\ Goto("load") /\ UNCHANGED locals
    BY <1>2, <2>1 DEF Allocate, Goto
  <2>2. CASE held' \in {{}, {"network"}} /\ Exit(1)
    BY <1>2, <2>2, ExitTypes DEF Allocate, Buffers
  <2>3. CASE held' \in {{"network"}, {"network", "input"}} /\ Goto("out") /\ UNCHANGED locals
    BY <1>2, <2>3 DEF Allocate, Goto, Buffers
  <2> QED  BY <1>2, <2>1, <2>2, <2>3 DEF Allocate
<1>3. CASE Load
  <2>1. CASE /\ size' \in Sizes /\ held' = held \cup Dataset
             /\ Goto("init") \/ Goto("out")
             /\ UNCHANGED <<after, rc, it, setups, sent, input, logits>>
    <3>1. setups = 0 /\ 0 < MaxSetups
      BY <1>3, Values DEF Load
    <3> QED  BY <1>3, <2>1, <3>1 DEF Load, Goto
  <2>2. CASE held' = held \cup Dataset /\ Exit(1)
    BY <1>3, <2>2, ExitTypes DEF Load
  <2>3. ASSUME NEW step \in DOMAIN LoadHolds, Exit(1),
               held' = held \cup (LoadHolds[step] \ LoadFrees[step])
        PROVE  ClientTypeOK' /\ LoopInv'
    <3>1. held' = held
      BY <2>3, LoaderKeepsNothing
    <3> QED  BY <1>3, <2>3, <3>1, ExitTypes DEF Load
  <2> QED  BY <1>3, <2>1, <2>2, <2>3 DEF Load
<1> QED  BY <1>1, <1>2, <1>3

LEMMA HandleTypes ==
  ASSUME ClientTypeOK, LoopInv, TypeOK',
         \/ InitMaps \/ (\E s \in Source : InitOpens(s)) \/ InitEnables \/ InitFailed
         \/ CloseMasks \/ CloseReleases
  PROVE  ClientTypeOK' /\ LoopInv'
<1> USE DEF ClientTypeOK, LoopInv, Again, InSetup, InLoop, Closing, Place, engineVars, Goto
<1>1. CASE InitMaps
  <2>1. lib' \subseteq Handle
    BY <1>1, InitKeepsNothing DEF InitMaps
  <2> QED  BY <1>1, <2>1 DEF InitMaps
<1>2. CASE \E s \in Source : InitOpens(s)
  BY <1>2 DEF InitOpens
<1>3. CASE InitEnables
  BY <1>3 DEF InitEnables
<1>4. CASE InitFailed
  BY <1>4, ExitTypes DEF InitFailed
<1>5. CASE CloseMasks
  BY <1>5 DEF CloseMasks
<1>6. CASE CloseReleases
  <2>1. /\ pc' = after /\ after' = "none" /\ lib' = {}
        /\ UNCHANGED <<held, size, rc, it, setups, sent, input, logits, code, engineVars>>
    BY <1>6 DEF CloseReleases
  <2>2. after \in {"failed", "init", "out", "free"} /\ (after = "init" => size \in Sizes /\ setups < MaxSetups)
    BY <1>6 DEF CloseReleases
  <2>3. ClientTypeOK'
    BY <2>1, <2>2
  <2>4. LoopInv'
    BY <2>1, <2>2
  <2> QED  BY <2>3, <2>4
<1> QED  BY <1>1, <1>2, <1>3, <1>4, <1>5, <1>6

LEMMA SetupTypes ==
  ASSUME ClientTypeOK, LoopInv, TypeOK',
         \/ Configure \/ SendBlock \/ WaitBegins \/ WaitInterrupted \/ WaitFails
         \/ BlockSent \/ SetupDone
  PROVE  ClientTypeOK' /\ LoopInv'
<1>n. setups \in 0 .. MaxSetups
  BY DEF ClientTypeOK
<1>m. setups < MaxSetups => setups + 1 \in 0 .. MaxSetups /\ setups + 1 # 0
  <2>1. MaxSetups \in Nat
    BY ClientAssumption
  <2> QED  BY <1>n, <2>1
<1> USE DEF ClientTypeOK, LoopInv, Again, InSetup, InLoop, Closing, Place, engineVars, mainVars, Goto
<1>0. Sending \in Block
  BY DEF Sending, Block
<1>1. CASE Configure
  BY <1>1 DEF Configure
<1>2. CASE SendBlock
  <2>1. dma' \in Block \cup {"none"}
    BY <1>0, <1>2 DEF SendBlock
  <2>2. pc' \in {"out", "dma wait"} /\ rc' \in {"OK", "error"}
    BY <1>2 DEF SendBlock
  <2>3. UNCHANGED <<after, held, size, lib, it, setups, sent, input, logits, code, job, sram>>
    BY <1>2 DEF SendBlock
  <2>4. Again /\ size \in Sizes
    BY <1>2 DEF SendBlock
  <2>5. ClientTypeOK'
    BY <2>1, <2>2, <2>3
  <2>6. LoopInv'
    BY <2>2, <2>3, <2>4
  <2> QED  BY <2>5, <2>6
<1>3. CASE WaitBegins \/ WaitInterrupted
  <2>1. UNCHANGED <<mainVars, engineVars>>
    BY <1>3 DEF WaitBegins, WaitInterrupted
  <2> QED  BY <2>1, FrameTypes
<1>4. CASE WaitFails
  BY <1>4 DEF WaitFails
<1>5. CASE BlockSent
  BY <1>0, <1>5 DEF BlockSent
<1>6. CASE SetupDone
  <2>1. setups < MaxSetups
    BY <1>6 DEF SetupDone
  <2> QED  BY <1>6, <1>m, <2>1 DEF SetupDone
<1> QED  BY <1>1, <1>2, <1>3, <1>4, <1>5, <1>6

LEMMA LoopTypes ==
  ASSUME ClientTypeOK, LoopInv, TypeOK',
         Quantize \/ QuantizeCrashes \/ StartJob \/ JobWaited \/ Argmax
  PROVE  ClientTypeOK' /\ LoopInv'
<1> USE DEF ClientTypeOK, LoopInv, Again, InSetup, InLoop, Closing, Place, engineVars, Goto
<1>1. CASE Quantize
  <2>1. it \in Nat /\ size \in Sizes
    BY <1>1, Values DEF Quantize
  <2>2. input' \in Image \cup {Garbage}
    BY <1>1, <2>1, Values DEF Quantize
  <2> QED  BY <1>1, <2>1, <2>2 DEF Quantize
<1>2. CASE QuantizeCrashes
  BY <1>2, ExitTypes DEF QuantizeCrashes
<1>3. CASE StartJob
  BY <1>3 DEF StartJob
<1>4. CASE JobWaited
  BY <1>4 DEF JobWaited
<1>5. CASE Argmax
  <2>1. it + 1 \in 0 .. MaxIters
    BY <1>5, Values DEF Argmax
  <2> QED  BY <1>5, <2>1 DEF Argmax
<1> QED  BY <1>1, <1>2, <1>3, <1>4, <1>5

LEMMA EndTypes ==
  ASSUME ClientTypeOK, LoopInv, TypeOK', Out \/ OutCrashes \/ Free
  PROVE  ClientTypeOK' /\ LoopInv'
<1> USE DEF ClientTypeOK, LoopInv, Again, InSetup, InLoop, Closing, Place, engineVars, Goto
<1>1. CASE Out
  BY <1>1 DEF Out
<1>2. CASE OutCrashes
  BY <1>2, ExitTypes DEF OutCrashes
<1>3. CASE Free
  BY <1>3, ExitTypes DEF Free
<1> QED  BY <1>1, <1>2, <1>3

LEMMA EngineTypes ==
  ASSUME ClientTypeOK, LoopInv, TypeOK', DmaDone \/ JobDone \/ DriverStep \/ HandlerRuns
  PROVE  ClientTypeOK' /\ LoopInv'
<1>1. CASE DmaDone
  <2>1. /\ UNCHANGED mainVars /\ dma' = "none" /\ job' = job
        /\ sram' = sram \cup {dma} /\ dma # "none"
    BY <1>1 DEF DmaDone
  <2>2. ClientTypeOK'
    BY <2>1 DEF ClientTypeOK, mainVars
  <2>3. LoopInv'
    BY <2>1 DEF LoopInv, Again, mainVars
  <2> QED  BY <2>2, <2>3
<1>2. CASE JobDone
  <2>1. /\ UNCHANGED <<pc, after, held, size, lib, rc, it, setups, sent, input, code, dma, sram>>
        /\ job' = Idle /\ logits' \in {job, input, Garbage} /\ job # Idle
    BY <1>2 DEF JobDone
  <2>2. ClientTypeOK'
    BY <2>1 DEF ClientTypeOK
  <2>3. LoopInv'
    BY <2>1 DEF LoopInv, Again
  <2> QED  BY <2>2, <2>3
<1>3. CASE DriverStep \/ HandlerRuns
  BY <1>3, FrameTypes DEF DriverStep, HandlerRuns
<1> QED  BY <1>1, <1>2, <1>3

LEMMA ClientTypeStep ==
    ClientTypeOK /\ LoopInv /\ TypeOK' /\ [InferenceNext]_allVars => ClientTypeOK' /\ LoopInv'
<1>1. ASSUME ClientTypeOK, LoopInv, TypeOK', UNCHANGED allVars PROVE ClientTypeOK' /\ LoopInv'
  BY <1>1, FrameTypes DEF allVars
<1> QED
  BY <1>1, BeginTypes, HandleTypes, SetupTypes, LoopTypes, EndTypes, EngineTypes
  DEF InferenceNext, ClientStep

LEMMA ClientTypeInvariant == InferenceSpec => [](ClientTypeOK /\ LoopInv)
<1>1. InferenceSpec => []TypeOK
  BY ProgramIsUser, LifecycleTypeCorrect, PTL
<1> QED  BY <1>1, ClientInit, ClientTypeStep, PTL DEF InferenceSpec

\* The variables of the program, the library and the engines keep to their
\* values; the loops of setups and inferences never run one round too many.
THEOREM ClientTypeCorrect == InferenceSpec => []ClientTypeOK
BY ClientTypeInvariant, PTL

-----------------------------------------------------------------------------
(* What is held, read and sent.                                            *)

\* The parts of a place, for a leaf that has to tell places apart.
LEMMA Waiting ==
  ASSUME TypeOK, ReadInv
  PROVE  /\ rd[client] # "none" => pc \in {"dma wait", "job wait"}
         /\ pc = "dma wait" => rd[client] \in {"none", "dma"}
         /\ pc = "job wait" => rd[client] \in {"none", "job"}
BY DEF ReadInv, WaitsFor

LEMMA ControlInit == InferenceInit => ControlInv
<1> SUFFICES ASSUME InferenceInit PROVE ControlInv
  OBVIOUS
<1>1. Opened = {}
  BY ClientIsUser DEF InferenceInit, Init, Opened
<1>2. rd[client] = "none"
  BY ClientIsUser DEF InferenceInit, Init
<1> QED  BY <1>1, <1>2 DEF InferenceInit, ControlInv, HeldInv, ReadInv, SentInv, InHandle, InLoop, Closing

LEMMA FrameControl ==
  ASSUME ControlInv, UNCHANGED <<pc, after, held, size, lib, code, sent, file, rd>>
  PROVE  ControlInv'
<1>1. Opened' = Opened
  BY DEF Opened
<1>2. HeldInv'
  BY <1>1 DEF ControlInv, HeldInv
<1>3. ReadInv'
  BY DEF ControlInv, ReadInv, WaitsFor
<1>4. SentInv'
  BY DEF ControlInv, SentInv
<1> QED  BY <1>2, <1>3, <1>4 DEF ControlInv

\* A step between two places where nobody reads.
LEMMA ReadKept ==
  ASSUME TypeOK, ReadInv, pc \notin {"dma wait", "job wait"}, rd' = rd
  PROVE  ReadInv'
BY Waiting DEF ReadInv, WaitsFor

\* A process that ends with nothing open and nothing mapped.
LEMMA ExitControl ==
  ASSUME TypeOK, ControlInv, NEW c \in {0, 1, Crashed}, Exit(c), rd'[client] = "none",
         held' \cap Files = {}, held' \cap Dataset \in {{}, Dataset}, c = 0 => held' = {},
         lib' = {}, Opened' = {}
  PROVE  ControlInv'
<1>1. pc' = "exited" /\ code' = c /\ sent' = {}
  BY DEF Exit
<1>2. HeldInv'
  BY <1>1 DEF HeldInv, InHandle
<1>3. ReadInv'
  BY DEF ReadInv
<1>4. SentInv'
  BY <1>1 DEF SentInv, InLoop, Closing
<1> QED  BY <1>2, <1>3, <1>4 DEF ControlInv

LEMMA BeginControl ==
  ASSUME TypeOK, ClientTypeOK, LoopInv, ControlInv, Start \/ Allocate \/ Load
  PROVE  ControlInv'
<1>1. /\ pc \in {"exited", "alloc", "load"} /\ lib' = lib /\ file' = file /\ rd' = rd
      /\ lib = {} /\ Opened = {} /\ sent = {}
  BY DEF Start, Allocate, Load, driverVars, userVars, ControlInv, HeldInv, SentInv
<1>2. Opened' = Opened
  BY <1>1 DEF Opened
<1>3. ReadInv' /\ rd'[client] = "none"
  BY <1>1, ReadKept, Waiting DEF ControlInv
<1>4. held \cap Files = {} /\ held \cap Dataset \in {{}, Dataset}
  BY DEF ControlInv, HeldInv
<1>5. Buffers \cap Files = {} /\ Buffers \cap Dataset = {} /\ Dataset \cap Files = {}
  BY DEF Buffers, Files, Dataset
<1>6. CASE Start
  <2>1. pc' = "alloc" /\ code' = 0 /\ held' = {} /\ sent' = sent
    BY <1>6 DEF Start, locals
  <2> QED
    BY <1>1, <1>2, <1>3, <2>1 DEF ControlInv, HeldInv, SentInv, InHandle, InLoop, Closing
<1>7. CASE Allocate
  <2>1. CASE Goto("load") /\ held' = Buffers /\ sent' = sent
    BY <2>1, <1>1, <1>2, <1>3, <1>5 DEF Goto, ControlInv, HeldInv, SentInv, InHandle, InLoop, Closing
  <2>2. CASE Exit(1) /\ held' \in {{}, {"network"}}
    <3>1. held' \cap Files = {} /\ held' \cap Dataset = {}
      BY <2>2 DEF Files, Dataset
    <3> QED  BY <2>2, <3>1, <1>1, <1>2, <1>3, ExitControl
  <2>3. CASE Goto("out") /\ held' \in {{"network"}, {"network", "input"}} /\ sent' = sent
    <3>1. held' \cap Files = {} /\ held' \cap Dataset = {}
      BY <2>3 DEF Files, Dataset
    <3> QED
      BY <2>3, <3>1, <1>1, <1>2, <1>3 DEF Goto, ControlInv, HeldInv, SentInv, InHandle, InLoop, Closing
  <2> QED  BY <1>7, <2>1, <2>2, <2>3 DEF Allocate, locals
<1>8. CASE Load
  <2>1. CASE Exit(1) /\ held' = held \cup Dataset
    <3>1. held' \cap Files = {} /\ held' \cap Dataset = Dataset
      BY <2>1, <1>4, <1>5
    <3> QED  BY <2>1, <3>1, <1>1, <1>2, <1>3, ExitControl
  <2>2. CASE Exit(1) /\ held' = held
    BY <2>2, <1>1, <1>2, <1>3, <1>4, ExitControl
  <2>3. CASE held' = held \cup Dataset /\ (Goto("init") \/ Goto("out")) /\ sent' = sent
    <3>1. held' \cap Files = {} /\ held' \cap Dataset = Dataset
      BY <2>3, <1>4, <1>5
    <3> QED
      BY <2>3, <3>1, <1>1, <1>2, <1>3 DEF Goto, ControlInv, HeldInv, SentInv, InHandle, InLoop, Closing
  <2>4. \A step \in DOMAIN LoadHolds : held \cup (LoadHolds[step] \ LoadFrees[step]) = held
    BY LoaderKeepsNothing
  <2> QED  BY <1>8, <2>1, <2>2, <2>3, <2>4 DEF Load
<1> QED  BY <1>6, <1>7, <1>8

LEMMA InitControl ==
  ASSUME TypeOK, ClientTypeOK, LoopInv, ControlInv,
         InitMaps \/ (\E s \in Source : InitOpens(s)) \/ InitEnables \/ InitFailed
  PROVE  ControlInv'
<1>1. pc \in {"init", "open", "enable", "failed"} /\ rd' = rd
  BY DEF InitMaps, InitOpens, InitEnables, InitFailed, Open, SetMask, driverVars, userVars
<1>2. ReadInv' /\ rd'[client] = "none"
  BY <1>1, ReadKept, Waiting DEF ControlInv
<1>3. held \cap Files = {} /\ held \cap Dataset \in {{}, Dataset}
  BY DEF ControlInv, HeldInv
<1>4. CASE InitMaps
  <2>1. Opened = {} /\ Opened' = Opened /\ held' = held /\ sent = {} /\ sent' = sent
    BY <1>4 DEF InitMaps, ControlInv, HeldInv, SentInv, Opened, driverVars, userVars
  <2>2. \/ pc' = "failed" /\ lib' = {}
        \/ pc' = "mask" /\ after' = "failed"
        \/ pc' = "open" /\ lib' = Handle
    BY <1>4, InitKeepsNothing DEF InitMaps, Goto
  <2>3. Handle # {}
    BY DEF Handle
  <2> QED
    BY <1>2, <1>3, <2>1, <2>2, <2>3 DEF ControlInv, HeldInv, SentInv, InHandle, InLoop, Closing
<1>5. CASE InitEnables \/ \E s \in Source : InitOpens(s)
  <2>1. /\ pc' \in {"open", "enable", "phys"} \/ (pc' = "mask" /\ after' = "failed")
        /\ lib' = lib /\ lib # {} /\ held' = held /\ sent' = sent /\ sent = {}
    BY <1>5 DEF InitEnables, InitOpens, Goto, ControlInv, HeldInv, SentInv, InHandle
  <2> QED
    BY <1>2, <1>3, <2>1 DEF ControlInv, HeldInv, SentInv, InHandle, InLoop, Closing
<1>6. CASE InitFailed
  <2>1. lib' = {} /\ Opened' = {} /\ Exit(1) /\ held' = held \ Dataset
    BY <1>6 DEF InitFailed, ControlInv, HeldInv, Opened, driverVars, userVars
  <2>2. held' \cap Files = {} /\ held' \cap Dataset = {}
    BY <1>3, <2>1
  <2> QED  BY <1>2, <2>1, <2>2, ExitControl
<1> QED  BY <1>1, <1>4, <1>5, <1>6

\* Closing the files of a user leaves none open.
LEMMA CloseOpened ==
  ASSUME TypeOK, file' = [file EXCEPT ![client] = [s \in Source |-> 0]]
  PROVE  Opened' = {}
BY ClientIsUser DEF TypeOK, Opened

LEMMA CloseControl ==
  ASSUME TypeOK, ClientTypeOK, LoopInv, ControlInv, CloseMasks \/ CloseReleases
  PROVE  ControlInv'
<1>1. pc \in {"mask", "close"} /\ rd' = rd /\ held' = held /\ sent' = sent
  BY DEF CloseMasks, CloseReleases, Close, SetMask, userVars
<1>2. ReadInv'
  BY <1>1, ReadKept DEF ControlInv
<1>3. held \cap Files = {} /\ held \cap Dataset \in {{}, Dataset}
  BY DEF ControlInv, HeldInv
<1>4. CASE CloseMasks
  BY <1>1, <1>2, <1>3, <1>4
  DEF CloseMasks, Goto, ControlInv, HeldInv, SentInv, InHandle, InLoop, Closing
<1>5. CASE CloseReleases
  <2>1. pc' = after /\ lib' = {} /\ Opened' = {}
    BY <1>5, CloseOpened DEF CloseReleases, Close, Goto
  <2>2. after \in {"failed", "init", "out", "free"} /\ (after = "init" => sent = {})
    BY <1>5 DEF CloseReleases, ClientTypeOK, LoopInv, ControlInv, SentInv, Closing
  <2> QED
    BY <1>1, <1>2, <1>3, <2>1, <2>2 DEF ControlInv, HeldInv, SentInv, InHandle, InLoop, Closing
<1> QED  BY <1>4, <1>5

\* Blocks are sent one after the other.
LEMMA SendingInOrder ==
  ASSUME sent \in {{}, {"W"}}
  PROVE  /\ Sending \in Block /\ Sending \notin sent
         /\ sent = {} => Sending = "W" /\ sent \cup {Sending} = {"W"}
         /\ sent = {"W"} => Sending = "b" /\ sent \cup {Sending} = Block
         /\ Block # {"W"} /\ Block # {}
<1>1. CASE sent = {}
  BY <1>1 DEF Sending, Block
<1>2. CASE sent = {"W"}
  BY <1>2 DEF Sending, Block
<1> QED  BY <1>1, <1>2

LEMMA SetupControl ==
  ASSUME TypeOK, ClientTypeOK, LoopInv, ControlInv,
         Configure \/ SendBlock \/ BlockSent \/ SetupDone
  PROVE  ControlInv'
<1>1. /\ pc \in {"phys", "dma", "dma wait", "ready"}
      /\ held' = held /\ lib' = lib /\ lib # {} /\ size' = size /\ size # Unset
  <2>1. pc \in {"phys", "dma", "dma wait", "ready"} /\ held' = held /\ lib' = lib /\ size' = size
    BY DEF Configure, SendBlock, BlockSent, SetupDone
  <2>2. lib # {} /\ size \in Sizes
    BY <2>1 DEF ControlInv, HeldInv, InHandle, LoopInv, InSetup, InLoop
  <2>3. size # Unset
    BY <2>2, ClientAssumption DEF Unset
  <2> QED  BY <2>1, <2>2, <2>3
<1>2. held \cap Files = {} /\ held \cap Dataset \in {{}, Dataset}
  BY DEF ControlInv, HeldInv
<1>3. pc = "phys" => sent = {}
  BY DEF ControlInv, SentInv
<1>4. pc \in {"dma", "dma wait"} => sent \in {{}, {"W"}}
  BY DEF ControlInv, SentInv
<1>5. CASE Configure
  <2>1. pc' \in {"dma", "out"} /\ sent' = sent /\ rd' = rd
    BY <1>5 DEF Configure, Goto, driverVars, userVars
  <2>2. ReadInv'
    BY <1>5, <2>1, ReadKept DEF Configure, ControlInv
  <2> QED
    BY <1>1, <1>2, <1>3, <1>5, <2>1, <2>2
    DEF Configure, ControlInv, HeldInv, SentInv, InHandle, InLoop, Closing
<1>6. CASE SendBlock
  <2>1. pc' \in {"dma wait", "out"} /\ sent' = sent /\ rd' = rd /\ pc = "dma"
    BY <1>6 DEF SendBlock, driverVars, userVars
  <2>2. ReadInv'
    BY <2>1, ReadKept DEF ControlInv
  <2> QED
    BY <1>1, <1>2, <1>4, <2>1, <2>2 DEF ControlInv, HeldInv, SentInv, InHandle, InLoop, Closing
<1>7. CASE BlockSent
  <2>1. /\ pc = "dma wait" /\ sent' = sent \cup {Sending}
        /\ pc' = IF sent' = Block THEN "ready" ELSE "dma"
    BY <1>7 DEF BlockSent, Goto
  <2>2. ReadInv'
    BY <1>7, ClientIsUser DEF BlockSent, ReadReturns, ReadInv, TypeOK
  <2>3. (pc' = "ready" /\ sent' = Block) \/ (pc' = "dma" /\ sent' = {"W"})
    <3>1. sent \in {{}, {"W"}}
      BY <1>4, <2>1
    <3>2. CASE sent = {}
      BY <2>1, <3>1, <3>2, SendingInOrder
    <3>3. CASE sent = {"W"}
      <4>1. sent' = Block
        BY <2>1, <3>1, <3>3, SendingInOrder
      <4> QED  BY <2>1, <4>1
    <3> QED  BY <3>1, <3>2, <3>3
  <2> QED
    BY <1>1, <1>2, <2>2, <2>3 DEF ControlInv, HeldInv, SentInv, InHandle, InLoop, Closing
<1>8. CASE SetupDone
  <2>1. /\ rd' = rd /\ pc = "ready"
        /\ \/ pc' = "quantize" /\ sent' = sent
           \/ pc' = "mask" /\ sent' = {} /\ after' \in {"init", "out"}
    BY <1>8 DEF SetupDone, Goto, driverVars, userVars
  <2>2. ReadInv'
    BY <2>1, ReadKept DEF ControlInv
  <2> QED
    BY <1>1, <1>2, <2>1, <2>2 DEF ControlInv, HeldInv, SentInv, InHandle, InLoop, Closing
<1> QED  BY <1>5, <1>6, <1>7, <1>8

LEMMA WaitControl ==
  ASSUME TypeOK, ClientTypeOK, LoopInv, ControlInv, WaitBegins \/ WaitInterrupted \/ WaitFails
  PROVE  ControlInv'
<1>1. CASE WaitBegins \/ WaitInterrupted
  <2>1. /\ UNCHANGED <<mainVars, file>>
        /\ \/ rd'[client] = "none"
           \/ pc = "dma wait" /\ rd'[client] = "dma" /\ file[client]["dma"] # 0
           \/ pc = "job wait" /\ rd'[client] = "job" /\ file[client]["job"] # 0
    BY <1>1, ClientIsUser DEF WaitBegins, WaitInterrupted, ReadBegins, ReadInterrupted, TypeOK
  <2>2. UNCHANGED <<pc, after, held, size, lib, code, sent, file>>
    BY <2>1 DEF mainVars
  <2>3. ReadInv'
    BY <2>1, <2>2 DEF ReadInv, WaitsFor
  <2>4. HeldInv' /\ SentInv'
    BY <2>2 DEF ControlInv, HeldInv, SentInv, Opened
  <2> QED  BY <2>3, <2>4 DEF ControlInv
<1>2. CASE WaitFails
  <2>1. /\ rd[client] # "none" /\ rd'[client] = "none" /\ pc' = "out"
        /\ UNCHANGED <<after, held, size, lib, sent>>
    BY <1>2, ClientIsUser DEF WaitFails, ReadReturns, Goto, TypeOK
  <2>2. pc \in {"dma wait", "job wait"}
    BY <2>1, Waiting DEF ControlInv
  <2>3. lib # {} /\ size \in Sizes
    BY <2>2 DEF ControlInv, HeldInv, InHandle, LoopInv, InSetup, InLoop
  <2>4. size # Unset
    BY <2>3, ClientAssumption DEF Unset
  <2>5. HeldInv'
    BY <2>1, <2>3, <2>4 DEF ControlInv, HeldInv, InHandle
  <2>6. ReadInv' /\ SentInv'
    BY <2>1 DEF ReadInv, SentInv, InLoop, Closing
  <2> QED  BY <2>5, <2>6 DEF ControlInv
<1> QED  BY <1>1, <1>2

LEMMA LoopControl ==
  ASSUME TypeOK, ClientTypeOK, LoopInv, ControlInv,
         Quantize \/ QuantizeCrashes \/ StartJob \/ JobWaited \/ Argmax
  PROVE  ControlInv'
<1>1. pc \in {"quantize", "start", "job wait", "argmax"} /\ sent = Block /\ lib # {} /\ size # Unset
  <2>1. pc \in {"quantize", "start", "job wait", "argmax"}
    BY DEF Quantize, QuantizeCrashes, StartJob, JobWaited, Argmax
  <2>2. sent = Block /\ lib # {} /\ size \in Sizes
    BY <2>1 DEF ControlInv, SentInv, HeldInv, InHandle, LoopInv, InLoop, InSetup
  <2>3. size # Unset
    BY <2>2, ClientAssumption DEF Unset
  <2> QED  BY <2>1, <2>2, <2>3
<1>2. held \cap Files = {} /\ held \cap Dataset \in {{}, Dataset}
  BY DEF ControlInv, HeldInv
<1>3. CASE Quantize \/ StartJob \/ Argmax
  <2>1. /\ pc' \in {"quantize", "start", "job wait", "argmax", "out"} /\ rd' = rd
        /\ UNCHANGED <<held, size, lib, sent>> /\ pc # "job wait"
    BY <1>3 DEF Quantize, StartJob, Argmax, Goto, driverVars, userVars
  <2>2. ReadInv'
    BY <1>1, <2>1, ReadKept DEF ControlInv
  <2> QED
    BY <1>1, <1>2, <2>1, <2>2 DEF ControlInv, HeldInv, SentInv, InHandle, InLoop, Closing
<1>4. CASE JobWaited
  <2>1. /\ pc' = "argmax" /\ rd'[client] = "none"
        /\ UNCHANGED <<held, size, lib, sent>>
    BY <1>4, ClientIsUser DEF JobWaited, ReadReturns, Goto, TypeOK
  <2>2. ReadInv'
    BY <2>1 DEF ReadInv
  <2> QED
    BY <1>1, <1>2, <2>1, <2>2 DEF ControlInv, HeldInv, SentInv, InHandle, InLoop, Closing
<1>5. CASE QuantizeCrashes
  <2>1. lib' = {} /\ held' = {} /\ Exit(Crashed) /\ rd'[client] = "none" /\ Opened' = {}
    BY <1>5, ClientIsUser, CloseOpened DEF QuantizeCrashes, Dies, TypeOK
  <2> QED  BY <2>1, ExitControl
<1> QED  BY <1>3, <1>4, <1>5

LEMMA EndControl ==
  ASSUME TypeOK, ClientTypeOK, LoopInv, ControlInv, Out \/ OutCrashes \/ Free
  PROVE  ControlInv'
<1>1. pc \in {"out", "free"} /\ lib' = lib /\ rd' = rd /\ Opened' = Opened
  BY DEF Out, OutCrashes, Free, driverVars, userVars, Opened
<1>2. ReadInv' /\ rd'[client] = "none"
  BY <1>1, ReadKept, Waiting DEF ControlInv
<1>3. CASE Out
  <2>1. held' \cap Files = {} /\ held' \cap Dataset = {} /\ sent' = sent
    BY <1>3 DEF Out, ControlInv, HeldInv
  <2>2. \/ pc' = "mask" /\ after' = "free"
        \/ pc' = "free" /\ lib = {} /\ Opened = {}
    BY <1>3 DEF Out, Goto, ControlInv, HeldInv
  <2> QED
    BY <1>1, <1>2, <2>1, <2>2 DEF ControlInv, HeldInv, SentInv, InHandle, InLoop, Closing
<1>4. CASE OutCrashes \/ Free
  <2>1. /\ lib = {} /\ Opened = {} /\ held' = {}
        /\ \E c \in {0, 1, Crashed} : Exit(c)
    BY <1>4 DEF OutCrashes, Free, ControlInv, HeldInv
  <2>2. held' \cap Files = {} /\ held' \cap Dataset = {}
    BY <2>1
  <2> QED  BY <1>1, <1>2, <2>1, <2>2, ExitControl
<1> QED  BY <1>3, <1>4

LEMMA EngineControl ==
  ASSUME ControlInv, DmaDone \/ JobDone \/ DriverStep \/ HandlerRuns
  PROVE  ControlInv'
<1>1. UNCHANGED <<file, rd>>
  BY DEF DmaDone, JobDone, Complete, DriverStep, HandlerRuns, HandlerStep, HandlerReads,
         HandlerCounts, ProbeStep, ReleaseStep, AllocFails, Acquire, EnableDevice, JudgeProbe,
         RegisterNode, UndoNode, RequestIrq, Remove, WithdrawNode, ReleaseIrq, ReleaseMemory,
         userVars
<1>2. UNCHANGED <<pc, after, held, size, lib, code, sent>>
  BY DEF DmaDone, JobDone, DriverStep, HandlerRuns, mainVars
<1> QED  BY <1>1, <1>2, FrameControl

LEMMA ControlStep ==
    TypeOK /\ ClientTypeOK /\ LoopInv /\ ControlInv /\ [InferenceNext]_allVars => ControlInv'
<1>1. ASSUME ControlInv, UNCHANGED allVars PROVE ControlInv'
  BY <1>1, FrameControl DEF allVars, mainVars, driverVars, userVars
<1> QED
  BY <1>1, BeginControl, InitControl, CloseControl, SetupControl, WaitControl, LoopControl,
     EndControl, EngineControl
  DEF InferenceNext, ClientStep

LEMMA ControlInvariant == InferenceSpec => []ControlInv
<1>1. TypeOK /\ ClientTypeOK /\ LoopInv /\ ControlInv /\ [InferenceNext]_allVars => ControlInv'
  BY ControlStep
<1>2. InferenceSpec => []TypeOK
  BY ProgramIsUser, LifecycleTypeCorrect, PTL
<1> QED  BY <1>1, <1>2, ControlInit, ClientTypeInvariant, PTL DEF InferenceSpec

-----------------------------------------------------------------------------
(* The way of a completion.                                                *)

LEMMA NowhereIsOnePlace == \A k \in Source : Nowhere(k) => OnePlace(k)
BY DEF Nowhere, OnePlace, InHandler

\* The handler is where something was taken.
LEMMA HandlerStepInv ==
    TypeOK /\ HandlerInv /\ [InferenceNext]_allVars => HandlerInv'
<1> SUFFICES ASSUME TypeOK, HandlerInv, [InferenceNext]_allVars PROVE HandlerInv'
  OBVIOUS
<1>1. CASE HandlerStep
  <2>1. ASSUME NEW s \in Source, HandlerReads(s) PROVE HandlerInv'
    BY <2>1 DEF HandlerReads, HandlerInv, TypeOK
  <2>2. ASSUME NEW s \in Source, HandlerCounts(s) PROVE HandlerInv'
    BY <2>2 DEF HandlerCounts, HandlerInv, TypeOK
  <2> QED  BY <1>1, <2>1, <2>2 DEF HandlerStep
<1>2. CASE UNCHANGED isrVars
  BY <1>2 DEF isrVars, HandlerInv
<1>3. HandlerStep \/ UNCHANGED isrVars
  <2>1. CASE ClientStep \/ WaitInterrupted \/ Start
    <3>1. ASSUME UserStep(client) PROVE UNCHANGED isrVars
      BY <3>1 DEF UserStep, Open, Close, ReadBegins, ReadReturns, ReadInterrupted, Dies
    <3>2. ASSUME NEW b \in BOOLEAN, SetMask(b) PROVE UNCHANGED isrVars
      BY <3>2 DEF SetMask
    <3> QED  BY <2>1, <3>1, <3>2, ClientStepIsUser DEF driverVars
  <2>2. CASE DmaDone \/ JobDone
    BY <2>2 DEF DmaDone, JobDone, Complete
  <2>3. CASE DriverStep
    BY <2>3 DEF DriverStep, ProbeStep, ReleaseStep, AllocFails, Acquire, EnableDevice, JudgeProbe,
                RegisterNode, UndoNode, RequestIrq, Remove, WithdrawNode, ReleaseIrq, ReleaseMemory
  <2>4. CASE HandlerRuns \/ UNCHANGED allVars
    BY <2>4 DEF HandlerRuns, allVars, driverVars
  <2> QED  BY <2>1, <2>2, <2>3, <2>4 DEF InferenceNext
<1> QED  BY <1>1, <1>2, <1>3

\* Steps that move no completion; an sc_dev that goes takes its counters along,
\* and a new one begins with zeros.
LEMMA PlaceKept ==
  ASSUME NEW k \in Source, Works(k)' = Works(k), UNCHANGED <<status, taken>>,
         UNCHANGED <<live, count>> \/ ~live' \/ count'[k] = 0
  PROVE  /\ Nowhere(k) => Nowhere(k)'
         /\ OnePlace(k) => OnePlace(k)'
<1>1. InHandler(k)' = InHandler(k)
  BY DEF InHandler
<1>2. Counted(k)' => Counted(k) /\ count'[k] = count[k]
  BY DEF Counted
<1> QED  BY <1>1, <1>2 DEF Nowhere, OnePlace

\* The handler takes the status bits over, ...
LEMMA PlaceTaken ==
  ASSUME TypeOK, HandlerInv, NEW s \in Source, HandlerReads(s), UNCHANGED engineVars, NEW k \in Source
  PROVE  /\ Nowhere(k) => Nowhere(k)'
         /\ OnePlace(k) => OnePlace(k)'
<1>1. /\ status' = {} /\ taken'[s] = status /\ taken[s] = {}
      /\ \A t \in Source \ {s} : taken'[t] = taken[t]
  BY DEF HandlerReads, TypeOK, HandlerInv
<1>2. Works(k)' = Works(k) /\ Counted(k)' = Counted(k) /\ count' = count
  BY DEF Works, Counted, HandlerReads, probeVars, engineVars
<1>3. InHandler(k)' = (InHandler(k) \/ k \in status)
  BY <1>1 DEF InHandler
<1>4. OnePlace(k) => \A t, v \in Source : k \in taken'[t] /\ k \in taken'[v] => t = v
  <2>1. k \in status /\ OnePlace(k) => ~InHandler(k)
    BY DEF OnePlace
  <2> QED  BY <1>1, <2>1 DEF OnePlace, InHandler
<1> QED  BY <1>1, <1>2, <1>3, <1>4 DEF Nowhere, OnePlace

\* ... and counts them.
LEMMA PlaceCounted ==
  ASSUME TypeOK, NEW s \in Source, HandlerCounts(s), UNCHANGED engineVars, NEW k \in Source
  PROVE  /\ Nowhere(k) => Nowhere(k)'
         /\ OnePlace(k) => OnePlace(k)'
<1>1. /\ status' = status /\ taken'[s] = {} /\ live' = live
      /\ \A t \in Source \ {s} : taken'[t] = taken[t]
      /\ count'[k] = IF k \in taken[s] THEN Bump(count[k]) ELSE count[k]
      /\ count[k] \in 0 .. 2
  BY DEF HandlerCounts, TypeOK, deviceVars, probeVars, Many
<1>2. Works(k)' = Works(k)
  BY DEF Works, engineVars
<1>3. CASE k \notin taken[s]
  <2>1. InHandler(k)' = InHandler(k) /\ Counted(k)' = Counted(k) /\ count'[k] = count[k]
    BY <1>1, <1>3 DEF InHandler, Counted
  <2>2. \A t \in Source : k \in taken'[t] => k \in taken[t]
    BY <1>1
  <2> QED  BY <1>1, <1>2, <2>1, <2>2 DEF Nowhere, OnePlace
<1>4. CASE k \in taken[s]
  <2>1. InHandler(k)
    BY <1>4 DEF InHandler
  <2>2. ASSUME OnePlace(k) PROVE OnePlace(k)'
    <3>1. ~Works(k) /\ k \notin status /\ ~Counted(k)
      BY <2>1, <2>2 DEF OnePlace
    <3>2. \A t \in Source : k \notin taken'[t]
      BY <1>1, <1>4, <2>2 DEF OnePlace
    <3>3. Counted(k)' => count'[k] = 1
      BY <1>1, <1>4, <3>1 DEF Counted, Bump, Many
    <3> QED  BY <1>1, <1>2, <3>1, <3>2, <3>3 DEF OnePlace, InHandler
  <2> QED  BY <2>1, <2>2 DEF Nowhere
<1> QED  BY <1>3, <1>4

\* An engine that is done sets the status bit.
LEMMA PlaceDone ==
  ASSUME NEW e \in {"dma", "job"}, Works(e), Complete(e),
         \/ e = "dma" /\ dma' = "none" /\ job' = job
         \/ e = "job" /\ job' = Idle /\ dma' = dma,
         NEW k \in Source
  PROVE  /\ Nowhere(k) => Nowhere(k)'
         /\ OnePlace(k) => OnePlace(k)'
<1>1. UNCHANGED <<taken, count, live>> /\ status' = status \cup {e}
  BY DEF Complete, isrVars, probeVars
<1>2. InHandler(k)' = InHandler(k) /\ Counted(k)' = Counted(k)
  BY <1>1 DEF InHandler, Counted
<1>3. CASE k = e
  <2>1. ~Works(k)'
    BY <1>3 DEF Works
  <2>2. Works(k)
    BY <1>3
  <2> QED  BY <1>1, <1>2, <2>1, <2>2 DEF Nowhere, OnePlace
<1>4. CASE k # e
  <2>1. Works(k)' = Works(k) /\ (k \in status' <=> k \in status)
    BY <1>1, <1>4 DEF Works
  <2> QED  BY <1>1, <1>2, <2>1 DEF Nowhere, OnePlace
<1> QED  BY <1>3, <1>4

\* A read of what is counted leaves nothing behind.
LEMMA PlaceRead ==
  ASSUME TypeOK, Unharmed, NEW n \in -1 .. Many, ReadReturns(client, n), UNCHANGED <<dma, job>>,
         NEW e \in Source, rd[client] = e, file[client][e] # 0, OnePlace(e)
  PROVE  /\ ~Works(e) /\ Nowhere(e)'
         /\ \A k \in Source \ {e} : Nowhere(k) => Nowhere(k)'
         /\ \A k \in Source \ {e} : OnePlace(k) => OnePlace(k)'
<1>1. /\ live /\ count[e] # 0 /\ count' = [count EXCEPT ![e] = 0]
      /\ UNCHANGED <<status, taken, live>>
  BY DEF ReadReturns, Unharmed, Stale, probeVars, deviceVars, isrVars
<1>2. Counted(e)
  BY <1>1 DEF Counted
<1>3. ~Works(e) /\ e \notin status /\ ~InHandler(e)
  BY <1>2 DEF OnePlace
<1>4. \A k \in Source : Works(k)' = Works(k) /\ InHandler(k)' = InHandler(k)
  BY <1>1 DEF Works, InHandler
<1>5. /\ count'[e] = 0
      /\ \A k \in Source \ {e} : count'[k] = count[k]
  BY <1>1 DEF TypeOK
<1>6. Nowhere(e)'
  BY <1>1, <1>3, <1>4, <1>5 DEF Nowhere, Counted
<1>7. \A k \in Source \ {e} : Counted(k)' = Counted(k)
  BY <1>1, <1>5 DEF Counted
<1> QED  BY <1>1, <1>3, <1>4, <1>5, <1>6, <1>7 DEF Nowhere, OnePlace

-----------------------------------------------------------------------------
(* Completions, and what they are of.                                      *)

LEMMA Wanted ==
    /\ "dma" \in Source /\ "job" \in Source
    /\ \A k \in Source : WaitsFor(k) <=> (k = "dma" /\ pc = "dma wait") \/ (k = "job" /\ pc = "job wait")
    /\ \A k \in Source : WaitsFor(k)' <=> (k = "dma" /\ pc' = "dma wait") \/ (k = "job" /\ pc' = "job wait")
BY DEF Source, WaitsFor

LEMMA HarmStays == [InferenceNext]_allVars => harmed \subseteq harmed'
<1> SUFFICES ASSUME [InferenceNext]_allVars PROVE harmed \subseteq harmed'
  OBVIOUS
<1>1. ASSUME UserStep(client) PROVE harmed \subseteq harmed'
  BY <1>1 DEF UserStep, Open, Close, ReadBegins, ReadReturns, ReadInterrupted, Dies, Touch, history
<1>2. CASE ClientStep \/ WaitInterrupted \/ Start
  BY <1>1, <1>2, ClientStepIsUser DEF SetMask, driverVars, history
<1>3. CASE DmaDone \/ JobDone
  BY <1>3 DEF DmaDone, JobDone, Complete, history
<1>4. CASE DriverStep
  BY <1>4 DEF DriverStep, ProbeStep, ReleaseStep, AllocFails, Acquire, EnableDevice, JudgeProbe, RegisterNode,
              UndoNode, RequestIrq, Remove, WithdrawNode, ReleaseIrq, ReleaseMemory, history
<1>5. CASE HandlerRuns \/ UNCHANGED allVars
  BY <1>5 DEF HandlerRuns, HandlerStep, HandlerReads, HandlerCounts, allVars, driverVars, history
<1> QED  BY <1>2, <1>3, <1>4, <1>5 DEF InferenceNext

LEMMA DeviceInit == InferenceInit => HandlerInv /\ CompletionInv /\ DataInv
<1> SUFFICES ASSUME InferenceInit PROVE HandlerInv /\ CompletionInv /\ DataInv
  OBVIOUS
<1> USE DEF InferenceInit, Init
<1>1. HandlerInv
  BY DEF HandlerInv
<1>2. \A k \in Source : Nowhere(k) /\ ~WaitsFor(k)
  BY Wanted DEF Nowhere, Works, InHandler, Counted
<1>3. DataInv
  BY DEF DataInv
<1> QED  BY <1>1, <1>2, <1>3 DEF CompletionInv

\* Steps of the program outside its waits.
Between ==
    \/ Start \/ Allocate \/ Load
    \/ InitMaps \/ (\E s \in Source : InitOpens(s)) \/ InitEnables \/ InitFailed
    \/ CloseMasks \/ CloseReleases
    \/ Configure \/ SetupDone \/ Quantize \/ QuantizeCrashes \/ Argmax
    \/ Out \/ OutCrashes \/ Free

LEMMA BetweenKeeps ==
  ASSUME ClientTypeOK, Between
  PROVE  /\ pc \notin {"dma wait", "job wait"} /\ pc' \notin {"dma wait", "job wait", "argmax"}
         /\ UNCHANGED <<status, taken, live, count>>
         /\ \A k \in Source : Works(k)' = Works(k)
         /\ (UNCHANGED <<sent, sram>> \/ sent' = {})
<1>1. ASSUME NEW c \in {0, 1, Crashed}, Exit(c)
      PROVE  /\ pc' = "exited" /\ dma' = dma /\ (job' = Idle <=> job = Idle) /\ sent' = {}
  BY <1>1 DEF Exit, Idle, Garbage
<1>2. CASE /\ UNCHANGED driverVars
           /\ \/ Start \/ Allocate \/ Load \/ InitMaps \/ InitFailed \/ Configure \/ SetupDone
              \/ Quantize \/ Argmax \/ Out \/ OutCrashes \/ Free
  <2>1. UNCHANGED <<status, taken, live, count>>
    BY <1>2 DEF driverVars, deviceVars, isrVars, probeVars
  <2>2. CASE Start \/ InitMaps \/ Configure \/ SetupDone \/ Quantize \/ Argmax \/ Out
    <3>1. /\ pc \notin {"dma wait", "job wait"} /\ pc' \notin {"dma wait", "job wait", "argmax"}
          /\ UNCHANGED <<dma, job, sram>> /\ (sent' = sent \/ sent' = {})
      BY <2>2 DEF Start, InitMaps, Configure, SetupDone, Quantize, Argmax, Out, Goto, locals, engineVars
    <3> QED  BY <2>1, <3>1 DEF Works
  <2>3. CASE InitFailed \/ OutCrashes \/ Free
    <3>1. pc \notin {"dma wait", "job wait"} /\ \E c \in {0, 1, Crashed} : Exit(c)
      BY <2>3 DEF InitFailed, OutCrashes, Free
    <3> QED  BY <1>1, <2>1, <3>1 DEF Works
  <2>4. CASE Allocate \/ Load
    <3>1. /\ pc \notin {"dma wait", "job wait"}
          /\ \/ Exit(1)
             \/ sent' = sent /\ (Goto("load") \/ Goto("init") \/ Goto("out"))
      BY <2>4 DEF Allocate, Load, locals
    <3>2. ASSUME sent' = sent, Goto("load") \/ Goto("init") \/ Goto("out")
          PROVE  /\ pc' \notin {"dma wait", "job wait", "argmax"} /\ UNCHANGED <<dma, job, sram>>
      BY <3>2 DEF Goto, engineVars
    <3> QED  BY <1>1, <2>1, <3>1, <3>2 DEF Works
  <2> QED  BY <1>2, <2>2, <2>3, <2>4
<1>3. CASE InitEnables \/ CloseMasks \/ CloseReleases \/ (\E s \in Source : InitOpens(s))
  <2>1. UNCHANGED <<status, taken, live, count>>
    BY <1>3 DEF InitEnables, CloseMasks, CloseReleases, InitOpens, SetMask, Close, Open,
                driverVars, deviceVars, isrVars, probeVars
  <2>2. /\ pc \notin {"dma wait", "job wait"} /\ UNCHANGED <<dma, job, sram, sent>>
        /\ \/ pc' \in {"phys", "close", "enable", "open", "mask"}
           \/ pc' = after /\ pc = "close"
    BY <1>3 DEF InitEnables, CloseMasks, CloseReleases, InitOpens, Goto, engineVars
  <2>3. after \notin {"dma wait", "job wait", "argmax"}
    BY DEF ClientTypeOK
  <2> QED  BY <2>1, <2>2, <2>3 DEF Works
<1>4. CASE QuantizeCrashes
  <2>1. UNCHANGED <<status, taken, live, count>> /\ pc = "quantize" /\ Exit(Crashed)
    BY <1>4 DEF QuantizeCrashes, Dies, deviceVars, isrVars, probeVars
  <2> QED  BY <1>1, <2>1 DEF Works
<1> QED
  BY <1>2, <1>3, <1>4 DEF Between, Start, Allocate, Load, InitMaps, InitFailed, Configure, SetupDone,
     Quantize, Argmax, Out, OutCrashes, Free

Devices == CompletionInv /\ DataInv

LEMMA BetweenDevices ==
  ASSUME TypeOK, ClientTypeOK, Devices, [InferenceNext]_allVars, Between
  PROVE  Devices'
<1> SUFFICES ASSUME Unharmed' PROVE Devices'
  BY DEF Devices, CompletionInv, DataInv
<1>1. Unharmed
  BY HarmStays DEF Unharmed
<1>2. CompletionInv'
  <2>1. \A k \in Source : ~WaitsFor(k) /\ ~WaitsFor(k)'
    BY BetweenKeeps, Wanted
  <2>2. ASSUME NEW k \in Source PROVE Nowhere(k)'
    <3>1. Nowhere(k)
      BY <1>1, <2>1 DEF Devices, CompletionInv
    <3> QED  BY <3>1, BetweenKeeps, PlaceKept
  <2> QED  BY <2>1, <2>2 DEF CompletionInv
<1>3. DataInv'
  BY <1>1, BetweenKeeps DEF Devices, DataInv
<1> QED  BY <1>2, <1>3 DEF Devices

\* A step of the program that starts an engine finds it idle.
LEMMA StartsDevices ==
  ASSUME TypeOK, ClientTypeOK, ControlInv, Devices, [InferenceNext]_allVars, SendBlock \/ StartJob
  PROVE  Devices'
<1> SUFFICES ASSUME Unharmed' PROVE Devices'
  BY DEF Devices, CompletionInv, DataInv
<1>1. Unharmed
  BY HarmStays DEF Unharmed
<1>2. UNCHANGED <<status, taken, live, count, sent, sram, input, logits>> /\ pc \in {"dma", "start"}
  BY DEF SendBlock, StartJob, driverVars, deviceVars, isrVars, probeVars
<1>3. \A k \in Source : ~WaitsFor(k) /\ Nowhere(k)
  BY <1>1, <1>2, Wanted DEF Devices, CompletionInv
<1>4. dma = "none" /\ job = Idle
  BY <1>3, Wanted DEF Nowhere, Works
<1>5. ASSUME NEW e \in Source, \A k \in Source : k # e => Works(k)' = Works(k), WaitsFor(e)'
      PROVE  CompletionInv'
  <2>1. \A k \in Source : k # e => ~WaitsFor(k)'
    BY <1>5, Wanted
  <2>2. \A k \in Source : k # e => Nowhere(k)'
    BY <1>2, <1>3, <1>5, PlaceKept
  <2>3. OnePlace(e)'
    BY <1>2, <1>3 DEF Nowhere, OnePlace, InHandler, Counted
  <2> QED  BY <1>5, <2>1, <2>2, <2>3 DEF CompletionInv
<1>6. CASE SendBlock
  <2>1. CASE pc' = "dma wait" /\ dma' = Sending /\ job' = job
    <3>1. \A k \in Source : k # "dma" => Works(k)' = Works(k)
      BY <2>1 DEF Works
    <3>2. CompletionInv'
      BY <1>5, <2>1, <3>1, Wanted
    <3>3. Sending' = Sending /\ Sending # "none"
      BY <1>2 DEF Sending
    <3>4. DataInv'
      BY <1>1, <1>2, <2>1, <3>3 DEF Devices, DataInv
    <3> QED  BY <3>2, <3>4 DEF Devices
  <2>2. CASE pc' = "out" /\ dma' = dma /\ job' = job
    <3>1. \A k \in Source : ~WaitsFor(k)'
      BY <2>2, Wanted
    <3>2. \A k \in Source : Works(k)' = Works(k)
      BY <2>2 DEF Works
    <3>3. \A k \in Source : Nowhere(k)'
      BY <1>2, <1>3, <3>2, PlaceKept
    <3>4. DataInv'
      BY <1>1, <1>2, <2>2 DEF Devices, DataInv
    <3> QED  BY <3>1, <3>3, <3>4 DEF Devices, CompletionInv
  <2> QED  BY <1>4, <1>6, <2>1, <2>2 DEF SendBlock
<1>7. CASE StartJob
  <2>1. pc' = "job wait" /\ dma' = dma /\ job' = input
    BY <1>4, <1>7 DEF StartJob
  <2>2. \A k \in Source : k # "job" => Works(k)' = Works(k)
    BY <2>1 DEF Works
  <2>3. CompletionInv'
    BY <1>5, <2>1, <2>2, Wanted
  <2>4. input # Idle
    BY Values DEF ClientTypeOK
  <2>5. DataInv'
    BY <1>1, <1>2, <2>1, <2>4 DEF Devices, DataInv
  <2> QED  BY <2>3, <2>5 DEF Devices
<1> QED  BY <1>6, <1>7

LEMMA ReadBeginsDevices ==
  ASSUME TypeOK, Devices, [InferenceNext]_allVars, WaitBegins \/ WaitInterrupted
  PROVE  Devices'
<1> SUFFICES ASSUME Unharmed' PROVE Devices'
  BY DEF Devices, CompletionInv, DataInv
<1>1. Unharmed
  BY HarmStays DEF Unharmed
<1>2. /\ UNCHANGED <<status, taken, live, count, mainVars, engineVars>>
  BY DEF WaitBegins, WaitInterrupted, ReadBegins, ReadInterrupted, deviceVars, isrVars, probeVars
<1>3. UNCHANGED <<pc, sent, sram, input, logits, dma, job>>
  BY <1>2 DEF mainVars, engineVars
<1>4. \A k \in Source : Works(k)' = Works(k) /\ WaitsFor(k)' = WaitsFor(k)
  BY <1>3 DEF Works, WaitsFor
<1>5. CompletionInv'
  BY <1>1, <1>2, <1>4, PlaceKept DEF Devices, CompletionInv
<1>6. DataInv'
  BY <1>1, <1>3 DEF Devices, DataInv, Sending
<1> QED  BY <1>5, <1>6 DEF Devices

\* A read that returns has taken the completion that was waited for.
LEMMA ReadReturnsDevices ==
  ASSUME TypeOK, ClientTypeOK, ControlInv, Devices, [InferenceNext]_allVars,
         WaitFails \/ BlockSent \/ JobWaited
  PROVE  Devices'
<1> SUFFICES ASSUME Unharmed' PROVE Devices'
  BY DEF Devices, CompletionInv, DataInv
<1>1. Unharmed
  BY HarmStays DEF Unharmed
<1>2. PICK n \in -1 .. Many : ReadReturns(client, n)
  <2>1. 1 \in -1 .. Many
    BY DEF Many
  <2> QED  BY <2>1 DEF WaitFails, BlockSent, JobWaited
<1>3. /\ pc' \notin {"dma wait", "job wait"} /\ UNCHANGED <<dma, job, sram, input, logits>>
  BY DEF WaitFails, BlockSent, JobWaited, Goto, engineVars
<1>4. rd[client] # "none" /\ WaitsFor(rd[client]) /\ file[client][rd[client]] # 0
  BY <1>2 DEF ReadReturns, ControlInv, ReadInv
<1>5. PICK e \in Source : rd[client] = e /\ WaitsFor(e) /\ file[client][e] # 0
  BY <1>4, Wanted DEF WaitsFor
<1>6. OnePlace(e) /\ \A k \in Source \ {e} : Nowhere(k)
  BY <1>1, <1>5, Wanted DEF Devices, CompletionInv
<1>7. ~Works(e) /\ \A k \in Source : Nowhere(k)'
  BY <1>1, <1>2, <1>3, <1>5, <1>6, PlaceRead
<1>8. CompletionInv'
  BY <1>3, <1>7, Wanted DEF CompletionInv
<1>9. DataInv'
  <2>1. CASE WaitFails
    <3>1. pc' = "out" /\ sent' = sent
      BY <2>1 DEF WaitFails, Goto
    <3> QED  BY <1>1, <1>3, <3>1 DEF Devices, DataInv
  <2>2. CASE BlockSent
    <3>1. pc = "dma wait" /\ sent' = sent \cup {Sending} /\ pc' \in {"ready", "dma"}
      BY <2>2 DEF BlockSent, Goto
    <3>2. dma = "none"
      BY <1>5, <1>7, <3>1, Wanted DEF Works
    <3> QED  BY <1>1, <1>3, <3>1, <3>2 DEF Devices, DataInv
  <2>3. CASE JobWaited
    <3>1. pc = "job wait" /\ sent' = sent /\ pc' = "argmax"
      BY <2>3 DEF JobWaited, Goto
    <3>2. job = Idle
      BY <1>5, <1>7, <3>1, Wanted DEF Works
    <3> QED  BY <1>1, <1>3, <3>1, <3>2 DEF Devices, DataInv
  <2> QED  BY <2>1, <2>2, <2>3
<1> QED  BY <1>8, <1>9 DEF Devices

\* The engines end only what is waited for.
LEMMA EngineDevices ==
  ASSUME TypeOK, ClientTypeOK, ControlInv, Devices, [InferenceNext]_allVars, DmaDone \/ JobDone
  PROVE  Devices'
<1> SUFFICES ASSUME Unharmed' PROVE Devices'
  BY DEF Devices, CompletionInv, DataInv
<1>1. Unharmed
  BY HarmStays DEF Unharmed
<1>2. UNCHANGED <<pc, sent, input>>
  BY DEF DmaDone, JobDone, mainVars
<1>3. \A k \in Source : WaitsFor(k)' = WaitsFor(k)
  BY <1>2 DEF WaitsFor
<1>4. CASE DmaDone
  <2>1. /\ dma # "none" /\ dma' = "none" /\ job' = job /\ Complete("dma")
        /\ sram' = sram \cup {dma} /\ logits' = logits
    BY <1>4 DEF DmaDone, mainVars
  <2>2. Works("dma")
    BY <2>1 DEF Works
  <2>3. pc = "dma wait"
    BY <1>1, <2>2, Wanted DEF Devices, CompletionInv, Nowhere
  <2>4. CompletionInv'
    BY <1>1, <1>3, <2>1, <2>2, PlaceDone DEF Devices, CompletionInv
  <2>5. dma = Sending /\ Sending' = Sending
    BY <1>1, <1>2, <2>1, <2>3 DEF Devices, DataInv, Sending
  <2>6. DataInv'
    BY <1>1, <1>2, <2>1, <2>3, <2>5 DEF Devices, DataInv
  <2> QED  BY <2>4, <2>6 DEF Devices
<1>5. CASE JobDone
  <2>1. /\ job # Idle /\ job' = Idle /\ dma' = dma /\ Complete("job")
        /\ sram' = sram /\ logits' \in IF sram = Block THEN {job, input} ELSE {Garbage}
    BY <1>5 DEF JobDone
  <2>2. Works("job")
    BY <2>1 DEF Works
  <2>3. pc = "job wait"
    BY <1>1, <2>2, Wanted DEF Devices, CompletionInv, Nowhere
  <2>4. CompletionInv'
    BY <1>1, <1>3, <2>1, <2>2, PlaceDone DEF Devices, CompletionInv
  <2>5. job = input /\ sent = Block
    BY <1>1, <2>1, <2>3 DEF Devices, DataInv, ControlInv, SentInv, InLoop
  <2>6. sram = Block
    BY <1>1, <2>5 DEF Devices, DataInv, ClientTypeOK
  <2>7. logits' = input
    BY <2>1, <2>5, <2>6
  <2>8. DataInv'
    BY <1>1, <1>2, <2>1, <2>3, <2>7 DEF Devices, DataInv
  <2> QED  BY <2>4, <2>8 DEF Devices
<1> QED  BY <1>4, <1>5

\* Probing and removing loses completions at most; what remains is in its place.
LEMMA DriverDevices ==
  ASSUME TypeOK, Devices, [InferenceNext]_allVars, DriverStep
  PROVE  Devices'
<1> SUFFICES ASSUME Unharmed' PROVE Devices'
  BY DEF Devices, CompletionInv, DataInv
<1>1. Unharmed
  BY HarmStays DEF Unharmed
<1>2. UNCHANGED <<pc, sent, input, logits, dma, job, sram>>
  BY DEF DriverStep, mainVars, engineVars
<1>3. UNCHANGED <<status, taken>>
  BY DEF DriverStep, ProbeStep, ReleaseStep, AllocFails, Acquire, EnableDevice, JudgeProbe, RegisterNode,
         UndoNode, RequestIrq, Remove, WithdrawNode, ReleaseIrq, ReleaseMemory, deviceVars, isrVars
<1>4. UNCHANGED <<live, count>> \/ ~live' \/ \A k \in Source : count'[k] = 0
  BY DEF DriverStep, ProbeStep, ReleaseStep, AllocFails, Acquire, EnableDevice, JudgeProbe, RegisterNode,
         UndoNode, RequestIrq, Remove, WithdrawNode, ReleaseIrq, ReleaseMemory
<1>5. \A k \in Source : Works(k)' = Works(k) /\ WaitsFor(k)' = WaitsFor(k)
  BY <1>2 DEF Works, WaitsFor
<1>6. CompletionInv'
  BY <1>1, <1>3, <1>4, <1>5, PlaceKept DEF Devices, CompletionInv
<1>7. DataInv'
  BY <1>1, <1>2 DEF Devices, DataInv, Sending
<1> QED  BY <1>6, <1>7 DEF Devices

LEMMA HandlerDevices ==
  ASSUME TypeOK, HandlerInv, Devices, [InferenceNext]_allVars, HandlerRuns
  PROVE  Devices'
<1> SUFFICES ASSUME Unharmed' PROVE Devices'
  BY DEF Devices, CompletionInv, DataInv
<1>1. Unharmed
  BY HarmStays DEF Unharmed
<1>2. UNCHANGED <<pc, sent, input, logits, dma, job, sram>> /\ UNCHANGED engineVars
  BY DEF HandlerRuns, mainVars, engineVars
<1>3. \A k \in Source : WaitsFor(k)' = WaitsFor(k)
  BY <1>2 DEF WaitsFor
<1>4. PICK s \in Source : HandlerReads(s) \/ HandlerCounts(s)
  BY DEF HandlerRuns, HandlerStep
<1>5. ASSUME NEW k \in Source
      PROVE  (Nowhere(k) => Nowhere(k)') /\ (OnePlace(k) => OnePlace(k)')
  <2>1. CASE HandlerReads(s)
    BY <1>2, <2>1, PlaceTaken
  <2>2. CASE HandlerCounts(s)
    BY <1>2, <2>2, PlaceCounted
  <2> QED  BY <1>4, <2>1, <2>2
<1>6. CompletionInv'
  BY <1>1, <1>3, <1>5 DEF Devices, CompletionInv
<1>7. DataInv'
  BY <1>1, <1>2 DEF Devices, DataInv, Sending
<1> QED  BY <1>6, <1>7 DEF Devices

LEMMA IdleDevices ==
  ASSUME Devices, UNCHANGED allVars
  PROVE  Devices'
<1>1. UNCHANGED <<status, taken, live, count, harmed>>
  BY DEF allVars, driverVars, deviceVars, isrVars, probeVars, history
<1>2. UNCHANGED <<pc, sent, input, logits, dma, job, sram>>
  BY DEF allVars, mainVars, engineVars
<1>3. \A k \in Source : Works(k)' = Works(k) /\ WaitsFor(k)' = WaitsFor(k)
  BY <1>2 DEF Works, WaitsFor
<1>4. CompletionInv'
  BY <1>1, <1>3, PlaceKept DEF Devices, CompletionInv, Unharmed
<1>5. DataInv'
  BY <1>1, <1>2 DEF Devices, DataInv, Sending, Unharmed
<1> QED  BY <1>4, <1>5 DEF Devices

LEMMA DevicesStep ==
    /\ TypeOK /\ ClientTypeOK /\ ControlInv
    /\ HandlerInv /\ Devices
    /\ [InferenceNext]_allVars
    => HandlerInv' /\ Devices'
<1> SUFFICES ASSUME TypeOK, ClientTypeOK, ControlInv, HandlerInv, Devices, [InferenceNext]_allVars
             PROVE  HandlerInv' /\ Devices'
  OBVIOUS
<1>1. HandlerInv'
  BY HandlerStepInv
<1>2. ClientStep \/ Start =>
          \/ Between \/ SendBlock \/ StartJob \/ WaitBegins
          \/ WaitFails \/ BlockSent \/ JobWaited
  BY DEF ClientStep, Between
<1>3. Devices'
  BY <1>2, BetweenDevices, StartsDevices, ReadBeginsDevices, ReadReturnsDevices, EngineDevices,
     DriverDevices, HandlerDevices, IdleDevices DEF InferenceNext
<1> QED  BY <1>1, <1>3

LEMMA DevicesInvariant == InferenceSpec => [](HandlerInv /\ Devices)
<1>1. InferenceInit => HandlerInv /\ Devices
  BY DeviceInit DEF Devices
<1>2. InferenceSpec => []TypeOK
  BY ProgramIsUser, LifecycleTypeCorrect, PTL
<1> QED  BY <1>1, <1>2, DevicesStep, ClientTypeInvariant, ControlInvariant, PTL DEF InferenceSpec

-----------------------------------------------------------------------------
(* What a program may rely on.                                             *)

\* Whenever main() makes a prediction, the logits it looks at are those of the
\* image it has put into input_q: no completion of an earlier block, job or
\* run is ever taken for this one, although nothing but a counter says so.
THEOREM PredictionAlwaysOwn == InferenceSpec => []PredictionIsOwn
<1>1. Devices => PredictionIsOwn
  BY DEF Devices, DataInv, PredictionIsOwn
<1> QED  BY <1>1, DevicesInvariant, PTL

\* Whichever way main() ends, the library and the loader have released what
\* they held, exit code 0 means that nothing at all is kept, and the device is
\* left quiet for the next run.
THEOREM ExitsClean == InferenceSpec => []ExitIsClean
<1>1. ClientTypeOK /\ ControlInv /\ HandlerInv /\ Devices => ExitIsClean
  <2> SUFFICES ASSUME TypeOK, ControlInv, HandlerInv, Devices, pc = "exited"
               PROVE  ExitIsClean
    BY DEF ExitIsClean, ClientTypeOK
  <2>1. /\ held \cap Files = {} /\ held \cap Dataset \in {{}, Dataset}
        /\ code = 0 => held = {}
        /\ lib = {} /\ Opened = {}
    BY DEF ControlInv, HeldInv
  <2>2. ASSUME Unharmed PROVE Quiet
    <3>1. \A k \in Source : Nowhere(k)
      BY <2>2, Wanted DEF Devices, CompletionInv
    <3>2. dma = "none" /\ job = Idle
      BY <3>1, Wanted DEF Nowhere, Works
    <3>3. status = {}
      BY <3>1 DEF Nowhere, TypeOK
    <3>4. \A s \in Source : taken[s] = {}
      BY <3>1 DEF Nowhere, InHandler, TypeOK
    <3>5. serving = {}
      BY <3>4 DEF HandlerInv, TypeOK
    <3>6. live => \A k \in Source : count[k] = 0
      BY <3>1 DEF Nowhere, Counted
    <3>7. live => count = [s \in Source |-> 0]
      BY <3>6 DEF TypeOK
    <3> QED  BY <3>2, <3>3, <3>5, <3>7 DEF Quiet
  <2> QED  BY <2>1, <2>2 DEF ExitIsClean
<1> QED  BY <1>1, ClientTypeInvariant, ControlInvariant, DevicesInvariant, PTL

-----------------------------------------------------------------------------
(* A program that waits is owed its completion.                            *)

\* The node of k is open in the sc_dev that is there.
OwnFile(k) == live /\ file[client][k] = gen

OpenInv ==
    /\ pc = "open" => \E s \in Source : Opened = Before[s]
    /\ pc \in InHandle \ {"open"} => Opened = Source

\* A wait in an sc_dev that is there has its completion somewhere on the way.
OnTheWay(k) == Works(k) \/ k \in status \/ InHandler(k) \/ count[k] # 0
OwedInv == \A k \in Source : WaitsFor(k) /\ OwnFile(k) => OnTheWay(k)

\* Unless the driver is on its way out, nobody masks the interrupts of a program
\* between its cim_init and its cim_close.
Leaving ==
    \/ stage \in {"unbound", "undo", "withdraw", "release"}
    \/ stage = "returned" /\ result # "0"
EnabledInv ==
    pc \in InHandle \ {"open", "enable"} /\ ~Leaving /\ (\E s \in Source : OwnFile(s)) => mask

WaitInv == OpenInv /\ OwedInv /\ EnabledInv

CompletionOwed ==
    Attached =>
        \A k \in Source : WaitsFor(k) =>
            /\ OwnFile(k) /\ rd[client] \in {"none", k}
            /\ \/ Works(k)
               \/ k \in status /\ mask /\ k \in irqs
               \/ InHandler(k)
               \/ Counted(k)

\* Steps of the program that end where no handle is.
Leaves ==
    \/ Start \/ Allocate \/ Load \/ InitFailed \/ CloseMasks \/ CloseReleases
    \/ WaitFails \/ QuantizeCrashes \/ Out \/ OutCrashes \/ Free

\* Steps of the program that keep the handle's files, and the rest of them.
Stays ==
    \/ InitEnables \/ Configure \/ SendBlock \/ BlockSent \/ SetupDone
    \/ Quantize \/ StartJob \/ JobWaited \/ Argmax

LEMMA LeavesHandle == ASSUME ClientTypeOK, Leaves PROVE pc' \notin InHandle
<1>1. after \notin InHandle
  BY DEF ClientTypeOK, InHandle
<1>2. CASE Allocate \/ Load
  <2>1. pc' \in {"exited", "load", "init", "out"}
    BY <1>2 DEF Allocate, Load, Exit, Goto
  <2> QED  BY <2>1 DEF InHandle
<1>3. CASE CloseReleases
  BY <1>1, <1>3 DEF CloseReleases, Goto
<1>4. CASE \/ Start \/ InitFailed \/ CloseMasks \/ WaitFails \/ QuantizeCrashes
           \/ Out \/ OutCrashes \/ Free
  <2>1. pc' \in {"alloc", "exited", "close", "out", "mask", "free"}
    BY <1>4 DEF Start, InitFailed, CloseMasks, WaitFails, QuantizeCrashes, Out, OutCrashes, Free,
                Exit, Goto
  <2> QED  BY <2>1 DEF InHandle
<1> QED  BY <1>2, <1>3, <1>4 DEF Leaves

LEMMA StaysOpen ==
  ASSUME Stays
  PROVE  /\ pc \in InHandle \ {"open"} /\ pc' # "open"
         /\ UNCHANGED <<stage, result, gen, live, file>>
         /\ mask' = mask \/ mask' = TRUE
         /\ pc = "enable" => mask' = TRUE
<1>1. CASE InitEnables
  BY <1>1 DEF InitEnables, SetMask, Goto, InHandle, probeVars, userVars
<1>2. CASE Configure \/ SendBlock \/ SetupDone \/ Quantize \/ StartJob \/ Argmax
  <2>1. pc \in {"phys", "dma", "ready", "quantize", "start", "argmax"} /\ UNCHANGED driverVars
    BY <1>2 DEF Configure, SendBlock, SetupDone, Quantize, StartJob, Argmax
  <2>2. pc' # "open"
    BY <1>2 DEF Configure, SendBlock, SetupDone, Quantize, StartJob, Argmax, Goto
  <2> QED  BY <2>1, <2>2 DEF InHandle, driverVars, probeVars, deviceVars, userVars
<1>3. CASE BlockSent \/ JobWaited
  <2>1. pc \in {"dma wait", "job wait"} /\ ReadReturns(client, 1) /\ pc' # "open"
    BY <1>3 DEF BlockSent, JobWaited, Goto
  <2> QED  BY <2>1 DEF ReadReturns, InHandle, probeVars, deviceVars
<1> QED  BY <1>1, <1>2, <1>3 DEF Stays

\* The driver never puts a new sc_dev behind a file, nor clears the counters of
\* one that is there; a new bound one has its interrupts enabled.
LEMMA DriverKeepsOwn ==
  ASSUME TypeOK, StageInv, FileInv, DriverStep
  PROVE  /\ UNCHANGED <<pc, rd, file, status, taken, dma, job>>
         /\ \A k \in Source : OwnFile(k)' => OwnFile(k) /\ count' = count
         /\ (\E k \in Source : OwnFile(k)') /\ ~Leaving' => mask' \/ (~Leaving /\ mask' = mask)
<1>1. UNCHANGED <<pc, dma, job>>
  BY DEF DriverStep, mainVars, engineVars
<1>2. gen \in Nat /\ \A k \in Source : file[client][k] \in Nat /\ file[client][k] <= gen
  BY ClientIsUser, LifecycleAssumption DEF TypeOK, Gen, FileInv
<1>3. CASE Acquire
  <2>1. UNCHANGED <<rd, file, status, taken>> /\ gen' = gen + 1
    BY <1>3 DEF Acquire, userVars, deviceVars, isrVars
  <2>2. \A k \in Source : ~OwnFile(k)'
    BY <1>2, <2>1 DEF OwnFile
  <2> QED  BY <1>1, <2>1, <2>2
<1>4. CASE ReleaseMemory
  <2>1. UNCHANGED <<rd, file, status, taken>> /\ ~live'
    BY <1>4 DEF ReleaseMemory, userVars, deviceVars, isrVars
  <2> QED  BY <1>1, <2>1 DEF OwnFile
<1>5. CASE \/ AllocFails \/ EnableDevice \/ JudgeProbe \/ Remove
           \/ \E s \in Source : \/ RegisterNode(s) \/ UndoNode(s) \/ RequestIrq(s)
                                \/ WithdrawNode(s) \/ ReleaseIrq(s)
  <2>1. UNCHANGED <<rd, file, status, taken, gen, live, count>>
    BY <1>5 DEF AllocFails, EnableDevice, JudgeProbe, Remove, RegisterNode, UndoNode, RequestIrq,
                WithdrawNode, ReleaseIrq, deviceVars, isrVars, userVars
  <2>2. Leaving' \/ mask' \/ (~Leaving /\ mask' = mask)
    BY <1>5 DEF AllocFails, EnableDevice, JudgeProbe, Remove, RegisterNode, UndoNode, RequestIrq,
                WithdrawNode, ReleaseIrq, deviceVars, Leaving, StageInv
  <2> QED  BY <1>1, <2>1, <2>2 DEF OwnFile
<1> QED  BY <1>3, <1>4, <1>5 DEF DriverStep, ProbeStep, ReleaseStep

LEMMA OpenStep ==
  ASSUME TypeOK, ClientTypeOK, StageInv, FileInv, ControlInv, OpenInv, [InferenceNext]_allVars
  PROVE  OpenInv'
<1>1. ASSUME UNCHANGED <<pc, file>> PROVE OpenInv'
  BY <1>1 DEF OpenInv, Opened
<1>2. CASE Leaves
  BY <1>2, LeavesHandle DEF OpenInv, InHandle
<1>3. CASE Stays
  <2>1. Opened = Source /\ Opened' = Opened
    BY <1>3, StaysOpen DEF OpenInv, Opened
  <2> QED  BY <1>3, <2>1, StaysOpen DEF OpenInv
<1>4. CASE InitMaps
  <2>1. Opened = {} /\ Opened' = Opened /\ pc' \in {"failed", "mask", "open"}
    BY <1>4 DEF InitMaps, Goto, ControlInv, HeldInv, Opened, driverVars, userVars
  <2>2. "dma" \in Source /\ Before["dma"] = {}
    BY DEF Source, Before
  <2> QED  BY <2>1, <2>2 DEF OpenInv, InHandle
<1>5. ASSUME NEW s \in Source, InitOpens(s) PROVE OpenInv'
  <2>1. CASE pc' = "mask"
    BY <2>1 DEF OpenInv, InHandle
  <2>2. CASE Open(client, s) /\ pc' = IF s = "job" THEN "enable" ELSE "open"
    <3>1. gen # 0
      BY <2>2 DEF Open, FileInv
    <3>2. Opened' = Opened \cup {s}
      BY <2>2, <3>1, ClientIsUser DEF Open, Opened, TypeOK
    <3>3. Opened = Before[s]
      BY <1>5 DEF InitOpens
    <3>4. s = "job" => Opened' = Source
      BY <3>2, <3>3 DEF Before, Source
    <3>5. s # "job" => \E t \in Source : Opened' = Before[t]
      <4>1. s = "dma" => Opened' = Before["ctrl"]
        BY <3>2, <3>3 DEF Before
      <4>2. s = "ctrl" => Opened' = Before["job"]
        BY <3>2, <3>3 DEF Before
      <4> QED  BY <4>1, <4>2 DEF Source
    <3> QED  BY <2>2, <3>4, <3>5 DEF OpenInv
  <2> QED  BY <1>5, <2>1, <2>2 DEF InitOpens, Goto
<1>6. CASE \/ WaitBegins \/ WaitInterrupted \/ DmaDone \/ JobDone \/ DriverStep \/ HandlerRuns
           \/ UNCHANGED allVars
  <2>1. pc' = pc
    BY <1>6 DEF WaitBegins, WaitInterrupted, DmaDone, JobDone, DriverStep, HandlerRuns, allVars,
                mainVars
  <2>2. file' = file
    BY <1>6, DriverKeepsOwn
    DEF WaitBegins, WaitInterrupted, ReadBegins, ReadInterrupted, DmaDone, JobDone, Complete,
        HandlerRuns, HandlerStep, HandlerReads, HandlerCounts, allVars, driverVars, userVars
  <2> QED  BY <1>1, <2>1, <2>2
<1> QED  BY <1>2, <1>3, <1>4, <1>5, <1>6 DEF InferenceNext, ClientStep, Leaves, Stays

LEMMA EnabledStep ==
  ASSUME TypeOK, ClientTypeOK, StageInv, FileInv, EnabledInv, [InferenceNext]_allVars
  PROVE  EnabledInv'
<1>1. ASSUME UNCHANGED <<pc, stage, result, gen, live, file, mask>> PROVE EnabledInv'
  <2>1. \A s \in Source : OwnFile(s)' = OwnFile(s)
    BY <1>1 DEF OwnFile
  <2> QED  BY <1>1, <2>1 DEF EnabledInv, Leaving
<1>2. CASE Leaves
  BY <1>2, LeavesHandle DEF EnabledInv
<1>3. CASE Stays
  <2>1. \A s \in Source : OwnFile(s)' = OwnFile(s)
    BY <1>3, StaysOpen DEF OwnFile
  <2> QED  BY <1>3, <2>1, StaysOpen DEF EnabledInv, Leaving
<1>4. CASE InitMaps \/ \E s \in Source : InitOpens(s)
  <2>1. pc' \in {"failed", "mask", "open", "enable"}
    BY <1>4 DEF InitMaps, InitOpens, Goto
  <2> QED  BY <2>1 DEF EnabledInv, InHandle
<1>5. CASE DriverStep
  BY <1>5, DriverKeepsOwn DEF EnabledInv
<1>6. CASE \/ WaitBegins \/ WaitInterrupted \/ DmaDone \/ JobDone \/ HandlerRuns
           \/ UNCHANGED allVars
  <2>1. pc' = pc
    BY <1>6 DEF WaitBegins, WaitInterrupted, DmaDone, JobDone, HandlerRuns, allVars, mainVars
  <2>2. UNCHANGED <<stage, result, gen, live, file, mask>>
    BY <1>6
    DEF WaitBegins, WaitInterrupted, ReadBegins, ReadInterrupted, DmaDone, JobDone, Complete,
        HandlerRuns, HandlerStep, HandlerReads, HandlerCounts, allVars, driverVars, userVars,
        probeVars, deviceVars
  <2> QED  BY <1>1, <2>1, <2>2
<1> QED  BY <1>2, <1>3, <1>4, <1>5, <1>6 DEF InferenceNext, ClientStep, Leaves, Stays

LEMMA OwedStep ==
  ASSUME TypeOK, ClientTypeOK, StageInv, FileInv, HandlerInv, OwedInv, [InferenceNext]_allVars
  PROVE  OwedInv'
<1> SUFFICES ASSUME NEW k \in Source, WaitsFor(k)', OwnFile(k)'
             PROVE  OnTheWay(k)'
  BY DEF OwedInv
<1>w. pc' \in {"dma wait", "job wait"}
  BY DEF WaitsFor
<1>1. ~Between
  BY <1>w, BetweenKeeps
<1>2. ~(WaitFails \/ BlockSent \/ JobWaited)
  BY <1>w DEF WaitFails, BlockSent, JobWaited, Goto
<1>3. CASE SendBlock
  <2>1. pc' = "dma wait" /\ k = "dma" /\ (dma' = Sending \/ (dma # "none" /\ dma' = dma))
    BY <1>3, <1>w, Wanted DEF SendBlock
  <2>2. Sending # "none"
    BY DEF Sending
  <2> QED  BY <2>1, <2>2 DEF OnTheWay, Works
<1>4. CASE StartJob
  <2>1. pc' = "job wait" /\ k = "job" /\ (job' = input \/ (job # Idle /\ job' = job))
    BY <1>4, Wanted DEF StartJob
  <2>2. input # Idle
    BY Values DEF ClientTypeOK
  <2> QED  BY <2>1, <2>2 DEF OnTheWay, Works
<1>5. CASE WaitBegins \/ WaitInterrupted \/ UNCHANGED allVars
  <2>1. UNCHANGED <<pc, dma, job>>
    BY <1>5 DEF WaitBegins, WaitInterrupted, mainVars, engineVars, allVars
  <2>2. UNCHANGED <<live, gen, file, status, taken, count>>
    BY <1>5 DEF WaitBegins, WaitInterrupted, ReadBegins, ReadInterrupted, allVars, driverVars,
                probeVars, deviceVars, isrVars, userVars
  <2>3. OnTheWay(k)
    BY <2>1, <2>2 DEF OwedInv, WaitsFor, OwnFile
  <2> QED  BY <2>1, <2>2, <2>3 DEF OnTheWay, Works, InHandler
<1>6. CASE DmaDone \/ JobDone
  <2>1. /\ UNCHANGED <<pc, live, gen, file, taken, count>> /\ status \subseteq status'
        /\ \/ dma' = dma \/ "dma" \in status'
        /\ \/ job' = job \/ "job" \in status'
    BY <1>6 DEF DmaDone, JobDone, Complete, mainVars, probeVars, isrVars, userVars
  <2>2. OnTheWay(k)
    BY <2>1 DEF OwedInv, WaitsFor, OwnFile
  <2>3. Works(k) => Works(k)' \/ k \in status'
    BY <2>1 DEF Works
  <2> QED  BY <2>1, <2>2, <2>3 DEF OnTheWay, InHandler
<1>7. CASE DriverStep
  <2>1. OwnFile(k) /\ count' = count /\ UNCHANGED <<pc, status, taken, dma, job>>
    BY <1>7, DriverKeepsOwn
  <2>2. OnTheWay(k)
    BY <2>1 DEF OwedInv, WaitsFor
  <2> QED  BY <2>1, <2>2 DEF OnTheWay, Works, InHandler
<1>8. CASE HandlerRuns
  <2>1. UNCHANGED <<pc, dma, job, live, gen, file>>
    BY <1>8 DEF HandlerRuns, HandlerStep, HandlerReads, HandlerCounts, mainVars, engineVars,
                probeVars, userVars
  <2>2. OnTheWay(k) /\ Works(k)' = Works(k)
    BY <2>1 DEF OwedInv, WaitsFor, OwnFile, Works
  <2>3. ASSUME NEW s \in Source, HandlerReads(s) PROVE OnTheWay(k)'
    <3>1. taken' = [taken EXCEPT ![s] = status] /\ count' = count /\ taken[s] = {}
      BY <2>3 DEF HandlerReads, HandlerInv, TypeOK
    <3>2. k \in status => InHandler(k)'
      BY <3>1 DEF InHandler, TypeOK
    <3>3. InHandler(k) => InHandler(k)'
      BY <3>1 DEF InHandler, TypeOK
    <3> QED  BY <2>2, <3>1, <3>2, <3>3 DEF OnTheWay
  <2>4. ASSUME NEW s \in Source, HandlerCounts(s) PROVE OnTheWay(k)'
    <3>1. /\ taken' = [taken EXCEPT ![s] = {}] /\ status' = status
          /\ count'[k] = IF k \in taken[s] THEN Bump(count[k]) ELSE count[k]
          /\ count[k] \in 0 .. Many
      BY <2>4 DEF HandlerCounts, TypeOK, deviceVars
    <3>2. InHandler(k) => InHandler(k)' \/ k \in taken[s]
      BY <3>1 DEF InHandler, TypeOK
    <3>3. k \in taken[s] \/ count[k] # 0 => count'[k] # 0
      BY <3>1 DEF Bump, Many
    <3> QED  BY <2>2, <3>1, <3>2, <3>3 DEF OnTheWay
  <2> QED  BY <1>8, <2>3, <2>4 DEF HandlerRuns, HandlerStep
<1> QED
  BY <1>1, <1>2, <1>3, <1>4, <1>5, <1>6, <1>7, <1>8 DEF InferenceNext, ClientStep, Between

LEMMA WaitInvariant == InferenceSpec => []WaitInv
<1>1. InferenceInit => WaitInv
  <2> SUFFICES ASSUME InferenceInit PROVE WaitInv
    OBVIOUS
  <2>1. pc = "exited"
    BY DEF InferenceInit
  <2> QED  BY <2>1 DEF WaitInv, OpenInv, OwedInv, EnabledInv, InHandle, WaitsFor
<1>2. InferenceSpec => []TypeOK
  BY ProgramIsUser, LifecycleTypeCorrect, PTL
<1>3. InferenceSpec => [](StageInv /\ FileInv)
  BY ProgramIsUser, StageInvariant, FileInvariant, PTL
<1>4. /\ TypeOK /\ ClientTypeOK /\ StageInv /\ FileInv /\ ControlInv /\ HandlerInv /\ WaitInv
      /\ [InferenceNext]_allVars
      => WaitInv'
  BY OpenStep, OwedStep, EnabledStep DEF WaitInv
<1> QED
  BY <1>1, <1>2, <1>3, <1>4, ClientTypeInvariant, ControlInvariant, DevicesInvariant, PTL
  DEF InferenceSpec

\* A program whose driver is bound never waits for nothing: the transfer or the
\* job it waits for is at work, or its interrupt is pending with the interrupts
\* enabled and its line requested, or a handler has taken it, or it is counted
\* in the sc_dev the program reads.  That holds though the driver may have been
\* removed and probed again, and reads interrupted, any number of times.
THEOREM WaitIsOwed == InferenceSpec => []CompletionOwed
<1>1. /\ TypeOK /\ StageInv /\ ControlInv /\ WaitInv => CompletionOwed
  <2> SUFFICES ASSUME TypeOK, StageInv, ControlInv, WaitInv, Attached,
                      NEW k \in Source, WaitsFor(k)
               PROVE  /\ OwnFile(k) /\ rd[client] \in {"none", k}
                      /\ \/ Works(k)
                         \/ k \in status /\ mask /\ k \in irqs
                         \/ InHandler(k)
                         \/ Counted(k)
    BY DEF CompletionOwed
  <2>1. pc \in InHandle \ {"open", "enable"}
    BY DEF WaitsFor, InHandle
  <2>2. file[client][k] # 0
    BY <2>1 DEF WaitInv, OpenInv, Opened
  <2>3. OwnFile(k)
    BY <2>2 DEF Attached, Stale, OwnFile
  <2>4. rd[client] \in {"none", k}
    BY Waiting, Wanted DEF ControlInv
  <2>5. stage = "bound" /\ irqs = Source
    BY DEF Attached, StageInv
  <2>6. mask
    BY <2>1, <2>3, <2>5 DEF WaitInv, EnabledInv, Leaving
  <2>7. OnTheWay(k) /\ live
    BY <2>3 DEF WaitInv, OwedInv, OwnFile
  <2> QED  BY <2>3, <2>4, <2>5, <2>6, <2>7 DEF OnTheWay, Counted
<1>2. InferenceSpec => []TypeOK
  BY ProgramIsUser, LifecycleTypeCorrect, PTL
<1>3. InferenceSpec => []StageInv
  BY ProgramIsUser, StageInvariant, PTL
<1> QED  BY <1>1, <1>2, <1>3, ControlInvariant, WaitInvariant, PTL

-----------------------------------------------------------------------------
(* A program runs down to its exit.                                        *)

SetupLeft == 13 * (MaxSetups - setups) + 4 * MaxIters
LoopLeft  == 4 * (MaxIters - it)
ToSend    == IF sent = {} THEN 2 ELSE 1
ToOpen    == IF Opened = {} THEN 3 ELSE IF Opened = Before["ctrl"] THEN 2 ELSE 1
ToAfter   == IF after = "init" THEN SetupLeft + 17 ELSE IF after = "out" THEN 4 ELSE 1

\* A bound on the steps main() still takes, where beginning to wait is none.
StepsToExit ==
    CASE pc = "exited"                 -> 0
      [] pc \in {"free", "failed"}     -> 1
      [] pc = "close"                  -> ToAfter + 1
      [] pc = "mask"                   -> ToAfter + 2
      [] pc = "out"                    -> 4
      [] pc = "argmax"                 -> LoopLeft + 2
      [] pc = "job wait"               -> LoopLeft + 3
      [] pc = "start"                  -> LoopLeft + 4
      [] pc = "quantize"               -> LoopLeft + 5
      [] pc = "ready"                  -> SetupLeft + 7
      [] pc = "dma wait"               -> SetupLeft + 6 + 2 * ToSend
      [] pc = "dma"                    -> SetupLeft + 7 + 2 * ToSend
      [] pc = "phys"                   -> SetupLeft + 12
      [] pc = "enable"                 -> SetupLeft + 13
      [] pc = "open"                   -> SetupLeft + 13 + ToOpen
      [] pc = "init"                   -> SetupLeft + 17
      [] pc = "load"                   -> SetupLeft + 18
      [] pc = "alloc"                  -> SetupLeft + 19

ExitBounded ==
    /\ StepsToExit \in 0 .. 13 * MaxSetups + 4 * MaxIters + 19
    /\ StepsToExit = 0 <=> pc = "exited"

\* While the program runs, no step leads away from its exit, and every step of
\* main() towards it, except that a wait that begins changes nothing.
RunsDown ==
    pc # "exited" =>
        /\ StepsToExit' <= StepsToExit
        /\ ClientStep => WaitBegins \/ StepsToExit' < StepsToExit

LEMMA CountsLeft ==
  ASSUME ClientTypeOK
  PROVE  /\ SetupLeft \in Nat /\ SetupLeft >= 4 * MaxIters /\ LoopLeft \in 0 .. 4 * MaxIters
         /\ SetupLeft <= 13 * MaxSetups + 4 * MaxIters
         /\ setups < MaxSetups => SetupLeft >= 13 + 4 * MaxIters
         /\ ToSend \in 1 .. 2 /\ ToOpen \in 1 .. 3
         /\ ToAfter \in 1 .. SetupLeft + 17
<1>1. /\ setups \in Nat /\ it \in Nat /\ MaxSetups \in Nat /\ MaxIters \in Nat
      /\ setups <= MaxSetups /\ it <= MaxIters
  BY Values DEF ClientTypeOK
<1>2. /\ SetupLeft \in Nat /\ SetupLeft >= 4 * MaxIters /\ LoopLeft \in 0 .. 4 * MaxIters
      /\ SetupLeft <= 13 * MaxSetups + 4 * MaxIters
      /\ setups < MaxSetups => SetupLeft >= 13 + 4 * MaxIters
  BY <1>1 DEF SetupLeft, LoopLeft
<1>3. ToSend \in 1 .. 2 /\ ToOpen \in 1 .. 3
  BY DEF ToSend, ToOpen
<1>4. ToAfter \in 1 .. SetupLeft + 17
  BY <1>2 DEF ToAfter
<1> QED  BY <1>2, <1>3, <1>4

\* Within a round of the loop there is a round to go.
LEMMA ToNext ==
  ASSUME ClientTypeOK, LoopInv, pc \in {"start", "job wait", "argmax"}
  PROVE  LoopLeft >= 4
<1>1. MaxIters \in Nat
  BY Values
<1>2. it \in 0 .. MaxIters
  BY DEF ClientTypeOK
<1>3. it < MaxIters
  BY DEF LoopInv
<1>4. 4 * (MaxIters - it) >= 4
  BY ONLY <1>1, <1>2, <1>3
<1> QED  BY ONLY <1>4 DEF LoopLeft

LEMMA StepsAt ==
    /\ pc = "exited" => StepsToExit = 0
    /\ pc = "free" => StepsToExit = 1
    /\ pc = "failed" => StepsToExit = 1
    /\ pc = "close" => StepsToExit = ToAfter + 1
    /\ pc = "mask" => StepsToExit = ToAfter + 2
    /\ pc = "out" => StepsToExit = 4
    /\ pc = "argmax" => StepsToExit = LoopLeft + 2
    /\ pc = "job wait" => StepsToExit = LoopLeft + 3
    /\ pc = "start" => StepsToExit = LoopLeft + 4
    /\ pc = "quantize" => StepsToExit = LoopLeft + 5
    /\ pc = "ready" => StepsToExit = SetupLeft + 7
    /\ pc = "dma wait" => StepsToExit = SetupLeft + 6 + 2 * ToSend
    /\ pc = "dma" => StepsToExit = SetupLeft + 7 + 2 * ToSend
    /\ pc = "phys" => StepsToExit = SetupLeft + 12
    /\ pc = "enable" => StepsToExit = SetupLeft + 13
    /\ pc = "open" => StepsToExit = SetupLeft + 13 + ToOpen
    /\ pc = "init" => StepsToExit = SetupLeft + 17
    /\ pc = "load" => StepsToExit = SetupLeft + 18
    /\ pc = "alloc" => StepsToExit = SetupLeft + 19
BY DEF StepsToExit

LEMMA StepsThen == (
    /\ pc = "exited" => StepsToExit = 0
    /\ pc = "free" => StepsToExit = 1
    /\ pc = "failed" => StepsToExit = 1
    /\ pc = "close" => StepsToExit = ToAfter + 1
    /\ pc = "mask" => StepsToExit = ToAfter + 2
    /\ pc = "out" => StepsToExit = 4
    /\ pc = "argmax" => StepsToExit = LoopLeft + 2
    /\ pc = "job wait" => StepsToExit = LoopLeft + 3
    /\ pc = "start" => StepsToExit = LoopLeft + 4
    /\ pc = "quantize" => StepsToExit = LoopLeft + 5
    /\ pc = "ready" => StepsToExit = SetupLeft + 7
    /\ pc = "dma wait" => StepsToExit = SetupLeft + 6 + 2 * ToSend
    /\ pc = "dma" => StepsToExit = SetupLeft + 7 + 2 * ToSend
    /\ pc = "phys" => StepsToExit = SetupLeft + 12
    /\ pc = "enable" => StepsToExit = SetupLeft + 13
    /\ pc = "open" => StepsToExit = SetupLeft + 13 + ToOpen
    /\ pc = "init" => StepsToExit = SetupLeft + 17
    /\ pc = "load" => StepsToExit = SetupLeft + 18
    /\ pc = "alloc" => StepsToExit = SetupLeft + 19 )'
BY DEF StepsToExit

LEMMA ExitIsBounded == ClientTypeOK => ExitBounded
<1> SUFFICES ASSUME ClientTypeOK PROVE ExitBounded
  OBVIOUS
<1> DEFINE N == 13 * MaxSetups + 4 * MaxIters
<1>1. /\ N \in Nat /\ SetupLeft \in 0 .. N /\ LoopLeft \in 0 .. N
      /\ ToSend \in 1 .. 2 /\ ToOpen \in 1 .. 3 /\ ToAfter \in 1 .. N + 17
  BY Values, CountsLeft
<1> HIDE DEF N
<1> SUFFICES StepsToExit \in 0 .. N + 19 /\ (pc # "exited" => StepsToExit \in 1 .. N + 19)
  <2>1. pc = "exited" => StepsToExit = 0
    BY StepsAt
  <2> QED  BY <2>1 DEF ExitBounded, N
<1>2. CASE pc = "exited"
  <2>1. StepsToExit = 0
    BY <1>2, StepsAt
  <2> QED  BY <1>1, <1>2, <2>1
<1>3. CASE pc \in {"free", "failed", "out"}
  <2>1. StepsToExit \in {1, 4}
    BY <1>3, StepsAt
  <2>2. StepsToExit \in 1 .. N + 19
    BY ONLY <1>1, <2>1
  <2> QED  BY ONLY <1>1, <2>2
<1>4. CASE pc \in {"close", "mask"}
  <2>1. StepsToExit \in {ToAfter + 1, ToAfter + 2}
    BY <1>4, StepsAt
  <2>2. StepsToExit \in 1 .. N + 19
    BY ONLY <1>1, <2>1
  <2> QED  BY ONLY <1>1, <2>2
<1>5. CASE pc \in {"argmax", "job wait", "start", "quantize"}
  <2>1. StepsToExit \in {LoopLeft + 2, LoopLeft + 3, LoopLeft + 4, LoopLeft + 5}
    BY <1>5, StepsAt
  <2>2. StepsToExit \in 1 .. N + 19
    BY ONLY <1>1, <2>1
  <2> QED  BY ONLY <1>1, <2>2
<1>6. CASE pc \in {"ready", "phys", "enable"}
  <2>1. StepsToExit \in {SetupLeft + 7, SetupLeft + 12, SetupLeft + 13}
    BY <1>6, StepsAt
  <2>2. StepsToExit \in 1 .. N + 19
    BY ONLY <1>1, <2>1
  <2> QED  BY ONLY <1>1, <2>2
<1>7. CASE pc \in {"dma wait", "dma"}
  <2>1. StepsToExit \in {SetupLeft + 6 + 2 * ToSend, SetupLeft + 7 + 2 * ToSend}
    BY <1>7, StepsAt
  <2>2. StepsToExit \in 1 .. N + 19
    BY ONLY <1>1, <2>1
  <2> QED  BY ONLY <1>1, <2>2
<1>8. CASE pc \in {"open", "init", "load", "alloc"}
  <2>1. StepsToExit \in {SetupLeft + 13 + ToOpen, SetupLeft + 17, SetupLeft + 18, SetupLeft + 19}
    BY <1>8, StepsAt
  <2>2. StepsToExit \in 1 .. N + 19
    BY ONLY <1>1, <2>1
  <2> QED  BY ONLY <1>1, <2>2
<1> QED  BY <1>1, <1>2, <1>3, <1>4, <1>5, <1>6, <1>7, <1>8 DEF ClientTypeOK, Place

\* Steps that main() takes no part in.
LEMMA StepsKept ==
  ASSUME UNCHANGED <<pc, after, it, setups, sent, file>>
  PROVE  StepsToExit' = StepsToExit
BY DEF StepsToExit, SetupLeft, LoopLeft, ToSend, ToOpen, ToAfter, Opened

LEMMA BeginDescends ==
  ASSUME ClientTypeOK, Allocate \/ Load \/ InitMaps \/ InitFailed
  PROVE  StepsToExit' < StepsToExit
<1>1. CASE pc' = "exited" /\ pc # "exited"
  BY <1>1, StepsThen, ExitIsBounded DEF ExitBounded
<1>2. CASE Allocate /\ pc' # "exited"
  <2>1. pc = "alloc" /\ pc' \in {"load", "out"} /\ SetupLeft' = SetupLeft
    BY <1>2 DEF Allocate, Exit, Goto, locals, SetupLeft
  <2>2. StepsToExit = SetupLeft + 19 /\ StepsToExit' \in {SetupLeft + 18, 4}
    BY <2>1, StepsAt, StepsThen
  <2>3. SetupLeft \in Nat
    BY CountsLeft
  <2> QED  BY ONLY <2>2, <2>3
<1>3. CASE Load /\ pc' # "exited"
  <2>1. pc = "load" /\ pc' \in {"init", "out"} /\ SetupLeft' = SetupLeft
    BY <1>3 DEF Load, Exit, Goto, SetupLeft
  <2>2. StepsToExit = SetupLeft + 18 /\ StepsToExit' \in {SetupLeft + 17, 4}
    BY <2>1, StepsAt, StepsThen
  <2>3. SetupLeft \in Nat
    BY CountsLeft
  <2> QED  BY ONLY <2>2, <2>3
<1>4. CASE InitMaps
  <2>1. pc = "init" /\ SetupLeft' = SetupLeft /\ SetupLeft \in Nat
    BY <1>4, CountsLeft DEF InitMaps, SetupLeft
  <2>2. StepsToExit = SetupLeft + 17
    BY <2>1, StepsAt
  <2>3. CASE pc' = "failed"
    <3>1. StepsToExit' = 1
      BY <2>3, StepsThen
    <3> QED  BY ONLY <2>1, <2>2, <3>1
  <2>4. CASE pc' = "mask" /\ after' = "failed"
    <3>1. StepsToExit' = ToAfter' + 2 /\ ToAfter' = 1
      BY <2>4, StepsThen DEF ToAfter
    <3> QED  BY ONLY <2>1, <2>2, <3>1
  <2>5. CASE pc' = "open"
    <3>1. StepsToExit' = SetupLeft + 13 + ToOpen'
      BY <2>1, <2>5, StepsThen
    <3>2. ToOpen' = 1 \/ ToOpen' = 2 \/ ToOpen' = 3
      BY DEF ToOpen
    <3>3. SetupLeft \in Nat
      BY <2>1
    <3> QED  BY ONLY <2>2, <3>1, <3>2, <3>3
  <2> QED  BY <1>4, <2>3, <2>4, <2>5 DEF InitMaps, Goto
<1>5. InitFailed => pc = "failed" /\ pc' = "exited"
  BY DEF InitFailed, Exit
<1>6. Allocate \/ Load => pc # "exited"
  BY DEF Allocate, Load
<1> QED  BY <1>1, <1>2, <1>3, <1>4, <1>5, <1>6

LEMMA HandleDescends ==
  ASSUME TypeOK, ClientTypeOK, LoopInv, FileInv,
         (\E s \in Source : InitOpens(s)) \/ InitEnables \/ CloseMasks \/ CloseReleases
  PROVE  StepsToExit' < StepsToExit
<1>1. ASSUME NEW s \in Source, InitOpens(s) PROVE StepsToExit' < StepsToExit
  <2>1. pc = "open" /\ SetupLeft' = SetupLeft /\ Opened = Before[s]
    BY <1>1 DEF InitOpens, SetupLeft
  <2>2. CASE pc' = "mask" /\ after' = "failed"
    <3>1. ToAfter' = 1
      BY <2>2 DEF ToAfter
    <3> QED  BY <2>1, <2>2, <3>1, StepsAt, StepsThen, CountsLeft
  <2>3. CASE Open(client, s) /\ pc' = IF s = "job" THEN "enable" ELSE "open"
    <3>1. gen # 0
      BY <2>3 DEF Open, FileInv
    <3>2. Opened' = Opened \cup {s}
      BY <2>3, <3>1, ClientIsUser DEF Open, Opened, TypeOK
    <3>3. CASE s = "job"
      BY <2>1, <2>3, <3>3, StepsAt, StepsThen, CountsLeft
    <3>4. CASE s = "dma"
      <4>1. Opened = {} /\ Opened' = {"dma"} /\ Before["ctrl"] = {"dma"}
        BY <2>1, <3>2, <3>4 DEF Before
      <4>2. ToOpen = 3 /\ ToOpen' = 2
        BY <4>1 DEF ToOpen
      <4> QED  BY <2>1, <2>3, <3>4, <4>2, StepsAt, StepsThen, CountsLeft
    <3>5. CASE s = "ctrl"
      <4>1. Opened = {"dma"} /\ Opened' = {"dma", "ctrl"} /\ Before["ctrl"] = {"dma"}
        BY <2>1, <3>2, <3>5 DEF Before
      <4>2. ToOpen = 2 /\ ToOpen' = 1
        BY <4>1 DEF ToOpen
      <4> QED  BY <2>1, <2>3, <3>5, <4>2, StepsAt, StepsThen, CountsLeft
    <3> QED  BY <3>3, <3>4, <3>5 DEF Source
  <2> QED  BY <1>1, <2>2, <2>3 DEF InitOpens, Goto
<1>2. CASE InitEnables
  <2>1. pc = "enable" /\ pc' = "phys" /\ SetupLeft' = SetupLeft
    BY <1>2 DEF InitEnables, Goto, SetupLeft
  <2> QED  BY <2>1, StepsAt, StepsThen, CountsLeft
<1>3. CASE CloseMasks
  <2>1. pc = "mask" /\ pc' = "close" /\ ToAfter' = ToAfter
    BY <1>3 DEF CloseMasks, Goto, ToAfter, SetupLeft
  <2> QED  BY <2>1, StepsAt, StepsThen, CountsLeft
<1>4. CASE CloseReleases
  <2>1. pc = "close" /\ pc' = after /\ SetupLeft' = SetupLeft
    BY <1>4 DEF CloseReleases, Goto, SetupLeft
  <2>2. CASE after = "init"
    BY <2>1, <2>2, StepsAt, StepsThen, CountsLeft DEF ToAfter
  <2>3. CASE after \in {"failed", "free"}
    <3>1. ToAfter = 1 /\ StepsToExit = ToAfter + 1 /\ StepsToExit' = 1
      BY <2>1, <2>3, StepsAt, StepsThen DEF ToAfter
    <3> QED  BY <3>1
  <2>4. CASE after = "out"
    BY <2>1, <2>4, StepsAt, StepsThen, CountsLeft DEF ToAfter
  <2>5. after # "none"
    BY <2>1 DEF LoopInv, Closing
  <2> QED  BY <2>2, <2>3, <2>4, <2>5 DEF ClientTypeOK
<1> QED  BY <1>1, <1>2, <1>3, <1>4

LEMMA SetupDescends ==
  ASSUME TypeOK, ClientTypeOK, LoopInv, ControlInv,
         Configure \/ SendBlock \/ BlockSent \/ SetupDone
  PROVE  StepsToExit' < StepsToExit
<1>1. SetupLeft \in Nat /\ SetupLeft >= 4 * MaxIters /\ ToSend \in 1 .. 2
  BY CountsLeft
<1>2. CASE Configure
  <2>1. /\ pc = "phys" /\ pc' \in {"dma", "out"} /\ SetupLeft' = SetupLeft
        /\ ToSend' = 1 \/ ToSend' = 2
    BY <1>2 DEF Configure, Goto, SetupLeft, ToSend
  <2>2. StepsToExit = SetupLeft + 12
    BY <2>1, StepsAt
  <2>3. StepsToExit' = SetupLeft + 7 + 2 * ToSend' \/ StepsToExit' = 4
    BY <2>1, StepsThen
  <2>4. SetupLeft \in Nat
    BY <1>1
  <2>5. ToSend' = 1 \/ ToSend' = 2
    BY <2>1
  <2> QED  BY ONLY <2>2, <2>3, <2>4, <2>5
<1>3. CASE SendBlock
  <2>1. /\ pc = "dma" /\ pc' \in {"dma wait", "out"} /\ SetupLeft' = SetupLeft
        /\ ToSend' = ToSend
    BY <1>3 DEF SendBlock, SetupLeft, ToSend
  <2>2. StepsToExit = SetupLeft + 7 + 2 * ToSend
    BY <2>1, StepsAt
  <2>3. StepsToExit' = SetupLeft + 6 + 2 * ToSend \/ StepsToExit' = 4
    BY <2>1, StepsThen
  <2> QED  BY ONLY <1>1, <2>2, <2>3
<1>4. CASE BlockSent
  <2>1. /\ pc = "dma wait" /\ sent' = sent \cup {Sending} /\ SetupLeft' = SetupLeft
        /\ pc' = IF sent' = Block THEN "ready" ELSE "dma"
    BY <1>4 DEF BlockSent, Goto, SetupLeft
  <2>2. StepsToExit = SetupLeft + 6 + 2 * ToSend
    BY <2>1, StepsAt
  <2>3. sent \in {{}, {"W"}}
    BY <2>1 DEF ControlInv, SentInv
  <2>4. CASE pc' = "ready"
    <3>1. StepsToExit' = SetupLeft + 7
      BY <2>1, <2>4, StepsThen
    <3> QED  BY ONLY <1>1, <2>2, <3>1
  <2>5. CASE pc' = "dma"
    <3>1. sent = {}
      BY <2>1, <2>3, <2>5, SendingInOrder
    <3>2. ToSend = 2 /\ ToSend' = 1
      BY <2>1, <3>1 DEF ToSend
    <3>3. StepsToExit' = SetupLeft + 7 + 2 * ToSend'
      BY <2>1, <2>5, StepsThen
    <3> QED  BY ONLY <1>1, <2>2, <3>2, <3>3
  <2> QED  BY <2>1, <2>4, <2>5
<1>5. CASE SetupDone
  <2>1. pc = "ready" /\ StepsToExit = SetupLeft + 7
    BY <1>5, StepsAt DEF SetupDone
  <2>2. CASE pc' = "quantize" /\ it' = it
    <3>1. LoopLeft' = LoopLeft /\ StepsToExit' = LoopLeft' + 5
      BY <2>2, StepsThen DEF LoopLeft
    <3>2. LoopLeft \in 0 .. 4 * MaxIters /\ MaxIters \in Nat
      BY CountsLeft, Values
    <3> QED  BY ONLY <1>1, <2>1, <3>1, <3>2
  <2>3. CASE pc' = "mask" /\ after' = "out"
    <3>1. ToAfter' = 4 /\ StepsToExit' = ToAfter' + 2
      BY <2>3, StepsThen DEF ToAfter
    <3> QED  BY ONLY <1>1, <2>1, <3>1
  <2>4. CASE pc' = "mask" /\ after' = "init" /\ setups' = setups + 1
    <3>1. ToAfter' = SetupLeft' + 17 /\ StepsToExit' = ToAfter' + 2
      BY <2>4, StepsThen DEF ToAfter
    <3>2. setups \in Nat /\ MaxSetups \in Nat /\ MaxIters \in Nat
      BY Values DEF ClientTypeOK
    <3>3. SetupLeft' = SetupLeft - 13
      BY <2>4, <3>2 DEF SetupLeft
    <3> QED  BY ONLY <1>1, <2>1, <3>1, <3>3
  <2> QED  BY <1>5, <2>2, <2>3, <2>4 DEF SetupDone, Goto
<1> QED  BY <1>2, <1>3, <1>4, <1>5

LEMMA WaitFailsDescends ==
  ASSUME TypeOK, ClientTypeOK, LoopInv, ControlInv, WaitFails
  PROVE  StepsToExit' < StepsToExit
<1>1. pc' = "out" /\ pc \in {"dma wait", "job wait"}
  BY Waiting DEF WaitFails, ReadReturns, Goto, ControlInv
<1>2. StepsToExit' = 4
  BY <1>1, StepsThen
<1>3. SetupLeft \in Nat /\ ToSend \in 1 .. 2
  BY CountsLeft
<1>4. CASE pc = "dma wait"
  <2>1. StepsToExit = SetupLeft + 6 + 2 * ToSend
    BY <1>4, StepsAt
  <2> QED  BY ONLY <1>2, <1>3, <2>1
<1>5. CASE pc = "job wait"
  <2>1. StepsToExit = LoopLeft + 3 /\ LoopLeft >= 4
    BY <1>5, StepsAt, ToNext
  <2>2. LoopLeft \in Nat
    BY CountsLeft, Values
  <2> QED  BY ONLY <1>2, <2>1, <2>2
<1> QED  BY <1>1, <1>4, <1>5

LEMMA LoopDescends ==
  ASSUME ClientTypeOK, LoopInv,
         Quantize \/ QuantizeCrashes \/ StartJob \/ JobWaited \/ Argmax
  PROVE  StepsToExit' < StepsToExit
<1>1. LoopLeft \in Nat
  <2>1. LoopLeft \in 0 .. 4 * MaxIters /\ MaxIters \in Nat
    BY CountsLeft, Values
  <2> QED  BY ONLY <2>1
<1>2. CASE Quantize
  <2>1. pc = "quantize" /\ pc' \in {"start", "out"} /\ LoopLeft' = LoopLeft
    BY <1>2 DEF Quantize, Goto, LoopLeft
  <2>2. StepsToExit = LoopLeft + 5
    BY <2>1, StepsAt
  <2>3. StepsToExit' = LoopLeft + 4 \/ StepsToExit' = 4
    BY <2>1, StepsThen
  <2> QED  BY ONLY <1>1, <2>2, <2>3
<1>3. CASE QuantizeCrashes
  <2>1. pc = "quantize" /\ pc' = "exited"
    BY <1>3 DEF QuantizeCrashes, Exit
  <2>2. StepsToExit = LoopLeft + 5 /\ StepsToExit' = 0
    BY <2>1, StepsAt, StepsThen
  <2> QED  BY ONLY <1>1, <2>2
<1>4. CASE StartJob
  <2>1. pc = "start" /\ pc' = "job wait" /\ LoopLeft' = LoopLeft
    BY <1>4 DEF StartJob, LoopLeft
  <2>2. StepsToExit = LoopLeft + 4 /\ StepsToExit' = LoopLeft + 3
    BY <2>1, StepsAt, StepsThen
  <2> QED  BY ONLY <1>1, <2>2
<1>5. CASE JobWaited
  <2>1. pc = "job wait" /\ pc' = "argmax" /\ LoopLeft' = LoopLeft
    BY <1>5 DEF JobWaited, Goto, LoopLeft
  <2>2. StepsToExit = LoopLeft + 3 /\ StepsToExit' = LoopLeft + 2
    BY <2>1, StepsAt, StepsThen
  <2> QED  BY ONLY <1>1, <2>2
<1>6. CASE Argmax
  <2>1. pc = "argmax" /\ pc' = "quantize" /\ it' = it + 1
    BY <1>6 DEF Argmax, Goto
  <2>2. it \in Nat /\ MaxIters \in Nat
    BY Values DEF ClientTypeOK
  <2>3. LoopLeft' = LoopLeft - 4
    BY <2>1, <2>2 DEF LoopLeft
  <2>4. StepsToExit = LoopLeft + 2 /\ StepsToExit' = LoopLeft' + 5
    BY <2>1, StepsAt, StepsThen
  <2> QED  BY ONLY <1>1, <2>3, <2>4
<1> QED  BY <1>2, <1>3, <1>4, <1>5, <1>6

LEMMA EndDescends ==
  ASSUME ClientTypeOK, Out \/ OutCrashes \/ Free
  PROVE  StepsToExit' < StepsToExit
<1>1. CASE Out
  <2>1. pc = "out" /\ StepsToExit = 4
    BY <1>1, StepsAt DEF Out
  <2>2. CASE pc' = "mask" /\ after' = "free"
    <3>1. StepsToExit' = ToAfter' + 2 /\ ToAfter' = 1
      BY <2>2, StepsThen DEF ToAfter
    <3> QED  BY <2>1, <3>1
  <2>3. CASE pc' = "free"
    BY <2>1, <2>3, StepsThen
  <2> QED  BY <1>1, <2>2, <2>3 DEF Out, Goto
<1>2. CASE OutCrashes \/ Free
  <2>1. pc \in {"out", "free"} /\ pc' = "exited"
    BY <1>2 DEF OutCrashes, Free, Exit
  <2>2. StepsToExit = 4 \/ StepsToExit = 1
    BY <2>1, StepsAt
  <2>3. StepsToExit' = 0
    BY <2>1, StepsThen
  <2> QED  BY ONLY <2>2, <2>3
<1> QED  BY <1>1, <1>2

LEMMA ExitIsBoundedThen == ClientTypeOK' => ExitBounded'
BY ExitIsBounded, PTL

LEMMA RunsDownStep ==
  ASSUME TypeOK, ClientTypeOK, ClientTypeOK', LoopInv, FileInv, StageInv, ControlInv, [InferenceNext]_allVars
  PROVE  [RunsDown]_allVars
<1> SUFFICES ASSUME InferenceNext, pc # "exited"
             PROVE  /\ StepsToExit' <= StepsToExit
                    /\ ClientStep => WaitBegins \/ StepsToExit' < StepsToExit
  BY DEF RunsDown
<1>1. StepsToExit \in Int /\ StepsToExit' \in Int
  <2>1. MaxSetups \in Nat /\ MaxIters \in Nat
    BY Values
  <2>2. /\ StepsToExit \in 0 .. 13 * MaxSetups + 4 * MaxIters + 19
        /\ StepsToExit' \in 0 .. 13 * MaxSetups + 4 * MaxIters + 19
    BY ExitIsBounded, ExitIsBoundedThen DEF ExitBounded
  <2> QED  BY ONLY <2>1, <2>2
<1>2. ClientStep => WaitBegins \/ StepsToExit' < StepsToExit
  BY BeginDescends, HandleDescends, SetupDescends, WaitFailsDescends, LoopDescends, EndDescends
  DEF ClientStep
<1>3. CASE WaitBegins \/ WaitInterrupted \/ DmaDone \/ JobDone \/ DriverStep \/ HandlerRuns
  <2>1. file' = file
    BY <1>3, DriverKeepsOwn
    DEF WaitBegins, WaitInterrupted, ReadBegins, ReadInterrupted, DmaDone, JobDone, Complete,
        HandlerRuns, HandlerStep, HandlerReads, HandlerCounts, userVars
  <2>2. CASE JobDone
    <3>1. UNCHANGED <<pc, after, it, setups, sent>>
      BY <2>2 DEF JobDone
    <3>2. UNCHANGED <<pc, after, it, setups, sent, file>>
      BY <2>1, <3>1
    <3>3. StepsToExit' = StepsToExit
      BY ONLY <3>2, StepsKept
    <3> QED  BY ONLY <1>1, <1>2, <3>3
  <2>3. CASE ~JobDone
    <3>1. UNCHANGED <<pc, after, it, setups, sent>>
      BY <1>3, <2>3 DEF WaitBegins, WaitInterrupted, DmaDone, DriverStep, HandlerRuns, mainVars
    <3>2. UNCHANGED <<pc, after, it, setups, sent, file>>
      BY <2>1, <3>1
    <3>3. StepsToExit' = StepsToExit
      BY ONLY <3>2, StepsKept
    <3> QED  BY ONLY <1>1, <1>2, <3>3
  <2> QED  BY <1>2, <2>2, <2>3
<1>4. CASE ClientStep
  BY ONLY <1>1, <1>2, <1>3, <1>4
<1>5. ~Start
  BY DEF Start
<1> QED  BY <1>3, <1>4, <1>5 DEF InferenceNext

\* While the program runs, every step of main() but the beginning of a wait
\* brings its exit nearer, and no step of the driver, the device or the handler
\* takes it away: a run of main() is at most 13 * MaxSetups + 4 * MaxIters + 19
\* steps and the waits it begins, whatever fails on the way.
THEOREM ProgramRunsDown == InferenceSpec => []ExitBounded /\ [][RunsDown]_allVars
<1>1. InferenceSpec => [](TypeOK /\ StageInv /\ FileInv)
  BY ProgramIsUser, LifecycleTypeCorrect, StageInvariant, FileInvariant, PTL
<1>2. ClientTypeOK => ExitBounded
  BY ExitIsBounded
<1>3. TypeOK /\ ClientTypeOK /\ ClientTypeOK' /\ LoopInv /\ FileInv /\ StageInv /\ ControlInv
      /\ [InferenceNext]_allVars => [RunsDown]_allVars
  BY RunsDownStep
<1> QED  BY <1>1, <1>2, <1>3, ClientTypeInvariant, ControlInvariant, PTL DEF InferenceSpec

=============================================================================
