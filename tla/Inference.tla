------------------------------ MODULE Inference ------------------------------
(***************************************************************************)
(* The inference programs CIM_inst.c and CIM_cache.c from main() to their   *)
(* exit, one run after another, on top of the life cycle of the driver:    *)
(* the buffers and the dataset they hold (mnist.c), the handle (cim_init    *)
(* and cim_close step by step), the transfers of weights and biases, and   *)
(* the loop of inferences.  The library's calls take one transfer each;    *)
(* how a transfer is split is in PagedDma.  The DMA and job engines of the *)
(* device are external.                                                    *)
(***************************************************************************)
EXTENDS DriverLifecycle

CONSTANTS
    client,     \* the thread that runs the program
    MaxIters,   \* bound: --iters
    Sizes,      \* bound: how many images a dataset may have
    MaxSetups   \* stands for the 10000 rounds of --section setup

ASSUME ClientAssumption ==
    /\ User = {client}
    /\ MaxIters \in Nat /\ Sizes \subseteq Nat /\ MaxSetups \in Nat \ {0}

Block   == {"W", "b"}           \* what the network consists of
Image   == UNION {0 .. n - 1 : n \in Sizes}
Idle    == -1                   \* no job
Garbage == -2                   \* no image, or the result of no image
Unset   == -1                   \* the size of a dataset that is not initialised
Crashed == -11

VARIABLES
    pc,         \* where main() is
    after,      \* where it goes on after cim_close
    held,       \* the memory and the files main() and the loader hold
    size,       \* dataset.size
    lib,        \* what the handle holds besides the nodes
    rc,         \* the variable of that name
    it,         \* the number of inferences made
    setups,     \* the number of rounds of setup made
    sent,       \* blocks whose transfer has returned CIM_OK
    input,      \* the image in input_q
    logits,     \* the image whose result is in logits
    code,       \* the exit code
    dma, job,   \* device: the block, the image being worked on
    sram        \* device: the blocks of this run's network in the SRAM

mainVars   == <<pc, after, held, size, lib, rc, it, setups, sent, input, logits, code>>
engineVars == <<dma, job, sram>>
allVars    == <<driverVars, mainVars, engineVars>>

Buffers == {"network", "input", "logits"}
Dataset == {"images", "labels"}
Files   == {"images file", "labels file"}
Handle  == {"handle", "devmem", "mmio", "pagemap"}
Place   == {"exited", "alloc", "load", "init", "open", "enable", "phys", "dma", "dma wait",
            "ready", "quantize", "start", "job wait", "argmax", "out", "mask", "close",
            "failed", "free"}

ClientTypeOK ==
    /\ TypeOK
    /\ pc \in Place /\ after \in {"none", "failed", "init", "out", "free"}
    /\ held \subseteq Buffers \cup Dataset \cup Files /\ lib \subseteq Handle
    /\ size \in {Unset, 0} \cup Sizes /\ rc \in {"OK", "error"}
    /\ it \in 0 .. MaxIters /\ setups \in 0 .. MaxSetups /\ sent \subseteq Block
    /\ input \in Image \cup {Garbage} /\ logits \in Image \cup {Garbage}
    /\ code \in {0, 1, Crashed}
    /\ dma \in Block \cup {"none"} /\ job \in Image \cup {Idle, Garbage}
    /\ sram \subseteq Block

InferenceInit ==
    /\ Init
    /\ pc = "exited" /\ after = "none"
    /\ held = {} /\ size = Unset /\ lib = {} /\ rc = "OK"
    /\ it = 0 /\ setups = 0 /\ sent = {}
    /\ input = Garbage /\ logits = Garbage
    /\ code = 0
    /\ dma = "none" /\ job = Idle /\ sram = {}

\* Nothing of an earlier run is left for the next one to take for its own: no
\* transfer or job under way, no completion pending, in the handler or counted.
Quiet ==
    /\ dma = "none" /\ job = Idle
    /\ status = {} /\ serving = {}
    /\ live => count = [s \in Source |-> 0]

\* The next run starts from nothing.  A job that is under way when the process
\* ends is nobody's from then on.
Exit(c) ==
    /\ pc' = "exited" /\ code' = c
    /\ after' = "none" /\ size' = Unset /\ rc' = "OK"
    /\ it' = 0 /\ setups' = 0 /\ sent' = {}
    /\ input' = Garbage /\ logits' = Garbage /\ sram' = {}
    /\ job' = (IF job = Idle THEN Idle ELSE Garbage) /\ UNCHANGED dma

Goto(p) == pc' = p /\ UNCHANGED <<code, engineVars>>

locals == <<after, size, rc, it, setups, sent, input, logits>>

-----------------------------------------------------------------------------
(* main() up to cim_init.                                                  *)

\* As a bound, nothing more is started once freed memory has been touched.
Start ==
    /\ pc = "exited" /\ client \notin harmed
    /\ pc' = "alloc" /\ code' = 0 /\ held' = {}
    /\ UNCHANGED <<driverVars, locals, lib, engineVars>>

\* The network and its file, then input_q and logits.  Without the first two
\* main() returns at once; without a buffer it goes to "out", with rc still 0.
Allocate ==
    /\ pc = "alloc"
    /\ \/ held' = Buffers /\ Goto("load") /\ UNCHANGED locals
       \/ held' \in {{}, {"network"}} /\ Exit(1)
       \/ held' \in {{"network"}, {"network", "input"}} /\ Goto("out") /\ UNCHANGED locals
    /\ UNCHANGED <<driverVars, lib>>

\* load_t10k_dataset, by the step that fails: what it holds then, and what it
\* releases before it returns -1.  Steps that do the same are one.
LoadHolds == [
    openImages |-> {}, imagesHeader |-> {"images file"}, allocImages |-> {"images file"},
    readImages |-> {"images file", "images"}, openLabels |-> {"images"},
    labelsHeader |-> {"images", "labels file"}, allocLabels |-> {"images", "labels file"},
    readLabels |-> {"images", "labels file", "labels"}]

\* Faulty: forgets the images when the labels do not match them.
LoadFreesLess == [
    openImages |-> {}, imagesHeader |-> {"images file"}, allocImages |-> {"images file"},
    readImages |-> {"images file", "images"}, openLabels |-> {"images"},
    labelsHeader |-> {"labels file"}, allocLabels |-> {"images", "labels file"},
    readLabels |-> {"images", "labels file", "labels"}]

LoadFrees == [
    openImages |-> {}, imagesHeader |-> {"images file"}, allocImages |-> {"images file"},
    readImages |-> {"images", "images file"}, openLabels |-> {"images"},
    labelsHeader |-> {"images", "labels file"}, allocLabels |-> {"images", "labels file"},
    readLabels |-> {"labels", "images", "labels file"}]

\* The dataset is cleared and loaded; a header may announce no images at all.
\* main() returns when that fails; --section overhead ends here, and so does the
\* process that may not count instructions (instret_init).
Load ==
    /\ pc = "load"
    /\ \/ /\ size' \in Sizes /\ held' = held \cup Dataset
          /\ Goto("init") \/ Goto("out")
          /\ UNCHANGED <<after, rc, it, setups, sent, input, logits>>
       \/ held' = held \cup Dataset /\ Exit(1)
       \/ /\ \E step \in DOMAIN LoadHolds :
               held' = held \cup (LoadHolds[step] \ LoadFrees[step])
          /\ Exit(1)
    /\ UNCHANGED <<driverVars, lib>>

-----------------------------------------------------------------------------
(* cim_init and cim_close.                                                 *)

InitHolds == [calloc |-> {}, sysconf |-> {"handle"}, devmem |-> {"handle"}, mmap |-> {"handle", "devmem"}]
InitFrees == [calloc |-> {}, sysconf |-> {"handle"}, devmem |-> {"handle"}, mmap |-> {"devmem", "handle"}]

\* Memory, /dev/mem, its mapping and the pagemap.  Without the mapping cim_init
\* cleans up itself; from then on it calls cim_close.
InitMaps ==
    /\ pc = "init"
    /\ \/ \E step \in DOMAIN InitHolds :
            lib' = InitHolds[step] \ InitFrees[step] /\ Goto("failed") /\ UNCHANGED after
       \/ lib' = Handle \ {"pagemap"} /\ after' = "failed" /\ Goto("mask")
       \/ lib' = Handle /\ Goto("open") /\ UNCHANGED after
    /\ UNCHANGED <<driverVars, held, size, rc, it, setups, sent, input, logits>>

Opened == {s \in Source : file[client][s] # 0}

\* open() of the three nodes; it may fail, and does when the node is not there.
InitOpens(s) ==
    /\ pc = "open" /\ Opened = Before[s]
    /\ \/ /\ Open(client, s)
          /\ Goto(IF s = "job" THEN "enable" ELSE "open") /\ UNCHANGED after
       \/ /\ after' = "failed" /\ Goto("mask")
          /\ UNCHANGED driverVars
    /\ UNCHANGED <<held, size, lib, rc, it, setups, sent, input, logits>>

\* Faulty: relies on the driver to have enabled the interrupts.
InitEnablesNot ==
    /\ pc = "enable" /\ Goto("phys")
    /\ UNCHANGED <<driverVars, after, held, size, lib, rc, it, setups, sent, input, logits>>

InitEnables ==
    /\ pc = "enable" /\ SetMask(TRUE) /\ Goto("phys")
    /\ UNCHANGED <<after, held, size, lib, rc, it, setups, sent, input, logits>>

\* main() when cim_init has failed.
InitFailed ==
    /\ pc = "failed"
    /\ held' = held \ Dataset
    /\ Exit(1)
    /\ UNCHANGED <<driverVars, lib>>

CloseMasks ==
    /\ pc = "mask" /\ SetMask(FALSE) /\ Goto("close")
    /\ UNCHANGED <<after, held, size, lib, rc, it, setups, sent, input, logits>>

CloseReleases ==
    /\ pc = "close" /\ Close(client)
    /\ lib' = {} /\ Goto(after) /\ after' = "none"
    /\ UNCHANGED <<held, size, rc, it, setups, sent, input, logits>>

-----------------------------------------------------------------------------
(* Setup: the physical addresses, the job registers, weights and biases.   *)

\* io_virt_to_phys fails, or cim_configure_inference writes the registers.
Configure ==
    /\ pc = "phys"
    /\ \/ Goto("dma") /\ UNCHANGED rc
       \/ Goto("out") /\ rc' = "error"
    /\ UNCHANGED <<driverVars, after, held, size, lib, it, setups, sent, input, logits>>

Sending == IF "W" \notin sent THEN "W" ELSE "b"

\* cim_dma_write_sram fails before it starts the device, or starts it; a device
\* that is busy may drop the start.
SendBlock ==
    /\ pc = "dma"
    /\ \/ /\ pc' = "out" /\ rc' = "error" /\ UNCHANGED dma
       \/ /\ pc' = "dma wait" /\ UNCHANGED rc
          /\ \/ dma' = Sending
             \/ dma # "none" /\ UNCHANGED dma
    /\ UNCHANGED <<driverVars, after, held, size, lib, it, setups, sent, input, logits, code, job, sram>>

\* read() on the node of the source, again after a signal.
WaitBegins ==
    /\ \/ pc = "dma wait" /\ ReadBegins(client, "dma")
       \/ pc = "job wait" /\ ReadBegins(client, "job")
    /\ UNCHANGED <<mainVars, engineVars>>

WaitInterrupted == ReadInterrupted(client) /\ UNCHANGED <<mainVars, engineVars>>

\* wait_one_irq: anything but one interrupt is an error.
WaitFails ==
    /\ \E n \in -1 .. Many : n # 1 /\ ReadReturns(client, n)
    /\ rc' = "error" /\ Goto("out")
    /\ UNCHANGED <<after, held, size, lib, it, setups, sent, input, logits>>

BlockSent ==
    /\ pc = "dma wait" /\ ReadReturns(client, 1)
    /\ sent' = sent \cup {Sending}
    /\ Goto(IF sent' = Block THEN "ready" ELSE "dma")
    /\ UNCHANGED <<after, held, size, lib, rc, it, setups, input, logits>>

\* Faulty: makes one round too many.
SetupDoneMore ==
    /\ pc = "ready"
    /\ setups' = setups + 1 /\ sent' = {}
    /\ after' = IF setups' <= MaxSetups THEN "init" ELSE "out"
    /\ Goto("mask")
    /\ UNCHANGED <<driverVars, held, size, lib, rc, it, input, logits>>

\* --section total goes on; --section setup closes the handle, and starts over
\* or ends.
SetupDone ==
    /\ pc = "ready"
    /\ \/ /\ setups = 0
          /\ Goto("quantize") /\ UNCHANGED <<after, setups, sent>>
       \/ /\ setups' = setups + 1 /\ sent' = {}
          /\ after' = IF setups' < MaxSetups THEN "init" ELSE "out"
          /\ Goto("mask")
    /\ UNCHANGED <<driverVars, held, size, lib, rc, it, input, logits>>

-----------------------------------------------------------------------------
(* The loop of inferences.                                                 *)

\* Another round, or the end of the loop.  it % dataset.size of an empty dataset
\* gives an image that is not there, ...
Quantize ==
    /\ pc = "quantize"
    /\ \/ /\ it < MaxIters
          /\ input' = IF size = 0 THEN Garbage ELSE it % size
          /\ Goto("start")
       \/ Goto("out") /\ UNCHANGED input
    /\ UNCHANGED <<driverVars, after, held, size, lib, rc, it, setups, sent, logits>>

\* ... or the end of the process.
QuantizeCrashes ==
    /\ pc = "quantize" /\ it < MaxIters /\ size = 0
    /\ Dies(client) /\ lib' = {} /\ held' = {} /\ Exit(Crashed)

\* Faulty: does not wait for the job.
StartJobOnly ==
    /\ pc = "start" /\ pc' = "argmax"
    /\ \/ job' = input
       \/ job # Idle /\ UNCHANGED job
    /\ UNCHANGED <<driverVars, after, held, size, lib, rc, it, setups, sent, input, logits, code, dma, sram>>

StartJob ==
    /\ pc = "start" /\ pc' = "job wait"
    /\ \/ job' = input
       \/ job # Idle /\ UNCHANGED job
    /\ UNCHANGED <<driverVars, after, held, size, lib, rc, it, setups, sent, input, logits, code, dma, sram>>

JobWaited ==
    /\ pc = "job wait" /\ ReadReturns(client, 1)
    /\ Goto("argmax")
    /\ UNCHANGED <<after, held, size, lib, rc, it, setups, sent, input, logits>>

\* The prediction is made from logits, for the image in input_q.
Argmax ==
    /\ pc = "argmax" /\ it' = it + 1 /\ Goto("quantize")
    /\ UNCHANGED <<driverVars, after, held, size, lib, rc, setups, sent, input, logits>>

-----------------------------------------------------------------------------
(* out: and the end.                                                       *)

\* free_dataset, then cim_close if there is a handle.
Out ==
    /\ pc = "out"
    /\ held' = held \ Dataset /\ size' = 0
    /\ IF lib # {} THEN after' = "free" /\ Goto("mask") ELSE Goto("free") /\ UNCHANGED after
    /\ UNCHANGED <<driverVars, lib, rc, it, setups, sent, input, logits>>

\* free_dataset on a dataset nobody has initialised.
OutCrashes ==
    /\ pc = "out" /\ size = Unset
    /\ held' = {} /\ Exit(Crashed)
    /\ UNCHANGED <<driverVars, lib>>

Free ==
    /\ pc = "free"
    /\ held' = {} /\ Exit(IF rc = "OK" THEN 0 ELSE 1)
    /\ UNCHANGED <<driverVars, lib>>

-----------------------------------------------------------------------------
(* The engines of the device (external).                                   *)

DmaDone ==
    /\ dma # "none"
    /\ sram' = sram \cup {dma} /\ dma' = "none"
    /\ Complete("dma")
    /\ UNCHANGED <<mainVars, job>>

\* The input is read at some time while the job runs, the result written to
\* where logits was when the job was configured.
JobDone ==
    /\ job # Idle
    /\ logits' \in IF sram = Block THEN {job, input} ELSE {Garbage}
    /\ job' = Idle
    /\ Complete("job")
    /\ UNCHANGED <<pc, after, held, size, lib, rc, it, setups, sent, input, code, dma, sram>>

-----------------------------------------------------------------------------

ClientStep ==
    \/ Allocate \/ Load
    \/ InitMaps \/ (\E s \in Source : InitOpens(s)) \/ InitEnables \/ InitFailed
    \/ CloseMasks \/ CloseReleases
    \/ Configure \/ SendBlock \/ WaitBegins \/ WaitFails \/ BlockSent \/ SetupDone
    \/ Quantize \/ QuantizeCrashes \/ StartJob \/ JobWaited \/ Argmax
    \/ Out \/ OutCrashes \/ Free

DriverStep ==
    /\ ProbeStep \/ Remove \/ ReleaseStep
    /\ UNCHANGED <<mainVars, engineVars>>

HandlerRuns == HandlerStep /\ UNCHANGED <<mainVars, engineVars>>

InferenceNext ==
    \/ Start \/ ClientStep \/ WaitInterrupted
    \/ DmaDone \/ JobDone
    \/ DriverStep \/ HandlerRuns

InferenceSpec == InferenceInit /\ [][InferenceNext]_allVars

\* The process runs, the device ends what it has started, and the handler is
\* called and ends.  Nobody has to bind the driver, to start the program, or to
\* leave it alone.
FairInference ==
    /\ InferenceSpec
    /\ WF_allVars(ClientStep)
    /\ WF_allVars(DmaDone) /\ WF_allVars(JobDone)
    /\ WF_allVars(HandlerRuns)

-----------------------------------------------------------------------------
(* Properties.                                                             *)

\* No read() has touched a driver that was taken away.
Unharmed == client \notin harmed

\* The nodes the client has open are those of the driver that is bound.
Attached == stage = "bound" /\ Unharmed /\ ~\E s \in Source : Stale(client, s)

\* Counting alone identifies the completions of such a run: whenever it makes a
\* prediction, logits holds the result for the image that is in input_q, of a
\* network that was in the SRAM as a whole.
PredictionIsOwn == pc = "argmax" /\ Unharmed => logits = input

\* However main() ends: the library has kept nothing, the loader no file and of
\* the dataset all or nothing, with exit code 0 nothing at all is kept, and the
\* device is as quiet as it was found, so that the next run can trust it and no
\* engine writes to buffers that have been freed.
ExitIsClean ==
    pc = "exited" =>
        /\ lib = {} /\ Opened = {}
        /\ held \cap Files = {} /\ held \cap Dataset \in {{}, Dataset}
        /\ code = 0 => held = {}
        /\ Unharmed => Quiet

\* A program whose driver stays bound ends.
ClientEnds == (pc # "exited" /\ Attached) ~> (pc = "exited" \/ ~Attached)

=============================================================================
