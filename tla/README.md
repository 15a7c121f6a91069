# A verification project for cim-cosim

cim-cosim simulates a computer whose memory can compute. Guest programs call a
user-space library; the library programs a device of an emulated machine (QEMU);
the device forwards register and memory traffic over a socket to a SystemC model
of the memory and its controller; interrupts come back the same way, through a
Linux driver whose `read()` the library blocks in. Each layer is small. What can
go wrong lies between them: an interrupt that is counted but not identified, a
handler that reads, acknowledges and counts in three steps, a signal that is
recomputed only when someone remembers to notify, physical addresses read once
and used later.

The modules here model that path, TLC checks them on small instances, and TLAPS
proves the main results for every instance. They follow the C and C++ sources,
not the documentation; where the two disagree a run shows it (section 5).

## 1. Inventory of the system

| Component | Source | State | Operations |
|---|---|---|---|
| Linux driver | `mem_ctrl/linux/sc_dev_kmod/sc_dev_irq.c` | three counters, three wait queues, a spinlock | probe, remove, the interrupt handler, `read()` of three nodes |
| QEMU device `sc_dev` | a git submodule, not in the repository | interrupt status and enable bits, DMA and job engines, the socket | register access, completion, raising lines |
| Bridge | `mem_ctrl/src/bridge.cpp` | one connection, a payload buffer, a delay | accept, receive a header and a payload, call the controller, reply |
| Memory controller | `mem_ctrl/src/mem_controller.cpp`, its two headers | control, address, length, write and read data, status; an event and a signal | register reads and writes, block transfers, the operation, `irq_manager` |
| SRAM | `mem_ctrl/src/sram.cpp` | the array, access timing | word and block access, `compute_in_memory` |
| libcim, calls | `cim/src/cim.c`, `cim_internal.c` | a handle: descriptors, mapped registers | `cim_init`, `cim_close`, `cim_compute`, `cim_read_sram_u32_irq`, the inference calls, corrections, `wait_one_irq` |
| libcim, DMA | `cim/src/cim_dma.c` | per call: a copy of the page table, a cursor, a chunk | `cim_dma_write_sram`, `cim_dma_read_sram`, in two modes |
| Inference programs | `cim/examples/CIM_inst.c`, `CIM_cache.c` | buffers, a dataset, a handle, `rc` | `main()`: allocate, load, set up (once, or thousands of times), infer in a loop, release |
| MNIST loader | `cim/src/mnist.c` | two files, two arrays | `load_t10k_dataset`, `free_dataset` |
| Other programs, harness, training, scripts | `cim/examples/CPU_*.c`, `mnist_accurate.c`, `cim/harness`, `cim/train_network`, `results`, `tools` | files and arrays | computation without the device |

How they interact:

- **Library to device.** The library writes memory-mapped registers (`/dev/mem`),
  the last of them a start bit, and then blocks in `read()` on the node of the
  source (ctrl, dma or job) it expects.
- **Device to bridge.** One request and one reply at a time. The bridge thread
  calls `b_transport` of the controller directly, so the handlers of the
  controller run on it. Every reply carries the level of the interrupt signal.
- **Inside SystemC.** Threads are cooperative: between two `wait()`s nothing else
  runs. `notify()` on an event nobody waits for is lost. A signal keeps its old
  value until the threads that can run have run.
- **Device to driver.** Three lines share one handler and one status register.
  The handler reads the register, clears what it read, counts it under the lock
  and wakes the queues.
- **Driver to library.** `read()` returns a number of interrupts and clears the
  counter. Nothing says whose interrupts they are.

What is hard here, and for each component what makes it correct:

| Component | Hard behaviour | Correct when |
|---|---|---|
| driver | handlers on two CPUs, readers that go to sleep, counters that wrap, copies that fail | no interrupt is lost; none is counted twice; no reader sleeps beside a counter nobody will wake it for; a read returns all that was counted |
| controller | lost notifications, a signal that lags, operations that fail and complete at once | a reply carries the outcome and the interrupt of the operation it answers; an interrupt is backed by DONE; nothing is left between requests |
| bridge | framing of a byte stream, a reused buffer, one connection | every request is answered once, with its own data |
| library calls | counts without identity, processes that die inside a call, handles that share one device | success means that the call's own operation is completed; a word read is the word asked for |
| library DMA | a copied page table, coalescing, 32-bit lengths | every byte is moved once, from and to where it belongs |
| driver life cycle | a dozen failure points in probe, removal under readers and handlers, nodes open while their memory is freed | the driver is whole or gone; only who holds a node open can touch what was freed |
| inference programs | every step may fail and goes to one of four exits; completions are counted and not named | a prediction is made from the logits of its own image; every exit releases what it should and leaves the device quiet |
| SRAM | tiles that do not divide the input, values beyond 4 bits | each input is multiplied once, and the sum is the dot product |

`PROJECT.json` lists each hazard at its line with the properties that cover it,
or with the reason why none does yet.

## 2. Plan

In order of importance; all steps but the last are done.

1. `ScDevIrq` with the abstract `IrqChannel`: every layer above depends on how
   the driver counts. Proofs in `ScDevIrqProofs`.
2. `MemController`: the operation, the signal and the scheduler. Proofs in
   `MemControllerProofs`.
3. `PagedDma`: splitting and coalescing. Proofs in `PagedDmaProofs`.
4. `CimLib` with the abstract `CompletionService`, composed with the counting
   channel of step 1 and the register behaviour of step 2.
5. `CimLibProofs`.
6. `Bridge` with the abstract `RemoteMemory`: headers and payloads on a byte
   stream, requests that are too long, the reused buffer, connections that end.
   Proofs in `BridgeProofs`.
7. `DriverLifecycle`: probe with its failures, open nodes, removal. Proofs in
   `DriverLifecycleProofs`.
8. `Inference`, on top of step 7: the programs from `main()` to exit, with the
   loader and the steps of `cim_init` and `cim_close`. Proofs in
   `InferenceProofs`.
9. `Sram`: `compute_in_memory` against the dot product. Proofs in `SramProofs`.
10. A composition of `CimLib` with `ScDevIrq` in place of the atomic channel. The
    refinement `ChannelSpec` is what justifies the atomic `Interrupt` today.

## 3. Modules and the code

`map` in `PROJECT.json` gives the lines of each definition. Definitions that
begin with "Faulty:" are plausible errors of the code; each property is shown to
notice at least one of them (`mutants`). They take no part in the specifications.

### ScDevIrq (and MCScDevIrq, IrqChannel)

`status`, `enabled` and `latched` are the device's registers and the interrupt
controller, which are external. `isr[c]`, `line[c]` and `seen[c]` say where the
handler is on a CPU, for which line, and what it has read; `count` is the three
counters; `rd`, `node` and `ret` follow each reader through
`wait_event_interruptible`. The handler is four actions, `IsrReadStatus`,
`IsrClear`, `IsrCount` and `IsrWake` (one per queue), because other CPUs, the
device and readers can act between them; the increments are one action because
they are under the lock. A read is `ReadCheck`, then `ReadTake`, since the
condition is evaluated without the lock and not again with it. Evaluating it and
going to sleep is one step: `wait_event` puts the thread on the queue before it
evaluates. A line's handler does not run twice at the same time, which Linux
guarantees per line, but handlers of two lines do.

The histories `raised`, `delivered`, `faulted` and `wrapped` are there for the
properties only.

`IrqChannel` is the promise in the driver's header comment, per node: interrupts
accumulate and a read takes them. It makes two exceptions explicit, a counter that
wraps and a read whose copy to user space fails. `ChannelSpec` maps
`unread` to the interrupts that are pending, in a handler's hands, or counted.

### MemController (and MCMemController)

An action is the code between two `wait()`s. `pc` is where the bridge thread is:
waiting for a request, before the access (`begin`), in the last
`wait(SC_ZERO_TIME)` of a handler (`settle`), in the wait for the delay, about to
reply. `mgr` is whether `irq_manager` waits for its event; `Notify` is lost
unless it does. `irqNext` is what was written to the signal and `irq` what it
shows. A request is any register write, register read or block access, with any
START, WRITE, COMPUTE and IRQEN bits. Addresses are the words of the SRAM, one
address outside, the compute address, and one so far outside that the 32-bit sum
`addr + len` wraps (`WrapAddr`): the SRAM's check passes it, so a read brings any
value, a write leaves the array, and either may take the simulator down
(`AccessCrashes`; `DmaWrapped` for blocks). A write that leaves the array and
corrupts something else is not followed further. Lengths are "a word" or not; block
transfers move one word. What the computation does to the memory is the constant
`Compute`. Failed accesses set ERR and also DONE, as the code does; a start with
another length sets ERR and nothing else.

### PagedDma

One call, followed byte by byte. `pt` is the process's page table, `pagemap` the
copy the call takes; `remaining`, `cur`, `pos`, `pageIdx`, `chunkPhys` and
`chunkLen` are the locals of the loop; `flying` is a transfer the device has been
told to do. `moved` records, per byte, whether it was moved and whether the
physical address used was the one that backed the byte at that moment.
`Refuse` is each refusal before the loop: a null argument, a page table that cannot
be read, and no memory for its copy (`NOMEM`), which only the paged mode makes.
`MovePage` is the kernel migrating or evicting a page, which `call.pinned`, chosen
per call, excludes. Both directions and both modes are inputs of the same call, since the two
paged loops differ only in the direction they program. `LenLimit` stands for
`UINT32_MAX`, and the modulo in `SinglePhys` for the cast of `cim_dma.c:299`.

### Bridge (and RemoteMemory)

`Bridge::run` unit by unit. A unit is a header or one word of payload;
`toServer` and `toClient` hold what is under way, at most `Cap` units each, so
that a message may cross in any number of pieces and a sender may find no room.
Nothing in the stream says what a unit is: the server takes what comes next for
what it wants, and if that is something else, `As` lets it read any value of the
kind it wants. `pc` is where the loop is (`header`, `payload`, `serve`, `reply`,
`refuse` for the answer to an oversized request, `data`, `stopped`), `done` how
far `recv_all` or `send_all` has come, `payload` the buffer that is never cleared.
`Serve` is `mmio_write`, `mmio_read`, `mmio_write_block` or `mmio_read_block` with
the controller reduced to what a transaction reads and writes; its interrupt,
which travels in the same reply, is the subject of `MemController`. The order in
`Fail` matters: a failed register read stores a zero, a failed block read leaves
the buffer as it was and the words in it are sent.

The device (`Ask`, `Send`, `GetHeader`, `GetPayload`, `Close`) is external. It
has one request at a time, as the reply's place in the stream requires, reads a
payload when it asked for one within the limit, and may close its end anywhere.
Behind a write longer than the buffer the server takes the payload for headers
(section 5); `overran` remembers that, and as a bound nothing more is asked then.

`RemoteMemory` is the sequence of calls that the two ends mean: a request is
asked, served whole and in one step, and its answer is taken.

### Sram

`compute_in_memory` for one output: the clamps, the tiles and the sum, tile after
tile and input after input, beside `DotProduct`, which is what its comment says
it computes. `MCMemController` gives it to the controller as `Compute`, and
compares the two on small inputs; `SramProofs` shows that they agree on all.

### CimLib (and MCCimLib, CompletionService)

Processes open and close handles (`Open`, `OpenFails`, `Close`), start operations
and wait for them, and may be killed at any point (`Kill`) and come back. Every
call that starts an operation gets a number; `run` is what the device still works
on, `bit`, `enabled` and `count` the interrupt path, where `Interrupt` is one
step of the counting channel that `ScDevIrq` implements. `cim_read_sram_u32_irq`
is split where other processes can act: the address, the start, the wait, the
status, the data. A call of one process never waits for anything but its node.
`cim_start_inference` and `cim_wait_inference` are two calls. `Careful` stands for
what the clients in the repository do: wait for a job before starting another or
closing the handle. A device that is busy may drop another start (`Launch`),
which is as much as can be said of a device whose source is elsewhere. Addresses are
those of words and one outside that the controller refuses; what it does with an
address whose end wraps is left to `MemController`, so `ReadsItsWord` says nothing of
a read there, which reports success with a word that does not exist.

`CompletionService` is `cim.h`: an operation starts, completes, and is reported
as successful, in this order and once.

### DriverLifecycle

`probe()` is an action per stretch of code that can fail on its own: memory
(`AllocFails`), the register window and the lines (`Acquire`), each node, the line
handlers. Whatever way it ends it sets `result`, and the driver core, which is
external, decides by that alone whether the driver is bound (`JudgeProbe`): a driver
that failed and returned 0 would stay, as `AcquireReturnsZero` shows. `remove()` and the label
`err_misc` are the same walk over the nodes, and what devm releases afterwards is
external: lines in reverse order, each waiting for its handler, then mapping and
memory at once. `stage` says where in this the driver is. `gen` numbers the
`struct sc_dev`s, so that an open file can be told to belong to one that is gone
(`Stale`): the misc device a file points to is a part of it. `harmed` and `kept`
are histories: who has followed such a pointer, and who had a node open when the
memory was freed. A reader in freed memory either sleeps on, until a signal takes
it off a queue that is no longer there, or returns anything. The handler is two
actions here (its races are the subject of `ScDevIrq`), and counters stop at two,
which is as far as any caller can tell them apart.

### Inference

`main()` of `CIM_inst.c` and `CIM_cache.c`, which share all but the loop of setups:
`pc` is where it is, named after what it does next, and each action is the code up
to the next point where something else can matter or fail. `held` is what `main()`
and the loader hold, `lib` what the handle holds, the nodes being in `file` of
`DriverLifecycle`. Whatever can fail does: each allocation, each check of the
loader (`LoadHolds`, `LoadFrees` by the step that fails), each step of `cim_init`
(`InitHolds`, `InitFrees`, then through `cim_close`), the translation of addresses,
a transfer before it starts, a read. `input` and `logits` name the image that is
in `input_q` and the image whose result is in `logits`; the job engine (external)
reads its input at some time between start and completion. A transfer of weights
or biases is one transfer here; how it is split is in `PagedDma`.

Runs follow each other, in the same system, each with the driver as it finds it:
bound, half-way through probe, or about to be removed under it. Not part of it are
the synthetic network, a program that is killed and two programs at once
(`CimLib` has those). As a bound, no program is started after one has touched
freed memory. The 10000 rounds of `--section setup` are `MaxSetups`.

## 4. Runs

Every property of a passing run has a mutant of the code that violates it.

| Run | Question | Instance |
|---|---|---|
| `DriverOneCpu` | Is the driver an exact counting channel on one CPU, and are pending interrupts served and readers let out? | 2 sources, 1 CPU, 1 reader, counters modulo 3, 3 interrupts of one source and 2 of the other |
| `DriverTwoCpus` | Are interrupts or wake-ups lost when two handlers overlap? | 2 sources, 2 CPUs, 1 reader, counters modulo 3, 2 interrupts per source |
| `Controller` | Does each reply carry the outcome and the interrupt of its request? Is the tiled sum the dot product? | 2 words, an address outside and one that wraps, 2 values, all register and block requests; 3 inputs in tiles of 2 |
| `PagedDma` | Is a pinned buffer moved exactly once and to the right place, do pages that move harm no others, and does the call stay within its bounds then? | 3 pages of 2 bytes, frames 1, 2, 3 and 5, length limit 5, every layout, address, length, mode and direction, pinned or not |
| `Bridge` | Is each request carried out whole and once, and answered with its own data, over a stream in pieces? | 2 words, 2 values, a buffer of 2 words, requests of 0 to 3 words, room for 1 unit each way |
| `LibLone` | Does a lone process get the service of `cim.h`? | 1 process, 4 operations, 2 words and one address outside |
| `LibShared` | What survives sharing and killing? | 2 processes, 2 operations, 2 words, killed anywhere |
| `Inference` | Is the driver whole or gone, is each prediction made from its own logits, does each run end, and what does it leave? | any number of runs, datasets of 0 or 2 images, 2 inferences, 2 rounds of setup, 2 probes, failures anywhere |

Bounds, and why they are enough. The driver needs two sources for one handler to
serve another line's interrupt, two CPUs for handlers to overlap, and as many
interrupts of one source as make its counter wrap: three with counters modulo 3,
where taking a part of a counter can still be told from taking all of it.
`DriverTwoCpus` raises each source twice, so that a source is raised again while
one CPU has cleared it and the other is about to. Pages of two bytes have a first, a last and an
unaligned byte; frames 1, 2, 3 are contiguous and 5 is not, so chunks of one, two
and three pages occur; a limit of 5 bytes, neither a multiple of the page nor
larger than the buffer, makes the limit split a contiguous run. In the
controller a request can disturb only the one before it, and the run explores
all reachable register states. A lone process's four operations suffice for a job
that overlaps two other calls and one after it; two processes with two operations for every overlap of two
calls. In the bridge, one unit of room makes every transfer stop and go on word by
word, and a buffer of two words has a first and a last and keeps one of an earlier
request when the next has one word. In the programs, two probes let a reader meet
a driver that was removed and one that took its place, two images and two
inferences make the second result differ from the first, and two rounds close and
open the handle once in between. For what section 6
proves the bounds do not matter, and the runs show that the interesting cases do
happen.

Deadlock is checked in the driver and inference runs. The controller's simulator may
crash (`pc = "crashed"`), the DMA call ends,
`CimLib` stops when its bound on operations is used up and nobody has a handle
to open, and the bridge ends with its connection, so those runs switch the check
off; those of the controller, the DMA call, the lone process and the bridge state
liveness instead.

Fairness. In the driver, WF of the handler on each CPU (the kernel finishes a
handler it entered and delivers an asserted line) and of a reader that has been
woken; nothing is assumed of the device, of user space calling `read()`, or of
signals. In the controller, WF of the kernel's steps: SystemC runs what can run.
In the DMA call, WF of the thread (`Proceed`) and of the device carrying out a
transfer it was told to do; a wait may fail and never has to, so `CallReturns` does not
lean on failures: it is the device's fairness that ends the waits, no timeout does. In the library, WF of a process inside a call and of the device
and the handler; no process is obliged to call anything. In the bridge, WF of the
server and of a device that has begun a request; nobody has to ask or to close. In
the programs, WF of the program between start and exit, of each engine, and of
the handler; nobody has to start a program, to probe or to remove the driver, or to
send a signal, and `ClientEnds` asks only for as long as the driver stays bound.
`SleeperReturns` and `PendingIsServed` except the case that somebody masks the
device, which `cim_close` really does.

## 5. Where the code and its documentation disagree

Four runs are expected to find a violation; `findings` quotes the lines.

- `DriverTwice` (`NothingTwice`, two CPUs): the status register is read and
  cleared outside the lock, so handlers of two lines can both count one interrupt.
- `LibStale` (`OkMeansDone`): a process is killed inside `cim_compute`; the
  interrupt of its operation stays counted and the next process's `cim_compute`
  returns before its own operation completes. `cim_init` does not empty the nodes.
- `LibStickyErr` (`ErrorIsOwn`): STAT_ERR is cleared only by a write of the status
  register, which the library never does, so after one failed read all fail.
- `SinglePhysCut` (`SingleMovesAll`): the write in single-transfer mode cuts its
  length to 32 bits without the check its counterpart for reading has.

Seen while modelling, visible in the actions named, and without a run of their own:

- Two threads that read one node both pass the wait, and the second returns a
  count of 0 (`ReadCheck`, `ReadTake`), though the header says that `read()` blocks
  until an interrupt occurs. `ReadReturnsSome` is proved for a node's only reader.
- A write of REG_CONTROL without START does not notify `irq_manager`
  (`WriteControl`), so the signal is not always `CTRL_IRQEN && STAT_DONE`.
- An address whose end wraps in 32 bits passes the SRAM's bounds check and is
  reported as a success (`Access`, `DmaWrapped`), though the comment there says
  "Error if memory access is outside valid memory space".
- In `CIM_DMA_PAGED`, "the safe default", nothing in the library keeps the pages in
  place between the reading of the page table and the transfer: `NothingWrong` needs
  `call.pinned`, and `OnlyMovedPagesWrong` says how far the harm goes without it.
- No wait ever times out (`WaitOK` and `WaitFails` are its only ends, and `Wake` in
  `CimLib`), though the interface has timeouts and an error code for them. A call
  whose interrupt another process takes or masks (`Close`) hangs for the same reason.
- A read whose copy to user space fails has cleared the counter already
  (`ReadTake`), though the counts are "since the last successful read()".
- Coalesced transfers cross page boundaries (`Coalesce`), which the comment above
  the function excludes.
- A write longer than the bridge's buffer is answered without its payload being
  read (`RecvHeader`); the payload is then taken for headers. `BufferInBounds`
  holds all the same.
- A failed block read is followed by whatever the buffer holds (`Fail`,
  `SendPayload`).
- `misc_deregister` does not wait for open files, and the wait queues are in the
  memory devm frees: a user that has a node open while the driver is unbound touches
  freed memory (`ReadBegins`, `ReadInterrupted`). `HarmOnlyToHolders` says that
  nobody else does.
- When the third line is missing `probe()` returns the number of the second
  (`Acquire`); being positive it is taken for a failure all the same.
- Without memory for `input_q` or `logits` the programs free a dataset they have not
  initialised (`OutCrashes`), and end with exit code 0 if they survive it
  (`Allocate`, `Free`). The build for the synthetic network does so in every run.
- An empty dataset makes them divide by zero (`Quantize`, `QuantizeCrashes`).
- The exits of `main()` before the handle exists leave buffers to the kernel
  (`Allocate`, `Load`, `InitFailed`): `ExitIsClean` asks for everything with exit
  code 0 only.
- The comment above `compute_in_memory` expects inputs in [-8,7]; the code clamps
  them to [0,15] (`ClampU4`), and that is what the programs quantise to.

## 6. Proofs

All statements are for every value of the constants, under the assumptions
named in the component's module (`ConstantsAssumption`, `ControllerAssumption`,
`DmaAssumption`, `LibAssumption`, `BridgeAssumption`, `LifecycleAssumption`,
`ClientAssumption`, `SramAssumption`): finite sets of CPUs and processes, at least
one byte in a page, a page that fits the length register, addresses of the three
kinds distinct, a buffer and a socket that hold something, one program, at least one
round of setup, tiles that are not empty.

**ScDevIrqProofs.** `TypeCorrect`. `NoInterruptLost` (`NothingLost`, any number of
CPUs): the invariant counts, per source, the pending bit, the handlers that
have cleared it and not yet counted it (`InFlight`), the counter, and what readers
took. It is not inductive alone: a handler between its read and its clear must be
known to hold bits that some handler will still account for, so the handler's
states are tied to what it has seen. `NoWakeupLost` (`NoLostWakeup`) needs only
the wake-up a handler still owes. `CountExact` (`NothingTwice`) assumes one CPU,
and uses that what the handler has read is still pending when it clears it.
`ImplementsChannel` (`ChannelSpec`) is the refinement, on one CPU.
`OnlyReaderGetsSome` (`ReadReturnsSome`) assumes one reader. `HandlerCallEnds`, for a finite set of sources:
a line is held by exactly one processor and only while its handler runs
(`HandlerInv`), and `StepsLeft`, at most the number of sources plus three, goes down
with each step of a handler and is raised by nobody else.

**MemControllerProofs.** One inductive invariant: `SignalInv` says what the event,
the pending signal value and the signal are at each wait, and `OperationInv`
what an operation has achieved by then, for every address that `addr + len` does
not wrap; of one that does only the types are known. From it `ControllerTypeCorrect`,
`NeverSpurious`, `StartAlwaysCompletes`, `StartAlwaysTakesEffect` and
`AlwaysQuiet`. `RequestBounded`: `Work` weighs the bridge thread's place in the request
against whether `irq_manager` runs, and every step of either thread lowers it, from nine
at most to the reply.

**PagedDmaProofs.** Lemmas on division (`PageUnique`, `SamePage`, `NextPage`) give
the arithmetic of addresses. `LoopInv` ties the cursor, the page index and the
chunk together: `pageIdx` is the page of the chunk's last byte, and all but the
last chunk end at a page boundary or at the end of the buffer. From it
`DmaTypeCorrect`, `LookAheadInBounds` and `ChunksFitRegister`, pages moving or
not. `ListedInv` says that each byte of a chunk has the address the copy of the page
table gives it, since the frames of a chunk's pages are consecutive, and has not been
moved before. So a transfer can go wrong for a byte only by the copy being out of date
for that byte's own page (`HarmStaysWithMovedPages`, `OnlyMovedPagesWrong`). For a call
whose pages stay, `PinnedInv` adds that the copy is the page table; from it
`PagedNeverWrong` and `PagedMovesAll`. `DmaCallBounded`: a page of the buffer costs
at most four steps (`StepsLeft`), since the page index grows with each page that joins
a chunk and each transfer that is waited for; only a move of a page, which is the
kernel's, leaves the measure as it is.

**CimLibProofs.** For any processes, sharing and dying as they like:
`LibTypeCorrect`, `OneCallPerInterrupt` (`OksBacked`) and `StaleIsBounded`
(`StaleBounded`), which is inductive and whose proof is about cardinalities: each
start adds one to what is running and one to the waits that are owed, and a
process leaves the set of those that owe a wait by taking an interrupt or by
abandoning one. For a lone, careful process that is not killed (`Lone`) the
invariant is `LoneInv`: a source nobody owes a wait is quiet, and a source that
is owed one holds exactly that operation, running, pending or counted (`InStep`);
operations of overlapping calls are different (`Numbered`); the registers hold
what the read in hand asked for (`Reads`). From it `LoneCountsOne`,
`LoneReadsItsWord`, `LoneOkMeansDone` and the refinement `LoneService`.
`LoneCallsEnd` is what makes such a process return: whenever it waits, its completion is
counted, about to interrupt with the interrupts enabled, or the device's to make
(`GoesOn`), and each step of process or device lowers `Work`.

**BridgeProofs.** `GeneralInv` needs no framing: it bounds `done` by the size in
the header at hand, whatever that header was made of. From it
`BridgeTypeCorrect` and `BufferNeverOverrun`. Until a write overruns, `SyncInv`
says which units are in the stream, by position: those to the server are the
units of the request from number `Taken` on (`RequestInv`), those to the device
are the units of the reply from `Gotten` to `Put` (`ReplyInv`), and the place in
the server's loop fixes both numbers (`HoldsInv`). `NothingLeftOver` alone is not
inductive, for it speaks only of the end of an exchange; `StreamIsClean` follows
because all counts meet there. `ImplementsRemoteMemory` (`PromiseSpec`) maps each
step: the promise serves a request when the server carries it out (`ServePromise`)
or refuses it (`RecvHeaderPromise`), and the device takes the answer with the last
unit of the reply (`FinishPromise`), which by `ReplyInv` makes up what the server's
buffer held; all other steps stutter, also when the connection breaks in the middle.
`BridgeNeverStuck` (`NeverStuck`) says that one end can go on, for any capacity from one
unit up: the invariant makes "both wait for room" and "both wait for units"
contradict the positions of what is in the stream. `ExchangeAdvances` counts the
units that have moved and the turns taken (`Steps`, at most `MaxSteps`, twice
the longest payload and four), and `ServerRunsDown` what a server does once its connection is
gone (`Left`), where the framing may be lost and only `GeneralInv` holds.

**DriverLifecycleProofs.** `LifecycleTypeCorrect`. `ProbeAllOrNothing`
(`AllOrNothing`): `StageInv` says which nodes and lines there are at each stage and
that memory and mapping are there from `register` to `release`; it ties `serving`
to the lines, because what keeps the registers mapped under a handler is that
`free_irq` waits. `OnlyHoldersHarmed` (`HarmOnlyToHolders`): `FileInv` says that a
file on an `sc_dev` that is gone belongs to somebody in `kept`, and that no file is
on one that has not been allocated yet.

**InferenceProofs.** `ProgramIsUser`: every step of the programs is a step of
`DriverSpec`, so both results above hold under them. For the rest the invariant
comes in three layers. `LoopInv` bounds the counters of the loops
(`ClientTypeCorrect`). `ControlInv` says what is held where, that the only `read()`
is the one `main()` waits in, and which blocks have been sent. `CompletionInv`
follows a completion on its way (`OnePlace`: an engine, the status bit, the
handler, the counter, and never in two of them) and says that it is nowhere at all
(`Nowhere`) unless it is waited for; a read that returns, with success or not,
has taken it. `PredictionIsOwn` and the quiet device of `ExitIsClean` are not
inductive without it: that no older completion ends a wait early is exactly what
makes the logits the right ones. From it `PredictionAlwaysOwn` and `ExitsClean`. All of
this is for a program that was not `harmed`: what freed memory holds, nobody knows.

Two more theorems hold what `ClientEnds` rests on. `WaitIsOwed` (`CompletionOwed`): a
program whose driver is bound never waits for nothing. Its invariant `WaitInv` is
apart from `CompletionInv`, for it must survive a driver that goes and comes back
while the program runs: a file on the driver's present `sc_dev` was opened after
its `probe()`, so the interrupts have not been masked since `cim_init` enabled them
(`EnabledInv`), and a completion that is owed there is on its way (`OwedInv`).
`ProgramRunsDown`: `StepsToExit` is bounded by the rounds of setup and the iterations
(`ExitBounded`), every step of `main()` but the beginning of a wait lowers it, and no
step of driver, device or handler raises it (`RunsDown`). So a program can only fail
to end by waiting, and it does not wait in vain.

**SramProofs.** `TilesPartition`: the tiles cut the inputs into disjoint parts, none
empty and none reaching behind the end, for any size and width.
`TiledSumIsDotProduct`: for any inputs, weights and bias the loops leave what the comment
above them promises. The loops are recursive functions, and what these return for every
argument is an induction. The library's induction theorems take an operator, which the
provers cannot instantiate, so each induction is made over a set: the arguments
for which the claim fails have a least element if there are any (`LeastNatural`), and it is
neither the first nor the successor of one for which the claim holds. The same
argument unfolds the recursive functions and the fold of the reference sum.
`AccumulatorIsNotCut`: with at most 1024 inputs and a bias within the room they leave, every
partial sum fits the 32 bits that the code gives it, so for such biases the integers of
the model and the `int32_t` of the code are the same.

The inductive invariants and the measures were checked with TLC before they were proved.

Model-checked only: the liveness properties (`PendingIsServed`, `SleeperReturns`,
`EveryRequestAnswered`, `RequestAnswered`, `DisconnectEnds`, `ClientEnds`, and
`CallReturns` of both modules). They need fairness and ENABLED, which are outside what
the prover supports. What they rest on is proved where it is a matter of safety: that
what is waited for is on its way, and that a measure which no step raises goes down.
What is left to TLC is that the fair actions are enabled when the measure says that
something is left, and that fairness then takes them. `SleeperReturns` has its
half in `NoWakeupLost`.

## 7. Not modelled

- **The QEMU device.** Its source is a submodule that is not part of the
  repository. Its registers and engines appear as actions marked external, as
  general as the driver's and the library's use of them allows.
- **What an access outside the SRAM's array overwrites.** It passes the check when its
  end wraps in 32 bits; `MemController` lets it crash, read anything, or go on with
  the SRAM as it was. `Bridge` and `CimLib` take addresses that do not wrap.
- **Byte enables**, which no caller sets.
- **What `instret_init` opens.** The programs never close it; `held` is what they and
  the library account for themselves.
- **Timing.** Delays, the correction registers and the excess-time accounting:
  numbers that no control decision depends on.
- **Training and quantisation**, and the programs that infer on the CPU:
  floating-point arithmetic without the device.
- **The old test bench**, which is not built, top-level wiring, performance
  counters, scripts and analysis of results: straight-line code without state of
  the system.
