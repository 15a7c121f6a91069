------------------------------ MODULE PagedDma ------------------------------
(***************************************************************************)
(* cim_dma.c: how the library moves a user buffer to or from the device's  *)
(* SRAM.  One call of cim_dma_write_sram or cim_dma_read_sram, beside the  *)
(* device that carries out the transfers it starts and, when the buffer is *)
(* not pinned, the kernel that moves its pages.  Addresses are numbers and *)
(* the transfer is followed byte by byte; the bytes themselves are not.    *)
(***************************************************************************)
EXTENDS Integers

CONSTANTS
    PageSize,   \* page_sz
    LenLimit,   \* stands for UINT32_MAX
    Frames,     \* physical frame numbers
    Pages       \* bound: the virtual pages are 0 .. Pages - 1

\* No frame 0: a physical address of 0 is the code's mark for a failure.
ASSUME DmaAssumption ==
    /\ PageSize \in Nat \ {0}
    /\ LenLimit \in Nat /\ PageSize <= LenLimit
    /\ Frames \subseteq Nat \ {0}
    /\ Pages \in Nat

Absent == 0     \* a page table entry without the present bit
OK     == 0
EINVAL == -1
NOMEM  == -2
EIO    == -3
EPROTO == -5

Page   == 0 .. Pages - 1
Entry  == Frames \cup {Absent}
VAddr  == 0 .. Pages * PageSize - 1

VARIABLES
    pt,         \* the process's page table
    call,       \* the call's mode, direction, buffer address and length, and
                \* whether the kernel leaves the buffer's pages where they are
    pc,         \* where the call is
    pagemap,    \* the local copy of the page table entries of the buffer
    remaining, cur, pos, pageIdx,   \* bytes_remaining, current_vaddr,
                                    \* current_sram - dst_sram, page_idx
    chunkPhys, chunkLen,            \* the transfer being put together or started
    flying,     \* the device has a transfer to carry out
    moved,      \* history, per byte of the SRAM range: not moved, moved from or
                \* to the right place, or moved wrongly or twice
    rc          \* what the call returns

loop == <<remaining, cur, pos, pageIdx>>
chunk == <<chunkPhys, chunkLen>>
vars == <<pt, call, pc, pagemap, loop, chunk, flying, moved, rc>>

Calls == [paged : BOOLEAN, read : BOOLEAN, pinned : BOOLEAN,
          start : VAddr, len : 0 .. Pages * PageSize]

\* The page of an address, and the physical address an entry gives it.
PageOf(v) == v \div PageSize
Phys(entry, v) == (entry * PageSize) + (v % PageSize)

\* Faulty: does not round up.
NumPagesDown(v, n) == ((v % PageSize) + n) \div PageSize

\* The pages a buffer spans: (offset_in_first_page + len + page_sz - 1) / page_sz.
NumPages(v, n) == ((v % PageSize) + n + PageSize - 1) \div PageSize

Init ==
    /\ pt \in [Page -> Entry]
    /\ \A p, q \in Page : p # q /\ pt[p] = pt[q] => pt[p] = Absent
    /\ call \in {c \in Calls : c.start + c.len <= Pages * PageSize}
    /\ pc = "call" /\ pagemap = <<>>
    /\ remaining = 0 /\ cur = 0 /\ pos = 0 /\ pageIdx = 0
    /\ chunkPhys = 0 /\ chunkLen = 0 /\ flying = FALSE
    /\ moved = [k \in VAddr |-> "no"] /\ rc = OK

Return(code) == pc' = "returned" /\ rc' = code

-----------------------------------------------------------------------------
(* The call.                                                               *)

\* A null handle or buffer, a pagemap that cannot be read, and in CIM_DMA_PAGED
\* mode no memory for the copy of it.
Refuse ==
    /\ pc = "call"
    /\ \/ Return(EINVAL)
       \/ call.len > 0 /\ Return(EIO)
       \/ call.len > 0 /\ call.paged /\ Return(NOMEM)
    /\ UNCHANGED <<pt, call, pagemap, loop, chunk, flying, moved>>

Nothing ==
    /\ pc = "call" /\ call.len = 0
    /\ Return(OK)
    /\ UNCHANGED <<pt, call, pagemap, loop, chunk, flying, moved>>

\* CIM_DMA_SINGLE_PHYS: one transfer from the first page's frame on.  The read
\* checks that the length fits the 32-bit register, the write cuts it to fit.
SinglePhys ==
    /\ pc = "call" /\ call.len > 0 /\ ~call.paged
    /\ LET entry == pt[PageOf(call.start)]
           cut == call.len % (LenLimit + 1)
       IN \/ /\ entry = Absent /\ Return(EIO)
             /\ UNCHANGED <<loop, chunk, flying>>
          \/ /\ entry # Absent /\ (IF call.read THEN call.len > LenLimit ELSE cut = 0)
             /\ Return(EINVAL)
             /\ UNCHANGED <<loop, chunk, flying>>
          \/ /\ entry # Absent /\ (IF call.read THEN call.len <= LenLimit ELSE cut > 0)
             /\ chunkPhys' = Phys(entry, call.start) /\ chunkLen' = cut
             /\ remaining' = cut /\ cur' = call.start /\ pos' = 0 /\ pageIdx' = 0
             /\ flying' = TRUE /\ pc' = "wait"
             /\ UNCHANGED rc
    /\ UNCHANGED <<pt, call, pagemap, moved>>

\* CIM_DMA_PAGED: all entries of the buffer's pages in one read.
ReadPagemap ==
    /\ pc = "call" /\ call.len > 0 /\ call.paged
    /\ pagemap' = [i \in 0 .. NumPages(call.start, call.len) - 1 |->
                     pt[PageOf(call.start) + i]]
    /\ remaining' = call.len /\ cur' = call.start /\ pos' = 0 /\ pageIdx' = 0
    /\ pc' = "head"
    /\ UNCHANGED <<pt, call, chunk, flying, moved, rc>>

\* Faulty: waits for an absent page instead of giving up.
HeadWaits ==
    /\ pc = "head"
    /\ \/ /\ remaining = 0 /\ Return(OK)
          /\ UNCHANGED chunk
       \/ /\ remaining > 0 /\ pagemap[pageIdx] # Absent
          /\ chunkPhys' = Phys(pagemap[pageIdx], cur)
          /\ LET rest == PageSize - (cur % PageSize)
             IN chunkLen' = IF rest > remaining THEN remaining ELSE rest
          /\ pc' = "coalesce"
          /\ UNCHANGED rc
    /\ UNCHANGED <<pt, call, pagemap, loop, flying, moved>>

\* The head of the loop: stop, or begin a chunk with the rest of the page.
Head ==
    /\ pc = "head"
    /\ \/ /\ remaining = 0 /\ Return(OK)
          /\ UNCHANGED chunk
       \/ /\ remaining > 0 /\ pagemap[pageIdx] = Absent /\ Return(EIO)
          /\ UNCHANGED chunk
       \/ /\ remaining > 0 /\ pagemap[pageIdx] # Absent
          /\ chunkPhys' = Phys(pagemap[pageIdx], cur)
          /\ LET rest == PageSize - (cur % PageSize)
             IN chunkLen' = IF rest > remaining THEN remaining ELSE rest
          /\ pc' = "coalesce"
          /\ UNCHANGED rc
    /\ UNCHANGED <<pt, call, pagemap, loop, flying, moved>>

\* Faulty: takes the whole next page.
NextLenWhole == PageSize

\* The bytes of the next page that belong to the buffer.
NextLen == IF chunkLen + PageSize > remaining THEN remaining - chunkLen ELSE PageSize

\* Faulty: joins pages that are not contiguous.
CanCoalesceAny ==
    /\ chunkLen < remaining
    /\ pagemap[pageIdx + 1] # Absent
    /\ chunkLen + NextLen <= LenLimit

\* Faulty: does not check the length register.
CanCoalesceLong ==
    /\ chunkLen < remaining
    /\ pagemap[pageIdx + 1] # Absent
    /\ pagemap[pageIdx + 1] = pagemap[pageIdx] + 1

\* The next page is present, its frame follows, and the length still fits.
CanCoalesce ==
    /\ chunkLen < remaining
    /\ pagemap[pageIdx + 1] # Absent
    /\ pagemap[pageIdx + 1] = pagemap[pageIdx] + 1
    /\ chunkLen + NextLen <= LenLimit

Coalesce ==
    /\ pc = "coalesce" /\ CanCoalesce
    /\ chunkLen' = chunkLen + NextLen
    /\ pageIdx' = pageIdx + 1
    /\ UNCHANGED <<pt, call, pc, pagemap, remaining, cur, pos, chunkPhys, flying, moved, rc>>

\* dma_transfer_single_phys, dma_read_single_phys: program the registers and
\* start the device, then wait for one interrupt.
StartTransfer ==
    /\ pc = "coalesce" /\ ~CanCoalesce
    /\ flying' = TRUE /\ pc' = "wait"
    /\ UNCHANGED <<pt, call, pagemap, loop, chunk, moved, rc>>

\* Faulty: the position in the SRAM is not advanced.
WaitOKStay ==
    /\ pc = "wait" /\ ~flying
    /\ remaining' = remaining - chunkLen
    /\ cur' = cur + chunkLen
    /\ pageIdx' = pageIdx + 1
    /\ IF call.paged THEN pc' = "head" /\ UNCHANGED rc ELSE Return(OK)
    /\ UNCHANGED <<pt, call, pagemap, pos, chunk, flying, moved>>

\* Faulty: goes on with the entry of the page before.
WaitOKSamePage ==
    /\ pc = "wait" /\ ~flying
    /\ remaining' = remaining - chunkLen
    /\ cur' = cur + chunkLen
    /\ pos' = pos + chunkLen
    /\ IF call.paged THEN pc' = "head" /\ UNCHANGED rc ELSE Return(OK)
    /\ UNCHANGED <<pt, call, pagemap, pageIdx, chunk, flying, moved>>

\* One interrupt was counted: go on behind the chunk.
WaitOK ==
    /\ pc = "wait" /\ ~flying
    /\ remaining' = remaining - chunkLen
    /\ cur' = cur + chunkLen
    /\ pos' = pos + chunkLen
    /\ pageIdx' = pageIdx + 1
    /\ IF call.paged THEN pc' = "head" /\ UNCHANGED rc ELSE Return(OK)
    /\ UNCHANGED <<pt, call, pagemap, chunk, flying, moved>>

\* The wait fails, or finds another count than one; the transfer may still run.
WaitFails ==
    /\ pc = "wait"
    /\ \E code \in {EIO, EPROTO} : Return(code)
    /\ UNCHANGED <<pt, call, pagemap, loop, chunk, flying, moved>>

-----------------------------------------------------------------------------
(* The device and the kernel (external).                                   *)

\* Physical address a holds byte v of the buffer at this moment.
Holds(a, v) ==
    /\ v \in VAddr
    /\ pt[PageOf(v)] # Absent
    /\ a = Phys(pt[PageOf(v)], v)

\* The device moves the bytes of the chunk, one after another from chunkPhys.
Transfer ==
    /\ flying
    /\ flying' = FALSE
    /\ moved' = [k \in VAddr |->
                   IF k \in pos .. pos + chunkLen - 1
                   THEN IF moved[k] = "no" /\ Holds(chunkPhys + (k - pos), call.start + k)
                        THEN "right" ELSE "wrong"
                   ELSE moved[k]]
    /\ UNCHANGED <<pt, call, pc, pagemap, loop, chunk, rc>>

\* The kernel migrates a page of the buffer to a free frame, or evicts it.
MovePage ==
    /\ ~call.pinned
    /\ \E p \in Page :
         /\ pt[p] # Absent
         /\ \E f \in Entry \ {pt[q] : q \in Page} : pt' = [pt EXCEPT ![p] = f]
    /\ UNCHANGED <<call, pc, pagemap, loop, chunk, flying, moved, rc>>

-----------------------------------------------------------------------------

\* What the thread does by itself, and what it does once it is woken.
Proceed ==
    \/ Refuse \/ Nothing \/ SinglePhys \/ ReadPagemap
    \/ Head \/ Coalesce \/ StartTransfer \/ WaitOK

Call == Proceed \/ WaitFails

Next == Call \/ Transfer \/ MovePage

Spec == Init /\ [][Next]_vars

\* The thread runs, though no wait is owed a failure, and the device carries out
\* what it was told to.
FairSpec == Spec /\ WF_vars(Proceed) /\ WF_vars(Transfer)

-----------------------------------------------------------------------------
(* Properties.                                                             *)

TypeOK ==
    /\ pt \in [Page -> Entry]
    /\ call \in Calls
    /\ pc \in {"call", "head", "coalesce", "wait", "returned"}
    /\ remaining \in Nat /\ cur \in Nat /\ pos \in Nat /\ pageIdx \in Nat
    /\ chunkPhys \in Nat /\ chunkLen \in Nat
    /\ flying \in BOOLEAN
    /\ moved \in [VAddr -> {"no", "right", "wrong"}]
    /\ rc \in {OK, EINVAL, NOMEM, EIO, EPROTO}

\* While the pages stay where they are, no paged transfer ever moves a byte from
\* or to memory that does not back it, nor the same byte twice, though chunks
\* are put together from several pages.
NothingWrong == call.paged /\ call.pinned => \A k \in VAddr : moved[k] # "wrong"

\* The copy does not say what the page table says of byte k's page.
OutOfDate(k) ==
    LET page == PageOf(call.start + k) IN pagemap[page - PageOf(call.start)] # pt[page]

\* When the kernel does move pages under a paged call, the harm stays with them: a
\* byte goes wrong only while its own page's entry in the copy is out of date, and
\* never for what has become of the other pages of its chunk.
OnlyMovedPagesWrong ==
    [][\A k \in VAddr :
         call.paged /\ moved[k] # "wrong" /\ moved'[k] = "wrong" => OutOfDate(k)]_vars

\* A paged call on pages that stay where they are and that returns OK has moved every byte of the buffer,
\* and none beyond its end.
AllMoved ==
    pc = "returned" /\ rc = OK /\ call.paged /\ call.pinned =>
        \A k \in VAddr : moved[k] = "right" <=> k < call.len

\* The look-ahead never reads past the entries that were allocated.
PagemapInBounds ==
    /\ pc = "head" /\ remaining > 0 => pageIdx \in DOMAIN pagemap
    /\ pc = "coalesce" => pageIdx \in DOMAIN pagemap
    /\ pc = "coalesce" /\ chunkLen < remaining => pageIdx + 1 \in DOMAIN pagemap

\* Every transfer that is started has a length the 32-bit register can hold.
ChunkFits == pc = "wait" => chunkLen \in 1 .. LenLimit

\* A call that returns OK in CIM_DMA_SINGLE_PHYS mode has moved every byte.
SingleMovesAll ==
    pc = "returned" /\ rc = OK => \A k \in 0 .. call.len - 1 : moved[k] # "no"

\* Every call returns, once the device completes the transfers it starts, though
\* no wait ever fails.
CallReturns == <>(pc = "returned")

=============================================================================
