--------------------------- MODULE PagedDmaProofs ---------------------------
(***************************************************************************)
(* Proofs about the paged transfer, for every page size, page table,       *)
(* buffer address and length.                                              *)
(***************************************************************************)
EXTENDS PagedDma, TLAPS

-----------------------------------------------------------------------------
(* Pages and offsets.                                                      *)

LEMMA Distribute ==
    ASSUME NEW p \in Int, NEW q \in Int, NEW d \in Int
    PROVE  (p + q) * d = (p * d) + (q * d)
OBVIOUS

LEMMA PageOffset ==
    ASSUME NEW v \in Nat
    PROVE  /\ PageOf(v) \in Nat /\ v % PageSize \in 0 .. PageSize - 1
           /\ v = (PageOf(v) * PageSize) + (v % PageSize)
BY DmaAssumption DEF PageOf

LEMMA PageUnique ==
    ASSUME NEW v \in Nat, NEW p \in Nat, NEW o \in 0 .. PageSize - 1,
           v = (p * PageSize) + o
    PROVE  PageOf(v) = p /\ v % PageSize = o
<1>1. ((p * PageSize) + o) \div PageSize = p /\ ((p * PageSize) + o) % PageSize = o
  BY DmaAssumption
<1>2. QED
  BY <1>1 DEF PageOf

LEMMA SamePage ==
    ASSUME NEW v \in Nat, NEW i \in Nat, (v % PageSize) + i < PageSize
    PROVE  PageOf(v + i) = PageOf(v) /\ (v + i) % PageSize = (v % PageSize) + i
<1>1. /\ PageOf(v) \in Nat /\ v % PageSize \in 0 .. PageSize - 1
      /\ v = (PageOf(v) * PageSize) + (v % PageSize) /\ PageSize \in Nat
  BY PageOffset, DmaAssumption
<1> DEFINE base == PageOf(v) * PageSize
<1>2. base \in Nat
  BY <1>1
<1>3. (v % PageSize) + i \in 0 .. PageSize - 1
  BY <1>1
<1>4. v + i = base + ((v % PageSize) + i)
  <2> HIDE DEF base
  <2>1. v = base + (v % PageSize)
    BY <1>1 DEF base
  <2>2. QED
    BY <1>1, <1>2, <2>1
<1>5. v + i \in Nat
  OBVIOUS
<1>6. QED
  BY <1>1, <1>3, <1>4, <1>5, PageUnique

\* An aligned address opens the page after its predecessor's.
LEMMA NextPage ==
    ASSUME NEW v \in Nat \ {0}, v % PageSize = 0
    PROVE  PageOf(v - 1) = PageOf(v) - 1 /\ (v - 1) % PageSize = PageSize - 1
<1>1. PageOf(v) \in Nat /\ v = PageOf(v) * PageSize /\ PageSize \in Nat \ {0}
  BY PageOffset, DmaAssumption
<1>2. PageOf(v) # 0
  BY <1>1
<1>3. v - 1 = ((PageOf(v) - 1) * PageSize) + (PageSize - 1)
  BY <1>1
<1>4. QED
  BY <1>1, <1>2, <1>3, PageUnique

LEMMA PageMonotone ==
    ASSUME NEW v \in Nat, NEW w \in Nat, v <= w
    PROVE  PageOf(v) <= PageOf(w)
<1>1. /\ PageOf(v) \in Nat /\ v % PageSize \in 0 .. PageSize - 1
      /\ v = (PageOf(v) * PageSize) + (v % PageSize)
  BY PageOffset
<1>2. /\ PageOf(w) \in Nat /\ w % PageSize \in 0 .. PageSize - 1
      /\ w = (PageOf(w) * PageSize) + (w % PageSize)
  BY PageOffset
<1>3. PageOf(v) * PageSize < (PageOf(w) * PageSize) + PageSize
  BY <1>1, <1>2, DmaAssumption
<1>4. QED
  BY <1>1, <1>2, <1>3, DmaAssumption

\* The entries read are those of the pages the buffer touches, no fewer.
LEMMA LastPage ==
    ASSUME NEW v \in Nat, NEW n \in Nat \ {0}
    PROVE  /\ PageOf(v + n - 1) = PageOf(v) + NumPages(v, n) - 1
           /\ NumPages(v, n) \in Nat \ {0}
<1> DEFINE w == (v % PageSize) + n - 1
<1>1. /\ PageOf(v) \in Nat /\ v % PageSize \in 0 .. PageSize - 1
      /\ v = (PageOf(v) * PageSize) + (v % PageSize) /\ PageSize \in Nat \ {0}
  BY PageOffset, DmaAssumption
<1>2. w \in Nat
  BY <1>1
<1>3. /\ PageOf(w) \in Nat /\ w % PageSize \in 0 .. PageSize - 1
      /\ w = (PageOf(w) * PageSize) + (w % PageSize)
  BY <1>2, PageOffset
<1> HIDE DEF w
<1>4. v + n - 1 = ((PageOf(v) + PageOf(w)) * PageSize) + (w % PageSize)
  <2>1. (PageOf(v) + PageOf(w)) * PageSize = (PageOf(v) * PageSize) + (PageOf(w) * PageSize)
    BY <1>1, <1>3, Distribute
  <2>2. PageOf(v) * PageSize \in Nat /\ PageOf(w) * PageSize \in Nat
    BY <1>1, <1>3
  <2>3. v + n - 1 = (PageOf(v) * PageSize) + w
    BY <1>1, <2>2 DEF w
  <2>4. QED
    BY <1>2, <1>3, <2>1, <2>2, <2>3
<1>5. PageOf(v + n - 1) = PageOf(v) + PageOf(w)
  <2>1. PageOf(v) + PageOf(w) \in Nat /\ v + n - 1 \in Nat
    BY <1>1, <1>3
  <2>2. QED
    BY <2>1, <1>3, <1>4, PageUnique
<1>6. w + PageSize = ((PageOf(w) + 1) * PageSize) + (w % PageSize)
  <2>1. (PageOf(w) + 1) * PageSize = (PageOf(w) * PageSize) + PageSize
    BY <1>1, <1>3, Distribute
  <2>2. PageOf(w) * PageSize \in Nat
    BY <1>1, <1>3
  <2>3. QED
    BY <1>1, <1>2, <1>3, <2>1, <2>2
<1>7. PageOf(w + PageSize) = PageOf(w) + 1
  <2>1. PageOf(w) + 1 \in Nat /\ w + PageSize \in Nat
    BY <1>1, <1>2, <1>3
  <2>2. QED
    BY <2>1, <1>3, <1>6, PageUnique
<1>8. NumPages(v, n) = PageOf(w + PageSize)
  <2>1. (v % PageSize) + n + PageSize - 1 = w + PageSize
    BY <1>1 DEF w
  <2>2. QED
    BY <2>1 DEF NumPages, PageOf
<1>9. QED
  BY <1>1, <1>3, <1>5, <1>7, <1>8

-----------------------------------------------------------------------------
(* The inductive invariant, whatever the kernel does with the pages.       *)

Base == PageOf(call.start)
Num  == NumPages(call.start, call.len)

CallInv == call.start + call.len <= Pages * PageSize

Looping == pc \in {"head", "coalesce"} \/ (pc = "wait" /\ call.paged)

\* The loop's counters agree with each other and with the buffer.
CursorInv ==
    Looping =>
        /\ call.paged /\ call.len > 0
        /\ pos + remaining = call.len /\ cur = call.start + pos
        /\ pagemap \in [0 .. Num - 1 -> Entry]

HeadInv == pc = "head" /\ remaining > 0 => PageOf(cur) = Base + pageIdx

\* pageIdx is the page of the chunk's last byte, and a chunk that is not the
\* last one ends with its page.
ChunkInv ==
    pc = "coalesce" \/ (pc = "wait" /\ call.paged) =>
        /\ chunkLen \in 1 .. remaining /\ chunkLen <= LenLimit
        /\ PageOf(cur + chunkLen - 1) = Base + pageIdx
        /\ chunkLen < remaining => (cur + chunkLen) % PageSize = 0

SingleInv == pc = "wait" /\ ~call.paged => chunkLen \in 1 .. LenLimit /\ remaining = chunkLen

LoopInv == TypeOK /\ CallInv /\ CursorInv /\ HeadInv /\ ChunkInv /\ SingleInv

-----------------------------------------------------------------------------
(* What the copy of the page table says of the chunk and the bytes moved,  *)
(* whatever has become of the page table since.                            *)

\* The copy gives byte v the physical address a.
Listed(a, v) ==
    /\ v \in VAddr
    /\ \E i \in 0 .. Num - 1 :
         PageOf(v) = Base + i /\ pagemap[i] # Absent /\ a = Phys(pagemap[i], v)

ChunkListed == \A i \in 0 .. chunkLen - 1 : Listed(chunkPhys + i, call.start + pos + i)

\* A transfer under way is the chunk's.
FlyingInv ==
    call.paged /\ (flying \/ pc = "coalesce") =>
        ChunkListed /\ pc \in {"coalesce", "wait", "returned"} /\ (pc = "coalesce" => ~flying)

\* No byte at the cursor or behind it has been moved, but for those of a chunk
\* whose transfer is over.
UntouchedInv ==
    call.paged =>
        \A k \in VAddr : moved[k] # "no" =>
            \/ pc # "call" /\ k < pos
            \/ ~flying /\ pc \in {"wait", "returned"} /\ k < pos + chunkLen

ListedInv == FlyingInv /\ UntouchedInv

-----------------------------------------------------------------------------
(* With pinned pages: the copy is the page table, and what has been moved. *)

EntriesInv ==
    call.paged /\ call.pinned /\ (Looping \/ flying) =>
        \A i \in 0 .. Num - 1 : pagemap[i] = pt[Base + i]

Upto(n) == \A k \in VAddr : moved[k] = IF k < n THEN "right" ELSE "no"

\* Every byte of the chunk is where the device will look for it.
ChunkHolds == \A i \in 0 .. chunkLen - 1 : Holds(chunkPhys + i, call.start + pos + i)

MovedInv ==
    call.paged /\ call.pinned =>
        /\ flying => pc \in {"wait", "returned"} /\ Upto(pos)
        /\ pc = "call" => Upto(0)
        /\ pc \in {"head", "coalesce"} => Upto(pos)
        /\ pc = "wait" /\ ~flying => Upto(pos + chunkLen)
        /\ pc = "returned" /\ rc = OK => Upto(call.len) /\ ~flying

PinnedInv == EntriesInv /\ MovedInv /\ NothingWrong

-----------------------------------------------------------------------------
(* LoopInv is inductive.                                                   *)

\* The entries read are entries of pages of the table, and they reach as far as
\* the buffer does.
LEMMA Span ==
    ASSUME TypeOK, CallInv, call.len > 0
    PROVE  /\ Base \in Nat /\ Num \in Nat \ {0}
           /\ \A i \in 0 .. Num - 1 : Base + i \in Page
           /\ \A v \in Nat : v < call.start + call.len => PageOf(v) <= Base + Num - 1
<1>1. /\ call.start \in Nat /\ call.len \in Nat \ {0} /\ Pages \in Nat /\ PageSize \in Nat \ {0}
      /\ call.paged \in BOOLEAN /\ call.read \in BOOLEAN
  BY DmaAssumption DEF TypeOK, Calls, VAddr
<1> DEFINE last == call.start + call.len - 1
<1>2. last \in Nat /\ last < Pages * PageSize
  <2>1. Pages * PageSize \in Nat
    BY <1>1
  <2>2. QED
    BY <1>1, <2>1 DEF CallInv
<1>3. PageOf(last) = Base + Num - 1 /\ Base \in Nat /\ Num \in Nat \ {0}
  BY <1>1, LastPage, PageOffset DEF Base, Num
<1>4. PageOf(last) <= Pages - 1
  <2>1. /\ PageOf(last) \in Nat /\ last % PageSize \in 0 .. PageSize - 1
        /\ last = (PageOf(last) * PageSize) + (last % PageSize)
    BY <1>2, PageOffset
  <2>2. PageOf(last) * PageSize < Pages * PageSize
    <3>1. PageOf(last) * PageSize \in Nat /\ Pages * PageSize \in Nat
      BY <1>1, <2>1
    <3>2. QED
      BY <1>2, <2>1, <3>1
  <2>3. QED
    BY <1>1, <2>1, <2>2
<1>5. \A i \in 0 .. Num - 1 : Base + i \in Page
  BY <1>1, <1>3, <1>4 DEF Page
<1>6. ASSUME NEW v \in Nat, v < call.start + call.len
      PROVE  PageOf(v) <= Base + Num - 1
  <2>1. v <= last
    BY <1>1, <1>6
  <2>2. QED
    BY <1>2, <1>3, <2>1, PageMonotone
<1>7. QED
  BY <1>3, <1>5, <1>6

\* A chunk that is not the last one ends with its page.
LEMMA ChunkEnd ==
    ASSUME TypeOK, CallInv, CursorInv, ChunkInv,
           pc = "coalesce" \/ (pc = "wait" /\ call.paged), chunkLen < remaining
    PROVE  /\ cur + chunkLen \in Nat /\ cur + chunkLen < call.start + call.len
           /\ (cur + chunkLen) % PageSize = 0
           /\ PageOf(cur + chunkLen) = Base + pageIdx + 1
<1>1. /\ call.len > 0 /\ pos + remaining = call.len /\ cur = call.start + pos
      /\ chunkLen \in 1 .. remaining
      /\ PageOf(cur + chunkLen - 1) = Base + pageIdx
      /\ (cur + chunkLen) % PageSize = 0
  BY DEF CursorInv, ChunkInv, Looping
<1>2. /\ cur + chunkLen \in Nat \ {0} /\ cur + chunkLen < call.start + call.len
      /\ pageIdx \in Nat
  BY <1>1 DEF TypeOK, Calls, VAddr
<1>3. PageOf(cur + chunkLen - 1) = PageOf(cur + chunkLen) - 1
  BY <1>1, <1>2, NextPage
<1>4. PageOf(cur + chunkLen) \in Nat /\ Base \in Nat
  BY <1>1, <1>2, PageOffset, Span
<1>5. PageOf(cur + chunkLen) - 1 = Base + pageIdx
  BY <1>1, <1>3
<1>6. PageOf(cur + chunkLen) = Base + pageIdx + 1
  <2> DEFINE p == PageOf(cur + chunkLen)
  <2>1. p \in Nat /\ Base \in Nat /\ pageIdx \in Nat /\ p - 1 = Base + pageIdx
    BY <1>2, <1>4, <1>5
  <2> HIDE DEF p
  <2>2. p = Base + pageIdx + 1
    BY <2>1
  <2>3. QED
    BY <2>2 DEF p
<1>7. QED
  BY <1>1, <1>2, <1>6

\* What is read at the head of the loop and by the look-ahead is there.
LEMMA Bounds ==
    ASSUME LoopInv
    PROVE  PagemapInBounds
<1> USE DEF LoopInv
<1>1. ASSUME pc = "head", remaining > 0
      PROVE  pageIdx \in 0 .. Num - 1
  <2>1. /\ call.len > 0 /\ pos + remaining = call.len /\ cur = call.start + pos
        /\ PageOf(cur) = Base + pageIdx
    BY <1>1 DEF CursorInv, HeadInv, Looping
  <2>2. cur \in Nat /\ cur < call.start + call.len /\ pageIdx \in Nat
    BY <1>1, <2>1 DEF TypeOK, Calls, VAddr
  <2>3. QED
    BY <2>1, <2>2, Span
<1>2. ASSUME pc = "coalesce"
      PROVE  /\ pageIdx \in 0 .. Num - 1
             /\ chunkLen < remaining => pageIdx + 1 \in 0 .. Num - 1
  <2>1. /\ call.len > 0 /\ pos + remaining = call.len /\ cur = call.start + pos
        /\ chunkLen \in 1 .. remaining
        /\ PageOf(cur + chunkLen - 1) = Base + pageIdx
        /\ chunkLen < remaining => (cur + chunkLen) % PageSize = 0
    BY <1>2 DEF CursorInv, ChunkInv, Looping
  <2>2. /\ cur \in Nat /\ cur + chunkLen - 1 \in Nat /\ pageIdx \in Nat
        /\ cur + chunkLen - 1 < call.start + call.len
    BY <2>1 DEF TypeOK, Calls, VAddr
  <2>3. pageIdx \in 0 .. Num - 1
    BY <2>1, <2>2, Span
  <2>4. ASSUME chunkLen < remaining
        PROVE  pageIdx + 1 \in 0 .. Num - 1
    <3>1. /\ cur + chunkLen \in Nat /\ cur + chunkLen < call.start + call.len
          /\ PageOf(cur + chunkLen) = Base + pageIdx + 1
      BY <1>2, <2>4, ChunkEnd
    <3>2. PageOf(cur + chunkLen) <= Base + Num - 1 /\ Base \in Nat /\ Num \in Nat
      BY <2>1, <3>1, Span
    <3>3. QED
      BY <2>2, <3>1, <3>2
  <2>5. QED
    BY <2>3, <2>4
<1>3. pc \in {"head", "coalesce"} => DOMAIN pagemap = 0 .. Num - 1
  BY DEF CursorInv, Looping
<1>4. QED
  BY <1>1, <1>2, <1>3 DEF PagemapInBounds

\* The rest of a page.
LEMMA PageEnd ==
    ASSUME NEW v \in Nat
    PROVE  LET rest == PageSize - (v % PageSize)
           IN /\ rest \in 1 .. PageSize
              /\ (v + rest) % PageSize = 0
              /\ \A i \in 0 .. rest - 1 : PageOf(v + i) = PageOf(v)
<1> DEFINE rest == PageSize - (v % PageSize)
<1>1. /\ PageOf(v) \in Nat /\ v % PageSize \in 0 .. PageSize - 1
      /\ v = (PageOf(v) * PageSize) + (v % PageSize) /\ PageSize \in Nat \ {0}
  BY PageOffset, DmaAssumption
<1>2. rest \in 1 .. PageSize
  BY <1>1
<1>3. (v + rest) % PageSize = 0
  <2>1. (PageOf(v) + 1) * PageSize = (PageOf(v) * PageSize) + PageSize
    BY <1>1, Distribute
  <2>2. PageOf(v) * PageSize \in Nat
    BY <1>1
  <2>3. v + rest = ((PageOf(v) + 1) * PageSize) + 0
    BY <1>1, <2>1, <2>2
  <2>4. v + rest \in Nat /\ PageOf(v) + 1 \in Nat /\ 0 \in 0 .. PageSize - 1
    BY <1>1, <1>2
  <2> HIDE DEF rest
  <2>5. QED
    BY <2>3, <2>4, PageUnique
<1>4. ASSUME NEW i \in 0 .. rest - 1
      PROVE  PageOf(v + i) = PageOf(v)
  <2>1. i \in Nat /\ (v % PageSize) + i < PageSize
    BY <1>1, <1>2
  <2>2. QED
    BY <2>1, SamePage
<1>5. QED
  BY <1>2, <1>3, <1>4

LEMMA NextLenRange ==
    ASSUME TypeOK, chunkLen \in 1 .. remaining, chunkLen < remaining
    PROVE  /\ NextLen \in 1 .. PageSize /\ chunkLen + NextLen <= remaining
           /\ chunkLen + NextLen < remaining => NextLen = PageSize
BY DmaAssumption DEF NextLen, TypeOK

LEMMA TypeOKStep ==
    ASSUME LoopInv, Next
    PROVE  TypeOK'
<1> USE DEF LoopInv
<1>1. PagemapInBounds
  BY Bounds
<1>2. /\ PageSize \in Nat \ {0} /\ LenLimit \in Nat /\ Entry \subseteq Nat
  BY DmaAssumption DEF Entry, Absent
<1>3. CASE Refuse
  BY <1>3 DEF Refuse, Return, TypeOK, loop, chunk
<1>4. CASE Nothing
  BY <1>4 DEF Nothing, Return, TypeOK, loop, chunk
<1>5. CASE SinglePhys
  <2> DEFINE entry == pt[PageOf(call.start)]
  <2> DEFINE cut == call.len % (LenLimit + 1)
  <2>1. call.start \in Nat /\ call.len \in Nat
    BY <1>2 DEF TypeOK, Calls, VAddr
  <2>2. cut \in Nat
    BY <1>2, <2>1
  <2>3. CASE pc' = "returned" /\ UNCHANGED <<loop, chunk, flying>>
    BY <1>5, <2>3 DEF SinglePhys, Return, TypeOK, loop, chunk
  <2>4. CASE /\ entry # Absent /\ chunkPhys' = Phys(entry, call.start) /\ chunkLen' = cut
             /\ remaining' = cut /\ cur' = call.start /\ pos' = 0 /\ pageIdx' = 0
             /\ flying' = TRUE /\ pc' = "wait" /\ UNCHANGED rc
    <3>1. entry \in Nat
      <4>1. call.len > 0 /\ call.len \in Nat
        BY <1>5, <2>1 DEF SinglePhys
      <4>2. Base \in Nat /\ Num \in Nat \ {0} /\ \A i \in 0 .. Num - 1 : Base + i \in Page
        BY <4>1, Span
      <4>3. Base \in Page
        <5>1. 0 \in 0 .. Num - 1 /\ Base + 0 = Base
          BY <4>2
        <5>2. QED
          BY <4>2, <5>1
      <4>4. QED
        <5>1. pt[Base] \in Entry
          BY <4>3 DEF TypeOK
        <5>2. QED
          BY <1>2, <5>1 DEF Base
    <3>2. entry * PageSize \in Nat /\ call.start % PageSize \in Nat
      BY <1>2, <2>1, <3>1
    <3>3. chunkPhys' \in Nat
      BY <2>4, <3>2 DEF Phys
    <3>4. QED
      BY <1>5, <2>1, <2>2, <2>4, <3>3 DEF SinglePhys, TypeOK
  <2>5. QED
    BY <1>5, <2>3, <2>4 DEF SinglePhys, Return
<1>6. CASE ReadPagemap
  <2>1. call.start \in Nat /\ call.len \in Nat
    BY <1>2 DEF TypeOK, Calls, VAddr
  <2>2. QED
    BY <1>6, <2>1 DEF ReadPagemap, TypeOK, chunk
<1>7. CASE Head
  <2>1. CASE UNCHANGED chunk
    BY <1>7, <2>1 DEF Head, Return, TypeOK, loop, chunk
  <2>2. CASE /\ remaining > 0 /\ chunkPhys' = Phys(pagemap[pageIdx], cur)
             /\ chunkLen' = IF PageSize - (cur % PageSize) > remaining
                            THEN remaining ELSE PageSize - (cur % PageSize)
             /\ pc' = "coalesce" /\ UNCHANGED rc
    <3>1. pagemap[pageIdx] \in Nat
      <4>1. pageIdx \in DOMAIN pagemap /\ pagemap \in [0 .. Num - 1 -> Entry]
        BY <1>1, <1>7, <2>2 DEF PagemapInBounds, Head, CursorInv, Looping
      <4>2. pagemap[pageIdx] \in Entry
        BY <4>1
      <4>3. QED
        BY <1>2, <4>2
    <3>2. pagemap[pageIdx] * PageSize \in Nat /\ cur % PageSize \in 0 .. PageSize - 1
      BY <1>2, <3>1 DEF TypeOK
    <3>3. chunkPhys' \in Nat
      BY <2>2, <3>2 DEF Phys
    <3>4. chunkLen' \in Nat
      BY <1>2, <2>2, <3>2 DEF TypeOK
    <3>5. QED
      BY <1>7, <2>2, <3>3, <3>4 DEF Head, TypeOK, loop
  <2>3. QED
    BY <1>7, <2>1, <2>2 DEF Head
<1>8. CASE Coalesce
  <2>1. NextLen \in Nat
    BY <1>8, NextLenRange DEF Coalesce, CanCoalesce, ChunkInv
  <2>2. QED
    BY <1>8, <2>1 DEF Coalesce, TypeOK
<1>9. CASE StartTransfer
  BY <1>9 DEF StartTransfer, TypeOK, loop, chunk
<1>10. CASE WaitOK
  <2>1. chunkLen <= remaining
    <3>1. pc = "wait" /\ call.paged \in BOOLEAN
      BY <1>10 DEF WaitOK, TypeOK, Calls
    <3>2. CASE call.paged
      BY <3>1, <3>2 DEF ChunkInv, TypeOK
    <3>3. CASE ~call.paged
      BY <3>1, <3>3 DEF SingleInv, TypeOK
    <3>4. QED
      BY <3>2, <3>3
  <2>2. QED
    BY <1>10, <2>1 DEF WaitOK, Return, TypeOK, chunk
<1>11. CASE WaitFails
  BY <1>11 DEF WaitFails, Return, TypeOK, loop, chunk
<1>12. CASE Transfer
  <2>1. moved' \in [VAddr -> {"no", "right", "wrong"}]
    BY <1>12 DEF Transfer, TypeOK
  <2>2. QED
    BY <1>12, <2>1 DEF Transfer, TypeOK, loop, chunk
<1>13. CASE MovePage
  BY <1>13 DEF MovePage, TypeOK, loop, chunk
<1>14. QED
  BY <1>3, <1>4, <1>5, <1>6, <1>7, <1>8, <1>9, <1>10, <1>11, <1>12, <1>13 DEF Next, Call, Proceed

LEMMA CallInvStep ==
    ASSUME LoopInv, Next
    PROVE  CallInv' /\ call' = call
BY DEF LoopInv, CallInv, Next, Call, Proceed, Refuse, Nothing, SinglePhys, ReadPagemap, Head, Coalesce,
       StartTransfer, WaitOK, WaitFails, Transfer, MovePage

\* Steps that end the call, or that leave its counters alone, keep LoopInv.
LEMMA ReturnedStep ==
    ASSUME LoopInv, Next, pc' = "returned"
    PROVE  LoopInv'
BY TypeOKStep, CallInvStep DEF LoopInv, CursorInv, HeadInv, ChunkInv, SingleInv, Looping

LEMMA QuietStep ==
    ASSUME LoopInv, Next, UNCHANGED <<call, pc, pagemap, loop, chunk>>
    PROVE  LoopInv'
BY TypeOKStep, CallInvStep
DEF LoopInv, CursorInv, HeadInv, ChunkInv, SingleInv, Looping, Base, Num, loop, chunk

LEMMA SinglePhysStep ==
    ASSUME LoopInv, Next, SinglePhys
    PROVE  LoopInv'
<1>1. CASE pc' = "returned"
  BY <1>1, ReturnedStep
<1>2. CASE pc' = "wait"
  <2> DEFINE cut == call.len % (LenLimit + 1)
  <2>1. /\ ~call.paged /\ chunkLen' = cut /\ remaining' = cut /\ call.len > 0
        /\ IF call.read THEN call.len <= LenLimit ELSE cut > 0
    BY <1>2 DEF SinglePhys, Return
  <2>2. LenLimit \in Nat /\ call.len \in Nat
    BY DmaAssumption DEF LoopInv, TypeOK, Calls
  <2>3. cut \in 0 .. LenLimit
    BY <2>2
  <2>4. cut > 0
    <3>1. CASE call.read
      <4>1. cut = call.len
        BY <2>1, <2>2, <3>1
      <4>2. QED
        BY <2>1, <4>1
    <3>2. CASE ~call.read
      BY <2>1, <3>2
    <3>3. QED
      BY <3>1, <3>2
  <2>5. SingleInv'
    BY <2>1, <2>2, <2>3, <2>4 DEF SingleInv
  <2>6. QED
    BY <1>2, <2>1, <2>5, TypeOKStep, CallInvStep
    DEF LoopInv, CursorInv, HeadInv, ChunkInv, Looping
<1>3. QED
  BY <1>1, <1>2 DEF SinglePhys, Return

LEMMA ReadPagemapStep ==
    ASSUME LoopInv, Next, ReadPagemap
    PROVE  LoopInv'
<1>1. /\ call.paged /\ call.len > 0 /\ call.start \in Nat /\ call.len \in Nat /\ call' = call
      /\ pc' = "head" /\ remaining' = call.len /\ cur' = call.start /\ pos' = 0 /\ pageIdx' = 0
      /\ pagemap' = [i \in 0 .. Num - 1 |-> pt[Base + i]]
  BY DEF ReadPagemap, LoopInv, TypeOK, Calls, VAddr, Base, Num
<1>2. pagemap' \in [0 .. Num - 1 -> Entry]
  <2>1. \A i \in 0 .. Num - 1 : Base + i \in Page
    BY <1>1, Span DEF LoopInv
  <2>2. \A i \in 0 .. Num - 1 : pt[Base + i] \in Entry
    BY <2>1 DEF LoopInv, TypeOK
  <2>3. QED
    BY <1>1, <2>2
<1>3. Base' = Base /\ Num' = Num /\ Base \in Nat
  BY <1>1, Span DEF Base, Num, LoopInv
<1>4. CursorInv'
  BY <1>1, <1>2, <1>3 DEF CursorInv
<1>5. HeadInv'
  BY <1>1, <1>3 DEF HeadInv, Base
<1>6. QED
  BY <1>1, <1>4, <1>5, TypeOKStep, CallInvStep DEF LoopInv, ChunkInv, SingleInv

LEMMA HeadStep ==
    ASSUME LoopInv, Next, Head
    PROVE  LoopInv'
<1>1. CASE pc' = "returned"
  BY <1>1, ReturnedStep
<1>2. CASE pc' = "coalesce"
  <2> DEFINE rest == PageSize - (cur % PageSize)
  <2>1. /\ pc = "head" /\ remaining > 0 /\ UNCHANGED <<call, pagemap, remaining, cur, pos, pageIdx>>
        /\ chunkLen' = IF rest > remaining THEN remaining ELSE rest
    BY <1>2 DEF Head, Return, loop
  <2>2. /\ rest \in 1 .. PageSize /\ (cur + rest) % PageSize = 0
        /\ \A i \in 0 .. rest - 1 : PageOf(cur + i) = PageOf(cur)
        /\ PageSize \in Nat /\ LenLimit \in Nat /\ PageSize <= LenLimit
        /\ cur \in Nat /\ remaining \in Nat
    BY PageEnd, DmaAssumption DEF LoopInv, TypeOK
  <2> HIDE DEF rest
  <2>3. /\ chunkLen' \in 1 .. remaining /\ chunkLen' <= rest /\ chunkLen' <= LenLimit
        /\ chunkLen' < remaining => chunkLen' = rest
    BY <2>1, <2>2
  <2>4. PageOf(cur + chunkLen' - 1) = Base + pageIdx
    <3>1. chunkLen' - 1 \in 0 .. rest - 1 /\ cur + chunkLen' - 1 = cur + (chunkLen' - 1)
      <4>1. rest \in Nat /\ remaining \in Nat /\ cur \in Nat
        BY <2>2
      <4>2. chunkLen' \in Nat /\ 1 <= chunkLen' /\ chunkLen' <= rest
        BY <2>3, <4>1
      <4>3. \A n \in Nat : 1 <= n /\ n <= rest =>
                n - 1 \in 0 .. rest - 1 /\ cur + n - 1 = cur + (n - 1)
        BY <4>1
      <4>4. QED
        BY <4>2, <4>3
    <3>2. PageOf(cur) = Base + pageIdx
      BY <2>1 DEF LoopInv, HeadInv
    <3>3. QED
      BY <2>2, <3>1, <3>2
  <2>5. Base' = Base /\ Num' = Num
    BY <2>1 DEF Base, Num
  <2>6. ChunkInv'
    BY <2>1, <2>2, <2>3, <2>4, <2>5 DEF ChunkInv, PageOf
  <2>7. CursorInv'
    BY <2>1, <2>5 DEF LoopInv, CursorInv, Looping
  <2>8. QED
    BY <1>2, <2>6, <2>7, TypeOKStep, CallInvStep DEF LoopInv, HeadInv, SingleInv
<1>3. QED
  BY <1>1, <1>2 DEF Head, Return

LEMMA CoalesceStep ==
    ASSUME LoopInv, Next, Coalesce
    PROVE  LoopInv'
<1>1. /\ pc = "coalesce" /\ pc' = pc /\ chunkLen < remaining /\ chunkLen \in 1 .. remaining
      /\ chunkLen' = chunkLen + NextLen /\ chunkLen + NextLen <= LenLimit
      /\ pageIdx' = pageIdx + 1
      /\ UNCHANGED <<call, pagemap, remaining, cur, pos>>
  BY DEF Coalesce, CanCoalesce, LoopInv, ChunkInv
<1>2. /\ NextLen \in 1 .. PageSize /\ chunkLen + NextLen <= remaining
      /\ chunkLen + NextLen < remaining => NextLen = PageSize
  BY <1>1, NextLenRange DEF LoopInv
<1> DEFINE v == cur + chunkLen
<1>3. v \in Nat /\ v % PageSize = 0 /\ PageOf(v) = Base + pageIdx + 1
  BY <1>1, ChunkEnd DEF LoopInv
<1>4. /\ PageSize \in Nat /\ LenLimit \in Nat /\ remaining \in Nat /\ chunkLen \in Nat
      /\ cur \in Nat /\ NextLen \in Nat
  BY <1>1, <1>2, DmaAssumption DEF LoopInv, TypeOK
<1>5. PageOf(v + (NextLen - 1)) = PageOf(v) /\ (v + PageSize) % PageSize = 0
  <2> HIDE DEF v
  <2>1. PageSize - (v % PageSize) = PageSize
    BY <1>3, <1>4
  <2>2. NextLen - 1 \in 0 .. PageSize - 1
    BY <1>2, <1>4
  <2>3. QED
    BY <1>3, <2>1, <2>2, PageEnd
<1>6. v + (NextLen - 1) = cur + chunkLen' - 1 /\ v + NextLen = cur + chunkLen'
  BY <1>1, <1>4
<1>7. Base' = Base /\ Num' = Num /\ Base \in Nat
  <2>1. call.len > 0
    BY <1>1 DEF LoopInv, CursorInv, Looping
  <2>2. QED
    BY <1>1, <2>1, Span DEF Base, Num, LoopInv
<1>8. PageOf(cur + chunkLen' - 1) = Base + pageIdx'
  <2>1. Base + pageIdx + 1 = Base + pageIdx'
    BY <1>1, <1>7 DEF LoopInv, TypeOK
  <2>2. QED
    BY <1>3, <1>5, <1>6, <2>1
<1>9. chunkLen' < remaining => (cur + chunkLen') % PageSize = 0
  BY <1>1, <1>2, <1>5, <1>6
<1>10. chunkLen' \in 1 .. remaining /\ chunkLen' <= LenLimit
  BY <1>1, <1>2, <1>4
<1>11. ChunkInv'
  BY <1>1, <1>7, <1>8, <1>9, <1>10 DEF ChunkInv, PageOf
<1>12. CursorInv'
  BY <1>1, <1>7 DEF LoopInv, CursorInv, Looping
<1>13. QED
  BY <1>1, <1>11, <1>12, TypeOKStep, CallInvStep DEF LoopInv, HeadInv, SingleInv

LEMMA StartTransferStep ==
    ASSUME LoopInv, Next, StartTransfer
    PROVE  LoopInv'
<1>1. /\ pc = "coalesce" /\ pc' = "wait" /\ call.paged /\ UNCHANGED <<call, pagemap, loop, chunk>>
  BY DEF StartTransfer, LoopInv, CursorInv, Looping
<1>2. CursorInv'
  BY <1>1 DEF LoopInv, CursorInv, Looping, Num, loop
<1>3. ChunkInv'
  BY <1>1 DEF LoopInv, ChunkInv, Base, loop, chunk
<1>4. QED
  BY <1>1, <1>2, <1>3, TypeOKStep, CallInvStep DEF LoopInv, HeadInv, SingleInv

LEMMA WaitOKStep ==
    ASSUME LoopInv, Next, WaitOK
    PROVE  LoopInv'
<1>1. CASE ~call.paged
  BY <1>1, ReturnedStep DEF WaitOK, Return
<1>2. CASE call.paged
  <2>1. /\ pc = "wait" /\ pc' = "head" /\ UNCHANGED <<call, pagemap>>
        /\ remaining' = remaining - chunkLen /\ cur' = cur + chunkLen
        /\ pos' = pos + chunkLen /\ pageIdx' = pageIdx + 1
    BY <1>2 DEF WaitOK
  <2>2. /\ call.len > 0 /\ pos + remaining = call.len /\ cur = call.start + pos
        /\ pagemap \in [0 .. Num - 1 -> Entry] /\ chunkLen \in 1 .. remaining
    BY <1>2, <2>1 DEF LoopInv, CursorInv, ChunkInv, Looping
  <2>3. /\ remaining \in Nat /\ pos \in Nat /\ call.start \in Nat /\ call.len \in Nat
        /\ chunkLen \in Nat /\ cur \in Nat /\ pageIdx \in Nat
    BY DEF LoopInv, TypeOK, Calls, VAddr
  <2>4. Base' = Base /\ Num' = Num /\ Base \in Nat
    BY <2>1, <2>2, Span DEF Base, Num, LoopInv
  <2>5. pos' + remaining' = call.len /\ cur' = call.start + pos'
    BY <2>1, <2>2, <2>3
  <2>6. CursorInv'
    BY <1>2, <2>1, <2>2, <2>4, <2>5 DEF CursorInv
  <2>7. HeadInv'
    <3>1. ASSUME remaining' > 0
          PROVE  PageOf(cur') = Base + pageIdx'
      <4>1. chunkLen < remaining
        BY <2>1, <2>3, <3>1
      <4>2. PageOf(cur + chunkLen) = Base + pageIdx + 1
        BY <1>2, <2>1, <4>1, ChunkEnd DEF LoopInv
      <4>3. Base + pageIdx + 1 = Base + pageIdx'
        BY <2>1, <2>3, <2>4
      <4>4. QED
        BY <2>1, <4>2, <4>3
    <3>2. QED
      BY <2>4, <3>1 DEF HeadInv, PageOf
  <2>8. QED
    BY <2>1, <2>6, <2>7, TypeOKStep, CallInvStep DEF LoopInv, ChunkInv, SingleInv
<1>3. QED
  BY <1>1, <1>2

LEMMA LoopInvStep ==
    ASSUME LoopInv, [Next]_vars
    PROVE  LoopInv'
<1>1. CASE UNCHANGED vars
  BY <1>1 DEF vars, loop, chunk, LoopInv, TypeOK, CallInv, CursorInv, HeadInv, ChunkInv,
              SingleInv, Looping, Base, Num
<1>2. CASE Next /\ (Refuse \/ Nothing \/ WaitFails)
  BY <1>2, ReturnedStep DEF Refuse, Nothing, WaitFails, Return
<1>3. CASE Next /\ (Transfer \/ MovePage)
  BY <1>3, QuietStep DEF Transfer, MovePage
<1>4. QED
  BY <1>1, <1>2, <1>3, SinglePhysStep, ReadPagemapStep, HeadStep, CoalesceStep,
     StartTransferStep, WaitOKStep DEF Next, Call, Proceed

LEMMA LoopInvAlways == Spec => []LoopInv
<1>1. Init => LoopInv
  <2>1. SUFFICES ASSUME Init PROVE LoopInv
    OBVIOUS
  <2>2. moved \in [VAddr -> {"no", "right", "wrong"}]
    BY <2>1 DEF Init
  <2>3. TypeOK
    BY <2>1, <2>2 DEF Init, TypeOK
  <2>4. QED
    BY <2>1, <2>3 DEF Init, LoopInv, CallInv, CursorInv, HeadInv, ChunkInv, SingleInv, Looping
<1>2. QED
  BY <1>1, LoopInvStep, PTL DEF Spec

\* The variables of a call keep their types whatever the kernel does.
THEOREM DmaTypeCorrect == Spec => []TypeOK
BY LoopInvAlways, PTL DEF LoopInv

\* The loops at cim_dma.c:131 and 147 never read an entry behind the allocated
\* ones, for every page size, buffer and layout of the pages.
THEOREM LookAheadInBounds == Spec => []PagemapInBounds
BY LoopInvAlways, Bounds, PTL

\* Every length that is written to DMA_LEN fits the register and is not 0.
THEOREM ChunksFitRegister == Spec => []ChunkFits
<1>1. LoopInv => ChunkFits
  <2>1. SUFFICES ASSUME LoopInv, pc = "wait"
                 PROVE  chunkLen \in 1 .. LenLimit
    BY DEF ChunkFits
  <2>2. LenLimit \in Nat /\ remaining \in Nat /\ call.paged \in BOOLEAN
    BY <2>1, DmaAssumption DEF LoopInv, TypeOK, Calls
  <2>3. CASE call.paged
    BY <2>1, <2>2, <2>3 DEF LoopInv, ChunkInv
  <2>4. CASE ~call.paged
    BY <2>1, <2>4 DEF LoopInv, SingleInv
  <2>5. QED
    BY <2>2, <2>3, <2>4
<1>2. QED
  BY <1>1, LoopInvAlways, PTL

-----------------------------------------------------------------------------
(* The chunk is what the copy lists, for pages that move as well.          *)

LEMMA InBuffer ==
    ASSUME LoopInv, NEW v \in Nat, v < call.start + call.len
    PROVE  v \in VAddr
<1>1. /\ call.start \in Nat /\ call.len \in Nat /\ Pages * PageSize \in Nat
  BY DmaAssumption DEF LoopInv, TypeOK, Calls, VAddr
<1>2. v < Pages * PageSize
  BY <1>1 DEF LoopInv, CallInv
<1>3. QED
  BY <1>1, <1>2 DEF VAddr

LEMMA EntryListed ==
    ASSUME LoopInv, NEW idx \in 0 .. Num - 1, pagemap[idx] # Absent,
           NEW v \in Nat, v < call.start + call.len, PageOf(v) = Base + idx
    PROVE  Listed(Phys(pagemap[idx], v), v)
BY InBuffer DEF Listed

LEMMA HeadListed ==
    ASSUME LoopInv, Head, pc' = "coalesce"
    PROVE  \A i \in 0 .. chunkLen' - 1 : Listed(chunkPhys' + i, call.start + pos + i)
<1> DEFINE rest == PageSize - (cur % PageSize)
<1> DEFINE entry == pagemap[pageIdx]
<1>1. /\ pc = "head" /\ remaining > 0 /\ entry # Absent /\ chunkPhys' = Phys(entry, cur)
      /\ chunkLen' = IF rest > remaining THEN remaining ELSE rest
  BY DEF Head, Return
<1>2. /\ cur \in Nat /\ remaining \in Nat /\ PageSize \in Nat \ {0} /\ pos \in Nat
      /\ call.start \in Nat /\ call.len \in Nat
  BY DmaAssumption DEF LoopInv, TypeOK, Calls, VAddr
<1>3. /\ Looping /\ pos + remaining = call.len /\ cur = call.start + pos
      /\ pagemap \in [0 .. Num - 1 -> Entry]
      /\ PageOf(cur) = Base + pageIdx
  BY <1>1 DEF LoopInv, CursorInv, HeadInv, Looping
<1>4. pageIdx \in 0 .. Num - 1
  BY <1>1, <1>3, Bounds DEF PagemapInBounds
<1>5. entry \in Nat
  <2>1. Entry \subseteq Nat
    BY DmaAssumption DEF Entry, Absent
  <2>2. QED
    BY <1>3, <1>4, <2>1
<1>6. SUFFICES ASSUME NEW i \in 0 .. chunkLen' - 1
               PROVE  Listed(chunkPhys' + i, call.start + pos + i)
  OBVIOUS
<1>7. cur % PageSize \in 0 .. PageSize - 1
  BY <1>2
<1>8. i \in Nat /\ i < remaining /\ (cur % PageSize) + i < PageSize
  BY <1>1, <1>2, <1>7
<1>9. PageOf(cur + i) = PageOf(cur) /\ (cur + i) % PageSize = (cur % PageSize) + i
  BY <1>2, <1>8, SamePage
<1>10. cur + i \in Nat /\ cur + i < call.start + call.len /\ cur + i = call.start + pos + i
  <2>1. i \in Nat /\ i < remaining
    BY <1>8
  <2>2. pos + remaining = call.len /\ cur = call.start + pos
    BY <1>3
  <2>3. /\ cur \in Nat /\ remaining \in Nat /\ pos \in Nat
        /\ call.start \in Nat /\ call.len \in Nat
    BY <1>2
  <2>4. QED
    BY ONLY <2>1, <2>2, <2>3
<1>11. Listed(Phys(entry, cur + i), cur + i)
  BY <1>1, <1>3, <1>4, <1>9, <1>10, EntryListed
<1>12. Phys(entry, cur + i) = Phys(entry, cur) + i
  <2>1. entry * PageSize \in Nat
    BY <1>2, <1>5
  <2>2. QED
    BY <1>7, <1>8, <1>9, <2>1 DEF Phys
<1>13. QED
  BY <1>1, <1>10, <1>11, <1>12

LEMMA CoalesceListed ==
    ASSUME LoopInv, ChunkListed, Coalesce
    PROVE  \A i \in 0 .. chunkLen' - 1 : Listed(chunkPhys + i, call.start + pos + i)
<1> DEFINE entry == pagemap[pageIdx]
<1> DEFINE next == pagemap[pageIdx + 1]
<1> DEFINE v == cur + chunkLen
<1>1. /\ pc = "coalesce" /\ chunkLen < remaining /\ chunkLen \in 1 .. remaining
      /\ chunkLen' = chunkLen + NextLen /\ next # Absent /\ next = entry + 1
  BY DEF Coalesce, CanCoalesce, LoopInv, ChunkInv
<1>2. /\ cur \in Nat /\ remaining \in Nat /\ PageSize \in Nat \ {0} /\ pos \in Nat
      /\ call.start \in Nat /\ call.len \in Nat /\ chunkPhys \in Nat /\ chunkLen \in Nat
  BY DmaAssumption DEF LoopInv, TypeOK, Calls, VAddr
<1>3. NextLen \in 1 .. PageSize /\ chunkLen + NextLen <= remaining
  BY <1>1, NextLenRange DEF LoopInv
<1>4. /\ Looping /\ pos + remaining = call.len /\ cur = call.start + pos
      /\ pagemap \in [0 .. Num - 1 -> Entry]
      /\ PageOf(cur + chunkLen - 1) = Base + pageIdx
  BY <1>1 DEF LoopInv, CursorInv, ChunkInv, Looping
<1>5. pageIdx \in 0 .. Num - 1 /\ pageIdx + 1 \in 0 .. Num - 1
  BY <1>1, <1>4, Bounds DEF PagemapInBounds
<1>6. entry \in Nat /\ next \in Nat
  <2>1. Entry \subseteq Nat
    BY DmaAssumption DEF Entry, Absent
  <2>2. QED
    BY <1>4, <1>5, <2>1
<1>7. v \in Nat \ {0} /\ v % PageSize = 0 /\ PageOf(v) = Base + pageIdx + 1
  BY <1>1, <1>2, ChunkEnd DEF LoopInv
\* The chunk so far ends with its page, so the next frame follows it directly.
<1>8. chunkPhys + chunkLen = next * PageSize
  <2>1. Listed(chunkPhys + (chunkLen - 1), call.start + pos + (chunkLen - 1))
    BY <1>1, <1>2 DEF ChunkListed
  <2>2. call.start + pos + (chunkLen - 1) = v - 1 /\ v - 1 = cur + chunkLen - 1
    <3>1. /\ cur = call.start + pos /\ cur \in Nat /\ chunkLen \in Nat
          /\ call.start \in Nat /\ pos \in Nat
      BY <1>2, <1>4
    <3>2. QED
      BY <3>1
  <2>3. PICK k \in 0 .. Num - 1 :
          PageOf(v - 1) = Base + k /\ chunkPhys + (chunkLen - 1) = Phys(pagemap[k], v - 1)
    BY <2>1, <2>2 DEF Listed
  <2>4. k = pageIdx
    <3>1. Base \in Nat
      BY <1>4, Span DEF LoopInv, CursorInv
    <3>2. Base + k = Base + pageIdx
      BY <1>4, <2>2, <2>3
    <3>3. QED
      BY <1>5, <3>1, <3>2
  <2>5. (v - 1) % PageSize = PageSize - 1
    BY <1>7, NextPage
  <2>6. chunkPhys + (chunkLen - 1) = (entry * PageSize) + (PageSize - 1)
    BY <2>3, <2>4, <2>5 DEF Phys
  <2>7. next * PageSize = (entry * PageSize) + PageSize
    BY <1>1, <1>2, <1>6, Distribute
  <2>8. entry * PageSize \in Nat
    BY <1>2, <1>6
  <2>9. QED
    BY <1>2, <2>6, <2>7, <2>8
<1>9. SUFFICES ASSUME NEW i \in 0 .. chunkLen' - 1
               PROVE  Listed(chunkPhys + i, call.start + pos + i)
  OBVIOUS
<1>10. CASE i < chunkLen
  <2>1. i \in 0 .. chunkLen - 1
    BY <1>2, <1>10
  <2>2. QED
    BY <2>1 DEF ChunkListed
<1>11. CASE i >= chunkLen
  <2> DEFINE j == i - chunkLen
  <2>1. j \in 0 .. NextLen - 1 /\ j \in Nat /\ j < PageSize
    BY <1>1, <1>2, <1>3, <1>11
  <2>2. /\ v + j \in Nat /\ v + j < call.start + call.len
        /\ v + j = call.start + pos + i /\ chunkPhys + i = chunkPhys + chunkLen + j
    <3>1. /\ cur = call.start + pos /\ pos + remaining = call.len /\ cur \in Nat
          /\ chunkLen \in Nat /\ call.start \in Nat /\ pos \in Nat /\ call.len \in Nat
          /\ chunkPhys \in Nat /\ remaining \in Nat /\ i \in Nat /\ j \in Nat
      BY <1>2, <1>4, <2>1
    <3>2. j < NextLen /\ NextLen \in Nat /\ chunkLen + NextLen <= remaining
      BY <1>2, <1>3, <2>1
    <3>3. QED
      BY <3>1, <3>2
  <2>3. PageOf(v + j) = PageOf(v) /\ (v + j) % PageSize = j
    <3> HIDE DEF v, j
    <3>1. (v % PageSize) + j < PageSize
      BY <1>2, <1>7, <2>1
    <3>2. PageOf(v + j) = PageOf(v) /\ (v + j) % PageSize = (v % PageSize) + j
      BY <1>7, <2>1, <3>1, SamePage
    <3>3. QED
      BY <1>7, <2>1, <3>2
  <2>4. PageOf(v + j) = Base + (pageIdx + 1)
    <3>1. Base \in Nat /\ pageIdx \in Nat
      <4>1. call.len > 0
        BY <1>4 DEF LoopInv, CursorInv
      <4>2. QED
        BY <1>5, <4>1, Span DEF LoopInv
    <3>2. Base + pageIdx + 1 = Base + (pageIdx + 1)
      BY <3>1
    <3>3. QED
      BY <1>7, <2>3, <3>2
  <2>5. Listed(Phys(next, v + j), v + j)
    BY <1>1, <1>4, <1>5, <2>2, <2>4, EntryListed
  <2>6. Phys(next, v + j) = chunkPhys + i
    BY <1>8, <2>2, <2>3 DEF Phys
  <2>7. QED
    BY <2>2, <2>5, <2>6
<1>12. QED
  BY <1>2, <1>10, <1>11

\* Nothing that Listed speaks of changes once the copy has been made.
LEMMA ListedStable ==
    ASSUME ChunkListed, UNCHANGED <<call, pagemap, pos, chunkPhys, chunkLen>>
    PROVE  ChunkListed'
BY DEF ChunkListed, Listed, Num, Base

LEMMA FlyingInvStep ==
    ASSUME LoopInv, FlyingInv, [Next]_vars
    PROVE  FlyingInv'
<1> SUFFICES ASSUME call'.paged, flying' \/ pc' = "coalesce"
             PROVE  /\ ChunkListed' /\ pc' \in {"coalesce", "wait", "returned"}
                    /\ pc' = "coalesce" => ~flying'
  BY DEF FlyingInv
<1> USE DEF FlyingInv
<1>1. call' = call
  BY DEF Next, Call, Proceed, Refuse, Nothing, SinglePhys, ReadPagemap, Head, Coalesce, StartTransfer,
         WaitOK, WaitFails, Transfer, MovePage, vars
<1>2. CASE UNCHANGED vars
  BY <1>2, ListedStable DEF vars, loop, chunk
<1>3. CASE Refuse \/ Nothing
  BY <1>1, <1>3, ListedStable DEF Refuse, Nothing, Return, loop, chunk
<1>4. CASE SinglePhys
  BY <1>1, <1>4 DEF SinglePhys
<1>5. CASE ReadPagemap
  BY <1>1, <1>5 DEF ReadPagemap
<1>6. CASE Head
  <2>1. /\ ~flying /\ ~flying' /\ pc' = "coalesce"
        /\ UNCHANGED <<call, pagemap, pos>>
    BY <1>1, <1>6 DEF Head, loop
  <2>2. \A i \in 0 .. chunkLen' - 1 : Listed(chunkPhys' + i, call.start + pos + i)
    BY <1>6, <2>1, HeadListed
  <2>3. QED
    BY <2>1, <2>2 DEF ChunkListed, Listed, Num, Base
<1>7. CASE Coalesce
  <2>1. /\ pc = "coalesce" /\ pc' = pc /\ ~flying /\ ~flying' /\ ChunkListed
        /\ UNCHANGED <<call, pagemap, pos, chunkPhys>>
    BY <1>1, <1>7 DEF Coalesce
  <2>2. \A i \in 0 .. chunkLen' - 1 : Listed(chunkPhys + i, call.start + pos + i)
    BY <1>7, <2>1, CoalesceListed
  <2>3. QED
    BY <2>1, <2>2 DEF ChunkListed, Listed, Num, Base
<1>8. CASE StartTransfer
  BY <1>1, <1>8, ListedStable DEF StartTransfer, loop, chunk
<1>9. CASE WaitOK
  BY <1>1, <1>9 DEF WaitOK
<1>10. CASE WaitFails
  BY <1>1, <1>10, ListedStable DEF WaitFails, Return, loop, chunk
<1>11. CASE Transfer
  BY <1>1, <1>11 DEF Transfer
<1>12. CASE MovePage
  BY <1>1, <1>12, ListedStable DEF MovePage, loop, chunk
<1>13. QED
  BY <1>2, <1>3, <1>4, <1>5, <1>6, <1>7, <1>8, <1>9, <1>10, <1>11, <1>12 DEF Next, Call, Proceed

LEMMA UntouchedInvStep ==
    ASSUME LoopInv, FlyingInv, UntouchedInv, [Next]_vars
    PROVE  UntouchedInv'
<1> SUFFICES ASSUME call'.paged, NEW k \in VAddr, moved'[k] # "no"
             PROVE  \/ pc' # "call" /\ k < pos'
                    \/ ~flying' /\ pc' \in {"wait", "returned"} /\ k < pos' + chunkLen'
  BY DEF UntouchedInv, VAddr
<1>1. call' = call
  BY DEF Next, Call, Proceed, Refuse, Nothing, SinglePhys, ReadPagemap, Head, Coalesce, StartTransfer,
         WaitOK, WaitFails, Transfer, MovePage, vars
<1>2. moved[k] # "no" =>
        (pc # "call" /\ k < pos) \/ (~flying /\ pc \in {"wait", "returned"} /\ k < pos + chunkLen)
  BY <1>1 DEF UntouchedInv
<1>3. k \in Nat /\ pos \in Nat /\ chunkLen \in Nat
  BY DmaAssumption DEF VAddr, LoopInv, TypeOK
<1> USE <1>2, <1>3
<1>4. CASE UNCHANGED vars \/ MovePage
  BY <1>4 DEF vars, loop, chunk, MovePage
<1>5. CASE Refuse \/ Nothing \/ WaitFails
  BY <1>5 DEF Refuse, Nothing, WaitFails, Return, loop, chunk
<1>6. CASE SinglePhys
  BY <1>1, <1>6 DEF SinglePhys
<1>7. CASE ReadPagemap
  BY <1>7 DEF ReadPagemap
<1>8. CASE Head \/ Coalesce \/ StartTransfer
  BY <1>8 DEF Head, Coalesce, StartTransfer, Return, loop, chunk
<1>9. CASE WaitOK
  BY <1>9 DEF WaitOK
<1>10. CASE Transfer
  <2>1. pc \in {"wait", "returned"} /\ ~flying' /\ UNCHANGED <<pc, pos, chunkLen>>
    BY <1>1, <1>10 DEF Transfer, FlyingInv, loop, chunk
  <2>2. k \in pos .. pos + chunkLen - 1 \/ moved'[k] = moved[k]
    BY <1>10 DEF Transfer
  <2>3. QED
    BY <2>1, <2>2
<1>11. QED
  BY <1>4, <1>5, <1>6, <1>7, <1>8, <1>9, <1>10 DEF Next, Call, Proceed

LEMMA ListedInvAlways == Spec => []ListedInv
<1>1. Init => ListedInv
  BY DEF Init, ListedInv, FlyingInv, UntouchedInv
<1>2. LoopInv /\ ListedInv /\ [Next]_vars => ListedInv'
  BY FlyingInvStep, UntouchedInvStep DEF ListedInv
<1>3. QED
  BY <1>1, <1>2, LoopInvAlways, PTL DEF Spec

\* Whatever pages the kernel moves during a paged call, a byte goes wrong only while
\* the entry of its own page in the copy is out of date.
THEOREM HarmStaysWithMovedPages == Spec => OnlyMovedPagesWrong
<1>1. ASSUME LoopInv, ListedInv, [Next]_vars, NEW k \in VAddr,
             call.paged, moved[k] # "wrong", moved'[k] = "wrong"
      PROVE  OutOfDate(k)
  <2>1. Transfer
    BY <1>1 DEF Next, Call, Proceed, Refuse, Nothing, SinglePhys, ReadPagemap, Head, Coalesce,
       StartTransfer, WaitOK, WaitFails, MovePage, vars
  <2>2. /\ k \in Nat /\ pos \in Nat /\ chunkLen \in Nat /\ call.start \in Nat /\ call.len \in Nat
    BY <1>1, DmaAssumption DEF VAddr, LoopInv, TypeOK, Calls
  <2>3. k \in pos .. pos + chunkLen - 1 /\ flying
    BY <1>1, <2>1 DEF Transfer
  <2>4. moved[k] = "no" /\ ~Holds(chunkPhys + (k - pos), call.start + k)
    <3>1. moved[k] = "no"
      BY <1>1, <2>2, <2>3 DEF ListedInv, UntouchedInv
    <3>2. QED
      BY <1>1, <2>1, <2>3, <3>1 DEF Transfer
  <2>5. Listed(chunkPhys + (k - pos), call.start + k)
    <3>1. k - pos \in 0 .. chunkLen - 1 /\ call.start + pos + (k - pos) = call.start + k
      BY <2>2, <2>3
    <3>2. QED
      BY <1>1, <2>3, <3>1 DEF ListedInv, FlyingInv, ChunkListed
  <2>6. PICK i \in 0 .. Num - 1 :
          /\ PageOf(call.start + k) = Base + i /\ pagemap[i] # Absent
          /\ chunkPhys + (k - pos) = Phys(pagemap[i], call.start + k)
    BY <2>5 DEF Listed
  <2>7. PageOf(call.start + k) - PageOf(call.start) = i
    <3>1. PageOf(call.start) \in Nat
      BY <2>2, PageOffset
    <3>2. QED
      BY <2>6, <3>1 DEF Base
  <2>8. pagemap[i] # pt[PageOf(call.start + k)]
    BY <2>4, <2>5, <2>6 DEF Holds, Listed
  <2>9. QED
    BY <2>7, <2>8 DEF OutOfDate
<1>2. LoopInv /\ ListedInv /\ [Next]_vars
        => [\A k \in VAddr : call.paged /\ moved[k] # "wrong" /\ moved'[k] = "wrong"
              => OutOfDate(k)]_vars
  BY <1>1
<1>3. QED
  BY <1>2, LoopInvAlways, ListedInvAlways, PTL DEF Spec, OnlyMovedPagesWrong

-----------------------------------------------------------------------------
(* Pinned pages: what is moved, and where.                                 *)

\* What the copy lists is where the bytes are.
LEMMA ListedHolds ==
    ASSUME EntriesInv, FlyingInv, call.paged, call.pinned, flying
    PROVE  ChunkHolds
<1>1. SUFFICES ASSUME NEW i \in 0 .. chunkLen - 1
               PROVE  Holds(chunkPhys + i, call.start + pos + i)
  BY DEF ChunkHolds
<1>2. Listed(chunkPhys + i, call.start + pos + i)
  BY DEF FlyingInv, ChunkListed
<1>3. QED
  BY <1>2 DEF Listed, EntriesInv, Holds

\* What a transfer leaves behind when its bytes are where the chunk says.
LEMMA TransferMoves ==
    ASSUME LoopInv, Upto(pos), ChunkHolds, Transfer
    PROVE  /\ \A k \in VAddr : moved'[k] = IF k < pos + chunkLen THEN "right" ELSE "no"
           /\ \A k \in VAddr : moved'[k] # "wrong"
<1>1. SUFFICES ASSUME NEW k \in VAddr
               PROVE  moved'[k] = IF k < pos + chunkLen THEN "right" ELSE "no"
  OBVIOUS
<1>2. k \in Nat /\ pos \in Nat /\ chunkLen \in Nat /\ call.start \in Nat
  BY DEF VAddr, LoopInv, TypeOK, Calls
<1>3. CASE k \in pos .. pos + chunkLen - 1
  <2>1. moved[k] = "no"
    BY <1>2, <1>3 DEF Upto
  <2>2. k - pos \in 0 .. chunkLen - 1 /\ call.start + pos + (k - pos) = call.start + k
    BY <1>2, <1>3
  <2>3. Holds(chunkPhys + (k - pos), call.start + k)
    BY <2>2 DEF ChunkHolds
  <2>4. moved'[k] = "right" /\ k < pos + chunkLen
    BY <1>2, <1>3, <2>1, <2>3 DEF Transfer
  <2>5. QED
    BY <2>4
<1>4. CASE k \notin pos .. pos + chunkLen - 1
  <2>1. moved'[k] = moved[k]
    BY <1>4 DEF Transfer
  <2>2. k < pos <=> k < pos + chunkLen
    BY <1>2, <1>4
  <2>3. QED
    BY <2>1, <2>2 DEF Upto
<1>5. QED
  BY <1>3, <1>4

LEMMA PinnedInvStep ==
    ASSUME call.pinned, LoopInv, LoopInv', ListedInv, PinnedInv, [Next]_vars
    PROVE  PinnedInv'
<1> USE DEF PinnedInv
<1>1. pt' = pt /\ call' = call
  BY DEF Next, Call, Proceed, Refuse, Nothing, SinglePhys, ReadPagemap, Head, Coalesce, StartTransfer,
         WaitOK, WaitFails, Transfer, MovePage, vars
<1>2. EntriesInv'
  <2>1. Base' = Base /\ Num' = Num
    BY <1>1 DEF Base, Num
  <2>2. CASE ReadPagemap
    <3>1. pagemap' = [i \in 0 .. Num - 1 |-> pt[Base + i]]
      BY <2>2 DEF ReadPagemap, Base, Num
    <3>2. QED
      BY <1>1, <2>1, <3>1 DEF EntriesInv
  <2>3. CASE pagemap' = pagemap /\ (Looping' \/ flying' => Looping \/ flying)
    BY <1>1, <2>1, <2>3 DEF EntriesInv
  <2>4. (pagemap' = pagemap /\ (Looping' \/ flying' => Looping \/ flying)) \/ ReadPagemap \/ SinglePhys
    BY <1>1 DEF Next, Call, Proceed, Refuse, Nothing, Head, Coalesce, StartTransfer,
       WaitOK, WaitFails, Transfer, MovePage, vars, Looping, Return, LoopInv, CursorInv, loop
  <2>5. CASE SinglePhys
    BY <1>1, <2>5 DEF SinglePhys, EntriesInv
  <2>6. QED
    BY <2>2, <2>3, <2>4, <2>5
<1>3. SUFFICES ASSUME call.paged
               PROVE  MovedInv' /\ NothingWrong'
  BY <1>1, <1>2 DEF MovedInv, NothingWrong
<1>4. \A k \in VAddr : moved[k] # "wrong"
  BY <1>3 DEF NothingWrong
<1>5. CASE moved' = moved
  <2> USE <1>3, <1>4, <1>5
  <2>1. NothingWrong'
    BY DEF NothingWrong
  <2>2. CASE UNCHANGED vars
    BY <2>1, <2>2 DEF vars, loop, chunk, MovedInv, Upto
  <2>3. CASE Refuse
    BY <1>1, <2>1, <2>3 DEF Refuse, Return, MovedInv, EINVAL, NOMEM, EIO, OK
  <2>4. CASE Nothing
    BY <1>1, <2>1, <2>4 DEF Nothing, Return, MovedInv, Upto
  <2>5. CASE SinglePhys
    BY <2>5 DEF SinglePhys
  <2>6. CASE ReadPagemap
    BY <1>1, <2>1, <2>6 DEF ReadPagemap, MovedInv, Upto
  <2>7. CASE Head
    <3>1. pc = "head" /\ ~flying /\ Upto(pos) /\ pos' = pos /\ ~flying'
      BY <2>7 DEF Head, MovedInv, loop
    <3>2. CASE pc' = "coalesce"
      <4>1. Upto(pos)'
        BY <3>1 DEF Upto
      <4>2. QED
        BY <2>1, <3>1, <3>2, <4>1 DEF MovedInv
    <3>3. CASE pc' = "returned" /\ rc' # OK
      BY <2>1, <3>1, <3>3 DEF MovedInv
    <3>4. CASE pc' = "returned" /\ remaining = 0
      <4>1. pos = call.len
        BY <3>1, <3>4 DEF LoopInv, TypeOK, CursorInv, Looping, Calls
      <4>2. Upto(call.len)'
        BY <1>1, <3>1, <4>1 DEF Upto
      <4>3. QED
        BY <2>1, <3>1, <3>4, <4>2 DEF MovedInv
    <3>5. QED
      BY <2>7, <3>2, <3>3, <3>4 DEF Head, Return, OK, EIO
  <2>8. CASE Coalesce
    <3>1. /\ pc = "coalesce" /\ pc' = pc /\ ~flying /\ ~flying' /\ Upto(pos) /\ pos' = pos
      BY <2>8 DEF Coalesce, MovedInv
    <3>2. Upto(pos)'
      BY <3>1 DEF Upto
    <3>3. QED
      BY <2>1, <3>1, <3>2 DEF MovedInv
  <2>9. CASE StartTransfer
    <3>1. /\ pc = "coalesce" /\ pc' = "wait" /\ flying' /\ Upto(pos)
          /\ UNCHANGED <<loop, chunk>>
      BY <2>9 DEF StartTransfer, MovedInv
    <3>2. Upto(pos)'
      BY <3>1 DEF Upto, loop
    <3>3. QED
      BY <2>1, <3>1, <3>2 DEF MovedInv
  <2>10. CASE WaitOK
    <3>1. pc = "wait" /\ pc' = "head" /\ ~flying /\ ~flying' /\ pos' = pos + chunkLen
      BY <2>10 DEF WaitOK
    <3>2. Upto(pos)'
      BY <3>1 DEF MovedInv, Upto
    <3>3. QED
      BY <2>1, <3>1, <3>2 DEF MovedInv
  <2>11. CASE WaitFails
    <3>1. pc = "wait" /\ pc' = "returned" /\ rc' # OK /\ UNCHANGED <<flying, loop, chunk>>
      BY <2>11 DEF WaitFails, Return, OK, EIO, EPROTO
    <3>2. flying => Upto(pos)'
      BY <3>1 DEF MovedInv, Upto, loop
    <3>3. QED
      BY <2>1, <3>1, <3>2 DEF MovedInv
  <2>12. CASE Transfer
    <3>1. /\ flying /\ ~flying' /\ Upto(pos) /\ ChunkHolds /\ pc \in {"wait", "returned"}
          /\ UNCHANGED <<pc, rc, loop, chunk>>
      BY <2>12, ListedHolds DEF Transfer, MovedInv, ListedInv
    <3>2. Upto(pos + chunkLen)'
      BY <2>12, <3>1, TransferMoves DEF Upto, loop, chunk
    <3>3. ~(pc = "returned" /\ rc = OK)
      BY <3>1 DEF MovedInv
    <3>4. QED
      BY <2>1, <3>1, <3>2, <3>3 DEF MovedInv
  <2>13. CASE MovePage
    BY <2>13 DEF MovePage
  <2>14. QED
    BY <2>2, <2>3, <2>4, <2>5, <2>6, <2>7, <2>8, <2>9, <2>10, <2>11, <2>12, <2>13
    DEF Next, Call, Proceed
<1>6. CASE Transfer
  <2>1. /\ flying /\ ~flying' /\ Upto(pos) /\ ChunkHolds /\ pc \in {"wait", "returned"}
        /\ UNCHANGED <<pc, rc, loop, chunk>>
    BY <1>3, <1>6, ListedHolds DEF Transfer, MovedInv, ListedInv
  <2>2. Upto(pos + chunkLen)' /\ \A k \in VAddr : moved'[k] # "wrong"
    BY <1>6, <2>1, TransferMoves DEF Upto, loop, chunk
  <2>3. ~(pc = "returned" /\ rc = OK)
    BY <1>3, <2>1 DEF MovedInv
  <2>4. QED
    BY <2>1, <2>2, <2>3 DEF MovedInv, NothingWrong
<1>7. QED
  BY <1>5, <1>6 DEF Next, Call, Proceed, Refuse, Nothing, SinglePhys, ReadPagemap, Head, Coalesce,
     StartTransfer, WaitOK, WaitFails, MovePage, vars

LEMMA PinnedInvAlways == Spec => []PinnedInv
<1>1. Init => PinnedInv
  BY DEF Init, PinnedInv, EntriesInv, MovedInv, NothingWrong, Upto, Looping
<1>2. LoopInv /\ LoopInv' /\ ListedInv /\ PinnedInv /\ [Next]_vars => PinnedInv'
  <2>1. SUFFICES ASSUME LoopInv, LoopInv', ListedInv, PinnedInv, [Next]_vars, ~call.pinned
                 PROVE  PinnedInv'
    BY PinnedInvStep
  <2>2. call' = call
    BY <2>1 DEF Next, Call, Proceed, Refuse, Nothing, SinglePhys, ReadPagemap, Head, Coalesce,
       StartTransfer, WaitOK, WaitFails, Transfer, MovePage, vars
  <2>3. QED
    BY <2>1, <2>2 DEF PinnedInv, EntriesInv, MovedInv, NothingWrong
<1>3. QED
  BY <1>1, <1>2, LoopInvAlways, ListedInvAlways, PTL DEF Spec

\* While the pages of the buffer stay where they are, no byte of a paged
\* transfer is ever taken from, or put into, memory that does not back it.
THEOREM PagedNeverWrong == Spec => []NothingWrong
BY PinnedInvAlways, PTL DEF PinnedInv

\* And a paged transfer that reports CIM_OK moved the whole buffer, once.
THEOREM PagedMovesAll == Spec => []AllMoved
<1>1. PinnedInv => AllMoved
  BY DEF PinnedInv, MovedInv, AllMoved, Upto
<1>2. QED
  BY <1>1, PinnedInvAlways, PTL

-----------------------------------------------------------------------------
(* Every call ends: at most four steps for a page of the buffer.           *)

ProgressInv ==
    /\ flying => pc \in {"wait", "returned"}
    /\ pc = "head" => pageIdx <= Num
    /\ pc \in {"coalesce", "wait"} => pageIdx < Num

PagesLeft == Num - pageIdx

\* A bound on the steps the call and the device still take.
StepsLeft ==
    CASE pc = "call"               -> 4 * Num + 2
      [] pc = "head"               -> 4 * PagesLeft + 1
      [] pc = "coalesce"           -> 4 * PagesLeft
      [] pc = "wait" /\ flying     -> 4 * PagesLeft - 1
      [] pc = "wait" /\ ~flying    -> 4 * PagesLeft - 2
      [] pc = "returned" /\ flying -> 1
      [] OTHER                     -> 0

StepsBounded == StepsLeft \in 0 .. 4 * Num + 2

CallDescends == MovePage \/ StepsLeft' < StepsLeft

LEMMA NumNat ==
    ASSUME TypeOK, CallInv
    PROVE  Num \in Nat /\ (call.len > 0 => Num > 0)
<1>1. call.start \in Nat /\ call.len \in Nat /\ PageSize \in Nat \ {0}
  BY DmaAssumption DEF TypeOK, Calls, VAddr
<1>2. CASE call.len = 0
  BY <1>1, <1>2 DEF Num, NumPages
<1>3. CASE call.len > 0
  BY <1>1, <1>3, Span
<1>4. QED
  BY <1>1, <1>2, <1>3

LEMMA CallStays ==
    ASSUME [Next]_vars
    PROVE  call' = call /\ Num' = Num
BY DEF Next, Call, Proceed, Refuse, Nothing, SinglePhys, ReadPagemap, Head, Coalesce, StartTransfer,
       WaitOK, WaitFails, Transfer, MovePage, vars, Num

LEMMA ProgressInvStep ==
    ASSUME LoopInv, ProgressInv, [Next]_vars
    PROVE  ProgressInv'
<1>1. Num \in Nat /\ (call.len > 0 => Num > 0) /\ Num' = Num /\ pageIdx \in Nat
  BY NumNat, CallStays DEF LoopInv, TypeOK
<1>2. PagemapInBounds
  BY Bounds
<1>3. Looping => DOMAIN pagemap = 0 .. Num - 1
  BY DEF LoopInv, CursorInv
<1> USE <1>1 DEF ProgressInv
<1>4. CASE Refuse \/ Nothing \/ WaitFails
  BY <1>4 DEF Refuse, Nothing, WaitFails, Return
<1>5. CASE SinglePhys
  BY <1>5 DEF SinglePhys, Return
<1>6. CASE ReadPagemap
  BY <1>6 DEF ReadPagemap
<1>7. CASE Head
  <2>1. pc = "head" /\ UNCHANGED <<flying, pageIdx>>
    BY <1>7 DEF Head, loop
  <2>2. CASE pc' = "coalesce"
    <3>1. remaining > 0
      BY <1>7, <2>2 DEF Head, Return
    <3>2. pageIdx \in 0 .. Num - 1
      BY <1>2, <1>3, <2>1, <3>1 DEF PagemapInBounds, Looping
    <3>3. QED
      BY <2>1, <2>2, <3>2
  <2>3. QED
    BY <1>7, <2>1, <2>2 DEF Head, Return
<1>8. CASE Coalesce
  <2>1. pc = "coalesce" /\ chunkLen < remaining /\ pageIdx' = pageIdx + 1
        /\ UNCHANGED <<pc, flying>>
    BY <1>8 DEF Coalesce, CanCoalesce
  <2>2. pageIdx + 1 \in 0 .. Num - 1
    BY <1>2, <1>3, <2>1 DEF PagemapInBounds, Looping
  <2>3. QED
    BY <2>1, <2>2
<1>9. CASE StartTransfer
  BY <1>9 DEF StartTransfer, loop
<1>10. CASE WaitOK
  BY <1>10 DEF WaitOK, Return
<1>11. CASE Transfer
  BY <1>11 DEF Transfer, loop
<1>12. CASE MovePage
  BY <1>12 DEF MovePage, loop
<1>13. CASE UNCHANGED vars
  BY <1>13 DEF vars, loop
<1>14. QED
  BY <1>4, <1>5, <1>6, <1>7, <1>8, <1>9, <1>10, <1>11, <1>12, <1>13 DEF Next, Call, Proceed

LEMMA ProgressInvAlways == Spec => []ProgressInv
<1>1. Init => ProgressInv
  BY DEF Init, ProgressInv
<1>2. LoopInv /\ ProgressInv /\ [Next]_vars => ProgressInv'
  BY ProgressInvStep
<1>3. QED
  BY <1>1, <1>2, LoopInvAlways, ListedInvAlways, PTL DEF Spec

\* A chunk uses up its pages, so neither the look-ahead nor a page the kernel
\* moves under the call makes the loop go round again.
LEMMA Descends ==
    ASSUME LoopInv, ProgressInv, [Next]_vars
    PROVE  [CallDescends]_vars
<1>1. /\ Num \in Nat /\ (call.len > 0 => Num > 0) /\ Num' = Num /\ pageIdx \in Nat
      /\ flying \in BOOLEAN /\ call.paged \in BOOLEAN
  BY NumNat, CallStays DEF LoopInv, TypeOK, Calls
<1>2. flying => pc \in {"wait", "returned"}
  BY DEF ProgressInv
<1>3. pc = "head" => pageIdx <= Num
  BY DEF ProgressInv
<1>4. pc \in {"coalesce", "wait"} => pageIdx < Num
  BY DEF ProgressInv
<1>5. SUFFICES ASSUME Next, ~MovePage
               PROVE  StepsLeft' < StepsLeft
  BY DEF CallDescends
<1> USE <1>1, <1>2, <1>3, <1>4 DEF StepsLeft, PagesLeft
<1>6. CASE Refuse \/ Nothing
  BY <1>6 DEF Refuse, Nothing, Return
<1>7. CASE SinglePhys
  <2>1. CASE pc' = "returned" /\ flying' = flying
    BY <1>7, <2>1 DEF SinglePhys
  <2>2. CASE pc' = "wait" /\ flying' = TRUE /\ pageIdx' = 0
    BY <1>7, <2>2 DEF SinglePhys
  <2>3. QED
    BY <1>7, <2>1, <2>2 DEF SinglePhys, Return
<1>8. CASE ReadPagemap
  BY <1>8 DEF ReadPagemap
<1>9. CASE Head
  <2>1. pc = "head" /\ pc' \in {"returned", "coalesce"} /\ UNCHANGED <<flying, pageIdx>>
    BY <1>9 DEF Head, Return, loop
  <2>2. QED
    BY <2>1
<1>10. CASE Coalesce
  BY <1>10 DEF Coalesce
<1>11. CASE StartTransfer
  BY <1>11 DEF StartTransfer, loop
<1>12. CASE WaitOK
  <2>1. pc = "wait" /\ ~flying /\ ~flying' /\ pageIdx' = pageIdx + 1
        /\ pc' \in {"head", "returned"}
    BY <1>12 DEF WaitOK, Return
  <2>2. QED
    BY <2>1
<1>13. CASE WaitFails
  BY <1>13 DEF WaitFails, Return, loop
<1>14. CASE Transfer
  BY <1>14 DEF Transfer, loop
<1>15. QED
  BY <1>5, <1>6, <1>7, <1>8, <1>9, <1>10, <1>11, <1>12, <1>13, <1>14 DEF Next, Call, Proceed

\* cim_dma_write_sram and cim_dma_read_sram are bounded: with the one transfer
\* they may leave running, they take at most 4 * Num + 2 steps, Num being the
\* number of pages the buffer touches, whatever the page table holds, whatever
\* chunks are joined, and however often the kernel moves a page meanwhile.
THEOREM DmaCallBounded == Spec => []StepsBounded /\ [][CallDescends]_vars
<1>1. LoopInv /\ ProgressInv => StepsBounded
  <2>1. SUFFICES ASSUME LoopInv, ProgressInv
                 PROVE  StepsBounded
    OBVIOUS
  <2>2. Num \in Nat /\ pageIdx \in Nat
    BY <2>1, NumNat DEF LoopInv, TypeOK
  <2>3. QED
    BY <2>1, <2>2 DEF ProgressInv, StepsBounded, StepsLeft, PagesLeft
<1>2. LoopInv /\ ProgressInv /\ [Next]_vars => [CallDescends]_vars
  BY Descends
<1>3. QED
  BY <1>1, <1>2, LoopInvAlways, ProgressInvAlways, PTL DEF Spec

=============================================================================
