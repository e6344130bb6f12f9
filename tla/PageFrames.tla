----------------------------- MODULE PageFrames -----------------------------
(***************************************************************************)
(* Physical memory: kernel/core/Management.cpp with the bitmaps of the     *)
(* page frames, of the virtual IO pages and of the ISA DMA blocks.  Pages  *)
(* of the heap get a frame in the page fault handler, with interrupts off; *)
(* mapIO(), freeIO() and the heap's unmap() run in threads and update the  *)
(* bitmap of the frames without a lock, by a load and a store of a word.   *)
(* A call that finds no memory throws an exception, which halts the        *)
(* system: such steps are left out.                                        *)
(***************************************************************************)
EXTENDS Integers, Sequences, FiniteSetsExt, Functions

CONSTANTS
  Threads,
  NumRam,        \* frames 0 .. NumRam - 1 are RAM
  NumReserved,   \* the first ones belong to the kernel, the BIOS and ISA DMA
  DmaFrames,     \* blocks of IsaDmaMemoryManager, among the reserved frames
  DeviceFrames,  \* memory of devices, outside of RAM
  NumHeapPages,
  NumIoPages,
  PageSize,      \* addresses per page
  Nil

Ram == 0 .. NumRam - 1
ReservedFrames == 0 .. NumReserved - 1
HeapPages == 0 .. NumHeapPages - 1
IoPages == NumHeapPages .. NumHeapPages + NumIoPages - 1
Pages == HeapPages \cup IoPages

(* Blocks of virtual IO pages.                                              *)
Block(first, n) == [first |-> first, count |-> n]

PagesOf(b) == b.first .. b.first + b.count - 1

(* The DMA blocks are reserved; device memory is no RAM.                    *)
ASSUME FramesAssumption ==
  /\ NumRam \in Nat /\ NumReserved \in Nat /\ NumReserved <= NumRam
  /\ NumHeapPages \in Nat /\ NumIoPages \in Nat /\ PageSize \in Nat \ {0}
  /\ DmaFrames \subseteq ReservedFrames
  /\ DeviceFrames \subseteq Nat /\ DeviceFrames \cap Ram = {}
  /\ Nil \notin Nat /\ Nil \notin Threads /\ Nil \notin [first : Nat, count : Nat]

VARIABLES
  frameBitmap, \* bitmap of the PageFrameAllocator
  freeFrames,  \* its free memory, in frames
  pageEntry,   \* the page table entries: page -> frame or Nil
  ioUsed,      \* bitmap of the IOMemoryManager
  ioMap,       \* ioMemoryMap: the blocks
  dmaUsed,     \* bitmap of the IsaDmaMemoryManager
  ioLock,      \* the thread that has the lock of the IOMemoryManager
  heapLock,    \* the thread that has the lock of the heap
  mpc,         \* per thread: what it does next
  job          \* per thread: its local variables

framesVars ==
  <<frameBitmap, freeFrames, pageEntry, ioUsed, ioMap, dmaUsed, ioLock, heapLock, mpc, job>>

NoJob == [frames |-> << >>, word |-> {}, pages |-> << >>, io |-> Nil, range |-> Nil]

FramesInit ==
  /\ frameBitmap = ReservedFrames
  /\ freeFrames = NumRam - NumReserved
  /\ pageEntry = [p \in Pages |-> Nil]
  /\ ioUsed = {} /\ ioMap = {} /\ dmaUsed = {}
  /\ ioLock = Nil /\ heapLock = Nil
  /\ mpc = [t \in Threads |-> "idle"]
  /\ job = [t \in Threads |-> NoJob]

(* Bitmap::findAndSet(): the start of the first run of n clear bits in      *)
(* low .. high, and Nil if there is none.                                   *)
FirstFit(set, low, high, n) ==
  LET starts == {i \in low .. high - n + 1 : (i .. i + n - 1) \cap set = {}} IN
  IF starts = {} THEN Nil ELSE Min(starts)

Run(first, n) == [i \in 1 .. n |-> first + i - 1]

-----------------------------------------------------------------------------
(* trigger() and map(): a thread touches a page of the heap that is not     *)
(* present.  The pages of a chunk that is being freed belong to nobody.     *)
Fault(t, p) ==
  LET f == FirstFit(frameBitmap, 0, NumRam - 1, 1) IN
  /\ mpc[t] = "idle"
  /\ pageEntry[p] = Nil /\ f # Nil
  /\ \A u \in Threads : p \notin Range(job[u].pages)
  /\ frameBitmap' = frameBitmap \cup {f}
  /\ freeFrames' = freeFrames - 1
  /\ pageEntry' = [pageEntry EXCEPT ![p] = f]
  /\ UNCHANGED <<ioUsed, ioMap, dmaUsed, ioLock, heapLock, mpc, job>>

(* mapIO(size): the bitmap of the frames is searched ...                    *)
MapIO(t, n) ==
  LET f == FirstFit(frameBitmap, 0, NumRam - 1, n) IN
  /\ mpc[t] = "idle" /\ f # Nil
  /\ job' = [job EXCEPT ![t].frames = Run(f, n)]
  /\ mpc' = [mpc EXCEPT ![t] = "load"]
  /\ UNCHANGED <<frameBitmap, freeFrames, pageEntry, ioUsed, ioMap, dmaUsed, ioLock, heapLock>>

(* ... its word is loaded ...                                               *)
LoadWord(t) ==
  /\ mpc[t] \in {"load", "freeLoad"}
  /\ job' = [job EXCEPT ![t].word = frameBitmap]
  /\ mpc' = [mpc EXCEPT ![t] = IF mpc[t] = "load" THEN "store" ELSE "freeStore"]
  /\ UNCHANGED <<frameBitmap, freeFrames, pageEntry, ioUsed, ioMap, dmaUsed, ioLock, heapLock>>

(* ... and stored with the bits set.                                        *)
StoreSet(t) ==
  /\ mpc[t] = "store"
  /\ frameBitmap' = job[t].word \cup Range(job[t].frames)
  /\ freeFrames' = freeFrames - Len(job[t].frames)
  /\ job' = [job EXCEPT ![t].word = {}]
  /\ mpc' = [mpc EXCEPT ![t] = "mapBlock"]
  /\ UNCHANGED <<pageEntry, ioUsed, ioMap, dmaUsed, ioLock, heapLock>>

(* mapIO(physAddress, size): the frames are given.  allocDmaBuffer() gives  *)
(* the first free block of the DMA memory.                                  *)
MapDevice(t, f) ==
  /\ mpc[t] = "idle"
  /\ job' = [job EXCEPT ![t].frames = <<f>>]
  /\ mpc' = [mpc EXCEPT ![t] = "mapBlock"]
  /\ UNCHANGED <<frameBitmap, freeFrames, pageEntry, ioUsed, ioMap, dmaUsed, ioLock, heapLock>>

AllocDma(t) ==
  /\ mpc[t] = "idle" /\ DmaFrames \ dmaUsed # {}
  /\ LET f == Min(DmaFrames \ dmaUsed) IN
       /\ dmaUsed' = dmaUsed \cup {f}
       /\ job' = [job EXCEPT ![t].frames = <<f>>]
  /\ mpc' = [mpc EXCEPT ![t] = "mapBlock"]
  /\ UNCHANGED <<frameBitmap, freeFrames, pageEntry, ioUsed, ioMap, ioLock, heapLock>>

(* IOMemoryManager::alloc() finds virtual pages and notes their number;     *)
(* then every page is mapped to its frame.                                  *)
MapFirstFit(t) ==
  LET n     == Len(job[t].frames)
      first == FirstFit(ioUsed, NumHeapPages, NumHeapPages + NumIoPages - 1, n)
  IN  /\ mpc[t] = "mapBlock" /\ first # Nil
      /\ ioUsed' = ioUsed \cup PagesOf(Block(first, n))
      /\ ioMap' = ioMap \cup {Block(first, n)}
      /\ pageEntry' = [p \in Pages |-> IF p \in PagesOf(Block(first, n))
                                         THEN job[t].frames[p - first + 1] ELSE pageEntry[p]]
      /\ mpc' = [mpc EXCEPT ![t] = "idle"]
      /\ job' = [job EXCEPT ![t] = NoJob]
      /\ UNCHANGED <<frameBitmap, freeFrames, dmaUsed, ioLock, heapLock>>

(* The lock of the IOMemoryManager is needed for it.                        *)
MapBlock(t) == ioLock = Nil /\ MapFirstFit(t)

-----------------------------------------------------------------------------
(* IOMemoryManager::free(), from freeIO().  DMA blocks stay: nothing calls  *)
(* freeDmaBuffer().                                                         *)
FreeIO(t, b) ==
  /\ mpc[t] = "idle" /\ ioLock = Nil
  /\ pageEntry[b.first] \notin DmaFrames
  /\ ioLock' = t
  /\ job' = [job EXCEPT ![t].pages = Run(b.first, b.count), ![t].io = b]
  /\ mpc' = [mpc EXCEPT ![t] = "unmap"]
  /\ UNCHANGED <<frameBitmap, freeFrames, pageEntry, ioUsed, ioMap, dmaUsed, heapLock>>

Floor(a) == (a \div PageSize) * PageSize

(* unmap(start, end): the pages of the range ...                            *)
UnmapRange(start, end) ==
  LET startVAddr == Floor(start) + (IF start % PageSize # 0 THEN PageSize ELSE 0)
      endVAddr   == Floor(end) - (IF (end + 1) % PageSize # 0 THEN PageSize ELSE 0)
  IN  IF endVAddr < start THEN << >>
      ELSE Run(startVAddr \div PageSize, (endVAddr - startVAddr) \div PageSize + 1)

(* ... until three in a row were not present.                               *)
UntilThreeAbsent(pages) ==
  LET stops == {i \in 3 .. Len(pages) : \A j \in i - 2 .. i : pageEntry[pages[j]] = Nil} IN
  IF stops = {} THEN pages ELSE SubSeq(pages, 1, Min(stops))

(* The end of freeAlgorithm(): a free chunk has become start .. end.        *)
HeapFree(t, start, end) ==
  /\ mpc[t] = "idle" /\ heapLock = Nil
  /\ heapLock' = t
  /\ job' = [job EXCEPT ![t].pages = UntilThreeAbsent(UnmapRange(start, end)),
                        ![t].range = [start |-> start, end |-> end]]
  /\ mpc' = [mpc EXCEPT ![t] = "unmap"]
  /\ UNCHANGED <<frameBitmap, freeFrames, pageEntry, ioUsed, ioMap, dmaUsed, ioLock>>

(* Variant: the entry of the page stays present.                            *)
UnmapPageKeep(t) ==
  /\ mpc[t] = "unmap" /\ job[t].pages # << >>
  /\ LET p == Head(job[t].pages) IN
       /\ ioUsed' = ioUsed \ {p}
       /\ job' = [job EXCEPT ![t].pages = Tail(@), ![t].frames = <<pageEntry[p]>>]
       /\ mpc' = [mpc EXCEPT ![t] = IF pageEntry[p] \in Ram THEN "freeLoad" ELSE "unmap"]
  /\ UNCHANGED <<frameBitmap, freeFrames, pageEntry, ioMap, dmaUsed, ioLock, heapLock>>

(* PageDirectory::unmap(); the frame is freed if it is RAM.                 *)
UnmapPage(t) ==
  /\ mpc[t] = "unmap" /\ job[t].pages # << >>
  /\ LET p == Head(job[t].pages) IN
       /\ ioUsed' = ioUsed \ {p}
       /\ pageEntry' = [pageEntry EXCEPT ![p] = Nil]
       /\ job' = [job EXCEPT ![t].pages = Tail(@), ![t].frames = <<pageEntry[p]>>]
       /\ mpc' = [mpc EXCEPT ![t] = IF pageEntry[p] \in Ram THEN "freeLoad" ELSE "unmap"]
  /\ UNCHANGED <<frameBitmap, freeFrames, ioMap, dmaUsed, ioLock, heapLock>>

StoreUnset(t) ==
  /\ mpc[t] = "freeStore"
  /\ frameBitmap' = job[t].word \ Range(job[t].frames)
  /\ freeFrames' = freeFrames + 1
  /\ mpc' = [mpc EXCEPT ![t] = "unmap"]
  /\ job' = [job EXCEPT ![t].frames = << >>, ![t].word = {}]
  /\ UNCHANGED <<pageEntry, ioUsed, ioMap, dmaUsed, ioLock, heapLock>>

EndFree(t) ==
  /\ mpc[t] = "unmap" /\ job[t].pages = << >>
  /\ ioMap' = ioMap \ {job[t].io}
  /\ ioLock' = IF ioLock = t THEN Nil ELSE ioLock
  /\ heapLock' = IF heapLock = t THEN Nil ELSE heapLock
  /\ mpc' = [mpc EXCEPT ![t] = "idle"]
  /\ job' = [job EXCEPT ![t] = NoJob]
  /\ UNCHANGED <<frameBitmap, freeFrames, pageEntry, ioUsed, dmaUsed>>

HeapEnd == NumHeapPages * PageSize - 1

FramesNext ==
  \E t \in Threads :
    \/ \E p \in HeapPages : Fault(t, p)
    \/ \E n \in 1 .. NumIoPages : MapIO(t, n)
    \/ LoadWord(t) \/ StoreSet(t) \/ MapBlock(t)
    \/ \E f \in DeviceFrames : MapDevice(t, f)
    \/ AllocDma(t)
    \/ \E b \in ioMap : FreeIO(t, b)
    \/ \E start, end \in 0 .. HeapEnd : start <= end /\ HeapFree(t, start, end)
    \/ UnmapPage(t) \/ StoreUnset(t) \/ EndFree(t)

FramesSpec == FramesInit /\ [][FramesNext]_framesVars

-----------------------------------------------------------------------------
Mapped(f) == {p \in Pages : pageEntry[p] = f}

InFlight == UNION {Range(job[t].frames) : t \in Threads}

(* A frame of RAM is behind at most one page, whether it was given out by a *)
(* page fault, by mapIO() or by allocDmaBuffer().                           *)
OneOwner == \A p, q \in Pages : pageEntry[p] \in Ram /\ pageEntry[p] = pageEntry[q] => p = q

(* The bitmap knows every frame that is mapped: what a page table refers to *)
(* cannot be given out again.                                               *)
MappedIsUsed == \A p \in Pages : pageEntry[p] \in Ram => pageEntry[p] \in frameBitmap

(* No frame is lost: those in use are reserved, mapped, or in the hands of  *)
(* a thread inside mapIO() or unmap().                                      *)
NoFrameLost == \A f \in frameBitmap : f \in ReservedFrames \cup InFlight \/ Mapped(f) # {}

(* unmap(start, end) takes no page that reaches beyond the freed range and  *)
(* could hold somebody's data.                                              *)
OnlyWholePages ==
  \A t \in Threads : job[t].range # Nil =>
    \A p \in Range(job[t].pages) :
      job[t].range.start <= p * PageSize /\ (p + 1) * PageSize - 1 <= job[t].range.end

(* The blocks that ioMemoryMap knows are disjoint, and outside of free()    *)
(* the bitmap of the IO pages is their union and all of them are mapped.    *)
IoBlocks ==
  /\ \A b, c \in ioMap : b # c => PagesOf(b) \cap PagesOf(c) = {}
  /\ ioLock = Nil =>
       /\ ioUsed = UNION {PagesOf(b) : b \in ioMap}
       /\ \A p \in IoPages : pageEntry[p] # Nil <=> p \in ioUsed

(* A frame is behind one page, marked as used, and never lost, unmap() only *)
(* takes whole pages, and the blocks of mapIO() are kept apart.             *)
FramesAccounted == OneOwner /\ MappedIsUsed /\ NoFrameLost /\ OnlyWholePages /\ IoBlocks
=============================================================================
