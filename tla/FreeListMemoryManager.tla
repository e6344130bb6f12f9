----------------------- MODULE FreeListMemoryManager -----------------------
(***************************************************************************)
(* kernel/memory/manager/FreeListMemoryManager.cpp: the kernel heap.  Free *)
(* memory is a list of chunks in the order of their addresses, every chunk *)
(* and every allocated block begins with a header that holds its size.     *)
(* The unit is the word of four bytes, to which alloc() rounds.  A call is *)
(* one step: it runs under the lock of the manager.  Nothing in the        *)
(* repository asks for an aligned block, so alignment is 0 throughout.     *)
(***************************************************************************)
EXTENDS Integers, Sequences, FiniteSetsExt, Functions

CONSTANTS
  Words,       \* size of the heap
  Sizes        \* sizes that are requested

HeaderSize == 3

MinBlockSize == 1

(* The heap has room for the first header.                                  *)
ASSUME HeapAssumption ==
  /\ Words \in Nat /\ Words >= HeaderSize
  /\ Sizes \subseteq Nat

VARIABLES
  chunks,      \* the free list: sequence of [at |-> address of the header, size]
  blocks,      \* what is allocated: set of [at, size], read from the headers
  freeMemory,
  result       \* of the last call: "ok", "nullptr" or "fault"

heapVars == <<chunks, blocks, freeMemory, result>>

Chunk(at, size) == [at |-> at, size |-> size]

Data(c) == c.at + HeaderSize

EndOf(c) == c.at + HeaderSize + c.size

HeapInit ==
  /\ chunks = <<Chunk(0, Words - HeaderSize)>>
  /\ blocks = {}
  /\ freeMemory = Words - HeaderSize
  /\ result = "ok"

-----------------------------------------------------------------------------
(* A chunk is taken out of the list, and put into it as number k: prev and  *)
(* next of the chunks around it are changed.                                *)
Unlink(list, k) ==
  [j \in 1 .. Len(list) - 1 |-> IF j < k THEN list[j] ELSE list[j + 1]]

Link(list, k, c) ==
  [j \in 1 .. Len(list) + 1 |->
     IF j < k THEN list[j] ELSE IF j = k THEN c ELSE list[j - 1]]

(* Variant: the rest of the chunk is cut off without room for its header.   *)
TakeWithoutHeader(list, i, size) ==
  LET c == list[i] IN
  IF c.size - size >= MinBlockSize + HeaderSize
    THEN [list  |-> [list EXCEPT ![i] = Chunk(EndOf(c) - (c.size - size), c.size - size)],
          block |-> Chunk(c.at, size), cost |-> HeaderSize + size]
    ELSE [list  |-> Unlink(list, i), block |-> c, cost |-> c.size]

(* The chunk with index i is sliced in two or taken as a whole.             *)
Take(list, i, size) ==
  LET c == list[i] IN
  IF c.size - size >= MinBlockSize + HeaderSize
    THEN [list  |-> [list EXCEPT ![i] = Chunk(Data(c) + size, c.size - size - HeaderSize)],
          block |-> Chunk(c.at, size), cost |-> HeaderSize + size]
    ELSE [list  |-> Unlink(list, i), block |-> c, cost |-> c.size]

(* allocAlgorithm() takes the first of the chunks from "start" on that fit. *)
Fitting(list, size, start) ==
  {i \in start .. Len(list) : size # 0 /\ list[i].size >= size}

AllocAlgorithm(list, size, start) == Take(list, Min(Fitting(list, size, start)), size)

-----------------------------------------------------------------------------
(* freeAlgorithm(): the block is put before the first chunk behind it ...   *)
PlaceOf(list, b) ==
  Min({i \in 1 .. Len(list) : list[i].at > b.at} \cup {Len(list) + 1})

Adjacent(list, i) ==
  i \in 1 .. Len(list) - 1 /\ EndOf(list[i]) = list[i + 1].at

(* Two neighbours become one chunk.                                         *)
Join(list, i) ==
  Unlink([list EXCEPT ![i] = Chunk(list[i].at, list[i].size + list[i + 1].size + HeaderSize)],
         i + 1)

(* ... and merge()d with the chunk behind it, then the one before it.       *)
Merge(list, i) ==
  LET after == IF Adjacent(list, i) THEN Join(list, i) ELSE list IN
  IF Adjacent(after, i - 1) THEN Join(after, i - 1) ELSE after

FreeAlgorithm(list, b) == Merge(Link(list, PlaceOf(list, b), b), PlaceOf(list, b))

(* What freeMemory gains: the block, and a header for every merge.          *)
FreeGain(list, b) ==
  b.size + HeaderSize * (Len(list) + 1 - Len(FreeAlgorithm(list, b)))

-----------------------------------------------------------------------------
Running == result # "fault"

Alloc(size) ==
  LET a == AllocAlgorithm(chunks, size, 1) IN
  /\ Running
  /\ IF Fitting(chunks, size, 1) = {}
       THEN result' = "nullptr" /\ UNCHANGED <<chunks, blocks, freeMemory>>
       ELSE /\ chunks' = a.list
            /\ freeMemory' = freeMemory - a.cost
            /\ blocks' = blocks \cup {a.block}
            /\ result' = "ok"

Release(b) ==
  /\ chunks' = FreeAlgorithm(chunks, b)
  /\ freeMemory' = freeMemory + FreeGain(chunks, b)
  /\ blocks' = blocks \ {b}

Free(b) == Running /\ Release(b) /\ result' = "ok"

(* realloc() of a block that has to grow looks at the first chunk and at    *)
(* the others before the block, for the smallest one that is large enough,  *)
(* and then at the chunk after them.                                        *)
Behind(b) == {i \in 2 .. Len(chunks) : chunks[i].at >= Data(b)}

Scanned(b) == {i \in 1 .. Len(chunks) : \A j \in Behind(b) : i < j}

ReturnChunk(b, size) ==
  LET large == {i \in Scanned(b) : chunks[i].size >= size} IN
  IF large = {} THEN 1
  ELSE CHOOSE i \in large :
         \A j \in large : chunks[i].size < chunks[j].size
                          \/ (chunks[i].size = chunks[j].size /\ i <= j)

CanGrowInPlace(b, size) ==
  LET k == Min(Behind(b)) IN
  /\ Behind(b) # {}
  /\ EndOf(b) = chunks[k].at
  /\ b.size + chunks[k].size + HeaderSize >= size

(* The chunk behind the block is added to it, the rest given back.          *)
GrowInPlace(b, size) ==
  LET k    == Min(Behind(b))
      sum  == b.size + chunks[k].size + HeaderSize
      list == Unlink(chunks, k)
      rest == Chunk(Data(b) + size, sum - size - HeaderSize)
  IN  /\ result' = "ok"
      /\ IF sum - size > HeaderSize + MinBlockSize
           THEN /\ chunks' = FreeAlgorithm(list, rest)
                /\ freeMemory' = freeMemory - chunks[k].size + FreeGain(list, rest)
                /\ blocks' = (blocks \ {b}) \cup {Chunk(b.at, size)}
           ELSE /\ chunks' = list
                /\ freeMemory' = freeMemory - chunks[k].size
                /\ blocks' = (blocks \ {b}) \cup {Chunk(b.at, sum)}

(* A new block is allocated, the content copied and the old block freed.    *)
Move(b, size) ==
  LET start == ReturnChunk(b, size)
      a     == AllocAlgorithm(chunks, size, start)
  IN
  IF Fitting(chunks, size, start) = {}
    THEN result' = "nullptr" /\ UNCHANGED <<chunks, blocks, freeMemory>>
    ELSE /\ chunks' = FreeAlgorithm(a.list, b)
         /\ freeMemory' = freeMemory - a.cost + FreeGain(a.list, b)
         /\ blocks' = (blocks \ {b}) \cup {a.block}
         /\ result' = "ok"

(* realloc() without an alignment.  The search for more space begins with   *)
(* the first chunk without asking whether there is one.  A block that is    *)
(* large enough stays as it is; no caller in the kernel shrinks a block so  *)
(* far that the rest would be given back.                                   *)
Realloc(b, size) ==
  /\ Running
  /\ size = 0 \/ b.size - size <= MinBlockSize + HeaderSize
  /\ IF size = 0 THEN Release(b) /\ result' = "nullptr"
     ELSE IF size <= b.size THEN result' = "ok" /\ UNCHANGED <<chunks, blocks, freeMemory>>
     ELSE IF chunks = << >> THEN result' = "fault" /\ UNCHANGED <<chunks, blocks, freeMemory>>
     ELSE IF CanGrowInPlace(b, size) THEN GrowInPlace(b, size)
     ELSE Move(b, size)

HeapNext ==
  \/ \E size \in Sizes : Alloc(size)
  \/ \E b \in blocks : Free(b)
  \/ \E b \in blocks, size \in Sizes : Realloc(b, size)

HeapSpec == HeapInit /\ [][HeapNext]_heapVars

-----------------------------------------------------------------------------
Extent(c) == c.at .. EndOf(c) - 1

Regions == blocks \cup Range(chunks)

(* No word belongs to two blocks, to a block and the free list, or to       *)
(* memory outside of the heap.                                              *)
NoOverlap ==
  /\ \A c, d \in Regions : c # d => Extent(c) \cap Extent(d) = {}
  /\ \A c \in Regions : EndOf(c) <= Words

(* No word is lost: blocks and chunks cover the heap.                       *)
NoLeak ==
  0 .. Words - 1 = UNION {Extent(c) : c \in Regions}

(* The free list is in the order of the addresses and two neighbours in it  *)
(* never touch: whatever can be merged has been merged.                     *)
ListIsCanonical ==
  \A i \in 1 .. Len(chunks) - 1 : EndOf(chunks[i]) < chunks[i + 1].at

(* The sizes of the first chunks of a list, added up.                       *)
SumTo(list) ==
  LET sum[i \in 0 .. Len(list)] == IF i = 0 THEN 0 ELSE sum[i - 1] + list[i].size
  IN  sum

(* getFreeMemory() is the sum of the chunks, whatever was split and merged. *)
FreeMemoryIsExact == freeMemory = SumTo(chunks)[Len(chunks)]

(* Blocks and free chunks never overlap and cover the heap, the free list   *)
(* is in order and merged and its sum is getFreeMemory(), whatever the      *)
(* order of alloc(), realloc() and free().                                  *)
HeapIsTiled == NoOverlap /\ NoLeak /\ ListIsCanonical /\ FreeMemoryIsExact
============================================================================
