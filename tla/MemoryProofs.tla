---------------------------- MODULE MemoryProofs ----------------------------
(***************************************************************************)
(* The kernel heap (FreeListMemoryManager) is tiled by its blocks and free *)
(* chunks, for a heap of any size and requests of any sizes.               *)
(*                                                                         *)
(* The calls are made of edits of the free list (a chunk is unlinked,      *)
(* replaced or linked) and of the set of tiles (one is cut in two, two are *)
(* joined).  What is proved of them is stated of values rather than of     *)
(* variables, so that the edits can be put together.                       *)
(***************************************************************************)
EXTENDS FreeListMemoryManager, QueueLemmas

(* The provers get time enough for a slow machine.                          *)
USE SMTT(60)

ChunkType == [at : Nat, size : Nat]

(* s holds the sums of the sizes of the first chunks of the list.           *)
Sums(list, s) ==
  /\ s \in [0 .. Len(list) -> Int]
  /\ s[0] = 0
  /\ \A i \in 1 .. Len(list) : s[i] = s[i - 1] + list[i].size

(* Such sums are what SumTo() computes.                                     *)
LEMMA SumsAreSumTo ==
  ASSUME NEW list \in Seq(ChunkType), NEW s, Sums(list, s)
  PROVE  SumTo(list) = s
  <1> DEFINE Solves(f) == f = [i \in 0 .. Len(list) |-> IF i = 0 THEN 0 ELSE f[i - 1] + list[i].size]
             t == SumTo(list)
             D == {i \in 0 .. Len(list) : s[i] # t[i]}
  <1>0. Len(list) \in Nat
    OBVIOUS
  <1>1. Solves(s)
    BY <1>0 DEF Sums
  <1>2. t = CHOOSE f : Solves(f)
    BY DEF SumTo
  <1>3. Solves(t)
    BY <1>1, <1>2
  <1>4. /\ t[0] = 0
        /\ \A i \in 1 .. Len(list) : t[i] = t[i - 1] + list[i].size
        /\ t = [i \in 0 .. Len(list) |-> t[i]]
    <2> HIDE DEF t
    <2> QED
      BY <1>0, <1>3
  <1>5. SUFFICES ASSUME D # {} PROVE FALSE
    <2>1. \A i \in 0 .. Len(list) : s[i] = t[i]
      BY <1>5
    <2>2. QED
      BY <1>4, <2>1 DEF Sums
  <1>6. D \in SUBSET Nat
    BY <1>0
  <1>7. PICK m \in D : \A n \in D : m <= n
    <2> HIDE DEF D
    <2> QED
      BY <1>5, <1>6, LeastNatural, ZenonT(60)
  <1> HIDE DEF t
  <1>8. m \in 1 .. Len(list) /\ m - 1 \in 0 .. Len(list)
    BY <1>0, <1>4, <1>7 DEF Sums
  <1>9. m - 1 \notin D
    BY <1>7, <1>8
  <1>10. s[m - 1] = t[m - 1]
    BY <1>8, <1>9
  <1>11. s[m] = s[m - 1] + list[m].size /\ t[m] = t[m - 1] + list[m].size
    BY <1>4, <1>8, ZenonT(60) DEF Sums
  <1>12. QED
    BY <1>7, <1>10, <1>11

(* The free list as allocation and release change it: what Unlink() and     *)
(* Link() do to the places, to the order and to the set of the chunks.      *)
Ordered(list) == \A i, j \in 1 .. Len(list) : i < j => list[i].at < list[j].at

(* A list of chunks is the function of its elements.                        *)
LEMMA ListFacts ==
  ASSUME NEW list \in Seq(ChunkType)
  PROVE  /\ Len(list) \in Nat
         /\ list = [j \in 1 .. Len(list) |-> list[j]]
         /\ \A i \in 1 .. Len(list) : list[i] \in ChunkType
         /\ \A i \in 1 .. Len(list) : list[i].at \in Nat /\ list[i].size \in Nat
  <1>1. /\ Len(list) \in Nat
        /\ list = [j \in 1 .. Len(list) |-> list[j]]
        /\ \A i \in 1 .. Len(list) : list[i] \in ChunkType
    OBVIOUS
  <1>2. \A c \in ChunkType : c.at \in Nat /\ c.size \in Nat
    BY DEF ChunkType
  <1>3. QED
    BY <1>1, <1>2, ZenonT(60)

(* The fields and the end of a chunk.                                       *)
LEMMA ChunkFacts ==
  ASSUME NEW p \in Nat, NEW q \in Nat
  PROVE  /\ Chunk(p, q) \in ChunkType
         /\ Chunk(p, q).at = p /\ Chunk(p, q).size = q
         /\ EndOf(Chunk(p, q)) = p + HeaderSize + q
  BY DEF Chunk, ChunkType, EndOf

(* Sums of sizes and headers.                                               *)
LEMMA SplitSum ==
  ASSUME NEW p \in Nat, NEW q \in Nat, NEW z \in Nat
  PROVE  ((p + HeaderSize) + z) + HeaderSize + (q - z - HeaderSize) = p + HeaderSize + q
  BY DEF HeaderSize

(* Two chunks and the header between them end where their union ends.       *)
LEMMA JoinSum ==
  ASSUME NEW p \in Nat, NEW q \in Nat, NEW z \in Nat
  PROVE  (p + HeaderSize + q) + HeaderSize + z = p + HeaderSize + (q + z + HeaderSize)
  BY DEF HeaderSize

(* Slicing a chunk costs freeMemory the block and a header.                 *)
LEMMA CostSum ==
  ASSUME NEW n \in Int, NEW q \in Nat, NEW z \in Nat
  PROVE  (n - q) + (q - z - HeaderSize) = n - (HeaderSize + z)
  BY DEF HeaderSize

(* Sizes are added and subtracted in either order.                          *)
LEMMA ShiftSum ==
  ASSUME NEW n \in Int, NEW q \in Nat, NEW z \in Nat
  PROVE  (n + z) - q = (n - q) + z /\ ((n + q) + z) - q = n + z
  OBVIOUS

(* A function on 1 .. n is a list of length n.                              *)
LEMMA ListOf ==
  ASSUME NEW n \in Nat, NEW f \in [1 .. n -> ChunkType]
  PROVE  f \in Seq(ChunkType) /\ Len(f) = n
  OBVIOUS

(* What the list holds after a chunk was taken out.                         *)
LEMMA UnlinkFacts ==
  ASSUME NEW list \in Seq(ChunkType), NEW k \in 1 .. Len(list)
  PROVE  /\ Unlink(list, k) \in Seq(ChunkType)
         /\ Len(Unlink(list, k)) = Len(list) - 1
         /\ \A j \in 1 .. Len(list) - 1 : j < k => Unlink(list, k)[j] = list[j]
         /\ \A j \in 1 .. Len(list) - 1 : j >= k => Unlink(list, k)[j] = list[j + 1]
  <1>0. Len(list) \in Nat /\ Len(list) - 1 \in Nat /\ k \in Nat
    OBVIOUS
  <1>1. \A i \in 1 .. Len(list) : list[i] \in ChunkType
    OBVIOUS
  <1>2. Unlink(list, k) \in [1 .. Len(list) - 1 -> ChunkType]
    BY <1>0, <1>1 DEF Unlink
  <1>3. Unlink(list, k) \in Seq(ChunkType) /\ Len(Unlink(list, k)) = Len(list) - 1
    BY <1>0, <1>2, ListOf, ZenonT(60)
  <1>4. QED
    BY <1>0, <1>3 DEF Unlink

(* What the list holds after a chunk was put in.                            *)
LEMMA LinkFacts ==
  ASSUME NEW list \in Seq(ChunkType), NEW k \in 1 .. Len(list) + 1, NEW c \in ChunkType
  PROVE  /\ Link(list, k, c) \in Seq(ChunkType)
         /\ Len(Link(list, k, c)) = Len(list) + 1
         /\ Link(list, k, c)[k] = c
         /\ \A j \in 1 .. Len(list) + 1 : j < k => Link(list, k, c)[j] = list[j]
         /\ \A j \in 1 .. Len(list) + 1 : j > k => Link(list, k, c)[j] = list[j - 1]
  <1>0. Len(list) \in Nat /\ Len(list) + 1 \in Nat /\ k \in Nat
    OBVIOUS
  <1>1. \A i \in 1 .. Len(list) : list[i] \in ChunkType
    OBVIOUS
  <1>2. Link(list, k, c) \in [1 .. Len(list) + 1 -> ChunkType]
    BY <1>0, <1>1 DEF Link
  <1>3. Link(list, k, c) \in Seq(ChunkType) /\ Len(Link(list, k, c)) = Len(list) + 1
    BY <1>0, <1>2, ListOf, ZenonT(60)
  <1>4. QED
    BY <1>0, <1>3 DEF Link

(* What the list holds after a chunk was replaced.                          *)
LEMMA ReplaceFacts ==
  ASSUME NEW list \in Seq(ChunkType), NEW k \in 1 .. Len(list), NEW c \in ChunkType
  PROVE  /\ [list EXCEPT ![k] = c] \in Seq(ChunkType)
         /\ Len([list EXCEPT ![k] = c]) = Len(list)
         /\ [list EXCEPT ![k] = c][k] = c
         /\ \A j \in 1 .. Len(list) : j # k => [list EXCEPT ![k] = c][j] = list[j]
  OBVIOUS

(* The sum of a list changes by the size that is added or taken away.       *)
Totals(list, n) == \E s : Sums(list, s) /\ s[Len(list)] = n

(* One step of the sums.                                                    *)
LEMMA SumsStep ==
  ASSUME NEW list \in Seq(ChunkType), NEW s, Sums(list, s), NEW i \in 1 .. Len(list)
  PROVE  /\ s[i] = s[i - 1] + list[i].size
         /\ s[i] \in Int /\ s[i - 1] \in Int /\ list[i].size \in Nat
  <1>1. i \in 0 .. Len(list) /\ i - 1 \in 0 .. Len(list)
    OBVIOUS
  <1>2. s[i] = s[i - 1] + list[i].size
    BY ZenonT(60) DEF Sums
  <1>3. s[i] \in Int /\ s[i - 1] \in Int
    BY <1>1 DEF Sums
  <1>4. QED
    BY <1>2, <1>3, ListFacts, ZenonT(60)

(* How sums are shown to be those of a list, by their values.               *)
LEMMA SumsFrom ==
  ASSUME NEW list \in Seq(ChunkType), NEW t, DOMAIN t = 0 .. Len(list),
         t = [j \in DOMAIN t |-> t[j]], t[0] = 0,
         \A i \in 0 .. Len(list) : t[i] \in Int,
         \A i \in 1 .. Len(list) : t[i] = t[i - 1] + list[i].size
  PROVE  Sums(list, t)
  <1>1. t \in [0 .. Len(list) -> Int]
    OBVIOUS
  <1>2. QED
    BY <1>1, ZenonT(60) DEF Sums

(* A chunk that is taken out lowers the total by its size.                  *)
LEMMA UnlinkedTotals ==
  ASSUME NEW list \in Seq(ChunkType), NEW k \in 1 .. Len(list), NEW n \in Int, Totals(list, n)
  PROVE  Totals(Unlink(list, k), n - list[k].size)
  <1>0. PICK s : Sums(list, s) /\ s[Len(list)] = n
    BY DEF Totals
  <1> DEFINE u == Unlink(list, k)
             t == [j \in 0 .. Len(list) - 1 |-> IF j < k THEN s[j] ELSE s[j + 1] - list[k].size]
  <1>1. Len(list) \in Nat /\ k \in Nat /\ list[k].size \in Nat
    BY ListFacts
  <1>2. /\ u \in Seq(ChunkType)
        /\ Len(u) = Len(list) - 1
        /\ \A j \in 1 .. Len(list) - 1 : j < k => u[j] = list[j]
        /\ \A j \in 1 .. Len(list) - 1 : j >= k => u[j] = list[j + 1]
    BY UnlinkFacts, ZenonT(60)
  <1>3. /\ \A i \in 0 .. Len(list) : s[i] \in Int
        /\ s[0] = 0
    BY <1>0 DEF Sums
  <1> HIDE DEF u
  <1>4. /\ DOMAIN t = 0 .. Len(u)
        /\ t = [j \in DOMAIN t |-> t[j]]
    BY <1>2
  <1>5. t[0] = 0
    BY <1>1, <1>3
  <1>6. ASSUME NEW i \in 0 .. Len(u) PROVE t[i] \in Int
    <2>1. i \in 0 .. Len(list) - 1 /\ i \in 0 .. Len(list) /\ i + 1 \in 0 .. Len(list)
      BY <1>1, <1>2
    <2>2. s[i] \in Int /\ s[i + 1] \in Int
      BY <1>3, <2>1
    <2>3. QED
      BY <1>1, <2>1, <2>2
  <1>7. ASSUME NEW i \in 1 .. Len(u)
        PROVE  t[i] = t[i - 1] + u[i].size
    <2>0. i \in 1 .. Len(list) /\ i + 1 \in 1 .. Len(list) /\ i - 1 \in 0 .. Len(list) - 1
          /\ i \in 0 .. Len(list) - 1 /\ i \in 1 .. Len(list) - 1 /\ (i + 1) - 1 = i
      BY <1>1, <1>2
    <2>1. /\ s[i] = s[i - 1] + list[i].size
          /\ s[i] \in Int /\ s[i - 1] \in Int /\ list[i].size \in Nat
      BY <1>0, <2>0, SumsStep, ZenonT(60)
    <2>2. /\ s[i + 1] = s[i] + list[i + 1].size
          /\ s[i + 1] \in Int /\ list[i + 1].size \in Nat
      BY <1>0, <2>0, SumsStep
    <2>3. CASE i < k
      <3>1. t[i] = s[i] /\ t[i - 1] = s[i - 1] /\ u[i] = list[i]
        BY <1>1, <1>2, <2>0, <2>3
      <3>2. QED
        BY <2>1, <3>1, ZenonT(60)
    <2>4. CASE i = k
      <3>1. t[i] = s[i + 1] - list[k].size /\ t[i - 1] = s[i - 1] /\ u[i] = list[i + 1]
        BY <1>1, <1>2, <2>0, <2>4
      <3> HIDE DEF t
      <3>2. ((s[i - 1] + list[i].size) + list[i + 1].size) - list[i].size
            = s[i - 1] + list[i + 1].size
        BY <2>1, <2>2, ShiftSum, ZenonT(60)
      <3>3. QED
        BY <2>1, <2>2, <2>4, <3>1, <3>2, ZenonT(60)
    <2>5. CASE i > k
      <3>1. t[i] = s[i + 1] - list[k].size /\ t[i - 1] = s[i] - list[k].size /\ u[i] = list[i + 1]
        BY <1>1, <1>2, <2>0, <2>5
      <3> HIDE DEF t
      <3>2. (s[i] + list[i + 1].size) - list[k].size = (s[i] - list[k].size) + list[i + 1].size
        BY <1>1, <2>1, <2>2, ShiftSum, ZenonT(60)
      <3>3. QED
        BY <2>2, <3>1, <3>2, ZenonT(60)
    <2>6. QED
      BY <1>1, <2>0, <2>3, <2>4, <2>5
  <1>8. t[Len(u)] = n - list[k].size
    <2>1. /\ s[Len(list)] = s[Len(list) - 1] + list[Len(list)].size
          /\ s[Len(list)] \in Int /\ s[Len(list) - 1] \in Int /\ list[Len(list)].size \in Nat
      BY <1>0, <1>1, SumsStep
    <2>2. CASE k = Len(list)
      <3>1. t[Len(u)] = s[Len(list) - 1]
        BY <1>1, <1>2, <2>2
      <3> HIDE DEF t
      <3>2. QED
        BY <1>0, <2>1, <2>2, <3>1
    <2>3. CASE k # Len(list)
      BY <1>0, <1>1, <1>2, <2>3
    <2>4. QED
      BY <2>2, <2>3
  <1> HIDE DEF t
  <1>9. Sums(u, t)
    BY <1>2, <1>4, <1>5, <1>6, <1>7, SumsFrom, ZenonT(60)
  <1>10. QED
    BY <1>8, <1>9, ZenonT(60) DEF Totals, u

(* A chunk that is put in raises the total by its size.                     *)
LEMMA LinkedTotals ==
  ASSUME NEW list \in Seq(ChunkType), NEW k \in 1 .. Len(list) + 1, NEW c \in ChunkType,
         NEW n \in Int, Totals(list, n)
  PROVE  Totals(Link(list, k, c), n + c.size)
  <1>0. PICK s : Sums(list, s) /\ s[Len(list)] = n
    BY DEF Totals
  <1> DEFINE u == Link(list, k, c)
             t == [j \in 0 .. Len(list) + 1 |-> IF j < k THEN s[j] ELSE s[j - 1] + c.size]
  <1>1. Len(list) \in Nat /\ k \in Nat /\ c.size \in Nat
    BY ListFacts DEF ChunkType
  <1>2. /\ u \in Seq(ChunkType)
        /\ Len(u) = Len(list) + 1
        /\ u[k] = c
        /\ \A j \in 1 .. Len(list) + 1 : j < k => u[j] = list[j]
        /\ \A j \in 1 .. Len(list) + 1 : j > k => u[j] = list[j - 1]
    BY LinkFacts, ZenonT(60)
  <1>3. /\ \A i \in 0 .. Len(list) : s[i] \in Int
        /\ s[0] = 0
    BY <1>0 DEF Sums
  <1> HIDE DEF u
  <1>4. /\ DOMAIN t = 0 .. Len(u)
        /\ t = [j \in DOMAIN t |-> t[j]]
    BY <1>2
  <1>5. t[0] = 0
    BY <1>1, <1>3
  <1>6. ASSUME NEW i \in 0 .. Len(u) PROVE t[i] \in Int
    <2>1. CASE i < k
      BY <1>1, <1>2, <1>3, <2>1
    <2>2. CASE i >= k
      <3>1. i \in 0 .. Len(list) + 1 /\ i - 1 \in 0 .. Len(list)
        BY <1>1, <1>2, <2>2
      <3>2. s[i - 1] \in Int
        BY <1>3, <3>1
      <3>3. QED
        BY <1>1, <2>2, <3>1, <3>2
    <2>3. QED
      BY <1>1, <1>2, <2>1, <2>2
  <1>7. ASSUME NEW i \in 1 .. Len(u)
        PROVE  t[i] = t[i - 1] + u[i].size
    <2>0. i \in 1 .. Len(list) + 1 /\ i - 1 \in 0 .. Len(list) /\ i \in 0 .. Len(list) + 1
          /\ i - 1 \in 0 .. Len(list) + 1
      BY <1>1, <1>2
    <2>1. CASE i < k
      <3>1. t[i] = s[i] /\ t[i - 1] = s[i - 1] /\ u[i] = list[i] /\ i \in 1 .. Len(list)
        BY <1>1, <1>2, <2>0, <2>1
      <3>2. s[i] = s[i - 1] + list[i].size
        BY <1>0, <3>1, SumsStep, ZenonT(60)
      <3>3. QED
        BY <3>1, <3>2, ZenonT(60)
    <2>2. CASE i = k
      <3>1. t[i] = s[i - 1] + c.size /\ t[i - 1] = s[i - 1] /\ u[i] = c
        BY <1>1, <1>2, <2>0, <2>2
      <3>2. QED
        BY <3>1, ZenonT(60)
    <2>3. CASE i > k
      <3>1. t[i] = s[i - 1] + c.size /\ t[i - 1] = s[(i - 1) - 1] + c.size /\ u[i] = list[i - 1]
            /\ i - 1 \in 1 .. Len(list)
        BY <1>1, <1>2, <2>0, <2>3
      <3>2. /\ s[i - 1] = s[(i - 1) - 1] + list[i - 1].size
            /\ s[i - 1] \in Int /\ s[(i - 1) - 1] \in Int /\ list[i - 1].size \in Nat
        BY <1>0, <3>1, SumsStep, ZenonT(60)
      <3> HIDE DEF t
      <3>3. QED
        BY <1>1, <3>1, <3>2
    <2>4. QED
      BY <1>1, <2>0, <2>1, <2>2, <2>3
  <1>8. t[Len(u)] = n + c.size
    BY <1>0, <1>1, <1>2
  <1> HIDE DEF t
  <1>9. Sums(u, t)
    BY <1>2, <1>4, <1>5, <1>6, <1>7, SumsFrom, ZenonT(60)
  <1>10. QED
    BY <1>8, <1>9, ZenonT(60) DEF Totals, u

(* A chunk that is replaced is unlinked and the other one linked instead.   *)
LEMMA ReplaceIsRelink ==
  ASSUME NEW list \in Seq(ChunkType), NEW k \in 1 .. Len(list), NEW c \in ChunkType
  PROVE  /\ [list EXCEPT ![k] = c] = Link(Unlink(list, k), k, c)
         /\ Unlink(list, k) \in Seq(ChunkType) /\ k \in 1 .. Len(Unlink(list, k)) + 1
  <1> DEFINE u == Unlink(list, k)
             v == Link(u, k, c)
             w == [list EXCEPT ![k] = c]
  <1>1. Len(list) \in Nat /\ k \in Nat
    OBVIOUS
  <1>2. /\ u \in Seq(ChunkType)
        /\ Len(u) = Len(list) - 1
        /\ \A j \in 1 .. Len(list) - 1 : j < k => u[j] = list[j]
        /\ \A j \in 1 .. Len(list) - 1 : j >= k => u[j] = list[j + 1]
    BY UnlinkFacts, ZenonT(60)
  <1> HIDE DEF u
  <1>3. k \in 1 .. Len(u) + 1
    BY <1>1, <1>2
  <1>4. /\ v \in Seq(ChunkType)
        /\ Len(v) = Len(u) + 1
        /\ v[k] = c
        /\ \A j \in 1 .. Len(u) + 1 : j < k => v[j] = u[j]
        /\ \A j \in 1 .. Len(u) + 1 : j > k => v[j] = u[j - 1]
    BY <1>2, <1>3, LinkFacts, ZenonT(60)
  <1> HIDE DEF v
  <1>5. /\ w \in Seq(ChunkType)
        /\ Len(w) = Len(list)
        /\ w[k] = c
        /\ \A j \in 1 .. Len(list) : j # k => w[j] = list[j]
    OBVIOUS
  <1> HIDE DEF w
  <1>6. ASSUME NEW j \in 1 .. Len(list) PROVE v[j] = w[j]
    <2>1. CASE j < k
      BY <1>1, <1>2, <1>4, <1>5, <2>1
    <2>2. CASE j = k
      BY <1>4, <1>5, <2>2
    <2>3. CASE j > k
      <3>1. v[j] = u[j - 1] /\ w[j] = list[j]
        BY <1>1, <1>2, <1>4, <1>5, <2>3
      <3>2. u[j - 1] = list[(j - 1) + 1] /\ (j - 1) + 1 = j
        BY <1>1, <1>2, <2>3
      <3>3. QED
        BY <3>1, <3>2, ZenonT(60)
    <2>4. QED
      BY <1>1, <2>1, <2>2, <2>3
  <1>7. v = w
    <2>1. Len(v) = Len(list)
      BY <1>1, <1>2, <1>4
    <2>2. /\ v = [j \in 1 .. Len(v) |-> v[j]]
          /\ w = [j \in 1 .. Len(w) |-> w[j]]
      BY <1>4, <1>5, ListFacts, ZenonT(60)
    <2>3. QED
      BY <1>5, <1>6, <2>1, <2>2
  <1>8. QED
    BY <1>2, <1>3, <1>7, ZenonT(60) DEF u, v, w

(* A chunk that is replaced changes the total by the difference.            *)
LEMMA ReplacedTotals ==
  ASSUME NEW list \in Seq(ChunkType), NEW k \in 1 .. Len(list), NEW c \in ChunkType,
         NEW n \in Int, Totals(list, n)
  PROVE  Totals([list EXCEPT ![k] = c], (n - list[k].size) + c.size)
  <1> DEFINE u == Unlink(list, k)
  <1>1. n - list[k].size \in Int
    BY ListFacts
  <1>2. Totals(u, n - list[k].size)
    BY UnlinkedTotals, ZenonT(60)
  <1>3. /\ [list EXCEPT ![k] = c] = Link(u, k, c)
        /\ u \in Seq(ChunkType) /\ k \in 1 .. Len(u) + 1
    BY ReplaceIsRelink, ZenonT(60)
  <1> HIDE DEF u
  <1>4. Totals(Link(u, k, c), (n - list[k].size) + c.size)
    BY <1>1, <1>2, <1>3, LinkedTotals, ZenonT(60)
  <1>5. QED
    BY <1>3, <1>4, ZenonT(60)

-----------------------------------------------------------------------------
(* Blocks and chunks as tiles: a set of them overlaps nowhere, stays in the *)
(* heap and covers it.                                                      *)
Disjoint(c, d) == EndOf(c) <= d.at \/ EndOf(d) <= c.at
Holds(c, w) == c.at <= w /\ w < EndOf(c)

Tiling(T) ==
  /\ T \subseteq ChunkType
  /\ \A c, d \in T : c # d => Disjoint(c, d)
  /\ \A c \in T : EndOf(c) <= Words
  /\ \A w \in 0 .. Words - 1 : \E c \in T : Holds(c, w)

(* One tile is exactly where two others are.                                *)
Cut(c, a, b) ==
  /\ a \in ChunkType /\ b \in ChunkType /\ c \in ChunkType
  /\ a.at = c.at /\ EndOf(a) = b.at /\ EndOf(b) = EndOf(c)

(* The two parts of a cut tile are what the tile was.                       *)
LEMMA CutFacts ==
  ASSUME NEW a, NEW b, NEW c, Cut(c, a, b)
  PROVE  /\ a # b /\ Disjoint(a, b)
         /\ \A d \in ChunkType : Disjoint(c, d) <=> Disjoint(a, d) /\ Disjoint(b, d)
         /\ \A d \in ChunkType : Disjoint(a, d) => a # d
         /\ \A d \in ChunkType : Disjoint(b, d) => b # d
         /\ \A d \in ChunkType : Disjoint(c, d) => c # d
         /\ EndOf(c) <= Words <=> EndOf(a) <= Words /\ EndOf(b) <= Words
         /\ \A w \in Int : Holds(c, w) <=> Holds(a, w) \/ Holds(b, w)
  <1>1. /\ \A d \in ChunkType : d.at \in Nat /\ d.size \in Nat
    BY DEF ChunkType
  <1>2. QED
    BY <1>1, HeapAssumption DEF Cut, Disjoint, Holds, EndOf, HeaderSize

(* A tile that is cut in two leaves a tiling.                               *)
LEMMA TilesSplit ==
  ASSUME NEW T, Tiling(T), NEW a, NEW b, NEW c \in T, Cut(c, a, b)
  PROVE  /\ Tiling((T \ {c}) \cup {a, b})
         /\ a \notin T \ {c} /\ b \notin T \ {c}
  <1>1. /\ a \in ChunkType /\ b \in ChunkType
        /\ T \subseteq ChunkType
        /\ \A d \in T : d # c => Disjoint(c, d)
    BY DEF Cut, Tiling
  <1>2. \A d \in T : d # c => Disjoint(a, d) /\ Disjoint(b, d) /\ a # d /\ b # d
    BY <1>1, CutFacts
  <1>3. \A d, e \in ChunkType : Disjoint(d, e) => Disjoint(e, d)
    BY DEF Disjoint
  <1>4. \A d, e \in (T \ {c}) \cup {a, b} : d # e => Disjoint(d, e)
    <2>1. Disjoint(a, b) /\ Disjoint(b, a)
      BY <1>1, <1>3, CutFacts, ZenonT(60)
    <2>2. \A d \in T : d # c => Disjoint(d, a) /\ Disjoint(d, b)
      BY <1>1, <1>2, <1>3, ZenonT(60)
    <2>3. \A d, e \in T : d # e => Disjoint(d, e)
      BY DEF Tiling
    <2>4. QED
      BY <1>2, <2>1, <2>2, <2>3, ZenonT(60)
  <1>5. \A d \in (T \ {c}) \cup {a, b} : EndOf(d) <= Words
    BY CutFacts, ZenonT(60) DEF Tiling
  <1>6. ASSUME NEW w \in 0 .. Words - 1
        PROVE  \E d \in (T \ {c}) \cup {a, b} : Holds(d, w)
    <2>1. PICK d \in T : Holds(d, w)
      BY DEF Tiling
    <2>2. w \in Int
      BY HeapAssumption
    <2>3. QED
      BY <2>1, <2>2, CutFacts, ZenonT(60)
  <1>7. QED
    BY <1>1, <1>2, <1>4, <1>5, <1>6, ZenonT(60) DEF Tiling

(* Two touching tiles that are joined leave a tiling.                       *)
LEMMA TilesJoin ==
  ASSUME NEW T, Tiling(T), NEW a \in T, NEW b \in T, NEW c, Cut(c, a, b)
  PROVE  /\ Tiling((T \ {a, b}) \cup {c})
         /\ c \notin T \ {a, b}
  <1>1. /\ c \in ChunkType
        /\ T \subseteq ChunkType
        /\ \A d \in T : d # a => Disjoint(a, d)
        /\ \A d \in T : d # b => Disjoint(b, d)
    BY DEF Cut, Tiling
  <1>2. \A d \in T : d # a /\ d # b => Disjoint(c, d) /\ c # d
    BY <1>1, CutFacts, ZenonT(60)
  <1>3. \A d, e \in ChunkType : Disjoint(d, e) => Disjoint(e, d)
    BY DEF Disjoint
  <1>4. \A d, e \in (T \ {a, b}) \cup {c} : d # e => Disjoint(d, e)
    BY <1>1, <1>2, <1>3, ZenonT(60) DEF Tiling
  <1>5. \A d \in (T \ {a, b}) \cup {c} : EndOf(d) <= Words
    BY CutFacts, ZenonT(60) DEF Tiling
  <1>6. ASSUME NEW w \in 0 .. Words - 1
        PROVE  \E d \in (T \ {a, b}) \cup {c} : Holds(d, w)
    <2>1. PICK d \in T : Holds(d, w)
      BY DEF Tiling
    <2>2. w \in Int
      BY HeapAssumption
    <2>3. QED
      BY <2>1, <2>2, CutFacts, ZenonT(60)
  <1>7. QED
    BY <1>1, <1>2, <1>4, <1>5, <1>6, ZenonT(60) DEF Tiling

-----------------------------------------------------------------------------
(* The set of the chunks of an ordered list as the list is changed.         *)
LEMMA ListRange ==
  ASSUME NEW list \in Seq(ChunkType)
  PROVE  \A e : e \in Range(list) <=> \E i \in 1 .. Len(list) : list[i] = e
  BY Elements, ZenonT(60)

(* A list in the order of the addresses holds a chunk once.                 *)
LEMMA OrderedIsInjective ==
  ASSUME NEW list \in Seq(ChunkType), Ordered(list),
         NEW i \in 1 .. Len(list), NEW j \in 1 .. Len(list), list[i] = list[j]
  PROVE  i = j
  <1>1. list[i].at \in Nat /\ list[j].at \in Nat /\ i \in Nat /\ j \in Nat
    BY ListFacts
  <1>2. (i < j => list[i].at < list[j].at) /\ (j < i => list[j].at < list[i].at)
    BY ZenonT(60) DEF Ordered
  <1>3. QED
    BY <1>1, <1>2

(* The chunks that are left when one is taken out.                          *)
LEMMA UnlinkedRange ==
  ASSUME NEW list \in Seq(ChunkType), Ordered(list), NEW k \in 1 .. Len(list)
  PROVE  Range(Unlink(list, k)) = Range(list) \ {list[k]}
  <1> DEFINE u == Unlink(list, k)
  <1>1. Len(list) \in Nat /\ k \in Nat
    OBVIOUS
  <1>2. /\ u \in Seq(ChunkType)
        /\ Len(u) = Len(list) - 1
        /\ \A j \in 1 .. Len(list) - 1 : j < k => u[j] = list[j]
        /\ \A j \in 1 .. Len(list) - 1 : j >= k => u[j] = list[j + 1]
    BY UnlinkFacts, ZenonT(60)
  <1> HIDE DEF u
  <1>3. ASSUME NEW e \in Range(u) PROVE e \in Range(list) \ {list[k]}
    <2>1. PICK j \in 1 .. Len(u) : u[j] = e
      BY <1>2, <1>3, ListRange, ZenonT(60)
    <2>2. \E i \in 1 .. Len(list) : i # k /\ e = list[i]
      <3>1. CASE j < k
        BY <1>1, <1>2, <2>1, <3>1
      <3>2. CASE j >= k
        <4>1. j + 1 \in 1 .. Len(list) /\ j + 1 # k /\ e = list[j + 1]
          BY <1>1, <1>2, <2>1, <3>2
        <4>2. QED
          BY <4>1, ZenonT(60)
      <3>3. QED
        BY <1>1, <2>1, <3>1, <3>2
    <2>3. QED
      BY <2>2, ListRange, OrderedIsInjective, ZenonT(60)
  <1>4. ASSUME NEW e \in Range(list), e # list[k] PROVE e \in Range(u)
    <2>1. PICK i \in 1 .. Len(list) : list[i] = e
      BY <1>4, ListRange, ZenonT(60)
    <2>2. i # k
      BY <1>4, <2>1
    <2>3. \E j \in 1 .. Len(u) : u[j] = e
      <3>1. CASE i < k
        BY <1>1, <1>2, <2>1, <3>1
      <3>2. CASE i > k
        <4>1. i - 1 \in 1 .. Len(u) /\ u[i - 1] = list[(i - 1) + 1] /\ (i - 1) + 1 = i
          BY <1>1, <1>2, <2>1, <3>2
        <4>2. QED
          BY <2>1, <4>1, ZenonT(60)
      <3>3. QED
        BY <1>1, <2>1, <2>2, <3>1, <3>2
    <2>4. QED
      BY <1>2, <2>3, ListRange, ZenonT(60)
  <1>5. QED
    BY <1>3, <1>4, ZenonT(60) DEF u

(* The chunks of a list into which one was put.                             *)
LEMMA LinkedRange ==
  ASSUME NEW list \in Seq(ChunkType), NEW k \in 1 .. Len(list) + 1, NEW c \in ChunkType
  PROVE  Range(Link(list, k, c)) = Range(list) \cup {c}
  <1> DEFINE u == Link(list, k, c)
  <1>1. Len(list) \in Nat /\ k \in Nat
    OBVIOUS
  <1>2. /\ u \in Seq(ChunkType)
        /\ Len(u) = Len(list) + 1
        /\ u[k] = c
        /\ \A j \in 1 .. Len(list) + 1 : j < k => u[j] = list[j]
        /\ \A j \in 1 .. Len(list) + 1 : j > k => u[j] = list[j - 1]
    BY LinkFacts, ZenonT(60)
  <1> HIDE DEF u
  <1>3. ASSUME NEW e \in Range(u), e # c PROVE e \in Range(list)
    <2>1. PICK j \in 1 .. Len(u) : u[j] = e
      BY <1>2, <1>3, ListRange, ZenonT(60)
    <2>2. \E i \in 1 .. Len(list) : e = list[i]
      <3>1. CASE j < k
        BY <1>1, <1>2, <2>1, <3>1
      <3>2. CASE j > k
        <4>1. j - 1 \in 1 .. Len(list) /\ e = list[j - 1]
          BY <1>1, <1>2, <2>1, <3>2
        <4>2. QED
          BY <4>1, ZenonT(60)
      <3>3. QED
        BY <1>1, <1>2, <1>3, <2>1, <3>1, <3>2
    <2>3. QED
      BY <2>2, ListRange, ZenonT(60)
  <1>4. ASSUME NEW e \in Range(list) PROVE e \in Range(u)
    <2>1. PICK i \in 1 .. Len(list) : list[i] = e
      BY <1>4, ListRange, ZenonT(60)
    <2>2. \E j \in 1 .. Len(u) : u[j] = e
      <3>1. CASE i < k
        BY <1>1, <1>2, <2>1, <3>1
      <3>2. CASE i >= k
        <4>1. i + 1 \in 1 .. Len(u) /\ u[i + 1] = list[(i + 1) - 1] /\ (i + 1) - 1 = i
          BY <1>1, <1>2, <2>1, <3>2
        <4>2. QED
          BY <2>1, <4>1, ZenonT(60)
      <3>3. QED
        BY <1>1, <2>1, <3>1, <3>2
    <2>3. QED
      BY <1>2, <2>2, ListRange, ZenonT(60)
  <1>5. c \in Range(u)
    <2>1. k \in 1 .. Len(u)
      BY <1>2
    <2>2. QED
      BY <1>2, <2>1, ListRange, ZenonT(60)
  <1>6. QED
    BY <1>3, <1>4, <1>5, ZenonT(60) DEF u

(* The chunks of a list in which one was replaced.                          *)
LEMMA ReplacedRange ==
  ASSUME NEW list \in Seq(ChunkType), Ordered(list), NEW k \in 1 .. Len(list), NEW c \in ChunkType
  PROVE  Range([list EXCEPT ![k] = c]) = (Range(list) \ {list[k]}) \cup {c}
  <1> DEFINE u == Unlink(list, k)
  <1>1. /\ [list EXCEPT ![k] = c] = Link(u, k, c)
        /\ u \in Seq(ChunkType) /\ k \in 1 .. Len(u) + 1
    BY ReplaceIsRelink, ZenonT(60)
  <1>2. Range(u) = Range(list) \ {list[k]}
    BY UnlinkedRange, ZenonT(60)
  <1> HIDE DEF u
  <1>3. Range(Link(u, k, c)) = Range(u) \cup {c}
    BY <1>1, LinkedRange, ZenonT(60)
  <1>4. QED
    BY <1>1, <1>2, <1>3, ZenonT(60)

(* What stays in the list stays in order.                                   *)
LEMMA UnlinkedOrdered ==
  ASSUME NEW list \in Seq(ChunkType), Ordered(list), NEW k \in 1 .. Len(list)
  PROVE  Ordered(Unlink(list, k))
  <1> DEFINE u == Unlink(list, k)
  <1>1. /\ Len(list) \in Nat /\ k \in Nat
        /\ \A i, j \in 1 .. Len(list) : i < j => list[i].at < list[j].at
    BY DEF Ordered
  <1>2. /\ u \in Seq(ChunkType)
        /\ Len(u) = Len(list) - 1
        /\ \A j \in 1 .. Len(list) - 1 : j < k => u[j] = list[j]
        /\ \A j \in 1 .. Len(list) - 1 : j >= k => u[j] = list[j + 1]
    BY UnlinkFacts, ZenonT(60)
  <1> HIDE DEF u
  <1>4. ASSUME NEW i \in 1 .. Len(u), NEW j \in 1 .. Len(u), i < j
        PROVE  u[i].at < u[j].at
    <2>0. ASSUME NEW m \in 1 .. Len(u)
          PROVE  \E p \in 1 .. Len(list) :
                   u[m] = list[p] /\ ((p = m /\ m < k) \/ (p = m + 1 /\ m >= k))
      <3>1. m \in 1 .. Len(list) - 1 /\ m \in 1 .. Len(list) /\ m + 1 \in 1 .. Len(list)
            /\ (m < k \/ m >= k)
        BY <1>1, <1>2
      <3>2. QED
        BY <1>2, <3>1, ZenonT(60)
    <2>1. PICK p \in 1 .. Len(list) : u[i] = list[p] /\ ((p = i /\ i < k) \/ (p = i + 1 /\ i >= k))
      BY <2>0
    <2>2. PICK q \in 1 .. Len(list) : u[j] = list[q] /\ ((q = j /\ j < k) \/ (q = j + 1 /\ j >= k))
      BY <2>0
    <2>3. p < q
      BY <1>1, <1>2, <1>4, <2>1, <2>2
    <2>4. QED
      BY <1>1, <2>1, <2>2, <2>3, ZenonT(60)
  <1>5. QED
    BY <1>4, ZenonT(60) DEF Ordered, u

-----------------------------------------------------------------------------
(* A free list, a set of blocks and a number of free words that belong      *)
(* together.                                                                *)
HeapSound(list, B, n) ==
  /\ list \in Seq(ChunkType) /\ n \in Int
  /\ Ordered(list)
  /\ Totals(list, n)
  /\ B \cap Range(list) = {}
  /\ Tiling(B \cup Range(list))

(* No two neighbours touch.                                                 *)
Merged(list) == \A i \in 1 .. Len(list) - 1 : EndOf(list[i]) < list[i + 1].at

(* What a sound heap says of its chunks and blocks, one by one.             *)
LEMMA SoundFacts ==
  ASSUME NEW list, NEW B, NEW n, HeapSound(list, B, n)
  PROVE  /\ list \in Seq(ChunkType) /\ n \in Int /\ Len(list) \in Nat
         /\ B \subseteq ChunkType
         /\ \A i \in 1 .. Len(list) : list[i] \in ChunkType /\ list[i] \in Range(list)
         /\ \A i \in 1 .. Len(list) : list[i].at \in Nat /\ list[i].size \in Nat /\ EndOf(list[i]) \in Nat
         /\ \A b \in B : b.at \in Nat /\ b.size \in Nat /\ EndOf(b) \in Nat
         /\ \A i \in 1 .. Len(list) : list[i].at < EndOf(list[i])
         /\ \A i, j \in 1 .. Len(list) : i < j => list[i].at < list[j].at
         /\ \A i, j \in 1 .. Len(list) : i < j => EndOf(list[i]) <= list[j].at
         /\ \A b \in B : \A i \in 1 .. Len(list) :
              b # list[i] /\ b.at # list[i].at /\ Disjoint(b, list[i])
  <1>1. /\ list \in Seq(ChunkType) /\ n \in Int
        /\ \A i, j \in 1 .. Len(list) : i < j => list[i].at < list[j].at
        /\ B \cap Range(list) = {}
        /\ B \cup Range(list) \subseteq ChunkType
        /\ \A c, d \in B \cup Range(list) : c # d => Disjoint(c, d)
    BY ZenonT(60) DEF HeapSound, Ordered, Tiling
  <1>2. /\ Len(list) \in Nat
        /\ \A i \in 1 .. Len(list) : list[i] \in ChunkType
    BY <1>1, ListFacts, ZenonT(60)
  <1>3. \A i \in 1 .. Len(list) : list[i] \in Range(list)
    BY <1>1, ListRange, ZenonT(60)
  <1>4. \A c \in ChunkType : /\ c.at \in Nat /\ c.size \in Nat /\ EndOf(c) \in Nat
                             /\ c.at < EndOf(c)
    BY DEF ChunkType, EndOf, HeaderSize
  <1>5. ASSUME NEW i \in 1 .. Len(list), NEW j \in 1 .. Len(list), i < j
        PROVE  EndOf(list[i]) <= list[j].at
    <2>1. list[i].at < list[j].at
      BY <1>1, <1>5, ZenonT(60)
    <2>2. /\ list[i].at \in Nat /\ list[j].at \in Nat
          /\ EndOf(list[i]) \in Nat /\ EndOf(list[j]) \in Nat /\ list[j].at < EndOf(list[j])
      BY <1>2, <1>4, ZenonT(60)
    <2>3. list[i] # list[j]
      BY <2>1, <2>2
    <2>4. Disjoint(list[i], list[j])
      BY <1>1, <1>3, <2>3, ZenonT(60)
    <2>5. QED
      BY <2>1, <2>2, <2>4 DEF Disjoint
  <1>6. ASSUME NEW b \in B, NEW i \in 1 .. Len(list)
        PROVE  b # list[i] /\ b.at # list[i].at /\ Disjoint(b, list[i])
    <2>1. b # list[i]
      BY <1>1, <1>3, ZenonT(60)
    <2>2. Disjoint(b, list[i])
      BY <1>1, <1>3, <2>1, ZenonT(60)
    <2>3. /\ list[i].at \in Nat /\ EndOf(list[i]) \in Nat /\ list[i].at < EndOf(list[i])
          /\ b.at \in Nat /\ EndOf(b) \in Nat /\ b.at < EndOf(b)
      BY <1>1, <1>2, <1>4, ZenonT(60)
    <2>4. QED
      BY <2>1, <2>2, <2>3 DEF Disjoint
  <1>7. QED
    BY <1>1, <1>2, <1>3, <1>4, <1>5, <1>6, ZenonT(60)

(* A chunk that is taken as a whole.                                        *)
LEMMA TakeWhole ==
  ASSUME NEW list, NEW B, NEW n, HeapSound(list, B, n), NEW k \in 1 .. Len(list)
  PROVE  /\ HeapSound(Unlink(list, k), B \cup {list[k]}, n - list[k].size)
         /\ Merged(list) => Merged(Unlink(list, k))
  <1> DEFINE u == Unlink(list, k)
  <1>1. /\ list \in Seq(ChunkType) /\ n \in Int /\ Len(list) \in Nat
        /\ \A i \in 1 .. Len(list) : list[i].at \in Nat /\ list[i].size \in Nat /\ EndOf(list[i]) \in Nat
        /\ \A i, j \in 1 .. Len(list) : i < j => list[i].at < list[j].at
        /\ \A i, j \in 1 .. Len(list) : i < j => EndOf(list[i]) <= list[j].at
    BY SoundFacts, ZenonT(60)
  <1>2. Ordered(list) /\ Totals(list, n) /\ B \cap Range(list) = {} /\ Tiling(B \cup Range(list))
        /\ list[k] \in Range(list)
    BY SoundFacts, ZenonT(60) DEF HeapSound
  <1>3. /\ u \in Seq(ChunkType)
        /\ Len(u) = Len(list) - 1
        /\ \A j \in 1 .. Len(list) - 1 : j < k => u[j] = list[j]
        /\ \A j \in 1 .. Len(list) - 1 : j >= k => u[j] = list[j + 1]
    BY <1>1, UnlinkFacts, ZenonT(60)
  <1>4. Totals(u, n - list[k].size)
    BY <1>1, <1>2, UnlinkedTotals, ZenonT(60)
  <1>5. Range(u) = Range(list) \ {list[k]}
    BY <1>1, <1>2, UnlinkedRange, ZenonT(60)
  <1> HIDE DEF u
  <1>6. Ordered(u)
    BY <1>1, <1>2, UnlinkedOrdered, ZenonT(60) DEF u
  <1>7. n - list[k].size \in Int
    BY <1>1
  <1>8. /\ (B \cup {list[k]}) \cap Range(u) = {}
        /\ (B \cup {list[k]}) \cup Range(u) = B \cup Range(list)
    BY <1>2, <1>5, ZenonT(60)
  <1>9. HeapSound(u, B \cup {list[k]}, n - list[k].size)
    BY <1>2, <1>3, <1>4, <1>6, <1>7, <1>8, ZenonT(60) DEF HeapSound
  <1>10. ASSUME Merged(list), NEW i \in 1 .. Len(u) - 1
         PROVE  EndOf(u[i]) < u[i + 1].at
    <2>0. i \in 1 .. Len(list) - 1 /\ i + 1 \in 1 .. Len(list) - 1 /\ k \in Nat /\ i \in 1 .. Len(list)
          /\ (i + 1) + 1 \in 1 .. Len(list) /\ i + 1 \in 1 .. Len(list)
      BY <1>1, <1>3
    <2>1. EndOf(list[i]) < list[i + 1].at /\ EndOf(list[i + 1]) < list[(i + 1) + 1].at
      BY <1>10, <2>0, ZenonT(60) DEF Merged
    <2>2. list[i + 1].at < list[(i + 1) + 1].at
      BY <1>1, <2>0
    <2>3. /\ list[i + 1].at \in Nat /\ list[(i + 1) + 1].at \in Nat /\ EndOf(list[i]) \in Nat
      BY <1>1, <2>0
    <2>4. CASE i + 1 < k
      BY <1>3, <2>0, <2>1, <2>4
    <2>5. CASE i + 1 = k
      <3>1. u[i] = list[i] /\ u[i + 1] = list[(i + 1) + 1]
        BY <1>3, <2>0, <2>5
      <3>2. QED
        BY <2>1, <2>2, <2>3, <3>1
    <2>6. CASE i >= k
      BY <1>3, <2>0, <2>1, <2>6
    <2>7. QED
      BY <2>0, <2>4, <2>5, <2>6
  <1>11. QED
    BY <1>9, <1>10, ZenonT(60) DEF u, Merged

(* A chunk that is sliced: its first part is taken, the rest stays.         *)
LEMMA TakeSlice ==
  ASSUME NEW list, NEW B, NEW n, HeapSound(list, B, n), NEW k \in 1 .. Len(list),
         NEW a, NEW r, Cut(list[k], a, r)
  PROVE  /\ HeapSound([list EXCEPT ![k] = r], B \cup {a}, (n - list[k].size) + r.size)
         /\ Merged(list) => Merged([list EXCEPT ![k] = r])
         /\ a \notin B
  <1> DEFINE u == [list EXCEPT ![k] = r]
  <1>1. /\ list \in Seq(ChunkType) /\ n \in Int /\ Len(list) \in Nat
        /\ \A i \in 1 .. Len(list) : list[i].at \in Nat /\ list[i].size \in Nat /\ EndOf(list[i]) \in Nat
        /\ \A i, j \in 1 .. Len(list) : i < j => list[i].at < list[j].at
        /\ \A i, j \in 1 .. Len(list) : i < j => EndOf(list[i]) <= list[j].at
    BY SoundFacts, ZenonT(60)
  <1>2. /\ Ordered(list) /\ Totals(list, n) /\ B \cap Range(list) = {} /\ Tiling(B \cup Range(list))
        /\ list[k] \in Range(list) /\ r \in ChunkType
    BY SoundFacts, ZenonT(60) DEF HeapSound, Cut
  <1>3. /\ u \in Seq(ChunkType)
        /\ Len(u) = Len(list)
        /\ u[k] = r
        /\ \A j \in 1 .. Len(list) : j # k => u[j] = list[j]
    BY <1>1, <1>2, ReplaceFacts
  <1>4. Totals(u, (n - list[k].size) + r.size)
    BY <1>1, <1>2, ReplacedTotals, ZenonT(60)
  <1>5. Range(u) = (Range(list) \ {list[k]}) \cup {r}
    BY <1>1, <1>2, ReplacedRange, ZenonT(60)
  <1> HIDE DEF u
  <1>6. /\ r.at \in Nat /\ r.size \in Nat /\ EndOf(r) = EndOf(list[k])
        /\ list[k].at < r.at /\ r.at < EndOf(list[k]) /\ EndOf(r) \in Nat
    <2>1. a.at \in Nat /\ a.size \in Nat /\ r.at \in Nat /\ r.size \in Nat
      BY DEF Cut, ChunkType
    <2>2. list[k].at \in Nat /\ list[k].size \in Nat
      BY <1>1, ZenonT(60)
    <2>3. QED
      BY <2>1, <2>2 DEF Cut, EndOf, HeaderSize
  <1>7. ASSUME NEW i \in 1 .. Len(u), NEW j \in 1 .. Len(u), i < j
        PROVE  u[i].at < u[j].at
    <2>1. list[i].at < list[j].at /\ EndOf(list[i]) <= list[j].at
      BY <1>1, <1>3, <1>7, ZenonT(60)
    <2>2. /\ list[i].at \in Nat /\ list[j].at \in Nat /\ EndOf(list[i]) \in Nat
          /\ i \in 1 .. Len(list) /\ j \in 1 .. Len(list) /\ i # j
      BY <1>1, <1>3, <1>7
    <2>3. CASE i # k /\ j # k
      BY <1>3, <2>1, <2>2, <2>3, ZenonT(60)
    <2>4. CASE i = k
      <3>1. u[i] = r /\ u[j] = list[j]
        BY <1>3, <2>2, <2>4, ZenonT(60)
      <3>2. r.at < EndOf(list[i])
        BY <1>6, <2>4
      <3>3. QED
        BY <1>6, <2>1, <2>2, <3>1, <3>2
    <2>5. CASE j = k
      <3>1. u[j] = r /\ u[i] = list[i]
        BY <1>3, <2>2, <2>5, ZenonT(60)
      <3>2. list[j].at < r.at
        BY <1>6, <2>5
      <3>3. QED
        BY <1>6, <2>1, <2>2, <3>1, <3>2
    <2>6. QED
      BY <2>3, <2>4, <2>5
  <1>8. (n - list[k].size) + r.size \in Int
    BY <1>1, <1>6
  <1>9. /\ Tiling(((B \cup Range(list)) \ {list[k]}) \cup {a, r})
        /\ a \notin (B \cup Range(list)) \ {list[k]} /\ r \notin (B \cup Range(list)) \ {list[k]}
    BY <1>2, TilesSplit, ZenonT(60)
  <1>10. a # r
    BY CutFacts, ZenonT(60)
  <1>11. /\ (B \cup {a}) \cap Range(u) = {}
         /\ (B \cup {a}) \cup Range(u) = ((B \cup Range(list)) \ {list[k]}) \cup {a, r}
    <2>1. r \notin B /\ a \notin Range(u)
      BY <1>2, <1>5, <1>9, <1>10, ZenonT(60)
    <2>2. a \notin Range(u) /\ (\A e \in B : e \notin Range(u))
      BY <1>2, <1>5, <2>1, ZenonT(60)
    <2>3. \A e : e \in (B \cup {a}) \cup Range(u)
                 <=> e \in ((B \cup Range(list)) \ {list[k]}) \cup {a, r}
      BY <1>2, <1>5, ZenonT(60)
    <2>4. QED
      BY <2>2, <2>3, ZenonT(60)
  <1>12. HeapSound(u, B \cup {a}, (n - list[k].size) + r.size)
    BY <1>3, <1>4, <1>7, <1>8, <1>9, <1>11, ZenonT(60) DEF HeapSound, Ordered
  <1>13. ASSUME Merged(list), NEW i \in 1 .. Len(u) - 1
         PROVE  EndOf(u[i]) < u[i + 1].at
    <2>1. i \in 1 .. Len(list) /\ i + 1 \in 1 .. Len(list) /\ i # i + 1
      BY <1>1, <1>3
    <2>2. EndOf(list[i]) < list[i + 1].at
      BY <1>3, <1>13, ZenonT(60) DEF Merged
    <2>3. list[i + 1].at \in Nat /\ EndOf(list[i]) \in Nat
      BY <1>1, <2>1, ZenonT(60)
    <2>4. CASE i # k /\ i + 1 # k
      BY <1>3, <2>1, <2>2, <2>4, ZenonT(60)
    <2>5. CASE i = k
      <3>1. u[i] = r /\ u[i + 1] = list[i + 1] /\ EndOf(r) = EndOf(list[i])
        BY <1>3, <1>6, <2>1, <2>5, ZenonT(60)
      <3>2. QED
        BY <2>2, <3>1, ZenonT(60)
    <2>6. CASE i + 1 = k
      <3>1. u[i + 1] = r /\ u[i] = list[i] /\ list[i + 1].at < r.at
        BY <1>3, <1>6, <2>1, <2>6, ZenonT(60)
      <3>2. QED
        BY <1>6, <2>2, <2>3, <3>1
    <2>7. QED
      BY <2>4, <2>5, <2>6
  <1>14. a \notin B
    BY <1>2, <1>9, ZenonT(60)
  <1>15. QED
    BY <1>12, <1>13, <1>14, ZenonT(60) DEF u, Merged

(* Blocks are put together and cut in two.                                  *)
LEMMA BlocksJoin ==
  ASSUME NEW list, NEW B, NEW n, HeapSound(list, B, n), NEW a \in B, NEW b \in B, NEW c, Cut(c, a, b)
  PROVE  HeapSound(list, (B \ {a, b}) \cup {c}, n) /\ c \notin B \ {a, b}
  <1>1. B \cap Range(list) = {} /\ Tiling(B \cup Range(list))
    BY DEF HeapSound
  <1>2. /\ Tiling(((B \cup Range(list)) \ {a, b}) \cup {c})
        /\ c \notin (B \cup Range(list)) \ {a, b}
    BY <1>1, TilesJoin, ZenonT(60)
  <1>3. /\ ((B \ {a, b}) \cup {c}) \cap Range(list) = {}
        /\ ((B \ {a, b}) \cup {c}) \cup Range(list) = ((B \cup Range(list)) \ {a, b}) \cup {c}
    BY <1>1, <1>2, ZenonT(60)
  <1>4. QED
    BY <1>2, <1>3, ZenonT(60) DEF HeapSound

(* realloc() splits a block and keeps the heap sound.                       *)
LEMMA BlocksSplit ==
  ASSUME NEW list, NEW B, NEW n, HeapSound(list, B, n), NEW c \in B, NEW a, NEW b, Cut(c, a, b)
  PROVE  HeapSound(list, (B \ {c}) \cup {a, b}, n) /\ b \notin B \ {c} /\ a # b
  <1>1. B \cap Range(list) = {} /\ Tiling(B \cup Range(list))
    BY DEF HeapSound
  <1>2. /\ Tiling(((B \cup Range(list)) \ {c}) \cup {a, b})
        /\ a \notin (B \cup Range(list)) \ {c} /\ b \notin (B \cup Range(list)) \ {c}
    BY <1>1, TilesSplit, ZenonT(60)
  <1>3. /\ ((B \ {c}) \cup {a, b}) \cap Range(list) = {}
        /\ ((B \ {c}) \cup {a, b}) \cup Range(list) = ((B \cup Range(list)) \ {c}) \cup {a, b}
    BY <1>1, <1>2, ZenonT(60)
  <1>4. QED
    BY <1>2, <1>3, CutFacts, ZenonT(60) DEF HeapSound

-----------------------------------------------------------------------------
(* A block that is freed has its place before the first chunk behind it.    *)
LEMMA PlaceFacts ==
  ASSUME NEW list, NEW B, NEW n, HeapSound(list, B, n), NEW b \in B
  PROVE  /\ PlaceOf(list, b) \in 1 .. Len(list) + 1
         /\ \A i \in 1 .. Len(list) : i < PlaceOf(list, b) => list[i].at < b.at
         /\ \A i \in 1 .. Len(list) : i >= PlaceOf(list, b) => b.at < list[i].at
  <1> DEFINE S == {i \in 1 .. Len(list) : list[i].at > b.at} \cup {Len(list) + 1}
             k == Min(S)
  <1>0. PlaceOf(list, b) = k
    BY DEF PlaceOf
  <1>1. /\ Len(list) \in Nat
        /\ \A i \in 1 .. Len(list) : list[i].at \in Nat /\ b.at # list[i].at
        /\ b.at \in Nat
        /\ \A i, j \in 1 .. Len(list) : i < j => list[i].at < list[j].at
    BY SoundFacts, ZenonT(60)
  <1>2. S \in SUBSET Nat /\ S # {} /\ S \subseteq 1 .. Len(list) + 1
    BY <1>1
  <1>3. k \in S /\ \A i \in S : k <= i
    <2> HIDE DEF S
    <2> QED
      BY <1>2, LeastIsElement, ZenonT(60)
  <1> HIDE DEF k
  <1>4. ASSUME NEW i \in 1 .. Len(list), i < k PROVE list[i].at < b.at
    <2>1. ~(k <= i)
      BY <1>2, <1>3, <1>4
    <2>2. ~(list[i].at > b.at)
      BY <1>3, <2>1, ZenonT(60)
    <2>3. QED
      BY <1>1, <2>2
  <1>5. ASSUME NEW i \in 1 .. Len(list), i >= k PROVE b.at < list[i].at
    <2>1. k \in 1 .. Len(list) /\ b.at < list[k].at
      BY <1>1, <1>2, <1>3, <1>5
    <2>2. list[k].at \in Nat /\ list[i].at \in Nat
      BY <1>1, <2>1, ZenonT(60)
    <2>3. CASE i = k
      BY <2>1, <2>3, ZenonT(60)
    <2>4. CASE i > k
      <3>1. list[k].at < list[i].at
        BY <1>1, <2>1, <2>4
      <3>2. QED
        BY <1>1, <2>1, <2>2, <3>1
    <2>5. QED
      BY <1>5, <2>1, <2>3, <2>4
  <1>6. QED
    BY <1>0, <1>2, <1>3, <1>4, <1>5, ZenonT(60)

Gap(list, i) == EndOf(list[i]) < list[i + 1].at

(* freeAlgorithm() puts the block at its place; only its two neighbours may *)
(* touch it.                                                                *)
LEMMA FreedIsLinked ==
  ASSUME NEW list, NEW B, NEW n, HeapSound(list, B, n), NEW b \in B,
         NEW k \in 1 .. Len(list) + 1, k = PlaceOf(list, b)
  PROVE  /\ HeapSound(Link(list, k, b), B \ {b}, n + b.size)
         /\ Merged(list) => \A i \in 1 .. Len(list) : i # k - 1 /\ i # k => Gap(Link(list, k, b), i)
  <1> DEFINE v == Link(list, k, b)
  <1>1. /\ list \in Seq(ChunkType) /\ n \in Int /\ Len(list) \in Nat /\ k \in Nat
        /\ \A i, j \in 1 .. Len(list) : i < j => list[i].at < list[j].at
        /\ b \in ChunkType /\ b.size \in Nat
        /\ B \subseteq ChunkType
    <2>1. k \in Nat
      BY SoundFacts
    <2>2. QED
      BY <2>1, SoundFacts, ZenonT(60)
  <1>2. Ordered(list) /\ Totals(list, n) /\ B \cap Range(list) = {} /\ Tiling(B \cup Range(list))
    BY DEF HeapSound
  <1>3. /\ v \in Seq(ChunkType)
        /\ Len(v) = Len(list) + 1
        /\ v[k] = b
        /\ \A j \in 1 .. Len(list) + 1 : j < k => v[j] = list[j]
        /\ \A j \in 1 .. Len(list) + 1 : j > k => v[j] = list[j - 1]
    BY <1>1, LinkFacts, ZenonT(60)
  <1>4. Totals(v, n + b.size)
    BY <1>1, <1>2, LinkedTotals, ZenonT(60)
  <1>5. Range(v) = Range(list) \cup {b}
    BY <1>1, LinkedRange, ZenonT(60)
  <1> HIDE DEF v
  <1>6. /\ \A i \in 1 .. Len(list) : i < k => list[i].at < b.at
        /\ \A i \in 1 .. Len(list) : i >= k => b.at < list[i].at
    BY PlaceFacts, ZenonT(60)
  <1>7. ASSUME NEW i \in 1 .. Len(v), NEW j \in 1 .. Len(v), i < j
        PROVE  v[i].at < v[j].at
    <2>0. i \in 1 .. Len(list) + 1 /\ j \in 1 .. Len(list) + 1
      BY <1>3
    <2>1. CASE j < k
      <3>1. v[i] = list[i] /\ v[j] = list[j] /\ i \in 1 .. Len(list) /\ j \in 1 .. Len(list)
        BY <1>1, <1>3, <1>7, <2>0, <2>1
      <3>2. QED
        BY <1>1, <1>7, <3>1, ZenonT(60)
    <2>2. CASE j = k
      <3>1. v[i] = list[i] /\ v[j] = b /\ i \in 1 .. Len(list) /\ i < k
        BY <1>1, <1>3, <1>7, <2>0, <2>2
      <3>2. QED
        BY <1>6, <3>1, ZenonT(60)
    <2>3. CASE j > k /\ i < k
      <3>1. v[i] = list[i] /\ v[j] = list[j - 1] /\ i \in 1 .. Len(list) /\ j - 1 \in 1 .. Len(list) /\ i < j - 1
        BY <1>1, <1>3, <1>7, <2>0, <2>3
      <3>2. QED
        BY <1>1, <3>1, ZenonT(60)
    <2>4. CASE i = k
      <3>1. v[i] = b /\ v[j] = list[j - 1] /\ j - 1 \in 1 .. Len(list) /\ j - 1 >= k
        BY <1>1, <1>3, <1>7, <2>0, <2>4
      <3>2. QED
        BY <1>6, <3>1, ZenonT(60)
    <2>5. CASE i > k
      <3>1. v[i] = list[i - 1] /\ v[j] = list[j - 1] /\ i - 1 \in 1 .. Len(list) /\ j - 1 \in 1 .. Len(list)
            /\ i - 1 < j - 1
        BY <1>1, <1>3, <1>7, <2>0, <2>5
      <3>2. QED
        BY <1>1, <3>1, ZenonT(60)
    <2>6. QED
      BY <1>1, <1>7, <2>0, <2>1, <2>2, <2>3, <2>4, <2>5
  <1>8. /\ (B \ {b}) \cap Range(v) = {}
        /\ (B \ {b}) \cup Range(v) = B \cup Range(list)
        /\ n + b.size \in Int
    <2>1. n + b.size \in Int
      BY <1>1
    <2>2. QED
      BY <1>2, <1>5, <2>1, ZenonT(60)
  <1>9. HeapSound(v, B \ {b}, n + b.size)
    BY <1>2, <1>3, <1>4, <1>7, <1>8, ZenonT(60) DEF HeapSound, Ordered
  <1>10. ASSUME Merged(list), NEW i \in 1 .. Len(list), i # k - 1, i # k
         PROVE  Gap(v, i)
    <2>1. CASE i < k
      <3>1. v[i] = list[i] /\ v[i + 1] = list[i + 1] /\ i \in 1 .. Len(list) - 1
        BY <1>1, <1>3, <1>10, <2>1
      <3>2. QED
        BY <1>10, <3>1, ZenonT(60) DEF Merged, Gap
    <2>2. CASE i > k
      <3>1. /\ i - 1 \in 1 .. Len(list) - 1 /\ (i + 1) - 1 = (i - 1) + 1
            /\ i \in 1 .. Len(list) + 1 /\ i + 1 \in 1 .. Len(list) + 1 /\ i + 1 > k
        BY <1>1, <1>10, <2>2
      <3>2. v[i] = list[i - 1] /\ v[i + 1] = list[(i + 1) - 1]
        BY <1>3, <2>2, <3>1, ZenonT(60)
      <3>3. QED
        BY <1>10, <3>1, <3>2, ZenonT(60) DEF Merged, Gap
    <2>3. QED
      BY <1>1, <1>10, <2>1, <2>2
  <1>11. QED
    BY <1>9, <1>10, ZenonT(60) DEF v

(* Two neighbours that touch are merged.                                    *)
LEMMA NeighboursJoin ==
  ASSUME NEW list, NEW B, NEW n, HeapSound(list, B, n), NEW k \in 1 .. Len(list) - 1, Adjacent(list, k)
  PROVE  /\ HeapSound(Join(list, k), B, n + HeaderSize)
         /\ Len(Join(list, k)) = Len(list) - 1
         /\ \A j \in 1 .. Len(list) - 2 : j < k /\ Gap(list, j) => Gap(Join(list, k), j)
         /\ \A j \in 1 .. Len(list) - 2 : j >= k /\ Gap(list, j + 1) => Gap(Join(list, k), j)
  <1> DEFINE a == list[k]
             b == list[k + 1]
             c == Chunk(a.at, a.size + b.size + HeaderSize)
             w == [list EXCEPT ![k] = c]
             v == Unlink(w, k + 1)
  <1>0. Join(list, k) = v
    BY DEF Join
  <1>1. /\ list \in Seq(ChunkType) /\ n \in Int /\ Len(list) \in Nat /\ k \in Nat
        /\ k \in 1 .. Len(list) /\ k + 1 \in 1 .. Len(list) /\ k # k + 1
        /\ \A i, j \in 1 .. Len(list) : i < j => list[i].at < list[j].at
        /\ a \in ChunkType /\ b \in ChunkType /\ a \in Range(list) /\ b \in Range(list)
    <2>1. Len(list) \in Nat
      BY SoundFacts, ZenonT(60)
    <2>2. k \in Nat /\ k \in 1 .. Len(list) /\ k + 1 \in 1 .. Len(list) /\ k # k + 1
      BY <2>1
    <2>3. QED
      BY <2>1, <2>2, SoundFacts, ZenonT(60)
  <1>2. Ordered(list) /\ Totals(list, n) /\ B \cap Range(list) = {} /\ Tiling(B \cup Range(list))
    BY DEF HeapSound
  <1>3. /\ c \in ChunkType /\ c.at = a.at /\ c.size = a.size + b.size + HeaderSize
        /\ a.at \in Nat /\ b.at \in Nat /\ a.size \in Nat /\ b.size \in Nat
        /\ EndOf(a) = b.at /\ EndOf(b) = EndOf(c) /\ a.at < b.at
    <2>1. EndOf(a) = b.at
      BY DEF Adjacent
    <2>2. a.at \in Nat /\ b.at \in Nat /\ a.size \in Nat /\ b.size \in Nat
      BY <1>1, ListFacts, ZenonT(60)
    <2> HIDE DEF a, b
    <2>3. a.size + b.size + HeaderSize \in Nat
      BY <2>2 DEF HeaderSize
    <2>4. /\ c \in ChunkType /\ c.at = a.at /\ c.size = a.size + b.size + HeaderSize
          /\ EndOf(c) = a.at + HeaderSize + (a.size + b.size + HeaderSize)
      BY <2>2, <2>3, ChunkFacts, ZenonT(60)
    <2> HIDE DEF c
    <2>5. EndOf(b) = EndOf(c) /\ a.at < b.at
      <3>1. b.at = a.at + HeaderSize + a.size /\ EndOf(b) = b.at + HeaderSize + b.size
        BY <2>1 DEF EndOf
      <3>2. (a.at + HeaderSize + a.size) + HeaderSize + b.size
            = a.at + HeaderSize + (a.size + b.size + HeaderSize)
        BY <2>2, JoinSum, ZenonT(60)
      <3>3. EndOf(b) = EndOf(c)
        BY <2>4, <3>1, <3>2, ZenonT(60)
      <3>4. a.at < b.at
        BY <2>2, <3>1 DEF HeaderSize
      <3>5. QED
        BY <3>3, <3>4
    <2>6. QED
      BY <2>1, <2>2, <2>4, <2>5, ZenonT(60)
  <1>4. Cut(c, a, b)
    <2> HIDE DEF a, b, c
    <2> QED
      BY <1>1, <1>3, ZenonT(60) DEF Cut
  <1> HIDE DEF c
  <1>5. /\ w \in Seq(ChunkType)
        /\ Len(w) = Len(list)
        /\ w[k] = c
        /\ \A j \in 1 .. Len(list) : j # k => w[j] = list[j]
    BY <1>1, <1>3, ReplaceFacts
  <1>6. /\ Totals(w, (n - list[k].size) + c.size)
        /\ Range(w) = (Range(list) \ {list[k]}) \cup {c}
    BY <1>1, <1>2, <1>3, ReplacedTotals, ReplacedRange, ZenonT(60)
  <1> HIDE DEF w
  <1>7. Ordered(w)
    <2>1. \A i \in 1 .. Len(list) : w[i].at = list[i].at
      BY <1>3, <1>5, ZenonT(60)
    <2>2. QED
      BY <1>1, <1>5, <2>1, ZenonT(60) DEF Ordered
  <1>8. w[k + 1] = b /\ k + 1 \in 1 .. Len(w)
    BY <1>1, <1>5, ZenonT(60)
  <1>9. (n - list[k].size) + c.size \in Int /\ ((n - list[k].size) + c.size) - b.size = n + HeaderSize
        /\ n + HeaderSize \in Int
    <2> HIDE DEF a, b
    <2> QED
      BY <1>1, <1>3 DEF a, HeaderSize
  <1>10. /\ v \in Seq(ChunkType)
         /\ Len(v) = Len(w) - 1
         /\ \A j \in 1 .. Len(w) - 1 : j < k + 1 => v[j] = w[j]
         /\ \A j \in 1 .. Len(w) - 1 : j >= k + 1 => v[j] = w[j + 1]
    BY <1>5, <1>8, UnlinkFacts, ZenonT(60)
  <1>11. Totals(v, n + HeaderSize)
    BY <1>5, <1>6, <1>8, <1>9, UnlinkedTotals, ZenonT(60)
  <1>12. Ordered(v)
    BY <1>5, <1>7, <1>8, UnlinkedOrdered, ZenonT(60)
  <1>13. Range(v) = Range(w) \ {b}
    BY <1>5, <1>7, <1>8, UnlinkedRange, ZenonT(60)
  <1> HIDE DEF v
  <1>14. /\ Tiling(((B \cup Range(list)) \ {a, b}) \cup {c})
         /\ c \notin (B \cup Range(list)) \ {a, b}
    <2>1. a \in B \cup Range(list) /\ b \in B \cup Range(list)
      BY <1>1, ZenonT(60)
    <2> HIDE DEF a, b
    <2>2. QED
      BY <1>2, <1>4, <2>1, TilesJoin, ZenonT(60)
  <1>15. c # b
    <2> HIDE DEF a, b
    <2> QED
      BY <1>3
  <1>16. B \cap Range(v) = {} /\ B \cup Range(v) = ((B \cup Range(list)) \ {a, b}) \cup {c}
    <2>1. \A e : e \in Range(v) <=> (e \in Range(list) /\ e # a /\ e # b) \/ e = c
      BY <1>6, <1>13, <1>15, ZenonT(60)
    <2> HIDE DEF a, b
    <2>2. a \notin B /\ b \notin B
      BY <1>1, <1>2, ZenonT(60)
    <2>3. c \notin B
      BY <1>14, <2>2, ZenonT(60)
    <2>4. B \cap Range(v) = {}
      BY <1>2, <2>1, <2>3, ZenonT(60)
    <2>5. \A e : e \in B \cup Range(v) <=> e \in ((B \cup Range(list)) \ {a, b}) \cup {c}
      BY <2>1, <2>2, ZenonT(60)
    <2>6. QED
      BY <2>4, <2>5, ZenonT(60)
  <1>17. HeapSound(v, B, n + HeaderSize)
    BY <1>9, <1>10, <1>11, <1>12, <1>14, <1>16, ZenonT(60) DEF HeapSound
  <1>18. ASSUME NEW j \in 1 .. Len(list) - 2, j < k, Gap(list, j)
         PROVE  Gap(v, j)
    <2>1. /\ j \in 1 .. Len(list) - 1 /\ j + 1 \in 1 .. Len(list) - 1 /\ j < k + 1 /\ j + 1 < k + 1
          /\ j \in 1 .. Len(list) /\ j + 1 \in 1 .. Len(list) /\ j # k
      BY <1>1, <1>18
    <2>2. v[j] = list[j] /\ v[j + 1] = w[j + 1]
      BY <1>5, <1>10, <2>1, ZenonT(60)
    <2>3. w[j + 1].at = list[j + 1].at
      BY <1>3, <1>5, <2>1, ZenonT(60)
    <2>4. QED
      BY <1>18, <2>2, <2>3, ZenonT(60) DEF Gap
  <1>19. ASSUME NEW j \in 1 .. Len(list) - 2, j >= k, Gap(list, j + 1)
         PROVE  Gap(v, j)
    <2>1. /\ j \in 1 .. Len(list) - 1 /\ j + 1 \in 1 .. Len(list) - 1 /\ j + 1 >= k + 1
          /\ j + 1 \in 1 .. Len(list) /\ (j + 1) + 1 \in 1 .. Len(list) /\ j + 1 # k /\ (j + 1) + 1 # k
      BY <1>1, <1>19
    <2>2. v[j + 1] = list[(j + 1) + 1]
      <3>1. v[j + 1] = w[(j + 1) + 1]
        BY <1>5, <1>10, <2>1, ZenonT(60)
      <3>2. QED
        BY <1>5, <2>1, <3>1, ZenonT(60)
    <2>3. EndOf(v[j]) = EndOf(list[j + 1])
      <3>1. CASE j = k
        <4>1. v[j] = c
          BY <1>1, <1>5, <1>10, <2>1, <3>1
        <4>2. QED
          BY <1>3, <3>1, <4>1, ZenonT(60)
      <3>2. CASE j # k
        <4>1. j >= k + 1
          BY <1>1, <1>19, <3>2
        <4>2. v[j] = list[j + 1]
          BY <1>5, <1>10, <2>1, <4>1, ZenonT(60)
        <4>3. QED
          BY <4>2, ZenonT(60)
      <3>3. QED
        BY <3>1, <3>2
    <2>4. QED
      BY <1>19, <2>2, <2>3, ZenonT(60) DEF Gap
  <1>20. QED
    BY <1>0, <1>5, <1>10, <1>17, <1>18, <1>19, ZenonT(60)

(* A list that has gaps everywhere but before and behind chunk k is merged. *)
LEMMA MergeKeeps ==
  ASSUME NEW list, NEW B, NEW n, HeapSound(list, B, n), NEW k \in 1 .. Len(list),
         \A i \in 1 .. Len(list) - 1 : i # k - 1 /\ i # k => Gap(list, i)
  PROVE  /\ HeapSound(Merge(list, k), B, n + HeaderSize * (Len(list) - Len(Merge(list, k))))
         /\ Merged(Merge(list, k))
  <1> DEFINE after == IF Adjacent(list, k) THEN Join(list, k) ELSE list
             m == IF Adjacent(list, k) THEN n + HeaderSize ELSE n
  <1>0. Merge(list, k) = IF Adjacent(after, k - 1) THEN Join(after, k - 1) ELSE after
    BY DEF Merge
  <1>1. Len(list) \in Nat /\ n \in Int /\ k \in Nat
    BY SoundFacts
  <1>2. ASSUME NEW l, NEW p, HeapSound(l, B, p), NEW i \in 1 .. Len(l) - 1, ~Adjacent(l, i)
        PROVE  Gap(l, i)
    <2>1. Len(l) \in Nat
      BY <1>2, SoundFacts, ZenonT(60)
    <2>2. i \in 1 .. Len(l) /\ i + 1 \in 1 .. Len(l) /\ i < i + 1
      BY <2>1
    <2>3. EndOf(l[i]) <= l[i + 1].at /\ EndOf(l[i]) \in Nat /\ l[i + 1].at \in Nat
      BY <1>2, <2>2, SoundFacts, ZenonT(60)
    <2>4. EndOf(l[i]) # l[i + 1].at
      BY <1>2, ZenonT(60) DEF Adjacent
    <2>5. QED
      BY <2>3, <2>4 DEF Gap
  <1>3. /\ HeapSound(after, B, m)
        /\ m = n + HeaderSize * (Len(list) - Len(after))
        /\ \A i \in 1 .. Len(after) - 1 : i # k - 1 => Gap(after, i)
        /\ Len(after) \in Nat
    <2>1. CASE Adjacent(list, k)
      <3>1. k \in 1 .. Len(list) - 1
        BY <2>1 DEF Adjacent
      <3>2. after = Join(list, k) /\ m = n + HeaderSize
        BY <2>1, ZenonT(60)
      <3>3. /\ HeapSound(Join(list, k), B, n + HeaderSize)
            /\ Len(Join(list, k)) = Len(list) - 1
            /\ \A j \in 1 .. Len(list) - 2 : j < k /\ Gap(list, j) => Gap(Join(list, k), j)
            /\ \A j \in 1 .. Len(list) - 2 : j >= k /\ Gap(list, j + 1) => Gap(Join(list, k), j)
        BY <2>1, <3>1, NeighboursJoin, ZenonT(60)
      <3>4. ASSUME NEW i \in 1 .. Len(after) - 1, i # k - 1
            PROVE  Gap(after, i)
        <4>1. i \in 1 .. Len(list) - 2
          BY <1>1, <3>2, <3>3
        <4>2. CASE i < k
          <5>1. i \in 1 .. Len(list) - 1 /\ i # k
            BY <1>1, <4>1, <4>2
          <5>2. Gap(list, i)
            BY <3>4, <5>1
          <5>3. QED
            BY <3>2, <3>3, <4>1, <4>2, <5>2, ZenonT(60)
        <4>3. CASE i >= k
          <5>1. i + 1 \in 1 .. Len(list) - 1 /\ i + 1 # k /\ i + 1 # k - 1
            BY <1>1, <4>1, <4>3
          <5>2. Gap(list, i + 1)
            BY <5>1
          <5>3. QED
            BY <3>2, <3>3, <4>1, <4>3, <5>2, ZenonT(60)
        <4>4. QED
          BY <1>1, <4>1, <4>2, <4>3
      <3>5. Len(after) \in Nat /\ m = n + HeaderSize * (Len(list) - Len(after))
        <4> HIDE DEF after, m
        <4>1. Len(after) = Len(list) - 1
          BY <3>2, <3>3, ZenonT(60)
        <4>2. QED
          BY <1>1, <3>1, <3>2, <4>1 DEF HeaderSize
      <3>6. HeapSound(after, B, m)
        BY <3>2, <3>3, ZenonT(60)
      <3>7. QED
        BY <3>4, <3>5, <3>6, ZenonT(60)
    <2>2. CASE ~Adjacent(list, k)
      <3>1. after = list /\ m = n
        BY <2>2, ZenonT(60)
      <3>2. ASSUME NEW i \in 1 .. Len(list) - 1, i # k - 1
            PROVE  Gap(list, i)
        <4>1. CASE i = k
          BY <1>2, <2>2, <4>1, ZenonT(60)
        <4>2. CASE i # k
          BY <3>2, <4>2, ZenonT(60)
        <4>3. QED
          BY <4>1, <4>2
      <3>3. n = n + HeaderSize * (Len(list) - Len(list))
        BY <1>1 DEF HeaderSize
      <3>4. QED
        BY <1>1, <3>1, <3>2, <3>3, ZenonT(60)
    <2>3. QED
      BY <2>1, <2>2, ZenonT(60)
  <1>4. m \in Int
    BY <1>1 DEF HeaderSize
  <1> HIDE DEF after, m
  <1>5. CASE Adjacent(after, k - 1)
    <2> DEFINE v == Join(after, k - 1)
    <2>1. k - 1 \in 1 .. Len(after) - 1
      BY <1>5 DEF Adjacent
    <2>2. Merge(list, k) = v
      BY <1>0, <1>5, ZenonT(60)
    <2>3. /\ HeapSound(v, B, m + HeaderSize)
          /\ Len(v) = Len(after) - 1
          /\ \A j \in 1 .. Len(after) - 2 : j < k - 1 /\ Gap(after, j) => Gap(v, j)
          /\ \A j \in 1 .. Len(after) - 2 : j >= k - 1 /\ Gap(after, j + 1) => Gap(v, j)
      BY <1>3, <1>5, <2>1, NeighboursJoin, ZenonT(60)
    <2> HIDE DEF v
    <2>4. ASSUME NEW i \in 1 .. Len(v) - 1 PROVE Gap(v, i)
      <3>1. i \in 1 .. Len(after) - 2
        BY <1>3, <2>3
      <3>2. CASE i < k - 1
        <4>1. i \in 1 .. Len(after) - 1 /\ i # k - 1
          BY <1>1, <1>3, <3>1, <3>2
        <4>2. QED
          BY <1>3, <2>3, <3>1, <3>2, <4>1, ZenonT(60)
      <3>3. CASE i >= k - 1
        <4>1. i + 1 \in 1 .. Len(after) - 1 /\ i + 1 # k - 1
          BY <1>1, <1>3, <3>1, <3>3
        <4>2. QED
          BY <1>3, <2>3, <3>1, <3>3, <4>1, ZenonT(60)
      <3>4. QED
        BY <1>1, <3>1, <3>2, <3>3
    <2>5. m + HeaderSize = n + HeaderSize * (Len(list) - Len(v))
      <3>1. m = n + HeaderSize * (Len(list) - Len(after)) /\ Len(after) \in Nat /\ Len(v) = Len(after) - 1
        BY <1>3, <2>3, ZenonT(60)
      <3>2. QED
        BY <1>1, <3>1 DEF HeaderSize
    <2>6. QED
      BY <2>2, <2>3, <2>4, <2>5, ZenonT(60) DEF Merged, Gap
  <1>6. CASE ~Adjacent(after, k - 1)
    <2>1. Merge(list, k) = after
      BY <1>0, <1>6, ZenonT(60)
    <2>2. ASSUME NEW i \in 1 .. Len(after) - 1 PROVE Gap(after, i)
      <3>1. CASE i = k - 1
        BY <1>2, <1>3, <1>6, <3>1, ZenonT(60)
      <3>2. CASE i # k - 1
        BY <1>3, <3>2, ZenonT(60)
      <3>3. QED
        BY <3>1, <3>2
    <2>3. QED
      BY <1>3, <2>1, <2>2, ZenonT(60) DEF Merged, Gap
  <1>7. QED
    BY <1>5, <1>6

(* free(): the block goes back into the list, which stays merged.           *)
LEMMA FreeKeeps ==
  ASSUME NEW list, NEW B, NEW n, HeapSound(list, B, n), Merged(list), NEW b \in B
  PROVE  /\ HeapSound(FreeAlgorithm(list, b), B \ {b}, n + FreeGain(list, b))
         /\ Merged(FreeAlgorithm(list, b))
  <1> DEFINE k == PlaceOf(list, b)
             v == Link(list, k, b)
             f == FreeAlgorithm(list, b)
  <1>0. f = Merge(v, k)
    BY DEF FreeAlgorithm
  <1>1. /\ Len(list) \in Nat /\ list \in Seq(ChunkType) /\ n \in Int
        /\ b \in ChunkType /\ b.size \in Nat
    BY SoundFacts, ZenonT(60)
  <1>2. k \in 1 .. Len(list) + 1
    BY PlaceFacts, ZenonT(60)
  <1>3. /\ HeapSound(v, B \ {b}, n + b.size)
        /\ \A i \in 1 .. Len(list) : i # k - 1 /\ i # k => Gap(v, i)
    BY <1>2, FreedIsLinked, ZenonT(60)
  <1>4. Len(v) = Len(list) + 1
    BY <1>1, <1>2, LinkFacts, ZenonT(60)
  <1> HIDE DEF v, k
  <1>5. k \in 1 .. Len(v) /\ \A i \in 1 .. Len(v) - 1 : i \in 1 .. Len(list)
    BY <1>1, <1>2, <1>4
  <1>6. \A i \in 1 .. Len(v) - 1 : i # k - 1 /\ i # k => Gap(v, i)
    BY <1>3, <1>5, ZenonT(60)
  <1>7. /\ HeapSound(f, B \ {b}, (n + b.size) + HeaderSize * (Len(v) - Len(f)))
        /\ Merged(f)
    BY <1>0, <1>3, <1>5, <1>6, MergeKeeps, ZenonT(60)
  <1>8. Len(f) \in Nat
    BY <1>7, SoundFacts, ZenonT(60)
  <1>9. FreeGain(list, b) = b.size + HeaderSize * (Len(list) + 1 - Len(f))
    BY ZenonT(60) DEF FreeGain
  <1> HIDE DEF f
  <1>10. (n + b.size) + HeaderSize * (Len(v) - Len(f)) = n + FreeGain(list, b)
    BY <1>1, <1>4, <1>8, <1>9 DEF HeaderSize
  <1>11. QED
    BY <1>7, <1>10, ZenonT(60) DEF f

(* allocAlgorithm() and what it takes of the list.                          *)
LEMMA TakeKeeps ==
  ASSUME NEW list, NEW B, NEW n, HeapSound(list, B, n), Merged(list),
         NEW k \in 1 .. Len(list), NEW size \in Nat, list[k].size >= size
  PROVE  /\ HeapSound(Take(list, k, size).list, B \cup {Take(list, k, size).block},
                      n - Take(list, k, size).cost)
         /\ Merged(Take(list, k, size).list)
         /\ Take(list, k, size).block \notin B
  <1> DEFINE c == list[k]
             t == Take(list, k, size)
             a == Chunk(c.at, size)
             r == Chunk(Data(c) + size, c.size - size - HeaderSize)
  <1>1. /\ c \in ChunkType /\ c.at \in Nat /\ c.size \in Nat /\ n \in Int /\ c \notin B
    BY SoundFacts, ZenonT(60)
  <1>2. CASE c.size - size >= MinBlockSize + HeaderSize
    <2>1. t.list = [list EXCEPT ![k] = r] /\ t.block = a /\ t.cost = HeaderSize + size
      BY <1>2 DEF Take
    <2> HIDE DEF c
    <2>2. Data(c) + size \in Nat /\ c.size - size - HeaderSize \in Nat
          /\ Data(c) = c.at + HeaderSize
      BY <1>1, <1>2 DEF Data, HeaderSize, MinBlockSize
    <2>3. /\ a \in ChunkType /\ a.at = c.at /\ EndOf(a) = c.at + HeaderSize + size
          /\ r \in ChunkType /\ r.at = Data(c) + size /\ r.size = c.size - size - HeaderSize
          /\ EndOf(r) = (Data(c) + size) + HeaderSize + (c.size - size - HeaderSize)
      BY <1>1, <2>2, ChunkFacts, ZenonT(60)
    <2> HIDE DEF a, r
    <2>4. EndOf(a) = r.at /\ EndOf(r) = EndOf(c)
          /\ (n - c.size) + r.size = n - (HeaderSize + size)
      <3>1. EndOf(c) = c.at + HeaderSize + c.size
        BY DEF EndOf
      <3>2. /\ ((c.at + HeaderSize) + size) + HeaderSize + (c.size - size - HeaderSize)
               = c.at + HeaderSize + c.size
            /\ (n - c.size) + (c.size - size - HeaderSize) = n - (HeaderSize + size)
        BY <1>1, SplitSum, CostSum, ZenonT(60)
      <3>3. QED
        BY <2>2, <2>3, <3>1, <3>2, ZenonT(60)
    <2>5. Cut(c, a, r)
      BY <1>1, <2>3, <2>4, ZenonT(60) DEF Cut
    <2>6. /\ HeapSound([list EXCEPT ![k] = r], B \cup {a}, (n - c.size) + r.size)
          /\ Merged([list EXCEPT ![k] = r])
          /\ a \notin B
      BY <2>5, TakeSlice, ZenonT(60) DEF c
    <2> HIDE DEF t
    <2>7. QED
      BY <2>1, <2>4, <2>6, ZenonT(60) DEF t
  <1>3. CASE ~(c.size - size >= MinBlockSize + HeaderSize)
    <2>1. t.list = Unlink(list, k) /\ t.block = c /\ t.cost = c.size
      BY <1>3 DEF Take
    <2>2. /\ HeapSound(Unlink(list, k), B \cup {c}, n - c.size)
          /\ Merged(Unlink(list, k))
      BY TakeWhole, ZenonT(60)
    <2> HIDE DEF t
    <2>3. QED
      BY <1>1, <2>1, <2>2, ZenonT(60) DEF t
  <1>4. QED
    BY <1>2, <1>3

(* allocAlgorithm() keeps the heap sound and merged, from wherever it       *)
(* starts to search.                                                        *)
LEMMA AllocKeeps ==
  ASSUME NEW list, NEW B, NEW n, HeapSound(list, B, n), Merged(list),
         NEW size \in Nat, NEW start \in Nat \ {0}, Fitting(list, size, start) # {},
         NEW a, a = AllocAlgorithm(list, size, start)
  PROVE  /\ HeapSound(a.list, B \cup {a.block}, n - a.cost)
         /\ Merged(a.list)
         /\ a.block \notin B
  <1> DEFINE k == Min(Fitting(list, size, start))
  <1>1. Len(list) \in Nat
    BY SoundFacts, ZenonT(60)
  <1>2. Fitting(list, size, start) \in SUBSET Nat
    BY <1>1 DEF Fitting
  <1>3. k \in Fitting(list, size, start)
    BY <1>2, LeastIsElement, ZenonT(60)
  <1>4. a = Take(list, k, size)
    BY DEF AllocAlgorithm
  <1> HIDE DEF k
  <1>5. k \in 1 .. Len(list) /\ list[k].size >= size
    BY <1>1, <1>3 DEF Fitting
  <1>6. QED
    BY <1>4, <1>5, TakeKeeps, ZenonT(60)

-----------------------------------------------------------------------------
(* The inductive invariant of the heap.                                     *)
HeapInv == HeapSound(chunks, blocks, freeMemory) /\ Merged(chunks)

(* alloc() preserves the invariant.                                         *)
LEMMA HeapAllocKeeps ==
  ASSUME HeapInv, NEW size \in Sizes, Alloc(size)
  PROVE  HeapInv'
  <1>1. size \in Nat
    BY HeapAssumption
  <1>2. CASE Fitting(chunks, size, 1) = {}
    <2>1. UNCHANGED <<chunks, blocks, freeMemory>>
      BY <1>2 DEF Alloc
    <2>2. QED
      BY <2>1 DEF HeapInv
  <1>3. CASE Fitting(chunks, size, 1) # {}
    <2> DEFINE a == AllocAlgorithm(chunks, size, 1)
    <2>1. chunks' = a.list /\ freeMemory' = freeMemory - a.cost /\ blocks' = blocks \cup {a.block}
      BY <1>3, ZenonT(60) DEF Alloc
    <2>2. 1 \in Nat \ {0}
      OBVIOUS
    <2>3. /\ HeapSound(a.list, blocks \cup {a.block}, freeMemory - a.cost)
          /\ Merged(a.list)
      BY <1>1, <1>3, <2>2, AllocKeeps, ZenonT(60) DEF HeapInv
    <2> HIDE DEF a
    <2>4. QED
      BY <2>1, <2>3, ZenonT(60) DEF HeapInv
  <1>4. QED
    BY <1>2, <1>3

(* free() preserves the invariant.                                          *)
LEMMA HeapReleaseKeeps ==
  ASSUME HeapInv, NEW b \in blocks, Release(b)
  PROVE  HeapInv'
  <1>1. /\ HeapSound(FreeAlgorithm(chunks, b), blocks \ {b}, freeMemory + FreeGain(chunks, b))
        /\ Merged(FreeAlgorithm(chunks, b))
    BY FreeKeeps, ZenonT(60) DEF HeapInv
  <1>2. QED
    BY <1>1, ZenonT(60) DEF HeapInv, Release

(* realloc() begins its search with a chunk of the list.                    *)
LEMMA StartIsChunk ==
  ASSUME HeapInv, NEW b \in blocks, NEW size
  PROVE  ReturnChunk(b, size) \in Nat \ {0}
  <1> DEFINE large == {i \in Scanned(b) : chunks[i].size >= size}
             better(i, j) == chunks[i].size < chunks[j].size
                             \/ (chunks[i].size = chunks[j].size /\ i <= j)
             W == {chunks[i].size : i \in large}
  <1>0. ReturnChunk(b, size) = IF large = {} THEN 1
                               ELSE CHOOSE i \in large : \A j \in large : better(i, j)
    BY DEF ReturnChunk
  <1>1. /\ Len(chunks) \in Nat
        /\ \A i \in 1 .. Len(chunks) : chunks[i].size \in Nat
    BY SoundFacts, ZenonT(60) DEF HeapInv
  <1>2. large \subseteq 1 .. Len(chunks)
    BY DEF Scanned
  <1>3. large \subseteq Nat \ {0} /\ \A i \in large : chunks[i].size \in Nat
    BY <1>1, <1>2
  <1> HIDE DEF large
  <1>4. CASE large = {}
    BY <1>0, <1>4
  <1>5. CASE large # {}
    <2>1. W \in SUBSET Nat /\ W # {}
      BY <1>3, <1>5, ZenonT(60)
    <2>2. PICK w \in W : \A v \in W : w <= v
      <3> HIDE DEF W
      <3> QED
        BY <2>1, LeastNatural, ZenonT(60)
    <2> DEFINE I == {i \in large : chunks[i].size = w}
    <2>3. I \in SUBSET Nat /\ I # {}
      BY <1>3, <2>2, ZenonT(60)
    <2>4. PICK i \in I : \A j \in I : i <= j
      <3> HIDE DEF I
      <3> QED
        BY <2>3, LeastNatural, ZenonT(60)
    <2>5. ASSUME NEW j \in large PROVE better(i, j)
      <3>1. w <= chunks[j].size /\ w \in Nat /\ chunks[j].size \in Nat /\ chunks[i].size = w
        BY <1>3, <2>1, <2>2, <2>4, ZenonT(60)
      <3>2. chunks[j].size = w => i <= j
        BY <2>4, ZenonT(60)
      <3>3. QED
        BY <3>1, <3>2
    <2>6. i \in large
      BY <2>4, ZenonT(60)
    <2> HIDE DEF better
    <2>7. (CHOOSE m \in large : \A j \in large : better(m, j)) \in large
      BY <2>5, <2>6, ZenonT(60)
    <2>8. QED
      BY <1>0, <1>3, <1>5, <2>7, ZenonT(60)
  <1>6. QED
    BY <1>4, <1>5

(* realloc() in place: the chunk behind the block is added to it, and what  *)
(* is left over goes back into the list.                                    *)
LEMMA HeapGrowKeeps ==
  ASSUME HeapInv, NEW b \in blocks, NEW size \in Nat, CanGrowInPlace(b, size), GrowInPlace(b, size)
  PROVE  HeapInv'
  <1> DEFINE k == Min(Behind(b))
             c == chunks[k]
             sum == b.size + c.size + HeaderSize
             list == Unlink(chunks, k)
             rest == Chunk(Data(b) + size, sum - size - HeaderSize)
             d == Chunk(b.at, sum)
             e == Chunk(b.at, size)
             n == freeMemory - c.size
  <1>0. HeapSound(chunks, blocks, freeMemory) /\ Merged(chunks)
    BY DEF HeapInv
  <1>1. Len(chunks) \in Nat /\ freeMemory \in Int
    BY <1>0, SoundFacts, ZenonT(60)
  <1>2. k \in Behind(b) /\ EndOf(b) = c.at
    <2>1. Behind(b) \in SUBSET Nat /\ Behind(b) # {}
      BY <1>1 DEF Behind, CanGrowInPlace
    <2>2. QED
      BY <2>1, LeastIsElement, ZenonT(60) DEF CanGrowInPlace
  <1>3. IF sum - size > HeaderSize + MinBlockSize
          THEN /\ chunks' = FreeAlgorithm(list, rest)
               /\ freeMemory' = n + FreeGain(list, rest)
               /\ blocks' = (blocks \ {b}) \cup {e}
          ELSE /\ chunks' = list
               /\ freeMemory' = n
               /\ blocks' = (blocks \ {b}) \cup {d}
    BY ZenonT(60) DEF GrowInPlace
  <1> HIDE DEF k
  <1>4. k \in 1 .. Len(chunks)
    BY <1>1, <1>2 DEF Behind
  <1>5. /\ b \in ChunkType /\ b.at \in Nat /\ b.size \in Nat
        /\ c \in ChunkType /\ c.at \in Nat /\ c.size \in Nat /\ c \notin blocks
    BY <1>0, <1>4, SoundFacts, ZenonT(60)
  <1>6. HeapSound(list, blocks \cup {c}, n) /\ Merged(list)
    BY <1>0, <1>4, TakeWhole, ZenonT(60)
  <1> HIDE DEF list, c
  <1>7. sum \in Nat
    BY <1>5 DEF HeaderSize
  <1>8. d \in ChunkType /\ d.at = b.at /\ d.size = sum /\ EndOf(d) = b.at + HeaderSize + sum
    BY <1>5, <1>7, ChunkFacts, ZenonT(60)
  <1>9. Cut(d, b, c)
    <2>1. EndOf(c) = c.at + HeaderSize + c.size /\ EndOf(b) = b.at + HeaderSize + b.size
      BY DEF EndOf
    <2>2. (b.at + HeaderSize + b.size) + HeaderSize + c.size = b.at + HeaderSize + sum
      BY <1>5, JoinSum, ZenonT(60)
    <2> HIDE DEF d, sum
    <2>3. EndOf(c) = EndOf(d)
      BY <1>2, <1>8, <2>1, <2>2, ZenonT(60)
    <2>4. QED
      BY <1>2, <1>5, <1>8, <2>3, ZenonT(60) DEF Cut
  <1> HIDE DEF d, n
  <1>10. /\ HeapSound(list, ((blocks \cup {c}) \ {b, c}) \cup {d}, n)
         /\ d \notin (blocks \cup {c}) \ {b, c}
    <2> DEFINE D == blocks \cup {c}
    <2>1. HeapSound(list, D, n) /\ b \in D /\ c \in D
      BY <1>6, ZenonT(60)
    <2> HIDE DEF D
    <2>2. HeapSound(list, (D \ {b, c}) \cup {d}, n) /\ d \notin D \ {b, c}
      BY <1>9, <2>1, BlocksJoin, ZenonT(60)
    <2>3. QED
      BY <2>2, ZenonT(60) DEF D
  <1>11. (blocks \cup {c}) \ {b, c} = blocks \ {b}
    BY <1>5, ZenonT(60)
  <1>12. HeapSound(list, (blocks \ {b}) \cup {d}, n) /\ d \notin blocks \ {b}
    BY <1>10, <1>11, ZenonT(60)
  <1>13. CASE sum - size > HeaderSize + MinBlockSize
    <2>1. sum - size - HeaderSize \in Nat /\ Data(b) + size \in Nat /\ Data(b) = b.at + HeaderSize
      <3> HIDE DEF sum
      <3> QED
        BY <1>5, <1>7, <1>13 DEF Data, HeaderSize, MinBlockSize
    <2>2. /\ e \in ChunkType /\ e.at = b.at /\ EndOf(e) = b.at + HeaderSize + size
          /\ rest \in ChunkType /\ rest.at = Data(b) + size
          /\ EndOf(rest) = (Data(b) + size) + HeaderSize + (sum - size - HeaderSize)
      BY <1>5, <2>1, ChunkFacts, ZenonT(60)
    <2> HIDE DEF sum
    <2>3. ((b.at + HeaderSize) + size) + HeaderSize + (sum - size - HeaderSize) = b.at + HeaderSize + sum
      BY <1>5, <1>7, SplitSum, ZenonT(60)
    <2> HIDE DEF e, rest
    <2>4. Cut(d, e, rest)
      BY <1>8, <2>1, <2>2, <2>3, ZenonT(60) DEF Cut
    <2>5. /\ HeapSound(list, (((blocks \ {b}) \cup {d}) \ {d}) \cup {e, rest}, n)
          /\ rest \notin ((blocks \ {b}) \cup {d}) \ {d} /\ e # rest
      <3> DEFINE D == (blocks \ {b}) \cup {d}
      <3>1. HeapSound(list, D, n) /\ d \in D
        BY <1>12, ZenonT(60)
      <3> HIDE DEF D
      <3>2. HeapSound(list, (D \ {d}) \cup {e, rest}, n) /\ rest \notin D \ {d} /\ e # rest
        BY <2>4, <3>1, BlocksSplit
      <3>3. QED
        BY <3>2, ZenonT(60) DEF D
    <2>6. ((blocks \ {b}) \cup {d}) \ {d} = blocks \ {b}
      BY <1>12, ZenonT(60)
    <2>7. /\ HeapSound(list, (blocks \ {b}) \cup {e, rest}, n)
          /\ rest \notin blocks \ {b} /\ e # rest
      BY <2>5, <2>6, ZenonT(60)
    <2>8. ((blocks \ {b}) \cup {e, rest}) \ {rest} = (blocks \ {b}) \cup {e}
      BY <2>7, ZenonT(60)
    <2>9. rest \in (blocks \ {b}) \cup {e, rest}
      BY ZenonT(60)
    <2>10. /\ HeapSound(FreeAlgorithm(list, rest), ((blocks \ {b}) \cup {e, rest}) \ {rest},
                        n + FreeGain(list, rest))
           /\ Merged(FreeAlgorithm(list, rest))
      BY <1>6, <2>7, <2>9, FreeKeeps, ZenonT(60)
    <2>11. QED
      BY <1>3, <1>13, <2>8, <2>10, ZenonT(60) DEF HeapInv
  <1>14. CASE ~(sum - size > HeaderSize + MinBlockSize)
    BY <1>3, <1>6, <1>12, <1>14, ZenonT(60) DEF HeapInv
  <1>15. QED
    BY <1>13, <1>14

(* realloc() elsewhere: a new block is taken before the old one is freed.   *)
LEMMA HeapMoveKeeps ==
  ASSUME HeapInv, NEW b \in blocks, NEW size \in Nat, Move(b, size)
  PROVE  HeapInv'
  <1> DEFINE start == ReturnChunk(b, size)
             a == AllocAlgorithm(chunks, size, start)
  <1>1. CASE Fitting(chunks, size, start) = {}
    <2>1. UNCHANGED <<chunks, blocks, freeMemory>>
      BY <1>1, ZenonT(60) DEF Move
    <2>2. QED
      BY <2>1 DEF HeapInv
  <1>2. CASE Fitting(chunks, size, start) # {}
    <2>1. /\ chunks' = FreeAlgorithm(a.list, b)
          /\ freeMemory' = (freeMemory - a.cost) + FreeGain(a.list, b)
          /\ blocks' = (blocks \ {b}) \cup {a.block}
      BY <1>2 DEF Move
    <2>2. start \in Nat \ {0}
      BY StartIsChunk, ZenonT(60)
    <2> HIDE DEF start
    <2>3. /\ HeapSound(a.list, blocks \cup {a.block}, freeMemory - a.cost)
          /\ Merged(a.list) /\ a.block \notin blocks
      BY <1>2, <2>2, AllocKeeps, ZenonT(60) DEF HeapInv
    <2> HIDE DEF a
    <2>4. /\ HeapSound(FreeAlgorithm(a.list, b), (blocks \cup {a.block}) \ {b},
                       (freeMemory - a.cost) + FreeGain(a.list, b))
          /\ Merged(FreeAlgorithm(a.list, b))
      BY <2>3, FreeKeeps, ZenonT(60)
    <2>5. (blocks \cup {a.block}) \ {b} = (blocks \ {b}) \cup {a.block}
      BY <2>3, ZenonT(60)
    <2>6. QED
      BY <2>1, <2>4, <2>5, ZenonT(60) DEF HeapInv
  <1>3. QED
    BY <1>1, <1>2

(* realloc() preserves the invariant on each of its paths.                  *)
LEMMA HeapReallocKeeps ==
  ASSUME HeapInv, NEW b \in blocks, NEW size \in Sizes, Realloc(b, size)
  PROVE  HeapInv'
  <1>1. size \in Nat
    BY HeapAssumption
  <1>2. CASE UNCHANGED <<chunks, blocks, freeMemory>>
    BY <1>2 DEF HeapInv
  <1>3. CASE Release(b)
    BY <1>3, HeapReleaseKeeps, ZenonT(60)
  <1>4. CASE CanGrowInPlace(b, size) /\ GrowInPlace(b, size)
    BY <1>1, <1>4, HeapGrowKeeps, ZenonT(60)
  <1>5. CASE Move(b, size)
    BY <1>1, <1>5, HeapMoveKeeps, ZenonT(60)
  <1>6. QED
    BY <1>2, <1>3, <1>4, <1>5, ZenonT(60) DEF Realloc

(* init() establishes the invariant.                                        *)
LEMMA HeapInvInit ==
  ASSUME HeapInit
  PROVE  HeapInv
  <1> DEFINE c == Chunk(0, Words - HeaderSize)
             m == Words - HeaderSize
             s == [i \in 0 .. 1 |-> IF i = 0 THEN 0 ELSE m]
  <1>1. chunks = <<c>> /\ blocks = {} /\ freeMemory = m
    BY DEF HeapInit
  <1>2. m \in Nat /\ 0 \in Nat
    BY HeapAssumption DEF HeaderSize
  <1>3. c \in ChunkType /\ c.at = 0 /\ c.size = m /\ EndOf(c) = 0 + HeaderSize + m
    BY <1>2, ChunkFacts, ZenonT(60)
  <1>4. EndOf(c) = Words
    <2> HIDE DEF c
    <2> QED
      BY <1>3, HeapAssumption DEF HeaderSize
  <1> HIDE DEF c
  <1>5. <<c>> \in Seq(ChunkType) /\ Len(<<c>>) = 1 /\ <<c>>[1] = c
    BY <1>3
  <1>6. Range(<<c>>) = {c}
    <2>1. \A e : e \in Range(<<c>>) <=> \E i \in 1 .. 1 : <<c>>[i] = e
      BY <1>5, ListRange
    <2>2. 1 .. 1 = {1}
      OBVIOUS
    <2>3. QED
      BY <1>5, <2>1, <2>2, ZenonT(60)
  <1>7. Ordered(<<c>>) /\ Merged(<<c>>)
    BY <1>5 DEF Ordered, Merged
  <1>8. Totals(<<c>>, m)
    <2> HIDE DEF m
    <2>1. Sums(<<c>>, s) /\ s[1] = m
      BY <1>2, <1>3, <1>5 DEF Sums
    <2> HIDE DEF s
    <2>2. QED
      BY <1>5, <2>1, ZenonT(60) DEF Totals
  <1>9. Tiling({c})
    <2>1. EndOf(c) <= Words /\ \A w \in 0 .. Words - 1 : Holds(c, w)
      BY <1>3, <1>4, HeapAssumption DEF Holds
    <2>2. QED
      BY <1>3, <2>1, ZenonT(60) DEF Tiling
  <1>10. {} \cap {c} = {} /\ {} \cup {c} = {c} /\ m \in Int
    BY <1>2
  <1>11. HeapSound(<<c>>, {}, m)
    <2> HIDE DEF m
    <2> QED
      BY <1>5, <1>6, <1>7, <1>8, <1>9, <1>10, ZenonT(60) DEF HeapSound
  <1>12. QED
    BY <1>1, <1>7, <1>11, ZenonT(60) DEF HeapInv

(* The invariant says that the heap is tiled.                               *)
LEMMA HeapInvImpliesTiled ==
  ASSUME HeapInv
  PROVE  HeapIsTiled
  <1>1. /\ HeapSound(chunks, blocks, freeMemory)
        /\ Regions \subseteq ChunkType
        /\ \A c, d \in Regions : c # d => Disjoint(c, d)
        /\ \A c \in Regions : EndOf(c) <= Words
        /\ \A w \in 0 .. Words - 1 : \E c \in Regions : Holds(c, w)
    BY ZenonT(60) DEF HeapInv, HeapSound, Tiling, Regions
  <1>2. \A c \in ChunkType : c.at \in Nat /\ EndOf(c) \in Nat
    BY DEF ChunkType, EndOf, HeaderSize
  <1>3. NoOverlap
    <2>1. ASSUME NEW c \in ChunkType, NEW d \in ChunkType, Disjoint(c, d)
          PROVE  Extent(c) \cap Extent(d) = {}
      <3>1. c.at \in Nat /\ EndOf(c) \in Nat /\ d.at \in Nat /\ EndOf(d) \in Nat
        BY <1>2
      <3>2. QED
        BY <2>1, <3>1 DEF Disjoint, Extent
    <2>2. QED
      BY <1>1, <2>1, ZenonT(60) DEF NoOverlap
  <1>4. NoLeak
    <2>1. \A c \in ChunkType : \A w : w \in Extent(c) <=> w \in Int /\ Holds(c, w)
      BY <1>2 DEF Extent, Holds
    <2>2. ASSUME NEW c \in Regions, NEW w \in Int, Holds(c, w)
          PROVE  w \in 0 .. Words - 1
      <3>1. c.at \in Nat /\ EndOf(c) \in Nat /\ EndOf(c) <= Words
        BY <1>1, <1>2, ZenonT(60)
      <3>2. QED
        BY <2>2, <3>1, HeapAssumption DEF Holds
    <2>3. \A w \in 0 .. Words - 1 : w \in Int
      OBVIOUS
    <2>4. \A w : w \in 0 .. Words - 1 <=> \E c \in Regions : w \in Extent(c)
      BY <1>1, <2>1, <2>2, <2>3, ZenonT(60)
    <2>5. QED
      BY <2>4, ZenonT(60) DEF NoLeak
  <1>5. ListIsCanonical
    BY ZenonT(60) DEF HeapInv, Merged, ListIsCanonical
  <1>6. FreeMemoryIsExact
    <2>1. PICK s : Sums(chunks, s) /\ s[Len(chunks)] = freeMemory
      BY <1>1, ZenonT(60) DEF HeapSound, Totals
    <2>2. chunks \in Seq(ChunkType)
      BY <1>1, SoundFacts, ZenonT(60)
    <2>3. SumTo(chunks) = s
      BY <2>1, <2>2, SumsAreSumTo, ZenonT(60)
    <2>4. QED
      BY <2>1, <2>3, ZenonT(60) DEF FreeMemoryIsExact
  <1>7. QED
    BY <1>3, <1>4, <1>5, <1>6 DEF HeapIsTiled

(* Whatever the order of alloc(), realloc() and free() on the kernel heap,  *)
(* blocks and free chunks never overlap and cover it, the free list is in   *)
(* order and merged, and getFreeMemory() is its sum (FreeListMemoryManager).*)
THEOREM HeapTiled == HeapSpec => []HeapIsTiled
  <1>1. HeapInit => HeapInv
    BY HeapInvInit
  <1>2. HeapInv /\ [HeapNext]_heapVars => HeapInv'
    <2>1. SUFFICES ASSUME HeapInv, [HeapNext]_heapVars PROVE HeapInv'
      OBVIOUS
    <2>2. CASE UNCHANGED heapVars
      BY <2>1, <2>2 DEF heapVars, HeapInv
    <2>3. ASSUME NEW size \in Sizes, Alloc(size) PROVE HeapInv'
      BY <2>1, <2>3, HeapAllocKeeps, ZenonT(60)
    <2>4. ASSUME NEW b \in blocks, Free(b) PROVE HeapInv'
      BY <2>1, <2>4, HeapReleaseKeeps, ZenonT(60) DEF Free
    <2>5. ASSUME NEW b \in blocks, NEW size \in Sizes, Realloc(b, size) PROVE HeapInv'
      BY <2>1, <2>5, HeapReallocKeeps, ZenonT(60)
    <2>6. QED
      BY <2>1, <2>2, <2>3, <2>4, <2>5, ZenonT(60) DEF HeapNext
  <1>3. HeapInv => HeapIsTiled
    BY HeapInvImpliesTiled
  <1>4. QED
    BY <1>1, <1>2, <1>3, PTL DEF HeapSpec
=============================================================================
