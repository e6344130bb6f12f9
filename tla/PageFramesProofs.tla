-------------------------- MODULE PageFramesProofs --------------------------
(***************************************************************************)
(* Proofs about PageFrames, for one thread and any number of frames and    *)
(* pages: a frame is behind one page, marked, and never lost; unmap()      *)
(* takes whole pages; the blocks of mapIO() are apart.  The invariant says *)
(* at each place of mapIO(), freeIO() and unmap() what the thread has in   *)
(* its hands.                                                              *)
(***************************************************************************)
EXTENDS PageFrames, QueueLemmas

(* The provers get time enough for a slow machine.                          *)
USE SMTT(60)

Entry == Ram \cup DeviceFrames \cup {Nil}
BlockType == [first : Nat, count : Nat]
RangeType == [start : Nat, end : Nat]
JobType ==
  [frames : Seq(Entry), word : SUBSET Ram, pages : Seq(Pages),
   io : BlockType \cup {Nil}, range : RangeType \cup {Nil}]

(* The frames: B is the bitmap, E the page table, D the DMA blocks that are *)
(* given out, H what a thread has in its hands.  What is mapped is marked,  *)
(* no frame is behind two pages, a block for DMA that is not given out is   *)
(* marked and not mapped, and what is marked is reserved, mapped or in      *)
(* somebody's hands.                                                        *)
FrameMarked(B, E) == \A p \in Pages : E[p] \in Ram => E[p] \in B

FrameOnce(E) == \A p, q \in Pages : E[p] \in Ram /\ E[p] = E[q] => p = q

DmaKept(B, D) == \A f \in DmaFrames : f \in B \/ f \in D

DmaFree(E, D) == \A p \in Pages : E[p] \in DmaFrames => E[p] \in D

FrameKept(B, E, H) ==
  \A f \in B : f \in ReservedFrames \/ f \in H \/ \E p \in Pages : E[p] = f

FramesOwned(B, E, D, H) ==
  /\ FrameMarked(B, E) /\ FrameOnce(E) /\ DmaKept(B, D) /\ DmaFree(E, D)
  /\ FrameKept(B, E, H)

Unmapped(E, H) == \A p \in Pages : E[p] \in Ram => E[p] \notin H

DmaGiven(D, H) == \A f \in H : f \in DmaFrames => f \in D

(* The IO pages: U is their bitmap, M the map of the blocks, of which io is *)
(* being freed with the pages in R to go.                                   *)
IoMarked(E, U) == \A p \in IoPages : p \in U <=> E[p] # Nil

IoCovered(U, M, io, R) ==
  \A p \in U : p \in R \/ \E b \in M : b # io /\ p \in PagesOf(b)

IoWithin(U, M, io) == \A b \in M : b # io => \A p \in PagesOf(b) : p \in U

IoApart(M) == \A b, c \in M : b # c => \A p \in PagesOf(b) : p \notin PagesOf(c)

IoKept(E, U, M, io, R) ==
  IoMarked(E, U) /\ IoCovered(U, M, io, R) /\ IoWithin(U, M, io) /\ IoApart(M)

(* What the assumptions say of the numbers.                                 *)
LEMMA NumberFacts ==
  /\ Nil \notin Ram /\ Nil \notin ReservedFrames /\ Nil \notin DeviceFrames /\ Nil \notin Pages
  /\ Ram \subseteq Nat /\ Pages \subseteq Nat /\ IoPages \subseteq Nat /\ HeapPages \subseteq Nat
  /\ ReservedFrames \subseteq Ram /\ DmaFrames \subseteq ReservedFrames
  /\ HeapPages \cap IoPages = {} /\ HeapPages \subseteq Pages /\ IoPages \subseteq Pages
  /\ DeviceFrames \cap Ram = {}
  <1>1. /\ Ram \subseteq Nat /\ IoPages \subseteq Nat /\ HeapPages \subseteq Nat
        /\ ReservedFrames \subseteq Ram
    BY FramesAssumption DEF Ram, ReservedFrames, IoPages, HeapPages
  <1>2. HeapPages \cap IoPages = {}
    BY FramesAssumption DEF IoPages, HeapPages
  <1>3. /\ Nil \notin Nat /\ DmaFrames \subseteq ReservedFrames
        /\ DeviceFrames \subseteq Nat /\ DeviceFrames \cap Ram = {}
    BY FramesAssumption, ZenonT(60)
  <1> QED
    BY <1>1, <1>2, <1>3, ZenonT(60) DEF Pages

(* A free frame goes to a page that has none (a page fault).                *)
LEMMA FaultOwns ==
  ASSUME NEW B, NEW E, NEW D, NEW H, FramesOwned(B, E, D, H), B \subseteq Ram,
         NEW f \in Ram, f \notin B, NEW p \in Pages, E[p] = Nil,
         NEW N, N[p] = f, \A q \in Pages : q # p => N[q] = E[q]
  PROVE  FramesOwned(B \cup {f}, N, D, H)
  <1>0. /\ FrameMarked(B, E) /\ FrameOnce(E) /\ DmaKept(B, D) /\ DmaFree(E, D)
        /\ FrameKept(B, E, H)
    BY ZenonT(60) DEF FramesOwned
  <1>1. FrameMarked(B \cup {f}, N)
    BY <1>0, ZenonT(60) DEF FrameMarked
  <1>2. FrameOnce(N)
    <2>1. \A q \in Pages : q # p => N[q] # f
      BY <1>0, ZenonT(60) DEF FrameMarked
    <2> QED
      BY <1>0, <2>1, ZenonT(60) DEF FrameOnce
  <1>3. DmaKept(B \cup {f}, D)
    BY <1>0, ZenonT(60) DEF DmaKept
  <1>4. DmaFree(N, D)
    <2>1. f \in DmaFrames => f \in D
      BY <1>0, ZenonT(60) DEF DmaKept
    <2> QED
      BY <1>0, <2>1, ZenonT(60) DEF DmaFree
  <1>5. FrameKept(B \cup {f}, N, H)
    <2>1. \A q \in Pages : E[q] \in B => N[q] = E[q]
      BY NumberFacts, ZenonT(60)
    <2> QED
      BY <1>0, <2>1, ZenonT(60) DEF FrameKept
  <1> QED
    BY <1>1, <1>2, <1>3, <1>4, <1>5, ZenonT(60) DEF FramesOwned

(* The bits of the frames in somebody's hands are set (mapIO()).            *)
LEMMA StoreOwns ==
  ASSUME NEW B, NEW E, NEW D, NEW H, FramesOwned(B, E, D, H)
  PROVE  FramesOwned(B \cup H, E, D, H)
  BY ZenonT(60) DEF FramesOwned, FrameMarked, FrameKept, DmaKept

(* More is in somebody's hands, or given out for DMA.                       *)
LEMMA MoreOwns ==
  ASSUME NEW B, NEW E, NEW D, NEW H, FramesOwned(B, E, D, H),
         NEW C, D \subseteq C, NEW G, H \subseteq G
  PROVE  FramesOwned(B, E, C, G)
  BY ZenonT(60) DEF FramesOwned, DmaKept, DmaFree, FrameKept

(* mapIO() maps frames that were in somebody's hands: N maps the pages of   *)
(* the block b to the frames in F, each to another.                         *)
MapsBlock(N, E, F, b) ==
  /\ b \in BlockType
  /\ N \in [Pages -> Entry]
  /\ \A p \in Pages : p \notin PagesOf(b) => N[p] = E[p]
  /\ \A p \in PagesOf(b) : N[p] \in Range(F)
  /\ \A f \in Range(F) : \E p \in PagesOf(b) : N[p] = f
  /\ \A p, q \in PagesOf(b) : N[p] = N[q] => p = q

(* What is mapped then is owned by the page tables.                         *)
LEMMA MapOwns ==
  ASSUME NEW B, NEW E, NEW D, NEW F, FramesOwned(B, E, D, Range(F)), B \subseteq Ram,
         Unmapped(E, Range(F)), DmaGiven(D, Range(F)), \A f \in Range(F) : f \in Ram => f \in B,
         NEW b, PagesOf(b) \subseteq Pages, \A p \in PagesOf(b) : E[p] = Nil,
         NEW N, MapsBlock(N, E, F, b)
  PROVE  FramesOwned(B, N, D, {})
  <1> DEFINE H == Range(F)
             S == PagesOf(b)
  <1>a. /\ \A p \in Pages : p \notin S => N[p] = E[p]
        /\ \A p \in S : N[p] \in H
        /\ \A f \in H : \E p \in S : N[p] = f
        /\ \A p, q \in S : N[p] = N[q] => p = q
    BY ZenonT(60) DEF MapsBlock
  <1> HIDE DEF H, S
  <1>0. /\ FrameMarked(B, E) /\ FrameOnce(E) /\ DmaKept(B, D) /\ DmaFree(E, D)
        /\ FrameKept(B, E, H)
    BY ZenonT(60) DEF FramesOwned, H
  <1>1. FrameMarked(B, N)
    BY <1>0, <1>a, ZenonT(60) DEF FrameMarked, H
  <1>2. FrameOnce(N)
    <2>1. ASSUME NEW p \in Pages, NEW q \in Pages, N[p] \in Ram, N[p] = N[q], p \in S, q \notin S
          PROVE  FALSE
      BY <1>a, <2>1, ZenonT(60) DEF Unmapped, H
    <2> QED
      BY <1>0, <1>a, <2>1, ZenonT(60) DEF FrameOnce
  <1>3. DmaFree(N, D)
    BY <1>0, <1>a, ZenonT(60) DEF DmaFree, DmaGiven, H
  <1>4. FrameKept(B, N, {})
    <2>1. ASSUME NEW p \in Pages, E[p] \in B
          PROVE  N[p] = E[p]
      <3>1. E[p] # Nil
        BY <2>1, NumberFacts, ZenonT(60)
      <3>2. p \notin S
        BY <3>1, ZenonT(60) DEF S
      <3> QED
        BY <1>a, <3>2, ZenonT(60)
    <2>2. ASSUME NEW f \in B
          PROVE  f \in ReservedFrames \/ \E p \in Pages : N[p] = f
      <3>1. f \in ReservedFrames \/ f \in H \/ \E p \in Pages : E[p] = f
        BY <1>0, ZenonT(60) DEF FrameKept
      <3>2. f \in H => \E p \in Pages : N[p] = f
        <4>1. f \in H => \E p \in S : N[p] = f
          BY <1>a, ZenonT(60)
        <4> QED
          BY <4>1, ZenonT(60) DEF S
      <3>3. ASSUME NEW p \in Pages, E[p] = f
            PROVE  N[p] = f
        BY <2>1, <3>3, ZenonT(60)
      <3> QED
        BY <3>1, <3>2, <3>3, ZenonT(60)
    <2> QED
      BY <2>2, ZenonT(60) DEF FrameKept
  <1> QED
    BY <1>0, <1>1, <1>2, <1>3, <1>4, ZenonT(60) DEF FramesOwned

(* The frame of a page goes into the hands of the one that unmaps it.       *)
LEMMA UnmapOwns ==
  ASSUME NEW B, NEW E, NEW D, NEW H, FramesOwned(B, E, D, H), B \subseteq Ram,
         H \cap Ram = {}, NEW p \in Pages,
         NEW N, N[p] = Nil, \A q \in Pages : q # p => N[q] = E[q]
  PROVE  /\ FramesOwned(B, N, D, {E[p]})
         /\ Unmapped(N, {E[p]}) /\ DmaGiven(D, {E[p]})
  <1>0. /\ FrameMarked(B, E) /\ FrameOnce(E) /\ DmaKept(B, D) /\ DmaFree(E, D)
        /\ FrameKept(B, E, H)
    BY ZenonT(60) DEF FramesOwned
  <1>n. Nil \notin Ram /\ Nil \notin DmaFrames
    BY NumberFacts, ZenonT(60)
  <1>1. FrameMarked(B, N)
    BY <1>0, <1>n, ZenonT(60) DEF FrameMarked
  <1>2. FrameOnce(N)
    BY <1>0, <1>n, ZenonT(60) DEF FrameOnce
  <1>3. DmaFree(N, D)
    BY <1>0, <1>n, ZenonT(60) DEF DmaFree
  <1>4. FrameKept(B, N, {E[p]})
    <2>1. \A q \in Pages : E[q] # E[p] => N[q] = E[q]
      BY ZenonT(60)
    <2>2. \A f \in B : f \notin H
      BY ZenonT(60)
    <2> QED
      BY <1>0, <2>1, <2>2, ZenonT(60) DEF FrameKept
  <1>5. Unmapped(N, {E[p]})
    BY <1>0, <1>n, ZenonT(60) DEF FrameOnce, Unmapped
  <1>6. DmaGiven(D, {E[p]})
    BY <1>0, ZenonT(60) DEF DmaFree, DmaGiven
  <1> QED
    BY <1>0, <1>1, <1>2, <1>3, <1>4, <1>5, <1>6, ZenonT(60) DEF FramesOwned

(* The bit of the frame in somebody's hands is cleared.                     *)
LEMMA ClearOwns ==
  ASSUME NEW B, NEW E, NEW D, NEW H, FramesOwned(B, E, D, H), Unmapped(E, H), DmaGiven(D, H)
  PROVE  FramesOwned(B \ H, E, D, {})
  <1>0. /\ FrameMarked(B, E) /\ FrameOnce(E) /\ DmaKept(B, D) /\ DmaFree(E, D)
        /\ FrameKept(B, E, H)
    BY ZenonT(60) DEF FramesOwned
  <1>1. FrameMarked(B \ H, E)
    BY <1>0, ZenonT(60) DEF FrameMarked, Unmapped
  <1>2. FrameKept(B \ H, E, {})
    BY <1>0, ZenonT(60) DEF FrameKept
  <1>3. DmaKept(B \ H, D)
    BY <1>0, ZenonT(60) DEF DmaKept, DmaGiven
  <1> QED
    BY <1>0, <1>1, <1>2, <1>3, ZenonT(60) DEF FramesOwned

(* What is not RAM need not be in anybody's hands.                          *)
LEMMA DropOwns ==
  ASSUME NEW B, NEW E, NEW D, NEW H, FramesOwned(B, E, D, H), B \subseteq Ram, H \cap Ram = {}
  PROVE  FramesOwned(B, E, D, {})
  BY ZenonT(60) DEF FramesOwned, FrameKept

(* mapIO() maps a block of IO pages that were free.                         *)
LEMMA MapIoKeeps ==
  ASSUME NEW E, NEW U, NEW M, NEW R, IoKept(E, U, M, Nil, R), R \cap U = {}, Nil \notin M,
         NEW b, \A p \in PagesOf(b) : p \in IoPages /\ p \notin U, b # Nil,
         NEW N, \A p \in IoPages : p \notin PagesOf(b) => N[p] = E[p],
         \A p \in PagesOf(b) : N[p] # Nil
  PROVE  IoKept(N, U \cup PagesOf(b), M \cup {b}, Nil, {})
  <1>0. IoMarked(E, U) /\ IoCovered(U, M, Nil, R) /\ IoWithin(U, M, Nil) /\ IoApart(M)
    BY ZenonT(60) DEF IoKept
  <1>1. IoMarked(N, U \cup PagesOf(b))
    BY <1>0, ZenonT(60) DEF IoMarked
  <1>2. IoCovered(U \cup PagesOf(b), M \cup {b}, Nil, {})
    BY <1>0, ZenonT(60) DEF IoCovered
  <1>3. \A c \in M : \A p \in PagesOf(c) : p \in U
    BY <1>0, ZenonT(60) DEF IoWithin
  <1>4. IoWithin(U \cup PagesOf(b), M \cup {b}, Nil)
    BY <1>3, ZenonT(60) DEF IoWithin
  <1>5. IoApart(M \cup {b})
    BY <1>0, <1>3, ZenonT(60) DEF IoApart
  <1> QED
    BY <1>1, <1>2, <1>4, <1>5, ZenonT(60) DEF IoKept

(* IOMemoryManager::free() takes a block.                                   *)
LEMMA BeginIoKeeps ==
  ASSUME NEW E, NEW U, NEW M, IoKept(E, U, M, Nil, {}), Nil \notin M,
         NEW b \in M, NEW R, \A p \in PagesOf(b) : p \in R
  PROVE  IoKept(E, U, M, b, R)
  <1>0. IoMarked(E, U) /\ IoCovered(U, M, Nil, {}) /\ IoWithin(U, M, Nil) /\ IoApart(M)
    BY ZenonT(60) DEF IoKept
  <1>1. IoCovered(U, M, b, R)
    BY <1>0, ZenonT(60) DEF IoCovered
  <1>2. IoWithin(U, M, b)
    BY <1>0, ZenonT(60) DEF IoWithin
  <1> QED
    BY <1>0, <1>1, <1>2, ZenonT(60) DEF IoKept

(* A page of the block is unmapped.                                         *)
LEMMA UnmapIoKeeps ==
  ASSUME NEW E, NEW U, NEW M, NEW io \in M, NEW R, IoKept(E, U, M, io, R),
         NEW p \in PagesOf(io), NEW Q, R = Q \cup {p},
         NEW N, N[p] = Nil, \A q \in IoPages : q # p => N[q] = E[q]
  PROVE  IoKept(N, U \ {p}, M, io, Q)
  <1>0. IoMarked(E, U) /\ IoCovered(U, M, io, R) /\ IoWithin(U, M, io) /\ IoApart(M)
    BY ZenonT(60) DEF IoKept
  <1>1. IoMarked(N, U \ {p})
    BY <1>0, ZenonT(60) DEF IoMarked
  <1>2. IoCovered(U \ {p}, M, io, Q)
    BY <1>0, ZenonT(60) DEF IoCovered
  <1>3. IoWithin(U \ {p}, M, io)
    BY <1>0, ZenonT(60) DEF IoWithin, IoApart
  <1> QED
    BY <1>0, <1>1, <1>2, <1>3, ZenonT(60) DEF IoKept

(* free() has unmapped the block and forgets it.                            *)
LEMMA EndIoKeeps ==
  ASSUME NEW E, NEW U, NEW M, NEW io, IoKept(E, U, M, io, {}), Nil \notin M
  PROVE  IoKept(E, U, M \ {io}, Nil, {})
  <1>0. IoMarked(E, U) /\ IoCovered(U, M, io, {}) /\ IoWithin(U, M, io) /\ IoApart(M)
    BY ZenonT(60) DEF IoKept
  <1>1. IoCovered(U, M \ {io}, Nil, {})
    BY <1>0, ZenonT(60) DEF IoCovered
  <1>2. IoWithin(U, M \ {io}, Nil)
    BY <1>0, ZenonT(60) DEF IoWithin
  <1>3. IoApart(M \ {io})
    BY <1>0, ZenonT(60) DEF IoApart
  <1> QED
    BY <1>0, <1>1, <1>2, <1>3, ZenonT(60) DEF IoKept

(* The pages of the heap are no IO pages.                                   *)
LEMMA HeapIoKeeps ==
  ASSUME NEW E, NEW U \in SUBSET IoPages, NEW M, NEW io, NEW R, IoKept(E, U, M, io, R),
         NEW N, \A q \in IoPages : N[q] = E[q],
         NEW Q, \A q \in R : q \in IoPages => q \in Q
  PROVE  IoKept(N, U, M, io, Q)
  <1>0. IoMarked(E, U) /\ IoCovered(U, M, io, R) /\ IoWithin(U, M, io) /\ IoApart(M)
    BY ZenonT(60) DEF IoKept
  <1>1. IoMarked(N, U)
    BY <1>0, ZenonT(60) DEF IoMarked
  <1>2. IoCovered(U, M, io, Q)
    BY <1>0, ZenonT(60) DEF IoCovered
  <1> QED
    BY <1>0, <1>1, <1>2, ZenonT(60) DEF IoKept

(* findAndSet() returns the start of a run of clear bits within the bitmap. *)
Fits(f, set, low, high, n) ==
  f \in Nat /\ \A i \in f .. f + n - 1 : i \in low .. high /\ i \notin set

(* What is found fits.                                                      *)
LEMMA FitFacts ==
  ASSUME NEW set, NEW low \in Nat, NEW high \in Int, NEW n \in Nat,
         FirstFit(set, low, high, n) # Nil
  PROVE  Fits(FirstFit(set, low, high, n), set, low, high, n)
  <1> DEFINE starts == {i \in low .. high - n + 1 : (i .. i + n - 1) \cap set = {}}
             f == FirstFit(set, low, high, n)
  <1>1. starts # {} /\ f = Min(starts)
    BY ZenonT(60) DEF FirstFit
  <1>2. starts \in SUBSET Nat
    OBVIOUS
  <1>3. f \in starts
    <2> HIDE DEF starts, f
    <2> QED
      BY <1>1, <1>2, LeastIsElement, ZenonT(60)
  <1> HIDE DEF f
  <1>4. f \in Nat /\ \A i \in f .. f + n - 1 : i \in low .. high /\ i \notin set
    BY <1>3
  <1> QED
    BY <1>4, ZenonT(60) DEF Fits, f

(* A run of numbers as a sequence.                                          *)
LEMMA RunFacts ==
  ASSUME NEW first \in Nat, NEW n \in Nat, NEW S, first .. first + n - 1 \subseteq S
  PROVE  /\ Run(first, n) \in Seq(S) /\ Len(Run(first, n)) = n
         /\ Range(Run(first, n)) = first .. first + n - 1
         /\ IsInjective(Run(first, n))
  <1>1. \A i \in 1 .. n : first + i - 1 \in first .. first + n - 1
    OBVIOUS
  <1>2. /\ Run(first, n) \in Seq(S) /\ Len(Run(first, n)) = n
        /\ DOMAIN Run(first, n) = 1 .. n
    BY <1>1 DEF Run
  <1>3. \A i \in 1 .. n : Run(first, n)[i] = first + i - 1
    BY DEF Run
  <1>4. Range(Run(first, n)) = first .. first + n - 1
    <2>1. ASSUME NEW x \in first .. first + n - 1
          PROVE  x \in Range(Run(first, n))
      <3>1. PICK i \in 1 .. n : x = first + i - 1
        <4>1. x - first + 1 \in 1 .. n /\ x = first + (x - first + 1) - 1
          OBVIOUS
        <4> QED
          BY <4>1, ZenonT(60)
      <3> QED
        BY <1>2, <1>3, <3>1, ZenonT(60) DEF Range
    <2>2. ASSUME NEW x \in Range(Run(first, n))
          PROVE  x \in first .. first + n - 1
      BY <1>1, <1>2, <1>3, ZenonT(60) DEF Range
    <2> QED
      BY <2>1, <2>2, ZenonT(60)
  <1>5. IsInjective(Run(first, n))
    BY <1>2, <1>3 DEF IsInjective
  <1> QED
    BY <1>2, <1>4, <1>5, ZenonT(60)

(* What unmap() passes over are the first pages of its range.               *)
LEMMA PrefixFacts ==
  ASSUME NEW S, NEW s \in Seq(S)
  PROVE  UntilThreeAbsent(s) \in Seq(S) /\ Range(UntilThreeAbsent(s)) \subseteq Range(s)
  <1> DEFINE stops == {i \in 3 .. Len(s) : \A j \in i - 2 .. i : pageEntry[s[j]] = Nil}
  <1>1. CASE stops = {}
    BY <1>1, ZenonT(60) DEF UntilThreeAbsent
  <1>2. CASE stops # {}
    <2>1. stops \in SUBSET Nat
      OBVIOUS
    <2>2. Min(stops) \in stops
      <3> HIDE DEF stops
      <3> QED
        BY <1>2, <2>1, LeastIsElement, ZenonT(60)
    <2>3. PICK m \in 3 .. Len(s) : UntilThreeAbsent(s) = SubSeq(s, 1, m)
      BY <1>2, <2>2, ZenonT(60) DEF UntilThreeAbsent
    <2>4. /\ SubSeq(s, 1, m) \in Seq(S) /\ Len(SubSeq(s, 1, m)) = m
          /\ \A i \in 1 .. m : SubSeq(s, 1, m)[i] = s[i]
      OBVIOUS
    <2>5. DOMAIN SubSeq(s, 1, m) = 1 .. m /\ \A i \in 1 .. m : i \in DOMAIN s
      BY <2>4
    <2> QED
      BY <2>3, <2>4, <2>5, ZenonT(60) DEF Range
  <1> QED
    BY <1>1, <1>2, ZenonT(60)

(* Division by the size of a page.                                          *)
LEMMA Division ==
  ASSUME NEW a \in Nat, NEW s \in Nat \ {0}
  PROVE  /\ a \div s \in Nat /\ a % s \in 0 .. s - 1
         /\ a = (a \div s) * s + (a % s)
  OBVIOUS

(* Multiples of the size of a page.                                         *)
LEMMA Multiples ==
  ASSUME NEW a \in Int, NEW b \in Int, NEW s \in Nat \ {0}
  PROVE  /\ a * s \in Int /\ (a * s) \div s = a
         /\ a <= b <=> a * s <= b * s
         /\ (a + 1) * s = a * s + s /\ (a - 1) * s = a * s - s
         /\ a * s - b * s = (a - b) * s
  OBVIOUS

(* unmap(start, end) takes pages of the heap that lie within start .. end.  *)
LEMMA WholePages ==
  ASSUME NEW start \in Nat, NEW end \in Nat, end <= HeapEnd
  PROVE  /\ UnmapRange(start, end) \in Seq(HeapPages)
         /\ \A p \in Range(UnmapRange(start, end)) :
              start <= p * PageSize /\ (p + 1) * PageSize - 1 <= end
  <1> DEFINE s == PageSize
             k == IF start % s # 0 THEN start \div s + 1 ELSE start \div s
             e == IF (end + 1) % s # 0 THEN end \div s - 1 ELSE end \div s
             v == Floor(start) + (IF start % s # 0 THEN s ELSE 0)
             w == Floor(end) - (IF (end + 1) % s # 0 THEN s ELSE 0)
  <1>0. s \in Nat \ {0}
    BY FramesAssumption
  <1>1. k \in Nat /\ v = k * s /\ start <= v /\ v < start + s
    <2> DEFINE a == start \div s
               r == start % s
    <2>1. a \in Nat /\ r \in 0 .. s - 1 /\ start = a * s + r
      BY <1>0, Division, ZenonT(60)
    <2>2. a * s \in Int /\ (a + 1) * s = a * s + s
      BY <1>0, <2>1, Multiples
    <2>3. k = (IF r # 0 THEN a + 1 ELSE a) /\ v = a * s + (IF r # 0 THEN s ELSE 0)
      BY DEF Floor
    <2> HIDE DEF a, r, k, v, s
    <2> QED
      BY <1>0, <2>1, <2>2, <2>3
  <1>2. e \in Int /\ w = e * s /\ (e + 1) * s <= end + 1
    <2> DEFINE a == end \div s
               r == end % s
               b == (end + 1) \div s
               c == (end + 1) % s
    <2>1. /\ a \in Nat /\ r \in 0 .. s - 1 /\ end = a * s + r
          /\ b \in Nat /\ c \in 0 .. s - 1 /\ end + 1 = b * s + c
      <3>1. end + 1 \in Nat
        OBVIOUS
      <3> QED
        BY <1>0, <3>1, Division, ZenonT(60)
    <2>2. /\ a * s \in Int /\ b * s \in Int /\ (a + 1) * s = a * s + s
          /\ (a - 1) * s = a * s - s
          /\ b <= a <=> b * s <= a * s
          /\ a + 1 <= b <=> (a + 1) * s <= b * s
      <3>1. a \in Int /\ b \in Int /\ a + 1 \in Int
        BY <2>1
      <3> HIDE DEF a, b, s
      <3> QED
        BY <1>0, <3>1, Multiples
    <2>3. e = (IF c # 0 THEN a - 1 ELSE a) /\ w = a * s - (IF c # 0 THEN s ELSE 0)
      BY DEF Floor
    <2> HIDE DEF a, r, b, c, e, w, s
    <2>4. CASE c # 0
      BY <1>0, <2>1, <2>2, <2>3, <2>4
    <2>5. CASE c = 0
      <3>1. b <= a => FALSE
        BY <1>0, <2>1, <2>2, <2>5
      <3> QED
        BY <1>0, <2>1, <2>2, <2>3, <2>5, <3>1
    <2> QED
      BY <2>4, <2>5
  <1>3. UnmapRange(start, end) =
          IF w < start THEN << >> ELSE Run(v \div s, (w - v) \div s + 1)
    BY DEF UnmapRange
  <1> HIDE DEF k, e, v, w
  <1>4. CASE w < start
    BY <1>3, <1>4 DEF Range
  <1>5. CASE ~(w < start)
    <2> HIDE DEF s
    <2>1. k <= e
      <3>1. k + 1 <= e + 1 <=> (k + 1) * s <= (e + 1) * s
        <4>1. k + 1 \in Int /\ e + 1 \in Int
          BY <1>1, <1>2
        <4> QED
          BY <1>0, <4>1, Multiples
      <3>2. /\ e * s \in Int /\ (e + 1) * s = e * s + s
            /\ k * s \in Int /\ (k + 1) * s = k * s + s
            /\ k <= e <=> k * s <= e * s
            /\ e + 1 <= k <=> (e + 1) * s <= k * s
        <4>1. k \in Int /\ e \in Int /\ e + 1 \in Int
          BY <1>1, <1>2
        <4> QED
          BY <1>0, <4>1, Multiples
      <3> QED
        BY <1>0, <1>1, <1>2, <1>5, <3>2
    <2>2. v \div s = k /\ (w - v) \div s = e - k
      <3>1. k \in Int /\ e \in Int /\ e - k \in Int
        BY <1>1, <1>2
      <3>2. w - v = (e - k) * s
        BY <1>0, <1>1, <1>2, <3>1, Multiples
      <3> QED
        BY <1>0, <1>1, <3>1, <3>2, Multiples
    <2>3. UnmapRange(start, end) = Run(k, e - k + 1)
      BY <1>3, <1>5, <2>2
    <2>4. ASSUME NEW p \in k .. e
          PROVE  start <= p * s /\ (p + 1) * s - 1 <= end /\ p \in HeapPages
      <3>1. /\ p * s \in Int /\ k * s <= p * s
            /\ (p + 1) * s <= (e + 1) * s /\ (p + 1) * s \in Int /\ (e + 1) * s \in Int
            /\ p + 1 <= NumHeapPages <=> (p + 1) * s <= NumHeapPages * s
        <4>1. k \in Int /\ p \in Int /\ k <= p /\ p + 1 \in Int /\ e + 1 \in Int /\ p + 1 <= e + 1
          BY <1>1, <1>2
        <4>2. NumHeapPages \in Int
          BY FramesAssumption
        <4> QED
          BY <1>0, <4>1, <4>2, Multiples
      <3>2. end <= NumHeapPages * s - 1 /\ NumHeapPages \in Nat /\ NumHeapPages * s \in Int
        BY <1>0, FramesAssumption DEF HeapEnd, s
      <3>3. start <= p * s /\ (p + 1) * s - 1 <= end
        BY <1>0, <1>1, <1>2, <3>1
      <3>4. p + 1 <= NumHeapPages
        BY <3>1, <3>2, <3>3
      <3> QED
        BY <1>1, <3>2, <3>3, <3>4 DEF HeapPages
    <2>5. k \in Nat /\ e - k + 1 \in Nat /\ k .. k + (e - k + 1) - 1 = k .. e
      BY <1>1, <1>2, <2>1
    <2>6. Run(k, e - k + 1) \in Seq(HeapPages) /\ Range(Run(k, e - k + 1)) = k .. e
      BY <2>4, <2>5, RunFacts, ZenonT(60)
    <2> QED
      BY <2>3, <2>4, <2>6, ZenonT(60) DEF s
  <1> QED
    BY <1>4, <1>5, ZenonT(60)

(* Where a thread can be in mapIO(), freeIO() and unmap().                  *)
MapPlaces == {"idle", "load", "store", "mapBlock", "unmap", "freeLoad", "freeStore"}

FramesTypeOK ==
  /\ frameBitmap \subseteq Ram
  /\ pageEntry \in [Pages -> Entry]
  /\ ioUsed \subseteq IoPages
  /\ ioMap \subseteq BlockType
  /\ \A b \in ioMap : PagesOf(b) \subseteq IoPages
  /\ ioLock \in Threads \cup {Nil}
  /\ mpc \in [Threads -> MapPlaces]
  /\ job \in [Threads -> JobType]

(* What the frames F in the hands of a thread at the place c are, and that  *)
(* the word w of the bitmap it has loaded is still the bitmap B.            *)
HandsOk(c, F, w, B, E, D) ==
  /\ c = "idle" => F = << >>
  /\ c \in {"load", "store"} =>
       IsInjective(F) /\ \A f \in Range(F) : f \in Ram /\ f \notin B
  /\ c = "mapBlock" =>
       /\ IsInjective(F) /\ Nil \notin Range(F)
       /\ Unmapped(E, Range(F)) /\ DmaGiven(D, Range(F))
       /\ \A f \in Range(F) : f \in Ram => f \in B
  /\ c = "unmap" => Range(F) \cap Ram = {}
  /\ c \in {"freeLoad", "freeStore"} => Unmapped(E, Range(F)) /\ DmaGiven(D, Range(F))
  /\ c \in {"store", "freeStore"} => w = B

(* The pages R that a thread has still to unmap are those of the block io,  *)
(* while it has the lock, or whole pages of a range r of the heap.          *)
BlockOk(R, io, r, M, lock) ==
  /\ lock = Nil <=> io = Nil
  /\ io # Nil => io \in M /\ R \subseteq PagesOf(io)
  /\ io = Nil => R \subseteq HeapPages
  /\ r # Nil => \A p \in R : r.start <= p * PageSize /\ (p + 1) * PageSize - 1 <= r.end

WorkOk(c, R, io, r, M, lock) ==
  /\ c \in {"idle", "load", "store", "mapBlock"} => R = {} /\ io = Nil /\ r = Nil
  /\ BlockOk(R, io, r, M, lock)

FramesInv(t) ==
  /\ FramesTypeOK
  /\ HandsOk(mpc[t], job[t].frames, job[t].word, frameBitmap, pageEntry, dmaUsed)
  /\ WorkOk(mpc[t], Range(job[t].pages), job[t].io, job[t].range, ioMap, ioLock)
  /\ FramesOwned(frameBitmap, pageEntry, dmaUsed, Range(job[t].frames))
  /\ IoKept(pageEntry, ioUsed, ioMap, job[t].io, Range(job[t].pages))

(* What is in the hands of a thread, place by place.                        *)
LEMMA EmptyHandsOk ==
  ASSUME NEW c \in {"idle", "unmap"}, NEW w, NEW B, NEW E, NEW D
  PROVE  HandsOk(c, << >>, w, B, E, D) /\ Range(<< >>) = {}
  <1>1. Range(<< >>) = {}
    BY DEF Range
  <1> QED
    BY <1>1 DEF HandsOk

(* In mapIO(): frames were found, and not marked yet.                       *)
LEMMA FoundHandsOk ==
  ASSUME NEW F, NEW B, NEW E, NEW D, IsInjective(F),
         \A f \in Range(F) : f \in Ram /\ f \notin B, NEW w
  PROVE  HandsOk("load", F, w, B, E, D) /\ HandsOk("store", F, B, B, E, D)
  BY DEF HandsOk

(* The frames are marked, or given, and to be mapped.                       *)
LEMMA MarkedHandsOk ==
  ASSUME NEW F, NEW B, NEW E, NEW D, IsInjective(F), Nil \notin Range(F),
         Unmapped(E, Range(F)), DmaGiven(D, Range(F)),
         \A f \in Range(F) : f \in Ram => f \in B, NEW w
  PROVE  HandsOk("mapBlock", F, w, B, E, D)
  BY DEF HandsOk

(* In unmap(): a frame was unmapped, and is to be freed if it is RAM.       *)
LEMMA UnmappedHandsOk ==
  ASSUME NEW F, NEW B, NEW E, NEW D, Unmapped(E, Range(F)), DmaGiven(D, Range(F)), NEW w
  PROVE  /\ HandsOk("freeLoad", F, w, B, E, D) /\ HandsOk("freeStore", F, B, B, E, D)
         /\ Range(F) \cap Ram = {} => HandsOk("unmap", F, w, B, E, D)
  BY DEF HandsOk

(* The work of a thread that frees pages.                                   *)
LEMMA FreeingOk ==
  ASSUME NEW c \in {"unmap", "freeLoad", "freeStore"}, NEW R, NEW io, NEW r, NEW M, NEW lock,
         BlockOk(R, io, r, M, lock)
  PROVE  WorkOk(c, R, io, r, M, lock)
  <1>1. c \notin {"idle", "load", "store", "mapBlock"}
    OBVIOUS
  <1> QED
    BY <1>1, ZenonT(60) DEF WorkOk

(* What the invariant says before a step.                                   *)
LEMMA FramesFacts ==
  ASSUME NEW t \in Threads, FramesInv(t)
  PROVE  /\ FramesTypeOK
         /\ mpc[t] \in MapPlaces /\ job[t] \in JobType
         /\ job[t].frames \in Seq(Entry) /\ job[t].word \in SUBSET Ram
         /\ job[t].pages \in Seq(Pages)
         /\ HandsOk(mpc[t], job[t].frames, job[t].word, frameBitmap, pageEntry, dmaUsed)
         /\ WorkOk(mpc[t], Range(job[t].pages), job[t].io, job[t].range, ioMap, ioLock)
         /\ FramesOwned(frameBitmap, pageEntry, dmaUsed, Range(job[t].frames))
         /\ IoKept(pageEntry, ioUsed, ioMap, job[t].io, Range(job[t].pages))
         /\ Nil \notin ioMap
  <1>1. FramesTypeOK
    BY ZenonT(60) DEF FramesInv
  <1>2. mpc[t] \in MapPlaces /\ job[t] \in JobType /\ ioMap \subseteq BlockType
    BY <1>1, ZenonT(60) DEF FramesTypeOK
  <1>3. /\ job[t].frames \in Seq(Entry) /\ job[t].word \in SUBSET Ram
        /\ job[t].pages \in Seq(Pages)
    BY <1>2 DEF JobType
  <1>4. Nil \notin ioMap
    BY <1>2, FramesAssumption, ZenonT(60) DEF BlockType
  <1> QED
    BY <1>1, <1>2, <1>3, <1>4, ZenonT(60) DEF FramesInv

(* The variables of a thread, and what is left of them when some change.    *)
JobIs(k, F, w, P, b, g) ==
  k \in JobType /\ k.frames = F /\ k.word = w /\ k.pages = P /\ k.io = b /\ k.range = g

(* The frames in hand change.                                               *)
LEMMA FramesChange ==
  ASSUME NEW j \in JobType, NEW F \in Seq(Entry)
  PROVE  JobIs([j EXCEPT !.frames = F], F, j.word, j.pages, j.io, j.range)
  <1> DEFINE k == [j EXCEPT !.frames = F]
  <1>1. k.frames = F /\ k.word = j.word /\ k.pages = j.pages /\ k.io = j.io /\ k.range = j.range
    BY ZenonT(60) DEF JobType
  <1>2. k \in JobType
    BY ZenonT(60) DEF JobType
  <1> QED
    BY <1>1, <1>2, ZenonT(60) DEF JobIs

(* The word of the bitmap changes.                                          *)
LEMMA WordChange ==
  ASSUME NEW j \in JobType, NEW w \in SUBSET Ram
  PROVE  JobIs([j EXCEPT !.word = w], j.frames, w, j.pages, j.io, j.range)
  <1> DEFINE k == [j EXCEPT !.word = w]
  <1>1. k.frames = j.frames /\ k.word = w /\ k.pages = j.pages /\ k.io = j.io /\ k.range = j.range
    BY ZenonT(60) DEF JobType
  <1>2. k \in JobType
    BY ZenonT(60) DEF JobType
  <1> QED
    BY <1>1, <1>2, ZenonT(60) DEF JobIs

(* The pages to unmap change.                                               *)
LEMMA PagesChange ==
  ASSUME NEW j \in JobType, NEW P \in Seq(Pages)
  PROVE  JobIs([j EXCEPT !.pages = P], j.frames, j.word, P, j.io, j.range)
  <1> DEFINE k == [j EXCEPT !.pages = P]
  <1>1. k.frames = j.frames /\ k.word = j.word /\ k.pages = P /\ k.io = j.io /\ k.range = j.range
    BY ZenonT(60) DEF JobType
  <1>2. k \in JobType
    BY ZenonT(60) DEF JobType
  <1> QED
    BY <1>1, <1>2, ZenonT(60) DEF JobIs

(* The block to free changes.                                               *)
LEMMA IoChange ==
  ASSUME NEW j \in JobType, NEW b \in BlockType
  PROVE  JobIs([j EXCEPT !.io = b], j.frames, j.word, j.pages, b, j.range)
  <1> DEFINE k == [j EXCEPT !.io = b]
  <1>1. /\ k.frames = j.frames /\ k.word = j.word /\ k.pages = j.pages
        /\ k.io = b /\ k.range = j.range
    BY ZenonT(60) DEF JobType
  <1>2. k \in JobType
    BY ZenonT(60) DEF JobType
  <1> QED
    BY <1>1, <1>2, ZenonT(60) DEF JobIs

(* The range to unmap changes.                                              *)
LEMMA RangeChange ==
  ASSUME NEW j \in JobType, NEW g \in RangeType
  PROVE  JobIs([j EXCEPT !.range = g], j.frames, j.word, j.pages, j.io, g)
  <1> DEFINE k == [j EXCEPT !.range = g]
  <1>1. k.frames = j.frames /\ k.word = j.word /\ k.pages = j.pages /\ k.io = j.io /\ k.range = g
    BY ZenonT(60) DEF JobType
  <1>2. k \in JobType
    BY ZenonT(60) DEF JobType
  <1> QED
    BY <1>1, <1>2, ZenonT(60) DEF JobIs

(* IOMemoryManager::free() takes a block.                                   *)
LEMMA TakesBlock ==
  ASSUME NEW t, Threads = {t}, job \in [Threads -> JobType],
         NEW P \in Seq(Pages), NEW b \in BlockType,
         job' = [job EXCEPT ![t].pages = P, ![t].io = b]
  PROVE  /\ job' \in [Threads -> JobType]
         /\ JobIs(job'[t], job[t].frames, job[t].word, P, b, job[t].range)
  <1> DEFINE k == [job[t] EXCEPT !.pages = P]
             h == [k EXCEPT !.io = b]
  <1>1. JobIs(k, job[t].frames, job[t].word, P, job[t].io, job[t].range)
    BY PagesChange, ZenonT(60)
  <1>2. job'[t] = h /\ DOMAIN job' = Threads /\ job' = [u \in Threads |-> job'[u]]
    BY ZenonT(60)
  <1> HIDE DEF k
  <1>3. JobIs(h, k.frames, k.word, k.pages, b, k.range)
    BY <1>1, IoChange, ZenonT(60) DEF JobIs
  <1> HIDE DEF h
  <1>4. JobIs(h, job[t].frames, job[t].word, P, b, job[t].range)
    BY <1>1, <1>3, ZenonT(60) DEF JobIs
  <1> QED
    BY <1>2, <1>4, ZenonT(60) DEF JobIs

(* The heap has a range to unmap.                                           *)
LEMMA TakesRange ==
  ASSUME NEW t, Threads = {t}, job \in [Threads -> JobType],
         NEW P \in Seq(Pages), NEW g \in RangeType,
         job' = [job EXCEPT ![t].pages = P, ![t].range = g]
  PROVE  /\ job' \in [Threads -> JobType]
         /\ JobIs(job'[t], job[t].frames, job[t].word, P, job[t].io, g)
  <1> DEFINE k == [job[t] EXCEPT !.pages = P]
             h == [k EXCEPT !.range = g]
  <1>1. JobIs(k, job[t].frames, job[t].word, P, job[t].io, job[t].range)
    BY PagesChange, ZenonT(60)
  <1>2. job'[t] = h /\ DOMAIN job' = Threads /\ job' = [u \in Threads |-> job'[u]]
    BY ZenonT(60)
  <1> HIDE DEF k
  <1>3. JobIs(h, k.frames, k.word, k.pages, k.io, g)
    BY <1>1, RangeChange, ZenonT(60) DEF JobIs
  <1> HIDE DEF h
  <1>4. JobIs(h, job[t].frames, job[t].word, P, job[t].io, g)
    BY <1>1, <1>3, ZenonT(60) DEF JobIs
  <1> QED
    BY <1>2, <1>4, ZenonT(60) DEF JobIs

(* unmap() takes the next page.                                             *)
LEMMA TakesPage ==
  ASSUME NEW t, Threads = {t}, job \in [Threads -> JobType],
         NEW P \in Seq(Pages), NEW F \in Seq(Entry),
         job' = [job EXCEPT ![t].pages = P, ![t].frames = F]
  PROVE  /\ job' \in [Threads -> JobType]
         /\ JobIs(job'[t], F, job[t].word, P, job[t].io, job[t].range)
  <1> DEFINE k == [job[t] EXCEPT !.pages = P]
             h == [k EXCEPT !.frames = F]
  <1>1. JobIs(k, job[t].frames, job[t].word, P, job[t].io, job[t].range)
    BY PagesChange, ZenonT(60)
  <1>2. job'[t] = h /\ DOMAIN job' = Threads /\ job' = [u \in Threads |-> job'[u]]
    BY ZenonT(60)
  <1> HIDE DEF k
  <1>3. JobIs(h, F, k.word, k.pages, k.io, k.range)
    BY <1>1, FramesChange, ZenonT(60) DEF JobIs
  <1> HIDE DEF h
  <1>4. JobIs(h, F, job[t].word, P, job[t].io, job[t].range)
    BY <1>1, <1>3, ZenonT(60) DEF JobIs
  <1> QED
    BY <1>2, <1>4, ZenonT(60) DEF JobIs

(* The frame was freed.                                                     *)
LEMMA EmptiesHands ==
  ASSUME NEW t, Threads = {t}, job \in [Threads -> JobType],
         NEW F \in Seq(Entry), NEW w \in SUBSET Ram,
         job' = [job EXCEPT ![t].frames = F, ![t].word = w]
  PROVE  /\ job' \in [Threads -> JobType]
         /\ JobIs(job'[t], F, w, job[t].pages, job[t].io, job[t].range)
  <1> DEFINE k == [job[t] EXCEPT !.frames = F]
             h == [k EXCEPT !.word = w]
  <1>1. JobIs(k, F, job[t].word, job[t].pages, job[t].io, job[t].range)
    BY FramesChange, ZenonT(60)
  <1>2. job'[t] = h /\ DOMAIN job' = Threads /\ job' = [u \in Threads |-> job'[u]]
    BY ZenonT(60)
  <1> HIDE DEF k
  <1>3. JobIs(h, k.frames, w, k.pages, k.io, k.range)
    BY <1>1, WordChange, ZenonT(60) DEF JobIs
  <1> HIDE DEF h
  <1>4. JobIs(h, F, w, job[t].pages, job[t].io, job[t].range)
    BY <1>1, <1>3, ZenonT(60) DEF JobIs
  <1> QED
    BY <1>2, <1>4, ZenonT(60) DEF JobIs

(* A thread goes on to the place c.                                         *)
LEMMA ThreadMoves ==
  ASSUME NEW t \in Threads, FramesTypeOK, NEW c \in MapPlaces, NEW j \in JobType,
         mpc' = [mpc EXCEPT ![t] = c], job' = [job EXCEPT ![t] = j]
  PROVE  /\ mpc' \in [Threads -> MapPlaces] /\ mpc'[t] = c
         /\ job' \in [Threads -> JobType] /\ job'[t] = j
  BY ZenonT(60) DEF FramesTypeOK

(* Nothing is mapped in the beginning.                                      *)
LEMMA FramesInvInit ==
  ASSUME NEW t, Threads = {t}, FramesInit
  PROVE  FramesInv(t)
  <1>1. /\ frameBitmap = ReservedFrames /\ dmaUsed = {} /\ ioUsed = {} /\ ioMap = {}
        /\ ioLock = Nil /\ \A p \in Pages : pageEntry[p] = Nil
        /\ mpc[t] = "idle" /\ job[t] = NoJob
    BY DEF FramesInit
  <1>2. /\ job[t].frames = << >> /\ job[t].word = {} /\ job[t].pages = << >>
        /\ job[t].io = Nil /\ job[t].range = Nil
    BY <1>1 DEF NoJob
  <1>3. Range(<< >>) = {}
    BY DEF Range
  <1>4. FramesTypeOK
    <2>1. NoJob \in JobType
      BY DEF NoJob, JobType
    <2>2. "idle" \in MapPlaces /\ Nil \in Entry
      BY DEF MapPlaces, Entry
    <2>3. /\ pageEntry = [p \in Pages |-> Nil] /\ mpc = [u \in Threads |-> "idle"]
          /\ job = [u \in Threads |-> NoJob]
      BY ZenonT(60) DEF FramesInit
    <2> QED
      BY <1>1, <2>1, <2>2, <2>3, NumberFacts, ZenonT(60) DEF FramesTypeOK
  <1>5. HandsOk(mpc[t], job[t].frames, job[t].word, frameBitmap, pageEntry, dmaUsed)
    BY <1>1, <1>2, EmptyHandsOk, ZenonT(60)
  <1>6. WorkOk(mpc[t], Range(job[t].pages), job[t].io, job[t].range, ioMap, ioLock)
    BY <1>1, <1>2, <1>3, ZenonT(60) DEF WorkOk, BlockOk
  <1>7. FramesOwned(frameBitmap, pageEntry, dmaUsed, Range(job[t].frames))
    BY <1>1, NumberFacts, ZenonT(60)
       DEF FramesOwned, FrameMarked, FrameOnce, DmaKept, DmaFree, FrameKept
  <1>8. IoKept(pageEntry, ioUsed, ioMap, job[t].io, Range(job[t].pages))
    BY <1>1, NumberFacts, ZenonT(60) DEF IoKept, IoMarked, IoCovered, IoWithin, IoApart
  <1> QED
    BY <1>4, <1>5, <1>6, <1>7, <1>8, ZenonT(60) DEF FramesInv

(* A page fault.                                                            *)
LEMMA FaultKeepsFrames ==
  ASSUME NEW t, Threads = {t}, FramesInv(t), NEW p \in HeapPages, Fault(t, p)
  PROVE  FramesInv(t)'
  <1> DEFINE f == FirstFit(frameBitmap, 0, NumRam - 1, 1)
  <1>0. /\ FramesTypeOK
        /\ HandsOk(mpc[t], job[t].frames, job[t].word, frameBitmap, pageEntry, dmaUsed)
        /\ WorkOk(mpc[t], Range(job[t].pages), job[t].io, job[t].range, ioMap, ioLock)
        /\ FramesOwned(frameBitmap, pageEntry, dmaUsed, Range(job[t].frames))
        /\ IoKept(pageEntry, ioUsed, ioMap, job[t].io, Range(job[t].pages))
    BY FramesFacts, ZenonT(60)
  <1>1. /\ mpc[t] = "idle" /\ pageEntry[p] = Nil /\ f # Nil
        /\ frameBitmap' = frameBitmap \cup {f} /\ pageEntry' = [pageEntry EXCEPT ![p] = f]
        /\ ioUsed' = ioUsed /\ ioMap' = ioMap /\ dmaUsed' = dmaUsed /\ ioLock' = ioLock
        /\ mpc' = mpc /\ job' = job
    BY ZenonT(60) DEF Fault
  <1>2. f \in Ram /\ f \notin frameBitmap
    <2>1. 0 \in Nat /\ 1 \in Nat /\ NumRam - 1 \in Int
      BY FramesAssumption
    <2>2. Fits(f, frameBitmap, 0, NumRam - 1, 1)
      BY <1>1, <2>1, FitFacts, ZenonT(60)
    <2> HIDE DEF f
    <2>3. f \in Nat /\ \A i \in f .. f + 1 - 1 : i \in 0 .. NumRam - 1 /\ i \notin frameBitmap
      BY <2>2, ZenonT(60) DEF Fits
    <2>4. f \in f .. f + 1 - 1
      BY <2>3
    <2> QED
      BY <2>3, <2>4, ZenonT(60) DEF Ram
  <1> HIDE DEF f
  <1>3. /\ pageEntry \in [Pages -> Entry] /\ frameBitmap \subseteq Ram /\ ioUsed \in SUBSET IoPages
        /\ p \in Pages /\ p \notin IoPages
    BY <1>0, NumberFacts, ZenonT(60) DEF FramesTypeOK
  <1>4. pageEntry' \in [Pages -> Entry]
    <2>1. f \in Entry
      BY <1>2, ZenonT(60) DEF Entry
    <2> QED
      BY <1>1, <1>3, <2>1, ZenonT(60)
  <1>5. pageEntry'[p] = f /\ \A q \in Pages : q # p => pageEntry'[q] = pageEntry[q]
    BY <1>1, <1>3, ZenonT(60)
  <1>6. FramesOwned(frameBitmap \cup {f}, pageEntry', dmaUsed, Range(job[t].frames))
    BY <1>0, <1>1, <1>2, <1>3, <1>5, FaultOwns, ZenonT(60)
  <1>7. IoKept(pageEntry', ioUsed, ioMap, job[t].io, Range(job[t].pages))
    <2>1. \A q \in IoPages : pageEntry'[q] = pageEntry[q]
      BY <1>3, <1>5, NumberFacts, ZenonT(60)
    <2> QED
      BY <1>0, <1>3, <2>1, HeapIoKeeps, ZenonT(60)
  <1>8. HandsOk("idle", job[t].frames, job[t].word, frameBitmap', pageEntry', dmaUsed)
    <2>1. job[t].frames = << >>
      BY <1>0, <1>1, ZenonT(60) DEF HandsOk
    <2> QED
      BY <2>1, EmptyHandsOk, ZenonT(60)
  <1>9. FramesTypeOK'
    BY <1>0, <1>1, <1>2, <1>4, ZenonT(60) DEF FramesTypeOK
  <1> QED
    BY <1>0, <1>1, <1>6, <1>7, <1>8, <1>9, ZenonT(60) DEF FramesInv

(* mapIO(size) finds free frames.                                           *)
LEMMA MapIOKeepsFrames ==
  ASSUME NEW t, Threads = {t}, FramesInv(t), NEW n \in 1 .. NumIoPages, MapIO(t, n)
  PROVE  FramesInv(t)'
  <1> DEFINE f == FirstFit(frameBitmap, 0, NumRam - 1, n)
  <1>0. /\ FramesTypeOK /\ job[t] \in JobType
        /\ HandsOk(mpc[t], job[t].frames, job[t].word, frameBitmap, pageEntry, dmaUsed)
        /\ WorkOk(mpc[t], Range(job[t].pages), job[t].io, job[t].range, ioMap, ioLock)
        /\ FramesOwned(frameBitmap, pageEntry, dmaUsed, Range(job[t].frames))
        /\ IoKept(pageEntry, ioUsed, ioMap, job[t].io, Range(job[t].pages))
    BY FramesFacts, ZenonT(60)
  <1>1. /\ mpc[t] = "idle" /\ f # Nil
        /\ job' = [job EXCEPT ![t].frames = Run(f, n)] /\ mpc' = [mpc EXCEPT ![t] = "load"]
        /\ frameBitmap' = frameBitmap /\ pageEntry' = pageEntry
        /\ ioUsed' = ioUsed /\ ioMap' = ioMap /\ dmaUsed' = dmaUsed /\ ioLock' = ioLock
    BY ZenonT(60) DEF MapIO
  <1>2. /\ Run(f, n) \in Seq(Entry) /\ IsInjective(Run(f, n))
        /\ \A g \in Range(Run(f, n)) : g \in Ram /\ g \notin frameBitmap
    <2>1. 0 \in Nat /\ n \in Nat /\ NumRam - 1 \in Int
      BY FramesAssumption
    <2>2. Fits(f, frameBitmap, 0, NumRam - 1, n)
      BY <1>1, <2>1, FitFacts, ZenonT(60)
    <2> HIDE DEF f
    <2>3. f \in Nat /\ \A i \in f .. f + n - 1 : i \in 0 .. NumRam - 1 /\ i \notin frameBitmap
      BY <2>2, ZenonT(60) DEF Fits
    <2>4. f .. f + n - 1 \subseteq Entry /\ f .. f + n - 1 \subseteq Ram
      BY <2>3, ZenonT(60) DEF Entry, Ram
    <2>5. /\ Run(f, n) \in Seq(Entry) /\ IsInjective(Run(f, n))
          /\ Range(Run(f, n)) = f .. f + n - 1
      BY <2>1, <2>3, <2>4, RunFacts, ZenonT(60)
    <2> QED
      BY <2>3, <2>4, <2>5, ZenonT(60)
  <1> HIDE DEF f
  <1> DEFINE k == [job[t] EXCEPT !.frames = Run(f, n)]
  <1>3. /\ k \in JobType /\ k.frames = Run(f, n) /\ k.pages = job[t].pages
        /\ k.io = job[t].io /\ k.range = job[t].range
    <2>1. JobIs(k, Run(f, n), job[t].word, job[t].pages, job[t].io, job[t].range)
      BY <1>0, <1>2, FramesChange, ZenonT(60)
    <2> HIDE DEF k
    <2> QED
      BY <2>1, ZenonT(60) DEF JobIs
  <1>4. "load" \in MapPlaces /\ t \in Threads
    BY DEF MapPlaces
  <1>5. /\ mpc' \in [Threads -> MapPlaces] /\ mpc'[t] = "load"
        /\ job' \in [Threads -> JobType] /\ job'[t] = k
    BY <1>0, <1>1, <1>3, <1>4, ThreadMoves, ZenonT(60)
  <1> HIDE DEF k
  <1>6. FramesTypeOK'
    BY <1>0, <1>1, <1>5, ZenonT(60) DEF FramesTypeOK
  <1>7. HandsOk("load", Run(f, n), job'[t].word, frameBitmap, pageEntry, dmaUsed)
    BY <1>2, FoundHandsOk, ZenonT(60)
  <1>8. WorkOk("load", Range(job[t].pages), job[t].io, job[t].range, ioMap, ioLock)
    BY <1>0, <1>1, ZenonT(60) DEF WorkOk
  <1>9. FramesOwned(frameBitmap, pageEntry, dmaUsed, Range(Run(f, n)))
    <2>1. job[t].frames = << >>
      BY <1>0, <1>1, ZenonT(60) DEF HandsOk
    <2>2. Range(job[t].frames) \subseteq Range(Run(f, n)) /\ dmaUsed \subseteq dmaUsed
      BY <2>1 DEF Range
    <2> QED
      BY <1>0, <2>2, MoreOwns, ZenonT(60)
  <1> QED
    BY <1>0, <1>1, <1>3, <1>5, <1>6, <1>7, <1>8, <1>9, ZenonT(60) DEF FramesInv

(* The word is loaded.                                                      *)
LEMMA LoadKeepsFrames ==
  ASSUME NEW t, Threads = {t}, FramesInv(t), LoadWord(t)
  PROVE  FramesInv(t)'
  <1> DEFINE c == IF mpc[t] = "load" THEN "store" ELSE "freeStore"
  <1>0. /\ FramesTypeOK /\ job[t] \in JobType
        /\ HandsOk(mpc[t], job[t].frames, job[t].word, frameBitmap, pageEntry, dmaUsed)
        /\ WorkOk(mpc[t], Range(job[t].pages), job[t].io, job[t].range, ioMap, ioLock)
        /\ FramesOwned(frameBitmap, pageEntry, dmaUsed, Range(job[t].frames))
        /\ IoKept(pageEntry, ioUsed, ioMap, job[t].io, Range(job[t].pages))
    BY FramesFacts, ZenonT(60)
  <1>1. /\ mpc[t] \in {"load", "freeLoad"}
        /\ job' = [job EXCEPT ![t].word = frameBitmap] /\ mpc' = [mpc EXCEPT ![t] = c]
        /\ frameBitmap' = frameBitmap /\ pageEntry' = pageEntry
        /\ ioUsed' = ioUsed /\ ioMap' = ioMap /\ dmaUsed' = dmaUsed /\ ioLock' = ioLock
    BY ZenonT(60) DEF LoadWord
  <1>2. c \in MapPlaces /\ t \in Threads /\ frameBitmap \in SUBSET Ram
    BY <1>0 DEF FramesTypeOK, MapPlaces
  <1>3. HandsOk(c, job[t].frames, frameBitmap, frameBitmap, pageEntry, dmaUsed)
    <2>1. CASE mpc[t] = "load"
      <3>1. /\ IsInjective(job[t].frames)
            /\ \A f \in Range(job[t].frames) : f \in Ram /\ f \notin frameBitmap
        BY <1>0, <2>1, ZenonT(60) DEF HandsOk
      <3> QED
        BY <2>1, <3>1, FoundHandsOk, ZenonT(60)
    <2>2. CASE mpc[t] = "freeLoad"
      <3>1. Unmapped(pageEntry, Range(job[t].frames)) /\ DmaGiven(dmaUsed, Range(job[t].frames))
        BY <1>0, <2>2, ZenonT(60) DEF HandsOk
      <3>2. c = "freeStore"
        BY <2>2
      <3> QED
        BY <3>1, <3>2, UnmappedHandsOk, ZenonT(60)
    <2> QED
      BY <1>1, <2>1, <2>2, ZenonT(60)
  <1>4. WorkOk(c, Range(job[t].pages), job[t].io, job[t].range, ioMap, ioLock)
    <2>1. CASE mpc[t] = "load"
      BY <1>0, <2>1, ZenonT(60) DEF WorkOk
    <2>2. CASE mpc[t] = "freeLoad"
      <3>1. c = "freeStore"
        BY <2>2
      <3>2. BlockOk(Range(job[t].pages), job[t].io, job[t].range, ioMap, ioLock)
        BY <1>0, ZenonT(60) DEF WorkOk
      <3> QED
        BY <3>1, <3>2, FreeingOk, ZenonT(60)
    <2> QED
      BY <1>1, <2>1, <2>2, ZenonT(60)
  <1> HIDE DEF c
  <1> DEFINE k == [job[t] EXCEPT !.word = frameBitmap]
  <1>5. /\ k \in JobType /\ k.frames = job[t].frames /\ k.pages = job[t].pages
        /\ k.io = job[t].io /\ k.range = job[t].range /\ k.word = frameBitmap
    <2>1. JobIs(k, job[t].frames, frameBitmap, job[t].pages, job[t].io, job[t].range)
      BY <1>0, <1>2, WordChange, ZenonT(60)
    <2> HIDE DEF k
    <2> QED
      BY <2>1, ZenonT(60) DEF JobIs
  <1>6. /\ mpc' \in [Threads -> MapPlaces] /\ mpc'[t] = c
        /\ job' \in [Threads -> JobType] /\ job'[t] = k
    BY <1>0, <1>1, <1>2, <1>5, ThreadMoves, ZenonT(60)
  <1> HIDE DEF k
  <1>7. FramesTypeOK'
    BY <1>0, <1>1, <1>5, <1>6, ZenonT(60) DEF FramesTypeOK
  <1> QED
    BY <1>0, <1>1, <1>3, <1>4, <1>5, <1>6, <1>7, ZenonT(60) DEF FramesInv

(* The word is stored with the bits set.                                    *)
LEMMA StoreKeepsFrames ==
  ASSUME NEW t, Threads = {t}, FramesInv(t), StoreSet(t)
  PROVE  FramesInv(t)'
  <1> DEFINE H == Range(job[t].frames)
  <1>0. /\ FramesTypeOK /\ job[t] \in JobType /\ job[t].frames \in Seq(Entry)
        /\ HandsOk(mpc[t], job[t].frames, job[t].word, frameBitmap, pageEntry, dmaUsed)
        /\ WorkOk(mpc[t], Range(job[t].pages), job[t].io, job[t].range, ioMap, ioLock)
        /\ FramesOwned(frameBitmap, pageEntry, dmaUsed, H)
        /\ IoKept(pageEntry, ioUsed, ioMap, job[t].io, Range(job[t].pages))
    BY FramesFacts, ZenonT(60)
  <1>1. /\ mpc[t] = "store" /\ frameBitmap' = job[t].word \cup H
        /\ job' = [job EXCEPT ![t].word = {}] /\ mpc' = [mpc EXCEPT ![t] = "mapBlock"]
        /\ pageEntry' = pageEntry
        /\ ioUsed' = ioUsed /\ ioMap' = ioMap /\ dmaUsed' = dmaUsed /\ ioLock' = ioLock
    BY ZenonT(60) DEF StoreSet
  <1>2. /\ job[t].word = frameBitmap /\ IsInjective(job[t].frames)
        /\ \A f \in H : f \in Ram /\ f \notin frameBitmap
    BY <1>0, <1>1, ZenonT(60) DEF HandsOk
  <1>3. frameBitmap' = frameBitmap \cup H
    BY <1>1, <1>2, ZenonT(60)
  <1>4. "mapBlock" \in MapPlaces /\ t \in Threads /\ frameBitmap \subseteq Ram /\ {} \in SUBSET Ram
    BY <1>0 DEF FramesTypeOK, MapPlaces
  <1> DEFINE k == [job[t] EXCEPT !.word = {}]
  <1>5. /\ k \in JobType /\ k.frames = job[t].frames /\ k.pages = job[t].pages
        /\ k.io = job[t].io /\ k.range = job[t].range
    <2>1. JobIs(k, job[t].frames, {}, job[t].pages, job[t].io, job[t].range)
      BY <1>0, <1>4, WordChange, ZenonT(60)
    <2> HIDE DEF k
    <2> QED
      BY <2>1, ZenonT(60) DEF JobIs
  <1>6. /\ mpc' \in [Threads -> MapPlaces] /\ mpc'[t] = "mapBlock"
        /\ job' \in [Threads -> JobType] /\ job'[t] = k
    BY <1>0, <1>1, <1>4, <1>5, ThreadMoves, ZenonT(60)
  <1> HIDE DEF k
  <1>7. HandsOk("mapBlock", job[t].frames, job'[t].word, frameBitmap', pageEntry, dmaUsed)
    <2>1. FrameMarked(frameBitmap, pageEntry) /\ DmaKept(frameBitmap, dmaUsed)
      BY <1>0, ZenonT(60) DEF FramesOwned
    <2>2. Unmapped(pageEntry, H) /\ DmaGiven(dmaUsed, H)
      BY <1>2, <2>1, ZenonT(60) DEF FrameMarked, DmaKept, Unmapped, DmaGiven
    <2>3. Nil \notin H /\ \A f \in H : f \in Ram => f \in frameBitmap'
      BY <1>2, <1>3, NumberFacts, ZenonT(60)
    <2> QED
      BY <1>2, <2>2, <2>3, MarkedHandsOk, ZenonT(60)
  <1>8. WorkOk("mapBlock", Range(job[t].pages), job[t].io, job[t].range, ioMap, ioLock)
    BY <1>0, <1>1, ZenonT(60) DEF WorkOk
  <1>9. FramesOwned(frameBitmap', pageEntry, dmaUsed, H)
    BY <1>0, <1>3, StoreOwns, ZenonT(60)
  <1>10. FramesTypeOK'
    BY <1>0, <1>1, <1>2, <1>3, <1>4, <1>5, <1>6, ZenonT(60) DEF FramesTypeOK
  <1> QED
    BY <1>0, <1>1, <1>5, <1>6, <1>7, <1>8, <1>9, <1>10, ZenonT(60) DEF FramesInv

(* A frame is given: the device's, or a block for DMA that was free.        *)
LEMMA GivenKeepsFrames ==
  ASSUME NEW t, Threads = {t}, FramesInv(t), mpc[t] = "idle", NEW f \in Entry,
         dmaUsed \subseteq dmaUsed',
         \/ f \in DeviceFrames
         \/ f \in DmaFrames /\ f \notin dmaUsed /\ f \in dmaUsed',
         job' = [job EXCEPT ![t].frames = <<f>>], mpc' = [mpc EXCEPT ![t] = "mapBlock"],
         frameBitmap' = frameBitmap, pageEntry' = pageEntry,
         ioUsed' = ioUsed, ioMap' = ioMap, ioLock' = ioLock
  PROVE  FramesInv(t)'
  <1>0. /\ FramesTypeOK /\ job[t] \in JobType
        /\ HandsOk(mpc[t], job[t].frames, job[t].word, frameBitmap, pageEntry, dmaUsed)
        /\ WorkOk(mpc[t], Range(job[t].pages), job[t].io, job[t].range, ioMap, ioLock)
        /\ FramesOwned(frameBitmap, pageEntry, dmaUsed, Range(job[t].frames))
        /\ IoKept(pageEntry, ioUsed, ioMap, job[t].io, Range(job[t].pages))
    BY FramesFacts, ZenonT(60)
  <1>1. <<f>> \in Seq(Entry) /\ Range(<<f>>) = {f} /\ IsInjective(<<f>>)
    BY DEF Range, IsInjective
  <1>2. "mapBlock" \in MapPlaces /\ t \in Threads
    BY DEF MapPlaces
  <1> DEFINE k == [job[t] EXCEPT !.frames = <<f>>]
  <1>3. /\ k \in JobType /\ k.frames = <<f>> /\ k.pages = job[t].pages
        /\ k.io = job[t].io /\ k.range = job[t].range
    <2>1. JobIs(k, <<f>>, job[t].word, job[t].pages, job[t].io, job[t].range)
      BY <1>0, <1>1, FramesChange, ZenonT(60)
    <2> HIDE DEF k
    <2> QED
      BY <2>1, ZenonT(60) DEF JobIs
  <1>4. /\ mpc' \in [Threads -> MapPlaces] /\ mpc'[t] = "mapBlock"
        /\ job' \in [Threads -> JobType] /\ job'[t] = k
    BY <1>0, <1>2, <1>3, ThreadMoves, ZenonT(60)
  <1> HIDE DEF k
  <1>5. HandsOk("mapBlock", <<f>>, job'[t].word, frameBitmap, pageEntry, dmaUsed')
    <2>1. DmaKept(frameBitmap, dmaUsed) /\ DmaFree(pageEntry, dmaUsed)
      BY <1>0, ZenonT(60) DEF FramesOwned
    <2>2. /\ f # Nil /\ (f \in Ram => f \in frameBitmap)
          /\ f \in DmaFrames => f \in dmaUsed'
          /\ \A p \in Pages : pageEntry[p] \in Ram => pageEntry[p] # f
      BY <2>1, NumberFacts, ZenonT(60) DEF DmaKept, DmaFree
    <2>3. Unmapped(pageEntry, {f}) /\ DmaGiven(dmaUsed', {f})
      BY <2>2, ZenonT(60) DEF Unmapped, DmaGiven
    <2>4. Nil \notin {f} /\ \A g \in {f} : g \in Ram => g \in frameBitmap
      BY <2>2, ZenonT(60)
    <2> QED
      BY <1>1, <2>3, <2>4, MarkedHandsOk, ZenonT(60)
  <1>6. WorkOk("mapBlock", Range(job[t].pages), job[t].io, job[t].range, ioMap, ioLock)
    BY <1>0, ZenonT(60) DEF WorkOk
  <1>7. FramesOwned(frameBitmap, pageEntry, dmaUsed', Range(<<f>>))
    <2>1. job[t].frames = << >>
      BY <1>0, ZenonT(60) DEF HandsOk
    <2>2. Range(job[t].frames) \subseteq Range(<<f>>)
      BY <2>1 DEF Range
    <2> QED
      BY <1>0, <2>2, MoreOwns, ZenonT(60)
  <1>8. FramesTypeOK'
    BY <1>0, <1>3, <1>4, ZenonT(60) DEF FramesTypeOK
  <1> QED
    BY <1>0, <1>3, <1>4, <1>5, <1>6, <1>7, <1>8, ZenonT(60) DEF FramesInv

(* mapIO(physAddress, size) is given the memory of a device.                *)
LEMMA MapDeviceKeepsFrames ==
  ASSUME NEW t, Threads = {t}, FramesInv(t), NEW f \in DeviceFrames, MapDevice(t, f)
  PROVE  FramesInv(t)'
  <1>1. f \in Entry /\ dmaUsed \subseteq dmaUsed'
    BY ZenonT(60) DEF Entry, MapDevice
  <1>2. /\ mpc[t] = "idle"
        /\ job' = [job EXCEPT ![t].frames = <<f>>] /\ mpc' = [mpc EXCEPT ![t] = "mapBlock"]
        /\ frameBitmap' = frameBitmap /\ pageEntry' = pageEntry
        /\ ioUsed' = ioUsed /\ ioMap' = ioMap /\ ioLock' = ioLock
    BY ZenonT(60) DEF MapDevice
  <1> QED
    BY <1>1, <1>2, GivenKeepsFrames, ZenonT(60)

(* allocDmaBuffer() gives the first block that is free.                     *)
LEMMA AllocDmaKeepsFrames ==
  ASSUME NEW t, Threads = {t}, FramesInv(t), AllocDma(t)
  PROVE  FramesInv(t)'
  <1> DEFINE f == Min(DmaFrames \ dmaUsed)
  <1>1. /\ mpc[t] = "idle" /\ DmaFrames \ dmaUsed # {}
        /\ dmaUsed' = dmaUsed \cup {f}
        /\ job' = [job EXCEPT ![t].frames = <<f>>] /\ mpc' = [mpc EXCEPT ![t] = "mapBlock"]
        /\ frameBitmap' = frameBitmap /\ pageEntry' = pageEntry
        /\ ioUsed' = ioUsed /\ ioMap' = ioMap /\ ioLock' = ioLock
    BY ZenonT(60) DEF AllocDma
  <1>2. DmaFrames \ dmaUsed \in SUBSET Nat /\ DmaFrames \subseteq Ram
    BY NumberFacts, ZenonT(60)
  <1>3. f \in DmaFrames \ dmaUsed
    BY <1>1, <1>2, LeastIsElement, ZenonT(60)
  <1> HIDE DEF f
  <1>4. f \in Entry /\ dmaUsed \subseteq dmaUsed'
    BY <1>1, <1>2, <1>3, ZenonT(60) DEF Entry
  <1>5. f \in DmaFrames /\ f \notin dmaUsed /\ f \in dmaUsed'
    BY <1>1, <1>3, ZenonT(60)
  <1> QED
    BY <1>1, <1>4, <1>5, GivenKeepsFrames, ZenonT(60)

(* The variables of an idle thread.                                         *)
LEMMA NoJobIs == JobIs(NoJob, << >>, {}, << >>, Nil, Nil)
  BY DEF JobIs, NoJob, JobType

(* A block of pages from first on is mapped to the frames in F.             *)
Remapped(E, F, first) ==
  [p \in Pages |-> IF p \in PagesOf(Block(first, Len(F))) THEN F[p - first + 1] ELSE E[p]]

(* It maps each page of the block to another of the frames.                 *)
LEMMA BlockMaps ==
  ASSUME NEW F \in Seq(Entry), IsInjective(F), NEW first \in Nat,
         \A p \in PagesOf(Block(first, Len(F))) : p \in IoPages,
         NEW E \in [Pages -> Entry]
  PROVE  MapsBlock(Remapped(E, F, first), E, F, Block(first, Len(F)))
  <1> DEFINE n == Len(F)
             S == PagesOf(Block(first, n))
             N == Remapped(E, F, first)
  <1>1. n \in Nat /\ DOMAIN F = 1 .. n /\ \A i \in 1 .. n : F[i] \in Entry
    OBVIOUS
  <1>2. S = first .. first + n - 1
    BY DEF PagesOf, Block
  <1>3. Block(first, n) \in BlockType
    BY <1>1 DEF Block, BlockType
  <1> HIDE DEF S, n
  <1>4. \A p \in Pages : N[p] = IF p \in S THEN F[p - first + 1] ELSE E[p]
    BY ZenonT(60) DEF Remapped, S, n
  <1>5. S \subseteq Pages
    BY NumberFacts, ZenonT(60) DEF S, n
  <1>6. \A p \in S : p - first + 1 \in 1 .. n
    BY <1>1, <1>2
  <1>7. \A p \in S : N[p] = F[p - first + 1] /\ p - first + 1 \in DOMAIN F
    BY <1>1, <1>4, <1>5, <1>6, ZenonT(60)
  <1>8. N \in [Pages -> Entry]
    <2>1. \A p \in Pages : N[p] \in Entry
      BY <1>1, <1>4, <1>6, ZenonT(60)
    <2>2. N = [p \in Pages |-> N[p]]
      BY ZenonT(60) DEF Remapped
    <2> HIDE DEF N
    <2> QED
      BY <2>1, <2>2, ZenonT(60)
  <1>9. \A p \in S : N[p] \in Range(F)
    BY <1>7, ZenonT(60) DEF Range
  <1>10. ASSUME NEW f \in Range(F)
         PROVE  \E p \in S : N[p] = f
    <2>1. PICK i \in 1 .. n : F[i] = f
      BY <1>1, ZenonT(60) DEF Range
    <2>2. first + i - 1 \in S /\ (first + i - 1) - first + 1 = i
      BY <1>1, <1>2
    <2> QED
      BY <1>7, <2>1, <2>2, ZenonT(60)
  <1>11. ASSUME NEW p \in S, NEW q \in S, N[p] = N[q]
         PROVE  p = q
    <2>1. p - first + 1 = q - first + 1
      BY <1>7, <1>11, ZenonT(60) DEF IsInjective
    <2> QED
      BY <1>1, <1>2, <2>1
  <1> QED
    BY <1>3, <1>4, <1>8, <1>9, <1>10, <1>11, ZenonT(60) DEF MapsBlock, S, n

(* mapIO() maps the frames to the first IO pages that are free.             *)
LEMMA MapBlockKeepsFrames ==
  ASSUME NEW t, Threads = {t}, FramesInv(t), MapBlock(t)
  PROVE  FramesInv(t)'
  <1> DEFINE F == job[t].frames
             n == Len(F)
             low == NumHeapPages
             high == NumHeapPages + NumIoPages - 1
             first == FirstFit(ioUsed, low, high, n)
             b == Block(first, n)
             S == PagesOf(b)
  <1>0. /\ FramesTypeOK /\ job[t] \in JobType /\ F \in Seq(Entry) /\ Nil \notin ioMap
        /\ HandsOk(mpc[t], F, job[t].word, frameBitmap, pageEntry, dmaUsed)
        /\ WorkOk(mpc[t], Range(job[t].pages), job[t].io, job[t].range, ioMap, ioLock)
        /\ FramesOwned(frameBitmap, pageEntry, dmaUsed, Range(F))
        /\ IoKept(pageEntry, ioUsed, ioMap, job[t].io, Range(job[t].pages))
    BY FramesFacts, ZenonT(60)
  <1>1. /\ mpc[t] = "mapBlock" /\ first # Nil /\ ioLock = Nil
        /\ ioUsed' = ioUsed \cup S /\ ioMap' = ioMap \cup {b}
        /\ pageEntry' = Remapped(pageEntry, F, first)
        /\ mpc' = [mpc EXCEPT ![t] = "idle"] /\ job' = [job EXCEPT ![t] = NoJob]
        /\ frameBitmap' = frameBitmap /\ dmaUsed' = dmaUsed /\ ioLock' = ioLock
    BY ZenonT(60) DEF MapBlock, MapFirstFit, Remapped
  <1>2. /\ IsInjective(F) /\ Nil \notin Range(F)
        /\ Unmapped(pageEntry, Range(F)) /\ DmaGiven(dmaUsed, Range(F))
        /\ \A f \in Range(F) : f \in Ram => f \in frameBitmap
    BY <1>0, <1>1, ZenonT(60) DEF HandsOk
  <1>3. Range(job[t].pages) = {} /\ job[t].io = Nil
    BY <1>0, <1>1, ZenonT(60) DEF WorkOk
  <1>4. Fits(first, ioUsed, low, high, n)
    <2>1. low \in Nat /\ high \in Int /\ n \in Nat
      BY <1>0, FramesAssumption
    <2> HIDE DEF low, high, n
    <2> QED
      BY <1>1, <2>1, FitFacts, ZenonT(60)
  <1> HIDE DEF first
  <1>5. first \in Nat /\ \A p \in S : p \in IoPages /\ p \notin ioUsed
    <2>1. S = first .. first + n - 1
      BY DEF PagesOf, Block
    <2> QED
      BY <1>4, <2>1, ZenonT(60) DEF Fits, IoPages
  <1>6. pageEntry \in [Pages -> Entry] /\ frameBitmap \subseteq Ram
    BY <1>0, ZenonT(60) DEF FramesTypeOK
  <1>7. /\ MapsBlock(pageEntry', pageEntry, F, b)
        /\ b \in BlockType /\ pageEntry' \in [Pages -> Entry]
        /\ \A p \in Pages : p \notin S => pageEntry'[p] = pageEntry[p]
        /\ \A p \in S : pageEntry'[p] \in Range(F)
    <2>1. \A p \in PagesOf(Block(first, Len(F))) : p \in IoPages
      BY <1>5, ZenonT(60)
    <2> HIDE DEF F
    <2>2. MapsBlock(pageEntry', pageEntry, F, Block(first, Len(F)))
      BY <1>0, <1>1, <1>2, <1>5, <1>6, <2>1, BlockMaps, ZenonT(60)
    <2> QED
      BY <2>2, ZenonT(60) DEF MapsBlock
  <1> HIDE DEF b, F
  <1>8. FramesOwned(frameBitmap, pageEntry', dmaUsed, {})
    <2>1. \A p \in S : pageEntry[p] = Nil
      BY <1>0, <1>5, ZenonT(60) DEF IoKept, IoMarked
    <2>2. S \subseteq Pages
      BY <1>5, NumberFacts, ZenonT(60)
    <2>3. FramesOwned(frameBitmap, pageEntry, dmaUsed, Range(F))
      BY <1>0, ZenonT(60)
    <2>4. MapsBlock(pageEntry', pageEntry, F, b)
      BY <1>7, ZenonT(60)
    <2> QED
      BY <1>2, <1>6, <2>1, <2>2, <2>3, <2>4, MapOwns, ZenonT(60)
  <1>9. IoKept(pageEntry', ioUsed \cup S, ioMap \cup {b}, Nil, {})
    <2>1. b # Nil
      BY <1>7, FramesAssumption, ZenonT(60) DEF BlockType
    <2>2. IoKept(pageEntry, ioUsed, ioMap, Nil, {}) /\ {} \cap ioUsed = {}
      BY <1>0, <1>3, ZenonT(60)
    <2>3. \A p \in IoPages : p \notin PagesOf(b) => pageEntry'[p] = pageEntry[p]
      BY <1>7, NumberFacts, ZenonT(60)
    <2>4. \A p \in PagesOf(b) : pageEntry'[p] # Nil
      BY <1>2, <1>7, ZenonT(60)
    <2> QED
      BY <1>0, <1>5, <2>1, <2>2, <2>3, <2>4, MapIoKeeps, ZenonT(60)
  <1>10. /\ mpc' \in [Threads -> MapPlaces] /\ mpc'[t] = "idle"
         /\ job' \in [Threads -> JobType] /\ job'[t] = NoJob
    <2>1. "idle" \in MapPlaces /\ t \in Threads
      BY DEF MapPlaces
    <2>2. NoJob \in JobType
      BY NoJobIs, ZenonT(60) DEF JobIs
    <2> QED
      BY <1>0, <1>1, <2>1, <2>2, ThreadMoves, ZenonT(60)
  <1>11. FramesTypeOK'
    BY <1>0, <1>1, <1>5, <1>7, <1>10, ZenonT(60) DEF FramesTypeOK
  <1>12. /\ job'[t].frames = << >> /\ job'[t].pages = << >>
         /\ job'[t].io = Nil /\ job'[t].range = Nil
    BY <1>10, NoJobIs, ZenonT(60) DEF JobIs
  <1>13. /\ HandsOk("idle", << >>, job'[t].word, frameBitmap', pageEntry', dmaUsed')
         /\ Range(<< >>) = {}
    BY EmptyHandsOk, ZenonT(60)
  <1>14. WorkOk("idle", {}, Nil, Nil, ioMap', ioLock')
    BY <1>1, ZenonT(60) DEF WorkOk, BlockOk
  <1> QED
    BY <1>1, <1>8, <1>9, <1>10, <1>11, <1>12, <1>13, <1>14, ZenonT(60) DEF FramesInv

(* freeIO() takes a block.                                                  *)
LEMMA FreeIOKeepsFrames ==
  ASSUME NEW t, Threads = {t}, FramesInv(t), NEW b \in ioMap, FreeIO(t, b)
  PROVE  FramesInv(t)'
  <1> DEFINE P == Run(b.first, b.count)
  <1>0. /\ FramesTypeOK /\ job[t] \in JobType /\ Nil \notin ioMap
        /\ HandsOk(mpc[t], job[t].frames, job[t].word, frameBitmap, pageEntry, dmaUsed)
        /\ WorkOk(mpc[t], Range(job[t].pages), job[t].io, job[t].range, ioMap, ioLock)
        /\ FramesOwned(frameBitmap, pageEntry, dmaUsed, Range(job[t].frames))
        /\ IoKept(pageEntry, ioUsed, ioMap, job[t].io, Range(job[t].pages))
    BY FramesFacts, ZenonT(60)
  <1>1. /\ mpc[t] = "idle" /\ ioLock' = t
        /\ job' = [job EXCEPT ![t].pages = P, ![t].io = b]
        /\ mpc' = [mpc EXCEPT ![t] = "unmap"]
        /\ frameBitmap' = frameBitmap /\ pageEntry' = pageEntry
        /\ ioUsed' = ioUsed /\ ioMap' = ioMap /\ dmaUsed' = dmaUsed
    BY ZenonT(60) DEF FreeIO
  <1>2. /\ job \in [Threads -> JobType] /\ mpc \in [Threads -> MapPlaces]
        /\ b \in BlockType /\ PagesOf(b) \subseteq Pages /\ t \in Threads
    BY <1>0, NumberFacts, ZenonT(60) DEF FramesTypeOK
  <1>3. P \in Seq(Pages) /\ Range(P) = PagesOf(b)
    <2>1. b.first \in Nat /\ b.count \in Nat
      BY <1>2 DEF BlockType
    <2>2. b.first .. b.first + b.count - 1 \subseteq Pages
      BY <1>2, ZenonT(60) DEF PagesOf
    <2> QED
      BY <2>1, <2>2, RunFacts, ZenonT(60) DEF PagesOf
  <1> HIDE DEF P
  <1>4. /\ job' \in [Threads -> JobType]
        /\ JobIs(job'[t], job[t].frames, job[t].word, P, b, job[t].range)
    BY <1>1, <1>2, <1>3, TakesBlock, ZenonT(60)
  <1>5. /\ job'[t].frames = job[t].frames /\ job'[t].pages = P
        /\ job'[t].io = b /\ job'[t].range = job[t].range
    BY <1>4, ZenonT(60) DEF JobIs
  <1>6. mpc' \in [Threads -> MapPlaces] /\ mpc'[t] = "unmap"
    <2>1. "unmap" \in MapPlaces
      BY DEF MapPlaces
    <2> QED
      BY <1>1, <1>2, <2>1, ZenonT(60)
  <1>7. job[t].frames = << >>
    BY <1>0, <1>1, ZenonT(60) DEF HandsOk
  <1>8. Range(job[t].pages) = {} /\ job[t].io = Nil /\ job[t].range = Nil
    BY <1>0, <1>1, ZenonT(60) DEF WorkOk
  <1>9. HandsOk("unmap", job[t].frames, job'[t].word, frameBitmap, pageEntry, dmaUsed)
    BY <1>7, EmptyHandsOk, ZenonT(60)
  <1>10. WorkOk("unmap", Range(P), b, Nil, ioMap, t)
    <2>1. b # Nil /\ t # Nil /\ Range(P) \subseteq PagesOf(b) /\ b \in ioMap
      BY <1>0, <1>2, <1>3, FramesAssumption, ZenonT(60)
    <2>2. BlockOk(Range(P), b, Nil, ioMap, t)
      BY <2>1, ZenonT(60) DEF BlockOk
    <2> QED
      BY <2>2, FreeingOk, ZenonT(60)
  <1>11. IoKept(pageEntry, ioUsed, ioMap, b, Range(P))
    <2>1. IoKept(pageEntry, ioUsed, ioMap, Nil, {}) /\ \A p \in PagesOf(b) : p \in Range(P)
      BY <1>0, <1>3, <1>8, ZenonT(60)
    <2> QED
      BY <1>0, <2>1, BeginIoKeeps, ZenonT(60)
  <1>12. FramesTypeOK'
    BY <1>0, <1>1, <1>2, <1>4, <1>6, ZenonT(60) DEF FramesTypeOK
  <1> QED
    BY <1>0, <1>1, <1>5, <1>6, <1>8, <1>9, <1>10, <1>11, <1>12, ZenonT(60) DEF FramesInv

(* The heap has a free chunk, and begins to unmap its whole pages.          *)
LEMMA HeapFreeKeepsFrames ==
  ASSUME NEW t, Threads = {t}, FramesInv(t), NEW start \in Nat, NEW end \in Nat, end <= HeapEnd,
         HeapFree(t, start, end)
  PROVE  FramesInv(t)'
  <1> DEFINE P == UntilThreeAbsent(UnmapRange(start, end))
             g == [start |-> start, end |-> end]
  <1>0. /\ FramesTypeOK /\ job[t] \in JobType /\ Nil \notin ioMap
        /\ HandsOk(mpc[t], job[t].frames, job[t].word, frameBitmap, pageEntry, dmaUsed)
        /\ WorkOk(mpc[t], Range(job[t].pages), job[t].io, job[t].range, ioMap, ioLock)
        /\ FramesOwned(frameBitmap, pageEntry, dmaUsed, Range(job[t].frames))
        /\ IoKept(pageEntry, ioUsed, ioMap, job[t].io, Range(job[t].pages))
    BY FramesFacts, ZenonT(60)
  <1>1. /\ mpc[t] = "idle" /\ ioLock' = ioLock
        /\ job' = [job EXCEPT ![t].pages = P, ![t].range = g]
        /\ mpc' = [mpc EXCEPT ![t] = "unmap"]
        /\ frameBitmap' = frameBitmap /\ pageEntry' = pageEntry
        /\ ioUsed' = ioUsed /\ ioMap' = ioMap /\ dmaUsed' = dmaUsed
    BY ZenonT(60) DEF HeapFree
  <1>2. /\ job \in [Threads -> JobType] /\ mpc \in [Threads -> MapPlaces]
        /\ t \in Threads /\ ioUsed \in SUBSET IoPages
    BY <1>0, ZenonT(60) DEF FramesTypeOK
  <1>3. /\ P \in Seq(Pages) /\ Range(P) \subseteq HeapPages
        /\ \A p \in Range(P) : start <= p * PageSize /\ (p + 1) * PageSize - 1 <= end
    <2> DEFINE W == UnmapRange(start, end)
    <2>1. /\ W \in Seq(HeapPages)
          /\ \A p \in Range(W) : start <= p * PageSize /\ (p + 1) * PageSize - 1 <= end
      BY WholePages, ZenonT(60)
    <2> HIDE DEF W
    <2>2. UntilThreeAbsent(W) \in Seq(HeapPages) /\ Range(UntilThreeAbsent(W)) \subseteq Range(W)
      BY <2>1, PrefixFacts, ZenonT(60)
    <2>3. P = UntilThreeAbsent(W)
      BY ZenonT(60) DEF W
    <2> HIDE DEF P
    <2>4. Range(P) \subseteq HeapPages
      BY <2>2, <2>3, Elements, ZenonT(60)
    <2>5. P \in Seq(Pages)
      <3>1. HeapPages \subseteq Pages /\ P \in Seq(HeapPages)
        BY <2>2, <2>3, NumberFacts, ZenonT(60)
      <3> QED
        BY <3>1
    <2> QED
      BY <2>1, <2>2, <2>3, <2>4, <2>5, ZenonT(60)
  <1>4. g \in RangeType /\ g.start = start /\ g.end = end
    BY DEF RangeType
  <1> HIDE DEF P, g
  <1>5. /\ job' \in [Threads -> JobType]
        /\ JobIs(job'[t], job[t].frames, job[t].word, P, job[t].io, g)
    BY <1>1, <1>2, <1>3, <1>4, TakesRange, ZenonT(60)
  <1>6. /\ job'[t].frames = job[t].frames /\ job'[t].pages = P
        /\ job'[t].io = job[t].io /\ job'[t].range = g
    BY <1>5, ZenonT(60) DEF JobIs
  <1>7. mpc' \in [Threads -> MapPlaces] /\ mpc'[t] = "unmap"
    <2>1. "unmap" \in MapPlaces
      BY DEF MapPlaces
    <2> QED
      BY <1>1, <1>2, <2>1, ZenonT(60)
  <1>8. job[t].frames = << >>
    BY <1>0, <1>1, ZenonT(60) DEF HandsOk
  <1>9. Range(job[t].pages) = {} /\ job[t].io = Nil /\ ioLock = Nil
    BY <1>0, <1>1, ZenonT(60) DEF WorkOk, BlockOk
  <1>10. HandsOk("unmap", job[t].frames, job'[t].word, frameBitmap, pageEntry, dmaUsed)
    BY <1>8, EmptyHandsOk, ZenonT(60)
  <1>11. WorkOk("unmap", Range(P), job[t].io, g, ioMap, ioLock)
    <2>1. \A p \in Range(P) : g.start <= p * PageSize /\ (p + 1) * PageSize - 1 <= g.end
      BY <1>3, <1>4, ZenonT(60)
    <2>2. BlockOk(Range(P), job[t].io, g, ioMap, ioLock)
      BY <1>3, <1>9, <2>1, ZenonT(60) DEF BlockOk
    <2> QED
      BY <2>2, FreeingOk, ZenonT(60)
  <1>12. IoKept(pageEntry, ioUsed, ioMap, job[t].io, Range(P))
    <2>1. \A q \in Range(job[t].pages) : q \in IoPages => q \in Range(P)
      BY <1>9, ZenonT(60)
    <2>2. \A q \in IoPages : pageEntry[q] = pageEntry[q]
      OBVIOUS
    <2> QED
      BY <1>0, <1>2, <2>1, <2>2, HeapIoKeeps, ZenonT(60)
  <1>13. FramesTypeOK'
    BY <1>0, <1>1, <1>5, <1>7, ZenonT(60) DEF FramesTypeOK
  <1> QED
    BY <1>0, <1>1, <1>6, <1>7, <1>10, <1>11, <1>12, <1>13, ZenonT(60) DEF FramesInv

(* A page is unmapped; its frame is in the hands of the thread.             *)
LEMMA UnmapPageKeepsFrames ==
  ASSUME NEW t, Threads = {t}, FramesInv(t), UnmapPage(t)
  PROVE  FramesInv(t)'
  <1> DEFINE s == job[t].pages
             p == Head(s)
             P == Tail(s)
             f == pageEntry[p]
             c == IF f \in Ram THEN "freeLoad" ELSE "unmap"
  <1>0. /\ FramesTypeOK /\ job[t] \in JobType /\ s \in Seq(Pages)
        /\ HandsOk(mpc[t], job[t].frames, job[t].word, frameBitmap, pageEntry, dmaUsed)
        /\ WorkOk(mpc[t], Range(s), job[t].io, job[t].range, ioMap, ioLock)
        /\ FramesOwned(frameBitmap, pageEntry, dmaUsed, Range(job[t].frames))
        /\ IoKept(pageEntry, ioUsed, ioMap, job[t].io, Range(s))
    BY FramesFacts, ZenonT(60)
  <1>1. /\ mpc[t] = "unmap" /\ s # << >>
        /\ ioUsed' = ioUsed \ {p} /\ pageEntry' = [pageEntry EXCEPT ![p] = Nil]
        /\ job' = [job EXCEPT ![t].pages = P, ![t].frames = <<f>>]
        /\ mpc' = [mpc EXCEPT ![t] = c]
        /\ frameBitmap' = frameBitmap /\ ioMap' = ioMap /\ dmaUsed' = dmaUsed /\ ioLock' = ioLock
    BY ZenonT(60) DEF UnmapPage
  <1>2. p \in Pages /\ P \in Seq(Pages) /\ Range(s) = Range(P) \cup {p}
    <2> HIDE DEF s
    <2> QED
      BY <1>0, <1>1, PopElement, ZenonT(60)
  <1>3. /\ pageEntry \in [Pages -> Entry] /\ frameBitmap \subseteq Ram /\ ioUsed \in SUBSET IoPages
        /\ job \in [Threads -> JobType] /\ mpc \in [Threads -> MapPlaces] /\ t \in Threads
        /\ Nil \in Entry
    BY <1>0, ZenonT(60) DEF FramesTypeOK, Entry
  <1>4. Range(job[t].frames) \cap Ram = {}
    BY <1>0, <1>1, ZenonT(60) DEF HandsOk
  <1> HIDE DEF P, p
  <1>5. /\ pageEntry' \in [Pages -> Entry] /\ pageEntry'[p] = Nil
        /\ \A q \in Pages : q # p => pageEntry'[q] = pageEntry[q]
        /\ f \in Entry
    BY <1>1, <1>2, <1>3, ZenonT(60)
  <1>6. <<f>> \in Seq(Entry) /\ Range(<<f>>) = {f}
    BY <1>5 DEF Range
  <1>7. /\ FramesOwned(frameBitmap, pageEntry', dmaUsed, {f})
        /\ Unmapped(pageEntry', {f}) /\ DmaGiven(dmaUsed, {f})
    BY <1>0, <1>2, <1>3, <1>4, <1>5, UnmapOwns, ZenonT(60)
  <1>8. HandsOk(c, <<f>>, job'[t].word, frameBitmap, pageEntry', dmaUsed)
    <2>1. c = "freeLoad" \/ (c = "unmap" /\ Range(<<f>>) \cap Ram = {})
      BY <1>6, ZenonT(60)
    <2> HIDE DEF c, f
    <2> QED
      BY <1>6, <1>7, <2>1, UnmappedHandsOk, ZenonT(60)
  <1> HIDE DEF f
  <1>9. /\ job' \in [Threads -> JobType]
        /\ JobIs(job'[t], <<f>>, job[t].word, P, job[t].io, job[t].range)
    BY <1>1, <1>2, <1>3, <1>6, TakesPage, ZenonT(60)
  <1>10. /\ job'[t].frames = <<f>> /\ job'[t].pages = P
         /\ job'[t].io = job[t].io /\ job'[t].range = job[t].range
    BY <1>9, ZenonT(60) DEF JobIs
  <1>11. mpc' \in [Threads -> MapPlaces] /\ mpc'[t] = c
    <2>1. c \in MapPlaces
      BY DEF MapPlaces
    <2> HIDE DEF c
    <2> QED
      BY <1>1, <1>3, <2>1, ZenonT(60)
  <1>12. WorkOk(c, Range(P), job[t].io, job[t].range, ioMap, ioLock)
    <2>1. c \in {"unmap", "freeLoad", "freeStore"}
      BY ZenonT(60)
    <2>2. Range(P) \subseteq Range(s)
      BY <1>2, ZenonT(60)
    <2> HIDE DEF c, s
    <2>3. BlockOk(Range(s), job[t].io, job[t].range, ioMap, ioLock)
      BY <1>0, ZenonT(60) DEF WorkOk
    <2>4. BlockOk(Range(P), job[t].io, job[t].range, ioMap, ioLock)
      BY <2>2, <2>3, ZenonT(60) DEF BlockOk
    <2> QED
      BY <2>1, <2>4, FreeingOk, ZenonT(60)
  <1>13. IoKept(pageEntry', ioUsed \ {p}, ioMap, job[t].io, Range(P))
    <2>0. p \in Range(s)
      BY <1>2, ZenonT(60)
    <2>1. CASE job[t].io = Nil
      <3>1. p \in HeapPages
        BY <1>0, <2>0, <2>1, ZenonT(60) DEF WorkOk, BlockOk
      <3>2. p \notin IoPages
        BY <3>1, NumberFacts, ZenonT(60)
      <3>3. ioUsed \ {p} = ioUsed
        BY <1>3, <3>2, ZenonT(60)
      <3>4. \A q \in IoPages : pageEntry'[q] = pageEntry[q]
        BY <1>5, <3>2, NumberFacts, ZenonT(60)
      <3>5. \A q \in Range(s) : q \in IoPages => q \in Range(P)
        BY <1>2, <3>2, ZenonT(60)
      <3>6. IoKept(pageEntry', ioUsed, ioMap, job[t].io, Range(P))
        BY <1>0, <1>3, <3>4, <3>5, HeapIoKeeps, ZenonT(60)
      <3> QED
        BY <3>3, <3>6, ZenonT(60)
    <2>2. CASE job[t].io # Nil
      <3>1. job[t].io \in ioMap /\ p \in PagesOf(job[t].io)
        BY <1>0, <2>0, <2>2, ZenonT(60) DEF WorkOk, BlockOk
      <3>2. \A q \in IoPages : q # p => pageEntry'[q] = pageEntry[q]
        BY <1>5, NumberFacts, ZenonT(60)
      <3> QED
        BY <1>0, <1>2, <1>5, <3>1, <3>2, UnmapIoKeeps, ZenonT(60)
    <2> QED
      BY <2>1, <2>2, ZenonT(60)
  <1>14. FramesTypeOK'
    BY <1>0, <1>1, <1>5, <1>9, <1>11, ZenonT(60) DEF FramesTypeOK
  <1> QED
    BY <1>1, <1>6, <1>7, <1>8, <1>10, <1>11, <1>12, <1>13, <1>14, ZenonT(60) DEF FramesInv

(* The word is stored with the bit of the frame cleared.                    *)
LEMMA UnsetKeepsFrames ==
  ASSUME NEW t, Threads = {t}, FramesInv(t), StoreUnset(t)
  PROVE  FramesInv(t)'
  <1> DEFINE H == Range(job[t].frames)
  <1>0. /\ FramesTypeOK /\ job[t] \in JobType
        /\ HandsOk(mpc[t], job[t].frames, job[t].word, frameBitmap, pageEntry, dmaUsed)
        /\ WorkOk(mpc[t], Range(job[t].pages), job[t].io, job[t].range, ioMap, ioLock)
        /\ FramesOwned(frameBitmap, pageEntry, dmaUsed, H)
        /\ IoKept(pageEntry, ioUsed, ioMap, job[t].io, Range(job[t].pages))
    BY FramesFacts, ZenonT(60)
  <1>1. /\ mpc[t] = "freeStore" /\ frameBitmap' = job[t].word \ H
        /\ mpc' = [mpc EXCEPT ![t] = "unmap"]
        /\ job' = [job EXCEPT ![t].frames = << >>, ![t].word = {}]
        /\ pageEntry' = pageEntry
        /\ ioUsed' = ioUsed /\ ioMap' = ioMap /\ dmaUsed' = dmaUsed /\ ioLock' = ioLock
    BY ZenonT(60) DEF StoreUnset
  <1>2. job[t].word = frameBitmap /\ Unmapped(pageEntry, H) /\ DmaGiven(dmaUsed, H)
    BY <1>0, <1>1, ZenonT(60) DEF HandsOk
  <1>3. /\ job \in [Threads -> JobType] /\ mpc \in [Threads -> MapPlaces] /\ t \in Threads
        /\ frameBitmap \subseteq Ram
    BY <1>0, ZenonT(60) DEF FramesTypeOK
  <1>4. << >> \in Seq(Entry) /\ {} \in SUBSET Ram
    OBVIOUS
  <1>5. /\ job' \in [Threads -> JobType]
        /\ JobIs(job'[t], << >>, {}, job[t].pages, job[t].io, job[t].range)
    BY <1>1, <1>3, <1>4, EmptiesHands, ZenonT(60)
  <1>6. /\ job'[t].frames = << >> /\ job'[t].pages = job[t].pages
        /\ job'[t].io = job[t].io /\ job'[t].range = job[t].range
    BY <1>5, ZenonT(60) DEF JobIs
  <1>7. mpc' \in [Threads -> MapPlaces] /\ mpc'[t] = "unmap"
    <2>1. "unmap" \in MapPlaces
      BY DEF MapPlaces
    <2> QED
      BY <1>1, <1>3, <2>1, ZenonT(60)
  <1>8. FramesOwned(frameBitmap', pageEntry, dmaUsed, {})
    <2>1. frameBitmap' = frameBitmap \ H
      BY <1>1, <1>2, ZenonT(60)
    <2> QED
      BY <1>0, <1>2, <2>1, ClearOwns, ZenonT(60)
  <1>9. /\ HandsOk("unmap", << >>, job'[t].word, frameBitmap', pageEntry, dmaUsed)
        /\ Range(<< >>) = {}
    BY EmptyHandsOk, ZenonT(60)
  <1>10. WorkOk("unmap", Range(job[t].pages), job[t].io, job[t].range, ioMap, ioLock)
    <2>1. BlockOk(Range(job[t].pages), job[t].io, job[t].range, ioMap, ioLock)
      BY <1>0, ZenonT(60) DEF WorkOk
    <2> QED
      BY <2>1, FreeingOk, ZenonT(60)
  <1>11. FramesTypeOK'
    BY <1>0, <1>1, <1>2, <1>3, <1>5, <1>7, ZenonT(60) DEF FramesTypeOK
  <1> QED
    BY <1>0, <1>1, <1>6, <1>7, <1>8, <1>9, <1>10, <1>11, ZenonT(60) DEF FramesInv

(* Everything is unmapped, and the locks are released.                      *)
LEMMA EndFreeKeepsFrames ==
  ASSUME NEW t, Threads = {t}, FramesInv(t), EndFree(t)
  PROVE  FramesInv(t)'
  <1>0. /\ FramesTypeOK /\ Nil \notin ioMap
        /\ HandsOk(mpc[t], job[t].frames, job[t].word, frameBitmap, pageEntry, dmaUsed)
        /\ FramesOwned(frameBitmap, pageEntry, dmaUsed, Range(job[t].frames))
        /\ IoKept(pageEntry, ioUsed, ioMap, job[t].io, Range(job[t].pages))
    BY FramesFacts, ZenonT(60)
  <1>1. /\ mpc[t] = "unmap" /\ job[t].pages = << >>
        /\ ioMap' = ioMap \ {job[t].io}
        /\ ioLock' = IF ioLock = t THEN Nil ELSE ioLock
        /\ mpc' = [mpc EXCEPT ![t] = "idle"] /\ job' = [job EXCEPT ![t] = NoJob]
        /\ frameBitmap' = frameBitmap /\ pageEntry' = pageEntry
        /\ ioUsed' = ioUsed /\ dmaUsed' = dmaUsed
    BY ZenonT(60) DEF EndFree
  <1>2. ioLock' = Nil
    BY <1>0, <1>1, ZenonT(60) DEF FramesTypeOK
  <1>3. /\ mpc' \in [Threads -> MapPlaces] /\ mpc'[t] = "idle"
        /\ job' \in [Threads -> JobType] /\ job'[t] = NoJob
    <2>1. "idle" \in MapPlaces /\ t \in Threads
      BY DEF MapPlaces
    <2>2. NoJob \in JobType
      BY NoJobIs, ZenonT(60) DEF JobIs
    <2> QED
      BY <1>0, <1>1, <2>1, <2>2, ThreadMoves, ZenonT(60)
  <1>4. /\ job'[t].frames = << >> /\ job'[t].pages = << >>
        /\ job'[t].io = Nil /\ job'[t].range = Nil
    BY <1>3, NoJobIs, ZenonT(60) DEF JobIs
  <1>5. /\ HandsOk("idle", << >>, job'[t].word, frameBitmap', pageEntry', dmaUsed')
        /\ Range(<< >>) = {}
    BY EmptyHandsOk, ZenonT(60)
  <1>6. FramesOwned(frameBitmap, pageEntry, dmaUsed, {})
    <2>1. Range(job[t].frames) \cap Ram = {}
      BY <1>0, <1>1, ZenonT(60) DEF HandsOk
    <2>2. frameBitmap \subseteq Ram
      BY <1>0, ZenonT(60) DEF FramesTypeOK
    <2> QED
      BY <1>0, <2>1, <2>2, DropOwns, ZenonT(60)
  <1>7. IoKept(pageEntry, ioUsed, ioMap \ {job[t].io}, Nil, {})
    <2>1. IoKept(pageEntry, ioUsed, ioMap, job[t].io, {})
      BY <1>0, <1>1, <1>5, ZenonT(60)
    <2> QED
      BY <1>0, <2>1, EndIoKeeps, ZenonT(60)
  <1>8. WorkOk("idle", {}, Nil, Nil, ioMap', Nil)
    BY ZenonT(60) DEF WorkOk, BlockOk
  <1>9. FramesTypeOK'
    BY <1>0, <1>1, <1>2, <1>3, ZenonT(60) DEF FramesTypeOK
  <1> QED
    BY <1>1, <1>2, <1>3, <1>4, <1>5, <1>6, <1>7, <1>8, <1>9, ZenonT(60) DEF FramesInv

(* The invariant is stronger than what it is for.                           *)
LEMMA FramesInvIsAccounted ==
  ASSUME NEW t, Threads = {t}, FramesInv(t)
  PROVE  FramesAccounted
  <1>0. /\ FramesTypeOK
        /\ WorkOk(mpc[t], Range(job[t].pages), job[t].io, job[t].range, ioMap, ioLock)
        /\ FramesOwned(frameBitmap, pageEntry, dmaUsed, Range(job[t].frames))
        /\ IoKept(pageEntry, ioUsed, ioMap, job[t].io, Range(job[t].pages))
    BY FramesFacts, ZenonT(60)
  <1>1. OneOwner /\ MappedIsUsed
    BY <1>0, ZenonT(60) DEF FramesOwned, FrameOnce, FrameMarked, OneOwner, MappedIsUsed
  <1>2. NoFrameLost
    <2>1. Range(job[t].frames) \subseteq InFlight
      BY ZenonT(60) DEF InFlight
    <2>2. ASSUME NEW f \in frameBitmap
          PROVE  f \in ReservedFrames \cup InFlight \/ Mapped(f) # {}
      <3>1. f \in ReservedFrames \/ f \in Range(job[t].frames) \/ \E p \in Pages : pageEntry[p] = f
        BY <1>0, ZenonT(60) DEF FramesOwned, FrameKept
      <3> QED
        BY <2>1, <3>1, ZenonT(60) DEF Mapped
    <2> QED
      BY <2>2, ZenonT(60) DEF NoFrameLost
  <1>3. OnlyWholePages
    BY <1>0, ZenonT(60) DEF OnlyWholePages, WorkOk, BlockOk
  <1>4. \A b, c \in ioMap : b # c => PagesOf(b) \cap PagesOf(c) = {}
    BY <1>0, ZenonT(60) DEF IoKept, IoApart
  <1>5. ASSUME ioLock = Nil
        PROVE  /\ ioUsed = UNION {PagesOf(b) : b \in ioMap}
               /\ \A p \in IoPages : pageEntry[p] # Nil <=> p \in ioUsed
    <2>1. job[t].io = Nil /\ Range(job[t].pages) \subseteq HeapPages /\ Nil \notin ioMap
      BY <1>0, <1>5, FramesFacts, ZenonT(60) DEF WorkOk, BlockOk
    <2>2. ioUsed \subseteq IoPages
      BY <1>0, ZenonT(60) DEF FramesTypeOK
    <2>3. \A p \in ioUsed : \E b \in ioMap : p \in PagesOf(b)
      BY <1>0, <2>1, <2>2, NumberFacts, ZenonT(60) DEF IoKept, IoCovered
    <2>4. \A b \in ioMap : \A p \in PagesOf(b) : p \in ioUsed
      BY <1>0, <2>1, ZenonT(60) DEF IoKept, IoWithin
    <2>5. ioUsed = UNION {PagesOf(b) : b \in ioMap}
      BY <2>3, <2>4, ZenonT(60)
    <2> QED
      BY <1>0, <2>5, ZenonT(60) DEF IoKept, IoMarked
  <1> QED
    BY <1>1, <1>2, <1>3, <1>4, <1>5, ZenonT(60) DEF FramesAccounted, IoBlocks

(* Every step keeps the invariant.                                          *)
LEMMA FramesInvNext ==
  ASSUME NEW t, Threads = {t}, FramesInv(t), FramesNext
  PROVE  FramesInv(t)'
  <1>1. ASSUME NEW p \in HeapPages, Fault(t, p)
        PROVE  FramesInv(t)'
    BY <1>1, FaultKeepsFrames, ZenonT(60)
  <1>2. ASSUME NEW n \in 1 .. NumIoPages, MapIO(t, n)
        PROVE  FramesInv(t)'
    BY <1>2, MapIOKeepsFrames, ZenonT(60)
  <1>3. ASSUME LoadWord(t) \/ StoreSet(t) \/ MapBlock(t)
        PROVE  FramesInv(t)'
    BY <1>3, LoadKeepsFrames, StoreKeepsFrames, MapBlockKeepsFrames, ZenonT(60)
  <1>4. ASSUME NEW f \in DeviceFrames, MapDevice(t, f)
        PROVE  FramesInv(t)'
    BY <1>4, MapDeviceKeepsFrames, ZenonT(60)
  <1>5. ASSUME AllocDma(t)
        PROVE  FramesInv(t)'
    BY <1>5, AllocDmaKeepsFrames, ZenonT(60)
  <1>6. ASSUME NEW b \in ioMap, FreeIO(t, b)
        PROVE  FramesInv(t)'
    BY <1>6, FreeIOKeepsFrames, ZenonT(60)
  <1>7. ASSUME NEW start \in 0 .. HeapEnd, NEW end \in 0 .. HeapEnd, HeapFree(t, start, end)
        PROVE  FramesInv(t)'
    <2>1. HeapEnd \in Int
      BY FramesAssumption DEF HeapEnd
    <2>2. start \in Nat /\ end \in Nat /\ end <= HeapEnd
      BY <2>1
    <2> QED
      BY <1>7, <2>2, HeapFreeKeepsFrames, ZenonT(60)
  <1>8. ASSUME UnmapPage(t) \/ StoreUnset(t) \/ EndFree(t)
        PROVE  FramesInv(t)'
    BY <1>8, UnmapPageKeepsFrames, UnsetKeepsFrames, EndFreeKeepsFrames, ZenonT(60)
  <1> QED
    BY <1>1, <1>2, <1>3, <1>4, <1>5, <1>6, <1>7, <1>8, ZenonT(60) DEF FramesNext

(* So does a step that changes nothing.                                     *)
LEMMA FramesInvStutters ==
  ASSUME NEW t, FramesInv(t), UNCHANGED framesVars
  PROVE  FramesInv(t)'
  <1>1. /\ frameBitmap' = frameBitmap /\ pageEntry' = pageEntry /\ ioUsed' = ioUsed
        /\ ioMap' = ioMap /\ dmaUsed' = dmaUsed /\ ioLock' = ioLock /\ mpc' = mpc /\ job' = job
    BY ZenonT(60) DEF framesVars
  <1>2. FramesTypeOK'
    BY <1>1, ZenonT(60) DEF FramesInv, FramesTypeOK
  <1> QED
    BY <1>1, <1>2, ZenonT(60) DEF FramesInv

(* While one thread at a time is in Management's mapIO(), freeIO() and      *)
(* unmap(), a frame is behind one page, marked as used and never lost,      *)
(* unmap() takes whole pages only, and the blocks of mapIO() are apart.     *)
THEOREM FramesKept ==
  ASSUME NEW t, Threads = {t}
  PROVE  FramesSpec => []FramesAccounted
  <1>1. FramesInit => FramesInv(t)
    BY FramesInvInit
  <1>2. FramesInv(t) /\ [FramesNext]_framesVars => FramesInv(t)'
    BY FramesInvNext, FramesInvStutters
  <1>3. FramesInv(t) => FramesAccounted
    BY FramesInvIsAccounted
  <1> QED
    BY <1>1, <1>2, <1>3, PTL DEF FramesSpec
=============================================================================
