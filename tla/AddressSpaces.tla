--------------------------- MODULE AddressSpaces ---------------------------
(***************************************************************************)
(* Address spaces and their page tables: kernel/memory/PageDirectory.cpp   *)
(* and the part of kernel/core/Management.cpp that creates and switches    *)
(* address spaces and serves page faults in user space; nothing calls      *)
(* removeAddressSpace().  Page tables and directories live in the paging   *)
(* area of the kernel, whose pages get a frame in a page fault of their    *)
(* own when they are zeroed.  Everything here happens in the page fault    *)
(* handler or in the one thread that loads applications.                   *)
(***************************************************************************)
EXTENDS Integers, FiniteSetsExt

CONSTANTS
  Spaces,          \* address spaces; Base is the one of the kernel
  Base,
  NumFrames,
  Tables,          \* the user page tables of a directory, with one page each
  NumPagingPages,  \* pages of the paging area, numbered from 1
  KernelTables,    \* the first ones are the page tables of the kernel
  Absent

Frames == 0 .. NumFrames - 1
PagingArea == 1 .. NumPagingPages

(* What the pages of an address space in the paging area are for: the       *)
(* directory, the list of the tables' addresses, and the tables.            *)
Uses == {"directory", "addresses"} \cup Tables

(* There is memory for what is built by hand.                               *)
ASSUME SpacesAssumption ==
  /\ Base \in Spaces
  /\ {"directory", "addresses"} \cap Tables = {}
  /\ KernelTables \in Nat /\ NumFrames \in Nat /\ NumPagingPages \in Nat
  /\ KernelTables + 2 < NumFrames /\ KernelTables + 2 <= NumPagingPages
  /\ Absent \notin Nat

VARIABLES
  used,        \* bitmap of the page frames
  pagingUsed,  \* bitmap of the paging area
  pagingEntry, \* the frames of its pages, in every directory the same
  listed,      \* addressSpaces
  current,     \* currentAddressSpace
  page,        \* per space and use: pageDirectory, virtTableAddresses and the
               \* addresses in it; Absent if absent
  entry        \* per space and table: the entry of its page

spacesVars == <<used, pagingUsed, pagingEntry, listed, current, page, entry>>

(* The base directory and the kernel's page tables are built by hand; their *)
(* frames follow frame 0, which stands for what is reserved below them.     *)
BasePages ==
  [u \in Uses |-> CASE u = "directory" -> KernelTables + 1
                    [] u = "addresses" -> KernelTables + 2
                    [] OTHER -> Absent]

SpacesInit ==
  /\ used = 0 .. KernelTables + 2
  /\ pagingUsed = 1 .. KernelTables + 2
  /\ pagingEntry = [p \in PagingArea |-> IF p <= KernelTables + 2 THEN p ELSE Absent]
  /\ listed = {Base} /\ current = Base
  /\ page = [s \in Spaces |-> IF s = Base THEN BasePages ELSE [u \in Uses |-> Absent]]
  /\ entry = [s \in Spaces |-> [i \in Tables |-> Absent]]

-----------------------------------------------------------------------------
(* The bitmaps and the mapping of the paging area, as one value.            *)
Memory == [used |-> used, paging |-> pagingUsed, map |-> pagingEntry]

NextFrame(m) == Min(Frames \ m.used)
NextPaging(m) == Min(PagingArea \ m.paging)

HasFrame(m) == Frames \ m.used # {}

(* A call that finds no page or no frame throws, which halts the system.    *)
CanAlloc(m) ==
  /\ PagingArea \ m.paging # {}
  /\ m.map[NextPaging(m)] = Absent => HasFrame(m)

(* Variant: the page that is taken is not marked.                           *)
AllocPageTableUnmarked(m) ==
  LET p == NextPaging(m) IN
  IF m.map[p] # Absent THEN m
  ELSE [m EXCEPT !.used = @ \cup {NextFrame(m)}, !.map[p] = NextFrame(m)]

(* allocPageTable(): the page is zeroed, and that faults if it is absent.   *)
AllocPageTable(m) ==
  LET p == NextPaging(m) IN
  IF m.map[p] # Absent THEN [m EXCEPT !.paging = @ \cup {p}]
  ELSE [used   |-> m.used \cup {NextFrame(m)},
        paging |-> m.paging \cup {p},
        map    |-> [m.map EXCEPT ![p] = NextFrame(m)]]

SetMemory(m) ==
  used' = m.used /\ pagingUsed' = m.paging /\ pagingEntry' = m.map

(* createAddressSpace(): a directory and a list of the tables' addresses.   *)
CreateAddressSpace(s) ==
  LET m1 == AllocPageTable(Memory)
      m2 == AllocPageTable(m1)
  IN  /\ s \notin listed
      /\ CanAlloc(Memory) /\ CanAlloc(m1)
      /\ SetMemory(m2)
      /\ listed' = listed \cup {s}
      /\ page' = [page EXCEPT ![s]["directory"] = NextPaging(Memory),
                              ![s]["addresses"] = NextPaging(m1)]
      /\ UNCHANGED <<current, entry>>

SwitchAddressSpace(s) ==
  /\ s \in listed \ {current}
  /\ current' = s
  /\ UNCHANGED <<used, pagingUsed, pagingEntry, listed, page, entry>>

WithFrame(m) == [m EXCEPT !.used = @ \cup {NextFrame(m)}]

(* trigger(): a page of the current space is touched.  A frame is taken,    *)
(* then PageDirectory::map() creates the page table if it is missing.       *)
PageFault(i) ==
  LET m1 == WithFrame(Memory) IN
  /\ entry[current][i] = Absent
  /\ HasFrame(Memory)
  /\ entry' = [entry EXCEPT ![current][i] = NextFrame(Memory)]
  /\ IF page[current][i] # Absent
       THEN SetMemory(m1) /\ UNCHANGED page
       ELSE /\ CanAlloc(m1)
            /\ SetMemory(AllocPageTable(m1))
            /\ page' = [page EXCEPT ![current][i] = NextPaging(m1)]
  /\ UNCHANGED <<listed, current>>

(* Management::unmap(): the frame is given back, the page table stays.      *)
Unmap(i) ==
  /\ entry[current][i] # Absent
  /\ used' = used \ {entry[current][i]}
  /\ entry' = [entry EXCEPT ![current][i] = Absent]
  /\ UNCHANGED <<pagingUsed, pagingEntry, listed, current, page>>

SpacesNext ==
  \/ \E s \in Spaces :
       CreateAddressSpace(s) \/ SwitchAddressSpace(s)
  \/ \E i \in Tables : PageFault(i) \/ Unmap(i)

SpacesSpec == SpacesInit /\ [][SpacesNext]_spacesVars

-----------------------------------------------------------------------------
UserFrames == {f \in Frames : \E s \in Spaces, i \in Tables : entry[s][i] = f}

TableFrames == {f \in Frames : \E p \in pagingUsed : pagingEntry[p] = f}

(* Every address space has frames, directories and tables of its own: what  *)
(* one maps is never reachable in another, no page of the paging area has   *)
(* two uses, and none of the kernel's tables is given to a space.           *)
PagesAreSeparate ==
  /\ \A s, t \in Spaces : \A i, j \in Tables :
       entry[s][i] # Absent /\ entry[s][i] = entry[t][j] => s = t /\ i = j
  /\ \A s, t \in Spaces : \A u, v \in Uses :
       page[s][u] # Absent /\ page[s][u] = page[t][v] => s = t /\ u = v
  /\ \A s \in Spaces : \A u \in Uses : page[s][u] \notin 1 .. KernelTables

(* A page table, as long as it is in use, has a frame of its own that is    *)
(* allocated: user pages never alias a page table, nor do two tables alias. *)
TableFramesExclusive ==
  /\ \A p \in pagingUsed : pagingEntry[p] \in used
  /\ \A p, q \in pagingUsed : pagingEntry[p] = pagingEntry[q] => p = q
  /\ TableFrames \cap UserFrames = {}

(* No frame and no page of the paging area is lost or used without being    *)
(* allocated: what is allocated is reserved or built by hand, or belongs to *)
(* a table or a user page, and the other way around.                        *)
NothingIsLost ==
  /\ used = {0} \cup TableFrames \cup UserFrames
  /\ \A p \in PagingArea :
       p \in pagingUsed <=>
         p <= KernelTables \/ \E s \in Spaces, u \in Uses : page[s][u] = p

(* The address spaces are separate, and their memory is accounted for.      *)
SpacesAreSeparate == PagesAreSeparate /\ TableFramesExclusive /\ NothingIsLost

-----------------------------------------------------------------------------
SpacesTypeOK ==
  /\ used \subseteq Frames /\ pagingUsed \subseteq PagingArea
  /\ pagingEntry \in [PagingArea -> Frames \cup {Absent}]
  /\ listed \subseteq Spaces /\ current \in listed
  /\ page \in [Spaces -> [Uses -> PagingArea \cup {Absent}]]
  /\ entry \in [Spaces -> [Tables -> Frames \cup {Absent}]]
============================================================================
