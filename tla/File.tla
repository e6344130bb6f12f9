---------------------------------- MODULE File ----------------------------------
(***************************************************************************)
(* One path of a RAM file system, the Files threads open at it, and the    *)
(* bytes they read and write there (File, RamFsNode, VirtualNode).  Only   *)
(* looking up and creating the node is locked; open() makes up to three    *)
(* such calls, and writing is not locked at all.                           *)
(***************************************************************************)
EXTENDS Integers, Sequences, FiniteSets

CONSTANTS Threads,
          Modes,      \* "r", "r+", "w", "w+", "a", "a+"
          Values,     \* bytes
          Lengths,    \* numbers of bytes a call reads or writes
          MaxLength,  \* bound: length of a file
          MaxNodes    \* bound: nodes ever created at the path

VARIABLES entry,    \* the path's node, 0 when there is none
          node,     \* the VirtualNodes: their bytes, and whether they were freed
          file,     \* the thread's open File
          call,     \* the thread's call between two steps
          created,  \* nodes created so far
          meant,    \* what the calls that returned say each node holds
          shared,   \* two calls used a node at once, or one used a freed node
          raced     \* threads in whose open() the path was deleted

vars == <<entry, node, file, call, created, meant, shared, raced>>

NoFile == [node |-> -1]
NoCall == [op |-> "none"]
Nodes == 1..MaxNodes

reads(m) == m \in {"r", "r+", "w+", "a+"}
writes(m) == m # "r"
appends(m) == m \in {"a", "a+"}

Zeros(n) == [i \in 1..n |-> 0]
longest(n, m) == IF n > m THEN n ELSE m

(* A byte sequence after n bytes v were written at pos; a gap is zeros.      *)
Overwritten(bytes, pos, n, v) ==
  [i \in 1..longest(Len(bytes), pos + n) |->
     IF i > pos /\ i <= pos + n THEN v ELSE IF i <= Len(bytes) THEN bytes[i] ELSE 0]

Init ==
  /\ entry = 0 /\ created = 0
  /\ node = [n \in Nodes |-> [data |-> <<>>, freed |-> FALSE]]
  /\ meant = [n \in Nodes |-> <<>>]
  /\ file = [t \in Threads |-> NoFile]
  /\ call = [t \in Threads |-> NoCall]
  /\ shared = FALSE /\ raced = {}

Then(t, c) == call' = [call EXCEPT ![t] = c]

(* The constructor: a File for appending starts at the node's length, so it *)
(* uses the pointer.                                                        *)
Opened(t, n, mode) ==
  /\ n # 0 \/ ~appends(mode)
  /\ file' = [file EXCEPT ![t] =
                [node |-> n, mode |-> mode,
                 pos |-> IF appends(mode) THEN Len(node[n].data) ELSE 0]]
  /\ Then(t, NoCall)

(* open(): the first getNode().                                             *)
Open(t, mode) ==
  /\ call[t] = NoCall /\ file[t] = NoFile
  /\ \/ entry = 0 /\ mode \notin {"r", "r+"} /\ Then(t, [op |-> "create", mode |-> mode])
        /\ UNCHANGED file
     \/ entry # 0 /\ mode = "w+" /\ Then(t, [op |-> "recreate", mode |-> mode])
        /\ UNCHANGED file
     \/ entry # 0 /\ mode # "w+" /\ Opened(t, entry, mode)
  /\ raced' = raced \ {t}
  /\ UNCHANGED <<entry, node, created, meant, shared>>

(* createFile() of a path that had no node: nullptr when it has one by now. *)
Created(t) ==
  /\ call[t].op = "create"
  /\ IF entry = 0
     THEN /\ created < MaxNodes /\ created' = created + 1 /\ entry' = created'
          /\ Then(t, [call[t] EXCEPT !.op = "reopen"])
     ELSE Then(t, NoCall) /\ UNCHANGED <<entry, created>>
  /\ UNCHANGED <<node, file, meant, shared, raced>>

(* createFile() for "w+" of a path that had a node: it has to fail, for the *)
(* node to be opened as it is.                                              *)
Recreated(t) ==
  /\ call[t].op = "recreate"
  /\ IF entry = 0
     THEN created < MaxNodes /\ created' = created + 1 /\ entry' = created' /\ Then(t, NoCall)
     ELSE Then(t, [call[t] EXCEPT !.op = "reopen"]) /\ UNCHANGED <<entry, created>>
  /\ UNCHANGED <<node, file, meant, shared, raced>>

(* The last getNode().  Constructing a File for appending from nullptr      *)
(* halts the machine: there is no step.                                     *)
Reopened(t) ==
  /\ call[t].op = "reopen"
  /\ Opened(t, entry, call[t].mode)
  /\ UNCHANGED <<entry, node, created, meant, shared, raced>>

Close(t) ==
  /\ call[t] = NoCall /\ file[t] # NoFile
  /\ file' = [file EXCEPT ![t] = NoFile]
  /\ UNCHANGED <<entry, node, call, created, meant, shared, raced>>

(* deleteFile() of the path, by any thread: open Files keep their pointer,  *)
(* the bytes are gone.                                                      *)
Delete(t) ==
  /\ call[t] = NoCall /\ entry # 0
  /\ node' = [node EXCEPT ![entry] = [data |-> <<>>, freed |-> TRUE]]
  /\ meant' = [meant EXCEPT ![entry] = <<>>]
  /\ entry' = 0
  /\ raced' = raced \union {u \in Threads : call[u].op = "reopen"}
  /\ UNCHANGED <<file, call, created, shared>>
-----------------------------------------------------------------------------
(* Using a File                                                             *)

(* A call of a thread on its File's node, that may be used by another call  *)
(* or freed.                                                                *)
Use(t) ==
  LET n == file[t].node
  IN /\ file[t] # NoFile /\ n # 0
     /\ shared' = (shared \/ node[n].freed
                     \/ \E u \in Threads \ {t} : call[u].op \in {"at", "grown", "store"} /\ file[u].node = n)

(* writeBytes(): the position, the node's length when appending.            *)
Write(t, n, v) ==
  /\ call[t] = NoCall /\ Use(t) /\ writes(file[t].mode)
  /\ LET pos == IF appends(file[t].mode) THEN Len(node[file[t].node].data) ELSE file[t].pos
     IN /\ pos + n <= MaxLength
        /\ Then(t, [op |-> "at", pos |-> pos, n |-> n, v |-> v])
  /\ UNCHANGED <<entry, node, file, created, meant, raced>>

GrowEmpty(t) ==
  LET c == call[t]
  IN /\ c.op = "at" /\ Use(t)
     /\ IF c.pos + c.n >= Len(node[file[t].node].data)
        THEN Then(t, [op |-> "grown", pos |-> c.pos, n |-> c.n, v |-> c.v,
                      data |-> Zeros(c.pos + c.n)])
        ELSE Then(t, [c EXCEPT !.op = "store"])
     /\ UNCHANGED <<entry, node, file, created, meant, raced>>

(* VirtualNode::writeData(): room for the bytes, zeros with the old bytes   *)
(* copied into them, ...                                                    *)
Grow(t) ==
  LET c == call[t]
      data == node[file[t].node].data
  IN /\ c.op = "at" /\ Use(t)
     /\ IF c.pos + c.n >= Len(data)
        THEN Then(t, [op |-> "grown", pos |-> c.pos, n |-> c.n, v |-> c.v,
                      data |-> [i \in 1..c.pos + c.n |->
                                  IF i <= Len(data) THEN data[i] ELSE 0]])
        ELSE Then(t, [c EXCEPT !.op = "store"])
     /\ UNCHANGED <<entry, node, file, created, meant, raced>>

(* ... put in place of the old bytes, ...                                   *)
Install(t) ==
  LET c == call[t]
  IN /\ c.op = "grown" /\ Use(t)
     /\ node' = [node EXCEPT ![file[t].node].data = c.data]
     /\ Then(t, [op |-> "store", pos |-> c.pos, n |-> c.n, v |-> c.v])
     /\ UNCHANGED <<entry, file, created, meant, raced>>

(* ... and the bytes stored.  Bytes beyond the end of an array that another *)
(* thread has put there meanwhile go into foreign memory.                   *)
Store(t) ==
  LET c == call[t]
      n == file[t].node
  IN /\ c.op = "store" /\ Use(t)
     /\ node' = [node EXCEPT ![n].data = SubSeq(Overwritten(@, c.pos, c.n, c.v), 1, Len(@))]
     /\ meant' = [meant EXCEPT ![n] = Overwritten(@, IF appends(file[t].mode) THEN Len(@) ELSE file[t].pos,
                                                  c.n, c.v)]
     /\ file' = [file EXCEPT ![t].pos = @ + c.n]
     /\ Then(t, NoCall)
     /\ UNCHANGED <<entry, created, raced>>

(* readBytes(): no more than there are.                                     *)
Read(t, n) ==
  /\ call[t] = NoCall /\ Use(t) /\ reads(file[t].mode)
  /\ LET left == Len(node[file[t].node].data) - file[t].pos
     IN file' = [file EXCEPT ![t].pos = @ + IF left <= 0 THEN 0 ELSE IF n > left THEN left ELSE n]
  /\ UNCHANGED <<entry, node, call, created, meant, raced>>

(* setPos(), from the start, the position or the end.                       *)
SetPos(t, offset) ==
  /\ call[t] = NoCall /\ Use(t)
  /\ \E origin \in {0, file[t].pos, Len(node[file[t].node].data)} :
       origin + offset <= MaxLength /\ file' = [file EXCEPT ![t].pos = origin + offset]
  /\ UNCHANGED <<entry, node, call, created, meant, raced>>

(* What an overlap leaves in the node is not followed any further.          *)
Next ==
  /\ ~shared
  /\ \E t \in Threads :
       \/ \E mode \in Modes : Open(t, mode)
       \/ Created(t) \/ Recreated(t) \/ Reopened(t) \/ Close(t) \/ Delete(t)
       \/ \E n \in Lengths, v \in Values : Write(t, n, v)
       \/ Grow(t) \/ Install(t) \/ Store(t)
       \/ \E n \in Lengths : Read(t, n)
       \/ \E offset \in {0} \union Lengths : SetPos(t, offset)

Spec == Init /\ [][Next]_vars
-----------------------------------------------------------------------------
(* As long as no two calls were on a node at once and none was on a freed   *)
(* node, a file holds exactly what the writes that returned put there: at   *)
(* the File's position, or at the end when appending, with zeros in a gap   *)
(* and no byte lost when the array grows (File::writeBytes, writeData).     *)
HoldsWhatWasWritten ==
  \A n \in Nodes :
    (\A t \in Threads : call[t].op \in {"at", "grown", "store"} => file[t].node # n)
      => shared \/ node[n].data = meant[n]

(* open() gives a File without a node only when the path is deleted between *)
(* its createFile() and its last getNode().                                 *)
OpenGivesNode == \A t \in Threads : file[t].node = 0 => t \in raced

(* A File opened with "w+" starts with an empty file.                       *)
TruncatedOnOpen ==
  [][\A t \in Threads :
       file[t] = NoFile /\ file'[t].node > 0 /\ file'[t].mode = "w+"
         => Len(node'[file'[t].node].data) = 0]_vars
=============================================================================
