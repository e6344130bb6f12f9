------------------------------- MODULE Partitions -------------------------------
(***************************************************************************)
(* The partition table of a storage device (StorageDevice) and the         *)
(* partitions that are registered with the storage service.  Primary       *)
(* partitions are entries of the boot record in sector 0; one of them may  *)
(* be an extended partition, that holds a linked list of logical ones: the *)
(* first entry of each logical boot record is a partition, the second one  *)
(* leads to the next record.  partLock makes an operation exclusive, but   *)
(* it writes one sector at a time, each of which may fail or be the last   *)
(* before the machine is turned off.                                       *)
(***************************************************************************)
EXTENDS Integers, Sequences, SequencesExt, FiniteSets

CONSTANTS NumPrimary,   \* 4
          Extended,     \* the sector an extended partition starts at
          Starts,       \* sectors the caller may give for a new logical partition
          Counts,       \* numbers of sectors
          MaxLogical    \* bound: length of the list

VARIABLES disk,      \* boot records: signature and entries
          todo,      \* sectors the running operation has yet to write
          running,   \* what the running operation is about
          table,     \* what the operations that succeeded say the table is
          devices,   \* partitions the storage service knows, by number
          failed     \* an operation has given up since the table was created

vars == <<disk, todo, running, table, devices, failed>>

EMPTY == 0
DATA == 89
EXTENDED_PARTITION == 5

Numbers == 1..NumPrimary
Sectors == {0, Extended} \union Starts
NoEntry == [id |-> EMPTY, start |-> 0, count |-> 0]
BlankMbr == [signed |-> TRUE, entry |-> [i \in Numbers |-> NoEntry]]
Garbage == [signed |-> FALSE, entry |-> [i \in Numbers |-> NoEntry]]
Place(start, count) == [start |-> start, count |-> count]
Idle == [op |-> "none", number |-> 0]

(* The extended partition, that all searches of the list begin with.        *)
extended(d) == {i \in Numbers : d[0].entry[i].id = EXTENDED_PARTITION}
extPart(d) == d[0].entry[CHOOSE i \in extended(d) : \A j \in extended(d) : i <= j]

(* The sector of the i-th logical boot record, -1 behind the last one.      *)
logicalMbr(d, i) ==
  LET at[k \in 1..MaxLogical + 2] ==
        IF k = 1 THEN IF extended(d) = {} THEN -1 ELSE extPart(d).start
        ELSE IF at[k - 1] = -1 \/ ~d[at[k - 1]].signed \/ d[at[k - 1]].entry[1].id = EMPTY
                  \/ d[at[k - 1]].entry[2].id = EMPTY THEN -1
        ELSE extPart(d).start + d[at[k - 1]].entry[2].start
  IN at[i]

used(d, i) ==
  LET s == logicalMbr(d, i) IN s # -1 /\ d[s].signed /\ d[s].entry[1].id # EMPTY

(* readPartitionTable(): the primary partitions, and the logical ones in    *)
(* the order of the list; a list that leads back to itself, which the code  *)
(* follows for ever, is cut.                                                *)
primaries(d) == [i \in {j \in Numbers : d[0].entry[j].id # EMPTY} |-> d[0].entry[i]]

logicals(d) ==
  LET last == CHOOSE n \in 0..MaxLogical + 2 :
                (n = 0 \/ used(d, n)) /\ (n = MaxLogical + 2 \/ ~used(d, n + 1))
  IN [i \in 1..last |->
        LET s == logicalMbr(d, i) IN Place(s + d[s].entry[1].start, d[s].entry[1].count)]

readPartitionTable(d) == [primary |-> primaries(d), logical |-> logicals(d)]

Init ==
  /\ disk = [s \in Sectors |-> IF s = 0 THEN BlankMbr ELSE Garbage]
  /\ todo = <<>> /\ running = Idle /\ devices = <<>> /\ failed = FALSE
  /\ table = readPartitionTable(disk)

(* An operation: the sectors it writes, in order; then what it reports, and *)
(* the devices it registers and removes.  Operations on a table that one    *)
(* that gave up has left half-written are not followed.                     *)
Begin(op, number, writes, result, registered) ==
  /\ failed => op = "create"
  /\ todo' = writes
  /\ running' = [op |-> op, number |-> number, result |-> result, devices |-> registered]
  /\ UNCHANGED <<disk, table, devices, failed>>

register(number, place) == [n \in DOMAIN devices \union {number} |->
                              IF n = number THEN place ELSE devices[n]]
without(ns) == [n \in DOMAIN devices \ ns |-> devices[n]]
-----------------------------------------------------------------------------
(* writePartition() of a primary partition; an extended one gets an empty   *)
(* list first.                                                              *)
WritePrimary(n, id, count) ==
  LET start == IF id = EXTENDED_PARTITION THEN Extended ELSE n
      mbr == [disk[0] EXCEPT !.entry[n] = [id |-> id, start |-> start, count |-> count]]
      list == IF id = EXTENDED_PARTITION THEN <<<<Extended, BlankMbr>>>> ELSE <<>>
  IN /\ extended(disk) \subseteq (IF id = EXTENDED_PARTITION THEN {} ELSE Numbers \ {n})
     /\ Begin("write", n, Append(list, <<0, mbr>>),
              [table EXCEPT !.primary = [i \in DOMAIN @ \union {n} |->
                                           IF i = n THEN mbr.entry[n] ELSE @[i]]],
              register(n, Place(start, count)))

(* writePartition() of a logical partition: the i-th record, if it is the   *)
(* wanted one or the list is empty ...                                      *)
EditLogical(n, i, count) ==
  LET s == logicalMbr(disk, i)
      old == disk[s].entry[1]
      start == IF old.start = 0 THEN 1 ELSE old.start
      mbr == [disk[s] EXCEPT !.entry[1] = [id |-> DATA, start |-> start, count |-> count]]
  IN /\ i <= n /\ s # -1 /\ disk[s].signed
     /\ old.id = EMPTY \/ i = n
     /\ \A k \in 1..i - 1 : used(disk, k)
     /\ Begin("write", 4 + i, <<<<s, mbr>>>>,
              [table EXCEPT !.logical = IF i > Len(@) THEN Append(@, Place(s + start, count))
                                        ELSE [@ EXCEPT ![i].count = count]],
              register(4 + i, Place(s, count)))

(* The caller gives sectors that no listed partition, nor its record, uses. *)
free(start) ==
  /\ \A k \in 1..MaxLogical : logicalMbr(disk, k) # start
  /\ \A k \in DOMAIN logicals(disk) : logicals(disk)[k].start # start + 1

(* A boot record that leads to another one.                                 *)
linked(mbr, link) == [mbr EXCEPT !.entry[2] = link]

(* ... or a new record at the caller's sector, behind the last one, which   *)
(* is made to lead to it first.  The device is registered under the number  *)
(* of the last one, and begins with its own boot record.                    *)
AppendLogical(n, i, start, count) ==
  LET s == logicalMbr(disk, i)
      mbr == [BlankMbr EXCEPT !.entry[1] = [id |-> DATA, start |-> 1, count |-> count - 1]]
      link == [id |-> EXTENDED_PARTITION, start |-> start - extPart(disk).start, count |-> count]
  IN /\ i < n /\ used(disk, i) /\ logicalMbr(disk, i + 1) = -1
     /\ i < MaxLogical /\ free(start)
     /\ Begin("write", 4 + i + 1,
              <<<<s, linked(disk[s], link)>>, <<start, mbr>>>>,
              [table EXCEPT !.logical = Append(@, Place(start + 1, count - 1))],
              register(4 + i, Place(start, count)))

(* deletePartition() of a primary partition; with an extended one, all      *)
(* logical devices are removed.                                             *)
DeletePrimary(n) ==
  LET mbr == [disk[0] EXCEPT !.entry[n] = NoEntry]
      list == n \in extended(disk)
  IN Begin("delete", n, <<<<0, mbr>>>>,
           [primary |-> [i \in DOMAIN table.primary \ {n} |-> table.primary[i]],
            logical |-> IF list THEN <<>> ELSE table.logical],
           without({n} \union {k \in DOMAIN devices : list /\ k > 4}))

movedHere(first, second, next) == [id |-> first.id, start |-> next.start, count |-> next.count]

(* The next partition, seen from the first record.                          *)
moved(first, second, next) ==
  [id |-> first.id, start |-> second.start + next.start, count |-> next.count]

(* deletePartition() of the first logical partition: its record takes over  *)
(* the place of the second partition, and leads to the third.               *)
DeleteFirst ==
  LET s == extPart(disk).start
      first == disk[s].entry[1]
      second == disk[s].entry[2]
      next == disk[s + second.start]
      mbr == IF second.id = EMPTY THEN [disk[s] EXCEPT !.entry[1] = NoEntry]
             ELSE [disk[s] EXCEPT
                     !.entry[1] = moved(first, second, next.entry[1]),
                     !.entry[2] = next.entry[2]]
  IN /\ extended(disk) # {}
     /\ Begin("delete", 5, <<<<s, mbr>>>>,
              [table EXCEPT !.logical = IF @ = <<>> THEN @ ELSE Tail(@)], without({5}))

(* deletePartition() of another one: its record is cleared, then the one    *)
(* before it leads to the one behind it.                                    *)
DeleteLogical(i) ==
  LET s == logicalMbr(disk, i)
      before == logicalMbr(disk, i - 1)
      next == disk[s].entry[2]
  IN /\ i > 1 /\ used(disk, i)
     /\ Begin("delete", 4 + i,
              <<<<s, [disk[s] EXCEPT !.entry[1] = NoEntry, !.entry[2] = NoEntry]>>,
                <<before, linked(disk[before], next)>>>>,
              [table EXCEPT !.logical = RemoveAt(@, i)], without({4 + i}))

(* createPartitionTable()                                                   *)
CreatePartitionTable ==
  Begin("create", 0, <<<<0, BlankMbr>>>>, [primary |-> <<>>, logical |-> <<>>], <<>>)

(* One sector is written; after the last one the operation returns.         *)
WriteSector ==
  /\ todo # <<>>
  /\ disk' = [disk EXCEPT ![Head(todo)[1]] = Head(todo)[2]]
  /\ todo' = Tail(todo)
  /\ IF todo' = <<>> THEN table' = running.result /\ devices' = running.devices /\ running' = Idle
     ELSE UNCHANGED <<table, devices, running>>
  /\ failed' = (failed /\ running.op # "create")

(* A sector cannot be written: the operation gives up with an error, and    *)
(* the table is what is on the device.                                      *)
WriteFails ==
  /\ todo # <<>>
  /\ todo' = <<>> /\ running' = Idle /\ failed' = TRUE
  /\ table' = readPartitionTable(disk)
  /\ UNCHANGED <<disk, devices>>

(* One operation after the other.                                           *)
Operation ==
  \/ \E n \in Numbers, id \in {DATA, EXTENDED_PARTITION}, count \in Counts :
       WritePrimary(n, id, count)
  \/ \E n, i \in 1..MaxLogical, count \in Counts : EditLogical(n, i, count)
  \/ \E n, i \in 1..MaxLogical, start \in Starts, count \in Counts : AppendLogical(n, i, start, count)
  \/ \E n \in Numbers : DeletePrimary(n)
  \/ DeleteFirst
  \/ \E i \in 1..MaxLogical : DeleteLogical(i)
  \/ CreatePartitionTable

Next == (running = Idle /\ Operation) \/ WriteSector \/ WriteFails

Spec == Init /\ [][Next]_vars
-----------------------------------------------------------------------------
(* After any sequence of operations the list on the device reads back as    *)
(* the partitions that were written and not deleted, each with its own      *)
(* sectors and in order, though a record may be left over from a partition  *)
(* that is gone (writePartition, deletePartition, readPartitionTable).      *)
ReadsAsWritten == running = Idle /\ ~failed => readPartitionTable(disk) = table

(* Whenever the machine is turned off, or a sector cannot be written, while *)
(* writePartition() adds or changes a partition, all other partitions are   *)
(* still listed where they were: a new record is led to before it is there. *)
OthersKept ==
  running.op = "write" /\ ~failed =>
    LET now == readPartitionTable(disk)
    IN /\ \A i \in DOMAIN table.primary \ {running.number} :
            i \in DOMAIN now.primary /\ now.primary[i] = table.primary[i]
       /\ \A i \in DOMAIN table.logical \ {running.number - 4} :
            i \in DOMAIN now.logical /\ now.logical[i] = table.logical[i]
=============================================================================
