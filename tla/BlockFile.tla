-------------------------------- MODULE BlockFile --------------------------------
(***************************************************************************)
(* A storage device used as a file: StorageNode turns reads and writes of  *)
(* bytes into reads and writes of sectors of a partition, and a partition  *)
(* into those of the virtual disk drive it is on.  A sector is a sequence  *)
(* of bytes; memory that was allocated but not written holds "?".          *)
(***************************************************************************)
EXTENDS Integers, Sequences

CONSTANTS SectorSize,
          DiskSectors,     \* sectors of the drive
          StartSector,     \* of the partition
          SectorCount,     \* of the partition
          Bytes            \* byte values a caller writes

VARIABLES disk,  \* the drive's bytes
          asked, \* the last call
          got    \* what it returned in the caller's buffer

vars == <<disk, asked, got>>

FileLength == SectorCount * SectorSize

Slice(bytes, from, n) == SubSeq(bytes, from + 1, from + n)
Put(bytes, from, part) ==
  [i \in 1..Len(bytes) |-> IF i > from /\ i <= from + Len(part) THEN part[i - from] ELSE bytes[i]]
Fresh(n) == [i \in 1..n |-> "?"]
Failed == <<>>

(* VirtualDiskDrive::read() and write() refuse sectors behind the end;      *)
(* Partition looks at the number of sectors only.                           *)
allowed(sector, count) == count <= SectorCount /\ StartSector + sector + count <= DiskSectors

(* Variant: the start of the partition is left out.                         *)
sectorsOfDrive(sector, count) == Slice(disk, sector * SectorSize, count * SectorSize)

sectors(sector, count) == Slice(disk, (StartSector + sector) * SectorSize, count * SectorSize)

Init ==
  /\ disk = [i \in 1..DiskSectors * SectorSize |-> "old"]
  /\ asked = [op |-> "none"] /\ got = Failed

(* Sectors that n bytes may touch, wherever they begin.                     *)
touched(n) == n \div SectorSize + 2

(* StorageNode::readData()                                                  *)
Read(pos, n) ==
  LET start == pos \div SectorSize
      hddData == IF allowed(start, touched(n)) THEN sectors(start, touched(n)) ELSE Failed
  IN /\ asked' = [op |-> "read", pos |-> pos, n |-> n]
     /\ got' = IF hddData = Failed THEN Failed ELSE Slice(hddData, pos % SectorSize, n)
     /\ UNCHANGED disk

(* StorageNode::writeData(): the first and the last sector are read, the    *)
(* bytes are put over them and the sectors between them, and all of these   *)
(* are written.                                                             *)
Write(pos, n, b) ==
  LET start == pos \div SectorSize
      count == touched(n)
      last == start + count - 1
      hddData == Put(Put(Put(Fresh(count * SectorSize), 0, sectors(start, 1)),
                         (count - 1) * SectorSize, sectors(last, 1)),
                     pos % SectorSize, [i \in 1..n |-> b])
  IN /\ asked' = [op |-> "write", pos |-> pos, n |-> n]
     /\ got' = Failed
     /\ disk' = IF allowed(start, 1) /\ allowed(last, 1) /\ allowed(start, count)
                THEN Put(disk, (StartSector + start) * SectorSize, hddData) ELSE disk

Next ==
  \E pos \in 0..FileLength - 1 : \E n \in 0..FileLength - pos :
    Read(pos, n) \/ \E b \in Bytes : Write(pos, n, b)

Spec == Init /\ [][Next]_vars
-----------------------------------------------------------------------------
(* A read that succeeds gives exactly the bytes that are stored in the      *)
(* partition there, whatever the offset in the first sector and the number  *)
(* of bytes in the last one (StorageNode::readData, Partition::read).       *)
ReadsWhatIsStored ==
  asked.op = "read" /\ got # Failed =>
    /\ got = Slice(disk, StartSector * SectorSize + asked.pos, asked.n)
    /\ Len(got) = asked.n

(* A write changes no byte but those it was given.                          *)
WriteKeepsOthers ==
  [][asked'.op = "write" =>
       \A i \in DOMAIN disk :
         (i <= StartSector * SectorSize + asked'.pos
            \/ i > StartSector * SectorSize + asked'.pos + asked'.n) => disk'[i] = disk[i]]_vars
=============================================================================
