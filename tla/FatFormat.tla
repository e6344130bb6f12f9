-------------------------------- MODULE FatFormat --------------------------------
(***************************************************************************)
(* How a FAT volume is laid out: FatDriver::createFs() with f_mkfs(), and  *)
(* find_volume(), which f_mount() calls, on the boot record they left.     *)
(* Sizes are numbers of sectors.                                           *)
(***************************************************************************)
EXTENDS Integers, Sequences

CONSTANTS Sizes  \* sizes of the device

VARIABLES size,   \* the device's, in sectors
          bpb,    \* the boot record
          mounted \* what find_volume() made of it

vars == <<size, bpb, mounted>>

MAX_FAT12 == 4085
MAX_FAT16 == 65525
MAX_FAT32 == 268435445
SS == 512
SZDIRE == 32
n_fats == 1
n_rootdir == 512

None == [fmt |-> "none"]
Aborted == [fmt |-> "aborted"]

---------------------------------------------------------------------------

(* Cluster size, doubled for every boundary that the size in units reaches. *)
cst == <<1, 4, 16, 64, 256, 512>>
cst32 == <<1, 2, 4, 8, 16, 32>>
autoSize(table, n) ==
  LET reached[i \in 1..Len(table) + 1] ==
        IF i > Len(table) THEN 0 ELSE IF table[i] <= n THEN 1 + reached[i + 1] ELSE 0
  IN 2^reached[1]

fatBytes(fmt, n) ==
  CASE fmt = "FAT32" -> n * 4 + 8
    [] fmt = "FAT16" -> n * 2 + 4
    [] fmt = "FAT12" -> (n * 3 + 1) \div 2 + 3

sectors(bytes) == (bytes + SS - 1) \div SS

boot(fmt, pau, sz_rsv, sz_fat, sz_vol) ==
  [fmt |-> fmt, SecPerClus |-> pau, RsvdSecCnt |-> sz_rsv, FATSz |-> sz_fat,
   RootEntCnt |-> IF fmt = "FAT32" THEN 0 ELSE n_rootdir, TotSec |-> sz_vol]

enoughAnyway(fmt, n_clst) == fmt # "FAT32" \/ n_clst > MAX_FAT16

(* Enough clusters for the supposed type. *)
enough(fmt, n_clst) ==
  /\ fmt = "FAT32" => n_clst > MAX_FAT16
  /\ fmt = "FAT16" => n_clst > MAX_FAT12

(* The loop that settles on a cluster size, which starts from au (0: one is *)
(* chosen) and a supposed type.                                             *)
RECURSIVE layout(_, _, _)
layout(sz_vol, type, au) ==
  LET unit == IF type = "FAT32" THEN sz_vol \div 131072 ELSE sz_vol \div 4096
      pau == IF au # 0 THEN au ELSE autoSize(IF type = "FAT32" THEN cst32 ELSE cst, unit)
      first == sz_vol \div pau
      fmt == IF type = "FAT32" \/ first > MAX_FAT12 THEN type ELSE "FAT12"
      sz_rsv == IF fmt = "FAT32" THEN 32 ELSE 1
      sz_dir == IF fmt = "FAT32" THEN 0 ELSE (n_rootdir * SZDIRE) \div SS
      sz_fat == sectors(fatBytes(fmt, first))
      b_data == sz_rsv + sz_fat * n_fats + sz_dir
      n_clst == (sz_vol - b_data) \div pau
      retry(next) == IF au = 0 /\ next # 0 /\ next <= 128 THEN layout(sz_vol, fmt, next) ELSE Aborted
  IN IF \/ fmt = "FAT32" /\ (first <= MAX_FAT16 \/ first > MAX_FAT32)
        \/ sz_vol < b_data + pau * 16
     THEN Aborted
     ELSE IF ~enough(fmt, n_clst) THEN retry(IF fmt = "FAT32" THEN pau \div 2 ELSE pau * 2)
     ELSE IF fmt = "FAT16" /\ n_clst > MAX_FAT16 THEN retry(pau * 2)
     ELSE IF fmt = "FAT12" /\ n_clst > MAX_FAT12 THEN Aborted
     ELSE boot(fmt, pau, sz_rsv, sz_fat, sz_vol)

f_mkfs(sz_vol, type) == IF sz_vol < 128 THEN Aborted ELSE layout(sz_vol, type, 0)

createFs(sz_vol) == f_mkfs(sz_vol, IF sz_vol <= MAX_FAT16 THEN "FAT16" ELSE "FAT32")

typeOf(nclst) ==
  CASE nclst <= MAX_FAT12 -> "FAT12"
    [] nclst > MAX_FAT12 /\ nclst <= MAX_FAT16 -> "FAT16"
    [] nclst > MAX_FAT16 /\ nclst <= MAX_FAT32 -> "FAT32"
    [] OTHER -> "none"

(* find_volume(): the type follows from the number of clusters alone. *)
find_volume(b) ==
  LET sysect == b.RsvdSecCnt + b.FATSz * n_fats + b.RootEntCnt \div (SS \div SZDIRE)
      nclst == (b.TotSec - sysect) \div b.SecPerClus
      n_fatent == nclst + 2
      fmt == typeOf(nclst)
      szbfat == CASE fmt = "FAT32" -> n_fatent * 4
                  [] fmt = "FAT16" -> n_fatent * 2
                  [] OTHER -> ((n_fatent * 3) \div 2) + (n_fatent % 2)
  IN IF \/ b.TotSec < sysect \/ nclst = 0 \/ fmt = "none"
        \/ (fmt = "FAT32") # (b.RootEntCnt = 0)
        \/ b.FATSz < sectors(szbfat)
     THEN None
     ELSE [fmt |-> fmt, n_fatent |-> n_fatent, database |-> sysect, csize |-> b.SecPerClus]

Init == size \in Sizes /\ bpb = None /\ mounted = None

Format ==
  /\ bpb = None
  /\ bpb' = createFs(size)
  /\ UNCHANGED <<size, mounted>>

Mount ==
  /\ bpb # None /\ bpb # Aborted /\ mounted = None
  /\ mounted' = find_volume(bpb)
  /\ UNCHANGED <<size, bpb>>

Next == Format \/ Mount

Spec == Init /\ [][Next]_vars

(***************************************************************************)
(* A volume that createFs() could make is one that mount accepts, as the   *)
(* type it was made as, with every cluster inside the device, whatever the *)
(* size: also where a type ends and the cluster size has to be changed.    *)
(***************************************************************************)
MountsWhatItMade ==
  bpb \notin {None, Aborted} =>
    LET m == find_volume(bpb)
    IN m # None /\ m.fmt = bpb.fmt /\ m.database + (m.n_fatent - 2) * m.csize <= size
==================================================================================
