---------------------------------- MODULE FatFs ----------------------------------
(***************************************************************************)
(* A FAT volume as FatDriver and FatNode use it: FatFs with its one-sector *)
(* window on the allocation table and the directories, and the open files  *)
(* with a sector buffer of their own.  The calls are made one after the    *)
(* other.  A call is evaluated as a whole, and notes the sectors it writes *)
(* in their order; they reach the disk one by one, and the power may fail  *)
(* before any of them.                                                     *)
(*                                                                         *)
(* The volume is FAT12 or FAT16 with one copy of the table, names have one *)
(* directory entry, and the drive executes every read and write.           *)
(***************************************************************************)
EXTENDS Integers, Sequences, FiniteSets

CONSTANTS n_fatent,      \* the clusters are 2..n_fatent - 1
          csize,         \* sectors of a cluster
          FatPerSector,  \* table entries in a sector
          DirPerSector,  \* directory entries in a sector
          RootSectors,   \* sectors of the root directory
          SectorSize,    \* bytes of a sector
          Paths,         \* of one or two names
          Writes,        \* positions and bytes written there, <<pos, bytes>>
          Reads,         \* positions and numbers of bytes read there, <<pos, n>>
          MaxCrashes,
          MaxCalls       \* bound on the calls made

VARIABLES disk,    \* what the medium holds
          vol,     \* the mounted volume, FATFS
          todo,    \* writes of the call under way
          file,    \* the open FatNode's FIL
          meant,   \* content each file should have
          astray,  \* an open file was deleted or made anew, or a write landed elsewhere
          crashes, calls,
          cleared  \* power failed before a new cluster of a directory was cleared

vars == <<disk, vol, todo, file, meant, astray, crashes, calls, cleared>>

Clusters == 2..n_fatent - 1
EOC == n_fatent

fatSector(c) == <<"fat", c \div FatPerSector>>
Sectors == {fatSector(c) : c \in Clusters} \cup {<<"root", k>> : k \in 0..RootSectors - 1}
             \cup {<<"data", c, k>> : c \in Clusters, k \in 0..csize - 1}

Entry(name, isDir, clust, size) == [name |-> name, isDir |-> isDir, clust |-> clust, size |-> size]
End == Entry("end", FALSE, 0, 0)
DDEM == Entry("deleted", FALSE, 0, 0)
Free(e) == e.name \in {"end", "deleted"}
Blank == [dir |-> [i \in 0..DirPerSector - 1 |-> End]]
Old == [data |-> [i \in 0..SectorSize - 1 |-> "?"]]
Nothing == [p \in {} |-> <<>>]
Closed == [open |-> FALSE]
Nowhere == <<"none">>

(* f_mkfs() and then f_mount() *)
Formatted ==
  [s \in Sectors |->
     CASE s[1] = "fat" -> [fat |-> [c \in {c \in Clusters : fatSector(c) = s} |-> 0]]
       [] s[1] = "root" -> Blank
       [] OTHER -> Old]

Mounted(d) ==
  [disk |-> d, win |-> Old, winsect |-> Nowhere, wflag |-> FALSE, last |-> EOC, log |-> <<>>]

Init ==
  /\ disk = Formatted /\ vol = Mounted(Formatted) /\ todo = <<>> /\ file = Closed
  /\ meant = Nothing /\ astray = FALSE /\ crashes = 0 /\ calls = 0 /\ cleared = TRUE

---------------------------------------------------------------------------
(* The window and the allocation table.  An operator takes the volume and   *)
(* gives a record of the volume v afterwards and of its results; a local    *)
(* operator continues with the result of the step before it.                *)

write(v, s, content) ==
  [v EXCEPT !.disk[s] = content, !.log = Append(@, [sector |-> s, content |-> content])]

sync_window(v) == IF v.wflag THEN [write(v, v.winsect, v.win) EXCEPT !.wflag = FALSE] ELSE v

move_window(v, s) ==
  IF s = v.winsect THEN v
  ELSE LET moved(w) == [w EXCEPT !.winsect = s, !.win = w.disk[s]] IN moved(sync_window(v))

get_fat(v, c) ==
  IF c \notin Clusters THEN [v |-> v, val |-> 1]
  ELSE LET got(w) == [v |-> w, val |-> w.win.fat[c]] IN got(move_window(v, fatSector(c)))

put_fat(v, c, val) ==
  [move_window(v, fatSector(c)) EXCEPT !.win.fat[c] = val, !.wflag = TRUE]

RECURSIVE remove_chain(_, _)
remove_chain(v, c) ==
  LET next(g) == IF c \notin Clusters \/ g.val \in {0, 1} THEN g.v
                 ELSE remove_chain(put_fat(g.v, c, 0), g.val)
  IN next(get_fat(v, c))

(* The search for a free cluster behind n, once around. *)
RECURSIVE search(_, _, _)
search(v, n, scl) ==
  LET m == IF n + 1 >= n_fatent THEN 2 ELSE n + 1
      seen(g) == IF g.val = 0 THEN [v |-> g.v, c |-> m]
                 ELSE IF m = scl THEN [v |-> g.v, c |-> 0]
                 ELSE search(g.v, m, scl)
  IN IF n + 1 >= n_fatent /\ 2 > scl THEN [v |-> v, c |-> 0] ELSE seen(get_fat(v, m))

(* The new cluster ends its chain before it is linked from the last one. *)
linked(v, c, n) == IF c = 0 THEN put_fat(v, n, EOC) ELSE put_fat(put_fat(v, n, EOC), c, n)

(* A new chain for c = 0, else the cluster behind c, allocated if need be.  *)
(* The result 0 means that the volume is full, 1 an inconsistent table.     *)
create_chain(v, c) ==
  LET after == IF c + 1 >= n_fatent THEN 2 ELSE c + 1
      scl == IF c = 0 THEN (IF v.last \in {0, EOC} THEN 1 ELSE v.last)
             ELSE IF v.last \in Clusters THEN v.last ELSE c
      taken(n) == IF n.c = 0 THEN n
                  ELSE [v |-> [linked(n.v, c, n.c) EXCEPT !.last = n.c], c |-> n.c]
      near(g) == IF g.val = 0 THEN [v |-> g.v, c |-> after] ELSE search(g.v, scl, scl)
      behind(g) == IF g.val < 2 THEN [v |-> g.v, c |-> 1]
                   ELSE IF g.val \in Clusters THEN [v |-> g.v, c |-> g.val]
                   ELSE taken(near(get_fat(g.v, after)))
  IN IF c = 0 THEN taken(search(v, scl, scl)) ELSE behind(get_fat(v, c))

---------------------------------------------------------------------------
(* Directories.  A place d in one: the cluster (0: the root directory), the *)
(* sector in it and the entry of that sector.                               *)

sectorOf(d) == IF d.clust = 0 THEN <<"root", d.k>> ELSE <<"data", d.clust, d.k>>
entry(v, d) == v.win.dir[d.i]
start(sclust) == [clust |-> sclust, k |-> 0, i |-> 0]

RECURSIVE clearedFrom(_, _, _)
clearedFrom(v, c, k) == IF k = csize THEN v ELSE clearedFrom(write(v, <<"data", c, k>>, Blank), c, k + 1)

(* The window shows the cleared cluster afterwards. *)
dir_clear(v, c) ==
  [clearedFrom(sync_window(v), c, 0) EXCEPT !.winsect = <<"data", c, 0>>, !.win = Blank]

(* The place behind d; a directory other than the root one is stretched.    *)
dir_next(v, d, stretch) ==
  LET same(p) == [v |-> v, d |-> p, res |-> "ok"]
      to(w, c) == [v |-> w, d |-> start(c), res |-> "ok"]
      fail(w, r) == [v |-> w, d |-> d, res |-> r]
      grown(n) == IF n.c = 0 THEN fail(n.v, "denied") ELSE to(dir_clear(n.v, n.c), n.c)
      beyond(g) == IF g.val \in Clusters THEN to(g.v, g.val)
                   ELSE IF ~stretch THEN fail(g.v, "nofile")
                   ELSE grown(create_chain(g.v, d.clust))
  IN IF d.i + 1 < DirPerSector THEN same([d EXCEPT !.i = @ + 1])
     ELSE IF d.clust = 0 /\ d.k + 1 = RootSectors THEN fail(v, "nofile")
     ELSE IF d.clust = 0 \/ d.k + 1 < csize THEN same([d EXCEPT !.k = @ + 1, !.i = 0])
     ELSE beyond(get_fat(v, d.clust))

RECURSIVE findFrom(_, _, _)
findFrom(v, d, name) ==
  LET next(n) == IF n.res # "ok" THEN n ELSE findFrom(n.v, n.d, name)
      at(w) == IF entry(w, d).name = "end" THEN [v |-> w, d |-> d, res |-> "nofile"]
               ELSE IF entry(w, d).name = name THEN [v |-> w, d |-> d, res |-> "ok"]
               ELSE next(dir_next(w, d, FALSE))
  IN at(move_window(v, sectorOf(d)))

RECURSIVE allocFrom(_, _)
allocFrom(v, d) ==
  LET next(n) == IF n.res = "nofile" THEN [n EXCEPT !.res = "denied"]
                 ELSE IF n.res # "ok" THEN n ELSE allocFrom(n.v, n.d)
      at(w) == IF Free(entry(w, d)) THEN [v |-> w, d |-> d, res |-> "ok"]
               ELSE next(dir_next(w, d, TRUE))
  IN at(move_window(v, sectorOf(d)))

dir_find(v, sclust, name) == findFrom(v, start(sclust), name)

set(v, d, e) == [v EXCEPT !.win.dir[d.i] = e, !.wflag = TRUE]

(* dir_register(), with the entry it puts into the window *)
dir_register(v, sclust, e) ==
  LET filled(a) == IF a.res = "ok" THEN [a EXCEPT !.v = set(a.v, a.d, e)] ELSE a
  IN filled(allocFrom(v, start(sclust)))

(* follow_path(): the place of the last name, and the cluster of its parent *)
follow_path(v, path) ==
  LET result(r, res, parent) == [v |-> r.v, d |-> r.d, res |-> res, parent |-> parent]
      below(sub, parent) == result(sub, sub.res, parent)
      in(top, e) == IF ~e.isDir THEN result(top, "nopath", 0)
                    ELSE below(dir_find(top.v, e.clust, path[2]), e.clust)
      first(top) == IF Len(path) = 1 THEN result(top, top.res, 0)
                    ELSE IF top.res # "ok" THEN result(top, "nopath", 0)
                    ELSE in(top, entry(top.v, top.d))
  IN first(dir_find(v, 0, path[1]))

(* dir_read(): whether the directory has an entry other than . and .. *)
RECURSIVE occupiedFrom(_, _)
occupiedFrom(v, d) ==
  LET next(n) == IF n.res # "ok" THEN [v |-> n.v, yes |-> FALSE] ELSE occupiedFrom(n.v, n.d)
      at(w) == IF entry(w, d).name = "end" THEN [v |-> w, yes |-> FALSE]
               ELSE IF entry(w, d).name \notin {"deleted", ".", ".."} THEN [v |-> w, yes |-> TRUE]
               ELSE next(dir_next(w, d, FALSE))
  IN at(move_window(v, sectorOf(d)))

---------------------------------------------------------------------------
(* Open files.  An operator takes the volume and the file and gives a       *)
(* record of both afterwards.                                               *)

opened(p, d, e) ==
  [open |-> TRUE, path |-> p, sclust |-> e.clust, size |-> e.size, fptr |-> 0, clust |-> 0,
   sect |-> Nowhere, buf |-> Old.data, dirty |-> FALSE, modified |-> FALSE,
   dsect |-> sectorOf(d), dptr |-> d.i]

flushedNot(v, f) == [v |-> v, f |-> [f EXCEPT !.dirty = FALSE]]

(* The sector buffer is written back. *)
flushed(v, f) ==
  IF f.dirty THEN [v |-> write(v, f.sect, [data |-> f.buf]), f |-> [f EXCEPT !.dirty = FALSE]]
  ELSE [v |-> v, f |-> f]

(* The buffer is written back before the entry, which is written last. *)
f_sync(v, f) ==
  LET b == flushed(v, f)
      w == move_window(b.v, f.dsect)
      e == [w.win.dir[f.dptr] EXCEPT !.clust = f.sclust, !.size = f.size]
  IN IF ~f.modified THEN [v |-> v, f |-> f]
     ELSE [v |-> sync_window([w EXCEPT !.win.dir[f.dptr] = e, !.wflag = TRUE]),
           f |-> [b.f EXCEPT !.modified = FALSE]]

bcs == csize * SectorSize

(* A sector read as data; what a directory left in it counts as old bytes. *)
bytesOf(content) == IF "data" \in DOMAIN content THEN content.data ELSE Old.data
fileSector(c, ofs) == <<"data", c, (ofs \div SectorSize) % csize>>

(* Follows the chain, and stretches it, until ofs is within the cluster c. *)
RECURSIVE stretched(_, _, _, _)
stretched(v, f, c, ofs) ==
  LET g == [f EXCEPT !.fptr = @ + bcs]
      on(n) == IF n.c = 0 THEN [v |-> n.v, f |-> g, c |-> 0, ofs |-> 0]
               ELSE stretched(n.v, [g EXCEPT !.clust = n.c], n.c, ofs - bcs)
  IN IF ofs <= bcs THEN [v |-> v, f |-> [f EXCEPT !.fptr = @ + ofs], c |-> c, ofs |-> ofs]
     ELSE on(create_chain(v, c))

(* f_lseek() of a file open for writing, as every FatNode's is: a position  *)
(* behind the end makes the file longer.                                    *)
f_lseek(v, f, pos) ==
  LET near == f.fptr > 0 /\ (pos - 1) \div bcs >= (f.fptr - 1) \div bcs
      base == ((f.fptr - 1) \div bcs) * bcs
      from(n) == IF n.c = 0 THEN [v |-> n.v, f |-> [f EXCEPT !.fptr = 0, !.clust = 0], c |-> 0, ofs |-> 0]
                 ELSE stretched(n.v, [f EXCEPT !.fptr = 0, !.sclust = n.c, !.clust = n.c], n.c, pos)
      nsect(s) == IF s.ofs % SectorSize = 0 THEN Nowhere ELSE fileSector(s.c, s.ofs)
      grown(s) == [s EXCEPT !.f.size = IF s.f.fptr > @ THEN s.f.fptr ELSE @,
                            !.f.modified = @ \/ s.f.fptr > s.f.size]
      loaded(b, n) == [v |-> b.v, f |-> [b.f EXCEPT !.buf = bytesOf(b.v.disk[n]), !.sect = n]]
      at(s) == IF s.f.fptr % SectorSize # 0 /\ nsect(s) # s.f.sect
               THEN loaded(flushed(s.v, s.f), nsect(s)) ELSE [v |-> s.v, f |-> s.f]
  IN at(grown(IF pos = 0 THEN [v |-> v, f |-> [f EXCEPT !.fptr = 0], c |-> 0, ofs |-> 0]
              ELSE IF near THEN stretched(v, [f EXCEPT !.fptr = base], f.clust, pos - base)
              ELSE from(IF f.sclust = 0 THEN create_chain(v, 0) ELSE [v |-> v, c |-> f.sclust])))

least(a, b) == IF a < b THEN a ELSE b
part(bytes, n) == SubSeq(bytes, n + 1, Len(bytes))

(* Whole sectors are transferred past the buffer, one cluster at most. *)
whole(f, n) == least(n \div SectorSize, csize - ((f.fptr \div SectorSize) % csize))
bytesAt(bytes, k) == [i \in 0..SectorSize - 1 |-> bytes[k * SectorSize + i + 1]]

RECURSIVE writeAll(_, _, _, _, _)
writeAll(v, c, k, count, bytes) ==
  IF count = 0 THEN v
  ELSE writeAll(write(v, <<"data", c, k>>, [data |-> bytesAt(bytes, 0)]), c, k + 1, count - 1,
                part(bytes, SectorSize))

f_advance(f, n) ==
  [f EXCEPT !.fptr = @ + n, !.size = IF f.fptr + n > @ THEN f.fptr + n ELSE @]

(* f_write(): bw counts the bytes written. *)
RECURSIVE writeFrom(_, _, _, _)
writeFrom(v, f, bytes, bw) ==
  LET boundary == f.fptr % SectorSize = 0
      csect == (f.fptr \div SectorSize) % csize
      cc == whole(f, Len(bytes))
      at == f.fptr % SectorSize
      n == least(SectorSize - at, Len(bytes))
      end(w) == [v |-> w, f |-> [f EXCEPT !.modified = TRUE], bw |-> bw]
      sect(c) == fileSector(c, f.fptr)
      direct(b, c) ==
        LET inside == b.f.sect \in {<<"data", c, k>> : k \in csect..csect + cc - 1}
        IN writeFrom(writeAll(b.v, c, csect, cc, bytes),
                     f_advance([b.f EXCEPT !.buf = IF inside THEN bytesAt(bytes, b.f.sect[3] - csect) ELSE @,
                                           !.dirty = @ /\ ~inside], cc * SectorSize),
                     part(bytes, cc * SectorSize), bw + cc * SectorSize)
      loaded(b, c) ==
        IF ~boundary \/ b.f.sect = sect(c) THEN b.f
        ELSE [b.f EXCEPT !.sect = sect(c),
                         !.buf = IF f.fptr < f.size THEN bytesOf(b.v.disk[sect(c)]) ELSE @]
      buffered(w, g) ==
        writeFrom(w, f_advance([g EXCEPT !.dirty = TRUE,
                                  !.buf = [i \in 0..SectorSize - 1 |->
                                             IF i >= at /\ i < at + n THEN bytes[i - at + 1] ELSE @[i]]], n),
                  part(bytes, n), bw + n)
      put(b, c) == IF boundary /\ cc > 0 THEN direct(b, c) ELSE buffered(b.v, loaded(b, c))
      into(new) ==
        IF new.c = 0 THEN end(new.v)
        ELSE put(IF ~boundary THEN [v |-> v, f |-> f]
                 ELSE flushed(new.v, [f EXCEPT !.clust = new.c, !.sclust = IF @ = 0 THEN new.c ELSE @]), new.c)
  IN IF bytes = <<>> THEN end(v)
     ELSE into(IF ~(boundary /\ csect = 0) THEN [v |-> v, c |-> f.clust]
               ELSE IF f.fptr = 0 /\ f.sclust # 0 THEN [v |-> v, c |-> f.sclust]
               ELSE create_chain(v, IF f.fptr = 0 THEN 0 ELSE f.clust))

(* f_read(): the bytes got. *)
RECURSIVE readFrom(_, _, _, _)
readFrom(v, f, btr, got) ==
  LET boundary == f.fptr % SectorSize = 0
      csect == (f.fptr \div SectorSize) % csize
      cc == whole(f, btr)
      at == f.fptr % SectorSize
      n == least(SectorSize - at, btr)
      moved(c) == [f EXCEPT !.clust = c]
      data(next, k) == IF f.dirty /\ f.sect = <<"data", next.val, csect + k>> THEN f.buf
                       ELSE bytesOf(next.v.disk[<<"data", next.val, csect + k>>])
      direct(next) ==
        readFrom(next.v, [moved(next.val) EXCEPT !.fptr = @ + cc * SectorSize], btr - cc * SectorSize,
                 got \o [i \in 1..cc * SectorSize |->
                           data(next, (i - 1) \div SectorSize)[(i - 1) % SectorSize]])
      buffered(b) == readFrom(b.v, [b.f EXCEPT !.fptr = @ + n], btr - n,
                              got \o [i \in 1..n |-> b.f.buf[at + i - 1]])
      loaded(b, sect) == [b EXCEPT !.f.sect = sect, !.f.buf = bytesOf(b.v.disk[sect])]
      from(next, sect) ==
        IF boundary /\ cc > 0 THEN direct(next)
        ELSE buffered(IF boundary /\ f.sect # sect THEN loaded(flushed(next.v, moved(next.val)), sect)
                      ELSE [v |-> next.v, f |-> moved(next.val)])
      in(next) == from(next, fileSector(next.val, f.fptr))
  IN IF btr = 0 THEN [v |-> v, f |-> f, got |-> got]
     ELSE in(IF ~(boundary /\ csect = 0) THEN [v |-> v, val |-> f.clust]
             ELSE IF f.fptr = 0 THEN [v |-> v, val |-> f.sclust]
             ELSE get_fat(v, f.clust))

---------------------------------------------------------------------------
(* The calls of FatDriver and FatNode.                                      *)

(* What a directory with an uncleared cluster leads to is not followed. *)
Idle == todo = <<>> /\ ~astray /\ cleared

(* A call leaves the volume v and the writes that it noted. *)
Called(v) ==
  /\ vol' = [v EXCEPT !.log = <<>>] /\ todo' = v.log
  /\ calls < MaxCalls /\ calls' = calls + 1
  /\ UNCHANGED <<disk, crashes, cleared>>

(* After a crash no content is expected. *)
means(m) == meant' = IF crashes = 0 THEN m ELSE Nothing

isOpen(p) == file.open /\ file.path = p

(* f_mkdir(): the cluster is allocated, cleared and given its dot entries   *)
(* before the entry is made; it is given back when there is no room for it. *)
f_mkdir(v, p) ==
  LET dots(w, c, parent) ==
        [w EXCEPT !.wflag = TRUE,
                  !.win.dir = [@ EXCEPT ![0] = Entry(".", TRUE, c, 0), ![1] = Entry("..", TRUE, parent, 0)]]
      made(r, c) == IF r.res = "ok" THEN sync_window(r.v) ELSE remove_chain(r.v, c)
      new(n, parent) ==
        IF n.c = 0 THEN remove_chain(n.v, 0)
        ELSE made(dir_register(dots(dir_clear(sync_window(n.v), n.c), n.c, parent), parent,
                               Entry(p[Len(p)], TRUE, n.c, 0)), n.c)
      at(a) == IF a.res # "nofile" THEN a.v ELSE new(create_chain(a.v, 0), a.parent)
  IN at(follow_path(v, p))

(* f_open() with FA_CREATE_ALWAYS, and f_close() *)
created(at, p) ==
  LET empty == Entry(p[Len(p)], FALSE, 0, 0)
      freed(w, cl) == IF cl = 0 THEN w
                      ELSE [move_window(remove_chain(w, cl), w.winsect) EXCEPT !.last = cl - 1]
      new(d) == [opened(p, d, empty) EXCEPT !.modified = TRUE]
      made(r) == IF r.res # "ok" THEN [v |-> r.v, res |-> r.res]
                 ELSE [v |-> f_sync(freed(set(r.v, r.d, empty), entry(r.v, r.d).clust), new(r.d)).v,
                       res |-> "ok"]
  IN made(IF at.res = "ok" THEN at ELSE dir_register(at.v, at.parent, empty))

MakeDirectory(p) ==
  /\ Idle
  /\ Called(f_mkdir(vol, p))
  /\ UNCHANGED <<file, meant, astray>>

CreateFile(p) ==
  /\ Idle
  /\ \E at \in {follow_path(vol, p)} :
       IF at.res = "nopath" \/ (at.res = "ok" /\ entry(at.v, at.d).isDir)
       THEN Called(at.v) /\ UNCHANGED <<meant, astray>>
       ELSE \E new \in {created(at, p)} :
              /\ Called(new.v)
              /\ means(IF new.res # "ok" THEN meant
                       ELSE [q \in DOMAIN meant \cup {p} |-> IF q = p THEN <<>> ELSE meant[q]])
              /\ astray' = (new.res = "ok" /\ isOpen(p))
  /\ UNCHANGED file

unlinkedLast(v, d, c) == move_window(set(move_window(remove_chain(v, c), sectorOf(d)), d, DDEM), sectorOf(d))

(* The entry is marked deleted before its chain is given back. *)
unlinked(v, d, c) ==
  LET marked == set(move_window(v, sectorOf(d)), d, DDEM)
  IN IF c = 0 THEN marked ELSE remove_chain(marked, c)

(* deleteNode(): f_stat() and f_unlink() *)
DeleteNode(p) ==
  /\ Idle
  /\ \E at \in {follow_path(vol, p)} :
       IF at.res # "ok" THEN Called(at.v) /\ UNCHANGED <<meant, astray>>
       ELSE \E e \in {entry(at.v, at.d)} :
            \E sub \in {IF e.isDir THEN occupiedFrom(at.v, start(e.clust)) ELSE [v |-> at.v, yes |-> FALSE]} :
              IF sub.yes THEN Called(sub.v) /\ UNCHANGED <<meant, astray>>
              ELSE /\ Called(sync_window(unlinked(sub.v, at.d, e.clust)))
                   /\ means([q \in DOMAIN meant \ {p} |-> meant[q]])
                   /\ astray' = isOpen(p)
  /\ UNCHANGED file

(* getNode() of a file *)
OpenNode(p) ==
  /\ Idle /\ ~file.open
  /\ \E at \in {follow_path(vol, p)} :
       /\ at.res = "ok" /\ ~entry(at.v, at.d).isDir
       /\ Called(at.v)
       /\ file' = opened(p, at.d, entry(at.v, at.d))
  /\ UNCHANGED <<meant, astray>>

(* The destructor of the node *)
CloseNode ==
  /\ Idle /\ file.open
  /\ Called(f_sync(vol, file).v)
  /\ file' = Closed
  /\ UNCHANGED <<meant, astray>>

longer(s, n) == [i \in 1..(IF n > Len(s) THEN n ELSE Len(s)) |-> IF i <= Len(s) THEN s[i] ELSE "any"]
over(s, pos, bytes) ==
  [i \in 1..Len(longer(s, pos + Len(bytes))) |->
     IF i > pos /\ i <= pos + Len(bytes) THEN bytes[i - pos] ELSE longer(s, pos + Len(bytes))[i]]

(* writeData(): f_lseek(), f_write() and f_sync().  On a full volume the    *)
(* seek may end before the position.                                        *)
WriteData(pos, bytes) ==
  /\ Idle /\ file.open
  /\ \E s \in {f_lseek(vol, file, pos)} : \E w \in {writeFrom(s.v, s.f, bytes, 0)} :
       \E c \in {f_sync(w.v, w.f)} :
         /\ Called(c.v) /\ file' = c.f
         /\ means([meant EXCEPT ![file.path] = over(longer(@, s.f.fptr), s.f.fptr, SubSeq(bytes, 1, w.bw))])
         /\ astray' = (s.f.fptr # pos)

readData(pos, n) ==
  LET at(s) == readFrom(s.v, s.f, least(n, s.f.size - s.f.fptr), <<>>) IN at(f_lseek(vol, file, pos))

ReadData(pos, n) ==
  /\ Idle /\ file.open
  /\ \E r \in {readData(pos, n)} :
       /\ Called(r.v) /\ file' = r.f
       /\ means([meant EXCEPT ![file.path] = longer(@, r.f.fptr - Len(r.got))])
  /\ UNCHANGED astray

WriteSector ==
  /\ todo # <<>>
  /\ disk' = [disk EXCEPT ![Head(todo).sector] = Head(todo).content]
  /\ todo' = Tail(todo)
  /\ UNCHANGED <<vol, file, meant, astray, crashes, calls, cleared>>

fatOf(d) == [c \in Clusters |-> d[fatSector(c)].fat[c]]

(* A cluster is linked on the disk and its clearing is still to be written. *)
unclear == \E j \in 1..Len(todo), c \in Clusters :
             todo[j].content = Blank /\ fatOf(disk)[c] = todo[j].sector[2]

(* The power fails; the volume is mounted again. *)
Crash ==
  /\ crashes < MaxCrashes /\ ~astray
  /\ crashes' = crashes + 1
  /\ todo' = <<>> /\ file' = Closed /\ vol' = Mounted(disk)
  /\ cleared' = (cleared /\ ~unclear)
  /\ meant' = Nothing
  /\ UNCHANGED <<disk, astray, calls>>

Next ==
  \/ \E p \in Paths : MakeDirectory(p) \/ CreateFile(p) \/ DeleteNode(p) \/ OpenNode(p)
  \/ CloseNode
  \/ \E r \in Reads : ReadData(r[1], r[2])
  \/ \E w \in Writes : WriteData(w[1], w[2])
  \/ WriteSector
  \/ Crash

Spec == Init /\ [][Next]_vars

---------------------------------------------------------------------------
(* The clusters of the chain that starts at c. *)
chain(fat, c) ==
  LET at[i \in 1..n_fatent] ==
        IF i = 1 THEN {c} \cap Clusters ELSE {fat[x] : x \in at[i - 1]} \cap Clusters
  IN UNION {at[i] : i \in 1..n_fatent}

endsWell(fat, c) == \E x \in chain(fat, c) : fat[x] = EOC

(* The entries of the directory at c, up to its end. *)
entries(d, c) ==
  LET fat == fatOf(d)
      next[x \in Clusters, n \in 0..n_fatent] ==
        IF n = 0 \/ fat[x] \notin Clusters THEN <<x>> ELSE <<x>> \o next[fat[x], n - 1]
      clusters == IF c = 0 THEN <<0>> ELSE next[c, n_fatent]
      perCluster == DirPerSector * (IF c = 0 THEN RootSectors ELSE csize)
      at(i) == LET k == (i % perCluster) \div DirPerSector
               IN (IF c = 0 THEN d[<<"root", k>>]
                   ELSE d[<<"data", clusters[1 + i \div perCluster], k>>]).dir[i % DirPerSector]
      all == 0..Len(clusters) * perCluster - 1
  IN {at(i) : i \in {i \in all : ~Free(at(i)) /\ \A j \in 0..i - 1 : at(j).name # "end"}}

(* What the volume holds: a path and its entry. *)
objects(d) ==
  LET top == entries(d, 0)
      below(e) == {[path |-> <<e.name, x.name>>, e |-> x] : x \in {x \in entries(d, e.clust) : x.name \notin {".", ".."}}}
  IN {[path |-> <<e.name>>, e |-> e] : e \in top} \cup UNION {below(e) : e \in {e \in top : e.isDir}}

current == IF vol.wflag THEN [vol.disk EXCEPT ![vol.winsect] = vol.win] ELSE vol.disk

(***************************************************************************)
(* Whenever the power fails, and after it, the disk is one that can be     *)
(* mounted and used: every chain an entry names is complete, no cluster is *)
(* in two of them, none is free, and a file's clusters hold its size.      *)
(* Only a directory whose new cluster was linked and not yet cleared is    *)
(* excepted: dir_next() writes the table first.                            *)
(***************************************************************************)
DiskIsSound ==
  cleared /\ ~unclear /\ ~astray =>
    LET fat == fatOf(disk)
        obj == objects(disk)
    IN /\ \A o \in obj : o.e.clust # 0 => endsWell(fat, o.e.clust)
       /\ \A o \in obj : o.e.size <= bcs * Cardinality(chain(fat, o.e.clust))
       /\ \A o, q \in obj : o # q => o.path # q.path /\ chain(fat, o.e.clust) \cap chain(fat, q.e.clust) = {}

(***************************************************************************)
(* Without a failure of the power no cluster is lost: each that is not     *)
(* free belongs to a file or a directory, or to the open file, also when a *)
(* directory or the volume was full in the middle of a call.               *)
(***************************************************************************)
NoClusterLost ==
  todo = <<>> /\ crashes = 0 /\ ~astray =>
    LET fat == fatOf(current)
    IN {c \in Clusters : fat[c] # 0} =
         UNION {chain(fat, o.e.clust) : o \in objects(current)}
           \cup (IF file.open THEN chain(fat, file.sclust) ELSE {})

(***************************************************************************)
(* A read gives what was written before, whatever the sector buffer holds  *)
(* and wherever the file pointer was.  A byte that was never written may   *)
(* be any: f_lseek() makes a file longer without clearing it.              *)
(***************************************************************************)
ReadsWhatWasWritten ==
  todo = <<>> /\ crashes = 0 /\ ~astray /\ file.open =>
    LET m == meant[file.path]
    IN \A r \in Reads :
         r[1] <= Len(m) =>
           \A got \in {readData(r[1], r[2]).got} :
              /\ Len(got) = least(r[2], Len(m) - r[1])
              /\ \A i \in 1..Len(got) : m[r[1] + i] \in {"any", got[i]}
==================================================================================
