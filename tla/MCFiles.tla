------------------------------- MODULE MCFiles -------------------------------
(***************************************************************************)
(* The file system from the shell down to the sectors of a FAT volume side *)
(* by side, in one run: a behaviour belongs to one of the parts below and  *)
(* leaves the others as they start.                                        *)
(***************************************************************************)
EXTENDS Integers, Sequences

VARIABLES
  part,
  mounts, node, cwd, cmd, bus, seen, interfered, broken,
  entry, data, file, call, created, meant, shared, raced,
  disk, vol, todo, fil, content, astray, crashes, calls, cleared,
  size, bpb, mounted,
  driver, screen, inputBuffer, lastString, stringAvailable, history, historyIndex, currentBase,
  inputLock, shell, publisher, ahead, off, keys

tree == <<mounts, node, cwd, cmd, bus, seen, interfered, broken>>
files == <<entry, data, file, call, created, meant, shared, raced>>
fat == <<disk, vol, todo, fil, content, astray, crashes, calls, cleared>>
format == <<size, bpb, mounted>>
console == <<driver, screen, inputBuffer, lastString, stringAvailable, history, historyIndex,
             currentBase, inputLock, shell, publisher, ahead, off, keys>>
vars == <<part, tree, files, fat, format, console>>

-----------------------------------------------------------------------------
Names == {"d", "dev"}
AllPaths == UNION {[1 .. k -> Names] : k \in 0 .. 2}
Typed(absolute, names) == [absolute |-> absolute, names |-> names]

(* All paths of two names, one a prefix of the other, and a device with the *)
(* name of a directory.                                                     *)
T == INSTANCE Filesystem WITH
       Paths <- AllPaths, NamePrefixes <- {<<"d", "dev">>},
       Arguments <- {Typed(TRUE, p) : p \in AllPaths} \cup {Typed(FALSE, <<"..">>), Typed(FALSE, <<"d">>)},
       StorageDir <- <<"dev">>, Devices <- {"d"}, MaxNodes <- 5

(* Two threads at one path.                                                 *)
F == INSTANCE File WITH
       Threads <- {"t1", "t2"}, Modes <- {"r", "w", "w+", "a+"}, Values <- {1}, Lengths <- {1, 2},
       MaxLength <- 3, MaxNodes <- 2, node <- data

(* A directory grows by a cluster, a write covers whole and parts of        *)
(* sectors, the volume runs out of clusters.                                *)
V == INSTANCE FatFs WITH
       n_fatent <- 6, csize <- 2, FatPerSector <- 4, DirPerSector <- 2, RootSectors <- 1,
       SectorSize <- 2, MaxCrashes <- 1, MaxCalls <- 5,
       Paths <- {<<"a">>, <<"a", "a">>, <<"a", "b">>, <<"a", "c">>},
       Writes <- {<<0, <<"x">>>>, <<1, <<"y", "y", "y", "z">>>>}, Reads <- {<<3, 1>>, <<1, 4>>},
       file <- fil, meant <- content

(* Sizes around the places where the type of the volume changes.            *)
M == INSTANCE FatFormat WITH
       Sizes <- (120 .. 200) \cup (4050 .. 4200) \cup (16200 .. 16500) \cup (65500 .. 66200)
                  \cup {100000, 131071, 131072, 200000, 262143, 262144, 400000, 1048575, 1048576, 4194304}

(* Lines that wrap around and scroll.                                       *)
S == INSTANCE Shell WITH
       columns <- 3, rows <- 2, Drivers <- {"cga", "lfb", "vesa"},
       Events <- [key |-> {"a", "b", "\n", "BACKSPACE", "UP", "DOWN"}, com |-> {"b"}],
       BufferSize <- 5, UINT32_MAX <- 99, Outputs <- {<<>>, <<"o">>, <<"o", "\n">>}, MaxKeys <- 5,
       astray <- off

-----------------------------------------------------------------------------
Init ==
  /\ part \in {"tree", "files", "fat", "format", "console"}
  /\ T!Init /\ F!Init /\ V!Init /\ M!Init /\ S!Init
  /\ part = "format" \/ size = 120
  /\ part = "console" \/ driver = "cga"

Next ==
  \/ part = "tree" /\ T!Next /\ UNCHANGED <<part, files, fat, format, console>>
  \/ part = "files" /\ F!Next /\ UNCHANGED <<part, tree, fat, format, console>>
  \/ part = "fat" /\ V!Next /\ UNCHANGED <<part, tree, files, format, console>>
  \/ part = "format" /\ M!Next /\ UNCHANGED <<part, tree, files, fat, console>>
  \/ part = "console" /\ S!Next /\ UNCHANGED <<part, tree, files, fat, format>>

Spec == Init /\ [][Next]_vars

-----------------------------------------------------------------------------
(* Whatever is mounted, the callers see one tree (Filesystem, FileTree).    *)
ImplementsTree == T!ImplementsTree

(* rm and rmdir never free the shell's working directory (Filesystem).      *)
CwdKept == T!CwdKept

(* No command frees a directory that has entries, and a file holds what was *)
(* written through the Files that opened it (Filesystem, File).             *)
NodesAreKept ==
  /\ part = "tree" => T!NothingTorn
  /\ part = "files" => F!HoldsWhatWasWritten /\ F!OpenGivesNode

(* Whenever the power fails the FAT volume is sound, and without that no    *)
(* cluster is lost (FatFs).                                                 *)
VolumeIsSound == part = "fat" => V!DiskIsSound /\ V!NoClusterLost

(* A read of a file gives what was written to it (FatFs).                   *)
ReadsWhatWasWritten == part = "fat" => V!ReadsWhatWasWritten

(* A volume that was formatted can be mounted (FatFormat).                  *)
MountsWhatItMade == part = "format" => M!MountsWhatItMade

(* What the screen shows behind the prompt is the line that Enter takes     *)
(* (Shell).                                                                 *)
ShownIsEntered == part = "console" => S!ShownIsEntered

(* The comment of File::open(): "w+" truncates a file that exists (File).   *)
TruncatedOnOpen == F!TruncatedOnOpen
=============================================================================
