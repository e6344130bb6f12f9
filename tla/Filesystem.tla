------------------------------- MODULE Filesystem -------------------------------
(***************************************************************************)
(* The virtual file system: RAM drivers mounted in one tree of paths       *)
(* (Filesystem, RamFsDriver), and its two kinds of callers: the shell's    *)
(* commands, that change it in several calls, and the event bus, that      *)
(* replaces the node of a storage device.  A call takes fsLock once, so    *)
(* it is one step; what a command does between two calls is not locked.    *)
(* A path is the sequence of its names.                                    *)
(***************************************************************************)
EXTENDS Integers, Sequences, SequencesExt, FiniteSets, Functions

CONSTANTS Paths,         \* the paths of the model, closed under prefixes
          NamePrefixes,  \* pairs of different names, one a prefix of the other
          Arguments,     \* what is typed: [absolute, names], with "." and ".."
          StorageDir,    \* "/dev/storage/"
          Devices,       \* names of storage devices
          MaxNodes       \* bound: nodes ever allocated

VARIABLES mounts,      \* mountPoints: path -> root node of its driver
          node,        \* the heap's VirtualNodes
          cwd,         \* the shell's working directory: its path and its node
          cmd,         \* the shell's command between two calls
          bus,         \* the device whose node onEvent() is about to add
          seen,        \* the tree the callers see
          interfered,  \* the bus changed the tree while a command was running
          broken       \* memory still in use was freed, or a null pointer used

vars == <<mounts, node, cwd, cmd, bus, seen, interfered, broken>>

Unused == [state |-> "unused"]
NoCommand == [op |-> "idle"]
Nodes == 1..MaxNodes
Live == {n \in Nodes : node[n].state = "live"}

(* parsePath(): "." is dropped, ".." drops the name before it.              *)
parsePath(names) ==
  FoldLeft(LAMBDA path, name :
             IF name = "." THEN path
             ELSE IF name = ".." THEN SubSeq(path, 1, Len(path) - 1)
             ELSE Append(path, name), <<>>, names)

(* calcAbsolutePath()                                                       *)
calcAbsolutePath(arg) == parsePath(IF arg.absolute THEN arg.names ELSE cwd.path \o arg.names)

(* q.beginsWith(p), for the strings: "/d" is a prefix of "/dev/".           *)
beginsWith(q, p) ==
  \/ p = <<>>
  \/ /\ Len(p) <= Len(q)
     /\ Front(p) = SubSeq(q, 1, Len(p) - 1)
     /\ Last(p) = q[Len(p)] \/ <<Last(p), q[Len(p)]>> \in NamePrefixes

getMountedDriverShortest(p) ==
  LET above == {m \in DOMAIN mounts : IsPrefix(m, p)}
  IN CHOOSE m \in above : \A k \in above : Len(m) <= Len(k)

(* getMountedDriver(): the longest mount point the path begins with.        *)
getMountedDriver(p) ==
  LET above == {m \in DOMAIN mounts : IsPrefix(m, p)}
  IN CHOOSE m \in above : \A k \in above : Len(k) <= Len(m)

getChildByName(n, name) ==
  LET found == {k \in node[n].children : node[k].name = name}
  IN IF found = {} THEN 0 ELSE CHOOSE k \in found : TRUE

(* RamFsDriver::getNode(), from the driver's root; 0 is nullptr.            *)
lookup(root, names) ==
  LET at[i \in 0..Len(names)] ==
        IF i = 0 THEN root
        ELSE LET above == at[i - 1]
             IN IF above = 0 \/ node[above].type # "dir" THEN 0 ELSE getChildByName(above, names[i])
  IN at[Len(names)]

getNode(p) ==
  IF \A m \in DOMAIN mounts : ~IsPrefix(m, p) THEN 0
  ELSE LET m == getMountedDriver(p) IN lookup(mounts[m], SubSeq(p, Len(m) + 1, Len(p)))

(* The node and all below it: what ~VirtualNode() frees.                    *)
subtree(n) ==
  LET reached[depth \in Nodes] ==
        IF depth = 1 THEN {n}
        ELSE reached[depth - 1] \union UNION {node[k].children : k \in reached[depth - 1]}
  IN reached[MaxNodes]

freed(ns) == [k \in Nodes |-> IF k \in ns THEN [node[k] EXCEPT !.state = "freed"] ELSE node[k]]

new == CHOOSE n \in Nodes : node[n] = Unused /\ \A k \in Nodes : node[k] = Unused => n <= k

Room == \E n \in Nodes : node[n] = Unused

newNode(name, type) == [state |-> "live", name |-> name, type |-> type, children |-> {}]

(* createNode() and addNode(): a new node in the directory p, if it is one  *)
(* and has no entry of that name.                                           *)
addTo(p, name, type) ==
  LET dir == getNode(p)
  IN IF dir = 0 \/ node[dir].type # "dir" \/ getChildByName(dir, name) # 0 THEN node
     ELSE [node EXCEPT ![new] = newNode(name, type), ![dir].children = @ \union {new}]

createNode(p, type) == addTo(Front(p), Last(p), type)

(* deleteFile() with deleteNode(): refused when a mount point's string      *)
(* begins with the path's.  A directory with children is freed with all of  *)
(* them, but stays in its parent's list.                                    *)
refused(p) == \E m \in DOMAIN mounts : beginsWith(m, p)

deleteFile(p) ==
  LET n == getNode(p)
  IN /\ IF refused(p) \/ n = 0 THEN UNCHANGED <<node, broken>>
        ELSE /\ node' = [freed(subtree(n)) EXCEPT ![getNode(Front(p))].children =
                           IF node[n].children = {} THEN @ \ {n} ELSE @]
             /\ broken' = (node[n].children # {})
     /\ UNCHANGED mounts

(* The tree the callers see.                                                *)
tree ==
  [p \in {q \in Paths : LET n == getNode(q) IN n # 0 /\ node[n].state = "live"} |-> node[getNode(p)].type]

Init ==
  /\ mounts = (<<>> :> 1) @@ (<<"dev">> :> 3)
  /\ node = [n \in Nodes |->
               CASE n = 1 -> [newNode("/", "dir") EXCEPT !.children = {2}]
                 [] n = 2 -> newNode("dev", "dir")
                 [] n = 3 -> newNode("/", "dir")
                 [] OTHER -> Unused]
  /\ cwd = [path |-> <<>>, node |-> 1]
  /\ cmd = NoCommand /\ bus = "" /\ interfered = FALSE /\ broken = FALSE
  /\ seen = tree
-----------------------------------------------------------------------------
(* The shell's commands                                                     *)

(* The first call of a command: exists(), stat(), Directory::open() and the *)
(* getNode() of mount() and unmount() only look.                            *)
Begin(command) ==
  /\ cmd' = command
  /\ interfered' = FALSE
  /\ UNCHANGED <<mounts, node, cwd, bus, broken>>

End == cmd' = NoCommand

(* mkdir and touch: nothing when there is a node already; the second call   *)
(* creates one.                                                             *)
Make(p, op) ==
  /\ cmd = NoCommand /\ p # <<>> /\ Room /\ getNode(p) = 0
  /\ Begin([op |-> op, path |-> p])

Made ==
  /\ cmd.op \in {"mkdir", "touch"} /\ Room
  /\ node' = createNode(cmd.path, IF cmd.op = "mkdir" THEN "dir" ELSE "file")
  /\ End
  /\ UNCHANGED <<mounts, cwd, bus, interfered, broken>>

(* rm -r p: a stack of directories whose entries are being deleted, and the *)
(* path to delete next.                                                     *)
entries(n) == {node[k].name : k \in node[n].children}

Rm(p, recursive) ==
  LET n == getNode(p)
  IN /\ cmd = NoCommand /\ n # 0
     /\ IF node[n].type # "dir" THEN Begin([op |-> "rm", stack |-> <<>>, victim |-> <<p>>])
        ELSE /\ recursive
             /\ Begin([op |-> "rm", stack |-> <<[path |-> p, left |-> entries(n)]>>,
                       victim |-> <<>>])

(* rmdir p: only when the directory is empty.                               *)
Rmdir(p) ==
  LET n == getNode(p)
  IN /\ cmd = NoCommand /\ n # 0 /\ node[n].type = "dir" /\ node[n].children = {}
     /\ Begin([op |-> "rm", stack |-> <<>>, victim |-> <<p>>])

(* recursiveDelete(): the next entry.  stat() gives nullptr for one that is *)
(* gone, and the pointer is used.                                           *)
RmEntry ==
  /\ cmd.op = "rm" /\ cmd.victim = <<>> /\ cmd.stack # <<>>
  /\ \E name \in Head(cmd.stack).left :
       LET p == Append(Head(cmd.stack).path, name)
           n == getNode(p)
           rest == [cmd EXCEPT !.stack[1].left = @ \ {name}]
       IN IF n = 0 THEN broken' = TRUE /\ UNCHANGED cmd
          ELSE /\ cmd' = IF node[n].type # "dir" THEN [rest EXCEPT !.victim = <<p>>]
                         ELSE [rest EXCEPT !.stack = <<[path |-> p, left |-> entries(n)]>> \o @]
               /\ UNCHANGED broken
  /\ UNCHANGED <<mounts, node, cwd, bus, interfered>>

(* ... and the directory itself, when its entries are done.                 *)
RmDirectory ==
  /\ cmd.op = "rm" /\ cmd.victim = <<>> /\ cmd.stack # <<>> /\ Head(cmd.stack).left = {}
  /\ cmd' = [cmd EXCEPT !.victim = <<Head(cmd.stack).path>>, !.stack = Tail(@)]
  /\ UNCHANGED <<mounts, node, cwd, bus, interfered, broken>>

RmDeleteAny ==
  /\ cmd.op = "rm" /\ cmd.victim # <<>>
  /\ deleteFile(Head(cmd.victim))
  /\ cmd' = IF cmd.stack = <<>> THEN NoCommand ELSE [cmd EXCEPT !.victim = <<>>]
  /\ UNCHANGED <<cwd, bus, interfered>>

(* Rm::deleteFile(), Rmdir::deleteFile(): not the working directory, nor a  *)
(* path its string begins with.                                             *)
RmDelete ==
  /\ cmd.op = "rm" /\ cmd.victim # <<>>
  /\ IF beginsWith(cwd.path, Head(cmd.victim)) THEN UNCHANGED <<mounts, node, broken>>
     ELSE deleteFile(Head(cmd.victim))
  /\ cmd' = IF cmd.stack = <<>> THEN NoCommand ELSE [cmd EXCEPT !.victim = <<>>]
  /\ UNCHANGED <<cwd, bus, interfered>>

(* mount(): the target must exist, but its type is not looked at.           *)
Mount(p) ==
  /\ cmd = NoCommand /\ Room
  /\ getNode(p) # 0 \/ DOMAIN mounts = {}
  /\ Begin([op |-> "mount", path |-> p])

Mounted ==
  /\ cmd.op = "mount" /\ Room
  /\ IF cmd.path \in DOMAIN mounts THEN UNCHANGED <<mounts, node>>
     ELSE /\ mounts' = (cmd.path :> new) @@ mounts
          /\ node' = [node EXCEPT ![new] = newNode("/", "dir")]
  /\ End
  /\ UNCHANGED <<cwd, bus, interfered, broken>>

(* unmount(): refused while something is mounted below; frees the driver    *)
(* and with it all of its nodes.                                            *)
Umount(p) ==
  /\ cmd = NoCommand
  /\ getNode(p) # 0 \/ p = <<>>
  /\ Begin([op |-> "umount", path |-> p])

Unmounted ==
  /\ cmd.op = "umount"
  /\ LET p == cmd.path
     IN IF p \notin DOMAIN mounts \/ \E m \in DOMAIN mounts : IsStrictPrefix(p, m)
        THEN UNCHANGED <<mounts, node>>
        ELSE /\ mounts' = Restrict(mounts, DOMAIN mounts \ {p})
             /\ node' = freed(subtree(mounts[p]))
  /\ End
  /\ UNCHANGED <<cwd, bus, interfered, broken>>

(* cd: the Directory keeps a pointer to the node.                           *)
Cd(p) ==
  LET n == getNode(p)
  IN /\ cmd = NoCommand /\ n # 0 /\ node[n].type = "dir"
     /\ cwd' = [path |-> p, node |-> n]
     /\ UNCHANGED <<mounts, node, cmd, bus, interfered, broken>>
-----------------------------------------------------------------------------
(* onEvent() for a storage device that is added: the device's node is       *)
(* deleted, and a new one added.                                            *)
OnEvent(device) ==
  /\ bus = "" /\ Room
  /\ deleteFile(Append(StorageDir, device))
  /\ bus' = device
  /\ interfered' = (interfered \/ cmd # NoCommand)
  /\ UNCHANGED <<cwd, cmd>>

(* addVirtualNode() uses the driver without a test for nullptr.             *)
AddVirtualNode ==
  /\ bus # "" /\ Room
  /\ IF DOMAIN mounts = {} THEN broken' = TRUE /\ UNCHANGED node
     ELSE node' = addTo(StorageDir, bus, "file") /\ UNCHANGED broken
  /\ bus' = ""
  /\ interfered' = (interfered \/ cmd # NoCommand)
  /\ UNCHANGED <<mounts, cwd, cmd>>

(* What happens after broken is undefined: the model stops there.           *)
Command(p) ==
  \/ Make(p, "mkdir") \/ Make(p, "touch") \/ Rm(p, TRUE) \/ Rm(p, FALSE) \/ Rmdir(p)
  \/ Mount(p) \/ Umount(p) \/ Cd(p)

Next ==
  /\ ~broken
  /\ \/ /\ cmd = NoCommand
        /\ \E p \in {calcAbsolutePath(arg) : arg \in Arguments} \cap Paths : Command(p)
     \/ Made \/ RmEntry \/ RmDirectory \/ RmDelete \/ Mounted \/ Unmounted
     \/ \E device \in Devices : OnEvent(device)
     \/ AddVirtualNode
  /\ seen' = IF <<mounts', node'>> = <<mounts, node>> THEN seen ELSE tree'

Spec == Init /\ [][Next]_vars
-----------------------------------------------------------------------------
Promise == INSTANCE FileTree WITH tree <- seen, mounted <- DOMAIN mounts

(* Whatever is mounted where, every call changes the one tree the callers   *)
(* see by the node it names and nothing else: a path resolves in the driver *)
(* it was created in, and mounting or unmounting hides and shows only what  *)
(* is below the mount point (getMountedDriver, createNode, deleteNode,      *)
(* mount and unmount).                                                      *)
ImplementsTree == Promise!Spec

(* No command frees a directory that still has entries, or follows the null *)
(* pointer of a path that is gone, unless the event bus changed the tree    *)
(* between two of its calls: rm -r and rmdir are the only protection        *)
(* deleteNode() has against that, since a refused entry (a mount point, the *)
(* working directory) must make its parent refused as well.                 *)
NothingTorn == broken => interfered \/ DOMAIN mounts = {}

(* The node of the shell's working directory is never freed by rm or rmdir, *)
(* whatever is mounted over it: they compare path strings to protect it.    *)
(* Only an unmount, or a device of that name, can take it away.             *)
CwdKept ==
  [][cwd.node \in Live /\ node'[cwd.node].state # "live" => cmd.op = "umount" \/ bus' # bus]_vars
=============================================================================
