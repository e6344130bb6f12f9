-------------------------------- MODULE FileTree --------------------------------
(***************************************************************************)
(* What the file system promises its callers: one tree of paths, whatever  *)
(* drivers are mounted where.  A path is a sequence of names; tree gives   *)
(* the type of the node at every path that leads to one.                   *)
(***************************************************************************)
EXTENDS Integers, Sequences, SequencesExt, Functions

CONSTANT Paths

VARIABLES tree, mounted

vars == <<tree, mounted>>

Types == {"dir", "file"}
Below(p) == {q \in Paths : IsStrictPrefix(p, q)}

(* What mounting at p hides: p and what is below it, but not what is at or  *)
(* below another mount point down there.                                    *)
Hidden(p) ==
  {q \in Below(p) \union {p} :
     \A m \in mounted : ~(IsStrictPrefix(p, m) /\ IsPrefix(m, q))}

Init ==
  /\ tree = [p \in {<<>>, <<"dev">>} |-> "dir"]
  /\ mounted = {<<>>, <<"dev">>}

(* createFile(), createDirectory(): one new node in an existing directory.  *)
Create(p, type) ==
  /\ p # <<>> /\ p \notin DOMAIN tree
  /\ Front(p) \in DOMAIN tree /\ tree[Front(p)] = "dir"
  /\ tree' = [q \in DOMAIN tree \union {p} |-> IF q = p THEN type ELSE tree[q]]
  /\ UNCHANGED mounted

(* deleteFile(): one node, that has nothing below it.                       *)
Delete(p) ==
  /\ p \in DOMAIN tree \ mounted /\ Below(p) \cap DOMAIN tree = {}
  /\ tree' = Restrict(tree, DOMAIN tree \ {p})
  /\ UNCHANGED mounted

(* deleteFile() of a directory that is not empty reports a failure, but the *)
(* directory and what was in it are gone.                                   *)
DeleteAll(p) ==
  /\ p \in DOMAIN tree \ mounted
  /\ tree' = Restrict(tree, DOMAIN tree \ (Below(p) \union {p}))
  /\ UNCHANGED mounted

(* mount(): p is an empty directory, and what it hides is not seen.         *)
Mount(p) ==
  /\ p \notin mounted
  /\ tree' = [q \in (DOMAIN tree \ Hidden(p)) \union {p} |-> IF q = p THEN "dir" ELSE tree[q]]
  /\ mounted' = mounted \union {p}

(* unmount(): nothing but p and what is below it is different; without a    *)
(* root there is nothing.                                                   *)
Unmount(p) ==
  /\ p \in mounted /\ Below(p) \cap mounted = {}
  /\ mounted' = mounted \ {p}
  /\ \A q \in Paths \ (Below(p) \union {p}) :
       /\ q \in DOMAIN tree' <=> q \in DOMAIN tree
       /\ q \in DOMAIN tree => tree'[q] = tree[q]
  /\ p = <<>> => DOMAIN tree' = {}

Next ==
  /\ vars' # vars
  /\ \E p \in Paths :
       \/ \E type \in Types : Create(p, type)
       \/ Delete(p) \/ DeleteAll(p) \/ Mount(p) \/ Unmount(p)

Spec == Init /\ [][Next]_vars
=============================================================================
