--------------------------------- MODULE HashMap ---------------------------------
(***************************************************************************)
(* Util::HashMap, and Util::HashSet, which keeps its elements as the keys  *)
(* of one.  A bucket of the table is the chain of its nodes, as a sequence *)
(* of pairs <<key, value>>.  A key stands for the number its conversion to *)
(* uint32_t gives, so that two keys may share a bucket.  The variable      *)
(* meant is the function that the calls made so far should have left.      *)
(***************************************************************************)
EXTENDS Integers, Sequences, FiniteSets

CONSTANTS Keys,      \* numbers
          Values,
          TableSize  \* buckets

S == INSTANCE SequencesExt

VARIABLES isInitialized,
          table,  \* the buckets, once initialised
          count,
          meant,
          listed, \* the map was made from a list, which counts it twice
          halted  \* Cpu::throwException() ended the run

vars == <<isInitialized, table, count, meant, listed, halted>>

Empty == [h \in 0..TableSize - 1 |-> <<>>]
Nothing == [k \in {} |-> 0]

---------------------------------------------------------------------------

hash(k) == k % TableSize

(* The place of k in its bucket, 0 when it has none. *)
place(t, k) ==
  LET same == {i \in 1..Len(t[hash(k)]) : t[hash(k)][i][1] = k}
  IN IF same = {} THEN 0 ELSE CHOOSE i \in same : \A j \in same : i <= j

containsKey(k) == isInitialized /\ place(table, k) # 0
get(k) == table[hash(k)][place(table, k)][2]

(* A new key is appended to the chain of its bucket. *)
put(t, k, v) ==
  IF place(t, k) = 0 THEN [t EXCEPT ![hash(k)] = Append(@, <<k, v>>)]
  ELSE [t EXCEPT ![hash(k)][place(t, k)] = <<k, v>>]

keySet ==
  LET from[h \in 0..TableSize] ==
        IF h = TableSize THEN <<>> ELSE [i \in 1..Len(table[h]) |-> table[h][i][1]] \o from[h + 1]
  IN from[0]

changed(m, k, v) == [x \in DOMAIN m \cup {k} |-> IF x = k THEN v ELSE m[x]]

(* The map starts empty, or with the pairs of a list. *)
Init ==
  /\ halted = FALSE
  /\ \/ /\ isInitialized = FALSE /\ table = Empty /\ count = 0
        /\ meant = Nothing /\ listed = FALSE
     \/ \E k \in Keys, v \in Values :
          /\ isInitialized = TRUE /\ table = put(Empty, k, v) /\ count = 2
          /\ meant = changed(Nothing, k, v) /\ listed = TRUE

Put(k, v) ==
  /\ isInitialized' = TRUE
  /\ table' = put(table, k, v)
  /\ count' = IF place(table, k) = 0 THEN count + 1 ELSE count
  /\ meant' = changed(meant, k, v)
  /\ UNCHANGED <<listed, halted>>

halt == halted' = TRUE /\ isInitialized' = TRUE /\ UNCHANGED <<table, count, meant, listed>>

Get(k) ==
  IF place(table, k) = 0 THEN halt
  ELSE isInitialized' = TRUE /\ UNCHANGED <<table, count, meant, listed, halted>>

unlinkedRest(t, k) == [t EXCEPT ![hash(k)] = SubSeq(@, 1, place(t, k) - 1)]

(* The nodes of the bucket before and behind the removed one stay. *)
unlinked(t, k) == [t EXCEPT ![hash(k)] = S!RemoveAt(@, place(t, k))]

Remove(k) ==
  IF place(table, k) = 0 THEN halt
  ELSE /\ table' = unlinked(table, k)
       /\ count' = count - 1
       /\ meant' = [x \in DOMAIN meant \ {k} |-> meant[x]]
       /\ UNCHANGED <<isInitialized, listed, halted>>

Clear ==
  /\ isInitialized' = TRUE /\ table' = Empty /\ count' = 0
  /\ meant' = Nothing /\ listed' = FALSE
  /\ UNCHANGED halted

(* HashSet::add() and remove() look for the element first, so that they     *)
(* halt for none: an element of the set is a key with the value TRUE.       *)
Insert(k, v) == (containsKey(k) /\ UNCHANGED vars) \/ (~containsKey(k) /\ Put(k, v))
Delete(k) == containsKey(k) /\ Remove(k)

InsertAll(ks, v) ==
  LET new == {i \in 1..Len(ks) : ~containsKey(ks[i]) /\ \A j \in 1..i - 1 : ks[j] # ks[i]}
      after[i \in 0..Len(ks)] ==
        IF i = 0 THEN table ELSE IF i \in new THEN put(after[i - 1], ks[i], v) ELSE after[i - 1]
  IN /\ new # {}
     /\ isInitialized' = TRUE /\ table' = after[Len(ks)]
     /\ count' = count + Cardinality(new)
     /\ meant' = [x \in DOMAIN meant \cup S!ToSet(ks) |-> IF x \in DOMAIN meant THEN meant[x] ELSE v]
     /\ UNCHANGED <<listed, halted>>

Next ==
  /\ ~halted
  /\ \/ \E k \in Keys : Get(k) \/ Remove(k) \/ Delete(k)
     \/ \E k \in Keys, v \in Values : Put(k, v) \/ Insert(k, v)
     \/ \E j, k \in Keys, v \in Values : InsertAll(<<j, k>>, v)
     \/ Clear

Spec == Init /\ [][Next]_vars

(***************************************************************************)
(* Through collisions and removals from the front, the middle and the end  *)
(* of a chain, the map holds what the calls made it hold: each key once,   *)
(* with the last value put for it, and the count is the number of keys (a  *)
(* map made from a list counts the list twice).                            *)
(***************************************************************************)
MapIsMeant ==
  /\ \A k \in Keys : containsKey(k) <=> k \in DOMAIN meant
  /\ \A k \in DOMAIN meant : get(k) = meant[k]
  /\ S!ToSet(keySet) = DOMAIN meant /\ Len(keySet) = Cardinality(DOMAIN meant)
  /\ count = Len(keySet) + (IF listed THEN 1 ELSE 0)
==================================================================================
