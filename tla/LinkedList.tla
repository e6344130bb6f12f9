-------------------------------- MODULE LinkedList --------------------------------
(***************************************************************************)
(* Util::LinkedBlockingQueue, in which the event bus and the boot          *)
(* coordinator keep what is waiting, and Util::LinkedList, which derives   *)
(* from it.  The nodes are cells of the heap, given out again once freed.  *)
(* The variable meant is the sequence that the calls made so far should    *)
(* have left.                                                              *)
(***************************************************************************)
EXTENDS Integers, Sequences

CONSTANTS Values,   \* elements
          MaxNodes, \* nodes the heap has room for
          nullptr

S == INSTANCE SequencesExt

VARIABLES node,   \* the cells
          head, tail, length,
          meant,
          astray, \* a call has left the list other than it was meant
          halted  \* an exception, a fault or an endless loop ended the run

vars == <<node, head, tail, length, meant, astray, halted>>

Nodes == 1..MaxNodes
Freed == [element |-> "freed", next |-> nullptr]

Init ==
  /\ node = [n \in Nodes |-> Freed]
  /\ head = nullptr /\ tail = nullptr /\ length = 0
  /\ meant = <<>> /\ astray = FALSE /\ halted = FALSE

---------------------------------------------------------------------------

(* The nodes reached from head, cut off when there is a loop. *)
chain ==
  LET at[i \in 1..MaxNodes + 1] ==
        IF i = 1 THEN head
        ELSE IF at[i - 1] = nullptr THEN nullptr ELSE node[at[i - 1]].next
      end == CHOOSE i \in 1..MaxNodes + 1 : \A j \in 1..MaxNodes + 1 :
               (j < i => at[j] # nullptr) /\ (j = i => at[j] = nullptr \/ i = MaxNodes + 1)
  IN [i \in 1..end - 1 |-> at[i]]

toArray == [i \in 1..Len(chain) |-> node[chain[i]].element]

halt == halted' = TRUE /\ UNCHANGED <<node, head, tail, length, meant, astray>>

Unused == {n \in Nodes : node[n] = Freed}

(* push(), which add() calls *)
Push(e) ==
  \E n \in Unused :
    /\ node' = IF head = nullptr
               THEN [node EXCEPT ![n] = [element |-> e, next |-> nullptr]]
               ELSE [node EXCEPT ![n] = [element |-> e, next |-> nullptr], ![tail].next = n]
    /\ head' = IF head = nullptr THEN n ELSE head
    /\ tail' = n
    /\ length' = length + 1
    /\ meant' = Append(meant, e)
    /\ UNCHANGED <<astray, halted>>

(* pop(), for which a caller waits until the list is not empty; the tail    *)
(* still names the last node after it was freed.                            *)
Pop ==
  /\ length > 0
  /\ node' = [node EXCEPT ![head] = Freed]
  /\ head' = node[head].next
  /\ length' = length - 1
  /\ meant' = Tail(meant)
  /\ UNCHANGED <<tail, astray, halted>>

(* remove(element): the first node, or the second one, whose removal leaves *)
(* the tail alone; the search goes no further than that.                    *)
Remove(e) ==
  /\ head # nullptr
  /\ IF node[head].element = e THEN Pop
     ELSE LET second == node[head].next
          IN IF second = nullptr THEN halt
             ELSE IF node[second].element # e THEN halt
             ELSE /\ node' = [node EXCEPT ![head].next = node[second].next, ![second] = Freed]
                  /\ length' = length - 1
                  /\ meant' = S!RemoveFirst(meant, e)
                  /\ astray' = (second = tail)
                  /\ UNCHANGED <<head, tail, halted>>

Clear ==
  /\ length > 0
  /\ node' = [n \in Nodes |-> IF n \in S!ToSet(chain) THEN Freed ELSE node[n]]
  /\ head' = nullptr /\ length' = 0
  /\ meant' = <<>>
  /\ UNCHANGED <<tail, astray, halted>>

---------------------------------------------------------------------------
(* LinkedList: an index counts from 1.                                      *)

RemoveAt(i) ==
  IF i = 1 THEN Pop
  ELSE IF i > length THEN halt
  ELSE /\ node' = [node EXCEPT ![chain[i - 1]].next = node[chain[i]].next, ![chain[i]] = Freed]
       /\ tail' = IF node[chain[i]].next = nullptr THEN chain[i - 1] ELSE tail
       /\ length' = length - 1
       /\ meant' = S!RemoveAt(meant, i)
       /\ UNCHANGED <<head, astray, halted>>

(* add(index): in an empty list the element is pushed and then linked once  *)
(* more, behind itself; in another one it is linked behind the index.       *)
AddAt(i, e) ==
  /\ i <= length + 1
  /\ astray' = TRUE
  /\ meant' = S!InsertAt(meant, i, e)
  /\ \E n, m \in Unused :
       /\ (n = m) = (head # nullptr)
       /\ LET pushed == IF head = nullptr
                        THEN [node EXCEPT ![m] = [element |-> e, next |-> nullptr]] ELSE node
              at == IF head = nullptr THEN m ELSE IF i <= length THEN chain[i] ELSE nullptr
          IN node' = IF at = nullptr THEN [node EXCEPT ![n] = [element |-> e, next |-> nullptr]]
                     ELSE [pushed EXCEPT ![n] = [element |-> e, next |-> pushed[at].next],
                                         ![at].next = n]
       /\ IF head = nullptr
          THEN head' = m /\ tail' = m /\ length' = 2
          ELSE /\ length' = length + (IF i <= length THEN 1 ELSE 0)
               /\ UNCHANGED <<head, tail>>
  /\ UNCHANGED halted

Assign(i, e) ==
  /\ i <= length
  /\ node' = [node EXCEPT ![chain[i]].element = e]
  /\ meant' = [meant EXCEPT ![i] = e]
  /\ UNCHANGED <<head, tail, length, astray, halted>>

(* contains() and indexOf() read the first node without looking for one. *)
Find ==
  /\ head = nullptr
  /\ halt

Next ==
  /\ ~halted /\ ~astray
  /\ \/ Pop \/ Clear \/ Find
     \/ \E e \in Values : Push(e) \/ Remove(e)
     \/ \E i \in Nodes : RemoveAt(i) \/ \E e \in Values : AddAt(i, e) \/ Assign(i, e)

Spec == Init /\ [][Next]_vars

(***************************************************************************)
(* As long as no element was inserted by index, and none removed by value  *)
(* that was second and last, the list is what the calls made it, its       *)
(* length is right, the node that push() appends to is its last node, and  *)
(* every other node is free: no event waiting in the bus is lost or        *)
(* delivered twice because of the queue.                                   *)
(***************************************************************************)
QueueIsMeant ==
  ~astray => /\ toArray = meant /\ length = Len(meant)
             /\ length > 0 => tail = chain[length]
             /\ Unused = Nodes \ S!ToSet(chain)
==================================================================================
