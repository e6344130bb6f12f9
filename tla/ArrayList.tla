-------------------------------- MODULE ArrayList --------------------------------
(***************************************************************************)
(* Util::ArrayList, and Util::ArrayBlockingQueue, which passes its calls   *)
(* on to one.  The list is an array that grows and never shrinks; what is  *)
(* behind the list's length is left over from earlier elements, or was     *)
(* never written ("?").  The variable meant is the sequence that the calls *)
(* made so far should have left.                                           *)
(***************************************************************************)
EXTENDS Integers, Sequences

S == INSTANCE SequencesExt

CONSTANTS Values,            \* elements
          DEFAULT_CAPACITY,
          MaxLength          \* bound on the length

VARIABLES elements,  \* the array; its length is the capacity
          length,
          meant,
          displaced, \* an element has been inserted before another one
          halted     \* Cpu::throwException() or a fault ended the run

vars == <<elements, length, meant, displaced, halted>>

Init ==
  /\ elements \in {<<>>, [i \in 1..DEFAULT_CAPACITY |-> "?"]}
  /\ length = 0 /\ meant = <<>>
  /\ displaced = FALSE /\ halted = FALSE

---------------------------------------------------------------------------

toArray == SubSeq(elements, 1, length)

(* The loop ends at the first equal element, or behind the last one. *)
indexOf(e) ==
  LET same == {i \in 1..length : elements[i] = e}
  IN IF same = {} THEN 0 ELSE CHOOSE i \in same : \A j \in same : i <= j

contains(e) == indexOf(e) # 0

doubled[capacity \in Nat, needed \in Nat] ==
  IF capacity >= needed THEN capacity ELSE doubled[2 * capacity, needed]

(* The array with room for n elements, and its old contents. *)
ensureCapacity(array, n) ==
  LET first == IF array = <<>> THEN DEFAULT_CAPACITY ELSE Len(array)
  IN [i \in 1..doubled[first, n] |-> IF i <= Len(array) THEN array[i] ELSE "?"]

(* The elements behind the removed one move down. *)
removed(array, len, i) ==
  [j \in 1..Len(array) |-> IF j >= i /\ j < len THEN array[j + 1] ELSE array[j]]

Add(e) ==
  /\ length < MaxLength
  /\ elements' = [ensureCapacity(elements, length + 1) EXCEPT ![length + 1] = e]
  /\ length' = length + 1
  /\ meant' = Append(meant, e)
  /\ UNCHANGED <<displaced, halted>>

(* The loop that makes room begins at the last element, not behind it: an   *)
(* element inserted before others costs the last one.  In an empty list it  *)
(* begins at the largest index.                                             *)
AddAt(i, e) ==
  /\ length < MaxLength /\ i <= length + 1
  /\ IF length = 0
     THEN halted' = TRUE /\ UNCHANGED <<elements, length, meant, displaced>>
     ELSE LET array == ensureCapacity(elements, length + 1)
          IN /\ elements' = [j \in 1..Len(array) |->
                               CASE j = i -> e
                                 [] j > i /\ j <= length -> array[j - 1]
                                 [] OTHER -> array[j]]
             /\ length' = length + 1
             /\ meant' = S!InsertAt(meant, i, e)
             /\ displaced' = (displaced \/ i <= length)
             /\ UNCHANGED halted

(* remove(index); with index 0, ArrayBlockingQueue::pop() *)
RemoveAt(i) ==
  IF i > length
  THEN halted' = TRUE /\ UNCHANGED <<elements, length, meant, displaced>>
  ELSE /\ elements' = removed(elements, length, i)
       /\ length' = length - 1
       /\ meant' = S!RemoveAt(meant, i)
       /\ UNCHANGED <<displaced, halted>>

Remove(e) ==
  /\ contains(e)
  /\ elements' = removed(elements, length, indexOf(e))
  /\ length' = length - 1
  /\ meant' = S!RemoveFirst(meant, e)
  /\ UNCHANGED <<displaced, halted>>

(* removeAll() removes each element of a list once. *)
RemoveAll(other) ==
  LET after[k \in 0..Len(other)] ==
        IF k = 0 THEN [array |-> elements, len |-> length]
        ELSE LET was == after[k - 1]
                 same == {i \in 1..was.len : was.array[i] = other[k]}
             IN IF same = {} THEN was
                ELSE [array |-> removed(was.array, was.len,
                                        CHOOSE i \in same : \A j \in same : i <= j),
                      len |-> was.len - 1]
      left[k \in 0..Len(other)] ==
        IF k = 0 THEN meant ELSE S!RemoveFirst(left[k - 1], other[k])
  IN /\ elements' = after[Len(other)].array /\ length' = after[Len(other)].len
     /\ meant' = left[Len(other)]
     /\ UNCHANGED <<displaced, halted>>

(* addAll() of a list to itself adds what it held: the iterator is over a   *)
(* copy.                                                                    *)
AddAll(other) ==
  /\ length + Len(other) <= MaxLength
  /\ LET after[k \in 0..Len(other)] ==
           IF k = 0 THEN elements
           ELSE [ensureCapacity(after[k - 1], length + k) EXCEPT ![length + k] = other[k]]
     IN elements' = after[Len(other)]
  /\ length' = length + Len(other)
  /\ meant' = meant \o other
  /\ UNCHANGED <<displaced, halted>>

Assign(i, e) ==
  /\ i <= length
  /\ elements' = [elements EXCEPT ![i] = e]
  /\ meant' = [meant EXCEPT ![i] = e]
  /\ UNCHANGED <<length, displaced, halted>>

Clear ==
  /\ length' = 0 /\ meant' = <<>>
  /\ UNCHANGED <<elements, displaced, halted>>

Next ==
  /\ ~halted /\ ~displaced
  /\ \/ \E e \in Values : Add(e) \/ Remove(e)
     \/ \E i \in 1..MaxLength : RemoveAt(i) \/ \E e \in Values : AddAt(i, e) \/ Assign(i, e)
     \/ AddAll(toArray) \/ RemoveAll(toArray)
     \/ \E e, f \in Values : AddAll(<<e, f>>) \/ RemoveAll(<<e, f>>)
     \/ Clear

Spec == Init /\ [][Next]_vars

(***************************************************************************)
(* As long as nothing was inserted before another element, the list holds  *)
(* what the calls made it hold, in their order, through growth and reuse   *)
(* of the array, and finds exactly those elements.  The scheduler's ready  *)
(* queues and the queue of the thread pool rest on this.                   *)
(***************************************************************************)
ListIsMeant ==
  ~displaced => /\ toArray = meant
                /\ \A e \in Values : contains(e) <=> e \in S!ToSet(meant)
==================================================================================
