--------------------- MODULE AccessArrayPriorityPattern ---------------------
(***************************************************************************)
(* The class AccessArrayPriorityPattern: its constructor, one iteration of *)
(* the filling loop per step, and then getNextPriority(), asked over and   *)
(* over.  since[p] counts the calls since priority p was returned.         *)
(***************************************************************************)
EXTENDS PriorityPattern

CONSTANTS
  Sizes,        \* the values of priorityCount that are looked at
  IndexModulus  \* 2^8, the range of currentIndex

VARIABLES
  n,             \* priorityCount
  tmp,           \* the constructor's counters: how often p is still to be entered
  slot,          \* the constructor's index
  accessArray,
  currentIndex,
  since

vars == <<n, tmp, slot, accessArray, currentIndex, since>>

Init ==
  /\ n \in Sizes
  /\ tmp = [p \in 0 .. n - 1 |-> p]
  /\ slot = n - 1
  /\ accessArray = << >>
  /\ currentIndex = 0
  /\ since = [p \in 0 .. n - 1 |-> 0]

Built == Len(accessArray) = AccessLength(n)

(* The while loop: the first slot from index on that has entries left.      *)
Found ==
  LET ahead == CHOOSE k \in 0 .. n - 1 :
                 /\ tmp[(slot + k) % n] # 0
                 /\ \A j \in 0 .. k - 1 : tmp[(slot + j) % n] = 0
  IN  (slot + ahead) % n

Fill ==
  /\ ~Built
  /\ accessArray' = Append(accessArray, Found)
  /\ tmp' = [tmp EXCEPT ![Found] = @ - 1]
  /\ slot' = (Found + 1) % n
  /\ UNCHANGED <<n, currentIndex, since>>

GetNextPriority ==
  /\ Built
  /\ since' = [p \in 0 .. n - 1 |->
                 IF p = PriorityAt(accessArray, currentIndex) THEN 0 ELSE since[p] + 1]
  /\ currentIndex' = NextIndex(currentIndex, IndexModulus)
  /\ UNCHANGED <<n, tmp, slot, accessArray>>

Next == Fill \/ GetNextPriority

Spec == Init /\ [][Next]_vars

-----------------------------------------------------------------------------
(* The constructor's loop computes the passes of AccessArray(n), and enters *)
(* every priority as often as its rank says: p turns per round.             *)
FilledByRank ==
  Built => /\ accessArray = AccessArray(n)
           /\ \A p \in 0 .. n - 1 : Len(SelectSeq(accessArray, LAMBDA q : q = p)) = p

(* Every priority comes up again within two rounds, the lowest included,    *)
(* also when the 8 bit index wraps around in the middle of a round; the     *)
(* loop of Scheduler::getNextThread() is therefore bounded.                 *)
ServedWithinTwoRounds ==
  \A p \in 0 .. n - 1 : since[p] < 2 * (AccessLength(n) + 1)
=============================================================================
