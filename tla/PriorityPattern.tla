-------------------------- MODULE PriorityPattern --------------------------
(***************************************************************************)
(* The priority pattern that Scheduler::getNextThread() polls              *)
(* (lib/system/priority/AccessArrayPriorityPattern.cpp), as operators of   *)
(* the number n of priorities.  The module AccessArrayPriorityPattern      *)
(* executes the constructor and shows that it computes AccessArray(n).     *)
(***************************************************************************)
EXTENDS Integers, Sequences

AccessLength(n) == (n * (n - 1)) \div 2

(* The highest priority, then passes over the priorities from 1, 2, 3, ...  *)
(* upwards: priority p takes part in the passes 1 to p.                     *)
AccessArray(n) ==
  LET Pass(j) == [i \in 1 .. n - j |-> j + i - 1]
      passes[j \in 0 .. n - 2] == IF j = 0 THEN <<n - 1>> ELSE passes[j - 1] \o Pass(j)
  IN  IF n = 1 THEN << >> ELSE passes[n - 2]

(* Variant: the extra turn of priority 0 at the end of a round is left out. *)
PriorityAtWithoutLowest(array, index) ==
  IF array = << >> THEN 0 ELSE array[(index % Len(array)) + 1]

(* The priority that getNextPriority() returns when it finds currentIndex   *)
(* at the given value.                                                      *)
PriorityAt(array, index) ==
  LET i == index % (Len(array) + 1)
  IN  IF i = Len(array) THEN 0 ELSE array[i + 1]

(* Variant: the index does not wrap around.                                 *)
NextIndexUnbounded(index, modulus) == index + 1

(* currentIndex++ of a uint8_t.                                             *)
NextIndex(index, modulus) == (index + 1) % modulus
=============================================================================
