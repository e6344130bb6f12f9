---------------------------- MODULE MCStructures ----------------------------
(***************************************************************************)
(* The memory management and the data structures of the library side by    *)
(* side, in one run: a behaviour belongs to one of the parts below and     *)
(* leaves the others as they start.  The sizes are chosen so that lists    *)
(* grow and are emptied, the heap and the page frames run out, buckets     *)
(* hold several keys, and patterns overlap themselves.                     *)
(***************************************************************************)
EXTENDS AddressSpaces, FreeListMemoryManager, PageFrames

VARIABLES
  part,
  n, tmp, slot, accessArray, currentIndex, since,
  elements, arrayLength, arrayMeant, displaced, arrayHalted,
  node, head, tail, length, listMeant, astray, listHalted,
  isInitialized, buckets, count, mapMeant, fromList, mapHalted,
  text, pattern, token,
  tokens, i, values, ops, phase, value

heap == heapVars
pages == framesVars
spaces == spacesVars
priorities == <<n, tmp, slot, accessArray, currentIndex, since>>
array == <<elements, arrayLength, arrayMeant, displaced, arrayHalted>>
list == <<node, head, tail, length, listMeant, astray, listHalted>>
map == <<isInitialized, buckets, count, mapMeant, fromList, mapHalted>>
strings == <<text, pattern, token>>
expression == <<tokens, i, values, ops, phase, value>>
structuresVars == <<part, heap, pages, spaces, priorities, array, list, map, strings, expression>>

Upto(S, max) == UNION {[1 .. k -> S] : k \in 0 .. max}
Joined(S, O, T) == {a \o o \o b : a \in S, o \in O, b \in T}
Numbers == {<<"3">>, <<"1", "2">>}
Operators == {<<"+">>, <<"-">>, <<"*">>, <<"/">>, <<"%">>}
Sums == Joined(Numbers, Operators, Numbers)
Longer == Joined(Sums, Operators, Numbers)
Brackets == {<<"(">> \o s \o <<")">> : s \in Sums}

P == INSTANCE AccessArrayPriorityPattern WITH Sizes <- 1 .. 23, IndexModulus <- 256
L == INSTANCE ArrayList WITH
       Values <- {"a", "b"}, DEFAULT_CAPACITY <- 2, MaxLength <- 5,
       length <- arrayLength, meant <- arrayMeant, halted <- arrayHalted
Q == INSTANCE LinkedList WITH
       Values <- {"a", "b"}, MaxNodes <- 4, nullptr <- 0, meant <- listMeant, halted <- listHalted
M == INSTANCE HashMap WITH
       Values <- {"a", "b"}, Keys <- {0, 1, 2, 4}, TableSize <- 2,
       table <- buckets, meant <- mapMeant, listed <- fromList, halted <- mapHalted
S == INSTANCE Strings WITH
       Texts <- Upto({32, 65, 97}, 4), Patterns <- Upto({32, 97}, 3) \ {<<>>}, Numbers <- -130 .. 130

(* All short texts, those that are no expressions included, and longer      *)
(* expressions with every order of ranks and brackets.                      *)
X == INSTANCE Mathexpr WITH
       Expressions <- Upto({"0", "3", "-", "%", "(", ")"}, 4)
                        \cup Longer \cup Joined(Numbers, Operators, Longer \cup Brackets)
                        \cup Joined(Brackets, Operators, Numbers \cup Brackets),
       result <- value
NoText == INSTANCE Strings WITH Texts <- {<<>>}, Patterns <- {<<32>>}, Numbers <- {}
NoExpression == INSTANCE Mathexpr WITH Expressions <- {<<>>}, result <- value

Others ==
  /\ HeapInit /\ SpacesInit /\ Q!Init
  /\ P!Init /\ (part = "priorities" \/ n = 1)
  /\ L!Init /\ (part = "array" \/ elements = <<>>)
  /\ M!Init /\ (part = "map" \/ ~isInitialized)
  /\ IF part = "strings" THEN S!Init ELSE NoText!Init
  /\ IF part = "expression" THEN X!Init ELSE NoExpression!Init

StructuresInit ==
  /\ part \in {"heap", "pages", "spaces", "priorities", "array", "list", "map", "strings", "expression"}
  /\ FramesInit /\ Others

StructuresNext ==
  \/ /\ part = "heap" /\ HeapNext
     /\ UNCHANGED <<part, pages, spaces, priorities, array, list, map, strings, expression>>
  \/ /\ part = "pages" /\ FramesNext
     /\ UNCHANGED <<part, heap, spaces, priorities, array, list, map, strings, expression>>
  \/ /\ part = "spaces" /\ SpacesNext
     /\ UNCHANGED <<part, heap, pages, priorities, array, list, map, strings, expression>>
  \/ /\ part = "priorities" /\ P!Next
     /\ UNCHANGED <<part, heap, pages, spaces, array, list, map, strings, expression>>
  \/ /\ part = "array" /\ L!Next
     /\ UNCHANGED <<part, heap, pages, spaces, priorities, list, map, strings, expression>>
  \/ /\ part = "list" /\ Q!Next
     /\ UNCHANGED <<part, heap, pages, spaces, priorities, array, map, strings, expression>>
  \/ /\ part = "map" /\ M!Next
     /\ UNCHANGED <<part, heap, pages, spaces, priorities, array, list, strings, expression>>
  \/ /\ part = "strings" /\ S!Next
     /\ UNCHANGED <<part, heap, pages, spaces, priorities, array, list, map, expression>>
  \/ /\ part = "expression" /\ X!Next
     /\ UNCHANGED <<part, heap, pages, spaces, priorities, array, list, map, strings>>

StructuresSpec == StructuresInit /\ [][StructuresNext]_structuresVars

(* The page frames alone, for a second thread.                              *)
RaceSpec == part = "pages" /\ FramesInit /\ Others /\ [][StructuresNext]_structuresVars

-----------------------------------------------------------------------------
(* Every priority is polled by its rank, the lowest within two rounds       *)
(* (AccessArrayPriorityPattern).                                            *)
ServedWithinTwoRounds == part = "priorities" => P!FilledByRank /\ P!ServedWithinTwoRounds

(* The collections hold what the calls meant, in its order (ArrayList,      *)
(* LinkedList, HashMap).                                                    *)
CollectionsAreMeant ==
  /\ part = "array" => L!ListIsMeant
  /\ part = "list" => Q!QueueIsMeant
  /\ part = "map" => M!MapIsMeant

(* The functions on strings, and the command that evaluates an expression,  *)
(* compute what they are meant to (Strings, Mathexpr).                      *)
StringsAreMeant ==
  /\ part = "strings" => S!StringsAreMeant
  /\ part = "expression" => X!ExpressionIsMeant
=============================================================================
