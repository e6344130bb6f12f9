------------------------------ MODULE Mathexpr ------------------------------
(***************************************************************************)
(* The shell's command mathexpr: calculateExpression() goes through an     *)
(* expression once, with a list of values and one of operators, and        *)
(* applies an operator as soon as the next one binds no closer.  A get()   *)
(* from an empty list and a division by zero halt the system.  Numbers are *)
(* small enough not to overflow.                                           *)
(***************************************************************************)
EXTENDS Integers, Sequences
LOCAL INSTANCE SequencesExt

CONSTANT Expressions \* sequences of digits, operators and brackets

VARIABLES tokens, i, values, ops,
          phase, \* "scan", "finish", "done" or "halted"
          result

vars == <<tokens, i, values, ops, phase, result>>

Digit == [d \in {"0", "1", "2", "3", "4", "5", "6", "7", "8", "9"} |->
            SelectInSeq(<<"0", "1", "2", "3", "4", "5", "6", "7", "8", "9">>, LAMBDA x : x = d) - 1]
digit(c) == c \in DOMAIN Digit
number(s) == FoldLeft(LAMBDA val, c : val * 10 + Digit[c], 0, s)

precedence(op) ==
  CASE op \in {"+", "-"} -> 1
    [] op = "%" -> 2
    [] op \in {"*", "/"} -> 3
    [] OTHER -> 0

(* Division and remainder of C, which rounds towards zero.                  *)
abs(a) == IF a < 0 THEN -a ELSE a
quotient(a, b) == (IF (a < 0) = (b < 0) THEN 1 ELSE -1) * (abs(a) \div abs(b))

applyOperation(a, b, op) ==
  CASE op = "+" -> a + b
    [] op = "-" -> a - b
    [] op = "*" -> a * b
    [] op = "/" -> quotient(a, b)
    [] op = "%" -> a - b * quotient(a, b)
    [] OTHER -> 0

Init ==
  /\ tokens \in Expressions /\ i = 1
  /\ values = <<>> /\ ops = <<>> /\ phase = "scan" /\ result = 0

token == tokens[i]
Scans == phase = "scan" /\ i <= Len(tokens)

(* The condition of the three while loops.                                  *)
Applies ==
  /\ ops # <<>>
  /\ \/ phase = "finish"
     \/ Scans /\ token = ")" /\ Last(ops) # "("
     \/ Scans /\ ~digit(token) /\ token \notin {"(", ")"} /\ precedence(Last(ops)) >= precedence(token)

(* The body of these loops.                                                 *)
Apply ==
  /\ Applies
  /\ ops' = Front(ops)
  /\ IF Len(values) < 2 \/ (Last(ops) \in {"/", "%"} /\ Last(values) = 0)
       THEN phase' = "halted" /\ UNCHANGED values
       ELSE LET val2 == Last(values)
                val1 == Last(Front(values))
            IN /\ values' = Append(Front(Front(values)), applyOperation(val1, val2, Last(ops)))
               /\ UNCHANGED phase
  /\ UNCHANGED <<tokens, i, result>>

(* One round of the for loop: an operator or an opening bracket, ...        *)
Operator ==
  /\ Scans /\ ~Applies /\ ~digit(token) /\ token # ")"
  /\ ops' = Append(ops, token) /\ i' = i + 1
  /\ UNCHANGED <<tokens, values, phase, result>>

(* ... a number, with all its digits, ...                                   *)
Number ==
  /\ Scans /\ digit(token)
  /\ LET rest == SubSeq(tokens, i, Len(tokens))
         n    == IF \A k \in DOMAIN rest : digit(rest[k]) THEN Len(rest)
                 ELSE SelectInSeq(rest, LAMBDA c : ~digit(c)) - 1
     IN values' = Append(values, number(SubSeq(rest, 1, n))) /\ i' = i + n
  /\ UNCHANGED <<tokens, ops, phase, result>>

(* ... or a closing bracket, which takes the opening one away.              *)
Close ==
  /\ Scans /\ ~Applies /\ token = ")"
  /\ ops' = IF ops = <<>> THEN ops ELSE Front(ops)
  /\ i' = i + 1
  /\ UNCHANGED <<tokens, values, phase, result>>

Finish ==
  /\ phase = "scan" /\ i > Len(tokens)
  /\ phase' = "finish"
  /\ UNCHANGED <<tokens, i, values, ops, result>>

Return ==
  /\ phase = "finish" /\ ops = <<>>
  /\ IF values = <<>> THEN phase' = "halted" /\ UNCHANGED result
     ELSE phase' = "done" /\ result' = Last(values)
  /\ UNCHANGED <<tokens, i, values, ops>>

Next == Apply \/ Operator \/ Number \/ Close \/ Finish \/ Return

Spec == Init /\ [][Next]_vars

-----------------------------------------------------------------------------
(* What an expression means: operators of one rank are applied from the     *)
(* left, and those of a higher one first.                                   *)
NoValue == <<>>

depth(s, k) == Len(SelectSeq(SubSeq(s, 1, k), LAMBDA c : c = "(")) -
               Len(SelectSeq(SubSeq(s, 1, k), LAMBDA c : c = ")"))

RankOf == ("+" :> 1) @@ ("-" :> 1) @@ ("%" :> 2) @@ ("*" :> 3) @@ ("/" :> 3)

RECURSIVE meaning(_)
meaning(s) ==
  LET outer == {k \in DOMAIN s : s[k] \in DOMAIN RankOf /\ depth(s, k) = 0}
      least == {k \in outer : \A j \in outer : RankOf[s[k]] <= RankOf[s[j]]}
      last  == CHOOSE k \in least : \A j \in least : j <= k
      left  == meaning(SubSeq(s, 1, last - 1))
      right == meaning(SubSeq(s, last + 1, Len(s)))
  IN IF s = <<>> THEN NoValue
     ELSE IF outer # {}
       THEN IF left = NoValue \/ right = NoValue THEN NoValue
            ELSE IF right = <<0>> /\ s[last] \in {"/", "%"} THEN NoValue
            ELSE <<applyOperation(left[1], right[1], s[last])>>
     ELSE IF \A k \in DOMAIN s : digit(s[k]) THEN <<number(s)>>
     ELSE IF /\ s[1] = "(" /\ s[Len(s)] = ")"
             /\ \A k \in 1 .. Len(s) - 1 : depth(s, k) > 0
       THEN meaning(SubSeq(s, 2, Len(s) - 1))
     ELSE NoValue

(* An expression that has a meaning is evaluated to it, and does not halt   *)
(* the system: the two lists of calculateExpression() hold at any time what *)
(* is left to apply, whatever the order of ranks and brackets.              *)
ExpressionIsMeant ==
  phase \in {"done", "halted"} =>
    LET m == meaning(tokens) IN m # NoValue => phase = "done" /\ m = <<result>>
=============================================================================
