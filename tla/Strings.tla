------------------------------ MODULE Strings ------------------------------
(***************************************************************************)
(* The class String and the functions of libc that it is built from,       *)
(* compared with what they are meant to compute.  A character is its code  *)
(* and a String the sequence of its len characters: every String that a    *)
(* function returns went through a constructor, which ends the copy with   *)
(* a 0.                                                                     *)
(***************************************************************************)
EXTENDS Integers, Sequences, FiniteSets

CONSTANTS Texts,      \* the strings that are looked into
          Patterns,   \* the strings that are looked for
          Numbers     \* the numbers that are converted

VARIABLES text, pattern,   \* the arguments of a call
          token            \* strtok(): what is left, or none, and the tokens so far

vars == <<text, pattern, token>>

UINT32_MAX == -1
NULL == -1
upto(n) == 0..n - 1
Least(S) == CHOOSE x \in S : \A y \in S : x <= y
Greatest(S) == CHOOSE x \in S : \A y \in S : x >= y

---------------------------------------------------------------------------
(* libc/string.c; z has the character 0 at its end.                         *)

z(s) == [i \in 0..Len(s) |-> IF i = Len(s) THEN 0 ELSE s[i + 1]]

(* The places of both *)
both(s, t) == 0..IF Len(s) < Len(t) THEN Len(s) ELSE Len(t)

strcmp(s, t) ==
  LET i == Least({i \in both(s, t) : z(s)[i] = 0 \/ z(s)[i] # z(t)[i]}) IN z(s)[i] - z(t)[i]

strncmp(s, t, n) ==
  LET i == Least({i \in both(s, t) : z(s)[i] = 0 \/ i >= n \/ z(s)[i] # z(t)[i]})
  IN IF i >= n THEN 0 ELSE z(s)[i] - z(t)[i]

strchr(s, c) ==
  LET i == Least({i \in 0..Len(s) : z(s)[i] \in {c, 0}})
  IN IF z(s)[i] = 0 /\ c # 0 THEN NULL ELSE i

strcspn(s, t) ==
  LET ret[j \in 0..Len(t)] ==
        IF j = 0 THEN Len(s)
        ELSE LET p == strchr(s, t[j]) IN IF p # NULL /\ p < ret[j - 1] THEN p ELSE ret[j - 1]
  IN ret[Len(t)]

strpbrk(s, t) ==
  LET found == {i \in upto(Len(s)) : \E j \in upto(Len(t)) : s[i + 1] = t[j + 1]}
  IN IF found = {} THEN NULL ELSE Least(found)

strrchr(s, c) ==
  LET found == {i \in upto(Len(s)) : s[i + 1] = c} IN IF found = {} THEN NULL ELSE Greatest(found)

strspn(s, t) ==
  LET ret[i \in 0..Len(s)] ==
        IF i = Len(s) \/ ~(\E j \in 1..Len(t) : s[i + 1] = t[j]) THEN i ELSE ret[i + 1]
  IN ret[0]

strstr(s, t) ==
  LET found == {i \in upto(Len(s)) :
                  \A j \in upto(Len(t)) : i + j <= Len(s) /\ z(s)[i + j] = t[j + 1]}
  IN IF found = {} THEN NULL ELSE Least(found)

strtoint(s) ==
  LET limit == IF Len(s) > 0 /\ s[1] = 45 THEN 1 ELSE 0
      sum[i \in 0..Len(s), j \in {10^k : k \in 0..Len(s)}] ==     \* the characters up to i, the last worth j
        LET num == s[i] - 48
        IN IF i <= limit THEN 0
           ELSE IF num >= 0 /\ num <= 10 THEN (num * j) + sum[i - 1, j * 10]
           ELSE sum[i - 1, j]
  IN sum[Len(s), 1] * (IF limit = 1 THEN -1 ELSE 1)

(* strformat.cpp *)
digit(d) == IF d < 10 THEN 48 + d ELSE 55 + d

RECURSIVE convert(_, _, _)
convert(number, base, padding) ==
  IF number < base /\ padding <= 1 THEN <<digit(number)>>
  ELSE Append(convert(number \div base, base, IF padding = 0 THEN 0 ELSE padding - 1), digit(number % base))

valueOf(value, radix) ==
  IF radix = 10 /\ value < 0 THEN <<45>> \o convert(-value, 10, 0) ELSE convert(value, radix, 0)

---------------------------------------------------------------------------
(* class String                                                             *)

(* Its two returns are of different values, so that each is a copy. *)
substring(s, begin, end) ==
  IF begin > end \/ begin >= Len(s) THEN <<>> ELSE SubSeq(s, begin + 1, IF end > Len(s) THEN Len(s) ELSE end)

indexOfChar(s, c, start) ==
  LET found == {i \in upto(Len(s)) : i >= start /\ s[i + 1] = c}
  IN IF found = {} THEN UINT32_MAX ELSE Least(found)

(* Changed: the loop ends one character early. *)
matchedShort(s, other, i) ==
  Least({j \in 1..Len(other) : j >= Len(other) - 1 \/ i + j >= Len(s) \/ s[i + j + 1] # other[j + 1]})

(* How far other matches at i: where the inner loop ends *)
matched(s, other, i) ==
  Least({j \in 1..Len(other) : j = Len(other) \/ i + j >= Len(s) \/ s[i + j + 1] # other[j + 1]})

(* j keeps its value at a place where the first characters differ. *)
indexOf(s, other, start) ==
  LET from[i \in start..Len(s), j \in 0..Len(other)] ==
        LET here == s[i + 1] = other[1]
            k == IF here THEN matched(s, other, i) ELSE j
        IN IF i = Len(s) \/ (here /\ k < Len(other) /\ i + k >= Len(s)) THEN UINT32_MAX
           ELSE IF k = Len(other) THEN i
           ELSE from[i + 1, k]
  IN IF start > Len(s) THEN UINT32_MAX ELSE from[start, 0]

split(s, delimiter, limit) ==
  LET add(list, element) == IF element = <<>> THEN list ELSE Append(list, element)
      loop[n \in 0..Len(s)] ==       \* after n delimiters, or after the last one
        LET w == loop[n - 1]
            end == indexOf(s, delimiter, w.start)
        IN IF n = 0 THEN [start |-> 0, list |-> <<>>]
           ELSE IF end = UINT32_MAX \/ Len(w.list) + 1 = limit THEN w
           ELSE [start |-> end + Len(delimiter), list |-> add(w.list, substring(s, w.start, end))]
      last == loop[Len(s)]
  IN IF s = <<>> THEN <<>> ELSE add(last.list, substring(s, last.start, Len(s)))

remove(s, t) ==
  LET i == indexOf(s, t, 0)
  IN IF i = UINT32_MAX THEN s ELSE substring(s, 0, i) \o substring(s, i + Len(t), Len(s))

removeAll(s, t) ==
  LET tokens == split(s, t, 0)
      sum[i \in 0..Len(tokens)] == IF i = 0 THEN <<>> ELSE sum[i - 1] \o tokens[i]
  IN sum[Len(tokens)]

beginsWith(s, t) == strcmp(substring(s, 0, Len(t)), t) = 0

(* len - string.len wraps around to a number above len when it is negative. *)
endsWith(s, t) ==
  strcmp(IF Len(s) < Len(t) THEN <<>> ELSE substring(s, Len(s) - Len(t), Len(s)), t) = 0

(* of at least one element *)
join(separator, elements) ==
  LET sum[i \in 1..Len(elements)] ==
        IF i = 1 THEN elements[1] ELSE sum[i - 1] \o separator \o elements[i]
  IN sum[Len(elements)]

isAlpha(c) == c \in (65..90) \cup (97..122)
toUpperCase(s) == [i \in DOMAIN s |-> IF isAlpha(s[i]) /\ s[i] > 90 THEN s[i] - 32 ELSE s[i]]
toLowerCase(s) == [i \in DOMAIN s |-> IF isAlpha(s[i]) /\ s[i] < 97 THEN s[i] + 32 ELSE s[i]]

space(c) == c \in {9, 32}

(* of a string that is not empty *)
strip(s) ==
  LET len == Len(s)
      startIndex == IF \A i \in 1..len : space(s[i]) THEN len
                    ELSE Least({i \in upto(len) : ~space(s[i + 1])})
      endIndex == IF len - 1 <= startIndex THEN len - 1
                  ELSE Greatest({i \in startIndex..len - 1 : i = startIndex \/ ~space(s[i + 1])})
  IN IF startIndex = endIndex THEN <<>> ELSE substring(s, startIndex, endIndex + 1)

---------------------------------------------------------------------------
NoToken == [left |-> <<>>, some |-> FALSE, tokens |-> <<>>]

Init ==
  /\ text \in Texts /\ pattern \in Patterns
  /\ token = NoToken

(* strtok(): the first call with the text, the others with NULL *)
strtok ==
  LET first == token = NoToken
      left == IF first THEN text ELSE token.left
      s == SubSeq(left, strspn(left, pattern) + 1, Len(left))
      end == strcspn(s, pattern)
      more == IF end < Len(s) THEN SubSeq(s, end + 2, Len(s)) ELSE <<>>
  IN /\ first \/ token.some
     /\ token' = IF end = 0 THEN [left |-> s, some |-> FALSE, tokens |-> token.tokens]
                 ELSE [left |-> more, some |-> end < Len(s), tokens |-> Append(token.tokens, SubSeq(s, 1, end))]
     /\ UNCHANGED <<text, pattern>>

Next == strtok

Spec == Init /\ [][Next]_vars

---------------------------------------------------------------------------
(* What is meant.                                                           *)

occurs(d, s, i) == i + Len(d) <= Len(s) /\ SubSeq(s, i + 1, i + Len(d)) = d
places(d, s, start) == {i \in start..Len(s) : occurs(d, s, i)}
leastOr(S, default) == IF S = {} THEN default ELSE Least(S)

(* The maximal runs of s without a character of d *)
runs(s, d) ==
  LET apart(c) == \E j \in 1..Len(d) : d[j] = c
      starts == {i \in 1..Len(s) : ~apart(s[i]) /\ (i = 1 \/ apart(s[i - 1]))}
      end(i) == Greatest({j \in i..Len(s) : \A k \in i..j : ~apart(s[k])})
      nth[n \in 1..Cardinality(starts)] ==
        Least(starts \ {m \in starts : \E k \in 1..n - 1 : m = nth[k]})
  IN [n \in 1..Cardinality(starts) |-> SubSeq(s, nth[n], end(nth[n]))]

trimmed(s) ==
  LET at == {i \in 1..Len(s) : ~space(s[i])} IN IF at = {} THEN <<>> ELSE SubSeq(s, Least(at), Greatest(at))

(***************************************************************************)
(* The functions of class String and libc agree with what they are meant   *)
(* to compute: the first place of a text in another, also when a part of   *)
(* it comes before; the pieces between delimiters, which strtok() gives    *)
(* one by one; an order of strings; numbers that read as they were         *)
(* written.  (strip() makes a text of one character empty.)                *)
(***************************************************************************)
StringsAreMeant ==
  LET first == leastOr(places(pattern, text, 0), NULL)
      pieces == split(text, pattern, 0)
  IN /\ \A start \in 0..Len(text) : indexOf(text, pattern, start) = leastOr(places(pattern, text, start), UINT32_MAX)
     /\ strstr(text, pattern) = first
     /\ remove(text, pattern) = IF first = NULL THEN text
                                ELSE SubSeq(text, 1, first) \o SubSeq(text, first + Len(pattern) + 1, Len(text))
     /\ beginsWith(text, pattern) = occurs(pattern, text, 0)
     /\ endsWith(text, pattern) = (Len(text) - Len(pattern) \in places(pattern, text, 0))
     /\ \A i \in DOMAIN pieces : pieces[i] # <<>> /\ places(pattern, pieces[i], 0) = {}
     /\ Len(split(text, pattern, 2)) <= 2
     /\ Len(pattern) = 1 =>
          /\ pieces = runs(text, pattern)
          /\ removeAll(text, pattern) = SelectSeq(text, LAMBDA c : c # pattern[1])
          /\ pieces # <<>> => split(join(pattern, pieces), pattern, 0) = pieces
          /\ indexOfChar(text, pattern[1], 0) = first /\ strchr(text, pattern[1]) = first
          /\ strrchr(text, pattern[1]) = IF first = NULL THEN NULL ELSE Greatest(places(pattern, text, 0))
     /\ (strcmp(text, pattern) = 0) = (text = pattern)
     /\ strcmp(text, pattern) > 0 <=> strcmp(pattern, text) < 0
     /\ (strncmp(text, pattern, Len(pattern)) = 0) = occurs(pattern, text, 0)
     /\ strpbrk(text, pattern) = IF strcspn(text, pattern) = Len(text) THEN NULL ELSE strcspn(text, pattern)
     /\ text # <<>> /\ Len(trimmed(text)) # 1 => strip(text) = trimmed(text)
     /\ toLowerCase(toUpperCase(text)) = toLowerCase(text)
     /\ \A n \in Numbers : strtoint(valueOf(n, 10)) = n
     /\ ~token.some /\ token # NoToken => token.tokens = runs(text, pattern)
=============================================================================
