---------------------------- MODULE QueueLemmas ----------------------------
(***************************************************************************)
(* Lemmas about the queues of the library (ArrayListBlockingQueue and its  *)
(* likes) as the components use them: what push() and pop() do to the      *)
(* elements of a queue that holds none of them twice.                      *)
(***************************************************************************)
EXTENDS Integers, Sequences, FiniteSetsExt, Functions, WellFoundedInduction, TLAPS

(* The provers get time enough for a slow machine.                          *)
USE SMTT(60)

(* Every nonempty set of natural numbers has a least element.               *)
LEMMA LeastNatural ==
  ASSUME NEW S \in SUBSET Nat, S # {}
  PROVE  \E m \in S : \A n \in S : m <= n
  <1>1. PICK m \in S : \A n \in S : ~(<<n, m>> \in OpToRel(<, Nat))
    BY NatLessThanWellFounded, WFMin, ZenonT(60)
  <1>2. ASSUME NEW n \in S
        PROVE  m <= n
    <2>1. m \in Nat /\ n \in Nat
      OBVIOUS
    <2>2. n < m => <<n, m>> \in OpToRel(<, Nat)
      BY <2>1 DEF OpToRel
    <2>3. ~(n < m)
      BY <1>1, <2>2, ZenonT(60)
    <2>4. QED
      BY <2>1, <2>3
  <1>3. QED
    BY <1>2

(* The least number of a set, with which the searches of lists and bitmaps  *)
(* end, is in the set.                                                      *)
LEMMA LeastIsElement ==
  ASSUME NEW S \in SUBSET Nat, S # {}
  PROVE  Min(S) \in S /\ \A n \in S : Min(S) <= n
  <1>1. PICK m \in S : \A n \in S : m <= n
    BY LeastNatural
  <1> QED
    BY <1>1, ZenonT(60) DEF Min

(* The elements of a queue are those at its places 1 to Len(q).             *)
LEMMA Elements ==
  ASSUME NEW S, NEW q \in Seq(S), NEW e
  PROVE  /\ Range(q) \subseteq S
         /\ e \in Range(q) <=> \E i \in 1 .. Len(q) : q[i] = e
  BY DEF Range

(* push() adds its element, and adds it once if it was not there.           *)
LEMMA PushElement ==
  ASSUME NEW S, NEW q \in Seq(S), NEW e \in S
  PROVE  /\ Append(q, e) \in Seq(S)
         /\ Range(Append(q, e)) = Range(q) \cup {e}
         /\ IsInjective(q) /\ e \notin Range(q) => IsInjective(Append(q, e))
  <1>1. /\ Append(q, e) \in Seq(S)
        /\ Len(Append(q, e)) = Len(q) + 1
        /\ Len(q) \in Nat
        /\ DOMAIN q = 1 .. Len(q)
        /\ DOMAIN Append(q, e) = 1 .. Len(q) + 1
        /\ \A i \in 1 .. Len(q) : Append(q, e)[i] = q[i]
        /\ Append(q, e)[Len(q) + 1] = e
    OBVIOUS
  <1>2. Range(Append(q, e)) = Range(q) \cup {e}
    BY <1>1 DEF Range
  <1>3. ASSUME IsInjective(q), e \notin Range(q)
        PROVE  IsInjective(Append(q, e))
    BY <1>1, <1>3 DEF Range, IsInjective
  <1>4. QED
    BY <1>1, <1>2, <1>3

(* pop() takes the first element out, and leaves no other copy of it.       *)
LEMMA PopElement ==
  ASSUME NEW S, NEW q \in Seq(S), q # << >>
  PROVE  /\ Head(q) \in S
         /\ Tail(q) \in Seq(S)
         /\ Range(q) = Range(Tail(q)) \cup {Head(q)}
         /\ IsInjective(q) => IsInjective(Tail(q)) /\ Head(q) \notin Range(Tail(q))
  <1>1. /\ Tail(q) \in Seq(S)
        /\ Len(q) \in Nat \ {0}
        /\ Len(Tail(q)) = Len(q) - 1
        /\ DOMAIN q = 1 .. Len(q)
        /\ DOMAIN Tail(q) = 1 .. Len(q) - 1
        /\ \A i \in 1 .. Len(q) - 1 : Tail(q)[i] = q[i + 1]
        /\ Head(q) = q[1]
        /\ Head(q) \in S
    OBVIOUS
  <1>2. Range(q) = Range(Tail(q)) \cup {Head(q)}
    <2>1. ASSUME NEW i \in 1 .. Len(q)
          PROVE  q[i] \in Range(Tail(q)) \cup {Head(q)}
      <3>1. CASE i = 1
        BY <1>1, <3>1
      <3>2. CASE i # 1
        <4>1. i - 1 \in 1 .. Len(q) - 1 /\ q[i] = Tail(q)[i - 1]
          BY <1>1, <3>2
        <4>2. QED
          BY <1>1, <4>1, ZenonT(60) DEF Range
      <3>3. QED
        BY <3>1, <3>2
    <2>2. QED
      BY <1>1, <2>1 DEF Range
  <1>3. ASSUME IsInjective(q)
        PROVE  IsInjective(Tail(q)) /\ Head(q) \notin Range(Tail(q))
    BY <1>1, <1>3 DEF Range, IsInjective
  <1>4. QED
    BY <1>1, <1>2, <1>3

(* The elements of two sequences in a row.                                  *)
LEMMA JoinedSequences ==
  ASSUME NEW S, NEW s \in Seq(S), NEW t \in Seq(S)
  PROVE  /\ s \o t \in Seq(S)
         /\ Len(s \o t) = Len(s) + Len(t)
         /\ \A i \in 1 .. Len(s) + Len(t) :
              (s \o t)[i] = IF i <= Len(s) THEN s[i] ELSE t[i - Len(s)]
  OBVIOUS

(* What remove() leaves when it has found its element at place k.           *)
LEMMA RemoveAtElement ==
  ASSUME NEW S, NEW q \in Seq(S), NEW k \in 1 .. Len(q)
  PROVE  LET r == SubSeq(q, 1, k - 1) \o SubSeq(q, k + 1, Len(q))
         IN  /\ r \in Seq(S)
             /\ IsInjective(q) => IsInjective(r) /\ Range(r) = Range(q) \ {q[k]}
  <1> DEFINE e == q[k]
             r == SubSeq(q, 1, k - 1) \o SubSeq(q, k + 1, Len(q))
  <1>1. /\ k \in 1 .. Len(q) /\ Len(q) \in Nat
        /\ \A i \in 1 .. Len(q) : q[i] \in S
        /\ DOMAIN q = 1 .. Len(q)
    OBVIOUS
  <1>2. /\ SubSeq(q, 1, k - 1) \in Seq(S)
        /\ SubSeq(q, k + 1, Len(q)) \in Seq(S)
        /\ Len(SubSeq(q, 1, k - 1)) = k - 1
        /\ Len(SubSeq(q, k + 1, Len(q))) = Len(q) - k
        /\ \A i \in 1 .. k - 1 : SubSeq(q, 1, k - 1)[i] = q[i]
        /\ \A i \in 1 .. Len(q) - k : SubSeq(q, k + 1, Len(q))[i] = q[k + i]
    <2>1. \A i \in 1 .. k - 1 : q[i] \in S
      BY <1>1
    <2>2. \A i \in k + 1 .. Len(q) : q[i] \in S
      BY <1>1
    <2>3. /\ SubSeq(q, 1, k - 1) \in Seq(S)
          /\ Len(SubSeq(q, 1, k - 1)) = IF 1 <= k - 1 THEN (k - 1) - 1 + 1 ELSE 0
          /\ \A i \in 1 .. (k - 1) - 1 + 1 : SubSeq(q, 1, k - 1)[i] = q[1 + i - 1]
      BY <1>1, <2>1
    <2>4. /\ SubSeq(q, k + 1, Len(q)) \in Seq(S)
          /\ Len(SubSeq(q, k + 1, Len(q))) = IF k + 1 <= Len(q) THEN Len(q) - (k + 1) + 1 ELSE 0
          /\ \A i \in 1 .. Len(q) - (k + 1) + 1 :
               SubSeq(q, k + 1, Len(q))[i] = q[(k + 1) + i - 1]
      BY <1>1, <2>2
    <2>5. /\ Len(SubSeq(q, 1, k - 1)) = k - 1
          /\ \A i \in 1 .. k - 1 : SubSeq(q, 1, k - 1)[i] = q[i]
      BY <1>1, <2>3
    <2>6. /\ Len(SubSeq(q, k + 1, Len(q))) = Len(q) - k
          /\ \A i \in 1 .. Len(q) - k : SubSeq(q, k + 1, Len(q))[i] = q[k + i]
      <3> DEFINE t == SubSeq(q, k + 1, Len(q))
      <3> HIDE DEF t
      <3>1. Len(q) - (k + 1) + 1 = Len(q) - k /\ \A i \in 1 .. Len(q) - k : (k + 1) + i - 1 = k + i
        BY <1>1
      <3>2. Len(t) = Len(q) - k
        <4>1. Len(t) = IF k + 1 <= Len(q) THEN Len(q) - (k + 1) + 1 ELSE 0
          BY <2>4, ZenonT(60) DEF t
        <4>2. CASE k = Len(q)
          <5>1. ~(k + 1 <= Len(q)) /\ Len(q) - k = 0
            BY <1>1, <4>2
          <5>2. QED
            BY <4>1, <5>1, ZenonT(60)
        <4>3. CASE k # Len(q)
          <5>1. k + 1 <= Len(q)
            BY <4>3
          <5>2. QED
            BY <3>1, <4>1, <5>1, ZenonT(60)
        <4>4. QED
          BY <4>2, <4>3
      <3>3. \A i \in 1 .. Len(q) - k : t[i] = q[k + i]
        BY <2>4, <3>1, ZenonT(60) DEF t
      <3>4. QED
        BY <3>2, <3>3, ZenonT(60) DEF t
    <2>7. QED
      BY <2>3, <2>4, <2>5, <2>6, ZenonT(60)
  <1>3. /\ r \in Seq(S)
        /\ DOMAIN r = 1 .. Len(q) - 1
        /\ \A i \in 1 .. Len(q) - 1 : r[i] = IF i < k THEN q[i] ELSE q[i + 1]
    <2> DEFINE s == SubSeq(q, 1, k - 1)
               t == SubSeq(q, k + 1, Len(q))
    <2> HIDE DEF s, t
    <2>1. r = s \o t
      BY DEF s, t
    <2>2. /\ s \in Seq(S) /\ t \in Seq(S) /\ Len(s) = k - 1 /\ Len(t) = Len(q) - k
          /\ \A i \in 1 .. k - 1 : s[i] = q[i]
          /\ \A i \in 1 .. Len(q) - k : t[i] = q[k + i]
      BY <1>2 DEF s, t
    <2>3. /\ s \o t \in Seq(S)
          /\ Len(s \o t) = Len(q) - 1
          /\ \A i \in 1 .. Len(q) - 1 :
               (s \o t)[i] = IF i <= k - 1 THEN s[i] ELSE t[i - (k - 1)]
      <3>1. /\ s \o t \in Seq(S)
            /\ Len(s \o t) = Len(s) + Len(t)
            /\ \A i \in 1 .. Len(s) + Len(t) :
                 (s \o t)[i] = IF i <= Len(s) THEN s[i] ELSE t[i - Len(s)]
        BY <2>2, JoinedSequences, ZenonT(60)
      <3>2. Len(s) + Len(t) = Len(q) - 1
        BY <1>1, <2>2
      <3>3. QED
        BY <2>2, <3>1, <3>2, ZenonT(60)
    <2>4. ASSUME NEW i \in 1 .. Len(q) - 1
          PROVE  (s \o t)[i] = IF i < k THEN q[i] ELSE q[i + 1]
      <3>1. CASE i < k
        BY <1>1, <2>2, <2>3, <3>1
      <3>2. CASE ~(i < k)
        <4>1. i - (k - 1) \in 1 .. Len(q) - k /\ k + (i - (k - 1)) = i + 1
          BY <1>1, <3>2
        <4>2. QED
          BY <1>1, <2>2, <2>3, <3>2, <4>1
      <3>3. QED
        BY <3>1, <3>2, ZenonT(60)
    <2>5. DOMAIN (s \o t) = 1 .. Len(q) - 1
      BY <2>3
    <2>6. QED
      BY <2>1, <2>3, <2>4, <2>5, ZenonT(60)
  <1> HIDE DEF r
  <1>4. ASSUME IsInjective(q)
        PROVE  IsInjective(r)
    <2>1. SUFFICES ASSUME NEW i \in 1 .. Len(q) - 1, NEW j \in 1 .. Len(q) - 1, r[i] = r[j]
                   PROVE  i = j
      BY <1>3 DEF IsInjective
    <2> DEFINE From(n) == IF n < k THEN n ELSE n + 1
    <2>2. /\ From(i) \in 1 .. Len(q) /\ r[i] = q[From(i)]
          /\ From(j) \in 1 .. Len(q) /\ r[j] = q[From(j)]
      BY <1>1, <1>3
    <2> HIDE DEF From
    <2>3. From(i) = From(j)
      BY <1>1, <1>4, <2>1, <2>2, ZenonT(60) DEF IsInjective
    <2>4. QED
      BY <1>1, <2>3 DEF From
  <1>5. ASSUME IsInjective(q)
        PROVE  Range(r) = Range(q) \ {e}
    <2>1. \A i \in 1 .. Len(q) - 1 : r[i] \in Range(q) \ {e}
      <3>1. SUFFICES ASSUME NEW i \in 1 .. Len(q) - 1
                     PROVE  r[i] \in Range(q) \ {e}
        OBVIOUS
      <3>2. PICK j \in 1 .. Len(q) : r[i] = q[j] /\ j # k
        BY <1>1, <1>3
      <3>3. q[j] # e
        BY <1>1, <1>5, <3>2 DEF IsInjective
      <3>4. QED
        BY <1>1, <3>2, <3>3 DEF Range
    <2>2. ASSUME NEW i \in 1 .. Len(q), q[i] # e
          PROVE  q[i] \in Range(r)
      <3>1. CASE i < k
        <4>1. i \in DOMAIN r /\ r[i] = q[i]
          BY <1>1, <1>3, <3>1
        <4>2. QED
          BY <4>1 DEF Range
      <3>2. CASE i > k
        <4>1. i - 1 \in DOMAIN r /\ r[i - 1] = q[i]
          BY <1>1, <1>3, <3>2
        <4>2. QED
          BY <4>1 DEF Range
      <3>3. QED
        BY <1>1, <2>2, <3>1, <3>2
    <2>3. QED
      BY <1>1, <1>3, <2>1, <2>2 DEF Range
  <1>6. QED
    BY <1>3, <1>4, <1>5, ZenonT(60) DEF r

(* ArrayList::remove() takes out the first element that is equal, if there  *)
(* is one, and nothing else.                                                *)
LEMMA RemoveFirstElement ==
  ASSUME NEW S, NEW q \in Seq(S), NEW e, NEW r,
         r = LET places == {i \in 1 .. Len(q) : q[i] = e}
                 k == Min(places)
             IN  IF places = {} THEN q ELSE SubSeq(q, 1, k - 1) \o SubSeq(q, k + 1, Len(q))
  PROVE  /\ r \in Seq(S)
         /\ IsInjective(q) => /\ IsInjective(r)
                              /\ Range(r) = Range(q) \ {e}
  <1> DEFINE I == {i \in 1 .. Len(q) : q[i] = e}
             k == Min(I)
  <1>1. CASE I # {}
    <2>1. I \in SUBSET Nat
      OBVIOUS
    <2>2. k \in I
      BY <1>1, <2>1, LeastNatural, ZenonT(60) DEF Min
    <2>3. r = SubSeq(q, 1, k - 1) \o SubSeq(q, k + 1, Len(q))
      BY <1>1, ZenonT(60)
    <2>4. k \in 1 .. Len(q) /\ q[k] = e
      BY <2>2
    <2> DEFINE w == SubSeq(q, 1, k - 1) \o SubSeq(q, k + 1, Len(q))
    <2> HIDE DEF k, I
    <2>5. /\ w \in Seq(S)
          /\ IsInjective(q) => IsInjective(w) /\ Range(w) = Range(q) \ {q[k]}
      BY <2>4, RemoveAtElement
    <2>6. r = w
      BY <2>3, ZenonT(60)
    <2> HIDE DEF w
    <2>7. QED
      BY <2>4, <2>5, <2>6, ZenonT(60)
  <1>2. CASE I = {}
    <2>1. r = q
      BY <1>2, ZenonT(60)
    <2>2. e \notin Range(q)
      <3>1. e \in Range(q) <=> \E i \in 1 .. Len(q) : q[i] = e
        BY Elements
      <3>2. QED
        BY <1>2, <3>1
    <2>3. Range(q) \ {e} = Range(q)
      BY <2>2
    <2>4. QED
      BY <2>1, <2>3, ZenonT(60)
  <1>3. QED
    BY <1>1, <1>2, ZenonT(60)

(* One queue behind another.                                                *)
LEMMA JoinElements ==
  ASSUME NEW S, NEW q \in Seq(S), NEW r \in Seq(S)
  PROVE  /\ Range(q \o r) = Range(q) \cup Range(r)
         /\ IsInjective(q) /\ IsInjective(r) /\ Range(q) \cap Range(r) = {}
              => IsInjective(q \o r)
  <1>1. /\ q \o r \in Seq(S)
        /\ Len(q) \in Nat /\ Len(r) \in Nat
        /\ DOMAIN q = 1 .. Len(q) /\ DOMAIN r = 1 .. Len(r)
        /\ DOMAIN (q \o r) = 1 .. Len(q) + Len(r)
        /\ \A i \in 1 .. Len(q) + Len(r) :
             (q \o r)[i] = IF i <= Len(q) THEN q[i] ELSE r[i - Len(q)]
    OBVIOUS
  <1>2. ASSUME NEW e
        PROVE  e \in Range(q \o r) <=> e \in Range(q) \cup Range(r)
    <2>1. e \in Range(q \o r) => e \in Range(q) \cup Range(r)
      BY <1>1 DEF Range
    <2>2. e \in Range(q) => e \in Range(q \o r)
      BY <1>1 DEF Range
    <2>3. ASSUME NEW j \in 1 .. Len(r)
          PROVE  r[j] \in Range(q \o r)
      <3>1. Len(q) + j \in 1 .. Len(q) + Len(r) /\ (q \o r)[Len(q) + j] = r[j]
        BY <1>1
      <3>2. QED
        BY ZenonT(60), <1>1, <3>1 DEF Range
    <2>4. e \in Range(r) => e \in Range(q \o r)
      BY ZenonT(60), <1>1, <2>3 DEF Range
    <2>5. QED
      BY <2>1, <2>2, <2>4
  <1>3. ASSUME IsInjective(q), IsInjective(r), Range(q) \cap Range(r) = {},
               NEW i \in 1 .. Len(q) + Len(r), NEW j \in 1 .. Len(q) + Len(r),
               (q \o r)[i] = (q \o r)[j]
        PROVE  i = j
    <2>1. /\ \A k \in 1 .. Len(q) : q[k] \in Range(q)
          /\ \A k \in 1 .. Len(r) : r[k] \in Range(r)
      BY <1>1 DEF Range
    <2>2. CASE i <= Len(q) /\ j <= Len(q)
      BY <1>1, <1>3, <2>2 DEF IsInjective
    <2>3. CASE i > Len(q) /\ j > Len(q)
      <3>1. i - Len(q) \in 1 .. Len(r) /\ j - Len(q) \in 1 .. Len(r)
        BY <1>1, <2>3
      <3>2. r[i - Len(q)] = r[j - Len(q)]
        BY <1>1, <1>3, <2>3
      <3>3. i - Len(q) = j - Len(q)
        BY <1>1, <1>3, <3>1, <3>2 DEF IsInjective
      <3>4. QED
        BY <1>1, <3>3
    <2>4. CASE (i <= Len(q)) # (j <= Len(q))
      <3>1. \/ (q \o r)[i] \in Range(q) /\ (q \o r)[j] \in Range(r)
            \/ (q \o r)[i] \in Range(r) /\ (q \o r)[j] \in Range(q)
        BY <1>1, <2>1, <2>4
      <3>2. QED
        BY <1>3, <3>1
    <2>5. QED
      BY <1>1, <2>2, <2>3, <2>4
  <1>4. QED
    BY <1>1, <1>2, <1>3 DEF IsInjective
=============================================================================
