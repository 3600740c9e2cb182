--------------------------- MODULE SequenceLemmas ---------------------------
(***************************************************************************)
(* Induction on numbers and recursive functions, for the proofs about      *)
(* definitions that loop over a sequence.  An induction is on the set of   *)
(* the numbers for which a fact holds, so that no theorem needs an         *)
(* operator as a parameter.                                                *)
(***************************************************************************)
EXTENDS Integers, Sequences, SequencesExt, WellFoundedInduction, SequenceTheorems,
        TLAPS

(* A set of numbers that is not empty has a least element.                 *)
LEMMA Least ==
  ASSUME NEW S \in SUBSET Nat, S # {}
  PROVE  \E m \in S : \A k \in S : m <= k
<1> DEFINE R == OpToRel(<, Nat)
<1>1. IsWellFoundedOn(R, Nat)
  BY NatLessThanWellFounded
<1>2. \A x, y \in Nat : <<x, y>> \in R <=> x < y
  BY DEF OpToRel
<1> HIDE DEF R
<1>3. PICK m \in S : \A y \in S : ~(<<y, m>> \in R)
  BY <1>1, WFMin
<1>4. ASSUME NEW k \in S
      PROVE  m <= k
  <2>1. k \in Nat /\ m \in Nat
    OBVIOUS
  <2>2. ~(k < m)
    BY <1>2, <1>3, <2>1
  <2> QED
    BY <2>1, <2>2
<1> QED
  BY <1>4

(* A set that holds 0, and with a number the next one, holds them all.     *)
LEMMA SetInduction ==
  ASSUME NEW S, 0 \in S, \A n \in Nat : n \in S => n + 1 \in S
  PROVE  Nat \subseteq S
<1> SUFFICES ASSUME Nat \ S # {}
             PROVE  FALSE
  OBVIOUS
<1>1. PICK m \in Nat \ S : \A k \in Nat \ S : m <= k
  BY Least
<1>2. m # 0 /\ m - 1 \in Nat
  BY <1>1
<1>3. m - 1 \in S
  BY <1>1, <1>2
<1> QED
  BY <1>1, <1>2, <1>3

(* f takes the steps that g takes.                                         *)
Follows(f, g, n) ==
  /\ f[0] = g[0]
  /\ \A i \in 1..n : f[i - 1] = g[i - 1] => f[i] = g[i]

(* Two functions that start alike and take the same steps are the same.    *)
LEMMA SameSteps ==
  ASSUME NEW n \in Nat, NEW f, NEW g, Follows(f, g, n)
  PROVE  \A i \in 0..n : f[i] = g[i]
<1> DEFINE S == {i \in Nat : i <= n => f[i] = g[i]}
<1>1. 0 \in S
  BY DEF Follows
<1>2. ASSUME NEW i \in Nat, i \in S
      PROVE  i + 1 \in S
  <2> SUFFICES ASSUME i + 1 <= n
               PROVE  f[i + 1] = g[i + 1]
    OBVIOUS
  <2>1. f[i] = g[i]
    BY <1>2
  <2>2. i + 1 \in 1..n /\ (i + 1) - 1 = i
    OBVIOUS
  <2> QED
    BY <2>1, <2>2 DEF Follows
<1> HIDE DEF S
<1>3. Nat \subseteq S
  BY <1>1, <1>2, SetInduction
<1> QED
  BY <1>3 DEF S

-----------------------------------------------------------------------------
(* g[i] is what i steps make of c, the i-th being F[i].                     *)
Iterates(g, V, c, n, F) ==
  /\ g \in [0..n -> V]
  /\ g[0] = c
  /\ \A i \in 1..n : g[i] = F[i][g[i - 1]]

(* A function can be defined by recursion on a number: what CHOOSE picks   *)
(* for a recursive definition exists.                                      *)
LEMMA Recursion ==
  ASSUME NEW V, NEW c \in V, NEW n \in Nat, NEW F \in [1..n -> [V -> V]]
  PROVE  \E g : Iterates(g, V, c, n, F)
<1> DEFINE G(m) == {g \in [0..m -> V] : g[0] = c /\ \A i \in 1..m : g[i] = F[i][g[i-1]]}
           S == {m \in Nat : m <= n => G(m) # {}}
<1>1. 0 \in S
  <2>1. [i \in 0..0 |-> c] \in G(0)
    OBVIOUS
  <2> QED
    BY <2>1
<1>2. ASSUME NEW m \in Nat, m \in S
      PROVE  m + 1 \in S
  <2> SUFFICES ASSUME m + 1 <= n
               PROVE  G(m+1) # {}
    OBVIOUS
  <2>1. PICK g \in G(m) : TRUE
    BY <1>2
  <2> DEFINE h == [i \in 0..(m+1) |-> IF i = m + 1 THEN F[m+1][g[m]] ELSE g[i]]
  <2>2. h \in [0..(m+1) -> V]
    BY <2>1
  <2>3. h[0] = c
    BY <2>1
  <2>4. ASSUME NEW i \in 1..(m+1)
        PROVE  h[i] = F[i][h[i-1]]
    <3>1. CASE i = m + 1
      <4>1. h[m] = g[m] /\ h[i] = F[m+1][g[m]]
        BY <3>1
      <4>2. i - 1 = m
        BY <3>1
      <4> HIDE DEF h
      <4> QED
        BY <3>1, <4>1, <4>2
    <3>2. CASE i # m + 1
      <4>1. i \in 1..m /\ i - 1 \in 0..(m+1) /\ i - 1 # m + 1
        BY <3>2
      <4>2. h[i] = g[i] /\ h[i-1] = g[i-1]
        BY <4>1
      <4>3. g[i] = F[i][g[i-1]]
        BY <2>1, <4>1
      <4> QED
        BY <4>2, <4>3
    <3> QED
      BY <3>1, <3>2
  <2>5. h \in G(m+1)
    BY <2>2, <2>3, <2>4
  <2> QED
    BY <2>5
<1> HIDE DEF S
<1>3. n \in S
  BY <1>1, <1>2, SetInduction
<1> QED
  BY <1>3 DEF S, Iterates

-----------------------------------------------------------------------------
(* g[i] is the first i of the sequences ss, joined.                         *)
Joined(T, ss, g) ==
  /\ g \in [0..Len(ss) -> Seq(T)]
  /\ g[0] = <<>>
  /\ \A i \in 1..Len(ss) : g[i] = g[i - 1] \o ss[i]

(* FlattenSeq joins all of its sequences.                                  *)
LEMMA FlattenIsJoined ==
  ASSUME NEW T, NEW ss \in Seq(Seq(T)), NEW g, Joined(T, ss, g)
  PROVE  FlattenSeq(ss) = g[Len(ss)]
<1> DEFINE n == Len(ss)
<1>1. n \in Nat /\ \A i \in 1..n : ss[i] \in Seq(T)
  BY LenProperties, ElementOfSeq
<1>2. /\ g \in [0..n -> Seq(T)] /\ g[0] = <<>>
      /\ \A i \in 1..n : g[i] = g[i-1] \o ss[i]
  BY DEF Joined
<1>3. CASE n = 0
  <2>1. ss = <<>>
    BY <1>3, EmptySeq
  <2>2. FlattenSeq(ss) = ss
    BY <1>3 DEF FlattenSeq
  <2> QED BY <1>2, <1>3, <2>1, <2>2
<1>4. CASE n > 0
  <2> DEFINE Rec(f) == [i \in 1..n |-> IF i = 1 THEN ss[i] ELSE f[i-1] \o ss[i]]
             f0 == CHOOSE f : f = Rec(f)
  <2>1. ASSUME NEW i \in 1..n
        PROVE g[i] = IF i = 1 THEN ss[i] ELSE g[i-1] \o ss[i]
    <3>1. <<>> \o ss[i] = ss[i]
      BY <1>1, ConcatEmptySeq
    <3>2. g[i] = g[i-1] \o ss[i]
      BY <1>2
    <3>3. i = 1 => g[i-1] = <<>>
      BY <1>2
    <3> QED
      BY <3>1, <3>2, <3>3
  <2>2. [i \in 1..n |-> g[i]] = Rec([i \in 1..n |-> g[i]])
    BY <2>1, <1>1
  <2>3. f0 = Rec(f0)
    BY <2>2
  <2>4. FlattenSeq(ss) = f0[n]
    BY <1>4, <1>1 DEF FlattenSeq
  <2> HIDE DEF f0
  <2>5. \A i \in 1..n : f0[i] = IF i = 1 THEN ss[i] ELSE f0[i-1] \o ss[i]
    BY <2>3
  <2> DEFINE S == {i \in Nat : i + 1 \in 1..n => f0[i+1] = g[i+1]}
  <2>6. 0 \in S
    BY <1>1, <2>1, <2>5, <1>4
  <2>7. ASSUME NEW i \in Nat, i \in S PROVE i + 1 \in S
    <3> SUFFICES ASSUME i + 2 \in 1..n PROVE f0[i+2] = g[i+2]
      OBVIOUS
    <3>1. f0[i+1] = g[i+1]
      BY <1>1, <2>7
    <3>2. i + 2 # 1 /\ i + 2 - 1 = i + 1
      OBVIOUS
    <3> HIDE DEF n, Rec
    <3> QED
      BY <2>1, <2>5, <3>1, <3>2
  <2> HIDE DEF S
  <2>8. n - 1 \in S
    <3>1. n - 1 \in Nat
      BY <1>4, <1>1
    <3> QED BY <2>6, <2>7, SetInduction, <3>1
  <2>9. f0[n] = g[n]
    BY <2>8, <1>1, <1>4 DEF S
  <2> QED
   BY <2>9, <2>4
<1> QED
  BY <1>3, <1>4, <1>1

(* Sequences can be joined one by one.                                     *)
LEMMA JoinedExists ==
  ASSUME NEW T, NEW ss \in Seq(Seq(T))
  PROVE  \E g : Joined(T, ss, g)
<1> DEFINE n == Len(ss)
           V == Seq(T)
<1>1. n \in Nat /\ <<>> \in V /\ \A i \in 1..n : ss[i] \in V
  BY LenProperties, ElementOfSeq, EmptySeq
<1>2. PICK F \in [1..n -> [V -> V]] : \A s \in V, i \in 1..n : F[i][s] = s \o ss[i]
  <2> DEFINE G == [i \in 1..n |-> [s \in V |-> s \o ss[i]]]
  <2>1. G \in [1..n -> [V -> V]]
    BY <1>1, ConcatProperties
  <2>2. \A s \in V, i \in 1..n : G[i][s] = s \o ss[i]
    OBVIOUS
  <2> HIDE DEF G
  <2> QED
    BY <2>1, <2>2
<1> HIDE DEF n, V
<1>3. PICK g : Iterates(g, V, <<>>, n, F)
  BY <1>1, <1>2, Recursion
<1>4. ASSUME NEW i \in 1..n
      PROVE  g[i] = g[i-1] \o ss[i]
  <2>1. g[i-1] \in V
    BY <1>1, <1>3 DEF Iterates
  <2> QED
    BY <2>1, <1>2, <1>3 DEF Iterates
<1>5. Joined(T, ss, g)
  BY <1>3, <1>4 DEF Joined, Iterates, n, V
<1> QED
  BY <1>5

-----------------------------------------------------------------------------
(* A sequence of one element.                                              *)
LEMMA OneElement ==
  ASSUME NEW T, NEW c \in T
  PROVE  <<c>> \in Seq(T)
OBVIOUS

(* A sequence of two elements.                                             *)
LEMMA TwoElements ==
  ASSUME NEW T, NEW c \in T, NEW d \in T
  PROVE  <<c, d>> \in Seq(T)
OBVIOUS

(* A text behind which two others are written, one by one or joined.       *)
LEMMA ThreePieces ==
  ASSUME NEW T, NEW r \in Seq(T), NEW s \in Seq(T), NEW t \in Seq(T),
         NEW u, u = s \o t
  PROVE  /\ (r \o s) \o t = r \o u
         /\ Len(r \o s) + Len(t) = Len(r) + Len(u)
         /\ Len(r) + Len(u) \in Nat
<1>1. Len(r \o s) = Len(r) + Len(s) /\ Len(u) = Len(s) + Len(t)
  BY ConcatProperties
<1>2. Len(r) \in Nat /\ Len(s) \in Nat /\ Len(t) \in Nat
  BY LenProperties
<1>3. (r \o s) \o t = r \o u
  BY ConcatAssociative
<1> QED
  BY <1>1, <1>2, <1>3

(* t is s and what follows.                                                *)
Continues(T, s, t) == \E r \in Seq(T) : t = s \o r

(* What is joined later comes behind what was joined before.               *)
LEMMA JoinedGrows ==
  ASSUME NEW T, NEW ss \in Seq(Seq(T)), NEW g, Joined(T, ss, g),
         NEW j \in Nat, NEW k \in Nat, j <= k, k <= Len(ss)
  PROVE  /\ Continues(T, g[j], g[k])
         /\ Len(g[j]) <= Len(g[k])
         /\ Len(g[j]) \in Nat /\ Len(g[k]) \in Nat
<1> DEFINE n == Len(ss)
<1>1. n \in Nat /\ \A i \in 1..n : ss[i] \in Seq(T)
  BY LenProperties, ElementOfSeq
<1>2. /\ g \in [0..n -> Seq(T)]
      /\ \A i \in 1..n : g[i] = g[i - 1] \o ss[i]
  BY DEF Joined
<1>3. k <= n
  OBVIOUS
<1> HIDE DEF n
<1> DEFINE S == {i \in Nat : j + i <= n => \E r \in Seq(T) : g[j + i] = g[j] \o r}
<1>4. \A i \in Nat : i <= n => g[i] \in Seq(T)
  BY <1>1, <1>2
<1>5. 0 \in S
  <2>1. j + 0 = j /\ g[j] \o <<>> = g[j] /\ <<>> \in Seq(T)
    BY <1>1, <1>3, <1>4, ConcatEmptySeq, EmptySeq
  <2> QED
    BY <2>1
<1>6. ASSUME NEW i \in Nat, i \in S
      PROVE  i + 1 \in S
  <2> SUFFICES ASSUME j + (i + 1) <= n
               PROVE  \E r \in Seq(T) : g[j + (i + 1)] = g[j] \o r
    OBVIOUS
  <2>1. j + i <= n /\ j + (i + 1) \in 1..n /\ (j + (i + 1)) - 1 = j + i /\ j <= n
    BY <1>1
  <2>2. PICK r \in Seq(T) : g[j + i] = g[j] \o r
    BY <1>6, <2>1
  <2> DEFINE s == g[j]
             t == ss[j + (i + 1)]
             u == r \o t
  <2>3. g[j + (i + 1)] = (s \o r) \o t
    BY <1>2, <2>1, <2>2
  <2>4. s \in Seq(T) /\ t \in Seq(T) /\ u \in Seq(T) /\ u = r \o t
    BY <1>1, <1>4, <2>1, ConcatProperties
  <2> HIDE DEF s, t, u
  <2>5. (s \o r) \o t = s \o u
    BY <2>4, ConcatAssociative
  <2> USE DEF s
  <2> QED
    BY <2>3, <2>4, <2>5
<1> HIDE DEF S
<1>7. Nat \subseteq S
  BY <1>5, <1>6, SetInduction
<1>8. k - j \in S /\ j + (k - j) = k
  BY <1>7
<1>9. PICK r \in Seq(T) : g[k] = g[j] \o r
  BY <1>3, <1>8 DEF S
<1> DEFINE s == g[j]
           t == g[k]
<1>10. s \in Seq(T) /\ t \in Seq(T) /\ t = s \o r
  <2>1. j <= n
    BY <1>1, <1>3
  <2> QED
    BY <1>3, <1>4, <1>9, <2>1
<1> HIDE DEF s, t
<1>11. Len(t) = Len(s) + Len(r) /\ Len(s) \in Nat /\ Len(r) \in Nat
  BY <1>10, ConcatProperties, LenProperties
<1>12. Len(s) <= Len(t) /\ Len(s) \in Nat /\ Len(t) \in Nat
  BY <1>11
<1> QED
  BY <1>9, <1>12 DEF s, t, Continues

(* A sequence is a prefix of itself and what follows.                      *)
LEMMA PrefixOfConcat ==
  ASSUME NEW T, NEW s \in Seq(T), NEW r \in Seq(T)
  PROVE  IsPrefix(s, s \o r)
<1> DEFINE t == s \o r
           n == Len(s)
<1>1. t \in Seq(T) /\ Len(t) = n + Len(r) /\ \A i \in 1..n : t[i] = s[i]
  BY ConcatProperties
<1>2. n \in Nat /\ Len(r) \in Nat
  BY LenProperties
<1> HIDE DEF t
<1>3. SubSeq(s, 1, n) = s
  BY SubSeqFull
<1>4. SubSeq(t, 1, n) = s
  <2>1. \A i \in 1..n : t[i] \in T
    BY <1>1, ElementOfSeq
  <2>2. /\ SubSeq(t, 1, n) \in Seq(T) /\ Len(SubSeq(t, 1, n)) = n
        /\ \A i \in 1..n : SubSeq(t, 1, n)[i] = t[i]
    BY <1>2, <2>1, SubSeqProperties
  <2> QED
    BY <1>1, <2>2, SeqEqual
<1>5. n <= Len(t)
  BY <1>1, <1>2
<1> QED
  BY <1>3, <1>4, <1>5 DEF IsPrefix, t, n

(* One sequence, joined.                                                   *)
LEMMA FlattenOne ==
  ASSUME NEW T, NEW s \in Seq(T)
  PROVE  FlattenSeq(<<s>>) = s
<1> DEFINE ss == <<s>>
           g == [i \in 0..1 |-> IF i = 0 THEN <<>> ELSE s]
<1>1. ss \in Seq(Seq(T)) /\ Len(ss) = 1 /\ ss[1] = s
  BY OneElement
<1>2. g \in [0..1 -> Seq(T)] /\ g[0] = <<>> /\ g[1] = s
  BY EmptySeq
<1> HIDE DEF ss, g
<1>3. ASSUME NEW i \in 1..1
      PROVE  g[i] = g[i - 1] \o ss[i]
  <2>1. i = 1 /\ i - 1 = 0 /\ <<>> \o s = s
    BY ConcatEmptySeq
  <2> QED
    BY <1>1, <1>2, <2>1
<1>4. Joined(T, ss, g)
  BY <1>1, <1>2, <1>3 DEF Joined
<1>5. FlattenSeq(ss) = g[1]
  BY <1>1, <1>4, FlattenIsJoined
<1> QED
  BY <1>2, <1>5 DEF ss

(* What is joined in two parts is the parts, joined.                       *)
LEMMA FlattenConcat ==
  ASSUME NEW T, NEW a \in Seq(Seq(T)), NEW b \in Seq(Seq(T))
  PROVE  /\ FlattenSeq(a \o b) = FlattenSeq(a) \o FlattenSeq(b)
         /\ FlattenSeq(a) \in Seq(T) /\ FlattenSeq(b) \in Seq(T)
<1> DEFINE m == Len(a)
           n == Len(b)
           c == a \o b
<1>1. m \in Nat /\ n \in Nat /\ c \in Seq(Seq(T)) /\ Len(c) = m + n
  BY LenProperties, ConcatProperties
<1>2. /\ \A i \in 1..m : c[i] = a[i]
      /\ \A i \in 1..n : c[m + i] = b[i]
  BY <1>1, ConcatProperties
<1>3. PICK g : Joined(T, a, g)
  BY JoinedExists
<1>4. PICK h : Joined(T, b, h)
  BY JoinedExists
<1>5. FlattenSeq(a) = g[m] /\ FlattenSeq(b) = h[n]
  BY <1>3, <1>4, FlattenIsJoined
<1>6. /\ g \in [0..m -> Seq(T)] /\ g[0] = <<>>
      /\ \A i \in 1..m : g[i] = g[i - 1] \o a[i]
  BY <1>3 DEF Joined
<1>7. /\ h \in [0..n -> Seq(T)] /\ h[0] = <<>>
      /\ \A i \in 1..n : h[i] = h[i - 1] \o b[i]
  BY <1>4 DEF Joined
<1>8. \A i \in 1..n : b[i] \in Seq(T)
  BY ElementOfSeq
<1> HIDE DEF m, n, c
<1> DEFINE f == [i \in 0 .. m + n |-> IF i <= m THEN g[i] ELSE g[m] \o h[i - m]]
<1>9. g[m] \in Seq(T) /\ h[n] \in Seq(T) /\ g[m] \o <<>> = g[m]
  BY <1>1, <1>6, <1>7, ConcatEmptySeq
<1>10. ASSUME NEW i \in 0 .. m + n
       PROVE  f[i] \in Seq(T)
  <2>1. CASE i <= m
    BY <1>1, <1>6, <2>1
  <2>2. CASE ~(i <= m)
    <3>1. i - m \in 0..n
      BY <1>1, <2>2
    <3> QED
      BY <1>7, <1>9, <2>2, <3>1, ConcatProperties
  <2> QED
    BY <2>1, <2>2
<1> DEFINE Associates(r, s, t) == (r \o s) \o t = r \o (s \o t)
<1>11. \A r, s, t \in Seq(T) : Associates(r, s, t)
  BY ConcatAssociative, SMTT(20)
<1> HIDE DEF Associates
<1>12. ASSUME NEW i \in 1 .. m + n
       PROVE  f[i] = f[i - 1] \o c[i]
  <2>1. i \in 0 .. m + n /\ i - 1 \in 0 .. m + n
    BY <1>1
  <2>2. CASE i <= m
    <3>1. i \in 1..m /\ i - 1 <= m
      BY <1>1, <2>2
    <3>2. f[i] = g[i] /\ f[i - 1] = g[i - 1]
      BY <2>1, <3>1
    <3> HIDE DEF f
    <3> QED
      BY <1>2, <1>6, <3>1, <3>2
  <2>3. CASE ~(i <= m)
    <3> DEFINE j == i - m
    <3>1. j \in 1..n /\ i = m + j /\ j - 1 \in 0..n
      BY <1>1, <2>3
    <3>2. f[i] = g[m] \o h[j]
      BY <2>1, <2>3
    <3>3. f[i - 1] = g[m] \o h[j - 1]
      <4>1. CASE j = 1
        <5>1. i - 1 = m /\ j - 1 = 0
          BY <1>1, <3>1, <4>1
        <5>2. m <= m
          BY <1>1
        <5>3. f[i - 1] = g[m]
          BY <2>1, <5>1, <5>2
        <5> HIDE DEF f, j
        <5> QED
          BY <1>7, <1>9, <5>1, <5>3
      <4>2. CASE j # 1
        <5>1. ~(i - 1 <= m) /\ (i - 1) - m = j - 1
          BY <1>1, <3>1, <4>2
        <5>2. f[i - 1] = g[m] \o h[(i - 1) - m]
          BY <2>1, <5>1
        <5> HIDE DEF f, j
        <5> QED
          BY <5>1, <5>2
      <4> QED
        BY <4>1, <4>2
    <3> HIDE DEF f, j
    <3>4. PICK r \in Seq(T), s \in Seq(T), t \in Seq(T), u \in Seq(T) :
             r = g[m] /\ s = h[j - 1] /\ t = b[j] /\ u = h[j] /\ u = s \o t
      <4>1. g[m] \in Seq(T) /\ h[j - 1] \in Seq(T) /\ b[j] \in Seq(T) /\ h[j] \in Seq(T)
        <5>1. j \in 0..n /\ j - 1 \in 0..n /\ j \in 1..n
          BY <1>1, <3>1
        <5> QED
          BY <1>7, <1>8, <1>9, <5>1
      <4>2. h[j] = h[j - 1] \o b[j]
        BY <1>7, <3>1
      <4> QED
        BY <4>1, <4>2, Zenon
    <3>5. c[i] = t
      BY <1>2, <3>1, <3>4
    <3>6. f[i] = r \o u /\ f[i - 1] = r \o s
      BY <3>2, <3>3, <3>4
    <3>7. (r \o s) \o t = r \o u
      <4>1. (r \o s) \o t = r \o (s \o t)
        BY <1>11 DEF Associates
      <4> QED
        BY <3>4, <4>1
    <3> QED
      BY <3>5, <3>6, <3>7
  <2> QED
    BY <2>2, <2>3
<1>13. f[0] = <<>>
  <2>1. 0 \in 0 .. m + n /\ 0 <= m
    BY <1>1
  <2> QED
    BY <1>6, <2>1
<1>14. f[m + n] = g[m] \o h[n]
  <2>1. m + n \in 0 .. m + n
    BY <1>1
  <2>2. CASE n = 0
    <3>1. m + n = m /\ m <= m
      BY <1>1, <2>2
    <3>2. f[m + n] = g[m]
      BY <2>1, <3>1
    <3> HIDE DEF f
    <3> QED
      BY <1>7, <1>9, <2>2, <3>2
  <2>3. CASE n # 0
    <3>1. ~(m + n <= m) /\ (m + n) - m = n
      BY <1>1, <2>3
    <3> QED
      BY <2>1, <3>1
  <2> QED
    BY <2>2, <2>3
<1>15. f \in [0 .. m + n -> Seq(T)]
  BY <1>10
<1> HIDE DEF f
<1>16. Joined(T, c, f)
  BY <1>1, <1>12, <1>13, <1>15 DEF Joined
<1>17. FlattenSeq(c) = f[m + n]
  BY <1>1, <1>16, FlattenIsJoined
<1> QED
  BY <1>5, <1>9, <1>14, <1>17 DEF c
=============================================================================
