-------------------------- MODULE InterpreterProofs --------------------------
(***************************************************************************)
(* Theorems about Interpreter, for every set of types and events that the  *)
(* macro accepts, every alignment of the target and any depth of nesting:  *)
(*                                                                         *)
(*   TypeCorrect      no jump leaves the bytecode, no call is too deep     *)
(*   ReadBack         an event that IsDecodable is read back exactly       *)
(*   PayloadConsumed  its payload is read to the last byte                 *)
(*   SameTexts        host and device print the same fields                *)
(*                                                                         *)
(* The invariant is Inv.  Of the stack, TypeInv says that every call is at *)
(* a point of the bytecode of a type, from which each instruction leads to *)
(* another one.  FollowInv says that the stack stands for a sequence of    *)
(* Frames (Trace): each call knows in front of which field it is and where *)
(* in the payload, what has been decoded so far, and that what it leaves   *)
(* when it returns is what its caller counts on.                           *)
(*                                                                         *)
(* The sections: arithmetic and sequences; what the compiler and the macro *)
(* lay out; values; bytecode, and where one can stand in it; TypeInv; where*)
(* the interpreter is in the payload, and that it is where the bytes are;  *)
(* frames and traces; the instructions one by one; the results.            *)
(***************************************************************************)
EXTENDS Interpreter, SequenceLemmas

-----------------------------------------------------------------------------
(* Numbers.                                                                *)

(* Rounding up to a multiple of a.                                         *)
LEMMA AlignUpIs ==
  ASSUME NEW x \in Nat, NEW a \in Nat \ {0}
  PROVE  /\ AlignUp(x, a) \in Nat
         /\ x <= AlignUp(x, a)
         /\ AlignUp(x, a) % a = 0
         /\ x % a = 0 => AlignUp(x, a) = x
         /\ a = 1 => AlignUp(x, a) = x
<1> DEFINE q == (x + a - 1) \div a
<1>1. q \in Nat /\ (x + a - 1) = a * q + ((x + a - 1) % a) /\ (x + a - 1) % a \in 0..(a-1)
  OBVIOUS
<1>2. q * a = a * q /\ q * a \in Nat
  BY <1>1
<1>3. x <= q * a /\ q * a < x + a
  BY <1>1, <1>2
<1>4. (q * a) % a = 0
  BY <1>1
<1>5. ASSUME x % a = 0
      PROVE  q * a = x
  <2> DEFINE p == x \div a
  <2>1. p \in Nat /\ x = a * p
    BY <1>5
  <2>2. a * p <= a * q /\ a * q < a * p + a
    BY <1>2, <1>3, <2>1
  <2>3. a * p + a = a * (p + 1)
    BY <2>1
  <2>4. p <= q
    BY <1>1, <2>1, <2>2
  <2>5. q < p + 1
    BY <1>1, <2>1, <2>2, <2>3
  <2> QED
    BY <1>1, <1>2, <2>1, <2>4, <2>5
<1>6. a = 1 => q * a = x
  BY <1>3
<1> QED
  BY <1>2, <1>3, <1>4, <1>5, <1>6 DEF AlignUp

(* Numbers that are one for each of n are bounded.                         *)
LEMMA Bounded ==
  ASSUME NEW n \in Nat, NEW f \in [1..n -> Nat]
  PROVE  \E b \in Nat : \A i \in 1..n : f[i] <= b
<1> DEFINE S == {m \in Nat : m <= n => \E b \in Nat : \A i \in 1..m : f[i] <= b}
<1>1. 0 \in S
  OBVIOUS
<1>2. ASSUME NEW m \in Nat, m \in S
      PROVE  m + 1 \in S
  <2> SUFFICES ASSUME m + 1 <= n
               PROVE  \E b \in Nat : \A i \in 1..(m + 1) : f[i] <= b
    OBVIOUS
  <2>1. PICK b \in Nat : \A i \in 1..m : f[i] <= b
    BY <1>2
  <2>2. b + f[m + 1] \in Nat /\ b <= b + f[m + 1] /\ f[m + 1] <= b + f[m + 1]
    OBVIOUS
  <2>3. ASSUME NEW i \in 1..(m + 1)
        PROVE  f[i] <= b + f[m + 1]
    <3>1. CASE i = m + 1
      BY <2>2, <3>1
    <3>2. CASE i \in 1..m
      BY <2>1, <3>2
    <3> QED
      BY <3>1, <3>2
  <2> QED
    BY <2>2, <2>3
<1> HIDE DEF S
<1>3. n \in S
  BY <1>1, <1>2, SetInduction
<1> QED
  BY <1>3 DEF S

(* The greatest of c and of a number for each of n.                        *)
LEMMA MaxIs ==
  ASSUME NEW c \in Nat, NEW n \in Nat, NEW f \in [1..n -> Nat],
         NEW S, S = {c} \cup {f[i] : i \in 1..n}
  PROVE  /\ Max(S) \in S
         /\ Max(S) \in Nat
         /\ c <= Max(S)
         /\ \A i \in 1..n : f[i] <= Max(S)
<1>1. PICK b \in Nat : \A i \in 1..n : f[i] <= b
  BY Bounded
<1>2. S \in SUBSET Nat /\ c \in S
  OBVIOUS
<1> DEFINE B == {d \in Nat : \A x \in S : x <= d}
<1>3. b + c \in B
  BY <1>1
<1> HIDE DEF B
<1>10. B \in SUBSET Nat /\ B # {}
  BY <1>3 DEF B
<1>4. PICK m \in B : \A d \in B : m <= d
  BY <1>10, Least
<1> USE DEF B
<1>5. m \in S
  <2> SUFFICES ASSUME m \notin S
               PROVE  FALSE
    OBVIOUS
  <2>1. \A x \in S : x <= m - 1
    BY <1>2, <1>4
  <2>2. m - 1 \in Nat
    BY <1>2, <2>1
  <2>3. m - 1 \in B
    BY <2>1, <2>2
  <2> QED
    BY <1>4, <2>3
<1>6. \E x \in S : \A y \in S : x >= y
  BY <1>2, <1>4, <1>5
<1>7. Max(S) \in S /\ \A y \in S : Max(S) >= y
  BY <1>6 DEF Max
<1>8. \A i \in 1..n : f[i] \in S
  OBVIOUS
<1> QED
  BY <1>2, <1>7, <1>8

(* What a sum is, given the sums of the first numbers.                     *)
Sums(g, ns) ==
  /\ g \in [0..Len(ns) -> Int]
  /\ g[0] = 0
  /\ \A i \in 1..Len(ns) : g[i] = g[i - 1] + ns[i]

(* A sum of the model is the last of its sums.                             *)
LEMMA SumIs ==
  ASSUME NEW ns \in Seq(Int), NEW g, Sums(g, ns)
  PROVE  SumOf(ns) = g[Len(ns)]
<1> DEFINE n == Len(ns)
           Rec(f) == [i \in 0..n |-> IF i = 0 THEN 0 ELSE f[i - 1] + ns[i]]
           f0 == CHOOSE f : f = Rec(f)
<1>1. n \in Nat
  OBVIOUS
<1>2. g = Rec(g)
  <2>1. ASSUME NEW i \in 0..n
        PROVE  g[i] = IF i = 0 THEN 0 ELSE g[i - 1] + ns[i]
    BY DEF Sums
  <2>2. Rec(g) = [i \in 0..n |-> g[i]]
    BY <2>1
  <2> QED
    BY <2>2 DEF Sums
<1>3. f0 = Rec(f0)
  BY <1>2
<1> HIDE DEF f0
<1>4. f0[0] = 0 /\ \A i \in 1..n : f0[i] = f0[i - 1] + ns[i]
  <2>1. ASSUME NEW i \in 0..n
        PROVE  f0[i] = IF i = 0 THEN 0 ELSE f0[i - 1] + ns[i]
    BY <1>3, Zenon
  <2> QED
    BY <1>1, <2>1
<1>5. Follows(f0, g, n)
  BY <1>4 DEF Follows, Sums
<1>6. f0[n] = g[n]
  BY <1>1, <1>5, SameSteps
<1>7. SumOf(ns) = f0[n]
  BY DEF SumOf, f0
<1> QED
  BY <1>6, <1>7

(* Every sequence of numbers has its sums.                                 *)
LEMMA SumsExist ==
  ASSUME NEW ns \in Seq(Int)
  PROVE  \E g : Sums(g, ns)
<1> DEFINE n == Len(ns)
           F == [i \in 1..n |-> [x \in Int |-> x + ns[i]]]
<1>1. n \in Nat /\ 0 \in Int /\ \A i \in 1..n : ns[i] \in Int
  OBVIOUS
<1>2. F \in [1..n -> [Int -> Int]] /\ \A i \in 1..n, x \in Int : F[i][x] = x + ns[i]
  BY <1>1
<1> HIDE DEF F, n
<1>3. PICK g : Iterates(g, Int, 0, n, F)
  BY <1>1, <1>2, Recursion
<1>4. ASSUME NEW i \in 1..n
      PROVE  g[i] = g[i - 1] + ns[i]
  <2>1. g[i - 1] \in Int /\ g[i] = F[i][g[i - 1]]
    BY <1>1, <1>3 DEF Iterates
  <2> QED
    BY <1>2, <2>1
<1> QED
  BY <1>3, <1>4 DEF Sums, Iterates, n

-----------------------------------------------------------------------------
(* Where parts end.                                                        *)
PartSet == {p \in [align : Nat, size : Nat] : p.align > 0 \/ p = Restart}

(* The end of a part that is laid behind offset.                           *)
EndBehind(offset, part) ==
  IF part = Restart THEN 0 ELSE AlignUp(offset, part.align) + part.size

(* Where the i-th part ends follows from where the one before it does.     *)
LEMMA EndsAre ==
  ASSUME NEW parts \in Seq(PartSet)
  PROVE  /\ \A i \in 0..Len(parts) : Ends(parts)[i] \in Nat
         /\ Ends(parts)[0] = 0
         /\ \A i \in 1..Len(parts) :
              Ends(parts)[i] = EndBehind(Ends(parts)[i - 1], parts[i])
<1> DEFINE n == Len(parts)
           F == [i \in 1..n |-> [x \in Nat |-> EndBehind(x, parts[i])]]
           Rec(f) == [i \in 0..n |->
                        IF i = 0 \/ parts[i] = Restart THEN 0
                        ELSE AlignUp(f[i - 1], parts[i].align) + parts[i].size]
           f0 == CHOOSE f : f = Rec(f)
<1>1. n \in Nat /\ \A i \in 1..n : parts[i] \in PartSet
  OBVIOUS
<1>2. ASSUME NEW i \in 1..n, NEW x \in Nat
      PROVE  EndBehind(x, parts[i]) \in Nat
  <2>1. parts[i] \in [align : Nat, size : Nat]
        /\ (parts[i].align \in Nat \ {0} \/ parts[i] = Restart)
    BY <1>1 DEF PartSet
  <2>2. parts[i].size \in Nat
    BY <2>1
  <2>3. CASE parts[i] = Restart
    BY <2>3 DEF EndBehind
  <2>4. CASE parts[i] # Restart
    <3>1. AlignUp(x, parts[i].align) \in Nat
      BY <2>1, <2>4, AlignUpIs
    <3> QED
      BY <2>2, <2>4, <3>1 DEF EndBehind
  <2> QED
    BY <2>3, <2>4
<1>3. F \in [1..n -> [Nat -> Nat]] /\ \A i \in 1..n, x \in Nat : F[i][x] = EndBehind(x, parts[i])
  BY <1>2
<1> HIDE DEF F
<1>4. PICK g : Iterates(g, Nat, 0, n, F)
  BY <1>1, <1>3, Recursion
<1>5. ASSUME NEW i \in 1..n
      PROVE  g[i] = EndBehind(g[i - 1], parts[i])
  BY <1>1, <1>3, <1>4 DEF Iterates
<1>6. g \in [0..n -> Nat] /\ g[0] = 0
  BY <1>4 DEF Iterates
<1>7. g = Rec(g)
  <2>1. ASSUME NEW i \in 0..n
        PROVE  g[i] = IF i = 0 \/ parts[i] = Restart THEN 0
                      ELSE AlignUp(g[i - 1], parts[i].align) + parts[i].size
    BY <1>5, <1>6 DEF EndBehind
  <2>2. Rec(g) = [i \in 0..n |-> g[i]]
    BY <2>1
  <2> QED
    BY <1>6, <2>2
<1>8. f0 = Rec(f0)
  BY <1>7
<1> HIDE DEF f0
<1>9. f0[0] = 0 /\ \A i \in 1..n : f0[i] = EndBehind(f0[i - 1], parts[i])
  <2>1. ASSUME NEW i \in 0..n
        PROVE  f0[i] = IF i = 0 \/ parts[i] = Restart THEN 0
                       ELSE AlignUp(f0[i - 1], parts[i].align) + parts[i].size
    BY <1>8, Zenon
  <2> QED
    BY <1>1, <2>1 DEF EndBehind
<1>10. Follows(f0, g, n)
  BY <1>5, <1>6, <1>9 DEF Follows
<1>11. \A i \in 0..n : f0[i] = g[i]
  BY <1>1, <1>10, SameSteps
<1>12. Ends(parts) = f0
  BY DEF Ends, f0
<1> QED
  BY <1>1, <1>5, <1>6, <1>11, <1>12

-----------------------------------------------------------------------------
(* Sequences that are joined.                                              *)

(* What is at a place of two joined sequences.                             *)
LEMMA ConcatIs ==
  ASSUME NEW S, NEW a \in Seq(S), NEW b \in Seq(S)
  PROVE  /\ a \o b \in Seq(S)
         /\ Len(a) \in Nat /\ Len(b) \in Nat
         /\ Len(a \o b) = Len(a) + Len(b)
         /\ \A k \in 1..Len(a) : (a \o b)[k] = a[k]
         /\ \A k \in 1..Len(b) : (a \o b)[Len(a) + k] = b[k]
<1>1. /\ a \o b \in Seq(S) /\ Len(a) \in Nat /\ Len(b) \in Nat
      /\ Len(a \o b) = Len(a) + Len(b)
  BY ConcatProperties, LenProperties
<1>2. \A k \in 1..(Len(a) + Len(b)) :
        (a \o b)[k] = IF k <= Len(a) THEN a[k] ELSE b[k - Len(a)]
  BY ConcatProperties
<1>3. ASSUME NEW k \in 1..Len(a)
      PROVE  (a \o b)[k] = a[k]
  <2>1. k \in 1..(Len(a) + Len(b)) /\ k <= Len(a)
    BY <1>1
  <2> QED
    BY <1>2, <2>1
<1>4. ASSUME NEW k \in 1..Len(b)
      PROVE  (a \o b)[Len(a) + k] = b[k]
  <2>1. Len(a) + k \in 1..(Len(a) + Len(b)) /\ ~(Len(a) + k <= Len(a))
        /\ (Len(a) + k) - Len(a) = k
    BY <1>1
  <2> QED
    BY <1>2, <2>1
<1> QED
  BY <1>1, <1>3, <1>4

(* The first i of the sequences ss, joined.                                *)
Upto(ss, i) == FlattenSeq(SubSeq(ss, 1, i))

(* It is what joining the sequences one by one arrives at.                 *)
LEMMA UptoIs ==
  ASSUME NEW T, NEW ss \in Seq(Seq(T)), NEW g, Joined(T, ss, g),
         NEW i \in 0..Len(ss)
  PROVE  Upto(ss, i) = g[i]
<1> DEFINE s == SubSeq(ss, 1, i)
           h == [k \in 0..i |-> g[k]]
<1>1. Len(ss) \in Nat /\ \A k \in 1..Len(ss) : ss[k] \in Seq(T)
  OBVIOUS
<1>2. Len(s) = i /\ \A k \in 1..i : s[k] = ss[k]
  OBVIOUS
<1>3. s \in Seq(Seq(T))
  OBVIOUS
<1> HIDE DEF s
<1>4. h \in [0..i -> Seq(T)] /\ h[0] = <<>>
  <2>1. g[0] = <<>> /\ \A k \in 0..Len(ss) : g[k] \in Seq(T)
    BY DEF Joined
  <2>2. \A k \in 0..i : k \in 0..Len(ss)
    BY <1>1
  <2>3. 0 \in 0..i
    OBVIOUS
  <2> QED
    BY <2>1, <2>2, <2>3
<1>5. ASSUME NEW k \in 1..i
      PROVE  h[k] = h[k - 1] \o s[k]
  <2>1. k - 1 \in 0..i /\ k \in 0..i /\ k \in 1..Len(ss)
    BY <1>1
  <2>2. h[k] = g[k] /\ h[k - 1] = g[k - 1]
    BY <2>1
  <2> QED
    BY <1>2, <2>1, <2>2 DEF Joined
<1> HIDE DEF h
<1>6. Joined(T, s, h)
  BY <1>2, <1>4, <1>5 DEF Joined
<1>7. FlattenSeq(s) = h[i]
  BY <1>2, <1>3, <1>6, FlattenIsJoined
<1>8. h[i] = g[i]
  BY <1>1 DEF h
<1> QED
  BY <1>7, <1>8 DEF Upto, s

(* Each of them adds one sequence, and the last is all of them.            *)
LEMMA UptoJoins ==
  ASSUME NEW T, NEW ss \in Seq(Seq(T))
  PROVE  /\ \A i \in 0..Len(ss) : Upto(ss, i) \in Seq(T)
         /\ Upto(ss, 0) = <<>>
         /\ \A i \in 1..Len(ss) : Upto(ss, i) = Upto(ss, i - 1) \o ss[i]
         /\ FlattenSeq(ss) = Upto(ss, Len(ss))
<1>1. PICK g : Joined(T, ss, g)
  BY JoinedExists
<1>2. Len(ss) \in Nat
  OBVIOUS
<1>3. \A i \in 0..Len(ss) : Upto(ss, i) = g[i]
  BY <1>1, UptoIs
<1>4. FlattenSeq(ss) = g[Len(ss)]
  BY <1>1, FlattenIsJoined
<1> DEFINE n == Len(ss)
<1> HIDE DEF n
<1>5. n \in Nat /\ 0 \in 0..n /\ n \in 0..n
      /\ \A i \in 1..n : i \in 0..n /\ i - 1 \in 0..n
  BY <1>2 DEF n
<1>6. /\ g \in [0..n -> Seq(T)] /\ g[0] = <<>>
      /\ \A i \in 1..n : g[i] = g[i - 1] \o ss[i]
      /\ \A i \in 0..n : Upto(ss, i) = g[i]
      /\ FlattenSeq(ss) = g[n]
  BY <1>1, <1>3, <1>4 DEF Joined, n
<1>7. \A i \in 1..n : Upto(ss, i) = Upto(ss, i - 1) \o ss[i]
  BY <1>5, <1>6
<1>8. /\ \A i \in 0..n : Upto(ss, i) \in Seq(T)
      /\ Upto(ss, 0) = <<>>
      /\ FlattenSeq(ss) = Upto(ss, n)
  BY <1>5, <1>6
<1> QED
  BY <1>7, <1>8 DEF n

(* An element of a sequence is where the ones before it end.               *)
LEMMA UptoAt ==
  ASSUME NEW T, NEW ss \in Seq(Seq(T)), NEW i \in 1..Len(ss), NEW x \in 1..Len(ss[i])
  PROVE  /\ FlattenSeq(ss)[Len(Upto(ss, i - 1)) + x] = ss[i][x]
         /\ Len(Upto(ss, i - 1)) + x \in 1..Len(FlattenSeq(ss))
<1>1. PICK g : Joined(T, ss, g)
  BY JoinedExists
<1> DEFINE n == Len(ss)
<1>2. n \in Nat /\ i - 1 \in 0..n /\ i \in 0..n /\ i \in Nat /\ i <= n /\ ss[i] \in Seq(T)
  OBVIOUS
<1>3. Upto(ss, i - 1) = g[i - 1] /\ FlattenSeq(ss) = g[n]
  BY <1>1, <1>2, UptoIs, FlattenIsJoined
<1>4. g[i] = g[i - 1] \o ss[i] /\ g[i - 1] \in Seq(T) /\ g[i] \in Seq(T)
  BY <1>1, <1>2 DEF Joined
<1>5. Continues(T, g[i], g[n])
  BY <1>1, <1>2, JoinedGrows
<1>6. PICK r \in Seq(T) : g[n] = g[i] \o r
  BY <1>5 DEF Continues
<1> DEFINE a == g[i - 1]
           b == ss[i]
           c == g[i]
<1>7. a \in Seq(T) /\ b \in Seq(T) /\ c \in Seq(T) /\ c = a \o b /\ x \in 1..Len(b)
  BY <1>2, <1>4
<1> HIDE DEF a, b, c
<1>8. Len(c) = Len(a) + Len(b) /\ c[Len(a) + x] = b[x] /\ Len(a) + x \in 1..Len(c)
  BY <1>7
<1>9. Len(c \o r) = Len(c) + Len(r) /\ \A k \in 1..Len(c) : (c \o r)[k] = c[k]
  BY <1>7
<1>10. (c \o r)[Len(a) + x] = b[x]
  BY <1>8, <1>9
<1>11. Len(a) + x \in 1..Len(c \o r)
  BY <1>7, <1>8, <1>9
<1> QED
  BY <1>3, <1>6, <1>10, <1>11 DEF a, b, c

(* The first sequences, joined, and the length of all.                     *)
LEMMA UptoLen ==
  ASSUME NEW T, NEW ss \in Seq(Seq(T)), NEW i \in 1..Len(ss)
  PROVE  /\ Len(Upto(ss, i)) = Len(Upto(ss, i - 1)) + Len(ss[i])
         /\ Len(Upto(ss, i - 1)) \in Nat /\ Len(Upto(ss, i)) \in Nat /\ Len(ss[i]) \in Nat
         /\ Len(Upto(ss, i)) <= Len(FlattenSeq(ss))
<1>1. PICK g : Joined(T, ss, g)
  BY JoinedExists
<1> DEFINE n == Len(ss)
<1>2. n \in Nat /\ i - 1 \in 0..n /\ i \in 0..n /\ i \in Nat /\ i <= n /\ n <= n /\ ss[i] \in Seq(T)
  OBVIOUS
<1>3. Upto(ss, i - 1) = g[i - 1] /\ Upto(ss, i) = g[i] /\ FlattenSeq(ss) = g[n]
  BY <1>1, <1>2, UptoIs, FlattenIsJoined
<1>4. g[i] = g[i - 1] \o ss[i] /\ g[i - 1] \in Seq(T) /\ g[i] \in Seq(T)
  BY <1>1, <1>2 DEF Joined
<1>5. Len(g[i]) <= Len(g[n])
  BY <1>1, <1>2, JoinedGrows
<1>6. /\ Len(g[i]) = Len(g[i - 1]) + Len(ss[i])
      /\ Len(g[i]) \in Nat /\ Len(g[i - 1]) \in Nat /\ Len(ss[i]) \in Nat
  <2>1. g[i - 1] \in Seq(T) /\ ss[i] \in Seq(T) /\ g[i] \in Seq(T)
    BY <1>2, <1>4
  <2>2. Len(g[i - 1] \o ss[i]) = Len(g[i - 1]) + Len(ss[i])
    BY <2>1, ConcatProperties
  <2> QED
    BY <1>4, <2>1, <2>2, LenProperties
<1> QED
  BY <1>3, <1>5, <1>6

-----------------------------------------------------------------------------
(* The fields of a type.                                                   *)
Fields == FlatFields \cup NestedFields \cup InlineFields

(* Sizes and alignments of scalars.                                        *)
LEMMA SizeOfIs ==
  ASSUME NEW ty \in ScalarTypes
  PROVE  /\ SizeOf(ty) \in {1, 2, 4, 8}
         /\ FixedAlign(ty) \in {1, 2, 4, 8}
  BY LayoutAssumption DEF SizeOf, FixedAlign, ScalarTypes

(* A field of fixed size, and how the macro lays it out.                   *)
LEMMA FixedFieldIs ==
  ASSUME NEW f \in FixedFields
  PROVE  /\ f.kind = "fixed" /\ f.ty \in ScalarTypes /\ f.n \in Nat
         /\ f.array \in BOOLEAN /\ f.pad \in BOOLEAN
         /\ ~f.array => f.n = 1
         /\ f.pad => f.n > 0
         /\ f.array /\ f.ty = "ZfmtStr" /\ ~f.pad => f.n < 8
         /\ FixedSize(f) \in Nat /\ FixedSize(f) = f.n * SizeOf(f.ty)
         /\ f.pad => FixedSize(f) > 0
         /\ MacroPart(f) = Part(SizeOf(f.ty), FixedSize(f))
<1>1. /\ f.kind = "fixed" /\ f.ty \in ScalarTypes /\ f.n \in Nat
      /\ f.array \in BOOLEAN /\ f.pad \in BOOLEAN
      /\ ~f.array => f.n = 1
      /\ f.pad => f.n > 0
      /\ f.array /\ f.ty = "ZfmtStr" /\ ~f.pad => f.n < 8
  BY DEF FixedFields
<1>2. SizeOf(f.ty) \in {1, 2, 4, 8}
  BY <1>1, SizeOfIs
<1>3. f.n * SizeOf(f.ty) \in Nat /\ (f.n > 0 => f.n * SizeOf(f.ty) > 0)
  BY <1>1, <1>2
<1>4. MacroPart(f) = Part(SizeOf(f.ty), FixedSize(f))
  BY <1>1 DEF MacroPart
<1> QED
  BY <1>1, <1>3, <1>4 DEF FixedSize

(* A string: the macro restarts its offsets behind it, the compiler puts a *)
(* slice there.                                                            *)
LEMMA StrFieldIs ==
  ASSUME NEW f \in StrFields
  PROVE  /\ f.kind = "str" /\ f.n \in Nat /\ f.pad \in BOOLEAN
         /\ MacroPart(f) = Restart
         /\ FlatPart(f) = Part(4, 8)
  BY DEF StrFields, MacroPart, FlatPart, PointerSize

(* A part that takes an alignment.                                         *)
RealParts == [align : Nat \ {0}, size : Nat]

(* What Part makes is one.                                                 *)
LEMMA RealPartIs ==
  ASSUME NEW a \in Nat \ {0}, NEW s \in Nat
  PROVE  /\ Part(a, s) \in RealParts /\ Part(a, s) \in PartSet /\ Part(a, s) # Restart
         /\ Part(a, s).align = a /\ Part(a, s).size = s
<1>1. Part(a, s) = [align |-> a, size |-> s] /\ Restart = [align |-> 0, size |-> 0]
  BY DEF Part, Restart
<1>2. Part(a, s).align = a /\ Part(a, s).size = s /\ Restart.align = 0
  BY <1>1
<1> QED
  BY <1>1, <1>2 DEF RealParts, PartSet

(* A flat field, as the compiler and as the macro lay it out.              *)
LEMMA FlatPartIs ==
  ASSUME NEW f \in FlatFields
  PROVE  /\ f.kind \in {"fixed", "str"}
         /\ f.kind = "fixed" => f \in FixedFields
         /\ f.kind = "str" => f \in StrFields
         /\ FlatPart(f) \in RealParts
         /\ FieldPart(f) = FlatPart(f)
         /\ MacroPart(f) \in PartSet
         /\ f.kind = "fixed" => /\ MacroPart(f) # Restart
                                /\ FlatPart(f).align = FixedAlign(f.ty)
                                /\ FlatPart(f).size = FixedSize(f)
                                /\ MacroPart(f).align = SizeOf(f.ty)
                                /\ MacroPart(f).size = FixedSize(f)
<1>1. CASE f \in FixedFields
  <2>1. /\ f.kind = "fixed" /\ f.ty \in ScalarTypes /\ FixedSize(f) \in Nat
        /\ MacroPart(f) = Part(SizeOf(f.ty), FixedSize(f))
    BY <1>1, FixedFieldIs
  <2>2. SizeOf(f.ty) \in Nat \ {0} /\ FixedAlign(f.ty) \in Nat \ {0}
    BY <2>1, SizeOfIs
  <2>3. FlatPart(f) = Part(FixedAlign(f.ty), FixedSize(f)) /\ FieldPart(f) = FlatPart(f)
    BY <2>1 DEF FlatPart, FieldPart
  <2>4. f.kind # "str"
    BY <2>1
  <2> QED
    BY <1>1, <2>1, <2>2, <2>3, <2>4, RealPartIs
<1>2. CASE f \in StrFields
  <2>1. f.kind = "str" /\ MacroPart(f) = Restart /\ FlatPart(f) = Part(4, 8)
    BY <1>2, StrFieldIs
  <2>2. FieldPart(f) = FlatPart(f) /\ f.kind # "fixed"
    BY <2>1 DEF FieldPart
  <2>3. Restart \in PartSet
    BY DEF PartSet, Restart, Part
  <2> QED
    BY <1>2, <2>1, <2>2, <2>3, RealPartIs
<1> QED
  BY <1>1, <1>2 DEF FlatFields

(* A layout of parts.                                                      *)
LEMMA LayoutIs ==
  ASSUME NEW parts \in Seq(RealParts)
  PROVE  /\ parts \in Seq(PartSet)
         /\ AlignOf(parts) \in Nat \ {0}
         /\ Ends(parts)[Len(parts)] \in Nat
         /\ SizeWithTail(parts) \in Nat
         /\ Ends(parts)[Len(parts)] <= SizeWithTail(parts)
<1> DEFINE n == Len(parts)
           f == [i \in 1..n |-> parts[i].align]
           S == {1} \cup {parts[i].align : i \in DOMAIN parts}
<1>1. n \in Nat /\ \A i \in 1..n : parts[i] \in RealParts
  OBVIOUS
<1>2. \A p \in RealParts : p \in PartSet /\ p.align \in Nat
  BY DEF RealParts, PartSet
<1>3. parts \in Seq(PartSet)
  BY <1>1, <1>2
<1>4. f \in [1..n -> Nat]
  BY <1>1, <1>2
<1>5. S = {1} \cup {f[i] : i \in 1..n}
  BY <1>1
<1> HIDE DEF f, S
<1>6. Max(S) \in Nat /\ 1 <= Max(S)
  BY <1>1, <1>4, <1>5, MaxIs
<1>7. AlignOf(parts) \in Nat \ {0}
  BY <1>6 DEF AlignOf, S
<1>8. Ends(parts)[n] \in Nat
  BY <1>1, <1>3, EndsAre
<1> HIDE DEF n
<1>9. /\ AlignUp(Ends(parts)[n], AlignOf(parts)) \in Nat
      /\ Ends(parts)[n] <= AlignUp(Ends(parts)[n], AlignOf(parts))
  BY <1>7, <1>8, AlignUpIs
<1> QED
  BY <1>3, <1>7, <1>8, <1>9 DEF SizeWithTail, n

(* A union holds each of its variants.                                     *)
LEMMA UnionIs ==
  ASSUME NEW variants \in Seq(Seq(FlatFields))
  PROVE  /\ UnionAlign(variants) \in Nat \ {0}
         /\ UnionSize(variants) \in Nat
         /\ \A j \in 1..Len(variants) : StructSize(variants[j]) <= UnionSize(variants)
<1> DEFINE n == Len(variants)
           a == [j \in 1..n |-> AlignOf(FlatParts(variants[j]))]
           s == [j \in 1..n |-> SizeWithTail(FlatParts(variants[j]))]
           A == {1} \cup {AlignOf(FlatParts(variants[j])) : j \in DOMAIN variants}
           S == {0} \cup {SizeWithTail(FlatParts(variants[j])) : j \in DOMAIN variants}
<1>1. n \in Nat /\ \A j \in 1..n : variants[j] \in Seq(FlatFields)
  OBVIOUS
<1>2. ASSUME NEW V \in Seq(FlatFields)
      PROVE  FlatParts(V) \in Seq(RealParts)
  <2>1. \A i \in 1..Len(V) : FlatPart(V[i]) \in RealParts
    BY FlatPartIs
  <2> QED
    BY <2>1 DEF FlatParts
<1>3. \A j \in 1..n : /\ AlignOf(FlatParts(variants[j])) \in Nat \ {0}
                      /\ SizeWithTail(FlatParts(variants[j])) \in Nat
  BY <1>1, <1>2, LayoutIs
<1>4. a \in [1..n -> Nat] /\ s \in [1..n -> Nat]
  BY <1>3
<1>10. DOMAIN variants = 1..n
  OBVIOUS
<1>11. \A j \in 1..n : a[j] = AlignOf(FlatParts(variants[j]))
                      /\ s[j] = SizeWithTail(FlatParts(variants[j]))
  OBVIOUS
<1> HIDE DEF a, s, n
<1>5. A = {1} \cup {a[j] : j \in 1..n} /\ S = {0} \cup {s[j] : j \in 1..n}
  BY <1>10, <1>11
<1> HIDE DEF A, S
<1>12. n \in Nat
  BY <1>1
<1>6. Max(A) \in Nat /\ 1 <= Max(A)
  <2>1. a \in [1..n -> Nat] /\ A = {1} \cup {a[j] : j \in 1..n} /\ 1 \in Nat
    BY <1>4, <1>5
  <2> QED
    BY <1>12, <2>1, MaxIs
<1>7. Max(S) \in Nat /\ \A j \in 1..n : s[j] <= Max(S)
  <2>1. s \in [1..n -> Nat] /\ S = {0} \cup {s[j] : j \in 1..n} /\ 0 \in Nat
    BY <1>4, <1>5
  <2> QED
    BY <1>12, <2>1, MaxIs
<1>8. UnionAlign(variants) \in Nat \ {0}
  BY <1>6 DEF UnionAlign, A
<1>9. AlignUp(Max(S), UnionAlign(variants)) \in Nat
      /\ Max(S) <= AlignUp(Max(S), UnionAlign(variants))
  BY <1>7, <1>8, AlignUpIs
<1>13. UnionSize(variants) = AlignUp(Max(S), UnionAlign(variants))
  BY DEF UnionSize, S
<1>14. ASSUME NEW V \in Seq(FlatFields)
       PROVE  StructSize(V) = SizeWithTail(FlatParts(V))
  <2>1. \A i \in DOMAIN V : FieldPart(V[i]) = FlatPart(V[i])
    BY FlatPartIs
  <2>2. Parts(V) = FlatParts(V)
    BY <2>1 DEF Parts, FlatParts
  <2> QED
    BY <2>2 DEF StructSize
<1>15. ASSUME NEW j \in 1..n
       PROVE  StructSize(variants[j]) <= UnionSize(variants)
  <2>1. StructSize(variants[j]) = s[j]
    BY <1>1, <1>11, <1>14
  <2>2. s[j] \in Nat /\ s[j] <= Max(S)
    BY <1>4, <1>7
  <2>3. PICK m \in Nat : m = Max(S)
    BY <1>7
  <2> QED
    BY <1>9, <1>13, <2>1, <2>2, <2>3
<1>16. \A j \in 1..Len(variants) : StructSize(variants[j]) <= UnionSize(variants)
  BY <1>15 DEF n
<1> QED
  BY <1>8, <1>9, <1>13, <1>16

(* An inline enum: its discriminant is as large as its union is aligned.   *)
LEMMA InlineFieldIs ==
  ASSUME NEW f \in InlineFields
  PROVE  /\ f.kind = "inline" /\ f.pad = FALSE
         /\ f.variants \in Seq(Seq(FlatFields))
         /\ f.pick \in Nat /\ f.pick \in 1..Len(f.variants)
         /\ f.variants[f.pick] \in Seq(FlatFields)
         /\ f.listed \in Nat /\ f.listed <= Len(f.variants)
         /\ UnionAlign(f.variants) \in Nat \ {0} /\ UnionSize(f.variants) \in Nat
         /\ FieldPart(f) = Part(UnionAlign(f.variants),
                                UnionAlign(f.variants) + UnionSize(f.variants))
         /\ FieldPart(f) \in RealParts
         /\ FieldSize(f) = UnionAlign(f.variants) + UnionSize(f.variants)
<1>1. /\ f.kind = "inline" /\ f.pad = FALSE
      /\ f.variants \in Seq(Seq(FlatFields))
      /\ f.pick \in Nat /\ f.pick \in DOMAIN f.variants
      /\ f.listed \in Nat /\ f.listed <= Len(f.variants)
  BY DEF InlineFields
<1>2. DOMAIN f.variants = 1..Len(f.variants)
  BY <1>1
<1>3. f.variants[f.pick] \in Seq(FlatFields)
  BY <1>1
<1>4. UnionAlign(f.variants) \in Nat \ {0} /\ UnionSize(f.variants) \in Nat
  BY <1>1, UnionIs
<1>5. UnionAlign(f.variants) + UnionSize(f.variants) \in Nat
  BY <1>4
<1>6. FieldPart(f) = Part(UnionAlign(f.variants),
                          UnionAlign(f.variants) + UnionSize(f.variants))
  BY <1>1 DEF FieldPart
<1>7. FieldPart(f) \in RealParts
      /\ FieldPart(f).size = UnionAlign(f.variants) + UnionSize(f.variants)
  BY <1>4, <1>5, <1>6, RealPartIs
<1> QED
  BY <1>1, <1>2, <1>3, <1>4, <1>6, <1>7 DEF FieldSize

(* A nested struct.                                                        *)
LEMMA NestedFieldIs ==
  ASSUME NEW f \in NestedFields
  PROVE  /\ f.kind = "nested" /\ f.pad = FALSE /\ f.type \in Types
         /\ FieldPart(f) = Part(f.type.align, f.type.size)
  BY DEF NestedFields, FieldPart

(* What is known of a field from its kind.                                 *)
LEMMA FieldKind ==
  ASSUME NEW f \in Fields
  PROVE  /\ f.kind \in {"fixed", "str", "nested", "inline"}
         /\ f.kind = "fixed" => f \in FixedFields /\ f \in FlatFields
         /\ f.kind = "str" => f \in StrFields /\ f \in FlatFields
         /\ f.kind = "nested" => f \in NestedFields
         /\ f.kind = "inline" => f \in InlineFields
         /\ f.pad \in BOOLEAN
<1>1. CASE f \in FixedFields
  BY <1>1, FixedFieldIs DEF FlatFields
<1>2. CASE f \in StrFields
  BY <1>2, StrFieldIs DEF FlatFields
<1>3. CASE f \in InlineFields
  BY <1>3, InlineFieldIs
<1>4. CASE f \in NestedFields
  BY <1>4, NestedFieldIs
<1> QED
  BY <1>1, <1>2, <1>3, <1>4 DEF Fields, FlatFields

(* The parts of T have a size and an alignment.                            *)
LaidOut(T) == T \in Seq(Fields) /\ \A i \in 1..Len(T) : FieldPart(T[i]) \in RealParts

(* Flat fields can be laid out,                                            *)
LEMMA FlatIsLaidOut ==
  ASSUME NEW T \in Seq(FlatFields)
  PROVE  /\ LaidOut(T)
         /\ \A i \in 1..Len(T) : T[i] \in FlatFields /\ T[i].kind \in {"fixed", "str"}
<1>1. \A i \in 1..Len(T) : T[i] \in FlatFields
  OBVIOUS
<1>2. T \in Seq(Fields)
  BY <1>1 DEF Fields
<1> QED
  BY <1>1, <1>2, FlatPartIs DEF LaidOut

(* and fields that can be each have an offset, behind the end of the field *)
(* before.                                                                 *)
LEMMA OffsetsAre ==
  ASSUME NEW T, LaidOut(T)
  PROVE  /\ Len(T) \in Nat /\ DOMAIN T = 1..Len(T)
         /\ EndOf(T, 0) = 0
         /\ \A i \in 0..Len(T) : EndOf(T, i) \in Nat
         /\ \A i \in 1..Len(T) :
              /\ FieldSize(T[i]) \in Nat /\ FieldAlign(T[i]) \in Nat \ {0}
              /\ OffsetOf(T, i) \in Nat
              /\ EndOf(T, i - 1) <= OffsetOf(T, i)
              /\ EndOf(T, i) = OffsetOf(T, i) + FieldSize(T[i])
         /\ StructAlign(T) \in Nat \ {0}
         /\ StructSize(T) \in Nat
         /\ EndOf(T, Len(T)) <= StructSize(T)
<1> DEFINE n == Len(T)
           p == Parts(T)
<1>1. n \in Nat /\ DOMAIN T = 1..n
  BY DEF LaidOut
<1>2. \A i \in 1..n : FieldPart(T[i]) \in RealParts
  BY DEF LaidOut
<1>3. p \in Seq(RealParts) /\ Len(p) = n /\ \A i \in 1..n : p[i] = FieldPart(T[i])
  BY <1>1, <1>2 DEF Parts
<1> HIDE DEF n, p
<1>4. /\ p \in Seq(PartSet)
      /\ AlignOf(p) \in Nat \ {0}
      /\ Ends(p)[n] \in Nat
      /\ SizeWithTail(p) \in Nat
      /\ Ends(p)[n] <= SizeWithTail(p)
  BY <1>3, LayoutIs
<1>5. /\ \A i \in 0..n : Ends(p)[i] \in Nat
      /\ Ends(p)[0] = 0
      /\ \A i \in 1..n : Ends(p)[i] = EndBehind(Ends(p)[i - 1], p[i])
  BY <1>3, <1>4, EndsAre
<1>6. \A i : EndOf(T, i) = Ends(p)[i]
  BY DEF EndOf, p
<1>7. ASSUME NEW i \in 1..n
      PROVE  /\ FieldSize(T[i]) \in Nat /\ FieldAlign(T[i]) \in Nat \ {0}
             /\ OffsetOf(T, i) \in Nat
             /\ EndOf(T, i - 1) <= OffsetOf(T, i)
             /\ EndOf(T, i) = OffsetOf(T, i) + FieldSize(T[i])
  <2>1. i - 1 \in 0..n
    BY <1>1
  <2>2. p[i] \in RealParts /\ p[i] = FieldPart(T[i])
    BY <1>2, <1>3
  <2>3. p[i].align \in Nat \ {0} /\ p[i].size \in Nat
    BY <2>2 DEF RealParts
  <2>4. p[i] # Restart
    BY <2>3 DEF Restart, Part
  <2>5. Ends(p)[i] = AlignUp(Ends(p)[i - 1], p[i].align) + p[i].size
    BY <1>5, <2>4 DEF EndBehind
  <2>6. OffsetOf(T, i) = AlignUp(Ends(p)[i - 1], p[i].align)
    BY <1>6, <2>2 DEF OffsetOf, FieldAlign
  <2>7. Ends(p)[i - 1] \in Nat
    BY <1>5, <2>1
  <2>8. AlignUp(Ends(p)[i - 1], p[i].align) \in Nat
        /\ Ends(p)[i - 1] <= AlignUp(Ends(p)[i - 1], p[i].align)
    BY <2>3, <2>7, AlignUpIs
  <2> QED
    BY <1>6, <2>2, <2>3, <2>5, <2>6, <2>8 DEF FieldSize, FieldAlign
<1>8. StructAlign(T) = AlignOf(p) /\ StructSize(T) = SizeWithTail(p)
  BY DEF StructAlign, StructSize, p
<1> QED
  BY <1>1, <1>4, <1>5, <1>6, <1>7, <1>8 DEF n

(* A field lies behind those before it, and inside the struct.             *)
LEMMA EndsGrow ==
  ASSUME NEW T, LaidOut(T)
  PROVE  /\ \A i, j \in 0..Len(T) : i <= j => EndOf(T, i) <= EndOf(T, j)
         /\ \A i \in 1..Len(T) : OffsetOf(T, i) + FieldSize(T[i]) <= StructSize(T)
<1> DEFINE n == Len(T)
           S == {j \in Nat : j <= n => \A i \in 0..n : i <= j => EndOf(T, i) <= EndOf(T, j)}
<1>1. /\ n \in Nat
      /\ \A i \in 0..n : EndOf(T, i) \in Nat
      /\ \A i \in 1..n :
           /\ FieldSize(T[i]) \in Nat /\ OffsetOf(T, i) \in Nat
           /\ EndOf(T, i - 1) <= OffsetOf(T, i)
           /\ EndOf(T, i) = OffsetOf(T, i) + FieldSize(T[i])
      /\ StructSize(T) \in Nat
      /\ EndOf(T, n) <= StructSize(T)
  BY OffsetsAre
<1> HIDE DEF n
<1>2. 0 \in S
  BY <1>1
<1>3. ASSUME NEW j \in Nat, j \in S
      PROVE  j + 1 \in S
  <2> SUFFICES ASSUME j + 1 <= n, NEW i \in 0..n, i <= j + 1
               PROVE  EndOf(T, i) <= EndOf(T, j + 1)
    OBVIOUS
  <2>1. j + 1 \in 1..n /\ j \in 0..n /\ (j + 1) - 1 = j
    BY <1>1
  <2>2. EndOf(T, j) <= EndOf(T, j + 1)
    BY <1>1, <2>1
  <2>3. CASE i = j + 1
    BY <1>1, <2>3
  <2>4. CASE i <= j
    BY <1>1, <1>3, <2>1, <2>2, <2>4
  <2> QED
    BY <2>3, <2>4
<1> HIDE DEF S
<1>4. \A j \in Nat : j \in S
  BY <1>2, <1>3, SetInduction
<1>5. \A i, j \in 0..n : i <= j => EndOf(T, i) <= EndOf(T, j)
  BY <1>1, <1>4 DEF S
<1>6. ASSUME NEW i \in 1..n
      PROVE  OffsetOf(T, i) + FieldSize(T[i]) <= StructSize(T)
  BY <1>1, <1>5
<1> QED
  BY <1>5, <1>6 DEF n

-----------------------------------------------------------------------------
(* What the macro computes of flat fields.                                 *)
LEMMA MacroEndsAre ==
  ASSUME NEW T \in Seq(FlatFields)
  PROVE  /\ MacroEnd(T, 0) = 0
         /\ \A i \in 0..Len(T) : MacroEnd(T, i) \in Nat
         /\ \A i \in 1..Len(T) :
              /\ GapBefore(T, i) \in Nat
              /\ T[i].kind = "str" => MacroEnd(T, i) = 0 /\ GapBefore(T, i) = 0
              /\ T[i].kind = "fixed" =>
                   /\ MacroEnd(T, i - 1) + GapBefore(T, i)
                        = AlignUp(MacroEnd(T, i - 1), SizeOf(T[i].ty))
                   /\ MacroEnd(T, i)
                        = MacroEnd(T, i - 1) + GapBefore(T, i) + FixedSize(T[i])
         /\ LogicalSize(T) \in Nat
<1> DEFINE n == Len(T)
           p == [j \in DOMAIN T |-> MacroPart(T[j])]
<1>1. n \in Nat /\ DOMAIN T = 1..n /\ \A i \in 1..n : T[i] \in FlatFields
  OBVIOUS
<1>2. p \in Seq(PartSet) /\ Len(p) = n /\ \A i \in 1..n : p[i] = MacroPart(T[i])
  BY <1>1, FlatPartIs
<1>3. \A i : MacroEnd(T, i) = Ends(p)[i]
  BY DEF MacroEnd
<1> HIDE DEF n, p
<1>4. /\ \A i \in 0..n : Ends(p)[i] \in Nat
      /\ Ends(p)[0] = 0
      /\ \A i \in 1..n : Ends(p)[i] = EndBehind(Ends(p)[i - 1], p[i])
  BY <1>2, EndsAre
<1>5. ASSUME NEW i \in 1..n
      PROVE  /\ GapBefore(T, i) \in Nat
             /\ T[i].kind = "str" => MacroEnd(T, i) = 0 /\ GapBefore(T, i) = 0
             /\ T[i].kind = "fixed" =>
                  /\ MacroEnd(T, i - 1) + GapBefore(T, i)
                       = AlignUp(MacroEnd(T, i - 1), SizeOf(T[i].ty))
                  /\ MacroEnd(T, i)
                       = MacroEnd(T, i - 1) + GapBefore(T, i) + FixedSize(T[i])
  <2>1. MacroEnd(T, i - 1) \in Nat
    BY <1>1, <1>3, <1>4
  <2>2. MacroEnd(T, i) = EndBehind(MacroEnd(T, i - 1), MacroPart(T[i]))
    BY <1>2, <1>3, <1>4
  <2>3. CASE T[i].kind = "str"
    <3>1. MacroPart(T[i]) = Restart /\ GapBefore(T, i) = 0
      BY <2>3 DEF MacroPart, GapBefore, GapBehind
    <3> QED
      BY <2>2, <2>3, <3>1 DEF EndBehind
  <2>4. CASE T[i].kind = "fixed"
    <3>1. /\ T[i] \in FixedFields
          /\ MacroPart(T[i]) # Restart
          /\ MacroPart(T[i]).align = SizeOf(T[i].ty)
          /\ MacroPart(T[i]).size = FixedSize(T[i])
      BY <1>1, <2>4, FlatPartIs
    <3>2. T[i].ty \in ScalarTypes /\ FixedSize(T[i]) \in Nat
      BY <3>1, FixedFieldIs
    <3>3. SizeOf(T[i].ty) \in Nat \ {0}
      BY <3>2, SizeOfIs
    <3>4. /\ AlignUp(MacroEnd(T, i - 1), SizeOf(T[i].ty)) \in Nat
          /\ MacroEnd(T, i - 1) <= AlignUp(MacroEnd(T, i - 1), SizeOf(T[i].ty))
      BY <2>1, <3>3, AlignUpIs
    <3>5. GapBefore(T, i)
            = AlignUp(MacroEnd(T, i - 1), SizeOf(T[i].ty)) - MacroEnd(T, i - 1)
      BY <2>4 DEF GapBefore, GapBehind
    <3>6. MacroEnd(T, i)
            = AlignUp(MacroEnd(T, i - 1), SizeOf(T[i].ty)) + FixedSize(T[i])
      BY <2>2, <3>1 DEF EndBehind
    <3> QED
      BY <2>1, <2>4, <3>2, <3>4, <3>5, <3>6
  <2> QED
    BY <1>1, <2>3, <2>4, FlatPartIs
<1>6. LogicalSize(T) \in Nat
  BY <1>1, <1>3, <1>4 DEF LogicalSize, n
<1> QED
  BY <1>3, <1>4, <1>5, <1>6 DEF n

(* The total size that the macro computes is no less than what is sent of  *)
(* a struct.                                                               *)
LEMMA TotalSizeIs ==
  ASSUME NEW T \in Seq(FlatFields)
  PROVE  /\ TotalSize(T) \in Nat
         /\ ~Has(T, "str") => LogicalSize(T) <= TotalSize(T)
<1>1. LogicalSize(T) \in Nat
  BY MacroEndsAre
<1>2. CASE Has(T, "str")
  BY <1>2 DEF TotalSize
<1>3. CASE ~Has(T, "str")
  <2> DEFINE n == Len(T)
             f == [i \in 1..n |-> SizeOf(T[i].ty)]
             S == {1} \cup {SizeOf(T[i].ty) : i \in DOMAIN T}
  <2>1. n \in Nat /\ DOMAIN T = 1..n
    OBVIOUS
  <2>2. ASSUME NEW i \in 1..n
        PROVE  SizeOf(T[i].ty) \in Nat
    <3>1. T[i] \in FlatFields /\ T[i].kind # "str"
      BY <1>3 DEF Has
    <3>2. T[i] \in FixedFields
      BY <3>1, FlatPartIs
    <3> QED
      BY <3>2, FixedFieldIs, SizeOfIs
  <2>3. f \in [1..n -> Nat]
    BY <2>2
  <2>4. S = {1} \cup {f[i] : i \in 1..n}
    BY <2>1
  <2> HIDE DEF f, S, n
  <2>5. Max(S) \in Nat /\ 1 <= Max(S)
    BY <2>1, <2>3, <2>4, MaxIs
  <2>6. AlignUp(LogicalSize(T), Max(S)) \in Nat
        /\ LogicalSize(T) <= AlignUp(LogicalSize(T), Max(S))
    BY <1>1, <2>5, AlignUpIs
  <2> QED
    BY <1>3, <2>6 DEF TotalSize, S
<1> QED
  BY <1>2, <1>3

(* The union as the macro takes it to be holds each variant.               *)
LEMMA UnionBodyIs ==
  ASSUME NEW variants \in Seq(Seq(FlatFields))
  PROVE  /\ UnionBody(variants) \in Nat
         /\ \A j \in 1..Len(variants) : TotalSize(variants[j]) <= UnionBody(variants)
<1> DEFINE n == Len(variants)
           f == [j \in 1..n |-> TotalSize(variants[j])]
           S == {0} \cup {TotalSize(variants[j]) : j \in DOMAIN variants}
<1>1. n \in Nat /\ DOMAIN variants = 1..n /\ 0 \in Nat
  OBVIOUS
<1>2. \A j \in 1..n : TotalSize(variants[j]) \in Nat
  BY TotalSizeIs
<1>3. f \in [1..n -> Nat] /\ \A j \in 1..n : f[j] = TotalSize(variants[j])
  BY <1>2
<1>4. S = {0} \cup {f[j] : j \in 1..n}
  BY <1>1
<1> HIDE DEF f, S, n
<1>5. Max(S) \in Nat /\ \A j \in 1..n : f[j] <= Max(S)
  BY <1>1, <1>3, <1>4, MaxIs
<1> QED
  BY <1>3, <1>5 DEF UnionBody, S, n

-----------------------------------------------------------------------------
(* Cells and values.                                                       *)
CellSet == Int \X Int \X (SUBSET Nat)
Values == Seq(Seq(CellSet))

(* A cell that the model makes is one.                                     *)
LEMMA CellIs ==
  ASSUME NEW i \in Int, NEW k \in Int, NEW numbers \in SUBSET Nat
  PROVE  Cell(i, k, numbers) \in CellSet
  BY DEF Cell, CellSet

(* So are those of fields, texts and unwritten memory.                     *)
LEMMA BytesAre ==
  ASSUME NEW i \in Nat, NEW n \in Nat
  PROVE  /\ MemoryBytes(i, n) \in Seq(CellSet) /\ Len(MemoryBytes(i, n)) = n
         /\ TextBytes(i, n) \in Seq(CellSet) /\ Len(TextBytes(i, n)) = n
         /\ Zeros(n) \in Seq(CellSet) /\ Len(Zeros(n)) = n
<1>1. \A k \in 1..n : /\ Cell(0, i + k, {}) \in CellSet
                      /\ Cell(i, k, {}) \in CellSet
                      /\ Cell(0, 0, {}) \in CellSet
  BY CellIs
<1> QED
  BY <1>1 DEF MemoryBytes, TextBytes, Zeros, ZeroByte

(* Values that are moved are as many values.                               *)
LEMMA MovedIs ==
  ASSUME NEW vs \in Values, NEW base \in Nat
  PROVE  /\ Moved(vs, base) \in Values
         /\ Len(Moved(vs, base)) = Len(vs)
<1>1. ASSUME NEW c \in CellSet
      PROVE  Cell(c[1], base + c[2], c[3]) \in CellSet
  BY CellIs DEF CellSet
<1>2. ASSUME NEW v \in Seq(CellSet)
      PROVE  [x \in DOMAIN v |-> Cell(v[x][1], base + v[x][2], v[x][3])] \in Seq(CellSet)
  <2>1. \A x \in 1..Len(v) : Cell(v[x][1], base + v[x][2], v[x][3]) \in CellSet
    BY <1>1
  <2> QED
    BY <2>1
<1> DEFINE W(k) == [x \in DOMAIN vs[k] |-> Cell(vs[k][x][1], base + vs[k][x][2], vs[k][x][3])]
<1>3. Len(vs) \in Nat /\ \A k \in 1..Len(vs) : vs[k] \in Seq(CellSet)
  BY DEF Values
<1>4. \A k \in 1..Len(vs) : W(k) \in Seq(CellSet)
  BY <1>2, <1>3
<1>5. Moved(vs, base) = [k \in 1..Len(vs) |-> W(k)]
  BY <1>3 DEF Moved, Values
<1> HIDE DEF W
<1> QED
  BY <1>3, <1>4, <1>5 DEF Values

(* What a flat field shows are values.                                     *)
LEMMA FlatValuesAre ==
  ASSUME NEW T, LaidOut(T), NEW i \in 1..Len(T), T[i] \in FlatFields
  PROVE  FlatValues(T, i) \in Values
<1>1. T[i] \in FlatFields /\ i \in Nat
  BY OffsetsAre
<1>2. OffsetOf(T, i) \in Nat
  BY OffsetsAre
<1>3. CASE T[i].kind = "str"
  <2>1. T[i].n \in Nat
    BY <1>1, <1>3, FlatPartIs, StrFieldIs
  <2>2. TextBytes(i, T[i].n) \in Seq(CellSet)
    BY <1>1, <2>1, BytesAre
  <2> QED
    BY <1>3, <2>2 DEF FlatValues, Values
<1>4. CASE T[i].kind # "str"
  <2>1. FixedSize(T[i]) \in Nat
    BY <1>1, <1>4, FlatPartIs, FixedFieldIs
  <2>2. MemoryBytes(OffsetOf(T, i), FixedSize(T[i])) \in Seq(CellSet)
    BY <1>2, <2>1, BytesAre
  <2> QED
    BY <1>4, <2>2 DEF FlatValues, Values
<1> QED
  BY <1>3, <1>4

(* What OfShown joins.                                                     *)
ShownPieces(T, made) == [i \in DOMAIN T |-> IF T[i].pad THEN <<>> ELSE made[i]]

(* It is the pieces of what is not padding, joined.                        *)
LEMMA OfShownIs ==
  ASSUME NEW S, NEW T, NEW n \in Nat, DOMAIN T = 1..n, NEW made,
         \A i \in 1..n : made[i] \in Seq(S)
  PROVE  /\ OfShown(T, made) = FlattenSeq(ShownPieces(T, made))
         /\ ShownPieces(T, made) \in Seq(Seq(S))
         /\ Len(ShownPieces(T, made)) = n
         /\ OfShown(T, made) \in Seq(S)
<1>1. ShownPieces(T, made) \in Seq(Seq(S)) /\ Len(ShownPieces(T, made)) = n
  <2> DEFINE e(i) == IF T[i].pad THEN <<>> ELSE made[i]
  <2>1. \A i \in 1..n : e(i) \in Seq(S)
    OBVIOUS
  <2>2. ShownPieces(T, made) = [i \in 1..n |-> e(i)]
    BY DEF ShownPieces
  <2> HIDE DEF e
  <2> QED
    BY <2>1, <2>2
<1>2. OfShown(T, made) = FlattenSeq(ShownPieces(T, made))
  BY DEF OfShown, ShownPieces
<1>3. FlattenSeq(ShownPieces(T, made)) \in Seq(S)
  <2> DEFINE ss == ShownPieces(T, made)
  <2> HIDE DEF ss
  <2>1. ss \in Seq(Seq(S)) /\ Len(ss) \in 0..Len(ss)
    BY <1>1 DEF ss
  <2>2. FlattenSeq(ss) = Upto(ss, Len(ss)) /\ Upto(ss, Len(ss)) \in Seq(S)
    BY <2>1, UptoJoins
  <2> QED
    BY <2>2 DEF ss
<1> QED
  BY <1>1, <1>2, <1>3

(* What a flat type shows are values.                                      *)
LEMMA FlatFieldsOfIs ==
  ASSUME NEW T \in Seq(FlatFields)
  PROVE  FlatFieldsOf(T) \in Values
<1> DEFINE n == Len(T)
           made == [i \in DOMAIN T |-> FlatValues(T, i)]
<1>1. n \in Nat /\ DOMAIN T = 1..n
  OBVIOUS
<1>2. \A i \in 1..n : FlatValues(T, i) \in Values
  BY FlatIsLaidOut, FlatValuesAre
<1>3. \A i \in 1..n : made[i] \in Seq(Seq(CellSet))
  BY <1>1, <1>2 DEF Values
<1> HIDE DEF made, n
<1>4. OfShown(T, made) \in Seq(Seq(CellSet))
  BY <1>1, <1>3, OfShownIs
<1> QED
  BY <1>4 DEF FlatFieldsOf, made, Values

-----------------------------------------------------------------------------
(* What is known of a type where it is held has the types that one expects. *)
IsSubroutine(t) ==
  /\ t.fields \in Seq(FlatFields)
  /\ t.body \in Nat
  /\ t = InlineVariant(t.fields, t.body)

KnownMarks(size) == SUBSET ((1..size) \X Nat)

Typed(t) ==
  /\ t.align \in Nat \ {0}
  /\ t.size \in Nat
  /\ t.marks \in KnownMarks(t.size)
  /\ t.shown \in Values
  /\ \A c \in t.callees : c \in Types \/ IsSubroutine(c)
  /\ t.unread \in Int

(* The types of its nested fields are Typed.                               *)
HoldsTyped(T) ==
  T \in Seq(Fields) /\ \A i \in 1..Len(T) : T[i].kind = "nested" => Typed(T[i].type)

(* Fields with such types can be laid out.                                 *)
LEMMA HoldsTypedIsLaidOut ==
  ASSUME NEW T, HoldsTyped(T)
  PROVE  LaidOut(T)
<1>1. ASSUME NEW i \in 1..Len(T)
      PROVE  FieldPart(T[i]) \in RealParts
  <2>1. T[i] \in Fields
    BY DEF HoldsTyped
  <2>2. CASE T[i].kind \in {"fixed", "str"}
    BY <2>1, <2>2, FieldKind, FlatPartIs
  <2>3. CASE T[i].kind = "nested"
    <3>1. T[i].type.align \in Nat \ {0} /\ T[i].type.size \in Nat
      BY <2>3 DEF HoldsTyped, Typed
    <3>2. FieldPart(T[i]) = Part(T[i].type.align, T[i].type.size)
      BY <2>1, <2>3, FieldKind, NestedFieldIs
    <3> QED
      BY <3>1, <3>2, RealPartIs
  <2>4. CASE T[i].kind = "inline"
    BY <2>1, <2>4, FieldKind, InlineFieldIs
  <2> QED
    BY <2>1, <2>2, <2>3, <2>4, FieldKind
<1> QED
  BY <1>1 DEF HoldsTyped, LaidOut

(* The discriminants of a struct lie in the struct.                        *)
LEMMA MarksAre ==
  ASSUME NEW T, HoldsTyped(T)
  PROVE  Marks(T) \in KnownMarks(StructSize(T))
<1> DEFINE M(i) == CASE T[i].kind = "nested" ->
                          {<<OffsetOf(T, i) + m[1], m[2]>> : m \in T[i].type.marks}
                     [] T[i].kind = "inline" -> {<<OffsetOf(T, i) + 1, T[i].pick>>}
                     [] OTHER -> {}
<1>1. LaidOut(T)
  BY HoldsTypedIsLaidOut
<1>2. /\ DOMAIN T = 1..Len(T)
      /\ StructSize(T) \in Nat
      /\ \A i \in 1..Len(T) : /\ OffsetOf(T, i) \in Nat /\ FieldSize(T[i]) \in Nat
                              /\ OffsetOf(T, i) + FieldSize(T[i]) <= StructSize(T)
  BY <1>1, OffsetsAre, EndsGrow
<1>3. ASSUME NEW i \in 1..Len(T)
      PROVE  M(i) \subseteq (1..StructSize(T)) \X Nat
  <2>1. T[i] \in Fields
    BY DEF HoldsTyped
  <2>2. CASE T[i].kind = "nested"
    <3>1. /\ T[i].type.marks \subseteq (1..T[i].type.size) \X Nat
          /\ T[i].type.align \in Nat \ {0} /\ T[i].type.size \in Nat
      BY <2>2 DEF HoldsTyped, Typed, KnownMarks
    <3>2. FieldPart(T[i]) = Part(T[i].type.align, T[i].type.size)
      BY <2>1, <2>2, FieldKind, NestedFieldIs
    <3>3. FieldSize(T[i]) = T[i].type.size
      BY <3>1, <3>2, RealPartIs DEF FieldSize
    <3>4. ASSUME NEW m \in T[i].type.marks
          PROVE  <<OffsetOf(T, i) + m[1], m[2]>> \in (1..StructSize(T)) \X Nat
      <4>1. m[1] \in 1..FieldSize(T[i]) /\ m[2] \in Nat
        BY <3>1, <3>3
      <4>2. OffsetOf(T, i) + m[1] \in 1..StructSize(T)
        BY <1>2, <4>1
      <4> QED
        BY <4>1, <4>2
    <3> QED
      BY <2>2, <3>4
  <2>3. CASE T[i].kind = "inline"
    <3>1. /\ T[i].pick \in Nat
          /\ UnionAlign(T[i].variants) \in Nat \ {0} /\ UnionSize(T[i].variants) \in Nat
          /\ FieldSize(T[i]) = UnionAlign(T[i].variants) + UnionSize(T[i].variants)
      BY <2>1, <2>3, FieldKind, InlineFieldIs
    <3>2. OffsetOf(T, i) + 1 \in 1..StructSize(T)
      BY <1>2, <3>1
    <3> QED
      BY <2>3, <3>1, <3>2
  <2>4. CASE T[i].kind \notin {"nested", "inline"}
    BY <2>4
  <2> QED
    BY <2>2, <2>3, <2>4
<1>4. Marks(T) = UNION {M(i) : i \in 1..Len(T)}
  BY <1>2 DEF Marks
<1> HIDE DEF M
<1> QED
  BY <1>3, <1>4 DEF KnownMarks

(* What a field shows are values,                                          *)
LEMMA FieldValuesAre ==
  ASSUME NEW T, HoldsTyped(T), NEW i \in 1..Len(T)
  PROVE  FieldValues(T, i) \in Values
<1>1. T[i] \in Fields /\ LaidOut(T)
  BY HoldsTypedIsLaidOut DEF HoldsTyped
<1>2. OffsetOf(T, i) \in Nat
  BY <1>1, OffsetsAre
<1>3. CASE T[i].kind \in {"fixed", "str"}
  <2>1. T[i] \in FlatFields
    BY <1>1, <1>3, FieldKind
  <2>2. FlatValues(T, i) \in Values
    BY <1>1, <2>1, FlatValuesAre
  <2> QED
    BY <1>3, <2>2 DEF FieldValues
<1>4. CASE T[i].kind = "nested"
  <2>1. T[i].type.shown \in Values
    BY <1>4 DEF HoldsTyped, Typed
  <2>2. FieldValues(T, i) = Moved(T[i].type.shown, OffsetOf(T, i))
    BY <1>4 DEF FieldValues
  <2> QED
    BY <1>2, <2>1, <2>2, MovedIs
<1>5. CASE T[i].kind = "inline"
  <2>1. /\ T[i].variants[T[i].pick] \in Seq(FlatFields)
        /\ UnionAlign(T[i].variants) \in Nat
    BY <1>1, <1>5, FieldKind, InlineFieldIs
  <2>2. FlatFieldsOf(T[i].variants[T[i].pick]) \in Values
    BY <2>1, FlatFieldsOfIs
  <2>3. FieldValues(T, i) = Moved(FlatFieldsOf(T[i].variants[T[i].pick]),
                                  OffsetOf(T, i) + UnionAlign(T[i].variants))
    BY <1>5 DEF FieldValues
  <2>4. OffsetOf(T, i) + UnionAlign(T[i].variants) \in Nat
    BY <1>2, <2>1
  <2> QED
    BY <2>2, <2>3, <2>4, MovedIs
<1> QED
  BY <1>1, <1>3, <1>4, <1>5, FieldKind

(* and so is what all fields show.                                         *)
LEMMA FieldsOfIs ==
  ASSUME NEW T, HoldsTyped(T)
  PROVE  FieldsOf(T) \in Values
<1> DEFINE n == Len(T)
           made == [i \in DOMAIN T |-> FieldValues(T, i)]
<1>1. n \in Nat /\ DOMAIN T = 1..n
  BY HoldsTypedIsLaidOut, OffsetsAre
<1>2. \A i \in 1..n : FieldValues(T, i) \in Values
  BY FieldValuesAre
<1>3. \A i \in 1..n : made[i] \in Seq(Seq(CellSet))
  BY <1>1, <1>2 DEF Values
<1> HIDE DEF made, n
<1>4. OfShown(T, made) \in Seq(Seq(CellSet))
  BY <1>1, <1>3, OfShownIs
<1> QED
  BY <1>4 DEF FieldsOf, made, Values

(* The type whose bytecode a variant of an inline enum is.                 *)
LEMMA SubroutineIs ==
  ASSUME NEW f \in InlineFields, NEW j \in 1..Len(f.variants)
  PROVE  /\ IsSubroutine(Subroutine(f, j))
         /\ Subroutine(f, j).form = "inline"
         /\ Subroutine(f, j).fields = f.variants[j]
         /\ Subroutine(f, j).body = UnionBody(f.variants)
<1>1. f.variants \in Seq(Seq(FlatFields))
  BY InlineFieldIs
<1>2. f.variants[j] \in Seq(FlatFields) /\ UnionBody(f.variants) \in Nat
  BY <1>1, UnionBodyIs
<1>3. Subroutine(f, j) = [form |-> "inline", fields |-> f.variants[j],
                          body |-> UnionBody(f.variants)]
  BY DEF Subroutine, InlineVariant
<1> QED
  BY <1>2, <1>3 DEF IsSubroutine, InlineVariant

(* The callees of a type are types and variants, with those of its nested  *)
(* fields.                                                                 *)
LEMMA CalleesAre ==
  ASSUME NEW T, HoldsTyped(T)
  PROVE  /\ \A c \in Callees(T) : c \in Types \/ IsSubroutine(c)
         /\ \A i \in 1..Len(T) :
              /\ T[i].kind = "nested" => /\ T[i].type \in Callees(T)
                                         /\ T[i].type.callees \subseteq Callees(T)
              /\ T[i].kind = "inline" =>
                   \A j \in 1..T[i].listed : Subroutine(T[i], j) \in Callees(T)
<1> DEFINE C(i) == CASE T[i].kind = "nested" -> {T[i].type} \cup T[i].type.callees
                     [] T[i].kind = "inline" -> {Subroutine(T[i], j) : j \in 1..T[i].listed}
                     [] OTHER -> {}
<1>1. DOMAIN T = 1..Len(T) /\ \A i \in 1..Len(T) : T[i] \in Fields
  BY DEF HoldsTyped
<1>2. Callees(T) = UNION {C(i) : i \in 1..Len(T)}
  BY <1>1 DEF Callees
<1>3. ASSUME NEW i \in 1..Len(T)
      PROVE  /\ \A c \in C(i) : c \in Types \/ IsSubroutine(c)
             /\ T[i].kind = "nested" => /\ T[i].type \in C(i)
                                        /\ T[i].type.callees \subseteq C(i)
             /\ T[i].kind = "inline" =>
                  \A j \in 1..T[i].listed : Subroutine(T[i], j) \in C(i)
  <2>1. CASE T[i].kind = "nested"
    <3>1. T[i].type \in Types
      BY <1>1, <2>1, FieldKind, NestedFieldIs
    <3>2. \A c \in T[i].type.callees : c \in Types \/ IsSubroutine(c)
      BY <2>1 DEF HoldsTyped, Typed
    <3>3. C(i) = {T[i].type} \cup T[i].type.callees
      BY <2>1
    <3> HIDE DEF C
    <3> QED
      BY <2>1, <3>1, <3>2, <3>3
  <2>2. CASE T[i].kind = "inline"
    <3>1. T[i] \in InlineFields /\ T[i].listed \in Nat /\ T[i].listed <= Len(T[i].variants)
          /\ T[i].variants \in Seq(Seq(FlatFields))
      BY <1>1, <2>2, FieldKind, InlineFieldIs
    <3>5. Len(T[i].variants) \in Nat
      BY <3>1
    <3>2. \A j \in 1..T[i].listed : j \in 1..Len(T[i].variants)
      BY <3>1, <3>5
    <3>3. \A j \in 1..T[i].listed : IsSubroutine(Subroutine(T[i], j))
      BY <3>1, <3>2, SubroutineIs
    <3>4. C(i) = {Subroutine(T[i], j) : j \in 1..T[i].listed}
      BY <2>2
    <3> HIDE DEF C
    <3> QED
      BY <2>2, <3>3, <3>4
  <2>3. CASE T[i].kind \notin {"nested", "inline"}
    BY <2>3
  <2> QED
    BY <2>1, <2>2, <2>3
<1> HIDE DEF C
<1>4. \A i \in 1..Len(T) : C(i) \subseteq Callees(T)
  BY <1>2
<1>5. \A c \in Callees(T) : c \in Types \/ IsSubroutine(c)
  BY <1>2, <1>3
<1>6. \A i \in 1..Len(T) :
        /\ T[i].kind = "nested" => /\ T[i].type \in Callees(T)
                                   /\ T[i].type.callees \subseteq Callees(T)
        /\ T[i].kind = "inline" =>
             \A j \in 1..T[i].listed : Subroutine(T[i], j) \in Callees(T)
  BY <1>3, <1>4
<1> QED
  BY <1>5, <1>6

(* What the subroutines of a type leave unread is a number of bytes.       *)
LEMMA UnreadIs ==
  ASSUME NEW T, HoldsTyped(T)
  PROVE  /\ \A i \in 1..Len(T) : Unread(T[i]) \in Int
         /\ [i \in DOMAIN T |-> Unread(T[i])] \in Seq(Int)
         /\ Len([i \in DOMAIN T |-> Unread(T[i])]) = Len(T)
         /\ UnreadIn(T) \in Int
<1>1. LaidOut(T)
  BY HoldsTypedIsLaidOut
<1>2. /\ Len(T) \in Nat /\ DOMAIN T = 1..Len(T)
      /\ EndOf(T, Len(T)) \in Nat /\ StructSize(T) \in Nat
  BY <1>1, OffsetsAre
<1>3. ASSUME NEW i \in 1..Len(T)
      PROVE  Unread(T[i]) \in Int
  <2>1. T[i] \in Fields
    BY DEF HoldsTyped
  <2>2. CASE T[i].kind = "nested"
    BY <2>2 DEF Unread, HoldsTyped, Typed
  <2>3. CASE T[i].kind = "inline"
    <3> DEFINE V == T[i].variants[T[i].pick]
    <3>1. /\ T[i].variants \in Seq(Seq(FlatFields)) /\ V \in Seq(FlatFields)
          /\ UnionSize(T[i].variants) \in Nat
      BY <2>1, <2>3, FieldKind, InlineFieldIs
    <3> HIDE DEF V
    <3>2. LogicalSize(V) \in Nat /\ TotalSize(V) \in Nat /\ UnionBody(T[i].variants) \in Nat
      BY <3>1, MacroEndsAre, TotalSizeIs, UnionBodyIs
    <3>3. Unread(T[i]) = UnionSize(T[i].variants)
                           - (LogicalSize(V) + (UnionBody(T[i].variants) - TotalSize(V)))
      BY <2>3 DEF Unread, V
    <3> QED
      BY <3>1, <3>2, <3>3
  <2>4. CASE T[i].kind \notin {"nested", "inline"}
    BY <2>4 DEF Unread
  <2> QED
    BY <2>2, <2>3, <2>4
<1> DEFINE u == [i \in DOMAIN T |-> Unread(T[i])]
<1>4. u \in Seq(Int) /\ Len(u) = Len(T)
  BY <1>2, <1>3
<1> HIDE DEF u
<1>5. SumOf(u) \in Int
  <2>1. PICK g : Sums(g, u)
    BY <1>4, SumsExist
  <2>2. g[Len(u)] \in Int
    BY <1>2, <1>4, <2>1 DEF Sums
  <2> QED
    BY <1>4, <2>1, <2>2, SumIs
<1>6. UnreadIn(T) = (StructSize(T) - EndOf(T, Len(T))) + SumOf(u)
  BY DEF UnreadIn, u
<1> QED
  BY <1>2, <1>3, <1>4, <1>5, <1>6 DEF u

(* A struct that holds such types is one itself,                           *)
LEMMA StructIsTyped ==
  ASSUME NEW T, HoldsTyped(T)
  PROVE  Typed(Struct(T))
<1> DEFINE t == Struct(T)
<1>1. /\ t.align = StructAlign(T) /\ t.size = StructSize(T) /\ t.marks = Marks(T)
      /\ t.shown = FieldsOf(T) /\ t.callees = Callees(T) /\ t.unread = UnreadIn(T)
  BY DEF Struct
<1> HIDE DEF t
<1>2. StructAlign(T) \in Nat \ {0} /\ StructSize(T) \in Nat
  BY HoldsTypedIsLaidOut, OffsetsAre
<1>3. Marks(T) \in KnownMarks(StructSize(T)) /\ FieldsOf(T) \in Values
  BY MarksAre, FieldsOfIs
<1>4. (\A c \in Callees(T) : c \in Types \/ IsSubroutine(c)) /\ UnreadIn(T) \in Int
  BY CalleesAre, UnreadIs
<1>5. Typed(t)
  BY <1>1, <1>2, <1>3, <1>4 DEF Typed
<1> QED
  BY <1>5 DEF t

(* A type is nested deeper than those that it holds.                       *)
LEMMA HeightIs ==
  ASSUME NEW T \in Seq(Fields)
  PROVE  /\ Height(T) \in Nat
         /\ \A i \in 1..Len(T) :
              /\ T[i].kind = "nested" => T[i].type.height \in Nat
                                         /\ T[i].type.height + 1 <= Height(T)
              /\ T[i].kind = "inline" => 1 <= Height(T)
<1> DEFINE n == Len(T)
           H(i) == CASE T[i].kind = "nested" -> T[i].type.height + 1
                     [] T[i].kind = "inline" -> 1
                     [] OTHER -> 0
           f == [i \in 1..n |-> H(i)]
           S == {0} \cup {H(i) : i \in DOMAIN T}
<1>1. n \in Nat /\ 0 \in Nat /\ DOMAIN T = 1..n /\ \A i \in 1..n : T[i] \in Fields
  OBVIOUS
<1>2. ASSUME NEW i \in 1..n
      PROVE  /\ H(i) \in Nat
             /\ T[i].kind = "nested" => T[i].type.height \in Nat
                                        /\ H(i) = T[i].type.height + 1
             /\ T[i].kind = "inline" => H(i) = 1
  <2>1. CASE T[i].kind = "nested"
    <3>1. T[i].type \in Types
      BY <1>1, <2>1, FieldKind, NestedFieldIs
    <3>2. T[i].type.height \in Nat
      BY <3>1, TypesAssumption DEF IsStruct
    <3> QED
      BY <2>1, <3>2
  <2>2. CASE T[i].kind # "nested"
    BY <2>2
  <2> QED
    BY <2>1, <2>2
<1>3. f \in [1..n -> Nat] /\ \A i \in 1..n : f[i] = H(i)
  BY <1>2
<1>4. Height(T) = Max(S)
  BY DEF Height
<1> HIDE DEF H
<1>5. S = {0} \cup {f[i] : i \in 1..n}
  BY <1>1
<1> HIDE DEF f, S
<1>6. Max(S) \in Nat /\ \A i \in 1..n : f[i] <= Max(S)
  BY <1>1, <1>3, <1>5, MaxIs
<1> HIDE DEF n
<1> QED
  BY <1>2, <1>3, <1>4, <1>6 DEF n

(* and so all of Types are, by induction on their heights.                 *)
LEMMA TypesAreTyped ==
  \A t \in Types : Typed(t) /\ HoldsTyped(t.fields)
<1> DEFINE S == {h \in Nat : \A t \in Types : t.height < h => Typed(t) /\ HoldsTyped(t.fields)}
<1>1. \A t \in Types : /\ t.fields \in Seq(Fields) /\ t = Struct(t.fields)
                       /\ t.height \in Nat /\ t.height = Height(t.fields)
  <2>1. \A t : Struct(t.fields).height = Height(t.fields)
    BY DEF Struct
  <2> QED
    BY <2>1, TypesAssumption DEF IsStruct, Fields
<1>2. 0 \in S
  BY <1>1
<1>3. ASSUME NEW h \in Nat, h \in S
      PROVE  h + 1 \in S
  <2> SUFFICES ASSUME NEW t \in Types, t.height < h + 1
               PROVE  Typed(t) /\ HoldsTyped(t.fields)
    OBVIOUS
  <2>1. ASSUME NEW i \in 1..Len(t.fields), t.fields[i].kind = "nested"
        PROVE  Typed(t.fields[i].type)
    <3>1. t.fields \in Seq(Fields) /\ t.fields[i] \in Fields
      BY <1>1
    <3>2. t.fields[i].type \in Types
      BY <2>1, <3>1, FieldKind, NestedFieldIs
    <3>3. t.fields[i].type.height \in Nat
          /\ t.fields[i].type.height + 1 <= Height(t.fields)
      BY <2>1, <3>1, HeightIs
    <3>4. t.fields[i].type.height < h
      BY <1>1, <3>3
    <3> QED
      BY <1>3, <3>2, <3>4
  <2>2. HoldsTyped(t.fields)
    BY <1>1, <2>1 DEF HoldsTyped
  <2> QED
    BY <1>1, <2>2, StructIsTyped
<1> HIDE DEF S
<1>4. Nat \subseteq S
  BY <1>2, <1>3, SetInduction
<1>5. ASSUME NEW t \in Types
      PROVE  Typed(t) /\ HoldsTyped(t.fields)
  <2>1. t.height + 1 \in Nat /\ t.height < t.height + 1
    BY <1>1
  <2>2. t.height + 1 \in S
    BY <1>4, <2>1
  <2> QED
    BY <2>1, <2>2 DEF S
<1> QED
  BY <1>5

-----------------------------------------------------------------------------
(* Bytecode.                                                               *)

(* The types that have bytecode.                                           *)
Coded(t) ==
  /\ HoldsTyped(t.fields)
  /\ IsStruct(t) \/ IsVariant(t) \/ IsSubroutine(t)

(* The types that are compiled are those.                                  *)
LEMMA CodedTypes ==
  /\ \A t \in Types : Coded(t)
  /\ \A e \in Events : Coded(e)
  /\ \A t : IsSubroutine(t) => Coded(t)
<1>1. \A T \in Seq(FlatFields) : HoldsTyped(T)
  BY FlatIsLaidOut DEF HoldsTyped, LaidOut
<1>2. \A t \in Types : Coded(t)
  BY TypesAreTyped, TypesAssumption DEF Coded
<1>3. ASSUME NEW t, IsStruct(t)
      PROVE  HoldsTyped(t.fields)
  <2>1. t.fields \in Seq(Fields)
    BY <1>3 DEF IsStruct, Fields
  <2>2. ASSUME NEW i \in 1..Len(t.fields), t.fields[i].kind = "nested"
        PROVE  Typed(t.fields[i].type)
    <3>1. t.fields[i] \in Fields
      BY <2>1
    <3>2. t.fields[i].type \in Types
      BY <2>2, <3>1, FieldKind, NestedFieldIs
    <3> QED
      BY <3>2, TypesAreTyped
  <2> QED
    BY <2>1, <2>2 DEF HoldsTyped
<1>4. \A e \in Events : Coded(e)
  BY <1>1, <1>3, EventsAssumption DEF Coded, IsVariant
<1>5. \A t : IsSubroutine(t) => Coded(t)
  BY <1>1 DEF Coded, IsSubroutine
<1> QED
  BY <1>2, <1>4, <1>5

(* Which generator of the macro a type goes to.                            *)
LEMMA TierIs ==
  ASSUME NEW t, Coded(t)
  PROVE  /\ IsVariant(t) => t.form = "variant" /\ Tier(t) = "variant"
         /\ IsSubroutine(t) => t.form = "inline" /\ Tier(t) = "inline"
         /\ IsStruct(t) => t.form = "struct" /\ Tier(t) \in {"tier1", "tier2", "nested"}
         /\ Tier(t) # "nested" => t.fields \in Seq(FlatFields)
         /\ Tier(t) = "tier1" => ~Has(t.fields, "str")
         /\ Tier(t) = "nested" => IsStruct(t) /\ ~Has(t.fields, "str")
<1>1. CASE IsVariant(t)
  <2>1. t.form = "variant" /\ t.fields \in Seq(FlatFields)
    <3>1. Variant(t.fields).form = "variant"
      BY DEF Variant
    <3> QED
      BY <1>1, <3>1 DEF IsVariant
  <2>2. Tier(t) = "variant"
    BY <2>1 DEF Tier
  <2>3. ~IsSubroutine(t) /\ ~IsStruct(t)
    <3>1. (\A b : InlineVariant(t.fields, b).form = "inline") /\ Struct(t.fields).form = "struct"
      BY DEF InlineVariant, Struct
    <3> QED
      BY <2>1, <3>1 DEF IsSubroutine, IsStruct
  <2> QED
    BY <2>1, <2>2, <2>3
<1>2. CASE IsSubroutine(t)
  <2>1. t.form = "inline" /\ t.fields \in Seq(FlatFields)
    <3>1. InlineVariant(t.fields, t.body).form = "inline"
      BY DEF InlineVariant
    <3> QED
      BY <1>2, <3>1 DEF IsSubroutine
  <2>2. Tier(t) = "inline"
    BY <2>1 DEF Tier
  <2>3. ~IsVariant(t) /\ ~IsStruct(t)
    <3>1. Variant(t.fields).form = "variant" /\ Struct(t.fields).form = "struct"
      BY DEF Variant, Struct
    <3> QED
      BY <2>1, <3>1 DEF IsVariant, IsStruct
  <2> QED
    BY <2>1, <2>2, <2>3
<1>3. CASE IsStruct(t)
  <2> DEFINE T == t.fields
  <2>1. t.form = "struct"
    <3>1. Struct(t.fields).form = "struct"
      BY DEF Struct
    <3> QED
      BY <1>3, <3>1 DEF IsStruct
  <2>2. ~IsVariant(t) /\ ~IsSubroutine(t)
    <3>1. (\A b : InlineVariant(t.fields, b).form = "inline")
          /\ Variant(t.fields).form = "variant"
      BY DEF InlineVariant, Variant
    <3> QED
      BY <2>1, <3>1 DEF IsSubroutine, IsVariant
  <2>3. Compiles(T) /\ T \in Seq(Fields)
    BY <1>3 DEF IsStruct, Fields
  <2>4. DOMAIN T = 1..Len(T) /\ \A i \in 1..Len(T) : T[i] \in Fields
    BY <2>3
  <2> HIDE DEF T
  <2>5. ASSUME ~Has(T, "nested"), ~Has(T, "inline")
        PROVE  T \in Seq(FlatFields)
    <3>1. \A i \in 1..Len(T) : T[i] \in FlatFields
      BY <2>4, <2>5, FieldKind DEF Has
    <3> QED
      BY <2>3, <3>1
  <2>6. CASE IsTier2(T)
    <3>1. Has(T, "str")
      BY <2>6 DEF IsTier2, Has
    <3>2. Tier(t) = "tier2"
      BY <2>1, <2>6 DEF Tier, T
    <3>3. T \in Seq(FlatFields)
      BY <2>3, <2>5, <3>1 DEF Compiles
    <3> QED
      BY <2>1, <2>2, <3>2, <3>3 DEF T
  <2>7. CASE ~IsTier2(T)
    <3>1. ~Has(T, "str")
      BY <2>3, <2>7 DEF Compiles
    <3>2. Tier(t) = IF Has(T, "nested") \/ Has(T, "inline") THEN "nested" ELSE "tier1"
      BY <2>1, <2>7 DEF Tier, T
    <3>3. Tier(t) # "nested" => T \in Seq(FlatFields)
      BY <2>5, <3>2
    <3> QED
      BY <1>3, <2>1, <2>2, <3>1, <3>2, <3>3 DEF T
  <2> QED
    BY <2>6, <2>7
<1> QED
  BY <1>1, <1>2, <1>3 DEF Coded

(* What stands in bytecode.                                                *)
Elements == Int \cup Types \cup {InlineVariant(V, b) : V \in Seq(FlatFields), b \in Nat}
Pieces(t) == [i \in DOMAIN t.fields |-> Lead(t, i) \o Instruction(t.fields[i])]
Gap(t, i) == IF Tier(t) = "nested" THEN NestedGap(t.fields, i) ELSE GapBefore(t.fields, i)

(* In front of a field stands nothing, or one SKIP over the gap.           *)
LEMMA LeadIs ==
  ASSUME NEW t, Coded(t), NEW i \in 1..Len(t.fields)
  PROVE  /\ Gap(t, i) \in Nat
         /\ Lead(t, i) \in Seq(Elements)
         /\ \/ Lead(t, i) = <<>> /\ Gap(t, i) = 0
            \/ Lead(t, i) = SkipOver(Gap(t, i))
<1>1. Gap(t, i) \in Nat
  <2>1. CASE Tier(t) = "nested"
    <3>1. LaidOut(t.fields)
      BY HoldsTypedIsLaidOut DEF Coded
    <3>2. /\ EndOf(t.fields, i - 1) \in Nat /\ OffsetOf(t.fields, i) \in Nat
          /\ EndOf(t.fields, i - 1) <= OffsetOf(t.fields, i)
      <4>1. i - 1 \in 0..Len(t.fields)
        BY <3>1, OffsetsAre
      <4> QED
        BY <3>1, <4>1, OffsetsAre
    <3> QED
      BY <2>1, <3>2 DEF Gap, NestedGap
  <2>2. CASE Tier(t) # "nested"
    <3>1. t.fields \in Seq(FlatFields)
      BY <2>2, TierIs
    <3>2. GapBefore(t.fields, i) \in Nat
      BY <3>1, MacroEndsAre
    <3> QED
      BY <2>2, <3>2 DEF Gap
  <2> QED
    BY <2>1, <2>2
<1>2. \/ Lead(t, i) = <<>> /\ Gap(t, i) = 0
      \/ Lead(t, i) = SkipOver(Gap(t, i))
  BY DEF Lead, Gap, PushSkip
<1>3. \A n \in Nat : SkipOver(n) \in Seq(Elements)
  BY DEF SkipOver, Elements, Opcode, Item, FixedArray
<1>4. <<>> \in Seq(Elements)
  OBVIOUS
<1>5. Lead(t, i) \in Seq(Elements)
  BY <1>1, <1>2, <1>3, <1>4
<1> QED
  BY <1>1, <1>2, <1>5

(* The opcodes of the scalar types differ.                                 *)
LEMMA ItemIs ==
  /\ \A ty \in ScalarTypes :
       /\ Item[ty] \in {1, 2, 3, 4, 5, 6, 7, 8, 11, 12, 13, 16, 17}
       /\ Item[ty] = 16 <=> ty = "ZfmtStr"
       /\ Item[ty] = 17 <=> ty = "ZfmtU64"
  /\ \A a, b \in ScalarTypes : Item[a] = Item[b] => a = b
  /\ Item.u8 = 1
<1>1. /\ Item["u8"] = 1 /\ Item["u16"] = 2 /\ Item["u32"] = 3 /\ Item["u64"] = 4
      /\ Item["i8"] = 5 /\ Item["i16"] = 6 /\ Item["i32"] = 7 /\ Item["i64"] = 8
      /\ Item["f32"] = 11 /\ Item["f64"] = 12 /\ Item["bool"] = 13
      /\ Item["ZfmtStr"] = 16 /\ Item["ZfmtU64"] = 17
  BY DEF Item
<1> QED
  BY <1>1 DEF ScalarTypes

(* The instruction of a scalar or an array.                                *)
LEMMA EmitFieldIs ==
  ASSUME NEW f \in FixedFields
  PROVE  /\ f.array /\ f.ty = "u8" => EmitField(f) = <<73, f.n>>
         /\ f.array /\ f.ty # "u8" => EmitField(f) = <<Item[f.ty] * 8 + 1, f.n>>
         /\ ~f.array => EmitField(f) = <<Item[f.ty] * 8>>
<1>1. Item[f.ty] \in Nat /\ Item.utf8 = 9 /\ f.array \in BOOLEAN
  <2>1. f.ty \in ScalarTypes /\ f.array \in BOOLEAN
    BY FixedFieldIs
  <2>2. Item.utf8 = 9
    BY DEF Item
  <2> QED
    BY <2>1, <2>2, ItemIs
<1>2. CASE f.array
  BY <1>1, <1>2 DEF EmitField, Opcode, FixedArray
<1>3. CASE ~f.array
  BY <1>1, <1>3 DEF EmitField, Opcode, Single
<1> QED
  BY <1>2, <1>3

(* The instruction of an inline enum, with its table.                      *)
LEMMA DispatchCodeIs ==
  ASSUME NEW f \in InlineFields
  PROVE  /\ DispatchCode(f) \in Seq(Elements)
         /\ Len(DispatchCode(f)) = 4 + 2 * f.listed
         /\ DispatchCode(f)[1] = 112
         /\ DispatchCode(f)[3] = UnionAlign(f.variants) - 1
         /\ DispatchCode(f)[4] = f.listed
         /\ \A d \in 1..f.listed : DispatchCode(f)[4 + 2 * d] = Subroutine(f, d)
<1> DEFINE h == <<Opcode(Item.dispatch, Single), Item.u8, UnionAlign(f.variants) - 1, f.listed>>
           r == [k \in 1..(2 * f.listed) |->
                   IF k % 2 = 1 THEN (k + 1) \div 2 ELSE Subroutine(f, k \div 2)]
<1>1. /\ f.listed \in Nat /\ f.listed <= Len(f.variants) /\ Len(f.variants) \in Nat
      /\ UnionAlign(f.variants) - 1 \in Nat /\ f.variants \in Seq(Seq(FlatFields))
  <2>1. /\ f.listed \in Nat /\ f.listed <= Len(f.variants)
        /\ UnionAlign(f.variants) \in Nat \ {0} /\ f.variants \in Seq(Seq(FlatFields))
    BY InlineFieldIs
  <2>2. Len(f.variants) \in Nat
    BY <2>1
  <2> QED
    BY <2>1, <2>2
<1>2. h \in Seq(Elements) /\ Len(h) = 4 /\ h[1] = 112
      /\ h[3] = UnionAlign(f.variants) - 1 /\ h[4] = f.listed
  <2>1. h = <<112, 1, UnionAlign(f.variants) - 1, f.listed>>
    BY DEF Opcode, Item, Single
  <2> QED
    BY <1>1, <2>1 DEF Elements
<1>3. ASSUME NEW d \in 1..f.listed
      PROVE  Subroutine(f, d) \in Elements
  <2>1. d \in 1..Len(f.variants)
    BY <1>1
  <2>2. f.variants[d] \in Seq(FlatFields) /\ UnionBody(f.variants) \in Nat
    BY <1>1, <2>1, UnionBodyIs
  <2> QED
    BY <2>2 DEF Subroutine, Elements
<1>4. ASSUME NEW k \in 1..(2 * f.listed)
      PROVE  r[k] \in Elements
  <2>1. CASE k % 2 = 1
    <3>1. (k + 1) \div 2 \in Int
      BY <1>1
    <3> QED
      BY <2>1, <3>1 DEF Elements
  <2>2. CASE k % 2 # 1
    <3>1. k \div 2 \in 1..f.listed
      BY <1>1, <2>2
    <3> QED
      BY <1>3, <2>2, <3>1
  <2> QED
    BY <2>1, <2>2
<1>5. r \in Seq(Elements) /\ Len(r) = 2 * f.listed
  <2> DEFINE m == 2 * f.listed
             e(k) == IF k % 2 = 1 THEN (k + 1) \div 2 ELSE Subroutine(f, k \div 2)
  <2>1. m \in Nat
    BY <1>1
  <2>2. \A k \in 1..m : e(k) \in Elements
    BY <1>4
  <2>3. r = [k \in 1..m |-> e(k)]
    OBVIOUS
  <2> HIDE DEF r, m, e
  <2>4. r \in Seq(Elements) /\ Len(r) = m
    BY <2>1, <2>2, <2>3
  <2> QED
    BY <2>4 DEF m
<1>6. ASSUME NEW d \in 1..f.listed
      PROVE  2 * d \in 1..(2 * f.listed) /\ r[2 * d] = Subroutine(f, d)
  <2>1. 2 * d \in 1..(2 * f.listed) /\ (2 * d) % 2 = 0 /\ (2 * d) \div 2 = d
    BY <1>1
  <2> QED
    BY <2>1
<1> HIDE DEF h, r
<1>7. DispatchCode(f) = h \o r
  BY DEF DispatchCode, h, r
<1>8. /\ h \o r \in Seq(Elements) /\ Len(h \o r) = Len(h) + Len(r)
      /\ \A k \in 1..Len(h) : (h \o r)[k] = h[k]
      /\ \A k \in 1..Len(r) : (h \o r)[Len(h) + k] = r[k]
  <2>1. h \in Seq(Elements) /\ r \in Seq(Elements)
    BY <1>2, <1>5
  <2> QED
    BY <2>1, ConcatIs
<1>9. ASSUME NEW d \in 1..f.listed
      PROVE  DispatchCode(f)[4 + 2 * d] = Subroutine(f, d)
  <2>1. 2 * d \in 1..Len(r) /\ r[2 * d] = Subroutine(f, d)
    BY <1>5, <1>6
  <2>2. (h \o r)[Len(h) + 2 * d] = r[2 * d]
    BY <1>8, <2>1
  <2> QED
    BY <1>2, <1>7, <2>1, <2>2
<1>10. (h \o r)[1] = h[1] /\ (h \o r)[3] = h[3] /\ (h \o r)[4] = h[4]
  BY <1>2, <1>8
<1> QED
  BY <1>2, <1>5, <1>7, <1>8, <1>9, <1>10

(* The instruction of a field is at least an opcode.                       *)
LEMMA InstructionIs ==
  ASSUME NEW f \in Fields
  PROVE  /\ Instruction(f) \in Seq(Elements)
         /\ Len(Instruction(f)) \in Nat \ {0}
         /\ f.kind = "str" => Instruction(f) = <<75>>
         /\ f.kind = "fixed" /\ f.pad => Instruction(f) = <<81, FixedSize(f)>>
         /\ f.kind = "fixed" /\ ~f.pad => Instruction(f) = EmitField(f)
         /\ f.kind = "nested" => Instruction(f) = <<120, f.type>>
         /\ f.kind = "inline" => Instruction(f) = DispatchCode(f)
<1>1. CASE f.kind = "str"
  <2>1. Instruction(f) = <<75>>
    BY <1>1 DEF Instruction, Opcode, Item, VarLength
  <2> QED
    BY <1>1, <2>1 DEF Elements
<1>2. CASE f.kind = "fixed" /\ f.pad
  <2>1. f \in FixedFields
    BY <1>2, FieldKind
  <2>2. FixedSize(f) \in Nat /\ FixedSize(f) # 0
    BY <1>2, <2>1, FixedFieldIs
  <2>3. Instruction(f) = <<81, FixedSize(f)>>
    BY <1>2, <2>2 DEF Instruction, PushSkip, SkipOver, Opcode, Item, FixedArray
  <2> QED
    BY <1>2, <2>2, <2>3 DEF Elements
<1>3. CASE f.kind = "fixed" /\ ~f.pad
  <2>1. f \in FixedFields
    BY <1>3, FieldKind
  <2>2. Instruction(f) = EmitField(f)
    BY <1>3 DEF Instruction
  <2>3. f.n \in Nat /\ Item[f.ty] \in Nat /\ f.ty \in ScalarTypes /\ f.array \in BOOLEAN
    <3>1. f.ty \in ScalarTypes /\ f.n \in Nat /\ f.array \in BOOLEAN
      BY <2>1, FixedFieldIs
    <3> QED
      BY <3>1, ItemIs
  <2>4. Nat \subseteq Elements /\ Item[f.ty] * 8 + 1 \in Nat /\ Item[f.ty] * 8 \in Nat /\ 73 \in Nat
    BY <2>3 DEF Elements
  <2>5. EmitField(f) \in {<<73, f.n>>, <<Item[f.ty] * 8 + 1, f.n>>, <<Item[f.ty] * 8>>}
    BY <2>1, <2>3, EmitFieldIs
  <2>7. \A x, y \in Nat : /\ <<x, y>> \in Seq(Elements) /\ Len(<<x, y>>) \in Nat \ {0}
                          /\ <<x>> \in Seq(Elements) /\ Len(<<x>>) \in Nat \ {0}
    BY DEF Elements
  <2>6. EmitField(f) \in Seq(Elements) /\ Len(EmitField(f)) \in Nat \ {0}
    <3>1. CASE EmitField(f) = <<73, f.n>>
      BY <2>3, <2>4, <2>7, <3>1
    <3>2. CASE EmitField(f) = <<Item[f.ty] * 8 + 1, f.n>>
      BY <2>3, <2>4, <2>7, <3>2
    <3>3. CASE EmitField(f) = <<Item[f.ty] * 8>>
      BY <2>3, <2>4, <2>7, <3>3
    <3> QED
      BY <2>5, <3>1, <3>2, <3>3
  <2> QED
    BY <1>3, <2>2, <2>6
<1>4. CASE f.kind = "nested"
  <2>1. f.type \in Types
    BY <1>4, FieldKind, NestedFieldIs
  <2>2. Instruction(f) = <<120, f.type>>
    BY <1>4 DEF Instruction, Opcode, Item, Single
  <2> QED
    BY <1>4, <2>1, <2>2 DEF Elements
<1>5. CASE f.kind = "inline"
  <2>1. f \in InlineFields
    BY <1>5, FieldKind
  <2>2. Instruction(f) = DispatchCode(f)
    BY <1>5 DEF Instruction
  <2>3. f.listed \in Nat
    BY <2>1, InlineFieldIs
  <2> QED
    BY <1>5, <2>1, <2>2, <2>3, DispatchCodeIs
<1>6. f.pad \in BOOLEAN
  BY FieldKind
<1> QED
  BY <1>1, <1>2, <1>3, <1>4, <1>5, <1>6, FieldKind

-----------------------------------------------------------------------------
(* Where the instructions stand.  Behind the last field, the place of one  *)
(* more is taken by the skip to the end of a union and END.                *)
TailGap(t) ==
  IF t.form = "inline" /\ t.body > TotalSize(t.fields)
  THEN t.body - TotalSize(t.fields) ELSE 0
Leads(t, i) == IF i = Len(t.fields) + 1 THEN TailSkip(t) ELSE Lead(t, i)
GapAt(t, i) == IF i = Len(t.fields) + 1 THEN TailGap(t) ELSE Gap(t, i)
Begin(t, i) == Len(Upto(Pieces(t), i - 1)) + 1
Inside(t, i) == Begin(t, i) + Len(Leads(t, i))

(* What leads to a field is nothing, or one SKIP over the gap.             *)
LEMMA LeadsAre ==
  ASSUME NEW t, Coded(t), NEW i \in 1..(Len(t.fields) + 1)
  PROVE  /\ GapAt(t, i) \in Nat
         /\ Leads(t, i) \in Seq(Elements)
         /\ \/ Leads(t, i) = <<>> /\ GapAt(t, i) = 0
            \/ Leads(t, i) = <<81, GapAt(t, i)>>
<1>1. \A n : SkipOver(n) = <<81, n>>
  BY DEF SkipOver, Opcode, Item, FixedArray
<1>2. Len(t.fields) \in Nat
  BY HoldsTypedIsLaidOut, OffsetsAre DEF Coded
<1>3. CASE i \in 1..Len(t.fields)
  <2>1. i # Len(t.fields) + 1
    BY <1>2, <1>3
  <2>2. GapAt(t, i) = Gap(t, i) /\ Leads(t, i) = Lead(t, i)
    BY <2>1 DEF GapAt, Leads
  <2> QED
    BY <1>1, <1>3, <2>2, LeadIs
<1>4. CASE i = Len(t.fields) + 1
  <2>1. GapAt(t, i) = TailGap(t) /\ Leads(t, i) = TailSkip(t)
    BY <1>4 DEF GapAt, Leads
  <2>2. TailGap(t) \in Nat
    <3>1. CASE IsSubroutine(t)
      <4>1. t.body \in Nat /\ TotalSize(t.fields) \in Nat
        BY <3>1, TotalSizeIs DEF IsSubroutine
      <4> QED
        BY <4>1 DEF TailGap
    <3>2. CASE ~IsSubroutine(t)
      <4>1. t.form # "inline"
        BY <3>2, TierIs DEF Coded
      <4> QED
        BY <4>1 DEF TailGap
    <3> QED
      BY <3>1, <3>2
  <2>3. \/ TailSkip(t) = <<>> /\ TailGap(t) = 0
        \/ TailSkip(t) = SkipOver(TailGap(t))
    BY DEF TailSkip, TailGap, PushSkip
  <2>4. <<81, TailGap(t)>> \in Seq(Elements) /\ <<>> \in Seq(Elements)
    BY <2>2 DEF Elements
  <2> QED
    BY <1>1, <2>1, <2>2, <2>3, <2>4
<1> QED
  BY <1>2, <1>3, <1>4

(* The piece of a field is what leads to it and its instruction.           *)
LEMMA PiecesAre ==
  ASSUME NEW t, Coded(t)
  PROVE  /\ Len(t.fields) \in Nat /\ DOMAIN t.fields = 1..Len(t.fields)
         /\ \A i \in 1..Len(t.fields) : t.fields[i] \in Fields
         /\ Pieces(t) \in Seq(Seq(Elements)) /\ Len(Pieces(t)) = Len(t.fields)
         /\ \A i \in 1..Len(t.fields) :
              /\ Pieces(t)[i] = Leads(t, i) \o Instruction(t.fields[i])
              /\ Len(Pieces(t)[i]) = Len(Leads(t, i)) + Len(Instruction(t.fields[i]))
              /\ Pieces(t)[i] \in Seq(Elements)
<1> DEFINE n == Len(t.fields)
<1>1. n \in Nat /\ DOMAIN t.fields = 1..n
  BY HoldsTypedIsLaidOut, OffsetsAre DEF Coded
<1>2. \A i \in 1..n : t.fields[i] \in Fields
  BY HoldsTypedIsLaidOut DEF Coded, LaidOut
<1>3. ASSUME NEW i \in 1..n
      PROVE  /\ Pieces(t)[i] = Leads(t, i) \o Instruction(t.fields[i])
             /\ Len(Pieces(t)[i]) = Len(Leads(t, i)) + Len(Instruction(t.fields[i]))
             /\ Pieces(t)[i] \in Seq(Elements)
  <2>1. i \in 1..(n + 1) /\ i # n + 1
    BY <1>1
  <2>2. Leads(t, i) \in Seq(Elements) /\ Leads(t, i) = Lead(t, i)
    BY <2>1, LeadsAre DEF Leads
  <2>3. Instruction(t.fields[i]) \in Seq(Elements)
    BY <1>2, InstructionIs
  <2>4. Pieces(t)[i] = Leads(t, i) \o Instruction(t.fields[i])
    BY <1>1, <2>2 DEF Pieces
  <2> QED
    BY <2>2, <2>3, <2>4, ConcatIs
<1>4. Pieces(t) \in Seq(Seq(Elements)) /\ Len(Pieces(t)) = n
  <2> DEFINE e(i) == Lead(t, i) \o Instruction(t.fields[i])
  <2>1. Pieces(t) = [i \in 1..n |-> e(i)]
    BY <1>1 DEF Pieces
  <2> HIDE DEF e
  <2>2. \A i \in 1..n : e(i) \in Seq(Elements)
    BY <1>3, <2>1
  <2> HIDE DEF n
  <2> QED
    BY <1>1, <2>1, <2>2
<1> QED
  BY <1>1, <1>2, <1>3, <1>4

(* The bytecode of a type is its pieces one behind the other, the skip to  *)
(* the end of a union and END.                                             *)
LEMMA CodeIs ==
  ASSUME NEW t, Coded(t)
  PROVE  /\ Len(t.fields) \in Nat
         /\ Begin(t, 1) = 1
         /\ Len(CodeOf(t)) \in Nat
         /\ \A i \in 1..Len(t.fields) :
              /\ Begin(t, i) \in Nat \ {0}
              /\ Begin(t, i + 1) = Inside(t, i) + Len(Instruction(t.fields[i]))
              /\ Begin(t, i + 1) <= Len(CodeOf(t))
              /\ \A x \in 1..Len(Leads(t, i)) :
                   CodeOf(t)[Begin(t, i) + x - 1] = Leads(t, i)[x]
              /\ \A x \in 1..Len(Instruction(t.fields[i])) :
                   CodeOf(t)[Inside(t, i) + x - 1] = Instruction(t.fields[i])[x]
         /\ Begin(t, Len(t.fields) + 1) \in Nat \ {0}
         /\ Inside(t, Len(t.fields) + 1) = Len(CodeOf(t))
         /\ \A x \in 1..Len(Leads(t, Len(t.fields) + 1)) :
              CodeOf(t)[Begin(t, Len(t.fields) + 1) + x - 1] = Leads(t, Len(t.fields) + 1)[x]
         /\ CodeOf(t)[Len(CodeOf(t))] = 0
<1> DEFINE n == Len(t.fields)
           P == Pieces(t)
           body == FlattenSeq(P)
           rest == TailSkip(t) \o End
<1>1. /\ n \in Nat /\ DOMAIN t.fields = 1..n
      /\ \A i \in 1..n : t.fields[i] \in Fields
      /\ P \in Seq(Seq(Elements)) /\ Len(P) = n
      /\ \A i \in 1..n :
           /\ P[i] = Leads(t, i) \o Instruction(t.fields[i])
           /\ Len(P[i]) = Len(Leads(t, i)) + Len(Instruction(t.fields[i]))
           /\ P[i] \in Seq(Elements)
  BY PiecesAre
<1> HIDE DEF P, n
<1>2. \A i \in 1..(n + 1) : Leads(t, i) \in Seq(Elements)
  BY LeadsAre DEF n
<1>3. \A i \in 1..n : Instruction(t.fields[i]) \in Seq(Elements)
  BY <1>1, InstructionIs
<1>4. End = <<0>> /\ End \in Seq(Elements) /\ Len(End) = 1
  BY DEF End, Opcode, Item, Single, Elements
<1>5. Leads(t, n + 1) = TailSkip(t) /\ TailSkip(t) \in Seq(Elements)
  <2>1. n + 1 \in 1..(n + 1)
    BY <1>1
  <2> QED
    BY <1>2, <2>1 DEF Leads, n
<1>6. /\ rest \in Seq(Elements) /\ Len(TailSkip(t)) \in Nat
      /\ Len(rest) = Len(TailSkip(t)) + 1
      /\ \A k \in 1..Len(TailSkip(t)) : rest[k] = TailSkip(t)[k]
      /\ rest[Len(rest)] = 0
  <2>1. /\ rest \in Seq(Elements) /\ Len(TailSkip(t)) \in Nat
        /\ Len(rest) = Len(TailSkip(t)) + Len(End)
        /\ \A k \in 1..Len(TailSkip(t)) : rest[k] = TailSkip(t)[k]
        /\ \A k \in 1..Len(End) : rest[Len(TailSkip(t)) + k] = End[k]
    BY <1>4, <1>5, ConcatIs
  <2>2. End[1] = 0 /\ 1 \in 1..Len(End)
    BY <1>4
  <2> HIDE DEF rest
  <2> QED
    BY <1>4, <2>1, <2>2
<1>7. body \in Seq(Elements) /\ body = Upto(P, n) /\ Upto(P, 0) = <<>>
  <2>1. n \in 0..n
    BY <1>1
  <2> QED
    BY <1>1, <2>1, UptoJoins
<1>8. CodeOf(t) = body \o rest
  <2>1. CodeOf(t) = (body \o TailSkip(t)) \o End
    BY DEF CodeOf, P, Pieces
  <2>2. (body \o TailSkip(t)) \o End = body \o (TailSkip(t) \o End)
    BY <1>4, <1>5, <1>7, ConcatAssociative
  <2> QED
    BY <2>1, <2>2
<1> HIDE DEF body, rest
<1>9. /\ Len(body) \in Nat /\ Len(rest) \in Nat
      /\ Len(CodeOf(t)) = Len(body) + Len(rest)
      /\ \A k \in 1..Len(body) : CodeOf(t)[k] = body[k]
      /\ \A k \in 1..Len(rest) : CodeOf(t)[Len(body) + k] = rest[k]
  <2>1. body \in Seq(Elements) /\ rest \in Seq(Elements)
    BY <1>6, <1>7
  <2> QED
    BY <1>8, <2>1, ConcatIs
<1>10. \A i : Begin(t, i) = Len(Upto(P, i - 1)) + 1
  BY DEF Begin, P
<1>11. Begin(t, 1) = 1
  BY <1>7, <1>10
<1>12. Begin(t, n + 1) = Len(body) + 1
  <2>1. (n + 1) - 1 = n
    BY <1>1
  <2> QED
    BY <1>7, <1>10, <2>1
<1>13. /\ Begin(t, n + 1) \in Nat \ {0}
       /\ Inside(t, n + 1) = Len(CodeOf(t))
       /\ CodeOf(t)[Len(CodeOf(t))] = 0
  <2>1. Begin(t, n + 1) \in Nat \ {0}
    BY <1>9, <1>12
  <2>2. Inside(t, n + 1) = Len(CodeOf(t))
    BY <1>5, <1>6, <1>9, <1>12 DEF Inside
  <2>3. Len(rest) \in 1..Len(rest)
    BY <1>6, <1>9
  <2>4. CodeOf(t)[Len(CodeOf(t))] = 0
    BY <1>6, <1>9, <2>3
  <2> QED
    BY <2>1, <2>2, <2>4
<1>14. ASSUME NEW x \in 1..Len(Leads(t, n + 1))
       PROVE  CodeOf(t)[Begin(t, n + 1) + x - 1] = Leads(t, n + 1)[x]
  <2>1. x \in 1..Len(TailSkip(t)) /\ x \in 1..Len(rest)
    BY <1>5, <1>6
  <2>2. Begin(t, n + 1) + x - 1 = Len(body) + x
    BY <1>9, <1>12
  <2> QED
    BY <1>5, <1>6, <1>9, <2>1, <2>2
<1>15. ASSUME NEW i \in 1..n
       PROVE  /\ Begin(t, i) \in Nat \ {0}
              /\ Begin(t, i + 1) = Inside(t, i) + Len(Instruction(t.fields[i]))
              /\ Begin(t, i + 1) <= Len(CodeOf(t))
              /\ \A x \in 1..Len(Leads(t, i)) :
                   CodeOf(t)[Begin(t, i) + x - 1] = Leads(t, i)[x]
              /\ \A x \in 1..Len(Instruction(t.fields[i])) :
                   CodeOf(t)[Inside(t, i) + x - 1] = Instruction(t.fields[i])[x]
  <2> DEFINE L == Leads(t, i)
             I == Instruction(t.fields[i])
             u == Len(Upto(P, i - 1))
  <2>1. i \in 1..Len(P) /\ (i + 1) - 1 = i /\ i \in 1..(n + 1)
    BY <1>1
  <2>2. /\ Len(Upto(P, i)) = u + Len(P[i])
        /\ u \in Nat /\ Len(P[i]) \in Nat
        /\ Len(Upto(P, i)) <= Len(body)
    BY <1>1, <2>1, UptoLen DEF body
  <2>3. L \in Seq(Elements) /\ I \in Seq(Elements)
    BY <1>2, <1>3, <2>1
  <2>4. P[i] = L \o I
    BY <1>1
  <2> HIDE DEF L, I
  <2>5. /\ Len(L) \in Nat /\ Len(I) \in Nat /\ Len(P[i]) = Len(L) + Len(I)
        /\ \A k \in 1..Len(L) : P[i][k] = L[k]
        /\ \A k \in 1..Len(I) : P[i][Len(L) + k] = I[k]
    BY <2>3, <2>4, ConcatIs
  <2>6. \A x \in 1..Len(P[i]) : body[u + x] = P[i][x] /\ u + x \in 1..Len(body)
    BY <1>1, <2>1, UptoAt DEF body
  <2>7. Begin(t, i) = u + 1 /\ Begin(t, i + 1) = Len(Upto(P, i)) + 1
    BY <1>10, <2>1
  <2>8. Inside(t, i) = u + 1 + Len(L)
    BY <2>7 DEF Inside, L
  <2> HIDE DEF u
  <2>9. \A x \in 1..Len(P[i]) : CodeOf(t)[u + x] = P[i][x]
    BY <1>9, <2>6
  <2>10. ASSUME NEW x \in 1..Len(L)
         PROVE  CodeOf(t)[Begin(t, i) + x - 1] = L[x]
    <3>1. x \in 1..Len(P[i])
      BY <2>5
    <3>2. Begin(t, i) + x - 1 = u + x
      BY <2>2, <2>7
    <3> QED
      BY <2>5, <2>9, <3>1, <3>2
  <2>11. ASSUME NEW x \in 1..Len(I)
         PROVE  CodeOf(t)[Inside(t, i) + x - 1] = I[x]
    <3>1. Len(L) + x \in 1..Len(P[i]) /\ Inside(t, i) + x - 1 = u + (Len(L) + x)
      BY <2>2, <2>5, <2>8
    <3> QED
      BY <2>5, <2>9, <3>1
  <2>12. /\ Begin(t, i) \in Nat \ {0}
         /\ Begin(t, i + 1) = Inside(t, i) + Len(I)
         /\ Begin(t, i + 1) <= Len(CodeOf(t))
    <3>1. Begin(t, i) \in Nat \ {0}
      BY <2>2, <2>7
    <3>2. Begin(t, i + 1) = Inside(t, i) + Len(I)
      BY <2>2, <2>5, <2>7, <2>8
    <3>3. Begin(t, i + 1) <= Len(CodeOf(t))
      BY <1>6, <1>9, <2>2, <2>7
    <3> QED
      BY <3>1, <3>2, <3>3
  <2> QED
    BY <2>10, <2>11, <2>12 DEF L, I
<1>16. Len(CodeOf(t)) \in Nat
  BY <1>9
<1> QED
  BY <1>1, <1>11, <1>13, <1>14, <1>15, <1>16 DEF n

-----------------------------------------------------------------------------
(* Where the interpreter can be in the bytecode of a type.  It takes the   *)
(* length of an array of ZfmtStr for an opcode, which is END.              *)
Slips(t) ==
  {i \in 1..Len(t.fields) : /\ t.fields[i].kind = "fixed" /\ t.fields[i].ty = "ZfmtStr"
                            /\ t.fields[i].array /\ ~t.fields[i].pad}
Points(t) ==
  {Begin(t, i) : i \in 1..(Len(t.fields) + 1)}
    \cup {Inside(t, i) : i \in 1..(Len(t.fields) + 1)}
    \cup {Inside(t, i) + 1 : i \in Slips(t)}

(* The instruction at p of c has its operands, and leads on to P.          *)
SoundAt(c, P, p) ==
  /\ p \in 1..Len(c)
  /\ c[p] \in Nat
  /\ c[p] \div 8 = 10 => c[p + 1] \in Nat /\ p + 2 \in P
  /\ c[p] \div 8 \in {1, 2, 3, 4, 5, 6, 7, 8, 11, 12, 13} =>
       /\ c[p] % 8 = 0 => p + 1 \in P
       /\ c[p] % 8 = 1 => c[p + 1] \in Nat /\ p + 2 \in P
  /\ c[p] \div 8 = 16 => p + 1 \in P
  /\ c[p] \div 8 = 17 /\ c[p] % 8 = 0 => p + 1 \in P
  /\ c[p] \div 8 = 9 =>
       /\ c[p] % 8 = 1 => c[p + 1] \in Nat /\ p + 2 \in P
       /\ c[p] % 8 = 3 => p + 1 \in P
  /\ c[p] \div 8 = 15 => Coded(c[p + 1]) /\ p + 2 \in P
  /\ c[p] \div 8 = 14 =>
       /\ c[p + 2] \in Nat /\ c[p + 3] \in Nat
       /\ \A d \in 1..c[p + 3] : Coded(c[p + 3 + 2 * d])
       /\ p + 4 + 2 * c[p + 3] \in P

(* In front of a field is a point, and so is behind what leads to it.      *)
LEMMA InsideIs ==
  ASSUME NEW t, Coded(t), NEW i \in 1..(Len(t.fields) + 1)
  PROVE  /\ Begin(t, i) \in Nat \ {0} /\ Inside(t, i) \in Nat
         /\ Begin(t, i) <= Inside(t, i) /\ Inside(t, i) <= Len(CodeOf(t))
         /\ Begin(t, i) \in Points(t) /\ Inside(t, i) \in Points(t)
         /\ i <= Len(t.fields) => Begin(t, i + 1) \in Points(t)
         /\ \/ /\ Leads(t, i) = <<>> /\ GapAt(t, i) = 0
               /\ Inside(t, i) = Begin(t, i)
            \/ /\ Leads(t, i) = <<81, GapAt(t, i)>>
               /\ Inside(t, i) = Begin(t, i) + 2
               /\ CodeOf(t)[Begin(t, i)] = 81
               /\ CodeOf(t)[Begin(t, i) + 1] = GapAt(t, i)
<1> DEFINE n == Len(t.fields)
<1>1. n \in Nat
  BY CodeIs
<1>2. Begin(t, i) \in Points(t) /\ Inside(t, i) \in Points(t)
  BY DEF Points
<1>3. i <= n => Begin(t, i + 1) \in Points(t)
  <2>1. i <= n => i + 1 \in 1..(n + 1)
    BY <1>1
  <2> QED
    BY <2>1 DEF Points
<1>4. /\ Begin(t, i) \in Nat \ {0}
      /\ \A x \in 1..Len(Leads(t, i)) :
           CodeOf(t)[Begin(t, i) + x - 1] = Leads(t, i)[x]
  <2>1. CASE i = n + 1
    BY <2>1, CodeIs
  <2>2. CASE i \in 1..n
    BY <2>2, CodeIs
  <2> QED
    BY <1>1, <2>1, <2>2
<1>5. \/ Leads(t, i) = <<>> /\ GapAt(t, i) = 0
      \/ Leads(t, i) = <<81, GapAt(t, i)>>
  BY LeadsAre
<1>6. ASSUME Leads(t, i) = <<>>
      PROVE  Inside(t, i) = Begin(t, i)
  BY <1>4, <1>6 DEF Inside
<1>7. ASSUME Leads(t, i) = <<81, GapAt(t, i)>>
      PROVE  /\ Inside(t, i) = Begin(t, i) + 2
             /\ CodeOf(t)[Begin(t, i)] = 81
             /\ CodeOf(t)[Begin(t, i) + 1] = GapAt(t, i)
  <2> DEFINE L == Leads(t, i)
             g == GapAt(t, i)
  <2>1. Len(L) = 2 /\ L[1] = 81 /\ L[2] = g
    BY <1>7
  <2>2. 1 \in 1..Len(L) /\ 2 \in 1..Len(L)
    BY <2>1
  <2> HIDE DEF L, g
  <2>3. CodeOf(t)[Begin(t, i) + 1 - 1] = 81 /\ CodeOf(t)[Begin(t, i) + 2 - 1] = g
    BY <1>4, <2>1, <2>2 DEF L
  <2>4. Begin(t, i) + 1 - 1 = Begin(t, i) /\ Begin(t, i) + 2 - 1 = Begin(t, i) + 1
    BY <1>4
  <2>5. Inside(t, i) = Begin(t, i) + 2
    BY <2>1 DEF Inside, L
  <2> QED
    BY <2>3, <2>4, <2>5 DEF g
<1>8. Begin(t, i) <= Inside(t, i) /\ Inside(t, i) \in Nat
  BY <1>4, <1>5, <1>6, <1>7
<1>9. Inside(t, i) <= Len(CodeOf(t))
  <2>1. CASE i = n + 1
    <3>1. Inside(t, n + 1) = Len(CodeOf(t))
      BY CodeIs
    <3> QED
      BY <1>8, <2>1, <3>1
  <2>2. CASE i \in 1..n
    <3>1. /\ Begin(t, i + 1) = Inside(t, i) + Len(Instruction(t.fields[i]))
          /\ Begin(t, i + 1) <= Len(CodeOf(t)) /\ Len(CodeOf(t)) \in Nat
      BY <2>2, CodeIs
    <3>2. Len(Instruction(t.fields[i])) \in Nat
      BY <2>2, PiecesAre, InstructionIs
    <3> QED
      BY <1>8, <3>1, <3>2
  <2> QED
    BY <1>1, <2>1, <2>2
<1> QED
  BY <1>2, <1>3, <1>4, <1>5, <1>6, <1>7, <1>8, <1>9

(* The instruction of f stands at p of c, and the next one at q.           *)
StandsAt(f, c, p, q) ==
  /\ f \in Fields
  /\ p \in 1..Len(c)
  /\ f.kind = "str" => c[p] = 75 /\ q = p + 1
  /\ f.kind = "fixed" /\ f.pad => c[p] = 81 /\ c[p + 1] = FixedSize(f) /\ q = p + 2
  /\ f.kind = "fixed" /\ ~f.pad /\ f.array =>
       /\ c[p] = IF f.ty = "u8" THEN 73 ELSE Item[f.ty] * 8 + 1
       /\ c[p + 1] = f.n /\ q = p + 2
  /\ f.kind = "fixed" /\ ~f.pad /\ ~f.array => c[p] = Item[f.ty] * 8 /\ q = p + 1
  /\ f.kind = "nested" => c[p] = 120 /\ c[p + 1] = f.type /\ q = p + 2
  /\ f.kind = "inline" =>
       /\ c[p] = 112
       /\ c[p + 2] = UnionAlign(f.variants) - 1
       /\ c[p + 3] = f.listed
       /\ \A d \in 1..f.listed : c[p + 3 + 2 * d] = Subroutine(f, d)
       /\ q = p + 4 + 2 * f.listed

(* The instruction of a field stands behind what leads to it.              *)
LEMMA InstructionAt ==
  ASSUME NEW t, Coded(t), NEW i \in 1..Len(t.fields)
  PROVE  StandsAt(t.fields[i], CodeOf(t), Inside(t, i), Begin(t, i + 1))
<1> DEFINE f == t.fields[i]
           c == CodeOf(t)
           p == Inside(t, i)
           q == Begin(t, i + 1)
           I == Instruction(f)
<1>1. Len(t.fields) \in Nat /\ f \in Fields
  BY PiecesAre
<1>2. p \in Nat \ {0}
  <2>1. i \in 1..(Len(t.fields) + 1)
    BY <1>1
  <2> QED
    BY <2>1, InsideIs
<1>3. /\ q = p + Len(I)
      /\ q <= Len(c) /\ Len(c) \in Nat
      /\ \A x \in 1..Len(I) : c[p + x - 1] = I[x]
  <2>1. /\ q = Inside(t, i) + Len(Instruction(t.fields[i]))
        /\ q <= Len(CodeOf(t)) /\ Len(CodeOf(t)) \in Nat
        /\ \A x \in 1..Len(Instruction(t.fields[i])) :
             CodeOf(t)[Inside(t, i) + x - 1] = Instruction(t.fields[i])[x]
    BY CodeIs
  <2> QED
    BY <2>1
<1>4. I \in Seq(Elements) /\ Len(I) \in Nat \ {0}
  BY <1>1, InstructionIs
<1>5. p \in 1..Len(c)
  BY <1>2, <1>3, <1>4
<1>6. ASSUME NEW a, I = <<a>>
      PROVE  c[p] = a /\ q = p + 1
  <2>1. Len(I) = 1 /\ I[1] = a
    BY <1>6
  <2> HIDE DEF I
  <2>2. 1 \in 1..Len(I) /\ p + 1 - 1 = p
    BY <1>2, <2>1
  <2> QED
    BY <1>3, <2>1, <2>2
<1>7. ASSUME NEW a, NEW b, I = <<a, b>>
      PROVE  c[p] = a /\ c[p + 1] = b /\ q = p + 2
  <2>1. Len(I) = 2 /\ I[1] = a /\ I[2] = b
    BY <1>7
  <2> HIDE DEF I
  <2>2. 1 \in 1..Len(I) /\ p + 1 - 1 = p /\ 2 \in 1..Len(I) /\ p + 2 - 1 = p + 1
    BY <1>2, <2>1
  <2> QED
    BY <1>3, <2>1, <2>2
<1> HIDE DEF I, f, c, p, q
<1>8. f.kind = "str" => c[p] = 75 /\ q = p + 1
  BY <1>1, <1>6, InstructionIs DEF I
<1>9. f.kind = "fixed" /\ f.pad =>
        c[p] = 81 /\ c[p + 1] = FixedSize(f) /\ q = p + 2
  BY <1>1, <1>7, InstructionIs DEF I
<1>10. ASSUME f.kind = "fixed", ~f.pad, f.array
       PROVE  /\ c[p] = IF f.ty = "u8" THEN 73 ELSE Item[f.ty] * 8 + 1
              /\ c[p + 1] = f.n /\ q = p + 2
  <2>1. f \in FixedFields /\ I = EmitField(f)
    BY <1>1, <1>10, FieldKind, InstructionIs DEF I
  <2>2. I = <<IF f.ty = "u8" THEN 73 ELSE Item[f.ty] * 8 + 1, f.n>>
    BY <1>10, <2>1, EmitFieldIs
  <2> QED
    BY <1>7, <2>2
<1>11. ASSUME f.kind = "fixed", ~f.pad, ~f.array
       PROVE  c[p] = Item[f.ty] * 8 /\ q = p + 1
  <2>1. f \in FixedFields /\ I = EmitField(f)
    BY <1>1, <1>11, FieldKind, InstructionIs DEF I
  <2>2. I = <<Item[f.ty] * 8>>
    BY <1>11, <2>1, EmitFieldIs
  <2> QED
    BY <1>6, <2>2
<1>12. f.kind = "nested" =>
         c[p] = 120 /\ c[p + 1] = f.type /\ q = p + 2
  BY <1>1, <1>7, InstructionIs DEF I
<1>13. ASSUME f.kind = "inline"
       PROVE  /\ c[p] = 112
              /\ c[p + 2] = UnionAlign(f.variants) - 1
              /\ c[p + 3] = f.listed
              /\ \A d \in 1..f.listed : c[p + 3 + 2 * d] = Subroutine(f, d)
              /\ q = p + 4 + 2 * f.listed
  <2>1. f \in InlineFields /\ I = DispatchCode(f)
    BY <1>1, <1>13, FieldKind, InstructionIs DEF I
  <2>2. f.listed \in Nat
    BY <2>1, InlineFieldIs
  <2>3. /\ Len(I) = 4 + 2 * f.listed
        /\ I[1] = 112
        /\ I[3] = UnionAlign(f.variants) - 1
        /\ I[4] = f.listed
        /\ \A d \in 1..f.listed : I[4 + 2 * d] = Subroutine(f, d)
    BY <2>1, DispatchCodeIs
  <2>7. Len(I) = 4 + 2 * f.listed
    BY <2>3
  <2>8. \A m \in Nat, s \in Nat :
          /\ \A d \in 1..m : 4 + 2 * d \in 1..(4 + 2 * m) /\ s + (4 + 2 * d) - 1 = s + 3 + 2 * d
          /\ s + (4 + 2 * m) = s + 4 + 2 * m
    OBVIOUS
  <2>4. c[p] = I[1] /\ c[p + 2] = I[3] /\ c[p + 3] = I[4]
    <3>1. 1 \in 1..Len(I) /\ 3 \in 1..Len(I) /\ 4 \in 1..Len(I)
      BY <2>2, <2>7
    <3>2. p + 1 - 1 = p /\ p + 3 - 1 = p + 2 /\ p + 4 - 1 = p + 3
      BY <1>2
    <3> QED
      BY <1>3, <3>1, <3>2
  <2>5. ASSUME NEW d \in 1..f.listed
        PROVE  c[p + 3 + 2 * d] = Subroutine(f, d)
    <3>1. 4 + 2 * d \in 1..Len(I) /\ p + (4 + 2 * d) - 1 = p + 3 + 2 * d
      BY <1>2, <2>2, <2>7, <2>8
    <3> QED
      BY <1>3, <2>3, <3>1
  <2>6. q = p + 4 + 2 * f.listed
    <3>1. q = p + (4 + 2 * f.listed)
      BY <1>3, <2>7
    <3>2. p \in Nat
      BY <1>2
    <3> QED
      BY <2>2, <2>8, <3>1, <3>2
  <2> QED
    BY <2>3, <2>4, <2>5, <2>6
<1> QED
  <2>1. StandsAt(f, c, p, q)
    BY <1>1, <1>5, <1>8, <1>9, <1>10, <1>11, <1>12, <1>13 DEF StandsAt
  <2> QED
    BY <2>1 DEF f, c, p, q

(* At every point there is an instruction, and it leads on to a point.     *)
LEMMA PointsAreSound ==
  ASSUME NEW t, Coded(t)
  PROVE  /\ 1 \in Points(t)
         /\ \A p \in Points(t) : SoundAt(CodeOf(t), Points(t), p)
<1> DEFINE n == Len(t.fields)
           c == CodeOf(t)
           P == Points(t)
<1>1. n \in Nat /\ Begin(t, 1) = 1 /\ Inside(t, n + 1) = Len(c) /\ c[Len(c)] = 0
      /\ Len(c) \in Nat
  BY CodeIs
<1>2. ASSUME NEW i \in 1..(n + 1)
      PROVE  /\ Begin(t, i) \in Nat \ {0} /\ Inside(t, i) \in Nat
             /\ Begin(t, i) <= Inside(t, i) /\ Inside(t, i) <= Len(c)
             /\ Begin(t, i) \in P /\ Inside(t, i) \in P
             /\ i <= n => Begin(t, i + 1) \in P
             /\ \/ Inside(t, i) = Begin(t, i)
                \/ /\ Inside(t, i) = Begin(t, i) + 2
                   /\ c[Begin(t, i)] = 81
                   /\ c[Begin(t, i) + 1] \in Nat
  <2>1. GapAt(t, i) \in Nat
    BY LeadsAre
  <2> QED
    BY <2>1, InsideIs
<1>3. 1 \in P
  <2>1. 1 \in 1..(n + 1)
    BY <1>1
  <2> QED
    BY <1>1, <1>2, <2>1
<1>4. SoundAt(c, P, Inside(t, n + 1))
  <2> DEFINE p == Inside(t, n + 1)
  <2>1. n + 1 \in 1..(n + 1)
    BY <1>1
  <2>2. p \in 1..Len(c) /\ c[p] = 0
    BY <1>1, <1>2, <2>1
  <2> HIDE DEF p, c, P
  <2>3. c[p] % 8 = 0 /\ c[p] \div 8 = 0 /\ c[p] \in Nat
    BY <2>2
  <2>4. SoundAt(c, P, p)
    BY <2>2, <2>3 DEF SoundAt
  <2> QED
    BY <2>4 DEF p
<1>5. ASSUME NEW p \in 1..Len(c), c[p] = 81, c[p + 1] \in Nat, p + 2 \in P
      PROVE  SoundAt(c, P, p)
  <2> HIDE DEF c, P
  <2>1. c[p] % 8 = 1 /\ c[p] \div 8 = 10 /\ c[p] \in Nat
    BY <1>5
  <2> QED
    BY <1>5, <2>1 DEF SoundAt
<1>6. ASSUME NEW i \in 1..n
      PROVE  SoundAt(c, P, Inside(t, i)) /\ (i \in Slips(t) => SoundAt(c, P, Inside(t, i) + 1))
  <2> DEFINE f == t.fields[i]
             p == Inside(t, i)
             q == Begin(t, i + 1)
  <2>1. StandsAt(f, c, p, q)
    BY InstructionAt
  <2>2. q \in P /\ q <= Len(c) /\ q \in Nat
    <3>1. i \in 1..(n + 1) /\ i + 1 \in 1..(n + 1) /\ i <= n
      BY <1>1
    <3>2. q \in P /\ q \in Nat /\ q <= Inside(t, i + 1) /\ Inside(t, i + 1) <= Len(c)
          /\ Inside(t, i + 1) \in Nat
      BY <1>2, <3>1
    <3> QED
      BY <1>1, <3>2
  <2>3. i \in Slips(t) => p + 1 \in P
    BY DEF Slips, Points
  <2>4. i \in Slips(t) <=> f.kind = "fixed" /\ f.ty = "ZfmtStr" /\ f.array /\ ~f.pad
    BY DEF Slips
  <2>10. f \in Fields /\ p \in 1..Len(c)
    BY <2>1 DEF StandsAt
  <2> HIDE DEF c, P, p, q, f
  <2>5. CASE f.kind = "str"
    <3>1. c[p] % 8 = 3 /\ c[p] \div 8 = 9 /\ c[p] \in Nat /\ i \notin Slips(t)
      BY <2>1, <2>4, <2>5 DEF StandsAt
    <3>2. q = p + 1
      BY <2>1, <2>5 DEF StandsAt
    <3> QED
      BY <2>10, <2>2, <3>1, <3>2, SMTT(30) DEF SoundAt, p
  <2>6. CASE f.kind = "fixed" /\ f.pad
    <3>1. FixedSize(f) \in Nat
      BY <2>10, <2>6, FieldKind, FixedFieldIs
    <3>2. i \notin Slips(t)
      BY <2>4, <2>6
    <3>3. SoundAt(c, P, p)
      BY <1>5, <2>1, <2>2, <2>6, <3>1 DEF StandsAt, c, P
    <3> QED
      BY <3>2, <3>3 DEF p
  <2>7. CASE f.kind = "fixed" /\ ~f.pad
    <3>1. /\ f.ty \in ScalarTypes /\ f.n \in Nat /\ f.array \in BOOLEAN
          /\ f.array /\ f.ty = "ZfmtStr" => f.n < 8
      BY <2>10, <2>7, FieldKind, FixedFieldIs
    <3> DEFINE k == Item[f.ty]
    <3>2. /\ k \in {1, 2, 3, 4, 5, 6, 7, 8, 11, 12, 13, 16, 17}
          /\ k = 16 <=> f.ty = "ZfmtStr"
          /\ k = 17 <=> f.ty = "ZfmtU64"
      BY <3>1, ItemIs
    <3> HIDE DEF k
    <3>3. /\ (k * 8) % 8 = 0 /\ (k * 8) \div 8 = k /\ k * 8 \in Nat
          /\ (k * 8 + 1) % 8 = 1 /\ (k * 8 + 1) \div 8 = k /\ k * 8 + 1 \in Nat
      BY <3>2
    <3>4. CASE ~f.array
      <4>1. c[p] = k * 8 /\ q = p + 1
        BY <2>1, <2>7, <3>4 DEF StandsAt, k
      <4>2. c[p] % 8 = 0 /\ c[p] \div 8 = k /\ c[p] \in Nat
        BY <3>3, <4>1
      <4>3. i \notin Slips(t)
        BY <2>4, <3>4
      <4>4. SoundAt(c, P, p)
        BY <2>10, <2>2, <3>2, <4>1, <4>2 DEF SoundAt
      <4> QED
        BY <4>3, <4>4 DEF p
    <3>5. CASE f.array /\ f.ty = "ZfmtStr"
      <4>1. c[p] = k * 8 + 1 /\ c[p + 1] = f.n /\ q = p + 2 /\ k = 16
        BY <2>1, <2>7, <3>2, <3>5 DEF StandsAt, k
      <4>2. c[p] % 8 = 1 /\ c[p] \div 8 = 16 /\ c[p] \in Nat
        BY <3>3, <4>1
      <4>3. p + 1 \in P
        BY <2>3, <2>4, <2>7, <3>5
      <4>8. /\ c[p] \div 8 # 9 /\ c[p] \div 8 # 10 /\ c[p] \div 8 # 14 /\ c[p] \div 8 # 15 /\ c[p] \div 8 # 17
            /\ c[p] \div 8 \notin {1, 2, 3, 4, 5, 6, 7, 8, 11, 12, 13}
        BY <4>2, SMTT(30)
      <4>4. SoundAt(c, P, p)
        BY <2>10, <4>2, <4>3, <4>8 DEF SoundAt
      <4>5. c[p + 1] \in Nat /\ c[p + 1] \div 8 = 0
        BY <3>1, <3>5, <4>1
      <4>6. p + 1 \in 1..Len(c)
        BY <1>1, <2>1, <2>2, <4>1 DEF StandsAt, c
      <4>9. /\ c[p + 1] \div 8 # 9 /\ c[p + 1] \div 8 # 10 /\ c[p + 1] \div 8 # 14 /\ c[p + 1] \div 8 # 15 /\ c[p + 1] \div 8 # 16 /\ c[p + 1] \div 8 # 17
            /\ c[p + 1] \div 8 \notin {1, 2, 3, 4, 5, 6, 7, 8, 11, 12, 13}
        BY <4>5
      <4>7. SoundAt(c, P, p + 1)
        BY <4>5, <4>6, <4>9 DEF SoundAt
      <4> QED
        BY <4>4, <4>7 DEF p
    <3>6. CASE f.array /\ f.ty # "ZfmtStr"
      <4>1. c[p] = (IF f.ty = "u8" THEN 73 ELSE k * 8 + 1) /\ c[p + 1] = f.n /\ q = p + 2
        BY <2>1, <2>7, <3>6 DEF StandsAt, k
      <4>2. i \notin Slips(t)
        BY <2>4, <3>6
      <4>3. CASE f.ty = "u8"
        <5>1. c[p] % 8 = 1 /\ c[p] \div 8 = 9 /\ c[p] \in Nat
          BY <4>1, <4>3
        <5>2. SoundAt(c, P, p)
          BY <2>10, <2>2, <3>1, <4>1, <5>1, SMTT(30) DEF SoundAt
        <5> QED
          BY <4>2, <5>2 DEF p
      <4>4. CASE f.ty # "u8"
        <5>1. c[p] % 8 = 1 /\ c[p] \div 8 = k /\ c[p] \in Nat
          BY <3>3, <4>1, <4>4
        <5>2. k # 16
          BY <3>2, <3>6
        <5>3. SoundAt(c, P, p)
          BY <2>10, <2>2, <3>1, <3>2, <4>1, <5>1, <5>2 DEF SoundAt
        <5> QED
          BY <4>2, <5>3 DEF p
      <4> QED
        BY <4>3, <4>4
    <3> QED
      BY <3>1, <3>4, <3>5, <3>6
  <2>8. CASE f.kind = "nested"
    <3>1. Coded(f.type)
      BY <2>10, <2>8, FieldKind, NestedFieldIs, CodedTypes
    <3>2. c[p] % 8 = 0 /\ c[p] \div 8 = 15 /\ c[p] \in Nat /\ i \notin Slips(t)
      BY <2>1, <2>4, <2>8 DEF StandsAt
    <3>4. c[p + 1] = f.type /\ q = p + 2
      BY <2>1, <2>8 DEF StandsAt
    <3>5. /\ c[p] \div 8 # 9 /\ c[p] \div 8 # 10 /\ c[p] \div 8 # 14 /\ c[p] \div 8 # 16 /\ c[p] \div 8 # 17
            /\ c[p] \div 8 \notin {1, 2, 3, 4, 5, 6, 7, 8, 11, 12, 13}
      <4> DEFINE o == c[p] \div 8
      <4>1. o = 15
        BY <3>2
      <4> HIDE DEF o
      <4>2. o # 9 /\ o # 10 /\ o # 14 /\ o # 16 /\ o # 17
            /\ o \notin {1, 2, 3, 4, 5, 6, 7, 8, 11, 12, 13}
        BY <4>1
      <4> QED
        BY <4>2 DEF o
    <3>3. SoundAt(c, P, p)
      BY <2>10, <2>2, <3>1, <3>2, <3>4, <3>5 DEF SoundAt
    <3> QED
      BY <3>2, <3>3 DEF p
  <2>9. CASE f.kind = "inline"
    <3>1. f \in InlineFields
      BY <2>10, <2>9, FieldKind
    <3>2. f.listed \in Nat /\ f.listed <= Len(f.variants) /\ f.variants \in Seq(Seq(FlatFields))
          /\ UnionAlign(f.variants) - 1 \in Nat
      <4>1. UnionAlign(f.variants) \in Nat \ {0}
        BY <3>1, InlineFieldIs
      <4>2. f.listed \in Nat /\ f.listed <= Len(f.variants) /\ f.variants \in Seq(Seq(FlatFields))
        BY <3>1, InlineFieldIs
      <4> QED
        BY <4>1, <4>2
    <3>3. Len(f.variants) \in Nat
      BY <3>2
    <3>4. \A d \in 1..f.listed : Coded(Subroutine(f, d))
      <4>1. \A d \in 1..f.listed : d \in 1..Len(f.variants)
        BY <3>2, <3>3
      <4> QED
        BY <3>1, <4>1, SubroutineIs, CodedTypes
    <3>5. c[p] % 8 = 0 /\ c[p] \div 8 = 14 /\ c[p] \in Nat /\ i \notin Slips(t)
      BY <2>1, <2>4, <2>9 DEF StandsAt
    <3>6. /\ c[p + 2] \in Nat /\ c[p + 3] \in Nat
          /\ \A d \in 1..c[p + 3] : Coded(c[p + 3 + 2 * d])
          /\ p + 4 + 2 * c[p + 3] \in P
      <4>1. /\ c[p + 2] = UnionAlign(f.variants) - 1
            /\ c[p + 3] = f.listed
            /\ \A d \in 1..f.listed : c[p + 3 + 2 * d] = Subroutine(f, d)
            /\ q = p + 4 + 2 * f.listed
        BY <2>1, <2>9 DEF StandsAt
      <4> QED
        BY <2>2, <3>2, <3>4, <4>1
    <3>8. /\ c[p] \div 8 # 9 /\ c[p] \div 8 # 10 /\ c[p] \div 8 # 15 /\ c[p] \div 8 # 16 /\ c[p] \div 8 # 17
            /\ c[p] \div 8 \notin {1, 2, 3, 4, 5, 6, 7, 8, 11, 12, 13}
      <4> DEFINE o == c[p] \div 8
      <4>1. o = 14
        BY <3>5
      <4> HIDE DEF o
      <4>2. o # 9 /\ o # 10 /\ o # 15 /\ o # 16 /\ o # 17
            /\ o \notin {1, 2, 3, 4, 5, 6, 7, 8, 11, 12, 13}
        BY <4>1
      <4> QED
        BY <4>2 DEF o
    <3>7. SoundAt(c, P, p)
      BY <2>10, <3>5, <3>6, <3>8 DEF SoundAt
    <3> QED
      BY <3>5, <3>7 DEF p
  <2> QED
    BY <2>10, <2>5, <2>6, <2>7, <2>8, <2>9, FieldKind
<1>7. ASSUME NEW i \in 1..(n + 1)
      PROVE  SoundAt(c, P, Inside(t, i))
  <2>1. i = n + 1 \/ i \in 1..n
    BY <1>1
  <2> QED
    BY <1>4, <1>6, <2>1
<1>8. ASSUME NEW i \in 1..(n + 1)
      PROVE  SoundAt(c, P, Begin(t, i))
  <2>1. CASE Inside(t, i) = Begin(t, i)
    BY <1>7, <2>1
  <2>2. CASE /\ Inside(t, i) = Begin(t, i) + 2
             /\ c[Begin(t, i)] = 81
             /\ c[Begin(t, i) + 1] \in Nat
    <3>1. Begin(t, i) \in 1..Len(c) /\ Begin(t, i) + 2 \in P
      BY <1>1, <1>2, <2>2
    <3> QED
      BY <1>5, <2>2, <3>1
  <2> QED
    BY <1>2, <2>1, <2>2
<1>9. ASSUME NEW p \in P
      PROVE  SoundAt(c, P, p)
  <2>1. \/ \E i \in 1..(n + 1) : p = Begin(t, i)
        \/ \E i \in 1..(n + 1) : p = Inside(t, i)
        \/ \E i \in Slips(t) : p = Inside(t, i) + 1
    BY DEF Points
  <2>2. \A i \in Slips(t) : i \in 1..n
    BY DEF Slips
  <2> HIDE DEF c, P
  <2> QED
    BY <1>6, <1>7, <1>8, <2>1, <2>2
<1> QED
  BY <1>3, <1>9

-----------------------------------------------------------------------------
(* What is sent.                                                           *)
LEMMA LebIs ==
  ASSUME NEW i \in Nat, NEW n \in Nat
  PROVE  /\ LebLen(n) \in {1, 2}
         /\ Leb(i, n) \in Seq(CellSet) /\ Len(Leb(i, n)) = LebLen(n)
         /\ Leb(i, n)[1] = Cell(i, 0, {n})
<1>1. LebLen(n) \in {1, 2}
  BY DEF LebLen
<1>2. \A k \in 1..LebLen(n) : Cell(i, 1 - k, IF k = 1 THEN {n} ELSE {}) \in CellSet
  BY <1>1, CellIs
<1>3. Leb(i, n)[1] = Cell(i, 0, {n})
  BY <1>1 DEF Leb
<1> DEFINE e(k) == Cell(i, 1 - k, IF k = 1 THEN {n} ELSE {})
<1>4. Leb(i, n) = [k \in 1..LebLen(n) |-> e(k)] /\ \A k \in 1..LebLen(n) : e(k) \in CellSet
  BY <1>2 DEF Leb
<1>5. LebLen(n) \in Nat
  BY <1>1
<1> HIDE DEF e
<1>6. Leb(i, n) \in Seq(CellSet) /\ Len(Leb(i, n)) = LebLen(n)
  BY <1>4, <1>5
<1> QED
  BY <1>1, <1>3, <1>6

(* The bytes that a field adds to the payload.                             *)
LEMMA SerializedFieldIs ==
  ASSUME NEW T \in Seq(FlatFields), NEW i \in 1..Len(T)
  PROVE  /\ SerializedField(T, i) \in Seq(CellSet)
         /\ GapBefore(T, i) \in Nat /\ SentLen(T[i]) \in Nat
         /\ Len(SerializedField(T, i)) = GapBefore(T, i) + SentLen(T[i])
         /\ T[i].kind = "str" =>
              /\ GapBefore(T, i) = 0
              /\ \A k \in 1..LebLen(T[i].n) : SerializedField(T, i)[k] = Leb(i, T[i].n)[k]
              /\ \A k \in 1..T[i].n :
                   SerializedField(T, i)[LebLen(T[i].n) + k] = Cell(i, k, {})
         /\ T[i].kind = "fixed" =>
              \A k \in 1..FixedSize(T[i]) :
                SerializedField(T, i)[GapBefore(T, i) + k] = Cell(0, OffsetOf(T, i) + k, {})
<1>1. T[i] \in FlatFields /\ i \in Nat /\ LaidOut(T)
  BY FlatIsLaidOut
<1>2. GapBefore(T, i) \in Nat
  BY MacroEndsAre
<1>3. OffsetOf(T, i) \in Nat
  BY <1>1, OffsetsAre
<1>4. ASSUME T[i].kind = "str"
      PROVE  /\ SerializedField(T, i) \in Seq(CellSet)
             /\ SentLen(T[i]) \in Nat
             /\ Len(SerializedField(T, i)) = GapBefore(T, i) + SentLen(T[i])
             /\ GapBefore(T, i) = 0
             /\ \A k \in 1..LebLen(T[i].n) : SerializedField(T, i)[k] = Leb(i, T[i].n)[k]
             /\ \A k \in 1..T[i].n :
                  SerializedField(T, i)[LebLen(T[i].n) + k] = Cell(i, k, {})
  <2> DEFINE a == Leb(i, T[i].n)
             b == TextBytes(i, T[i].n)
  <2>1. T[i].n \in Nat
    BY <1>1, <1>4, FlatPartIs, StrFieldIs
  <2>2. /\ a \in Seq(CellSet) /\ Len(a) = LebLen(T[i].n) /\ LebLen(T[i].n) \in {1, 2}
        /\ b \in Seq(CellSet) /\ Len(b) = T[i].n
    BY <1>1, <2>1, LebIs, BytesAre
  <2>3. \A k \in 1..T[i].n : b[k] = Cell(i, k, {})
    BY DEF TextBytes
  <2>4. SerializedField(T, i) = a \o b /\ SentLen(T[i]) = LebLen(T[i].n) + T[i].n
        /\ GapBefore(T, i) = 0
    BY <1>4 DEF SerializedField, SentLen, GapBefore, GapBehind
  <2> HIDE DEF a, b
  <2>5. /\ a \o b \in Seq(CellSet)
        /\ Len(a \o b) = Len(a) + Len(b)
        /\ \A k \in 1..Len(a) : (a \o b)[k] = a[k]
        /\ \A k \in 1..Len(b) : (a \o b)[Len(a) + k] = b[k]
    BY <2>2, ConcatIs
  <2>6. /\ SentLen(T[i]) \in Nat /\ Len(a \o b) = GapBefore(T, i) + SentLen(T[i])
        /\ LebLen(T[i].n) \in Nat
    BY <2>1, <2>2, <2>4, <2>5
  <2>7. \A k \in 1..LebLen(T[i].n) : SerializedField(T, i)[k] = Leb(i, T[i].n)[k]
    BY <2>2, <2>4, <2>5 DEF a
  <2>8. \A k \in 1..T[i].n : SerializedField(T, i)[LebLen(T[i].n) + k] = Cell(i, k, {})
    BY <2>2, <2>3, <2>4, <2>5
  <2> QED
    BY <2>4, <2>5, <2>6, <2>7, <2>8
<1>5. ASSUME T[i].kind = "fixed"
      PROVE  /\ SerializedField(T, i) \in Seq(CellSet)
             /\ SentLen(T[i]) \in Nat
             /\ Len(SerializedField(T, i)) = GapBefore(T, i) + SentLen(T[i])
             /\ \A k \in 1..FixedSize(T[i]) :
                  SerializedField(T, i)[GapBefore(T, i) + k] = Cell(0, OffsetOf(T, i) + k, {})
  <2> DEFINE a == Zeros(GapBefore(T, i))
             b == MemoryBytes(OffsetOf(T, i), FixedSize(T[i]))
  <2>1. FixedSize(T[i]) \in Nat
    BY <1>1, <1>5, FlatPartIs, FixedFieldIs
  <2>2. /\ a \in Seq(CellSet) /\ Len(a) = GapBefore(T, i)
        /\ b \in Seq(CellSet) /\ Len(b) = FixedSize(T[i])
    BY <1>2, <1>3, <2>1, BytesAre
  <2>3. \A k \in 1..FixedSize(T[i]) : b[k] = Cell(0, OffsetOf(T, i) + k, {})
    BY DEF MemoryBytes
  <2>4. SerializedField(T, i) = a \o b /\ SentLen(T[i]) = FixedSize(T[i])
    BY <1>5 DEF SerializedField, SentLen
  <2> HIDE DEF a, b
  <2>5. /\ a \o b \in Seq(CellSet)
        /\ Len(a \o b) = Len(a) + Len(b)
        /\ \A k \in 1..Len(b) : (a \o b)[Len(a) + k] = b[k]
    <3>1. a \in Seq(CellSet) /\ b \in Seq(CellSet)
      BY <2>2
    <3> QED
      BY <3>1, ConcatIs
  <2> QED
    BY <2>1, <2>2, <2>3, <2>4, <2>5
<1>6. T[i].kind \in {"fixed", "str"}
  BY <1>1, FlatPartIs
<1> QED
  BY <1>2, <1>4, <1>5, <1>6

SerializedFields(T) == [i \in DOMAIN T |-> SerializedField(T, i)]

(* What serialize_into writes is as long as payload_size says.             *)
LEMMA SerializedIs ==
  ASSUME NEW T \in Seq(FlatFields)
  PROVE  /\ SerializedFields(T) \in Seq(Seq(CellSet))
         /\ Len(SerializedFields(T)) = Len(T)
         /\ \A i \in 1..Len(T) : SerializedFields(T)[i] = SerializedField(T, i)
         /\ Serialize(T) = FlattenSeq(SerializedFields(T))
         /\ Serialize(T) \in Seq(CellSet)
         /\ PayloadSize(T) = Len(Serialize(T))
<1> DEFINE n == Len(T)
           P == SerializedFields(T)
           ns == [i \in DOMAIN T |-> GapBefore(T, i) + SentLen(T[i])]
           g == [i \in 0..n |-> Len(Upto(P, i))]
<1>1. n \in Nat /\ DOMAIN T = 1..n
  OBVIOUS
<1>2. \A i \in 1..n : /\ SerializedField(T, i) \in Seq(CellSet)
                      /\ GapBefore(T, i) \in Nat /\ SentLen(T[i]) \in Nat
                      /\ Len(SerializedField(T, i)) = GapBefore(T, i) + SentLen(T[i])
  BY SerializedFieldIs
<1>3. P = [i \in 1..n |-> SerializedField(T, i)]
  BY <1>1 DEF SerializedFields
<1>4. Serialize(T) = FlattenSeq(P)
  BY DEF Serialize, SerializedFields
<1>5. ns = [i \in 1..n |-> GapBefore(T, i) + SentLen(T[i])]
  BY <1>1
<1>6. PayloadSize(T) = SumOf(ns)
  BY DEF PayloadSize
<1> HIDE DEF P, ns, n
<1>7. P \in Seq(Seq(CellSet)) /\ Len(P) = n /\ \A i \in 1..n : P[i] = SerializedField(T, i)
  BY <1>1, <1>2, <1>3
<1>8. ns \in Seq(Int) /\ Len(ns) = n /\ \A i \in 1..n : ns[i] = GapBefore(T, i) + SentLen(T[i])
  BY <1>1, <1>2, <1>5
<1>9. /\ \A i \in 0..n : Upto(P, i) \in Seq(CellSet)
      /\ Upto(P, 0) = <<>>
      /\ FlattenSeq(P) = Upto(P, n)
  BY <1>7, UptoJoins
<1>10. \A i \in 0..n : Len(Upto(P, i)) \in Nat
  BY <1>9, LenProperties
<1>11. ASSUME NEW i \in 1..n
       PROVE  g[i] = g[i - 1] + ns[i]
  <2>1. i \in 0..n /\ i - 1 \in 0..n
    BY <1>1
  <2>2. Len(Upto(P, i)) = Len(Upto(P, i - 1)) + Len(P[i])
    BY <1>7, UptoLen
  <2>3. Len(P[i]) = ns[i]
    BY <1>2, <1>7, <1>8
  <2> QED
    BY <2>1, <2>2, <2>3
<1>12. g \in [0..n -> Int] /\ g[0] = 0
  BY <1>1, <1>9, <1>10
<1>13. g[n] = Len(FlattenSeq(P))
  BY <1>1, <1>9
<1> HIDE DEF g
<1>14. Sums(g, ns)
  BY <1>8, <1>11, <1>12 DEF Sums
<1>15. SumOf(ns) = g[n]
  BY <1>8, <1>14, SumIs
<1>16. Serialize(T) \in Seq(CellSet)
  <2>1. n \in 0..n
    BY <1>1
  <2> QED
    BY <1>4, <1>9, <2>1
<1> QED
  BY <1>4, <1>6, <1>7, <1>13, <1>15, <1>16 DEF n, P

(* The payload of an event, by how it is sent.                             *)
LEMMA PayloadIs ==
  ASSUME NEW t, Coded(t), IsStruct(t) \/ IsVariant(t), Fits(t)
  PROVE  /\ Payload(t) \in Seq(CellSet)
         /\ IsBuffered(t) => Len(Payload(t)) <= MaxPayload
         /\ Tier(t) = "tier1" => /\ Len(Payload(t)) = LogicalSize(t.fields)
                                 /\ LogicalSize(t.fields) \in Nat
         /\ Tier(t) = "nested" => /\ Len(Payload(t)) = StructSize(t.fields)
                                  /\ StructSize(t.fields) \in Nat
         /\ Tier(t) \in {"tier1", "nested"} =>
              \A k \in 1..Len(Payload(t)) :
                Payload(t)[k] = Cell(0, k, MarksAt(Marks(t.fields), k))
         /\ IsBuffered(t) =>
              /\ t.fields \in Seq(FlatFields)
              /\ Len(Payload(t)) = SentSize(t)
              /\ \A k \in 1..Len(Payload(t)) :
                   k <= Len(Serialize(t.fields)) => Payload(t)[k] = Serialize(t.fields)[k]
<1> DEFINE T == t.fields
           cells(n) == [k \in 1..n |-> MemoryCell(Marks(T), k)]
<1>1. HoldsTyped(T) /\ LaidOut(T)
  BY HoldsTypedIsLaidOut DEF Coded
<1>2. Tier(t) \in {"tier1", "tier2", "nested", "variant"}
      /\ (Tier(t) # "nested" => T \in Seq(FlatFields))
  BY TierIs
<1>3. Marks(T) \in KnownMarks(StructSize(T)) /\ StructSize(T) \in Nat
  BY <1>1, MarksAre, OffsetsAre
<1>4. \A k : MarksAt(Marks(T), k) \in SUBSET Nat
  BY <1>3 DEF MarksAt, KnownMarks
<1>5. ASSUME NEW n \in Nat
      PROVE  /\ cells(n) \in Seq(CellSet) /\ Len(cells(n)) = n
             /\ \A k \in 1..n : cells(n)[k] = Cell(0, k, MarksAt(Marks(T), k))
  <2>1. \A k \in 1..n : MemoryCell(Marks(T), k) = Cell(0, k, MarksAt(Marks(T), k))
                        /\ Cell(0, k, MarksAt(Marks(T), k)) \in CellSet
    BY <1>4, CellIs DEF MemoryCell
  <2> QED
    BY <2>1
<1>6. CASE Tier(t) = "tier1"
  <2>1. LogicalSize(T) \in Nat
    BY <1>2, <1>6, MacroEndsAre
  <2>2. Payload(t) = cells(LogicalSize(T)) /\ ~IsBuffered(t)
    BY <1>6 DEF Payload, IsBuffered
  <2> HIDE DEF cells
  <2> QED
    BY <1>5, <1>6, <2>1, <2>2
<1>7. CASE Tier(t) = "nested"
  <2>1. Payload(t) = cells(StructSize(T)) /\ ~IsBuffered(t)
    BY <1>7 DEF Payload, IsBuffered
  <2> HIDE DEF cells
  <2> QED
    BY <1>3, <1>5, <1>7, <2>1
<1>8. CASE Tier(t) \in {"tier2", "variant"}
  <2> DEFINE s == Serialize(T)
             z == Zeros(MaxPayload - Len(s))
  <2>1. IsBuffered(t) /\ T \in Seq(FlatFields)
    BY <1>2, <1>8 DEF IsBuffered
  <2>2. Len(s) <= MaxPayload /\ SentSize(t) <= MaxPayload
    BY <2>1 DEF Fits
  <2>3. s \in Seq(CellSet) /\ Len(s) \in Nat /\ PayloadSize(T) = Len(s)
    BY <2>1, SerializedIs, LenProperties
  <2>4. SentSize(t) \in Nat
    BY <2>1, <2>3, TotalSizeIs DEF SentSize
  <2>5. z \in Seq(CellSet) /\ Len(z) = MaxPayload - Len(s)
    <3>1. MaxPayload - Len(s) \in Nat
      BY <2>2, <2>3, LayoutAssumption
    <3> QED
      BY <3>1, BytesAre
  <2>6. Payload(t) = SubSeq(s \o z, 1, SentSize(t))
    BY <1>8, <2>1 DEF Payload, PadTo
  <2> HIDE DEF s, z
  <2>7. /\ s \o z \in Seq(CellSet) /\ Len(s \o z) = MaxPayload
        /\ \A k \in 1..Len(s) : (s \o z)[k] = s[k]
    <3>1. /\ s \o z \in Seq(CellSet) /\ Len(s \o z) = Len(s) + Len(z)
          /\ \A k \in 1..Len(s) : (s \o z)[k] = s[k]
      BY <2>3, <2>5, ConcatIs
    <3> QED
      BY <2>3, <2>5, <3>1, LayoutAssumption
  <2> DEFINE w == s \o z
             m == SentSize(t)
  <2>8. w \in Seq(CellSet) /\ m \in 0..Len(w) /\ Payload(t) = SubSeq(w, 1, m)
    BY <2>2, <2>4, <2>6, <2>7, LayoutAssumption
  <2> HIDE DEF w, m
  <2>9. /\ SubSeq(w, 1, m) \in Seq(CellSet) /\ Len(SubSeq(w, 1, m)) = m
        /\ \A k \in 1..m : SubSeq(w, 1, m)[k] = w[k]
    BY <2>8
  <2>10. \A k \in 1..m : k <= Len(s) => Payload(t)[k] = s[k]
    <3>1. m \in Nat /\ \A k \in 1..m : k \in Nat \ {0}
      BY <2>8
    <3> QED
      BY <2>3, <2>7, <2>8, <2>9, <3>1 DEF w
  <2> QED
    BY <1>8, <2>1, <2>2, <2>8, <2>9, <2>10 DEF m, s
<1> QED
  BY <1>2, <1>6, <1>7, <1>8

-----------------------------------------------------------------------------
(* InterpreterTypeOK.                                                      *)
TypeSet == Types \cup Events \cup {InlineVariant(V, b) : V \in Seq(FlatFields), b \in Nat}
Calls == UNION {{[code |-> CodeOf(t), pc |-> p] : p \in Points(t)} : t \in TypeSet}

(* All of these have bytecode.                                             *)
LEMMA TypeSetIs ==
  /\ \A t \in TypeSet : Coded(t)
  /\ \A t : IsSubroutine(t) => t \in TypeSet
<1>1. ASSUME NEW V \in Seq(FlatFields), NEW b \in Nat
      PROVE  Coded(InlineVariant(V, b))
  <2> DEFINE t == InlineVariant(V, b)
  <2>1. t.fields = V /\ t.body = b
    BY DEF InlineVariant
  <2>2. IsSubroutine(t)
    BY <2>1 DEF IsSubroutine
  <2> HIDE DEF t
  <2>3. Coded(t)
    BY <2>2, CodedTypes
  <2> QED
    BY <2>3 DEF t
<1>2. \A t \in TypeSet : Coded(t)
  BY <1>1, CodedTypes DEF TypeSet
<1>3. \A t : IsSubroutine(t) => t \in TypeSet
  BY DEF IsSubroutine, TypeSet
<1> QED
  BY <1>2, <1>3

(* Every call on the stack is at a point of the bytecode of some type.     *)
TypeInv ==
  /\ outcome \in {"logging", "running", "done", "error", "panicked", "crashed"}
  /\ event \in Events
  /\ db \subseteq Callees(event.fields)
  /\ wire \in Seq(CellSet)
  /\ IsBuffered(event) => Len(wire) <= MaxPayload
  /\ pos \in Nat
  /\ stack \in Seq(Calls)
  /\ Len(stack) <= MaxDepth + 1
  /\ outcome = "running" => Len(stack) > 0

(* What is read from a byte is a number.                                   *)
LEMMA NumbersAtIs ==
  ASSUME wire \in Seq(CellSet), NEW p \in Nat, p < Len(wire)
  PROVE  NumbersAt(p) \subseteq Nat
<1>1. p + 1 \in 1..Len(wire)
  OBVIOUS
<1>2. wire[p + 1] \in CellSet
  BY <1>1
<1>3. wire[p + 1][3] \in SUBSET Nat
  BY <1>2 DEF CellSet
<1> QED
  BY <1>3, InterpreterAssumption DEF NumbersAt

(* Going on in the innermost call, and calling.                            *)
LEMMA GotoIs ==
  ASSUME stack \in Seq(Calls), Len(stack) > 0, NEW c, NEW p \in Int,
         Last(stack) = [code |-> c, pc |-> p], NEW k \in Int
  PROVE  /\ Len(stack) \in Nat
         /\ Top = [code |-> c, pc |-> p]
         /\ DOMAIN Goto(k) = 1..Len(stack)
         /\ \A i \in 1..Len(stack) :
              Goto(k)[i] = IF i = Len(stack) THEN [code |-> c, pc |-> p + k] ELSE stack[i]
         /\ [code |-> c, pc |-> p + k] \in Calls =>
              Goto(k) \in Seq(Calls) /\ Len(Goto(k)) = Len(stack)
<1> DEFINE n == Len(stack)
<1>1. n \in Nat /\ n \in 1..n /\ DOMAIN stack = 1..n /\ \A i \in 1..n : stack[i] \in Calls
  OBVIOUS
<1>2. stack[n] = [code |-> c, pc |-> p] /\ Top = stack[n]
  BY DEF Top, Last
<1>3. [stack[n] EXCEPT !.pc = @ + k] = [code |-> c, pc |-> p + k]
  BY <1>2
<1>4. Goto(k) = [stack EXCEPT ![n] = [code |-> c, pc |-> p + k]]
  BY <1>3 DEF Goto
<1>5. Goto(k) = [i \in 1..n |-> IF i = n THEN [code |-> c, pc |-> p + k] ELSE stack[i]]
  BY <1>1, <1>4
<1> HIDE DEF n
<1>6. ASSUME [code |-> c, pc |-> p + k] \in Calls
      PROVE  Goto(k) \in Seq(Calls) /\ Len(Goto(k)) = n
  BY <1>1, <1>5, <1>6
<1> QED
  BY <1>1, <1>2, <1>5, <1>6 DEF n

(* The innermost call is at a point, and so may go on to the next one.     *)
LEMMA TopIs ==
  ASSUME TypeInv, outcome = "running"
  PROVE  \E t \in TypeSet : \E p \in Points(t) :
           /\ Coded(t) /\ p \in Nat
           /\ Last(stack) = [code |-> CodeOf(t), pc |-> p]
           /\ Top.code = CodeOf(t) /\ Top.pc = p
           /\ SoundAt(CodeOf(t), Points(t), p)
           /\ \A k \in Nat : p + k \in Points(t) =>
                Goto(k) \in Seq(Calls) /\ Len(Goto(k)) = Len(stack)
<1>1. stack \in Seq(Calls) /\ Len(stack) \in Nat /\ Len(stack) > 0
  BY DEF TypeInv
<1>2. Last(stack) \in Calls
  BY <1>1 DEF Last
<1>3. PICK t \in TypeSet : \E p \in Points(t) : Last(stack) = [code |-> CodeOf(t), pc |-> p]
  BY <1>2 DEF Calls
<1>10. PICK p \in Points(t) : Last(stack) = [code |-> CodeOf(t), pc |-> p]
  BY <1>3
<1>4. Coded(t)
  BY TypeSetIs
<1>5. SoundAt(CodeOf(t), Points(t), p)
  BY <1>4, PointsAreSound
<1>6. p \in 1..Len(CodeOf(t)) /\ Len(CodeOf(t)) \in Nat
  BY <1>4, <1>5, CodeIs DEF SoundAt
<1>7. p \in Nat
  BY <1>6
<1>8. ASSUME NEW k \in Nat, p + k \in Points(t)
      PROVE  Goto(k) \in Seq(Calls) /\ Len(Goto(k)) = Len(stack)
  <2>1. [code |-> CodeOf(t), pc |-> p + k] \in Calls
    BY <1>8 DEF Calls
  <2>2. p \in Int /\ k \in Int
    BY <1>7
  <2> QED
    BY <1>1, <1>10, <2>1, <2>2, GotoIs
<1>9. Top.code = CodeOf(t) /\ Top.pc = p
  BY <1>10 DEF Top
<1> QED
  BY <1>10, <1>4, <1>5, <1>7, <1>8, <1>9

(* Nothing is called when it begins.                                       *)
LEMMA InitTypeInv == Init => TypeInv
<1> SUFFICES ASSUME Init
             PROVE  TypeInv
  OBVIOUS
<1>1. Len(<<>>) = 0 /\ <<>> \in Seq(Calls) /\ <<>> \in Seq(CellSet)
  OBVIOUS
<1>2. 0 <= MaxDepth + 1 /\ 0 <= MaxPayload
  BY InterpreterAssumption, LayoutAssumption
<1>3. db \subseteq Callees(event.fields)
  BY DEF Init
<1> QED
  BY <1>1, <1>2, <1>3 DEF Init, TypeInv

(* The opcodes.                                                            *)
LEMMA ItemsAre ==
  /\ Item.end = 0 /\ Item.utf8 = 9 /\ Item.skip = 10 /\ Item.dispatch = 14
  /\ Item.call = 15 /\ Item.ZfmtStr = 16 /\ Item.ZfmtU64 = 17
  /\ Single = 0 /\ FixedArray = 1 /\ VarLength = 3
  /\ SizeOf("u8") = 1 /\ SizeOf("ZfmtStr") = 4 /\ SizeOf("ZfmtU64") = 8
BY DEF Item, Single, FixedArray, VarLength, SizeOf

(* Every step of the device and of run_bc keeps TypeInv: one case for each *)
(* instruction.                                                            *)
LEMMA NextTypeInv == TypeInv /\ [Next]_vars => TypeInv'
<1> SUFFICES ASSUME TypeInv, [Next]_vars
             PROVE  TypeInv'
  OBVIOUS
<1>1. /\ pos \in Nat /\ Len(wire) \in Nat
      /\ stack \in Seq(Calls) /\ Len(stack) \in Nat /\ Len(stack) <= MaxDepth + 1
      /\ MaxDepth \in Nat
  <2>1. pos \in Nat /\ wire \in Seq(CellSet) /\ stack \in Seq(Calls) /\ Len(stack) <= MaxDepth + 1
    BY DEF TypeInv
  <2> QED
    BY <2>1, LenProperties, InterpreterAssumption
<1>2. ASSUME UNCHANGED <<event, db, wire, pos, stack>>,
             outcome' \in {"done", "error", "panicked", "crashed"}
      PROVE  TypeInv'
  <2>1. IsBuffered(event)' <=> IsBuffered(event)
    BY <1>2 DEF IsBuffered
  <2> QED
    BY <1>2, <2>1 DEF TypeInv
<1>3. CASE UNCHANGED vars
  BY <1>3 DEF TypeInv, vars, IsBuffered
<1>4. CASE Panic
  BY <1>2, <1>4 DEF Panic, input
<1>5. CASE Send
  <2>1. /\ outcome' = "running" /\ wire' = Payload(event)
        /\ stack' = <<[code |-> CodeOf(event), pc |-> 1]>>
        /\ event' = event /\ db' = db /\ pos' = pos /\ Fits(event)
    BY <1>5 DEF Send, input
  <2>2. event \in Events /\ event \in TypeSet
    BY DEF TypeInv, TypeSet
  <2>3. Coded(event) /\ (IsStruct(event) \/ IsVariant(event))
    BY <2>2, EventsAssumption, CodedTypes
  <2>4. Payload(event) \in Seq(CellSet)
        /\ (IsBuffered(event) => Len(Payload(event)) <= MaxPayload)
    BY <2>1, <2>3, PayloadIs
  <2>5. 1 \in Points(event)
    BY <2>3, PointsAreSound
  <2>6. [code |-> CodeOf(event), pc |-> 1] \in Calls
    BY <2>2, <2>5 DEF Calls
  <2>7. stack' \in Seq(Calls) /\ Len(stack') = 1
    BY <2>1, <2>6
  <2>8. 1 <= MaxDepth + 1
    BY <1>1
  <2> QED
    BY <2>1, <2>2, <2>4, <2>7, <2>8 DEF TypeInv, IsBuffered
<1>6. CASE Stop
  BY <1>3, <1>6 DEF Stop
<1>7. ASSUME outcome = "running",
             Skip \/ StringRef \/ Pair \/ FixedText \/ VarText
               \/ (\E ty \in ScalarTypes \ {"ZfmtStr", "ZfmtU64"} : ReadItems(ty))
               \/ Call \/ Dispatch \/ Return
      PROVE  TypeInv'
  <2>1. PICK t \in TypeSet : \E p \in Points(t) :
           /\ Coded(t) /\ p \in Nat
           /\ Last(stack) = [code |-> CodeOf(t), pc |-> p]
           /\ Top.code = CodeOf(t) /\ Top.pc = p
           /\ SoundAt(CodeOf(t), Points(t), p)
           /\ \A k \in Nat : p + k \in Points(t) =>
                Goto(k) \in Seq(Calls) /\ Len(Goto(k)) = Len(stack)
    BY <1>7, TopIs
  <2>2. PICK p \in Points(t) :
           /\ Coded(t) /\ p \in Nat
           /\ Last(stack) = [code |-> CodeOf(t), pc |-> p]
           /\ Top.code = CodeOf(t) /\ Top.pc = p
           /\ SoundAt(CodeOf(t), Points(t), p)
           /\ \A k \in Nat : p + k \in Points(t) =>
                Goto(k) \in Seq(Calls) /\ Len(Goto(k)) = Len(stack)
    BY <2>1
  <2> DEFINE c == CodeOf(t)
             P == Points(t)
  <2>3. /\ SoundAt(c, P, p) /\ p \in Nat
        /\ Op = c[p] /\ Count = c[p + 1] /\ Operand = c[p] % 8
        /\ \A item : At(item) => c[p] \div 8 = item
    BY <2>2 DEF Op, Count, Operand, At
  <2>4. \A k \in Nat : p + k \in P => Goto(k) \in Seq(Calls) /\ Len(Goto(k)) = Len(stack)
    BY <2>2
  <2>5. Len(stack) > 0
    BY <1>7 DEF TypeInv
  <2>16. Top.code = c /\ Top.pc = p
    BY <2>2
  <2> HIDE DEF c, P
  <2>6. ASSUME NEW k \in Nat, p + k \in P, stack' = Goto(k),
               UNCHANGED <<event, db, wire, outcome>>, pos' \in Nat
        PROVE  TypeInv'
    <3>1. stack' \in Seq(Calls) /\ Len(stack') = Len(stack)
      BY <2>4, <2>6
    <3> QED
      BY <1>7, <2>6, <3>1 DEF TypeInv, IsBuffered
  <2>7. ASSUME Fail
        PROVE  TypeInv'
    BY <1>2, <2>7 DEF Fail, input
  <2>8. ASSUME NEW n \in Nat, NEW k \in Nat, p + k \in P, Take(n, k)
        PROVE  TypeInv'
    <3>1. pos' = pos + n /\ stack' = Goto(k) /\ UNCHANGED <<event, db, wire, outcome>>
      BY <2>8 DEF Take, input
    <3> QED
      BY <1>1, <2>6, <2>8, <3>1
  <2>9. ASSUME NEW n \in Nat, NEW k \in Nat, p + k \in P, TakeOrFail(n, k)
        PROVE  TypeInv'
    BY <2>7, <2>8, <2>9 DEF TakeOrFail
  <2>10. ASSUME NEW x, NEW q \in Nat, NEW k \in Nat, p + k \in P, MayCall, Enter(x, q, k)
         PROVE  TypeInv'
    <3>1. CASE x \notin db
      BY <2>7, <2>10, <3>1 DEF Enter
    <3>2. CASE x \in db
      <4>1. /\ stack' = Append(Goto(k), [code |-> CodeOf(x), pc |-> 1])
            /\ pos' = q /\ UNCHANGED <<event, db, wire, outcome>>
        BY <2>10, <3>2 DEF Enter, input
      <4>2. event \in Events /\ x \in Callees(event.fields)
        BY <3>2 DEF TypeInv
      <4>3. x \in Types \/ IsSubroutine(x)
        BY <4>2, CodedTypes, CalleesAre DEF Coded
      <4>4. x \in TypeSet /\ Coded(x)
        BY <4>3, TypeSetIs DEF TypeSet
      <4>5. [code |-> CodeOf(x), pc |-> 1] \in Calls
        BY <4>4, PointsAreSound DEF Calls
      <4>6. Goto(k) \in Seq(Calls) /\ Len(Goto(k)) = Len(stack)
        BY <2>4, <2>10
      <4>7. stack' \in Seq(Calls) /\ Len(stack') = Len(stack) + 1
        BY <4>1, <4>5, <4>6, AppendProperties
      <4>8. Len(stack) <= MaxDepth
        BY <2>10 DEF MayCall
      <4> QED
        BY <1>1, <1>7, <4>1, <4>7, <4>8 DEF TypeInv, IsBuffered
    <3> QED
      BY <3>1, <3>2
  <2>11. CASE Skip
    <3>1. c[p] \div 8 = 10 /\ pos' = pos + Count /\ stack' = Goto(2)
          /\ UNCHANGED <<event, db, wire, outcome>>
      BY <2>3, <2>11, ItemsAre DEF Skip, input
    <3>2. c[p + 1] \in Nat /\ p + 2 \in P
      BY <2>3, <3>1 DEF SoundAt
    <3>3. Count \in Nat
      BY <2>3, <3>2
    <3>4. pos' \in Nat
      BY <1>1, <3>1, <3>3
    <3> QED
      BY <2>6, <3>1, <3>2, <3>4
  <2>12. CASE StringRef
    <3>1. c[p] \div 8 = 16 /\ TakeOrFail(4, 1)
      BY <2>3, <2>12, ItemsAre DEF StringRef
    <3>2. p + 1 \in P
      BY <2>3, <3>1 DEF SoundAt
    <3> QED
      BY <2>9, <3>1, <3>2
  <2>13. CASE Pair
    <3>1. c[p] \div 8 = 17 /\ (c[p] % 8 = 0 => TakeOrFail(8, 1)) /\ (c[p] % 8 # 0 => Fail)
      BY <2>3, <2>13, ItemsAre DEF Pair
    <3>2. c[p] % 8 = 0 => p + 1 \in P
      BY <2>3, <3>1 DEF SoundAt
    <3> QED
      BY <2>7, <2>9, <3>1, <3>2
  <2>14. CASE FixedText
    <3>1. c[p] \div 8 = 9 /\ c[p] % 8 = 1 /\ TakeOrFail(c[p + 1], 2)
      BY <2>3, <2>14, ItemsAre DEF FixedText
    <3>2. c[p + 1] \in Nat /\ p + 2 \in P
      BY <2>3, <3>1 DEF SoundAt
    <3> QED
      BY <2>9, <3>1, <3>2
  <2>15. CASE VarText
    <3>1. c[p] \div 8 = 9 /\ c[p] % 8 = 3
      BY <2>3, <2>15, ItemsAre DEF VarText
    <3>2. p + 1 \in P
      BY <2>3, <3>1 DEF SoundAt
    <3>3. CASE pos > Len(wire)
      BY <1>2, <2>15, <3>3 DEF VarText, Crash, input
    <3>4. CASE pos = Len(wire)
      BY <1>1, <2>7, <2>15, <3>4 DEF VarText
    <3>5. CASE pos < Len(wire)
      <4>1. PICK n \in NumbersAt(pos) :
              LET start == pos + LebLen(n) IN
              IF start + n <= Len(wire)
              THEN /\ values' = Append(values, SubSeq(wire, start + 1, start + n))
                   /\ pos' = start + n
                   /\ stack' = Goto(1)
                   /\ UNCHANGED <<input, outcome, wire>>
              ELSE Fail
        BY <1>1, <2>15, <3>5 DEF VarText
      <4>2. n \in Nat
        BY <1>1, <3>5, <4>1, NumbersAtIs DEF TypeInv
      <4>3. pos + LebLen(n) + n \in Nat
        BY <1>1, <4>2 DEF LebLen
      <4>4. CASE Fail
        BY <2>7, <4>4
      <4>5. CASE pos' = pos + LebLen(n) + n /\ stack' = Goto(1) /\ UNCHANGED <<input, outcome, wire>>
        BY <2>6, <3>2, <4>3, <4>5 DEF input
      <4> QED
        BY <4>1, <4>4, <4>5
    <3> QED
      BY <1>1, <3>3, <3>4, <3>5
  <2>17. CASE \E ty \in ScalarTypes \ {"ZfmtStr", "ZfmtU64"} : ReadItems(ty)
    <3>1. PICK ty \in ScalarTypes \ {"ZfmtStr", "ZfmtU64"} : ReadItems(ty)
      BY <2>17
    <3>2. /\ c[p] \div 8 = Item[ty]
          /\ \/ c[p] % 8 = 0 /\ TakeOrFail(SizeOf(ty), 1)
             \/ c[p] % 8 = 1 /\ TakeOrFail(c[p + 1] * SizeOf(ty), 2)
             \/ c[p] % 8 = 1 /\ Take(0, 2)
      BY <2>3, <3>1, ItemsAre DEF ReadItems
    <3>3. Item[ty] \in {1, 2, 3, 4, 5, 6, 7, 8, 11, 12, 13}
      BY <3>1, ItemIs
    <3>4. SizeOf(ty) \in Nat
      BY SizeOfIs
    <3>5. /\ c[p] % 8 = 0 => p + 1 \in P
          /\ c[p] % 8 = 1 => c[p + 1] \in Nat /\ p + 2 \in P
      BY <2>3, <3>2, <3>3 DEF SoundAt
    <3>6. CASE c[p] % 8 = 0 /\ TakeOrFail(SizeOf(ty), 1)
      BY <2>9, <3>4, <3>5, <3>6
    <3>7. CASE c[p] % 8 = 1 /\ TakeOrFail(c[p + 1] * SizeOf(ty), 2)
      <4>1. c[p + 1] * SizeOf(ty) \in Nat
        BY <3>4, <3>5, <3>7
      <4> QED
        BY <2>9, <3>5, <3>7, <4>1
    <3>8. CASE c[p] % 8 = 1 /\ Take(0, 2)
      BY <2>8, <3>5, <3>8
    <3> QED
      BY <3>2, <3>6, <3>7, <3>8
  <2>18. CASE Call
    <3>1. c[p] \div 8 = 15 /\ (MayCall => Enter(c[p + 1], pos, 2)) /\ (~MayCall => Fail)
      BY <2>3, <2>18, ItemsAre DEF Call
    <3>2. p + 2 \in P
      BY <2>3, <3>1 DEF SoundAt
    <3>3. CASE MayCall
      BY <1>1, <2>10, <3>1, <3>2, <3>3
    <3>4. CASE ~MayCall
      BY <2>7, <3>1, <3>4
    <3> QED
      BY <3>3, <3>4
  <2>19. CASE Dispatch
    <3> DEFINE body == pos + 1 + c[p + 2]
               next == 4 + 2 * c[p + 3]
    <3>1. c[p] \div 8 = 14 /\ Top.code[Top.pc + 2] = c[p + 2] /\ Top.code[Top.pc + 3] = c[p + 3]
      BY <2>3, <2>16, <2>19, ItemsAre DEF Dispatch
    <3>2. c[p + 2] \in Nat /\ c[p + 3] \in Nat /\ p + 4 + 2 * c[p + 3] \in P
      BY <2>3, <3>1 DEF SoundAt
    <3>3. body \in Nat /\ next \in Nat /\ p + next \in P
      <4>1. p + 4 + 2 * c[p + 3] = p + next
        BY <2>3, <3>2
      <4>2. next \in Nat
        BY <3>2
      <4>3. pos \in Nat
        BY <1>1
      <4>4. body \in Nat
        BY <3>2, <4>3
      <4> QED
        BY <3>2, <4>1, <4>2, <4>4
    <3>4. CASE ~MayCall \/ ~Available(1)
      BY <2>7, <2>19, <3>4, ItemsAre DEF Dispatch
    <3>5. CASE MayCall /\ Available(1)
      <4>1. PICK d \in NumbersAt(pos) :
              IF d \in 1..c[p + 3]
              THEN Enter(Top.code[Top.pc + 3 + 2 * d], body, next)
              ELSE /\ values' = Append(values, <<>>)
                   /\ pos' = body
                   /\ stack' = Goto(next)
                   /\ UNCHANGED <<input, outcome, wire>>
        BY <2>19, <3>1, <3>5, ItemsAre DEF Dispatch
      <4> HIDE DEF body, next
      <4>2. CASE d \in 1..c[p + 3]
        BY <2>10, <3>3, <3>5, <4>1, <4>2
      <4>3. CASE d \notin 1..c[p + 3]
        BY <2>6, <3>3, <4>1, <4>3 DEF input
      <4> QED
        BY <4>2, <4>3
    <3> QED
      BY <3>4, <3>5
  <2>20. CASE Return
    <3>1. /\ stack' = Front(stack)
          /\ outcome' = IF Len(stack) = 1 THEN "done" ELSE outcome
          /\ UNCHANGED <<event, db, wire, pos>>
      BY <2>20 DEF Return, input
    <3>2. Front(stack) = SubSeq(stack, 1, Len(stack) - 1)
      BY DEF Front
    <3>5. Len(stack) - 1 \in 0..Len(stack)
      BY <1>1, <2>5
    <3>6. \A m \in 0..Len(stack) : SubSeq(stack, 1, m) \in Seq(Calls)
                                   /\ Len(SubSeq(stack, 1, m)) = m
      BY <1>1
    <3>3. stack' \in Seq(Calls) /\ Len(stack') = Len(stack) - 1
      BY <3>1, <3>2, <3>5, <3>6
    <3>4. Len(stack') <= MaxDepth + 1 /\ (outcome' = "running" => Len(stack') > 0)
      BY <1>1, <1>7, <2>5, <3>1, <3>3
    <3> QED
      BY <1>7, <3>1, <3>3, <3>4 DEF TypeInv, IsBuffered
  <2> QED
    BY <1>7, <2>11, <2>12, <2>13, <2>14, <2>15, <2>17, <2>18, <2>19, <2>20
<1>8. ASSUME Skip \/ StringRef \/ Pair \/ FixedText \/ VarText
               \/ (\E ty \in ScalarTypes \ {"ZfmtStr", "ZfmtU64"} : ReadItems(ty))
               \/ Call \/ Dispatch \/ Return
      PROVE  outcome = "running"
  BY <1>8 DEF Skip, StringRef, Pair, FixedText, VarText, ReadItems, Call, Dispatch, Return, At
<1> QED
  BY <1>3, <1>4, <1>5, <1>6, <1>7, <1>8 DEF Next

(* So it always holds.                                                     *)
LEMMA SpecTypeInv == Spec => []TypeInv
<1> QED
  BY InitTypeInv, NextTypeInv, PTL DEF Spec

(* A call is never deeper than MAX_DEPTH, no jump leaves the bytecode, and *)
(* the payload fits its buffer.                                            *)
THEOREM TypeCorrect == Spec => []InterpreterTypeOK
<1>1. TypeInv => InterpreterTypeOK
  <2> SUFFICES ASSUME TypeInv
               PROVE  InterpreterTypeOK
    OBVIOUS
  <2>1. ASSUME NEW k \in DOMAIN stack
        PROVE  stack[k].pc \in 1..Len(stack[k].code)
    <3>1. stack[k] \in Calls
      BY DEF TypeInv
    <3>2. PICK t \in TypeSet : \E p \in Points(t) : stack[k] = [code |-> CodeOf(t), pc |-> p]
      BY <3>1 DEF Calls
    <3>3. PICK p \in Points(t) : stack[k] = [code |-> CodeOf(t), pc |-> p]
      BY <3>2
    <3>4. SoundAt(CodeOf(t), Points(t), p)
      BY TypeSetIs, PointsAreSound
    <3> QED
      BY <3>3, <3>4 DEF SoundAt
  <2> QED
    BY <2>1 DEF TypeInv, InterpreterTypeOK
<1> QED
  BY <1>1, SpecTypeInv, PTL

-----------------------------------------------------------------------------
(* Where the interpreter is in the payload.                                *)

(* How far the instruction of a field moves it, and where it is behind the *)
(* first i fields of t, counted from where t begins.                       *)
Length(f) ==
  CASE f.kind = "str" -> LebLen(f.n) + f.n
    [] f.kind = "fixed" -> FixedSize(f)
    [] OTHER -> FieldSize(f) - Unread(f)
Moves(t) == [i \in DOMAIN t.fields |-> Gap(t, i) + Length(t.fields[i])]
Pos(t, i) == (CHOOSE g : Sums(g, Moves(t)))[i]

(* Behind a field it is the gap and the instruction further on.            *)
LEMMA PosIs ==
  ASSUME NEW t, Coded(t)
  PROVE  /\ Pos(t, 0) = 0
         /\ \A i \in 0..Len(t.fields) : Pos(t, i) \in Int
         /\ \A i \in 1..Len(t.fields) :
              /\ Gap(t, i) \in Nat /\ Length(t.fields[i]) \in Int
              /\ Pos(t, i) = Pos(t, i - 1) + Gap(t, i) + Length(t.fields[i])
<1> DEFINE n == Len(t.fields)
           T == t.fields
           g == CHOOSE g : Sums(g, Moves(t))
<1>1. n \in Nat /\ DOMAIN T = 1..n /\ LaidOut(T) /\ \A i \in 1..n : T[i] \in Fields
  BY PiecesAre, HoldsTypedIsLaidOut DEF Coded
<1>2. ASSUME NEW i \in 1..n
      PROVE  Gap(t, i) \in Nat /\ Length(T[i]) \in Int
  <2>1. CASE T[i].kind = "str"
    <3>1. T[i].n \in Nat
      BY <1>1, <2>1, FieldKind, StrFieldIs
    <3>2. Length(T[i]) \in Int
      BY <2>1, <3>1 DEF Length, LebLen
    <3> QED
      BY <3>2, LeadIs
  <2>2. CASE T[i].kind = "fixed"
    <3>1. FixedSize(T[i]) \in Nat
      BY <1>1, <2>2, FieldKind, FixedFieldIs
    <3>2. Length(T[i]) \in Int
      BY <2>2, <3>1 DEF Length
    <3> QED
      BY <3>2, LeadIs
  <2>3. CASE T[i].kind \notin {"fixed", "str"}
    <3>1. FieldSize(T[i]) \in Nat /\ Unread(T[i]) \in Int
      BY <1>1, OffsetsAre, UnreadIs DEF Coded
    <3>2. Length(T[i]) \in Int
      BY <2>3, <3>1 DEF Length
    <3> QED
      BY <3>2, LeadIs
  <2> QED
    BY <2>1, <2>2, <2>3
<1> DEFINE e(i) == Gap(t, i) + Length(T[i])
<1>3. Moves(t) = [i \in 1..n |-> e(i)]
  BY <1>1 DEF Moves
<1>4. \A i \in 1..n : e(i) \in Int
  BY <1>2
<1>5. \A i \in 1..n : e(i) = Gap(t, i) + Length(T[i])
  OBVIOUS
<1> HIDE DEF e, n, T
<1>6. Moves(t) \in Seq(Int) /\ Len(Moves(t)) = n /\ \A i \in 1..n : Moves(t)[i] = e(i)
  BY <1>1, <1>3, <1>4
<1>7. Sums(g, Moves(t))
  BY <1>6, SumsExist
<1>8. \A i : Pos(t, i) = g[i]
  BY DEF Pos
<1> HIDE DEF g
<1>9. /\ g[0] = 0 /\ \A i \in 0..n : g[i] \in Int
      /\ \A i \in 1..n : g[i] = g[i - 1] + e(i)
  BY <1>1, <1>6, <1>7 DEF Sums
<1>10. ASSUME NEW i \in 1..n
       PROVE  Pos(t, i) = Pos(t, i - 1) + Gap(t, i) + Length(T[i])
  <2>1. i - 1 \in 0..n
    BY <1>1
  <2>2. g[i - 1] \in Int /\ Gap(t, i) \in Int /\ Length(T[i]) \in Int
    BY <1>2, <1>9, <2>1
  <2>3. g[i] = g[i - 1] + (Gap(t, i) + Length(T[i]))
    BY <1>5, <1>9
  <2> QED
    BY <1>8, <2>2, <2>3
<1> QED
  BY <1>2, <1>8, <1>9, <1>10 DEF n, T

(* What is sent field by field ends where the interpreter is.              *)
LEMMA FlatPos ==
  ASSUME NEW t, Coded(t), Tier(t) # "nested"
  PROVE  /\ t.fields \in Seq(FlatFields)
         /\ \A i \in 0..Len(t.fields) :
              /\ Pos(t, i) = Len(Upto(SerializedFields(t.fields), i))
              /\ Pos(t, i) \in Nat
              /\ ~Has(t.fields, "str") => Pos(t, i) = MacroEnd(t.fields, i)
         /\ \A i \in 1..Len(t.fields) :
              /\ Gap(t, i) = GapBefore(t.fields, i)
              /\ Length(t.fields[i]) = SentLen(t.fields[i])
<1> DEFINE T == t.fields
           n == Len(T)
           P == SerializedFields(T)
           f == [i \in 0..n |-> Pos(t, i)]
           g == [i \in 0..n |-> Len(Upto(P, i))]
           h == [i \in 0..n |-> MacroEnd(T, i)]
<1>1. T \in Seq(FlatFields) /\ n \in Nat
  BY PiecesAre, TierIs
<1>2. \A i \in 1..n : T[i] \in FlatFields /\ T[i].kind \in {"fixed", "str"}
  BY <1>1, FlatIsLaidOut
<1>3. ASSUME NEW i \in 1..n
      PROVE  /\ Gap(t, i) = GapBefore(T, i)
             /\ Length(T[i]) = SentLen(T[i])
  BY <1>2 DEF Gap, Length, SentLen
<1>4. /\ Pos(t, 0) = 0
      /\ \A i \in 0..n : Pos(t, i) \in Int
      /\ \A i \in 1..n : Pos(t, i) = Pos(t, i - 1) + Gap(t, i) + Length(T[i])
  BY PosIs
<1>5. /\ P \in Seq(Seq(CellSet)) /\ Len(P) = n
      /\ \A i \in 1..n : P[i] = SerializedField(T, i)
  BY <1>1, SerializedIs
<1>6. \A i \in 1..n : /\ GapBefore(T, i) \in Nat /\ SentLen(T[i]) \in Nat
                      /\ Len(SerializedField(T, i)) = GapBefore(T, i) + SentLen(T[i])
  BY <1>1, SerializedFieldIs
<1>7. \A i \in 0..n : Len(Upto(P, i)) \in Nat
  BY <1>5, UptoJoins, LenProperties
<1>8. Upto(P, 0) = <<>>
  BY <1>5, UptoJoins
<1>9. \A i \in 1..n : i \in 0..n /\ i - 1 \in 0..n
  BY <1>1
<1>10. \A i \in 1..n : Len(Upto(P, i)) = Len(Upto(P, i - 1)) + Len(P[i])
  BY <1>5, UptoLen
<1>11. /\ MacroEnd(T, 0) = 0
       /\ \A i \in 0..n : MacroEnd(T, i) \in Nat
       /\ \A i \in 1..n : T[i].kind = "fixed" =>
            MacroEnd(T, i) = MacroEnd(T, i - 1) + GapBefore(T, i) + FixedSize(T[i])
  BY <1>1, MacroEndsAre
<1> HIDE DEF T, n, P
<1>12. ASSUME NEW i \in 1..n, f[i - 1] = g[i - 1]
       PROVE  f[i] = g[i]
  <2>1. Pos(t, i) = Pos(t, i - 1) + GapBefore(T, i) + SentLen(T[i])
    BY <1>3, <1>4
  <2>2. Len(Upto(P, i)) = Len(Upto(P, i - 1)) + (GapBefore(T, i) + SentLen(T[i]))
    BY <1>5, <1>6, <1>10
  <2>3. Pos(t, i - 1) = Len(Upto(P, i - 1)) /\ Pos(t, i - 1) \in Int
    BY <1>4, <1>9, <1>12
  <2>4. Pos(t, i) = Len(Upto(P, i))
    BY <1>6, <2>1, <2>2, <2>3
  <2> QED
    BY <1>9, <2>4
<1>13. f[0] = g[0]
  BY <1>1, <1>4, <1>8
<1>14. \A i \in 0..n : f[i] = g[i]
  <2> HIDE DEF f, g
  <2>1. Follows(f, g, n)
    BY <1>12, <1>13 DEF Follows
  <2> QED
    BY <1>1, <2>1, SameSteps
<1>15. ASSUME ~Has(T, "str")
       PROVE  \A i \in 0..n : f[i] = h[i]
  <2>1. ASSUME NEW i \in 1..n, f[i - 1] = h[i - 1]
        PROVE  f[i] = h[i]
    <3>1. T[i].kind = "fixed"
      <4>1. DOMAIN T = 1..n
        BY <1>1 DEF n
      <4> QED
        BY <1>2, <1>15, <4>1 DEF Has
    <3>2. Pos(t, i) = Pos(t, i - 1) + GapBefore(T, i) + FixedSize(T[i])
      BY <1>3, <1>4, <3>1 DEF SentLen
    <3>3. MacroEnd(T, i) = MacroEnd(T, i - 1) + GapBefore(T, i) + FixedSize(T[i])
      BY <1>11, <3>1
    <3>4. Pos(t, i - 1) = MacroEnd(T, i - 1)
      BY <1>9, <2>1
    <3> QED
      BY <1>9, <3>2, <3>3, <3>4
  <2>2. f[0] = h[0]
    BY <1>1, <1>4, <1>11
  <2> HIDE DEF f, h
  <2>3. Follows(f, h, n)
    BY <2>1, <2>2 DEF Follows
  <2> QED
    BY <1>1, <2>3, SameSteps
<1>16. \A i \in 0..n : f[i] = Pos(t, i) /\ g[i] = Len(Upto(P, i)) /\ h[i] = MacroEnd(T, i)
  OBVIOUS
<1> HIDE DEF f, g, h
<1> QED
  BY <1>1, <1>3, <1>7, <1>14, <1>15, <1>16 DEF T, n, P

(* A multiple of s less than s behind x is where x is rounded up to.       *)
LEMMA AlignUpUnique ==
  ASSUME NEW s \in {1, 2, 4, 8}, NEW x \in Nat, NEW o \in Nat, x <= o, o < x + s, o % s = 0
  PROVE  AlignUp(x, s) = o
<1>1. CASE s = 1
  BY <1>1 DEF AlignUp
<1>2. CASE s = 2
  BY <1>2 DEF AlignUp
<1>3. CASE s = 4
  BY <1>3 DEF AlignUp
<1>4. CASE s = 8
  BY <1>4 DEF AlignUp
<1> QED
  BY <1>1, <1>2, <1>3, <1>4

(* Rounding up adds less than the alignment.                               *)
LEMMA AlignUpLess ==
  ASSUME NEW s \in {1, 2, 4, 8}, NEW x \in Nat
  PROVE  AlignUp(x, s) < x + s
<1>1. CASE s = 1
  BY <1>1 DEF AlignUp
<1>2. CASE s = 2
  BY <1>2 DEF AlignUp
<1>3. CASE s = 4
  BY <1>3 DEF AlignUp
<1>4. CASE s = 8
  BY <1>4 DEF AlignUp
<1> QED
  BY <1>1, <1>2, <1>3, <1>4

(* Where every field is naturally aligned, macro and compiler agree.       *)
LEMMA NaturalEnds ==
  ASSUME NEW T \in Seq(FlatFields), ~Has(T, "str"), NaturallyAligned(T)
  PROVE  /\ \A i \in 0..Len(T) : MacroEnd(T, i) = EndOf(T, i)
         /\ \A i \in 1..Len(T) : OffsetOf(T, i) = MacroEnd(T, i - 1) + GapBefore(T, i)
<1> DEFINE n == Len(T)
           f == [i \in 0..n |-> MacroEnd(T, i)]
           g == [i \in 0..n |-> EndOf(T, i)]
<1>1. n \in Nat /\ DOMAIN T = 1..n /\ LaidOut(T)
  BY FlatIsLaidOut
<1>2. \A i \in 1..n : T[i] \in FlatFields /\ T[i].kind = "fixed"
  BY <1>1, FlatIsLaidOut DEF Has
<1>3. \A i \in 1..n : /\ T[i] \in FixedFields /\ T[i].ty \in ScalarTypes
                      /\ FieldPart(T[i]).align = FixedAlign(T[i].ty)
                      /\ FieldPart(T[i]).size = FixedSize(T[i])
                      /\ FixedSize(T[i]) \in Nat
  BY <1>2, FlatPartIs, FixedFieldIs
<1>4. /\ EndOf(T, 0) = 0
      /\ \A i \in 0..n : EndOf(T, i) \in Nat
      /\ \A i \in 1..n : /\ OffsetOf(T, i) \in Nat /\ EndOf(T, i - 1) <= OffsetOf(T, i)
                         /\ EndOf(T, i) = OffsetOf(T, i) + FieldSize(T[i])
  BY <1>1, OffsetsAre
<1>5. /\ MacroEnd(T, 0) = 0
      /\ \A i \in 0..n : MacroEnd(T, i) \in Nat
      /\ \A i \in 1..n :
           /\ GapBefore(T, i) \in Nat
           /\ T[i].kind = "fixed" =>
                /\ MacroEnd(T, i - 1) + GapBefore(T, i)
                     = AlignUp(MacroEnd(T, i - 1), SizeOf(T[i].ty))
                /\ MacroEnd(T, i)
                     = MacroEnd(T, i - 1) + GapBefore(T, i) + FixedSize(T[i])
  BY MacroEndsAre
<1>6. \A i \in 1..n : i \in 0..n /\ i - 1 \in 0..n
  BY <1>1
<1>7. \A i \in 1..n : OffsetOf(T, i) % SizeOf(T[i].ty) = 0
  BY <1>1, <1>2 DEF NaturallyAligned
<1> HIDE DEF n
<1>8. ASSUME NEW i \in 1..n, MacroEnd(T, i - 1) = EndOf(T, i - 1)
      PROVE  /\ OffsetOf(T, i) = MacroEnd(T, i - 1) + GapBefore(T, i)
             /\ MacroEnd(T, i) = EndOf(T, i)
  <2> DEFINE x == EndOf(T, i - 1)
             a == FixedAlign(T[i].ty)
             s == SizeOf(T[i].ty)
             o == OffsetOf(T, i)
  <2>1. x \in Nat /\ o \in Nat /\ x <= o /\ o % s = 0 /\ o = AlignUp(x, a)
    BY <1>3, <1>4, <1>6, <1>7 DEF OffsetOf, FieldAlign
  <2>2. s \in {1, 2, 4, 8} /\ a \in {1, 2, 4, 8}
    BY <1>3, SizeOfIs
  <2>3. a <= s
    <3>1. CASE T[i].ty = "ZfmtU64"
      BY <3>1 DEF FixedAlign, SizeOf
    <3>2. CASE T[i].ty # "ZfmtU64"
      BY <2>2, <3>2, LayoutAssumption DEF FixedAlign
    <3> QED
      BY <3>1, <3>2
  <2> HIDE DEF x, a, s, o
  <2>4. o < x + a
    BY <2>1, <2>2, AlignUpLess
  <2>5. o < x + s
    BY <2>1, <2>2, <2>3, <2>4
  <2>6. AlignUp(x, s) = o
    BY <2>1, <2>2, <2>5, AlignUpUnique
  <2>7. o = MacroEnd(T, i - 1) + GapBefore(T, i)
    BY <1>2, <1>5, <1>8, <2>6 DEF x, s
  <2>8. MacroEnd(T, i) = o + FixedSize(T[i]) /\ EndOf(T, i) = o + FixedSize(T[i])
    BY <1>2, <1>3, <1>4, <1>5, <2>7 DEF o, FieldSize
  <2> QED
    BY <2>7, <2>8 DEF o
<1>9. \A i \in 0..n : f[i] = MacroEnd(T, i) /\ g[i] = EndOf(T, i)
  OBVIOUS
<1> HIDE DEF f, g
<1>10. Follows(f, g, n)
  <2>1. 0 \in 0..n
    BY <1>1
  <2>2. ASSUME NEW i \in 1..n, f[i - 1] = g[i - 1]
        PROVE  f[i] = g[i]
    BY <1>6, <1>8, <1>9, <2>2
  <2> QED
    BY <1>4, <1>5, <1>9, <2>1, <2>2 DEF Follows
<1>11. \A i \in 0..n : f[i] = g[i]
  BY <1>1, <1>10, SameSteps
<1>12. \A i \in 0..n : MacroEnd(T, i) = EndOf(T, i)
  BY <1>9, <1>11
<1> QED
  BY <1>6, <1>8, <1>12 DEF n

-----------------------------------------------------------------------------
(* Types whose bytes are read from where they lie in memory.               *)

Unreads(T) == [i \in DOMAIN T |-> Unread(T[i])]

(* The macro's offsets are the compiler's, or taken from it.               *)
Straight(t) ==
  /\ Coded(t)
  /\ \/ Tier(t) = "nested"
     \/ /\ Tier(t) \in {"tier1", "inline"}
        /\ ~Has(t.fields, "str") /\ NaturallyAligned(t.fields)

(* Nothing in a field without callees is unread.                           *)
LEMMA FlatIsRead ==
  ASSUME NEW f \in FlatFields
  PROVE  Unread(f) = 0
<1>1. f.kind \in {"fixed", "str"}
  BY FlatPartIs
<1> QED
  BY <1>1 DEF Unread

(* Behind i fields of a struct, the interpreter is behind what they take,  *)
(* but for what their subroutines have left unread.                        *)
LEMMA StraightPos ==
  ASSUME NEW t, Straight(t), NEW g, Sums(g, Unreads(t.fields))
  PROVE  \A i \in 0..Len(t.fields) : g[i] \in Int /\ Pos(t, i) + g[i] = EndOf(t.fields, i)
<1> DEFINE T == t.fields
           n == Len(T)
           S == {i \in Nat : i <= n => Pos(t, i) + g[i] = EndOf(T, i)}
<1>1. Coded(t) /\ n \in Nat /\ DOMAIN T = 1..n /\ LaidOut(T) /\ HoldsTyped(T)
  BY PiecesAre, HoldsTypedIsLaidOut DEF Coded, Straight
<1>2. /\ g[0] = 0 /\ \A i \in 0..n : g[i] \in Int
      /\ \A i \in 1..n : g[i] = g[i - 1] + Unread(T[i]) /\ Unread(T[i]) \in Int
  <2>1. Len(Unreads(T)) = n /\ \A i \in 1..n : Unreads(T)[i] = Unread(T[i]) /\ Unread(T[i]) \in Int
    BY <1>1, UnreadIs DEF Unreads
  <2> QED
    BY <1>1, <2>1 DEF Sums
<1>3. /\ Pos(t, 0) = 0 /\ \A i \in 0..n : Pos(t, i) \in Int
      /\ \A i \in 1..n : /\ Gap(t, i) \in Nat /\ Length(T[i]) \in Int
                         /\ Pos(t, i) = Pos(t, i - 1) + Gap(t, i) + Length(T[i])
  BY <1>1, PosIs
<1>4. /\ EndOf(T, 0) = 0 /\ \A i \in 0..n : EndOf(T, i) \in Nat
      /\ \A i \in 1..n : /\ FieldSize(T[i]) \in Nat /\ OffsetOf(T, i) \in Nat
                         /\ EndOf(T, i) = OffsetOf(T, i) + FieldSize(T[i])
  BY <1>1, OffsetsAre
<1>5. \A i \in 1..n : Gap(t, i) + Length(T[i]) + Unread(T[i]) = EndOf(T, i) - EndOf(T, i - 1)
  <2>1. CASE Tier(t) = "nested"
    <3> TAKE i \in 1..n
    <3>1. Gap(t, i) = OffsetOf(T, i) - EndOf(T, i - 1)
      BY <2>1 DEF Gap, NestedGap
    <3>2. Length(T[i]) + Unread(T[i]) = FieldSize(T[i])
      <4>1. T[i] \in Fields /\ T[i].kind # "str"
        BY <1>1, <2>1, PiecesAre, TierIs DEF Has
      <4>2. CASE T[i].kind = "fixed"
        <5>1. T[i] \in FlatFields
          BY <4>1, <4>2, FieldKind
        <5>2. FieldSize(T[i]) = FixedSize(T[i]) /\ Unread(T[i]) = 0
          BY <4>2, <5>1, FlatIsRead, FlatPartIs DEF FieldSize
        <5> QED
          BY <1>4, <4>2, <5>2 DEF Length
      <4>3. CASE T[i].kind # "fixed"
        <5>1. Length(T[i]) = FieldSize(T[i]) - Unread(T[i])
          BY <4>1, <4>3 DEF Length
        <5> QED
          BY <1>2, <1>4, <5>1
      <4> QED
        BY <4>2, <4>3
    <3>3. i - 1 \in 0..n /\ i \in 0..n
      BY <1>1
    <3>4. /\ EndOf(T, i - 1) \in Nat /\ EndOf(T, i) \in Nat
          /\ FieldSize(T[i]) \in Nat /\ OffsetOf(T, i) \in Nat
          /\ EndOf(T, i) = OffsetOf(T, i) + FieldSize(T[i])
      BY <1>4, <3>3
    <3>5. Gap(t, i) \in Nat /\ Length(T[i]) \in Int /\ Unread(T[i]) \in Int
      BY <1>2, <1>3
    <3> HIDE DEF T
    <3> QED
      BY <3>1, <3>2, <3>4, <3>5
  <2>2. CASE Tier(t) # "nested"
    <3> TAKE i \in 1..n
    <3>1. /\ T \in Seq(FlatFields) /\ ~Has(T, "str") /\ NaturallyAligned(T)
      BY <1>1, <2>2, TierIs DEF Straight
    <3>2. i - 1 \in 0..n /\ i \in 0..n
      BY <1>1
    <3>3. Pos(t, i) = MacroEnd(T, i) /\ Pos(t, i - 1) = MacroEnd(T, i - 1)
      BY <1>1, <2>2, <3>1, <3>2, FlatPos
    <3>4. MacroEnd(T, i) = EndOf(T, i) /\ MacroEnd(T, i - 1) = EndOf(T, i - 1)
      BY <3>1, <3>2, NaturalEnds
    <3>5. Unread(T[i]) = 0
      BY <3>1, FlatIsLaidOut, FlatIsRead
    <3>6. Pos(t, i) = Pos(t, i - 1) + Gap(t, i) + Length(T[i])
          /\ Gap(t, i) \in Nat /\ Length(T[i]) \in Int /\ Pos(t, i - 1) \in Int
      BY <1>3, <3>2
    <3> QED
      BY <3>3, <3>4, <3>5, <3>6
  <2> QED
    BY <2>1, <2>2
<1>6. 0 \in S
  BY <1>1, <1>2, <1>3, <1>4
<1>7. ASSUME NEW i \in Nat, i \in S
      PROVE  i + 1 \in S
  <2> SUFFICES ASSUME i + 1 <= n
               PROVE  Pos(t, i + 1) + g[i + 1] = EndOf(T, i + 1)
    OBVIOUS
  <2>1. i + 1 \in 1..n /\ (i + 1) - 1 = i /\ i \in 0..n /\ i <= n /\ i + 1 \in 0..n
    BY <1>1
  <2>2. Pos(t, i) + g[i] = EndOf(T, i)
    BY <1>7, <2>1
  <2>3. Pos(t, i + 1) = Pos(t, i) + Gap(t, i + 1) + Length(T[i + 1])
        /\ Gap(t, i + 1) \in Nat /\ Length(T[i + 1]) \in Int /\ Pos(t, i) \in Int
    BY <1>3, <2>1
  <2>4. g[i + 1] = g[i] + Unread(T[i + 1]) /\ Unread(T[i + 1]) \in Int /\ g[i] \in Int
    BY <1>2, <2>1
  <2>5. Gap(t, i + 1) + Length(T[i + 1]) + Unread(T[i + 1]) = EndOf(T, i + 1) - EndOf(T, i)
    BY <1>5, <2>1
  <2>6. EndOf(T, i + 1) \in Nat /\ EndOf(T, i) \in Nat
    BY <1>4, <2>1
  <2>7. PICK gap \in Int : gap = Gap(t, i + 1)
    BY <2>3
  <2>8. PICK len \in Int : len = Length(T[i + 1])
    BY <2>3
  <2>9. PICK u \in Int : u = Unread(T[i + 1])
    BY <2>4
  <2>10. PICK e \in Int : e = EndOf(T, i + 1)
    BY <2>6
  <2>11. PICK d \in Int : d = EndOf(T, i)
    BY <2>6
  <2>12. PICK p \in Int : p = Pos(t, i)
    BY <2>3
  <2>13. PICK h \in Int : h = g[i]
    BY <2>4
  <2>14. gap + len + u = e - d /\ p + h = d
    BY <2>2, <2>5, <2>7, <2>8, <2>9, <2>10, <2>11, <2>12, <2>13
  <2>15. (p + gap + len) + (h + u) = e
    BY <2>14
  <2> QED
    BY <2>3, <2>4, <2>7, <2>8, <2>9, <2>10, <2>12, <2>13, <2>15
<1>8. Nat \subseteq S
  <2> HIDE DEF S
  <2> QED
    BY <1>6, <1>7, SetInduction
<1> QED
  BY <1>1, <1>2, <1>8

(* What is known of a nested field from the struct that is its type.       *)
LEMMA NestedTypeIs ==
  ASSUME NEW f \in NestedFields
  PROVE  /\ f.type \in Types /\ IsStruct(f.type) /\ Coded(f.type)
         /\ f.type = Struct(f.type.fields)
         /\ FieldSize(f) = StructSize(f.type.fields)
         /\ f.type.marks = Marks(f.type.fields)
         /\ f.type.shown = FieldsOf(f.type.fields)
         /\ f.type.callees = Callees(f.type.fields)
         /\ f.type.height = Height(f.type.fields)
         /\ f.type.unread = UnreadIn(f.type.fields)
         /\ f.type.form = "struct"
<1> DEFINE c == f.type
<1>1. c \in Types /\ FieldPart(f) = Part(c.align, c.size)
  BY NestedFieldIs
<1>2. IsStruct(c) /\ Coded(c)
  BY <1>1, TypesAssumption, CodedTypes
<1>3. c = Struct(c.fields)
  BY <1>2 DEF IsStruct
<1>4. FieldSize(f) = c.size
  BY <1>1 DEF FieldSize, Part
<1> HIDE DEF c
<1>5. /\ c.size = StructSize(c.fields) /\ c.marks = Marks(c.fields)
      /\ c.shown = FieldsOf(c.fields) /\ c.callees = Callees(c.fields)
      /\ c.height = Height(c.fields) /\ c.unread = UnreadIn(c.fields)
      /\ c.form = "struct"
  <2>1. \A T : /\ Struct(T).size = StructSize(T) /\ Struct(T).marks = Marks(T)
               /\ Struct(T).shown = FieldsOf(T) /\ Struct(T).callees = Callees(T)
               /\ Struct(T).height = Height(T) /\ Struct(T).unread = UnreadIn(T)
               /\ Struct(T).form = "struct"
    BY DEF Struct
  <2> QED
    BY <1>3, <2>1
<1> QED
  BY <1>1, <1>2, <1>3, <1>4, <1>5 DEF c

(* A CALL moves the interpreter by what its subroutine reads.              *)
LEMMA NestedLength ==
  ASSUME NEW f \in NestedFields, Straight(f.type)
  PROVE  /\ Length(f) = Pos(f.type, Len(f.type.fields))
         /\ TailGap(f.type) = 0
<1> DEFINE c == f.type
           T == c.fields
           n == Len(T)
           ns == Unreads(T)
<1>1. /\ Coded(c) /\ HoldsTyped(T) /\ LaidOut(T) /\ n \in Nat
      /\ FieldSize(f) = StructSize(T) /\ c.unread = UnreadIn(T) /\ c.form = "struct"
      /\ f.kind = "nested"
  BY NestedTypeIs, NestedFieldIs, HoldsTypedIsLaidOut, PiecesAre DEF Coded
<1>2. ns \in Seq(Int) /\ Len(ns) = n
  BY <1>1, UnreadIs DEF Unreads
<1>3. PICK g : Sums(g, ns)
  BY <1>2, SumsExist
<1>4. SumOf(ns) = g[n]
  BY <1>2, <1>3, SumIs
<1>5. Pos(c, n) + g[n] = EndOf(T, n) /\ g[n] \in Int
  BY <1>1, <1>3, StraightPos
<1>6. UnreadIn(T) = (StructSize(T) - EndOf(T, n)) + g[n]
  BY <1>4 DEF UnreadIn, Unreads
<1>7. Length(f) = StructSize(T) - UnreadIn(T)
  BY <1>1 DEF Length, Unread
<1>8. StructSize(T) \in Nat /\ EndOf(T, n) \in Nat /\ Pos(c, n) \in Int
  BY <1>1, OffsetsAre, PosIs
<1>9. Length(f) = Pos(c, n)
  <2>1. PICK size \in Int : size = StructSize(T)
    BY <1>8
  <2>2. PICK e \in Int : e = EndOf(T, n)
    BY <1>8
  <2>3. PICK h \in Int : h = g[n]
    BY <1>5
  <2>4. PICK p \in Int : p = Pos(c, n)
    BY <1>8
  <2>5. p + h = e /\ Length(f) = size - ((size - e) + h)
    BY <1>5, <1>6, <1>7, <2>1, <2>2, <2>3, <2>4
  <2> QED
    BY <2>4, <2>5
<1> QED
  BY <1>1, <1>9 DEF TailGap

(* So does a DISPATCH, behind the discriminant and its padding.            *)
LEMMA InlineLength ==
  ASSUME NEW f \in InlineFields,
         NaturallyAligned(f.variants[f.pick]), ~Has(f.variants[f.pick], "str")
  PROVE  /\ Straight(Subroutine(f, f.pick))
         /\ Subroutine(f, f.pick).fields = f.variants[f.pick]
         /\ f.variants[f.pick] \in Seq(FlatFields)
         /\ Length(f) = UnionAlign(f.variants)
                          + Pos(Subroutine(f, f.pick), Len(f.variants[f.pick]))
                          + TailGap(Subroutine(f, f.pick))
<1> DEFINE V == f.variants[f.pick]
           c == Subroutine(f, f.pick)
           n == Len(V)
<1>1. /\ f.kind = "inline" /\ f.pick \in 1..Len(f.variants) /\ V \in Seq(FlatFields)
      /\ UnionAlign(f.variants) \in Nat /\ UnionSize(f.variants) \in Nat
      /\ FieldSize(f) = UnionAlign(f.variants) + UnionSize(f.variants)
      /\ f.variants \in Seq(Seq(FlatFields))
  BY InlineFieldIs
<1>2. /\ IsSubroutine(c) /\ c.form = "inline" /\ c.fields = V /\ c.body = UnionBody(f.variants)
  BY <1>1, SubroutineIs
<1>3. Coded(c) /\ Tier(c) = "inline"
  BY <1>2, CodedTypes, TierIs
<1>4. Straight(c)
  BY <1>2, <1>3 DEF Straight
<1>5. n \in Nat /\ n \in 0..n
  BY <1>1
<1>6. Pos(c, n) = LogicalSize(V) /\ Pos(c, n) \in Nat
  <2> HIDE DEF c
  <2>1. Pos(c, n) = MacroEnd(V, n) /\ Pos(c, n) \in Nat
    BY <1>2, <1>3, <1>5, FlatPos
  <2> QED
    BY <2>1 DEF LogicalSize
<1>7. TailGap(c) = UnionBody(f.variants) - TotalSize(V)
  <2>1. TotalSize(V) <= UnionBody(f.variants) /\ TotalSize(V) \in Nat /\ UnionBody(f.variants) \in Nat
    BY <1>1, UnionBodyIs, TotalSizeIs
  <2> HIDE DEF c
  <2> QED
    BY <1>2, <2>1 DEF TailGap
<1>8. TotalSize(V) \in Nat /\ UnionBody(f.variants) \in Nat
  BY <1>1, UnionBodyIs, TotalSizeIs
<1>9. Unread(f) = UnionSize(f.variants)
                    - (LogicalSize(V) + (UnionBody(f.variants) - TotalSize(V)))
  BY <1>1 DEF Unread
<1>10. Length(f) = FieldSize(f) - Unread(f)
  BY <1>1 DEF Length
<1>11. Length(f) = UnionAlign(f.variants) + Pos(c, n) + TailGap(c)
  <2>1. PICK a \in Int : a = UnionAlign(f.variants)
    BY <1>1
  <2>2. PICK s \in Int : s = UnionSize(f.variants)
    BY <1>1
  <2>3. PICK p \in Int : p = Pos(c, n)
    BY <1>6
  <2>4. PICK b \in Int : b = UnionBody(f.variants)
    BY <1>8
  <2>5. PICK u \in Int : u = TotalSize(V)
    BY <1>8
  <2>6. Length(f) = (a + s) - (s - (p + (b - u))) /\ TailGap(c) = b - u
    BY <1>1, <1>6, <1>7, <1>9, <1>10, <2>1, <2>2, <2>3, <2>4, <2>5
  <2>7. (a + s) - (s - (p + (b - u))) = a + p + (b - u)
    OBVIOUS
  <2> QED
    BY <2>1, <2>3, <2>6, <2>7
<1> QED
  BY <1>1, <1>2, <1>4, <1>11

(* A type that decodes correctly with all that it calls.                   *)
Exact(t) ==
  /\ Coded(t)
  /\ NoTableArrays(t.fields)
  /\ \A i \in 1..Len(t.fields) : t.fields[i].kind = "str" => t.fields[i].pad = FALSE
  /\ IsBuffered(t) \/ Straight(t)
  /\ \A i \in 1..Len(t.fields) :
       t.fields[i].kind \in {"nested", "inline"} => RegularCall(t.fields, i)
  /\ \A c \in Callees(t.fields) : c.form = "struct" => Regular(c)

(* A struct that is Regular, with all structs that it calls, is Exact.     *)
LEMMA RegularIsExact ==
  ASSUME NEW t, Coded(t), IsStruct(t) \/ IsVariant(t), Regular(t),
         \A c \in Callees(t.fields) : c.form = "struct" => Regular(c)
  PROVE  Exact(t)
<1> DEFINE T == t.fields
           n == Len(T)
<1>1. n \in Nat /\ DOMAIN T = 1..n /\ \A i \in 1..n : T[i] \in Fields
  BY PiecesAre
<1>2. /\ NoTableArrays(T)
      /\ \A i \in 1..n : T[i].kind = "str" => ~T[i].pad
      /\ Tier(t) = "tier1" => NaturallyAligned(T)
      /\ \A i \in 1..n : T[i].kind \in {"nested", "inline"} => RegularCall(T, i)
  BY <1>1 DEF Regular
<1>3. \A i \in 1..n : T[i].pad \in BOOLEAN
  BY <1>1, FieldKind
<1>4. Tier(t) \in {"tier1", "tier2", "nested", "variant"} /\ (Tier(t) = "tier1" => ~Has(T, "str"))
  BY TierIs
<1>5. IsBuffered(t) \/ Straight(t)
  BY <1>2, <1>4 DEF IsBuffered, Straight
<1> QED
  BY <1>2, <1>3, <1>5 DEF Exact

(* So is a struct that an Exact type holds.                                *)
LEMMA NestedIsExact ==
  ASSUME NEW t, Exact(t), NEW i \in 1..Len(t.fields), t.fields[i].kind = "nested"
  PROVE  /\ t.fields[i] \in NestedFields
         /\ Exact(t.fields[i].type) /\ Straight(t.fields[i].type)
         /\ t.fields[i].type \in Callees(t.fields)
         /\ Callees(t.fields[i].type.fields) \subseteq Callees(t.fields)
         /\ Height(t.fields[i].type.fields) \in Nat
         /\ Height(t.fields[i].type.fields) + 1 <= Height(t.fields)
<1> DEFINE T == t.fields
           f == T[i]
           c == f.type
<1>1. Coded(t) /\ HoldsTyped(T) /\ T \in Seq(Fields) /\ f \in NestedFields
  BY PiecesAre, FieldKind DEF Exact, Coded, HoldsTyped
<1>2. /\ IsStruct(c) /\ Coded(c) /\ c.form = "struct"
      /\ c.callees = Callees(c.fields) /\ c.height = Height(c.fields)
  BY <1>1, NestedTypeIs
<1>3. c \in Callees(T) /\ c.callees \subseteq Callees(T)
  BY <1>1, CalleesAre
<1>4. c.height \in Nat /\ c.height + 1 <= Height(T)
  BY <1>1, HeightIs
<1>5. Regular(c) /\ \A x \in Callees(c.fields) : x.form = "struct" => Regular(x)
  BY <1>2, <1>3 DEF Exact
<1>6. RegularCall(T, i)
  BY DEF Exact
<1>7. ~IsTier2(c.fields)
  BY <1>6 DEF RegularCall
<1> HIDE DEF c
<1>8. Exact(c)
  BY <1>2, <1>5, RegularIsExact
<1>9. Tier(c) # "tier2" /\ Tier(c) # "variant"
  BY <1>2, <1>7 DEF Tier
<1>10. Straight(c)
  BY <1>8, <1>9 DEF Exact, IsBuffered
<1> QED
  BY <1>1, <1>2, <1>3, <1>4, <1>8, <1>10 DEF c

(* And so is the subroutine of the variant that an Exact type holds.       *)
LEMMA InlineIsExact ==
  ASSUME NEW t, Exact(t), NEW i \in 1..Len(t.fields), t.fields[i].kind = "inline"
  PROVE  /\ t.fields[i] \in InlineFields
         /\ t.fields[i].pick \in 1..t.fields[i].listed
         /\ NaturallyAligned(t.fields[i].variants[t.fields[i].pick])
         /\ ~Has(t.fields[i].variants[t.fields[i].pick], "str")
         /\ Exact(Subroutine(t.fields[i], t.fields[i].pick))
         /\ Subroutine(t.fields[i], t.fields[i].pick) \in Callees(t.fields)
         /\ Callees(Subroutine(t.fields[i], t.fields[i].pick).fields) = {}
         /\ Height(Subroutine(t.fields[i], t.fields[i].pick).fields) = 0
         /\ 1 <= Height(t.fields) /\ Height(t.fields) \in Nat
<1> DEFINE T == t.fields
           f == T[i]
           V == f.variants[f.pick]
           c == Subroutine(f, f.pick)
<1>1. Coded(t) /\ HoldsTyped(T) /\ T \in Seq(Fields) /\ f \in InlineFields
  BY PiecesAre, FieldKind DEF Exact, Coded, HoldsTyped
<1>2. RegularCall(T, i)
  BY DEF Exact
<1>3. f.pick <= f.listed /\ NaturallyAligned(V) /\ NoTableArrays(V) /\ ~Has(V, "str")
  BY <1>2 DEF RegularCall
<1>4. f.pick \in 1..f.listed /\ f.pick \in 1..Len(f.variants)
  <2>1. f.pick \in 1..Len(f.variants) /\ f.listed \in Nat /\ f.pick \in Nat
    BY <1>1, InlineFieldIs
  <2> HIDE DEF f
  <2>2. 1 <= f.pick
    BY <2>1
  <2> QED
    BY <1>3, <2>1, <2>2
<1>5. /\ Straight(c) /\ c.fields = V /\ V \in Seq(FlatFields)
  BY <1>1, <1>3, InlineLength
<1>6. c \in Callees(T) /\ 1 <= Height(T) /\ Height(T) \in Nat
  BY <1>1, <1>4, CalleesAre, HeightIs
<1> HIDE DEF c
<1>7. \A k \in 1..Len(V) : V[k].kind \in {"fixed", "str"}
  BY <1>5, FlatIsLaidOut
<1>8. DOMAIN V = 1..Len(V) /\ Len(V) \in Nat
  BY <1>5
<1>9. \A k \in 1..Len(V) : V[k].kind = "fixed"
  BY <1>3, <1>7, <1>8 DEF Has
<1> HIDE DEF V
<1>10. Callees(V) = {}
  BY <1>8, <1>9 DEF Callees
<1>11. Height(V) = 0
  <2>1. {CASE V[k].kind = "nested" -> V[k].type.height + 1
           [] V[k].kind = "inline" -> 1
           [] OTHER -> 0 : k \in DOMAIN V} \subseteq {0}
    BY <1>8, <1>9
  <2>2. {0} \cup {CASE V[k].kind = "nested" -> V[k].type.height + 1
                    [] V[k].kind = "inline" -> 1
                    [] OTHER -> 0 : k \in DOMAIN V} = {0}
    BY <2>1
  <2>3. Height(V) = Max({0})
    BY <2>2 DEF Height
  <2>4. Max({0}) = 0
    BY DEF Max
  <2> QED
    BY <2>3, <2>4
<1>12. Exact(c)
  BY <1>3, <1>5, <1>9, <1>10 DEF Exact, Straight
<1> QED
  BY <1>1, <1>3, <1>4, <1>5, <1>6, <1>10, <1>11, <1>12 DEF c, V

(* A field that is shown is read from where it lies: what is unread is     *)
(* behind all that is shown.                                               *)
LEMMA ReadsInPlace ==
  ASSUME NEW t, Exact(t), Straight(t), NEW i \in 1..Len(t.fields), t.fields[i].pad = FALSE
  PROVE  Pos(t, i - 1) + Gap(t, i) = OffsetOf(t.fields, i)
<1> DEFINE T == t.fields
           n == Len(T)
<1>1. Coded(t) /\ n \in Nat /\ DOMAIN T = 1..n /\ LaidOut(T) /\ HoldsTyped(T)
      /\ \A j \in 1..n : T[j] \in Fields
  BY PiecesAre, HoldsTypedIsLaidOut DEF Coded, Exact
<1>2. i - 1 \in 0..n
  BY <1>1
<1>3. CASE Tier(t) = "nested"
  <2>1. Unreads(T) \in Seq(Int) /\ Len(Unreads(T)) = n
    BY <1>1, UnreadIs DEF Unreads
  <2>2. PICK g : Sums(g, Unreads(T))
    BY <2>1, SumsExist
  <2>3. /\ g[0] = 0 /\ \A j \in 0..n : g[j] \in Int
        /\ \A j \in 1..n : g[j] = g[j - 1] + Unread(T[j])
    <3>1. \A j \in 1..n : Unreads(T)[j] = Unread(T[j])
      BY <1>1 DEF Unreads
    <3> QED
      BY <2>1, <2>2, <3>1 DEF Sums
  <2>4. ASSUME NEW j \in 1..n, j < i
        PROVE  Unread(T[j]) = 0
    <3>1. CASE T[j].kind \in {"nested", "inline"}
      <4>1. RegularCall(T, j)
        BY <3>1 DEF Exact
      <4>2. Unread(T[j]) = 0 \/ IsLast(T, j)
        BY <4>1 DEF RegularCall
      <4>3. ~IsLast(T, j)
        BY <1>1, <2>4 DEF IsLast
      <4> QED
        BY <4>2, <4>3
    <3>2. CASE T[j].kind \notin {"nested", "inline"}
      BY <1>1, <3>2, FieldKind, FlatIsRead
    <3> QED
      BY <3>1, <3>2
  <2> DEFINE S == {j \in Nat : j < i => g[j] = 0}
  <2>5. 0 \in S
    BY <2>3
  <2>6. ASSUME NEW j \in Nat, j \in S
        PROVE  j + 1 \in S
    <3> SUFFICES ASSUME j + 1 < i
                 PROVE  g[j + 1] = 0
      OBVIOUS
    <3>1. j + 1 \in 1..n /\ (j + 1) - 1 = j /\ j < i
      BY <1>1
    <3>2. g[j] = 0
      BY <2>6, <3>1
    <3>3. Unread(T[j + 1]) = 0
      BY <2>4, <3>1
    <3> QED
      BY <2>3, <3>1, <3>2, <3>3
  <2>7. Nat \subseteq S
    <3> HIDE DEF S
    <3> QED
      BY <2>5, <2>6, SetInduction
  <2>8. g[i - 1] = 0
    <3>1. i - 1 \in Nat /\ i - 1 < i
      BY <1>1
    <3> QED
      BY <2>7, <3>1
  <2>9. Pos(t, i - 1) = EndOf(T, i - 1)
    <3>1. Pos(t, i - 1) + g[i - 1] = EndOf(T, i - 1) /\ Pos(t, i - 1) \in Int
      BY <1>1, <1>2, <2>2, StraightPos, PosIs
    <3> QED
      BY <2>8, <3>1
  <2>10. Gap(t, i) = OffsetOf(T, i) - EndOf(T, i - 1)
    BY <1>3 DEF Gap, NestedGap
  <2>11. OffsetOf(T, i) \in Nat /\ EndOf(T, i - 1) \in Nat
    BY <1>1, <1>2, OffsetsAre
  <2> HIDE DEF T
  <2> QED
    BY <2>9, <2>10, <2>11 DEF T
<1>4. CASE Tier(t) # "nested"
  <2>1. T \in Seq(FlatFields) /\ ~Has(T, "str") /\ NaturallyAligned(T)
    BY <1>1, <1>4, TierIs DEF Straight
  <2>2. Pos(t, i - 1) = MacroEnd(T, i - 1) /\ Gap(t, i) = GapBefore(T, i)
    BY <1>1, <1>2, <1>4, <2>1, FlatPos
  <2>3. OffsetOf(T, i) = MacroEnd(T, i - 1) + GapBefore(T, i)
    BY <2>1, NaturalEnds
  <2> QED
    BY <2>2, <2>3
<1> QED
  BY <1>3, <1>4

-----------------------------------------------------------------------------
(* The payload.                                                            *)

FieldMarks(T, i) ==
  CASE T[i].kind = "nested" ->
         {<<OffsetOf(T, i) + m[1], m[2]>> : m \in T[i].type.marks}
    [] T[i].kind = "inline" -> {<<OffsetOf(T, i) + 1, T[i].pick>>}
    [] OTHER -> {}

(* A field's discriminants lie in the field.                               *)
LEMMA FieldMarksAre ==
  ASSUME NEW T, HoldsTyped(T), NEW i \in 1..Len(T), NEW x \in FieldMarks(T, i)
  PROVE  x[1] \in Int /\ OffsetOf(T, i) < x[1] /\ x[1] <= EndOf(T, i)
<1>1. LaidOut(T) /\ T[i] \in Fields
  BY HoldsTypedIsLaidOut DEF HoldsTyped, LaidOut
<1>2. OffsetOf(T, i) \in Nat /\ FieldSize(T[i]) \in Nat /\ EndOf(T, i) = OffsetOf(T, i) + FieldSize(T[i])
  BY <1>1, OffsetsAre
<1>3. CASE T[i].kind = "nested"
  <2>1. PICK m \in T[i].type.marks : x = <<OffsetOf(T, i) + m[1], m[2]>>
    BY <1>3 DEF FieldMarks
  <2>2. T[i].type.marks \in KnownMarks(T[i].type.size)
    BY <1>3 DEF HoldsTyped, Typed
  <2>3. FieldSize(T[i]) = T[i].type.size
    <3>1. FieldPart(T[i]) = Part(T[i].type.align, T[i].type.size)
      BY <1>1, <1>3, FieldKind, NestedFieldIs
    <3> QED
      BY <3>1 DEF FieldSize, Part
  <2>4. m[1] \in 1..FieldSize(T[i])
    BY <2>2, <2>3 DEF KnownMarks
  <2>5. x[1] = OffsetOf(T, i) + m[1]
    BY <2>1
  <2> QED
    BY <1>2, <2>4, <2>5
<1>4. CASE T[i].kind = "inline"
  <2>1. x = <<OffsetOf(T, i) + 1, T[i].pick>>
    BY <1>4 DEF FieldMarks
  <2>2. FieldSize(T[i]) = UnionAlign(T[i].variants) + UnionSize(T[i].variants)
        /\ UnionAlign(T[i].variants) \in Nat \ {0} /\ UnionSize(T[i].variants) \in Nat
    BY <1>1, <1>4, FieldKind, InlineFieldIs
  <2>3. 1 <= FieldSize(T[i])
    BY <2>2
  <2>4. x[1] = OffsetOf(T, i) + 1
    BY <2>1
  <2> QED
    BY <1>2, <2>3, <2>4
<1>5. CASE T[i].kind \notin {"nested", "inline"}
  BY <1>5 DEF FieldMarks
<1> QED
  BY <1>3, <1>4, <1>5

(* In the bytes of a field, the marks of the struct are those of the field. *)
LEMMA MarksInside ==
  ASSUME NEW T, HoldsTyped(T), NEW i \in 1..Len(T), NEW k \in 1..FieldSize(T[i])
  PROVE  MarksAt(Marks(T), OffsetOf(T, i) + k) = MarksAt(FieldMarks(T, i), OffsetOf(T, i) + k)
<1> DEFINE n == Len(T)
           a == OffsetOf(T, i) + k
<1>1. LaidOut(T) /\ n \in Nat /\ DOMAIN T = 1..n
  BY HoldsTypedIsLaidOut, OffsetsAre
<1>2. Marks(T) = UNION {FieldMarks(T, j) : j \in 1..n}
  BY <1>1 DEF Marks, FieldMarks
<1>3. /\ OffsetOf(T, i) \in Nat /\ FieldSize(T[i]) \in Nat
      /\ EndOf(T, i) = OffsetOf(T, i) + FieldSize(T[i])
  BY <1>1, OffsetsAre
<1>4. a \in Int /\ OffsetOf(T, i) < a /\ a <= EndOf(T, i)
  BY <1>3
<1>5. ASSUME NEW j \in 1..n, NEW x \in FieldMarks(T, j), x[1] = a
      PROVE  j = i
  <2>1. x[1] \in Int /\ OffsetOf(T, j) < a /\ a <= EndOf(T, j)
    BY <1>5, FieldMarksAre
  <2>2. ASSUME j < i
        PROVE  FALSE
    <3>1. j \in 0..n /\ i - 1 \in 0..n /\ j <= i - 1
      BY <1>1, <2>2
    <3>2. EndOf(T, j) <= EndOf(T, i - 1) /\ EndOf(T, i - 1) <= OffsetOf(T, i)
          /\ EndOf(T, j) \in Nat /\ EndOf(T, i - 1) \in Nat
      BY <1>1, <3>1, EndsGrow, OffsetsAre
    <3> HIDE DEF a
    <3> QED
      BY <1>3, <1>4, <2>1, <3>2
  <2>3. ASSUME i < j
        PROVE  FALSE
    <3>1. i \in 0..n /\ j - 1 \in 0..n /\ i <= j - 1
      BY <1>1, <2>3
    <3>2. EndOf(T, i) <= EndOf(T, j - 1) /\ EndOf(T, j - 1) <= OffsetOf(T, j)
          /\ EndOf(T, i) \in Nat /\ EndOf(T, j - 1) \in Nat /\ OffsetOf(T, j) \in Nat
      BY <1>1, <3>1, EndsGrow, OffsetsAre
    <3> HIDE DEF a
    <3> QED
      BY <1>3, <1>4, <2>1, <3>2
  <2> QED
    BY <1>1, <2>2, <2>3
<1> HIDE DEF a
<1>6. {x \in Marks(T) : x[1] = a} = {x \in FieldMarks(T, i) : x[1] = a}
  BY <1>1, <1>2, <1>5
<1> QED
  BY <1>6 DEF MarksAt, a

(* The marks of a field, by its kind.                                      *)
LEMMA MarksOfField ==
  ASSUME NEW T, HoldsTyped(T), NEW i \in 1..Len(T), NEW k \in 1..FieldSize(T[i])
  PROVE  /\ T[i].kind \notin {"nested", "inline"} => MarksAt(Marks(T), OffsetOf(T, i) + k) = {}
         /\ T[i].kind = "nested" =>
              MarksAt(Marks(T), OffsetOf(T, i) + k) = MarksAt(T[i].type.marks, k)
         /\ T[i].kind = "inline" /\ k = 1 =>
              MarksAt(Marks(T), OffsetOf(T, i) + k) = {T[i].pick}
         /\ T[i].kind = "inline" /\ k > 1 =>
              MarksAt(Marks(T), OffsetOf(T, i) + k) = {}
<1> DEFINE a == OffsetOf(T, i)
<1>1. LaidOut(T)
  BY HoldsTypedIsLaidOut
<1>2. a \in Nat /\ FieldSize(T[i]) \in Nat
  BY <1>1, OffsetsAre
<1>3. MarksAt(Marks(T), a + k) = MarksAt(FieldMarks(T, i), a + k)
  BY MarksInside
<1>4. ASSUME T[i].kind \notin {"nested", "inline"}
      PROVE  MarksAt(FieldMarks(T, i), a + k) = {}
  BY <1>4 DEF FieldMarks, MarksAt
<1>5. ASSUME T[i].kind = "nested"
      PROVE  MarksAt(FieldMarks(T, i), a + k) = MarksAt(T[i].type.marks, k)
  <2> DEFINE M == T[i].type.marks
  <2>1. FieldMarks(T, i) = {<<a + m[1], m[2]>> : m \in M}
    BY <1>5 DEF FieldMarks
  <2>2. \A m \in M : m[1] \in Int
    <3>1. M \in KnownMarks(T[i].type.size)
      BY <1>5 DEF HoldsTyped, Typed
    <3> QED
      BY <3>1 DEF KnownMarks
  <2> HIDE DEF M, a
  <2>3. \A m \in M : a + m[1] = a + k <=> m[1] = k
    BY <1>2, <2>2
  <2>4. MarksAt(FieldMarks(T, i), a + k) = {m[2] : m \in {x \in M : x[1] = k}}
    <3> DEFINE F == {x \in FieldMarks(T, i) : x[1] = a + k}
    <3>1. F = {<<a + k, m[2]>> : m \in {x \in M : x[1] = k}}
      BY <2>1, <2>3
    <3> HIDE DEF F
    <3>2. ASSUME NEW m \in M, m[1] = k
          PROVE  \E x \in F : x[2] = m[2]
      <4> DEFINE y == <<a + k, m[2]>>
      <4>1. y \in F
        BY <3>1, <3>2
      <4>2. y[2] = m[2]
        OBVIOUS
      <4> HIDE DEF y
      <4> QED
        BY <4>1, <4>2
    <3>3. \A x \in F : \E m \in M : m[1] = k /\ x[2] = m[2]
      BY <3>1
    <3>4. {x[2] : x \in F} = {m[2] : m \in {x \in M : x[1] = k}}
      BY <3>2, <3>3
    <3> QED
      BY <3>4 DEF MarksAt, F
  <2> QED
    BY <2>4 DEF MarksAt, M
<1>6. ASSUME T[i].kind = "inline"
      PROVE  /\ k = 1 => MarksAt(FieldMarks(T, i), a + k) = {T[i].pick}
             /\ k > 1 => MarksAt(FieldMarks(T, i), a + k) = {}
  <2>1. FieldMarks(T, i) = {<<a + 1, T[i].pick>>}
    BY <1>6 DEF FieldMarks
  <2> HIDE DEF a
  <2>2. k > 1 => a + 1 # a + k
    BY <1>2
  <2> DEFINE F == {x \in FieldMarks(T, i) : x[1] = a + k}
  <2>3. k = 1 => F = {<<a + 1, T[i].pick>>}
    BY <2>1
  <2>4. k > 1 => F = {}
    BY <2>1, <2>2
  <2> HIDE DEF F
  <2>5. MarksAt(FieldMarks(T, i), a + k) = {x[2] : x \in F}
    BY DEF MarksAt, F
  <2>6. k > 1 => MarksAt(FieldMarks(T, i), a + k) = {}
    BY <2>4, <2>5
  <2> DEFINE y == <<a + 1, T[i].pick>>
  <2>7. y[2] = T[i].pick
    OBVIOUS
  <2> HIDE DEF y
  <2>8. k = 1 => MarksAt(FieldMarks(T, i), a + k) = {T[i].pick}
    <3>1. k = 1 => F = {y}
      BY <2>3 DEF y
    <3>2. k = 1 => {x[2] : x \in F} = {y[2]}
      BY <3>1
    <3> QED
      BY <2>5, <2>7, <3>2
  <2> QED
    BY <2>6, <2>8
<1> QED
  BY <1>3, <1>4, <1>5, <1>6

-----------------------------------------------------------------------------
(* The payload holds a struct t whose memory is behind base.               *)
Lies(w, t, base) ==
  /\ base \in Nat
  /\ base + EndOf(t.fields, Len(t.fields)) <= Len(w)
  /\ \A k \in 1..EndOf(t.fields, Len(t.fields)) :
       w[base + k] = Cell(0, base + k, MarksAt(Marks(t.fields), k))

(* A field lies inside its struct.                                         *)
LEMMA FieldInside ==
  ASSUME NEW T, LaidOut(T), NEW i \in 1..Len(T)
  PROVE  /\ OffsetOf(T, i) \in Nat /\ FieldSize(T[i]) \in Nat /\ EndOf(T, Len(T)) \in Nat
         /\ OffsetOf(T, i) + FieldSize(T[i]) <= EndOf(T, Len(T))
<1>1. Len(T) \in Nat /\ i \in 0..Len(T) /\ Len(T) \in 0..Len(T) /\ i <= Len(T)
  BY OffsetsAre
<1>2. EndOf(T, i) <= EndOf(T, Len(T))
  BY <1>1, EndsGrow
<1> QED
  BY <1>1, <1>2, OffsetsAre

(* A struct that lies in the payload has its nested structs there ...      *)
LEMMA LiesInNested ==
  ASSUME NEW w, Len(w) \in Nat, NEW t, Coded(t), NEW base, Lies(w, t, base),
         NEW i \in 1..Len(t.fields), t.fields[i] \in NestedFields
  PROVE  Lies(w, t.fields[i].type, base + OffsetOf(t.fields, i))
<1> DEFINE T == t.fields
           f == T[i]
           U == f.type.fields
           o == OffsetOf(T, i)
           e == EndOf(U, Len(U))
           E == EndOf(T, Len(T))
<1>1. HoldsTyped(T) /\ LaidOut(T)
  BY HoldsTypedIsLaidOut DEF Coded
<1>2. o \in Nat /\ FieldSize(f) \in Nat /\ E \in Nat /\ o + FieldSize(f) <= E
  BY <1>1, FieldInside
<1>3. Coded(f.type) /\ FieldSize(f) = StructSize(U) /\ f.type.marks = Marks(U) /\ f.kind = "nested"
  BY NestedTypeIs, NestedFieldIs
<1>4. LaidOut(U)
  BY <1>3, HoldsTypedIsLaidOut DEF Coded
<1>5. e \in Nat /\ e <= FieldSize(f)
  <2>1. Len(U) \in 0..Len(U)
    BY <1>4, OffsetsAre
  <2> QED
    BY <1>3, <1>4, <2>1, OffsetsAre
<1>6. base \in Nat /\ base + E <= Len(w)
      /\ \A k \in 1..E : w[base + k] = Cell(0, base + k, MarksAt(Marks(T), k))
  BY DEF Lies
<1>7. ASSUME NEW k \in 1..e
      PROVE  w[(base + o) + k] = Cell(0, (base + o) + k, MarksAt(Marks(U), k))
  <2>1. k \in 1..FieldSize(f)
    <3> HIDE DEF e, f
    <3> QED
      BY <1>2, <1>5
  <2>2. MarksAt(Marks(T), o + k) = MarksAt(f.type.marks, k)
    BY <1>1, <1>3, <2>1, MarksOfField
  <2> HIDE DEF e, f, o, E, T
  <2>3. o + k \in 1..E
    BY <1>2, <2>1
  <2>4. base + (o + k) = (base + o) + k
    BY <1>2, <1>6, <1>5
  <2> QED
    BY <1>3, <1>6, <2>2, <2>3, <2>4
<1>8. base + o \in Nat /\ (base + o) + e <= Len(w)
  <2> HIDE DEF e, f, o, E, T
  <2> QED
    BY <1>2, <1>5, <1>6
<1> QED
  BY <1>7, <1>8 DEF Lies

(* ... and in the union of an inline enum the variant that it holds.       *)
LEMMA LiesInInline ==
  ASSUME NEW w, Len(w) \in Nat, NEW t, Coded(t), NEW base, Lies(w, t, base),
         NEW i \in 1..Len(t.fields), t.fields[i] \in InlineFields
  PROVE  Lies(w, Subroutine(t.fields[i], t.fields[i].pick),
              base + OffsetOf(t.fields, i) + UnionAlign(t.fields[i].variants))
<1> DEFINE T == t.fields
           f == T[i]
           V == f.variants[f.pick]
           a == UnionAlign(f.variants)
           u == UnionSize(f.variants)
           o == OffsetOf(T, i)
           e == EndOf(V, Len(V))
           E == EndOf(T, Len(T))
<1>1. HoldsTyped(T) /\ LaidOut(T)
  BY HoldsTypedIsLaidOut DEF Coded
<1>2. o \in Nat /\ FieldSize(f) \in Nat /\ E \in Nat /\ o + FieldSize(f) <= E
  BY <1>1, FieldInside
<1>3. /\ f.kind = "inline" /\ f.pick \in 1..Len(f.variants) /\ V \in Seq(FlatFields)
      /\ f.variants \in Seq(Seq(FlatFields))
      /\ a \in Nat \ {0} /\ u \in Nat /\ FieldSize(f) = a + u
  BY InlineFieldIs
<1>4. Subroutine(f, f.pick).fields = V
  BY <1>3, SubroutineIs
<1>5. LaidOut(V) /\ \A j \in 1..Len(V) : V[j] \in FlatFields /\ V[j].kind \in {"fixed", "str"}
  BY <1>3, FlatIsLaidOut
<1>6. e \in Nat /\ e <= u
  <2>1. Len(V) \in 0..Len(V) /\ StructSize(V) \in Nat /\ EndOf(V, Len(V)) <= StructSize(V)
        /\ EndOf(V, Len(V)) \in Nat
    BY <1>5, OffsetsAre, SMTT(30)
  <2>2. StructSize(V) <= u
    BY <1>3, UnionIs
  <2> HIDE DEF V, u
  <2> QED
    BY <1>3, <2>1, <2>2
<1>7. Marks(V) = {}
  <2>1. DOMAIN V = 1..Len(V)
    BY <1>5, OffsetsAre
  <2> HIDE DEF V
  <2> QED
    BY <1>5, <2>1 DEF Marks
<1>8. base \in Nat /\ base + E <= Len(w)
      /\ \A k \in 1..E : w[base + k] = Cell(0, base + k, MarksAt(Marks(T), k))
  BY DEF Lies
<1>9. ASSUME NEW k \in 1..e
      PROVE  w[(base + o + a) + k] = Cell(0, (base + o + a) + k, MarksAt(Marks(V), k))
  <2>1. a + k \in 1..FieldSize(f) /\ a + k > 1
    <3> HIDE DEF e, f, a, u, o, E
    <3> QED
      BY <1>3, <1>6
  <2>2. MarksAt(Marks(T), o + (a + k)) = {}
    BY <1>1, <1>3, <2>1, MarksOfField
  <2>3. MarksAt(Marks(V), k) = {}
    BY <1>7 DEF MarksAt
  <2> HIDE DEF e, f, o, E, T, a, u, V
  <2>4. o + (a + k) \in 1..E
    BY <1>2, <2>1
  <2>5. base + (o + (a + k)) = (base + o + a) + k
    BY <1>2, <1>3, <1>6, <1>8
  <2> QED
    BY <1>8, <2>2, <2>3, <2>4, <2>5
<1>10. base + o + a \in Nat /\ (base + o + a) + e <= Len(w)
  <2> HIDE DEF e, f, o, E, T, a, u
  <2>1. PICK s \in Int : s = FieldSize(f)
    BY <1>2
  <2>2. s = a + u /\ o + s <= E
    BY <1>2, <1>3, <2>1
  <2>3. PICK l \in Int : l = Len(w)
    OBVIOUS
  <2>4. base + E <= l
    BY <1>8, <2>3
  <2>5. base + o + a \in Nat /\ (base + o + a) + e <= l
    BY <1>2, <1>3, <1>6, <1>8, <2>2, <2>4
  <2> QED
    BY <2>3, <2>5
<1> QED
  BY <1>4, <1>9, <1>10 DEF Lies

-----------------------------------------------------------------------------
(* The values of a struct that lies behind base.                           *)

(* A byte of a value.                                                      *)
LEMMA CellParts ==
  ASSUME NEW c \in CellSet
  PROVE  /\ c[1] \in Int /\ c[2] \in Int /\ c[3] \in SUBSET Nat
         /\ c = Cell(c[1], c[2], c[3])
BY DEF CellSet, Cell

(* Values of two structs, or moved two times.                              *)
LEMMA MovedAt ==
  ASSUME NEW vs \in Values, NEW base \in Nat
  PROVE  /\ Len(vs) \in Nat /\ DOMAIN vs = 1..Len(vs)
         /\ DOMAIN Moved(vs, base) = 1..Len(vs)
         /\ \A k \in 1..Len(vs) :
              /\ vs[k] \in Seq(CellSet)
              /\ Len(vs[k]) \in Nat /\ DOMAIN vs[k] = 1..Len(vs[k])
              /\ DOMAIN Moved(vs, base)[k] = 1..Len(vs[k])
              /\ \A x \in 1..Len(vs[k]) :
                   Moved(vs, base)[k][x] = Cell(vs[k][x][1], base + vs[k][x][2], vs[k][x][3])
<1>1. Len(vs) \in Nat /\ DOMAIN vs = 1..Len(vs) /\ \A k \in 1..Len(vs) : vs[k] \in Seq(CellSet)
  BY DEF Values
<1>2. \A k \in 1..Len(vs) : Len(vs[k]) \in Nat /\ DOMAIN vs[k] = 1..Len(vs[k])
  BY <1>1
<1>3. \A k \in DOMAIN vs :
        Moved(vs, base)[k] = [x \in DOMAIN vs[k] |->
                                Cell(vs[k][x][1], base + vs[k][x][2], vs[k][x][3])]
  BY DEF Moved
<1>4. DOMAIN Moved(vs, base) = DOMAIN vs
  BY DEF Moved
<1> QED
  BY <1>1, <1>2, <1>3, <1>4

(* Values that are the same byte by byte.                                  *)
LEMMA SameValues ==
  ASSUME NEW a \in Values, NEW b \in Values, Len(a) = Len(b),
         \A k \in 1..Len(a) : /\ Len(a[k]) = Len(b[k])
                              /\ \A x \in 1..Len(a[k]) : a[k][x] = b[k][x]
  PROVE  a = b
<1>1. \A k \in 1..Len(a) : a[k] \in Seq(CellSet) /\ b[k] \in Seq(CellSet)
  BY DEF Values
<1>2. ASSUME NEW k \in 1..Len(a)
      PROVE  a[k] = b[k]
  BY <1>1
<1>3. a \in Seq(Seq(CellSet)) /\ b \in Seq(Seq(CellSet))
  BY DEF Values
<1>4. a = [k \in 1..Len(a) |-> a[k]] /\ b = [k \in 1..Len(a) |-> b[k]]
  BY <1>3
<1> QED
  BY <1>2, <1>4

(* Values that are moved by nothing,                                       *)
LEMMA MovedZero ==
  ASSUME NEW vs \in Values
  PROVE  Moved(vs, 0) = vs
<1>1. Moved(vs, 0) \in Values /\ Len(Moved(vs, 0)) = Len(vs)
  BY MovedIs
<1>2. ASSUME NEW k \in 1..Len(vs)
      PROVE  /\ Len(Moved(vs, 0)[k]) = Len(vs[k])
             /\ \A x \in 1..Len(vs[k]) : Moved(vs, 0)[k][x] = vs[k][x]
  <2>1. /\ vs[k] \in Seq(CellSet) /\ Len(vs[k]) \in Nat
        /\ DOMAIN Moved(vs, 0)[k] = 1..Len(vs[k])
        /\ \A x \in 1..Len(vs[k]) :
             Moved(vs, 0)[k][x] = Cell(vs[k][x][1], 0 + vs[k][x][2], vs[k][x][3])
    BY MovedAt
  <2>2. Moved(vs, 0)[k] \in Seq(CellSet)
    BY <1>1 DEF Values
  <2>3. Len(Moved(vs, 0)[k]) = Len(vs[k])
    BY <2>1, <2>2
  <2>4. ASSUME NEW x \in 1..Len(vs[k])
        PROVE  Moved(vs, 0)[k][x] = vs[k][x]
    <3>1. vs[k][x] \in CellSet
      BY <2>1
    <3>2. vs[k][x][2] \in Int /\ vs[k][x] = Cell(vs[k][x][1], vs[k][x][2], vs[k][x][3])
      BY <3>1, CellParts
    <3>3. 0 + vs[k][x][2] = vs[k][x][2]
      BY <3>2
    <3> QED
      BY <2>1, <3>2, <3>3
  <2> QED
    BY <2>3, <2>4
<1> QED
  BY <1>1, <1>2, SameValues

(* moved twice,                                                            *)
LEMMA MovedTwice ==
  ASSUME NEW vs \in Values, NEW base \in Nat, NEW o \in Nat
  PROVE  Moved(Moved(vs, o), base) = Moved(vs, base + o)
<1> DEFINE m == Moved(vs, o)
           l == Moved(m, base)
           r == Moved(vs, base + o)
<1>1. base + o \in Nat
  OBVIOUS
<1>2. m \in Values /\ Len(m) = Len(vs)
  BY MovedIs
<1>3. r \in Values /\ Len(r) = Len(vs)
  BY <1>1, MovedIs
<1> HIDE DEF m
<1>4. l \in Values /\ Len(l) = Len(vs)
  BY <1>2, MovedIs
<1>5. ASSUME NEW k \in 1..Len(vs)
      PROVE  /\ Len(l[k]) = Len(r[k])
             /\ \A x \in 1..Len(l[k]) : l[k][x] = r[k][x]
  <2>1. /\ vs[k] \in Seq(CellSet) /\ Len(vs[k]) \in Nat
        /\ DOMAIN m[k] = 1..Len(vs[k])
        /\ \A x \in 1..Len(vs[k]) :
             m[k][x] = Cell(vs[k][x][1], o + vs[k][x][2], vs[k][x][3])
    BY MovedAt DEF m
  <2>2. /\ DOMAIN r[k] = 1..Len(vs[k])
        /\ \A x \in 1..Len(vs[k]) :
             r[k][x] = Cell(vs[k][x][1], (base + o) + vs[k][x][2], vs[k][x][3])
    BY <1>1, MovedAt
  <2>3. /\ DOMAIN l[k] = 1..Len(m[k])
        /\ \A x \in 1..Len(m[k]) :
             l[k][x] = Cell(m[k][x][1], base + m[k][x][2], m[k][x][3])
    BY <1>2, MovedAt
  <2>4. m[k] \in Seq(CellSet) /\ l[k] \in Seq(CellSet) /\ r[k] \in Seq(CellSet)
    BY <1>2, <1>3, <1>4 DEF Values
  <2> HIDE DEF l, r
  <2>5. Len(m[k]) = Len(vs[k]) /\ Len(l[k]) = Len(vs[k]) /\ Len(r[k]) = Len(vs[k])
    BY <2>1, <2>2, <2>3, <2>4
  <2>6. ASSUME NEW x \in 1..Len(vs[k])
        PROVE  l[k][x] = r[k][x]
    <3>1. vs[k][x] \in CellSet
      BY <2>1
    <3> DEFINE c == vs[k][x]
    <3>2. c[2] \in Int
      BY <3>1, CellParts
    <3>3. m[k][x] = Cell(c[1], o + c[2], c[3])
      BY <2>1
    <3>4. m[k][x][1] = c[1] /\ m[k][x][2] = o + c[2] /\ m[k][x][3] = c[3]
      BY <3>3 DEF Cell
    <3>5. base + (o + c[2]) = (base + o) + c[2]
      BY <3>2
    <3> QED
      BY <2>2, <2>3, <2>5, <3>4, <3>5
  <2> QED
    BY <2>5, <2>6
<1> HIDE DEF l, r
<1>6. l = r
  BY <1>3, <1>4, <1>5, SameValues
<1> QED
  BY <1>6 DEF l, r, m

(* and moved together.                                                     *)
LEMMA MovedJoin ==
  ASSUME NEW a \in Values, NEW b \in Values, NEW base \in Nat
  PROVE  Moved(a \o b, base) = Moved(a, base) \o Moved(b, base)
<1> DEFINE c == a \o b
           ma == Moved(a, base)
           mb == Moved(b, base)
           l == Moved(c, base)
           r == ma \o mb
<1>1. /\ c \in Values /\ Len(a) \in Nat /\ Len(b) \in Nat /\ Len(c) = Len(a) + Len(b)
      /\ \A k \in 1..Len(a) : c[k] = a[k]
      /\ \A k \in 1..Len(b) : c[Len(a) + k] = b[k]
  BY ConcatIs DEF Values
<1>2. /\ ma \in Values /\ Len(ma) = Len(a)
      /\ mb \in Values /\ Len(mb) = Len(b)
  BY MovedIs
<1> HIDE DEF c, ma, mb
<1>3. l \in Values /\ Len(l) = Len(c)
  BY <1>1, MovedIs
<1>4. /\ r \in Values /\ Len(r) = Len(ma) + Len(mb)
      /\ \A k \in 1..Len(ma) : r[k] = ma[k]
      /\ \A k \in 1..Len(mb) : r[Len(ma) + k] = mb[k]
  <2>1. ma \in Seq(Seq(CellSet)) /\ mb \in Seq(Seq(CellSet))
    BY <1>2 DEF Values
  <2> QED
    BY <2>1, ConcatIs DEF Values
<1> HIDE DEF l, r
<1>5. ASSUME NEW k \in 1..Len(a)
      PROVE  l[k] = r[k]
  <2>1. k \in 1..Len(c)
    BY <1>1
  <2>2. l[k] = [x \in DOMAIN c[k] |-> Cell(c[k][x][1], base + c[k][x][2], c[k][x][3])]
    BY <1>1, <2>1, MovedAt DEF Moved, l
  <2>3. ma[k] = [x \in DOMAIN a[k] |-> Cell(a[k][x][1], base + a[k][x][2], a[k][x][3])]
    BY MovedAt DEF Moved, ma
  <2> QED
    BY <1>1, <1>2, <1>4, <2>2, <2>3
<1>6. ASSUME NEW k \in 1..Len(b)
      PROVE  l[Len(a) + k] = r[Len(a) + k]
  <2> DEFINE j == Len(a) + k
  <2>1. j \in 1..Len(c) /\ c[j] = b[k]
    BY <1>1
  <2>2. r[j] = mb[k]
    BY <1>2, <1>4
  <2> HIDE DEF j
  <2>3. l[j] = [x \in DOMAIN c[j] |-> Cell(c[j][x][1], base + c[j][x][2], c[j][x][3])]
    BY <1>1, <2>1, MovedAt DEF Moved, l
  <2>4. mb[k] = [x \in DOMAIN b[k] |-> Cell(b[k][x][1], base + b[k][x][2], b[k][x][3])]
    BY MovedAt DEF Moved, mb
  <2>5. l[j] = r[j]
    BY <2>1, <2>2, <2>3, <2>4
  <2> QED
    BY <2>5 DEF j
<1>7. ASSUME NEW k \in 1..Len(l)
      PROVE  l[k] = r[k]
  <2>1. CASE k <= Len(a)
    BY <1>1, <1>3, <1>5, <2>1
  <2>2. CASE k > Len(a)
    <3>1. k - Len(a) \in 1..Len(b) /\ Len(a) + (k - Len(a)) = k
      BY <1>1, <1>3, <2>2
    <3> QED
      BY <1>6, <3>1
  <2> QED
    BY <1>1, <2>1, <2>2
<1>8. Len(l) = Len(r)
  BY <1>1, <1>2, <1>3, <1>4
<1>9. l = r
  BY <1>3, <1>4, <1>7, <1>8 DEF Values
<1> QED
  BY <1>9 DEF l, r, c, ma, mb

-----------------------------------------------------------------------------
(* What a struct shows up to field i.                                      *)
Shows(T) == ShownPieces(T, [i \in DOMAIN T |-> FieldValues(T, i)])
ShownTo(T, i) == Upto(Shows(T), i)

(* Each field that is not padding shows its values behind those before it. *)
LEMMA ShowsAre ==
  ASSUME NEW T, HoldsTyped(T)
  PROVE  /\ Len(T) \in Nat
         /\ \A i \in 0..Len(T) : ShownTo(T, i) \in Values
         /\ ShownTo(T, 0) = <<>>
         /\ \A i \in 1..Len(T) :
              /\ FieldValues(T, i) \in Values
              /\ T[i].pad = TRUE => ShownTo(T, i) = ShownTo(T, i - 1)
              /\ T[i].pad = FALSE => ShownTo(T, i) = ShownTo(T, i - 1) \o FieldValues(T, i)
         /\ FieldsOf(T) = ShownTo(T, Len(T))
<1> DEFINE n == Len(T)
           made == [i \in DOMAIN T |-> FieldValues(T, i)]
<1>1. LaidOut(T) /\ n \in Nat /\ DOMAIN T = 1..n
  BY HoldsTypedIsLaidOut, OffsetsAre
<1>2. \A i \in 1..n : FieldValues(T, i) \in Seq(Seq(CellSet))
  BY FieldValuesAre DEF Values
<1>3. \A i \in 1..n : made[i] = FieldValues(T, i)
  BY <1>1
<1> HIDE DEF made, n
<1>4. \A i \in 1..n : made[i] \in Seq(Seq(CellSet))
  BY <1>2, <1>3
<1>5. /\ OfShown(T, made) = FlattenSeq(ShownPieces(T, made))
      /\ ShownPieces(T, made) \in Seq(Seq(Seq(CellSet)))
      /\ Len(ShownPieces(T, made)) = n
  BY <1>1, <1>4, OfShownIs
<1>6. Shows(T) = ShownPieces(T, made) /\ FieldsOf(T) = OfShown(T, made)
  BY DEF Shows, FieldsOf, made
<1>7. Shows(T) \in Seq(Seq(Seq(CellSet))) /\ Len(Shows(T)) = n
  BY <1>5, <1>6
<1>8. \A i \in 1..n : Shows(T)[i] = IF T[i].pad THEN <<>> ELSE FieldValues(T, i)
  BY <1>1, <1>3, <1>6 DEF ShownPieces
<1>9. /\ \A i \in 0..n : ShownTo(T, i) \in Seq(Seq(CellSet))
      /\ ShownTo(T, 0) = <<>>
      /\ \A i \in 1..n : ShownTo(T, i) = ShownTo(T, i - 1) \o Shows(T)[i]
      /\ FlattenSeq(Shows(T)) = ShownTo(T, n)
  BY <1>7, UptoJoins DEF ShownTo
<1>10. ASSUME NEW i \in 1..n, T[i].pad = TRUE
       PROVE  ShownTo(T, i) = ShownTo(T, i - 1)
  <2>1. ShownTo(T, i) = ShownTo(T, i - 1) \o <<>>
    BY <1>8, <1>9, <1>10
  <2>2. i - 1 \in 0..n
    BY <1>1
  <2>3. ShownTo(T, i - 1) \in Seq(Seq(CellSet))
    BY <1>9, <2>2
  <2> QED
    BY <2>1, <2>3
<1>11. ASSUME NEW i \in 1..n, T[i].pad = FALSE
       PROVE  ShownTo(T, i) = ShownTo(T, i - 1) \o FieldValues(T, i)
  BY <1>8, <1>9, <1>11
<1> QED
  BY <1>1, <1>2, <1>5, <1>6, <1>9, <1>10, <1>11 DEF n, Values

(* Of flat fields, FlatFieldsOf and FieldsOf are the same.                 *)
LEMMA FlatFieldsShown ==
  ASSUME NEW T \in Seq(FlatFields)
  PROVE  HoldsTyped(T) /\ FlatFieldsOf(T) = FieldsOf(T)
<1>1. LaidOut(T) /\ DOMAIN T = 1..Len(T)
      /\ \A i \in 1..Len(T) : T[i] \in FlatFields /\ T[i].kind \in {"fixed", "str"}
  BY FlatIsLaidOut, OffsetsAre
<1>2. \A i \in DOMAIN T : FieldValues(T, i) = FlatValues(T, i)
  BY <1>1 DEF FieldValues
<1>3. HoldsTyped(T)
  BY <1>1 DEF HoldsTyped, LaidOut
<1>4. [i \in DOMAIN T |-> FieldValues(T, i)] = [i \in DOMAIN T |-> FlatValues(T, i)]
  BY <1>2
<1> QED
  BY <1>3, <1>4 DEF FlatFieldsOf, FieldsOf

(* A value of one piece, moved.                                            *)
LEMMA OneMoved ==
  ASSUME NEW v \in Seq(CellSet), NEW w \in Seq(CellSet), NEW base \in Nat,
         NEW S \in Nat, S + Len(v) <= Len(w),
         \A x \in 1..Len(v) : w[S + x] = Cell(v[x][1], base + v[x][2], v[x][3])
  PROVE  Moved(<<v>>, base) = <<SubSeq(w, S + 1, S + Len(v))>>
<1> DEFINE vs == <<v>>
           s == SubSeq(w, S + 1, S + Len(v))
           us == <<s>>
<1>1. Len(v) \in Nat /\ Len(w) \in Nat
  OBVIOUS
<1>2. s \in Seq(CellSet) /\ Len(s) = Len(v) /\ \A x \in 1..Len(v) : s[x] = w[S + x]
  BY <1>1
<1>3. vs \in Values /\ Len(vs) = 1 /\ vs[1] = v
  BY DEF Values
<1> HIDE DEF s
<1>4. us \in Values /\ Len(us) = 1 /\ us[1] = s
  BY <1>2 DEF Values
<1> HIDE DEF vs, us
<1>5. Moved(vs, base) \in Values /\ Len(Moved(vs, base)) = 1
  BY <1>3, MovedIs
<1>6. /\ DOMAIN Moved(vs, base)[1] = 1..Len(v)
      /\ \A x \in 1..Len(v) :
           Moved(vs, base)[1][x] = Cell(v[x][1], base + v[x][2], v[x][3])
  <2>1. 1 \in 1..Len(vs)
    BY <1>3
  <2> QED
    BY <1>3, <2>1, MovedAt
<1>7. Moved(vs, base)[1] \in Seq(CellSet)
  <2>1. Moved(vs, base) \in Seq(Seq(CellSet)) /\ 1 \in 1..Len(Moved(vs, base))
    BY <1>5 DEF Values
  <2> QED
    BY <2>1
<1>8. Len(Moved(vs, base)[1]) = Len(v)
  BY <1>1, <1>6, <1>7
<1>9. \A x \in 1..Len(v) : Moved(vs, base)[1][x] = us[1][x]
  BY <1>2, <1>4, <1>6
<1>10. \A k \in 1..Len(Moved(vs, base)) :
         /\ Len(Moved(vs, base)[k]) = Len(us[k])
         /\ \A x \in 1..Len(Moved(vs, base)[k]) : Moved(vs, base)[k][x] = us[k][x]
  BY <1>2, <1>4, <1>5, <1>8, <1>9
<1>11. Len(Moved(vs, base)) = Len(us)
  BY <1>4, <1>5
<1>12. Moved(vs, base) = us
  BY <1>4, <1>5, <1>10, <1>11, SameValues
<1> QED
  BY <1>12 DEF vs, us, s

-----------------------------------------------------------------------------
(* A field begins here, behind the gap in front of it.                     *)
StartOf(t, base, i) == base + Pos(t, i - 1) + Gap(t, i)

(* Its bytes are in the payload; if x, they are those of its value.        *)
HeldAt(w, x, t, base, i) ==
  LET f == t.fields[i]
      s == StartOf(t, base, i) IN
  /\ f.kind = "str" =>
       /\ s \in Nat /\ s + LebLen(f.n) + f.n <= Len(w)
       /\ w[s + 1][3] = {f.n}
       /\ x => Moved(FlatValues(t.fields, i), base)
                 = <<SubSeq(w, s + LebLen(f.n) + 1, s + LebLen(f.n) + f.n)>>
  /\ f.kind = "fixed" /\ f.pad = FALSE =>
       /\ s \in Nat /\ s + FixedSize(f) <= Len(w)
       /\ x => Moved(FlatValues(t.fields, i), base) = <<SubSeq(w, s + 1, s + FixedSize(f))>>
  /\ f.kind = "nested" =>
       x /\ s = base + OffsetOf(t.fields, i) /\ s \in Nat /\ Lies(w, f.type, s)
  /\ f.kind = "inline" =>
       /\ x /\ s = base + OffsetOf(t.fields, i) /\ s \in Nat /\ s < Len(w)
       /\ w[s + 1][3] = {f.pick}
       /\ Lies(w, Subroutine(f, f.pick), s + UnionAlign(f.variants))

(* Where the memory of a struct lies in the payload, its fields are held.  *)
LEMMA LiesHeld ==
  ASSUME NEW w \in Seq(CellSet), NEW t, Exact(t), Straight(t), NEW base, Lies(w, t, base),
         NEW i \in 1..Len(t.fields)
  PROVE  HeldAt(w, TRUE, t, base, i)
<1> DEFINE T == t.fields
           f == T[i]
           o == OffsetOf(T, i)
           s == StartOf(t, base, i)
           E == EndOf(T, Len(T))
<1>1. Coded(t) /\ HoldsTyped(T) /\ LaidOut(T) /\ f \in Fields /\ ~Has(T, "str") /\ Len(T) \in Nat
      /\ DOMAIN T = 1..Len(T)
  BY HoldsTypedIsLaidOut, TierIs, PiecesAre DEF Exact, Straight, Coded
<1>2. o \in Nat /\ FieldSize(f) \in Nat /\ E \in Nat /\ o + FieldSize(f) <= E
  BY <1>1, FieldInside
<1>3. base \in Nat /\ base + E <= Len(w)
      /\ \A k \in 1..E : w[base + k] = Cell(0, base + k, MarksAt(Marks(T), k))
  BY DEF Lies
<1>4. f.kind # "str"
  BY <1>1 DEF Has
<1>5. ASSUME f.pad = FALSE
      PROVE  s = base + o /\ s \in Nat
  <2>1. Pos(t, i - 1) + Gap(t, i) = o
    BY <1>5, ReadsInPlace
  <2>2. i - 1 \in 0..Len(T)
    BY <1>1
  <2>3. Pos(t, i - 1) \in Int /\ Gap(t, i) \in Int
    BY <1>1, <2>2, PosIs
  <2>4. s = base + Pos(t, i - 1) + Gap(t, i)
    BY DEF StartOf
  <2> HIDE DEF s, o
  <2>5. PICK p \in Int, g \in Int : p = Pos(t, i - 1) /\ g = Gap(t, i)
    BY <2>3
  <2>6. p + g = o /\ s = base + p + g
    BY <2>1, <2>4, <2>5
  <2> QED
    BY <1>2, <1>3, <2>6
<1>6. ASSUME NEW k \in 1..FieldSize(f)
      PROVE  w[base + o + k] = Cell(0, base + o + k, MarksAt(Marks(T), o + k))
  <2> HIDE DEF o, E, f
  <2>1. PICK z \in Nat : z = FieldSize(f)
    BY <1>2
  <2>2. o + k \in 1..E
    BY <1>2, <2>1
  <2>3. base + (o + k) = base + o + k
    BY <1>2, <1>3, <2>2
  <2> QED
    BY <1>3, <2>2, <2>3
<1>7. base + o + FieldSize(f) <= Len(w)
  <2> HIDE DEF o, E, f
  <2>1. PICK z \in Nat : z = FieldSize(f)
    BY <1>2
  <2>2. PICK l \in Nat : l = Len(w)
    OBVIOUS
  <2> QED
    BY <1>2, <1>3, <2>1, <2>2
<1>8. ASSUME f.kind = "fixed", f.pad = FALSE
      PROVE  /\ s \in Nat /\ s + FixedSize(f) <= Len(w)
             /\ Moved(FlatValues(T, i), base) = <<SubSeq(w, s + 1, s + FixedSize(f))>>
  <2> DEFINE z == FixedSize(f)
             v == MemoryBytes(o, z)
  <2>1. FieldSize(f) = z /\ z \in Nat
    BY <1>1, <1>8, FieldKind, FlatPartIs, FixedFieldIs DEF FieldSize
  <2>2. v \in Seq(CellSet) /\ Len(v) = z
    BY <1>2, <2>1, BytesAre
  <2>3. \A k \in 1..z : v[k] = Cell(0, o + k, {})
    BY DEF MemoryBytes
  <2>4. FlatValues(T, i) = <<v>>
    BY <1>4 DEF FlatValues
  <2>5. s = base + o /\ s \in Nat
    BY <1>5, <1>8
  <2>6. ASSUME NEW k \in 1..z
        PROVE  w[s + k] = Cell(v[k][1], base + v[k][2], v[k][3])
    <3>1. MarksAt(Marks(T), o + k) = {}
      BY <1>1, <1>8, <2>1, MarksOfField
    <3>2. w[base + o + k] = Cell(0, base + o + k, {})
      BY <1>6, <2>1, <3>1
    <3> HIDE DEF v, o, s, z
    <3>5. v[k] = Cell(0, o + k, {})
      BY <2>3
    <3>3. v[k][1] = 0 /\ v[k][2] = o + k /\ v[k][3] = {}
      BY <3>5 DEF Cell
    <3>4. base + (o + k) = base + o + k
      BY <1>2, <1>3, <2>1
    <3> QED
      BY <2>5, <3>2, <3>3, <3>4
  <2> HIDE DEF v, z, s, o
  <2>7. s + Len(v) <= Len(w)
    BY <1>7, <2>1, <2>2, <2>5
  <2>8. Moved(<<v>>, base) = <<SubSeq(w, s + 1, s + Len(v))>>
    BY <1>3, <2>2, <2>5, <2>6, <2>7, OneMoved
  <2> QED
    BY <2>2, <2>4, <2>5, <2>7, <2>8 DEF z
<1>9. ASSUME f.kind = "nested"
      PROVE  s = base + o /\ s \in Nat /\ Lies(w, f.type, s)
  <2>1. f \in NestedFields /\ f.pad = FALSE
    BY <1>1, <1>9, FieldKind, NestedFieldIs
  <2>2. s = base + o /\ s \in Nat
    BY <1>5, <2>1
  <2>3. Len(w) \in Nat
    OBVIOUS
  <2>4. Lies(w, f.type, base + o)
    BY <1>1, <2>1, <2>3, LiesInNested
  <2> QED
    BY <2>2, <2>4
<1>10. ASSUME f.kind = "inline"
       PROVE  /\ s = base + o /\ s \in Nat /\ s < Len(w)
              /\ w[s + 1][3] = {f.pick}
              /\ Lies(w, Subroutine(f, f.pick), s + UnionAlign(f.variants))
  <2>1. f \in InlineFields /\ f.pad = FALSE
    BY <1>1, <1>10, FieldKind, InlineFieldIs
  <2>2. s = base + o /\ s \in Nat
    BY <1>5, <2>1
  <2>3. Len(w) \in Nat
    OBVIOUS
  <2>4. Lies(w, Subroutine(f, f.pick), base + o + UnionAlign(f.variants))
    BY <1>1, <2>1, <2>3, LiesInInline
  <2>5. 1 \in 1..FieldSize(f)
    <3>1. /\ UnionAlign(f.variants) \in Nat \ {0} /\ UnionSize(f.variants) \in Nat
          /\ FieldSize(f) = UnionAlign(f.variants) + UnionSize(f.variants)
      BY <2>1, InlineFieldIs
    <3> QED
      BY <3>1
  <2>6. MarksAt(Marks(T), o + 1) = {f.pick}
    BY <1>1, <1>10, <2>5, MarksOfField
  <2>7. w[base + o + 1] = Cell(0, base + o + 1, {f.pick})
    BY <1>6, <2>5, <2>6
  <2>8. w[s + 1][3] = {f.pick}
    BY <2>2, <2>7 DEF Cell
  <2>9. s < Len(w)
    <3> HIDE DEF s, o, f
    <3>1. PICK z \in Nat : z = FieldSize(f)
      BY <1>2
    <3> QED
      BY <1>7, <2>2, <2>3, <2>5, <3>1
  <2> QED
    BY <2>2, <2>4, <2>8, <2>9
<1> QED
  BY <1>4, <1>8, <1>9, <1>10 DEF HeldAt

(* A flat event is sent whole; if it is Tier-1 or has a text, nothing else *)
(* is sent.                                                                *)
LEMMA SentWhole ==
  ASSUME NEW t, Coded(t), IsStruct(t) \/ IsVariant(t), Tier(t) # "nested", Fits(t)
  PROVE  /\ Payload(t) \in Seq(CellSet) /\ Len(Payload(t)) \in Nat
         /\ Pos(t, Len(t.fields)) <= Len(Payload(t))
         /\ Tier(t) = "tier1" \/ Has(t.fields, "str") =>
              Pos(t, Len(t.fields)) = Len(Payload(t))
         /\ \A i \in 1..Len(t.fields) :
              /\ Pos(t, i) \in Nat /\ Pos(t, i - 1) \in Nat
              /\ Pos(t, i) = Pos(t, i - 1) + Len(SerializedField(t.fields, i))
              /\ Pos(t, i) <= Len(Payload(t))
              /\ IsBuffered(t) =>
                   \A k \in 1..Len(SerializedField(t.fields, i)) :
                     Payload(t)[Pos(t, i - 1) + k] = SerializedField(t.fields, i)[k]
<1> DEFINE T == t.fields
           n == Len(T)
           w == Payload(t)
           ss == SerializedFields(T)
<1>1. /\ T \in Seq(FlatFields) /\ n \in Nat
      /\ \A i \in 0..n : Pos(t, i) = Len(Upto(ss, i)) /\ Pos(t, i) \in Nat
      /\ \A i \in 0..n : ~Has(T, "str") => Pos(t, i) = MacroEnd(T, i)
  BY FlatPos
<1>2. /\ ss \in Seq(Seq(CellSet)) /\ Len(ss) = n
      /\ \A i \in 1..n : ss[i] = SerializedField(T, i)
      /\ Serialize(T) = FlattenSeq(ss) /\ Serialize(T) \in Seq(CellSet)
      /\ PayloadSize(T) = Len(Serialize(T))
  BY <1>1, SerializedIs
<1>3. n \in 0..n
  BY <1>1
<1>4. Pos(t, n) = Len(Serialize(T)) /\ Pos(t, n) \in Nat
  <2>1. Serialize(T) = Upto(ss, n)
    BY <1>2, UptoJoins
  <2> QED
    BY <1>1, <1>3, <2>1
<1>5. w \in Seq(CellSet) /\ Len(w) \in Nat
  BY PayloadIs
<1>6. Tier(t) \in {"tier1", "tier2", "variant"}
  BY TierIs
<1>7. ASSUME Tier(t) = "tier1"
      PROVE  Pos(t, n) = Len(w) /\ ~IsBuffered(t)
  <2>1. Len(w) = LogicalSize(T) /\ ~Has(T, "str")
    BY <1>7, PayloadIs, TierIs
  <2>2. Pos(t, n) = MacroEnd(T, n)
    BY <1>1, <1>3, <2>1
  <2> QED
    BY <1>7, <2>1, <2>2 DEF LogicalSize, IsBuffered
<1>8. ASSUME Tier(t) # "tier1"
      PROVE  /\ IsBuffered(t)
             /\ Pos(t, n) <= Len(w)
             /\ Has(T, "str") => Pos(t, n) = Len(w)
             /\ \A k \in 1..Pos(t, n) : w[k] = Serialize(T)[k]
  <2>1. IsBuffered(t)
    BY <1>6, <1>8 DEF IsBuffered
  <2>2. Len(w) = SentSize(t) /\ \A k \in 1..Len(w) : k <= Len(Serialize(T)) => w[k] = Serialize(T)[k]
    BY <2>1, PayloadIs
  <2>3. CASE Has(T, "str")
    <3>1. SentSize(t) = PayloadSize(T)
      BY <2>3 DEF SentSize
    <3>2. Pos(t, n) = Len(w)
      BY <1>2, <1>4, <2>2, <3>1
    <3> HIDE DEF w, n, T, ss
    <3> QED
      BY <1>4, <2>1, <2>2, <3>2
  <2>4. CASE ~Has(T, "str")
    <3>1. Tier(t) = "variant"
      <4>1. ASSUME Tier(t) = "tier2"
            PROVE  FALSE
        <5>2. t.form = "struct"
          <6>1. IsVariant(t) => Tier(t) = "variant"
            BY TierIs
          <6>2. IsStruct(t) => t.form = "struct"
            BY TierIs
          <6> QED
            BY <4>1, <6>1, <6>2
        <5>1. IsTier2(T)
          BY <4>1, <5>2 DEF Tier
        <5> QED
          BY <2>4, <5>1 DEF IsTier2, Has
      <4> QED
        BY <1>6, <1>8, <4>1
    <3>2. SentSize(t) = TotalSize(T)
      BY <2>4, <3>1 DEF SentSize
    <3>3. LogicalSize(T) <= TotalSize(T)
      BY <1>1, <2>4, TotalSizeIs
    <3>4. Pos(t, n) = LogicalSize(T)
      BY <1>1, <1>3, <2>4 DEF LogicalSize
    <3>5. Pos(t, n) <= Len(w)
      BY <2>2, <3>2, <3>3, <3>4
    <3> HIDE DEF w, n, T, ss
    <3>6. \A k \in 1..Pos(t, n) : k \in 1..Len(w)
      BY <1>4, <1>5, <3>5
    <3> QED
      BY <1>4, <2>1, <2>2, <2>4, <3>5, <3>6
  <2> QED
    BY <2>3, <2>4
<1>9. Pos(t, n) <= Len(w)
  BY <1>5, <1>4, <1>7, <1>8
<1>10. ASSUME NEW i \in 1..n
       PROVE  /\ Pos(t, i) \in Nat /\ Pos(t, i - 1) \in Nat
              /\ Pos(t, i) = Pos(t, i - 1) + Len(SerializedField(T, i))
              /\ Pos(t, i) <= Pos(t, n)
              /\ \A k \in 1..Len(SerializedField(T, i)) :
                   /\ Pos(t, i - 1) + k \in 1..Pos(t, n)
                   /\ Serialize(T)[Pos(t, i - 1) + k] = SerializedField(T, i)[k]
  <2>1. i \in 0..n /\ i - 1 \in 0..n
    BY <1>1
  <2>2. /\ Len(Upto(ss, i)) = Len(Upto(ss, i - 1)) + Len(ss[i])
        /\ Len(Upto(ss, i)) <= Len(FlattenSeq(ss))
    BY <1>2, UptoLen
  <2>3. \A k \in 1..Len(ss[i]) :
          /\ FlattenSeq(ss)[Len(Upto(ss, i - 1)) + k] = ss[i][k]
          /\ Len(Upto(ss, i - 1)) + k \in 1..Len(FlattenSeq(ss))
    BY <1>2, UptoAt
  <2> HIDE DEF ss, n, T
  <2> QED
    BY <1>1, <1>2, <1>4, <2>1, <2>2, <2>3
<1>11. ASSUME NEW i \in 1..n
       PROVE  Pos(t, i) <= Len(w)
  <2> HIDE DEF w, n
  <2> QED
    BY <1>4, <1>5, <1>9, <1>10
<1>12. Tier(t) = "tier1" \/ Has(T, "str") => Pos(t, n) = Len(w)
  BY <1>7, <1>8
<1>13. ASSUME IsBuffered(t), NEW i \in 1..n, NEW k \in 1..Len(SerializedField(T, i))
       PROVE  w[Pos(t, i - 1) + k] = SerializedField(T, i)[k]
  <2>1. Tier(t) # "tier1"
    BY <1>13 DEF IsBuffered
  <2>2. Pos(t, i - 1) + k \in 1..Pos(t, n) /\ Serialize(T)[Pos(t, i - 1) + k] = SerializedField(T, i)[k]
    BY <1>10
  <2> QED
    BY <1>8, <2>1, <2>2
<1> QED
  BY <1>5, <1>9, <1>10, <1>11, <1>12, <1>13

(* In what is sent of a flat event, its fields are held; with their values *)
(* if it is serialized.                                                    *)
LEMMA SentHeld ==
  ASSUME NEW t, Coded(t), IsStruct(t) \/ IsVariant(t), Tier(t) # "nested", Fits(t),
         NEW x \in BOOLEAN, x => IsBuffered(t),
         NEW i \in 1..Len(t.fields)
  PROVE  HeldAt(Payload(t), x, t, 0, i)
<1> DEFINE T == t.fields
           f == T[i]
           w == Payload(t)
           p == Pos(t, i - 1)
           s == StartOf(t, 0, i)
           sf == SerializedField(T, i)
<1>1. T \in Seq(FlatFields) /\ Gap(t, i) = GapBefore(T, i)
  BY FlatPos
<1>2. /\ w \in Seq(CellSet) /\ Len(w) \in Nat
      /\ p \in Nat /\ p + Len(sf) <= Len(w)
      /\ IsBuffered(t) => \A k \in 1..Len(sf) : w[p + k] = sf[k]
  BY SentWhole
<1>3. /\ f \in FlatFields /\ f.kind \in {"fixed", "str"} /\ LaidOut(T)
  BY <1>1, FlatIsLaidOut
<1>4. /\ sf \in Seq(CellSet)
      /\ GapBefore(T, i) \in Nat /\ SentLen(f) \in Nat
      /\ Len(sf) = GapBefore(T, i) + SentLen(f)
      /\ f.kind = "str" =>
           /\ GapBefore(T, i) = 0
           /\ \A k \in 1..LebLen(f.n) : sf[k] = Leb(i, f.n)[k]
           /\ \A k \in 1..f.n : sf[LebLen(f.n) + k] = Cell(i, k, {})
      /\ f.kind = "fixed" =>
           \A k \in 1..FixedSize(f) : sf[GapBefore(T, i) + k] = Cell(0, OffsetOf(T, i) + k, {})
  BY <1>1, SerializedFieldIs
<1>5. s = p + GapBefore(T, i) /\ s \in Nat
  <2>1. s = 0 + p + GapBefore(T, i)
    BY <1>1 DEF StartOf
  <2> HIDE DEF s, p
  <2> QED
    BY <1>2, <1>4, <2>1
<1>6. OffsetOf(T, i) \in Nat
  BY <1>3, OffsetsAre
<1>7. ASSUME f.kind = "str"
      PROVE  /\ s + LebLen(f.n) + f.n <= Len(w)
             /\ IsBuffered(t)
             /\ w[s + 1][3] = {f.n}
             /\ Moved(FlatValues(T, i), 0)
                  = <<SubSeq(w, s + LebLen(f.n) + 1, s + LebLen(f.n) + f.n)>>
  <2>1. f.n \in Nat /\ SentLen(f) = LebLen(f.n) + f.n
    BY <1>3, <1>7, FlatPartIs, StrFieldIs DEF SentLen
  <2>2. i \in Nat /\ i > 0 /\ i \in DOMAIN T
    BY <1>3, OffsetsAre
  <2>3. /\ LebLen(f.n) \in {1, 2}
        /\ Leb(i, f.n)[1] = Cell(i, 0, {f.n})
    BY <2>1, <2>2, LebIs
  <2>4. IsBuffered(t)
    <3>1. Has(T, "str")
      BY <1>7, <2>2 DEF Has
    <3> QED
      BY <3>1, TierIs DEF IsBuffered
  <2> DEFINE l == LebLen(f.n)
             v == TextBytes(i, f.n)
  <2>5. v \in Seq(CellSet) /\ Len(v) = f.n
    BY <2>1, <2>2, BytesAre
  <2>6. \A k \in 1..f.n : v[k] = Cell(i, k, {})
    BY DEF TextBytes
  <2>7. FlatValues(T, i) = <<v>>
    BY <1>7 DEF FlatValues
  <2> HIDE DEF v
  <2>8. /\ \A k \in 1..l : sf[k] = Leb(i, f.n)[k]
        /\ \A k \in 1..f.n : sf[l + k] = Cell(i, k, {})
        /\ Len(sf) = l + f.n
        /\ s = p
    BY <1>2, <1>4, <1>5, <1>7, <2>1, <2>3
  <2>9. \A k \in 1..Len(sf) : w[s + k] = sf[k]
    BY <1>2, <2>4, <2>8
  <2>10. w[s + 1] = Cell(i, 0, {f.n})
    <3>1. 1 \in 1..l /\ 1 \in 1..Len(sf)
      BY <2>1, <2>3, <2>8
    <3> HIDE DEF l, sf, w, s
    <3> QED
      BY <2>3, <2>8, <2>9, <3>1
  <2> HIDE DEF l, s, p
  <2>11. s + l + f.n <= Len(w) /\ s + l \in Nat /\ l \in Nat
    <3>1. l \in Nat
      BY <2>3 DEF l
    <3>2. PICK z \in Nat : z = Len(sf)
      BY <1>4
    <3> HIDE DEF sf, w
    <3>3. p + z <= Len(w) /\ z = l + f.n
      BY <1>2, <2>8, <3>2
    <3> QED
      BY <1>2, <1>5, <2>1, <2>8, <3>1, <3>3, SMTT(30)
  <2>12. ASSUME NEW k \in 1..Len(v)
         PROVE  w[s + l + k] = Cell(v[k][1], 0 + v[k][2], v[k][3])
    <3>1. v[k] = Cell(i, k, {}) /\ k \in 1..f.n
      BY <2>5, <2>6
    <3>2. v[k][1] = i /\ v[k][2] = k /\ v[k][3] = {}
      BY <3>1 DEF Cell
    <3> HIDE DEF sf, w, f
    <3>5. Len(sf) = l + f.n /\ sf[l + k] = Cell(i, k, {})
      BY <2>8, <3>1 DEF l
    <3>7. k \in 1..f.n
      BY <3>1
    <3>8. l + k \in 1..(l + f.n) /\ s + (l + k) = s + l + k
      BY <1>5, <2>1, <2>11, <3>7
    <3>3. l + k \in 1..Len(sf) /\ s + (l + k) = s + l + k
      BY <3>5, <3>8
    <3>4. w[s + (l + k)] = sf[l + k]
      BY <2>9, <3>3
    <3>6. 0 + k = k
      OBVIOUS
    <3> QED
      BY <3>2, <3>3, <3>4, <3>5, <3>6
  <2> HIDE DEF w, sf, f
  <2>13. (s + l) + Len(v) <= Len(w)
    BY <2>5, <2>11
  <2>14. Moved(<<v>>, 0) = <<SubSeq(w, (s + l) + 1, (s + l) + Len(v))>>
    <3>1. 0 \in Nat /\ s + l \in Nat
      BY <2>11
    <3>2. \A k \in 1..Len(v) : w[(s + l) + k] = Cell(v[k][1], 0 + v[k][2], v[k][3])
      BY <2>12
    <3> QED
      BY <1>2, <2>5, <2>13, <3>1, <3>2, OneMoved
  <2>15. w[s + 1][3] = {f.n}
    BY <2>10 DEF Cell
  <2> QED
    BY <2>4, <2>5, <2>7, <2>11, <2>14, <2>15 DEF l
<1>8. ASSUME f.kind = "fixed"
      PROVE  /\ s + FixedSize(f) <= Len(w)
             /\ IsBuffered(t) =>
                  Moved(FlatValues(T, i), 0) = <<SubSeq(w, s + 1, s + FixedSize(f))>>
  <2> DEFINE z == FixedSize(f)
             o == OffsetOf(T, i)
             g == GapBefore(T, i)
             v == MemoryBytes(o, z)
  <2>1. z \in Nat /\ SentLen(f) = z
    BY <1>3, <1>8, FlatPartIs, FixedFieldIs DEF SentLen
  <2>2. v \in Seq(CellSet) /\ Len(v) = z
    BY <1>6, <2>1, BytesAre
  <2>3. \A k \in 1..z : v[k] = Cell(0, o + k, {})
    BY DEF MemoryBytes
  <2>4. FlatValues(T, i) = <<v>>
    BY <1>8 DEF FlatValues
  <2>5. Len(sf) = g + z /\ \A k \in 1..z : sf[g + k] = Cell(0, o + k, {})
    BY <1>4, <1>8, <2>1
  <2> HIDE DEF z, v, o, s, p, sf, w, f, g
  <2>6. s + z <= Len(w)
    BY <1>2, <1>4, <1>5, <2>1, <2>5 DEF g
  <2>7. ASSUME IsBuffered(t), NEW k \in 1..Len(v)
        PROVE  w[s + k] = Cell(v[k][1], 0 + v[k][2], v[k][3])
    <3>1. v[k] = Cell(0, o + k, {}) /\ k \in 1..z /\ sf[g + k] = Cell(0, o + k, {})
      BY <2>2, <2>3, <2>5
    <3>2. v[k][1] = 0 /\ v[k][2] = o + k /\ v[k][3] = {}
      BY <3>1 DEF Cell
    <3>5. g \in Nat /\ o \in Nat /\ s = p + g
      BY <1>4, <1>5, <1>6 DEF g, o
    <3>6. Len(sf) = g + z
      BY <2>5
    <3>7. p \in Nat
      BY <1>2
    <3>8. k \in 1..z
      BY <3>1
    <3>9. g + k \in 1..(g + z)
      BY <2>1, <3>5, <3>8
    <3>10. p + (g + k) = s + k /\ 0 + (o + k) = o + k
      BY <2>1, <3>5, <3>7, <3>8
    <3>3. g + k \in 1..Len(sf) /\ p + (g + k) = s + k /\ 0 + (o + k) = o + k
      BY <3>6, <3>9, <3>10
    <3>4. w[p + (g + k)] = sf[g + k]
      BY <1>2, <2>7, <3>3
    <3> QED
      BY <3>1, <3>2, <3>3, <3>4
  <2>8. ASSUME IsBuffered(t)
        PROVE  Moved(<<v>>, 0) = <<SubSeq(w, s + 1, s + Len(v))>>
    <3>1. s + Len(v) <= Len(w)
      BY <2>2, <2>6
    <3>2. \A k \in 1..Len(v) : w[s + k] = Cell(v[k][1], 0 + v[k][2], v[k][3])
      BY <2>7, <2>8
    <3>3. 0 \in Nat /\ s \in Nat
      BY <1>5
    <3> QED
      BY <1>2, <2>2, <3>1, <3>2, <3>3, OneMoved
  <2> QED
    BY <2>2, <2>4, <2>6, <2>8 DEF z
<1> QED
  BY <1>3, <1>5, <1>7, <1>8 DEF HeldAt

-----------------------------------------------------------------------------
(* The bytes that type t is decoded from begin behind base; if x, what is  *)
(* decoded is what the fields hold.  It is a struct or variant in memory,  *)
(* or the serialized event.                                                *)
Readable(w, x, t, base) ==
  \/ x = TRUE /\ Exact(t) /\ Straight(t) /\ Lies(w, t, base)
  \/ /\ Coded(t) /\ (IsStruct(t) \/ IsVariant(t)) /\ Tier(t) # "nested" /\ Fits(t)
     /\ base = 0 /\ w = Payload(t) /\ NoTableArrays(t.fields)
     /\ x = TRUE => IsBuffered(t) /\ Exact(t)

(* What is known of a type that can be read.                               *)
LEMMA ReadableIs ==
  ASSUME NEW w \in Seq(CellSet), NEW x \in BOOLEAN, NEW t, NEW base, Readable(w, x, t, base)
  PROVE  /\ Coded(t) /\ NoTableArrays(t.fields) /\ base \in Nat
         /\ HoldsTyped(t.fields) /\ Len(t.fields) \in Nat
         /\ \A i \in 1..Len(t.fields) : HeldAt(w, x, t, base, i) /\ t.fields[i] \in Fields
         /\ x = TRUE => Exact(t)
<1>1. CASE x = TRUE /\ Exact(t) /\ Straight(t) /\ Lies(w, t, base)
  <2>1. \A i \in 1..Len(t.fields) : HeldAt(w, TRUE, t, base, i)
    BY <1>1, LiesHeld
  <2>2. Coded(t)
    BY <1>1 DEF Exact
  <2> QED
    BY <1>1, <2>1, <2>2, PiecesAre DEF Exact, Lies, Coded
<1>2. CASE /\ Coded(t) /\ (IsStruct(t) \/ IsVariant(t)) /\ Tier(t) # "nested" /\ Fits(t)
           /\ base = 0 /\ w = Payload(t) /\ NoTableArrays(t.fields)
           /\ x = TRUE => IsBuffered(t) /\ Exact(t)
  <2>1. x => IsBuffered(t)
    BY <1>2
  <2>2. \A i \in 1..Len(t.fields) : HeldAt(Payload(t), x, t, 0, i)
    BY <1>2, <2>1, SentHeld
  <2> QED
    BY <1>2, <2>2, PiecesAre DEF Coded
<1> QED
  BY <1>1, <1>2 DEF Readable

-----------------------------------------------------------------------------
(* A call that runs the code of a type: it is before field at, or before   *)
(* the gap in front of that; seen is what was decoded before the call.     *)
Frames == [type : TypeSet, base : Nat, at : Nat, before : {"gap", "field"}, seen : Values]
ToGap(t, b, i, v) == [type |-> t, base |-> b, at |-> i, before |-> "gap", seen |-> v]
ToField(t, b, i, v) == [type |-> t, base |-> b, at |-> i, before |-> "field", seen |-> v]

CallOf(f) ==
  [code |-> CodeOf(f.type),
   pc |-> IF f.before = "field" THEN Inside(f.type, f.at) ELSE Begin(f.type, f.at)]
Begun(t) == [code |-> CodeOf(t), pc |-> 1]
Place(f) ==
  f.base + Pos(f.type, f.at - 1) + (IF f.before = "field" THEN GapAt(f.type, f.at) ELSE 0)
Seen(f) == f.seen \o Moved(ShownTo(f.type.fields, f.at - 1), f.base)

(* When it returns.                                                        *)
EndPlace(f) == f.base + Pos(f.type, Len(f.type.fields)) + TailGap(f.type)
EndSeen(f) == f.seen \o Moved(FieldsOf(f.type.fields), f.base)

(* The k-th call, of which the callees are in the database d.              *)
Stands(f, k, x, d, w) ==
  /\ f \in Frames
  /\ Readable(w, x, f.type, f.base)
  /\ f.at \in 1..(Len(f.type.fields) + 1)
  /\ x = TRUE => /\ k + Height(f.type.fields) <= MaxDepth + 1
                 /\ Callees(f.type.fields) \subseteq d

(* Values are joined from the left.                                        *)
LEMMA JoinsAre ==
  ASSUME NEW a \in Values, NEW b \in Values, NEW c \in Values
  PROVE  a \o (b \o c) = (a \o b) \o c
<1> DEFINE S == Seq(CellSet)
<1>1. a \in Seq(S) /\ b \in Seq(S) /\ c \in Seq(S)
  BY DEF Values
<1> HIDE DEF S
<1> DEFINE u == b \o c
<1>2. u = b \o c
  OBVIOUS
<1> HIDE DEF u
<1>3. (a \o b) \o c = a \o u
  BY <1>1, <1>2, ThreePieces
<1> QED
  BY <1>2, <1>3

(* What a call has seen up to a field are values.                          *)
LEMMA SeenIs ==
  ASSUME NEW v \in Values, NEW T, HoldsTyped(T), NEW b \in Nat, NEW i \in 0..Len(T)
  PROVE  v \o Moved(ShownTo(T, i), b) \in Values
<1>1. ShownTo(T, i) \in Values
  BY ShowsAre
<1>2. Moved(ShownTo(T, i), b) \in Values
  BY <1>1, MovedIs
<1> QED
  BY <1>2 DEF Values

(* A call goes on behind a gap ...                                         *)
LEMMA GapDone ==
  ASSUME NEW f \in Frames, Coded(f.type), f.at \in 1..(Len(f.type.fields) + 1), f.before = "gap"
  PROVE  LET h == ToField(f.type, f.base, f.at, f.seen) IN
         /\ h \in Frames
         /\ h.type = f.type /\ h.base = f.base /\ h.at = f.at /\ h.before = "field"
         /\ h.seen = f.seen
         /\ Place(h) = Place(f) + GapAt(f.type, f.at) /\ Seen(h) = Seen(f)
<1> DEFINE h == ToField(f.type, f.base, f.at, f.seen)
<1>1. f.type \in TypeSet /\ f.base \in Nat /\ f.at \in Nat /\ f.seen \in Values
  BY DEF Frames
<1>10. TRUE \in BOOLEAN
  OBVIOUS
<1>2. /\ h \in Frames /\ h.type = f.type /\ h.base = f.base /\ h.at = f.at /\ h.before = "field"
      /\ h.seen = f.seen
  BY <1>1, <1>10 DEF ToGap, ToField, Frames
<1> HIDE DEF h
<1>3. Seen(h) = Seen(f)
  BY <1>2 DEF Seen
<1>4. f.at - 1 \in 0..Len(f.type.fields)
  BY PiecesAre
<1>5. Pos(f.type, f.at - 1) \in Int /\ GapAt(f.type, f.at) \in Nat
  BY <1>4, PosIs, LeadsAre
<1>6. Place(f) = f.base + Pos(f.type, f.at - 1) + 0
  BY DEF Place
<1>7. Place(h) = f.base + Pos(f.type, f.at - 1) + GapAt(f.type, f.at)
  BY <1>2 DEF Place
<1>8. PICK p \in Int, q \in Nat : p = Pos(f.type, f.at - 1) /\ q = GapAt(f.type, f.at)
  BY <1>5
<1>9. Place(h) = Place(f) + GapAt(f.type, f.at)
  BY <1>1, <1>6, <1>7, <1>8
<1> QED
  BY <1>2, <1>3, <1>9 DEF h

(* ... and behind a field.                                                 *)
LEMMA FieldDone ==
  ASSUME NEW f \in Frames, Coded(f.type), f.at \in 1..Len(f.type.fields), f.before = "field"
  PROVE  LET h == ToGap(f.type, f.base, f.at + 1, f.seen)
             c == f.type.fields[f.at] IN
         /\ h \in Frames
         /\ h.type = f.type /\ h.base = f.base /\ h.at = f.at + 1 /\ h.before = "gap"
         /\ h.seen = f.seen
         /\ Place(f) = StartOf(f.type, f.base, f.at) /\ Place(f) \in Int
         /\ Length(c) \in Int
         /\ Place(h) = Place(f) + Length(c)
         /\ Seen(f) \in Values
         /\ c.pad = TRUE => Seen(h) = Seen(f)
         /\ c.pad = FALSE =>
              /\ FieldValues(f.type.fields, f.at) \in Values
              /\ Seen(h) = Seen(f) \o Moved(FieldValues(f.type.fields, f.at), f.base)
<1> DEFINE h == ToGap(f.type, f.base, f.at + 1, f.seen)
           t == f.type
           T == t.fields
           c == T[f.at]
           i == f.at
           b == f.base
<1>1. t \in TypeSet /\ b \in Nat /\ i \in Nat /\ f.seen \in Values /\ i + 1 \in Nat
  BY DEF Frames
<1>17. FALSE \in BOOLEAN
  OBVIOUS
<1>2. /\ h \in Frames /\ h.type = t /\ h.base = b /\ h.at = i + 1 /\ h.before = "gap"
      /\ h.seen = f.seen
  BY <1>1, <1>17 DEF ToGap, ToField, Frames
<1> HIDE DEF h
<1>3. HoldsTyped(T) /\ Len(T) \in Nat /\ i \in 1..Len(T) /\ i \in 0..Len(T) /\ i - 1 \in 0..Len(T)
  BY PiecesAre DEF Coded
<1>4. /\ Pos(t, i - 1) \in Int /\ Gap(t, i) \in Nat /\ Length(c) \in Int
      /\ Pos(t, i) = Pos(t, i - 1) + Gap(t, i) + Length(c)
  BY <1>3, PosIs
<1>5. GapAt(t, i) = Gap(t, i)
  BY <1>3 DEF GapAt
<1>6. Place(f) = b + Pos(t, i - 1) + Gap(t, i)
  BY <1>5 DEF Place
<1>7. Place(h) = b + Pos(t, i) + 0
  <2>1. (i + 1) - 1 = i
    BY <1>1
  <2> QED
    BY <1>2, <2>1 DEF Place
<1>8. PICK p \in Int, q \in Nat, l \in Int :
        p = Pos(t, i - 1) /\ q = Gap(t, i) /\ l = Length(c)
  BY <1>4
<1>9. Place(f) = b + p + q /\ Place(h) = b + (p + q + l) + 0
  BY <1>4, <1>6, <1>7, <1>8
<1>10. Place(f) \in Int /\ Place(h) = Place(f) + l
  BY <1>1, <1>8, <1>9
<1>11. Place(f) = StartOf(t, b, i)
  BY <1>6 DEF StartOf
<1>12. /\ FieldValues(T, i) \in Values
       /\ ShownTo(T, i - 1) \in Values /\ ShownTo(T, i) \in Values
       /\ T[i].pad = TRUE => ShownTo(T, i) = ShownTo(T, i - 1)
       /\ T[i].pad = FALSE => ShownTo(T, i) = ShownTo(T, i - 1) \o FieldValues(T, i)
  BY <1>3, ShowsAre
<1>13. Seen(h) = f.seen \o Moved(ShownTo(T, i), b)
  <2>1. (i + 1) - 1 = i
    BY <1>1
  <2> QED
    BY <1>2, <2>1 DEF Seen
<1>14. Seen(f) = f.seen \o Moved(ShownTo(T, i - 1), b)
  BY DEF Seen
<1>15. Seen(f) \in Values
  BY <1>1, <1>3, <1>14, SeenIs
<1>16. ASSUME c.pad = FALSE
       PROVE  Seen(h) = Seen(f) \o Moved(FieldValues(T, i), b)
  <2> DEFINE a1 == Moved(ShownTo(T, i - 1), b)
             a2 == Moved(FieldValues(T, i), b)
  <2>1. Moved(ShownTo(T, i), b) = a1 \o a2
    <3>1. Moved(ShownTo(T, i - 1) \o FieldValues(T, i), b) = a1 \o a2
      BY <1>1, <1>12, MovedJoin
    <3>2. ShownTo(T, i) = ShownTo(T, i - 1) \o FieldValues(T, i)
      BY <1>12, <1>16
    <3> QED
      BY <3>1, <3>2
  <2>2. a1 \in Values /\ a2 \in Values
    BY <1>1, <1>12, MovedIs
  <2> HIDE DEF a1, a2
  <2>3. f.seen \o (a1 \o a2) = (f.seen \o a1) \o a2
    BY <1>1, <2>2, JoinsAre
  <2> QED
    BY <1>13, <1>14, <2>1, <2>3 DEF a1, a2
<1> QED
  BY <1>2, <1>4, <1>8, <1>10, <1>11, <1>12, <1>13, <1>14, <1>15, <1>16 DEF h

(* It returns from behind its last field.                                  *)
LEMMA EndReached ==
  ASSUME NEW f \in Frames, Coded(f.type), f.at = Len(f.type.fields) + 1, f.before = "field"
  PROVE  Place(f) = EndPlace(f) /\ Seen(f) = EndSeen(f)
<1>1. Len(f.type.fields) \in Nat /\ HoldsTyped(f.type.fields)
  BY PiecesAre DEF Coded
<1>2. f.at - 1 = Len(f.type.fields)
  BY <1>1
<1>3. GapAt(f.type, f.at) = TailGap(f.type)
  BY DEF GapAt
<1>4. FieldsOf(f.type.fields) = ShownTo(f.type.fields, f.at - 1)
  BY <1>1, <1>2, ShowsAre
<1> QED
  BY <1>2, <1>3, <1>4 DEF Place, EndPlace, Seen, EndSeen

(* A call begins where it is called.                                       *)
LEMMA CallBegins ==
  ASSUME NEW t \in TypeSet, NEW b \in Nat, NEW v \in Values
  PROVE  LET e == ToGap(t, b, 1, v) IN
         /\ e \in Frames /\ e.type = t /\ e.base = b /\ e.at = 1 /\ e.before = "gap"
         /\ e.at \in 1..(Len(t.fields) + 1)
         /\ Place(e) = b /\ Seen(e) = v
         /\ CallOf(e) = Begun(t)
         /\ e.seen = v
<1> DEFINE e == ToGap(t, b, 1, v)
<1>1. /\ e \in Frames /\ e.type = t /\ e.base = b /\ e.at = 1 /\ e.before = "gap" /\ e.seen = v
  BY DEF ToGap, ToField, Frames
<1> HIDE DEF e
<1>2. Coded(t) /\ HoldsTyped(t.fields) /\ Len(t.fields) \in Nat
  BY TypeSetIs, PiecesAre DEF Coded
<1>3. Pos(t, 0) = 0 /\ Begin(t, 1) = 1 /\ ShownTo(t.fields, 0) = <<>>
  BY <1>2, PosIs, CodeIs, ShowsAre
<1>4. 1 - 1 = 0
  OBVIOUS
<1>5. Place(e) = b + Pos(t, 0) + 0
  BY <1>1, <1>4 DEF Place
<1>6. Place(e) = b
  BY <1>3, <1>5
<1>7. Seen(e) = v \o Moved(<<>>, b)
  BY <1>1, <1>3, <1>4 DEF Seen
<1>8. Moved(<<>>, b) = <<>>
  BY DEF Moved
<1>9. Seen(e) = v
  <2>1. v \in Seq(Seq(CellSet))
    BY DEF Values
  <2>2. v \o <<>> = v
    BY <2>1
  <2> QED
    BY <1>7, <1>8, <2>2
<1>10. CallOf(e) = Begun(t)
  BY <1>1, <1>3 DEF CallOf, Begun
<1>12. e.at \in 1..(Len(t.fields) + 1)
  BY <1>1, <1>2
<1> QED
  BY <1>1, <1>6, <1>9, <1>10, <1>12 DEF e

(* The field that f is at, and where the call stands behind it.            *)
FieldOf(f) == f.type.fields[f.at]
After(f) == ToGap(f.type, f.base, f.at + 1, f.seen)

(* The k-th call, f, may call t on the payload from p, and e is that call: *)
(* when it returns, f goes on behind its field.                            *)
CalleeOf(f, e, k, x, d, w, t, p) ==
  /\ k <= MaxDepth /\ t \in d
  /\ Stands(e, k + 1, x, d, w)
  /\ Place(e) = p /\ Seen(e) = Seen(f)
  /\ CallOf(e) = Begun(t)
  /\ EndPlace(e) = Place(After(f)) /\ EndSeen(e) = Seen(After(f))

(* The call of a nested struct: when it returns, its caller has the field. *)
LEMMA CallNested ==
  ASSUME NEW w \in Seq(CellSet), NEW x \in BOOLEAN, NEW k \in Nat, NEW d,
         NEW f, Stands(f, k, x, d, w), f.at \in 1..Len(f.type.fields), f.before = "field",
         FieldOf(f).kind = "nested"
  PROVE  \E e : CalleeOf(f, e, k, x, d, w, FieldOf(f).type, Place(f))
<1> DEFINE t == f.type
           T == t.fields
           i == f.at
           g == T[i]
           c == g.type
           p == Place(f)
           v == Seen(f)
           e == ToGap(c, p, 1, v)
           h == ToGap(t, f.base, i + 1, f.seen)
           o == OffsetOf(T, i)
<1>0. g.kind = "nested"
  BY DEF FieldOf
<1>1. f \in Frames /\ Readable(w, x, t, f.base)
      /\ (x = TRUE => k + Height(T) <= MaxDepth + 1 /\ Callees(T) \subseteq d)
  BY DEF Stands
<1>2. /\ Coded(t) /\ HeldAt(w, x, t, f.base, i) /\ g \in Fields /\ (x = TRUE => Exact(t))
      /\ HoldsTyped(T) /\ f.base \in Nat /\ LaidOut(T)
  BY <1>1, ReadableIs, HoldsTypedIsLaidOut
<1>3. x = TRUE /\ StartOf(t, f.base, i) = f.base + o /\ StartOf(t, f.base, i) \in Nat
      /\ Lies(w, c, StartOf(t, f.base, i))
  BY <1>0, <1>2 DEF HeldAt
<1>4. /\ p = StartOf(t, f.base, i) /\ Length(g) \in Int
      /\ Place(h) = p + Length(g)
      /\ Seen(f) \in Values
      /\ (g.pad = FALSE => Seen(h) = Seen(f) \o Moved(FieldValues(T, i), f.base))
  BY <1>1, <1>2, FieldDone
<1>5. /\ g \in NestedFields /\ Exact(c) /\ Straight(c) /\ c \in Callees(T)
      /\ Callees(c.fields) \subseteq Callees(T)
      /\ Height(c.fields) \in Nat /\ Height(c.fields) + 1 <= Height(T)
  BY <1>0, <1>2, <1>3, NestedIsExact
<1>6. g.pad = FALSE /\ c \in Types /\ c.shown = FieldsOf(c.fields) /\ Coded(c)
  BY <1>5, NestedFieldIs, NestedTypeIs
<1>7. Length(g) = Pos(c, Len(c.fields)) /\ TailGap(c) = 0
  BY <1>5, NestedLength
<1>8. c \in TypeSet /\ p \in Nat
  BY <1>3, <1>4, <1>6, SMTT(30) DEF TypeSet
<1>9. /\ e \in Frames /\ e.type = c /\ e.base = p /\ e.at \in 1..(Len(c.fields) + 1)
      /\ Place(e) = p /\ Seen(e) = v
      /\ CallOf(e) = Begun(c)
      /\ EndPlace(e) = p + Pos(c, Len(c.fields)) + TailGap(c)
      /\ EndSeen(e) = v \o Moved(FieldsOf(c.fields), p)
  <2>1. c \in TypeSet /\ p \in Nat /\ v \in Values
    BY <1>4, <1>8
  <2> HIDE DEF c, p, v
  <2>2. /\ e \in Frames /\ e.type = c /\ e.base = p /\ e.at \in 1..(Len(c.fields) + 1)
        /\ Place(e) = p /\ Seen(e) = v /\ CallOf(e) = Begun(c) /\ e.seen = v
    BY <2>1, CallBegins
  <2> HIDE DEF e
  <2> QED
    BY <2>2 DEF EndPlace, EndSeen
<1>10. Height(T) \in Nat
  BY <1>2, HeightIs DEF HoldsTyped
<1> HIDE DEF e, h
<1>11. EndPlace(e) = Place(h)
  <2>1. PICK q \in Int : q = Length(g)
    BY <1>4
  <2>2. EndPlace(e) = p + q + 0 /\ Place(h) = p + q
    BY <1>4, <1>7, <1>9, <2>1
  <2> HIDE DEF p
  <2> QED
    BY <1>8, <2>1, <2>2
<1>12. EndSeen(e) = Seen(h)
  <2>1. FieldValues(T, i) = Moved(c.shown, o)
    BY <1>0 DEF FieldValues
  <2>2. c.shown \in Values /\ o \in Nat
    <3>1. HoldsTyped(c.fields)
      BY <1>6 DEF Coded
    <3> QED
      BY <1>2, <1>6, <3>1, FieldsOfIs, OffsetsAre
  <2>3. Moved(Moved(c.shown, o), f.base) = Moved(c.shown, f.base + o)
    BY <1>2, <2>2, MovedTwice
  <2> QED
    BY <1>3, <1>4, <1>6, <1>9, <2>1, <2>3
<1>13. k <= MaxDepth /\ (k + 1) + Height(c.fields) <= MaxDepth + 1
  <2>1. PICK a \in Nat, b \in Nat : a = Height(T) /\ b = Height(c.fields)
    BY <1>5, <1>10
  <2>2. k + a <= MaxDepth + 1 /\ b + 1 <= a
    BY <1>1, <1>3, <1>5, <2>1
  <2>3. k <= MaxDepth /\ (k + 1) + b <= MaxDepth + 1
    BY <2>2, InterpreterAssumption
  <2> QED
    BY <2>1, <2>3
<1>14. Readable(w, x, c, p)
  BY <1>3, <1>4, <1>5 DEF Readable
<1>15. Stands(e, k + 1, x, d, w)
  BY <1>1, <1>3, <1>5, <1>9, <1>13, <1>14 DEF Stands
<1>16. c \in d
  BY <1>1, <1>3, <1>5
<1>17. FieldOf(f) = g /\ After(f) = h
  BY DEF FieldOf, After, h
<1> QED
  BY <1>9, <1>11, <1>12, <1>13, <1>15, <1>16, <1>17 DEF CalleeOf

(* The call of the variant that an inline enum holds.                      *)
LEMMA CallInline ==
  ASSUME NEW w \in Seq(CellSet), NEW x \in BOOLEAN, NEW k \in Nat, NEW d,
         NEW f, Stands(f, k, x, d, w), f.at \in 1..Len(f.type.fields), f.before = "field",
         FieldOf(f).kind = "inline"
  PROVE  /\ FieldOf(f) \in InlineFields /\ FieldOf(f).pick \in 1..FieldOf(f).listed
         /\ Place(f) \in Nat /\ Place(f) < Len(w)
         /\ w[Place(f) + 1][3] = {FieldOf(f).pick}
         /\ \E e : CalleeOf(f, e, k, x, d, w, Subroutine(FieldOf(f), FieldOf(f).pick),
                           Place(f) + UnionAlign(FieldOf(f).variants))
<1> DEFINE t == f.type
           T == t.fields
           i == f.at
           g == T[i]
           a == UnionAlign(g.variants)
           V == g.variants[g.pick]
           c == Subroutine(g, g.pick)
           s == Place(f)
           p == s + a
           v == Seen(f)
           e == ToGap(c, p, 1, v)
           h == ToGap(t, f.base, i + 1, f.seen)
           o == OffsetOf(T, i)
<1>0. g.kind = "inline"
  BY DEF FieldOf
<1>1. f \in Frames /\ Readable(w, x, t, f.base)
      /\ (x = TRUE => k + Height(T) <= MaxDepth + 1 /\ Callees(T) \subseteq d)
  BY DEF Stands
<1>2. /\ Coded(t) /\ HeldAt(w, x, t, f.base, i) /\ g \in Fields /\ (x = TRUE => Exact(t))
      /\ HoldsTyped(T) /\ f.base \in Nat /\ LaidOut(T)
  BY <1>1, ReadableIs, HoldsTypedIsLaidOut
<1>3. x = TRUE /\ StartOf(t, f.base, i) = f.base + o /\ StartOf(t, f.base, i) \in Nat
      /\ StartOf(t, f.base, i) < Len(w) /\ w[StartOf(t, f.base, i) + 1][3] = {g.pick}
      /\ Lies(w, c, StartOf(t, f.base, i) + a)
  BY <1>0, <1>2 DEF HeldAt
<1>4. /\ s = StartOf(t, f.base, i) /\ Length(g) \in Int
      /\ Place(h) = s + Length(g)
      /\ Seen(f) \in Values
      /\ (g.pad = FALSE => Seen(h) = Seen(f) \o Moved(FieldValues(T, i), f.base))
  BY <1>1, <1>2, FieldDone
<1>5. /\ g \in InlineFields /\ g.pick \in 1..g.listed
      /\ NaturallyAligned(V) /\ ~Has(V, "str")
      /\ Exact(c) /\ c \in Callees(T) /\ Callees(c.fields) = {} /\ Height(c.fields) = 0
      /\ 1 <= Height(T) /\ Height(T) \in Nat
  BY <1>0, <1>2, <1>3, InlineIsExact
<1>6. g.pad = FALSE /\ a \in Nat \ {0}
  BY <1>5, InlineFieldIs
<1>7. /\ Straight(c) /\ c.fields = V /\ V \in Seq(FlatFields)
      /\ Length(g) = a + Pos(c, Len(V)) + TailGap(c)
  BY <1>5, InlineLength
<1>8. c \in TypeSet
  <2>1. g.pick \in 1..Len(g.variants)
    BY <1>5, InlineFieldIs
  <2>2. IsSubroutine(c)
    BY <1>5, <2>1, SubroutineIs
  <2> QED
    BY <2>2, TypeSetIs
<1>9. s \in Nat /\ p \in Nat
  <2>1. s \in Nat
    BY <1>3, <1>4
  <2> HIDE DEF s, a
  <2> QED
    BY <1>6, <2>1
<1>10. Coded(c) /\ Len(V) \in 0..Len(V) /\ Pos(c, Len(V)) \in Int /\ TailGap(c) \in Nat
  <2>1. Coded(c)
    BY <1>7 DEF Straight
  <2> HIDE DEF c, V
  <2>7. V \in Seq(FlatFields)
    BY <1>7
  <2>2. Len(V) \in Nat
    BY <2>7
  <2>3. Len(V) + 1 \in 1..(Len(V) + 1)
    BY <2>2
  <2>4. GapAt(c, Len(V) + 1) \in Nat
    BY <1>7, <2>1, <2>3, LeadsAre
  <2>5. GapAt(c, Len(V) + 1) = TailGap(c)
    BY <1>7 DEF GapAt
  <2>6. Len(V) \in 0..Len(V)
    BY <2>2
  <2> QED
    BY <1>7, <2>1, <2>4, <2>5, <2>6, PosIs
<1>11. /\ e \in Frames /\ e.type = c /\ e.base = p /\ e.at \in 1..(Len(c.fields) + 1)
       /\ Place(e) = p /\ Seen(e) = v /\ CallOf(e) = Begun(c)
       /\ EndPlace(e) = p + Pos(c, Len(c.fields)) + TailGap(c)
       /\ EndSeen(e) = v \o Moved(FieldsOf(c.fields), p)
  <2>1. c \in TypeSet /\ p \in Nat /\ v \in Values
    BY <1>4, <1>8, <1>9
  <2> HIDE DEF c, p, v
  <2>2. /\ e \in Frames /\ e.type = c /\ e.base = p /\ e.at \in 1..(Len(c.fields) + 1)
        /\ Place(e) = p /\ Seen(e) = v /\ CallOf(e) = Begun(c) /\ e.seen = v
    BY <2>1, CallBegins
  <2> HIDE DEF e
  <2> QED
    BY <2>2 DEF EndPlace, EndSeen
<1> HIDE DEF e, h
<1>12. EndPlace(e) = Place(h)
  <2>1. PICK y \in Int, z \in Nat : y = Pos(c, Len(V)) /\ z = TailGap(c)
    BY <1>10
  <2>2. EndPlace(e) = s + a + y + z
    BY <1>7, <1>11, <2>1
  <2>3. Place(h) = s + (a + y + z)
    BY <1>4, <1>7, <2>1
  <2>4. PICK s1 \in Nat, a1 \in Nat : s1 = s /\ a1 = a
    BY <1>6, <1>9
  <2>5. EndPlace(e) = s1 + a1 + y + z /\ Place(h) = s1 + (a1 + y + z)
    BY <2>2, <2>3, <2>4
  <2> HIDE DEF s, a, c, V, g
  <2>6. s1 + a1 + y + z = s1 + (a1 + y + z)
    BY <2>1, <2>4
  <2> QED
    BY <2>5, <2>6
<1>13. EndSeen(e) = Seen(h)
  <2>1. FieldValues(T, i) = Moved(FlatFieldsOf(V), o + a)
    BY <1>0 DEF FieldValues
  <2>2. FlatFieldsOf(V) = FieldsOf(V) /\ FlatFieldsOf(V) \in Values
    BY <1>7, FlatFieldsShown, FlatFieldsOfIs
  <2>3. o \in Nat
    BY <1>2, OffsetsAre
  <2> DEFINE q == o + a
             u == FlatFieldsOf(V)
  <2>4. q \in Nat /\ f.base + q = p
    <3>1. s = f.base + o
      BY <1>3, <1>4
    <3> HIDE DEF s, a, o
    <3> QED
      BY <1>2, <1>6, <2>3, <3>1
  <2> HIDE DEF q, u
  <2>5. Moved(Moved(u, q), f.base) = Moved(u, f.base + q)
    BY <1>2, <2>2, <2>4, MovedTwice DEF u
  <2>6. Seen(h) = Seen(f) \o Moved(Moved(u, q), f.base)
    BY <1>4, <1>6, <2>1 DEF q, u
  <2>7. EndSeen(e) = Seen(f) \o Moved(u, p)
    BY <1>7, <1>11, <2>2 DEF u
  <2> QED
    BY <2>4, <2>5, <2>6, <2>7
<1>14. k <= MaxDepth /\ (k + 1) + Height(c.fields) <= MaxDepth + 1
  <2>1. PICK y \in Nat : y = Height(T)
    BY <1>5
  <2>2. k + y <= MaxDepth + 1 /\ 1 <= y
    BY <1>1, <1>3, <1>5, <2>1
  <2>3. k <= MaxDepth /\ (k + 1) + 0 <= MaxDepth + 1
    BY <2>2, InterpreterAssumption
  <2> QED
    BY <1>5, <2>3
<1>15. Readable(w, x, c, p)
  <2>1. Lies(w, c, p)
    BY <1>3, <1>4
  <2> QED
    BY <1>3, <1>5, <1>7, <2>1 DEF Readable
<1>16. Stands(e, k + 1, x, d, w)
  <2>1. Callees(c.fields) \subseteq d
    BY <1>5
  <2> QED
    BY <1>11, <1>14, <1>15, <2>1 DEF Stands
<1>17. c \in d
  BY <1>1, <1>3, <1>5
<1>18. s \in Nat /\ s < Len(w) /\ w[s + 1][3] = {g.pick}
  BY <1>3, <1>4
<1>19. FieldOf(f) = g /\ After(f) = h
  BY DEF FieldOf, After, h
<1>20. CalleeOf(f, e, k, x, d, w, c, p)
  BY <1>11, <1>12, <1>13, <1>14, <1>16, <1>17, <1>19 DEF CalleeOf
<1> QED
  BY <1>5, <1>18, <1>19, <1>20

-----------------------------------------------------------------------------
(* The calls g of event e that the stack stk stands for: what a call       *)
(* leaves when it returns is what its caller counts on.  p is where the    *)
(* innermost is in the payload w and vals, if x, what was decoded so far.  *)
Trace(g, e, x, d, w, stk, p, vals) ==
  /\ g \in Seq(Frames) /\ Len(g) > 0 /\ Len(stk) = Len(g)
  /\ \A k \in 1..Len(g) : Stands(g[k], k, x, d, w) /\ stk[k] = CallOf(g[k])
  /\ \A k \in 2..Len(g) :
       /\ EndPlace(g[k]) = Place(g[k - 1])
       /\ x = TRUE => EndSeen(g[k]) = Seen(g[k - 1])
  /\ EndPlace(g[1]) = Pos(e, Len(e.fields))
  /\ x = TRUE => EndSeen(g[1]) = FieldsOf(e.fields)
  /\ p = Place(g[Len(g)])
  /\ x = TRUE => vals = Seen(g[Len(g)])

Traced(e, x, d, w, stk, p, vals) == \E g : Trace(g, e, x, d, w, stk, p, vals)

(* The innermost call is at h; it goes on to h.                            *)
TracedAt(h, e, x, d, w, stk, p, vals) ==
  \E g : Trace(g, e, x, d, w, stk, p, vals) /\ g[Len(g)] = h
MovesTo(g, h, x, d, w, stk, stk2, p2, vals2) ==
  /\ Stands(h, Len(g), x, d, w)
  /\ EndPlace(h) = EndPlace(g[Len(g)]) /\ EndSeen(h) = EndSeen(g[Len(g)])
  /\ Len(stk2) = Len(g) /\ stk2[Len(g)] = CallOf(h)
  /\ \A k \in 1..(Len(g) - 1) : stk2[k] = stk[k]
  /\ p2 = Place(h)
  /\ x = TRUE => vals2 = Seen(h)

(* The innermost call goes on.                                             *)
LEMMA TraceMoves ==
  ASSUME NEW x \in BOOLEAN, NEW e, NEW d, NEW w, NEW stk, NEW p, NEW vals,
         NEW g, Trace(g, e, x, d, w, stk, p, vals),
         NEW h, NEW stk2, NEW p2, NEW vals2, MovesTo(g, h, x, d, w, stk, stk2, p2, vals2)
  PROVE  TracedAt(h, e, x, d, w, stk2, p2, vals2)
<1>0. /\ Stands(h, Len(g), x, d, w)
      /\ EndPlace(h) = EndPlace(g[Len(g)]) /\ EndSeen(h) = EndSeen(g[Len(g)])
      /\ Len(stk2) = Len(g) /\ stk2[Len(g)] = CallOf(h)
      /\ \A k \in 1..(Len(g) - 1) : stk2[k] = stk[k]
      /\ p2 = Place(h) /\ (x = TRUE => vals2 = Seen(h))
  BY DEF MovesTo
<1> DEFINE n == Len(g)
           G(k) == IF k = n THEN h ELSE g[k]
           g2 == [k \in 1..n |-> G(k)]
<1>1. g \in Seq(Frames) /\ n \in Nat /\ n > 0
  BY DEF Trace
<1>2. h \in Frames
  BY <1>0 DEF Stands
<1>3. \A k \in 1..n : G(k) \in Frames
  BY <1>1, <1>2
<1>4. G(n) = h /\ \A k \in 1..(n - 1) : G(k) = g[k]
  BY <1>1
<1> HIDE DEF G
<1>5. g2 \in Seq(Frames) /\ Len(g2) = n /\ \A k \in 1..n : g2[k] = G(k)
  BY <1>1, <1>3
<1> HIDE DEF g2, n
<1>6. n \in 1..n /\ g2[n] = h
  BY <1>1, <1>4, <1>5
<1>7. \A k \in 1..(n - 1) : k \in 1..n /\ g2[k] = g[k] /\ stk2[k] = stk[k]
  BY <1>0, <1>1, <1>4, <1>5 DEF n
<1>8. /\ \A k \in 1..n : Stands(g[k], k, x, d, w) /\ stk[k] = CallOf(g[k])
      /\ \A k \in 2..n : /\ EndPlace(g[k]) = Place(g[k - 1])
                         /\ x = TRUE => EndSeen(g[k]) = Seen(g[k - 1])
      /\ EndPlace(g[1]) = Pos(e, Len(e.fields))
      /\ x = TRUE => EndSeen(g[1]) = FieldsOf(e.fields)
  BY DEF Trace, n
<1>9. ASSUME NEW k \in 1..n
      PROVE  /\ Stands(g2[k], k, x, d, w) /\ stk2[k] = CallOf(g2[k])
             /\ EndPlace(g2[k]) = EndPlace(g[k]) /\ EndSeen(g2[k]) = EndSeen(g[k])
  <2>1. CASE k = n
    BY <1>0, <1>6, <2>1 DEF n
  <2>2. CASE k # n
    <3>1. k \in 1..(n - 1)
      BY <1>1, <2>2
    <3> QED
      BY <1>7, <1>8, <3>1
  <2> QED
    BY <2>1, <2>2
<1>10. ASSUME NEW k \in 2..n
       PROVE  /\ EndPlace(g2[k]) = Place(g2[k - 1])
              /\ x = TRUE => EndSeen(g2[k]) = Seen(g2[k - 1])
  <2>1. k - 1 \in 1..(n - 1) /\ k \in 1..n
    BY <1>1
  <2> QED
    BY <1>7, <1>8, <1>9, <2>1
<1>11. 1 \in 1..n
  BY <1>1
<1>12. EndPlace(g2[1]) = Pos(e, Len(e.fields)) /\ (x = TRUE => EndSeen(g2[1]) = FieldsOf(e.fields))
  BY <1>8, <1>9, <1>11
<1>13. Len(stk2) = n
  BY <1>0 DEF n
<1>14. p2 = Place(g2[n]) /\ (x = TRUE => vals2 = Seen(g2[n]))
  BY <1>0, <1>6
<1>15. Trace(g2, e, x, d, w, stk2, p2, vals2)
  BY <1>1, <1>5, <1>9, <1>10, <1>12, <1>13, <1>14 DEF Trace
<1>16. g2[Len(g2)] = h
  BY <1>5, <1>6
<1> QED
  BY <1>15, <1>16 DEF TracedAt

(* It goes on to h and calls c.                                            *)
CallsTo(g, h, c, x, d, w, stk, stk2, p2, vals2) ==
  /\ Stands(h, Len(g), x, d, w)
  /\ EndPlace(h) = EndPlace(g[Len(g)]) /\ EndSeen(h) = EndSeen(g[Len(g)])
  /\ Stands(c, Len(g) + 1, x, d, w)
  /\ EndPlace(c) = Place(h) /\ EndSeen(c) = Seen(h)
  /\ Len(stk2) = Len(g) + 1 /\ stk2[Len(g)] = CallOf(h) /\ stk2[Len(g) + 1] = CallOf(c)
  /\ \A k \in 1..(Len(g) - 1) : stk2[k] = stk[k]
  /\ p2 = Place(c)
  /\ x = TRUE => vals2 = Seen(c)

(* The new call is the innermost.                                          *)
LEMMA TraceCalls ==
  ASSUME NEW x \in BOOLEAN, NEW e, NEW d, NEW w, NEW stk, NEW p, NEW vals,
         NEW g, Trace(g, e, x, d, w, stk, p, vals),
         NEW h, NEW c, NEW stk2, NEW p2, NEW vals2,
         CallsTo(g, h, c, x, d, w, stk, stk2, p2, vals2)
  PROVE  Traced(e, x, d, w, stk2, p2, vals2)
<1>0. /\ Stands(h, Len(g), x, d, w)
      /\ EndPlace(h) = EndPlace(g[Len(g)]) /\ EndSeen(h) = EndSeen(g[Len(g)])
      /\ Stands(c, Len(g) + 1, x, d, w)
      /\ EndPlace(c) = Place(h) /\ EndSeen(c) = Seen(h)
      /\ Len(stk2) = Len(g) + 1 /\ stk2[Len(g)] = CallOf(h) /\ stk2[Len(g) + 1] = CallOf(c)
      /\ \A k \in 1..(Len(g) - 1) : stk2[k] = stk[k]
      /\ p2 = Place(c) /\ (x = TRUE => vals2 = Seen(c))
  BY DEF CallsTo
<1> DEFINE n == Len(g)
           m == n + 1
           G(k) == IF k = m THEN c ELSE IF k = n THEN h ELSE g[k]
           g2 == [k \in 1..m |-> G(k)]
<1>1. g \in Seq(Frames) /\ n \in Nat /\ n > 0 /\ m \in Nat
  BY DEF Trace
<1>2. h \in Frames /\ c \in Frames
  BY <1>0 DEF Stands
<1>3. \A k \in 1..m : G(k) \in Frames
  BY <1>1, <1>2
<1>4. G(m) = c /\ G(n) = h /\ \A k \in 1..(n - 1) : G(k) = g[k]
  BY <1>1
<1> HIDE DEF G, m
<1>5. g2 \in Seq(Frames) /\ Len(g2) = m /\ \A k \in 1..m : g2[k] = G(k)
  BY <1>1, <1>3
<1> HIDE DEF g2, n
<1>16. m = n + 1
  BY DEF m
<1>6. n \in 1..m /\ m \in 1..m /\ g2[n] = h /\ g2[m] = c
  BY <1>1, <1>4, <1>5, <1>16
<1>7. \A k \in 1..(n - 1) : k \in 1..n /\ g2[k] = g[k] /\ stk2[k] = stk[k]
  <2>1. \A k \in 1..(n - 1) : k \in 1..n /\ k \in 1..m
    BY <1>1, <1>16
  <2> QED
    BY <1>0, <1>4, <1>5, <2>1 DEF n
<1>8. /\ \A k \in 1..n : Stands(g[k], k, x, d, w) /\ stk[k] = CallOf(g[k])
      /\ \A k \in 2..n : /\ EndPlace(g[k]) = Place(g[k - 1])
                         /\ x = TRUE => EndSeen(g[k]) = Seen(g[k - 1])
      /\ EndPlace(g[1]) = Pos(e, Len(e.fields))
      /\ x = TRUE => EndSeen(g[1]) = FieldsOf(e.fields)
  BY DEF Trace, n
<1>9. ASSUME NEW k \in 1..n
      PROVE  /\ Stands(g2[k], k, x, d, w) /\ stk2[k] = CallOf(g2[k])
             /\ EndPlace(g2[k]) = EndPlace(g[k]) /\ EndSeen(g2[k]) = EndSeen(g[k])
  <2>1. CASE k = n
    BY <1>0, <1>6, <2>1 DEF n
  <2>2. CASE k # n
    <3>1. k \in 1..(n - 1)
      BY <1>1, <2>2
    <3> QED
      BY <1>7, <1>8, <3>1
  <2> QED
    BY <2>1, <2>2
<1>17. Stands(g2[m], m, x, d, w) /\ stk2[m] = CallOf(g2[m])
  BY <1>0, <1>6 DEF m, n
<1>18. \A k \in 1..m : Stands(g2[k], k, x, d, w) /\ stk2[k] = CallOf(g2[k])
  <2>1. \A k \in 1..m : k = m \/ k \in 1..n
    BY <1>1, <1>16
  <2> QED
    BY <1>9, <1>17, <2>1
<1>10. ASSUME NEW k \in 2..m
       PROVE  /\ EndPlace(g2[k]) = Place(g2[k - 1])
              /\ x = TRUE => EndSeen(g2[k]) = Seen(g2[k - 1])
  <2>1. CASE k = m
    <3>1. k - 1 = n
      BY <1>1, <1>16, <2>1
    <3> QED
      BY <1>0, <1>6, <2>1, <3>1
  <2>2. CASE k # m
    <3>1. k - 1 \in 1..(n - 1) /\ k \in 1..n /\ k \in 2..n
      BY <1>1, <1>16, <2>2
    <3> QED
      BY <1>7, <1>8, <1>9, <3>1
  <2> QED
    BY <2>1, <2>2
<1>11. 1 \in 1..n
  BY <1>1
<1>12. EndPlace(g2[1]) = Pos(e, Len(e.fields)) /\ (x = TRUE => EndSeen(g2[1]) = FieldsOf(e.fields))
  BY <1>8, <1>9, <1>11
<1>13. Len(stk2) = m /\ m > 0
  BY <1>0, <1>1, <1>16 DEF m, n
<1>14. p2 = Place(g2[m]) /\ (x = TRUE => vals2 = Seen(g2[m]))
  BY <1>0, <1>6
<1>15. Trace(g2, e, x, d, w, stk2, p2, vals2)
  BY <1>1, <1>5, <1>18, <1>10, <1>12, <1>13, <1>14 DEF Trace
<1> QED
  BY <1>15 DEF Traced

(* The outermost call returns: the event is decoded.                       *)
AtEnd(f) == Place(f) = EndPlace(f) /\ Seen(f) = EndSeen(f)

(* Then it is behind the payload, with all of its values.                  *)
LEMMA TraceEnds ==
  ASSUME NEW x \in BOOLEAN, NEW e, NEW d, NEW w, NEW stk, NEW p, NEW vals,
         NEW g, Trace(g, e, x, d, w, stk, p, vals), AtEnd(g[Len(g)]), Len(g) = 1
  PROVE  /\ p = Pos(e, Len(e.fields))
         /\ x = TRUE => vals = FieldsOf(e.fields)
<1>1. g[Len(g)] = g[1]
  OBVIOUS
<1> QED
  BY <1>1 DEF Trace, AtEnd

(* Another call returns to its caller.                                     *)
ReturnsTo(g, stk, stk2) ==
  /\ AtEnd(g[Len(g)]) /\ Len(g) > 1 /\ Len(stk2) = Len(g) - 1
  /\ \A k \in 1..(Len(g) - 1) : stk2[k] = stk[k]

(* Its caller stands behind the field, as it has counted on.               *)
LEMMA TraceReturns ==
  ASSUME NEW x \in BOOLEAN, NEW e, NEW d, NEW w, NEW stk, NEW p, NEW vals,
         NEW g, Trace(g, e, x, d, w, stk, p, vals), NEW stk2, ReturnsTo(g, stk, stk2)
  PROVE  Traced(e, x, d, w, stk2, p, vals)
<1> DEFINE n == Len(g)
           m == n - 1
           g2 == [k \in 1..m |-> g[k]]
<1>1. /\ g \in Seq(Frames) /\ n \in Nat /\ n > 1 /\ Len(stk2) = n - 1
      /\ \A k \in 1..(n - 1) : stk2[k] = stk[k]
      /\ Place(g[n]) = EndPlace(g[n]) /\ Seen(g[n]) = EndSeen(g[n])
  BY DEF Trace, ReturnsTo, AtEnd
<1>2. m \in Nat /\ m > 0 /\ \A k \in 1..m : k \in 1..n /\ g[k] \in Frames
  BY <1>1
<1> HIDE DEF m
<1>3. g2 \in Seq(Frames) /\ Len(g2) = m /\ \A k \in 1..m : g2[k] = g[k]
  BY <1>2
<1> HIDE DEF g2
<1>4. /\ \A k \in 1..n : Stands(g[k], k, x, d, w) /\ stk[k] = CallOf(g[k])
      /\ \A k \in 2..n : /\ EndPlace(g[k]) = Place(g[k - 1])
                         /\ x = TRUE => EndSeen(g[k]) = Seen(g[k - 1])
      /\ EndPlace(g[1]) = Pos(e, Len(e.fields))
      /\ x = TRUE => EndSeen(g[1]) = FieldsOf(e.fields)
      /\ p = Place(g[n]) /\ (x = TRUE => vals = Seen(g[n]))
  BY DEF Trace
<1> HIDE DEF n
<1>5. m = n - 1 /\ n \in 2..n /\ m \in 1..m /\ 1 \in 1..m
  BY <1>1, <1>2 DEF m
<1>6. EndPlace(g[n]) = Place(g[m]) /\ (x = TRUE => EndSeen(g[n]) = Seen(g[m]))
  BY <1>4, <1>5
<1>7. p = Place(g2[m]) /\ (x = TRUE => vals = Seen(g2[m]))
  BY <1>1, <1>3, <1>4, <1>5, <1>6
<1>8. \A k \in 1..m : Stands(g2[k], k, x, d, w) /\ stk2[k] = CallOf(g2[k])
  BY <1>1, <1>2, <1>3, <1>4, <1>5
<1>9. ASSUME NEW k \in 2..m
      PROVE  /\ EndPlace(g2[k]) = Place(g2[k - 1])
             /\ x = TRUE => EndSeen(g2[k]) = Seen(g2[k - 1])
  <2>1. k \in 2..n /\ k \in 1..m /\ k - 1 \in 1..m
    BY <1>1, <1>2, <1>5
  <2> QED
    BY <1>3, <1>4, <2>1
<1>10. EndPlace(g2[1]) = Pos(e, Len(e.fields)) /\ (x = TRUE => EndSeen(g2[1]) = FieldsOf(e.fields))
  BY <1>3, <1>4, <1>5
<1>11. Len(stk2) = m
  BY <1>1, <1>5
<1>12. Trace(g2, e, x, d, w, stk2, p, vals)
  BY <1>2, <1>3, <1>7, <1>8, <1>9, <1>10, <1>11 DEF Trace
<1> QED
  BY <1>12 DEF Traced

-----------------------------------------------------------------------------
(* The steps of run_bc.                                                    *)

(* Which step is taken is the innermost call's next instruction.           *)
LEMMA ActionIs ==
  ASSUME outcome = "running", Next, NEW o, Op = o
  PROVE  /\ o \div 8 = 10 => Skip
         /\ o \div 8 = 9 /\ o % 8 = 1 => FixedText
         /\ o \div 8 = 9 /\ o % 8 = 3 => VarText
         /\ o \div 8 = 15 => Call
         /\ o \div 8 = 14 => Dispatch
         /\ o \div 8 = 0 => Return
         /\ o \div 8 = 16 => StringRef
         /\ o \div 8 = 17 => Pair
         /\ \A ty \in ScalarTypes \ {"ZfmtStr", "ZfmtU64"} : o \div 8 = Item[ty] => ReadItems(ty)
<1> DEFINE i == o \div 8
           S == ScalarTypes \ {"ZfmtStr", "ZfmtU64"}
<1>1. /\ Skip => i = 10
      /\ StringRef => i = 16
      /\ Pair => i = 17
      /\ FixedText => i = 9 /\ o % 8 = 1
      /\ VarText => i = 9 /\ o % 8 = 3
      /\ Call => i = 15
      /\ Dispatch => i = 14
      /\ Return => i = 0
  BY ItemsAre DEF Skip, StringRef, Pair, FixedText, VarText, Call, Dispatch, Return, At, Operand
<1>2. \A ty \in S : ReadItems(ty) => i = Item[ty]
  BY DEF ReadItems, At
<1>3. ~Send /\ ~Panic /\ ~Stop
  BY DEF Send, Panic, Stop, Finished
<1>4. /\ \A ty \in S : Item[ty] \in {1, 2, 3, 4, 5, 6, 7, 8, 11, 12, 13}
      /\ \A a, b \in S : Item[a] = Item[b] => a = b
  BY ItemIs
<1>5. \/ Skip \/ StringRef \/ Pair \/ FixedText \/ VarText \/ Call \/ Dispatch \/ Return
      \/ \E ty \in S : ReadItems(ty)
  BY <1>3 DEF Next
<1> HIDE DEF i, S
<1>6. CASE \E ty \in S : ReadItems(ty)
  <2>1. PICK ty \in S : ReadItems(ty)
    BY <1>6
  <2>2. i = Item[ty] /\ Item[ty] \in {1, 2, 3, 4, 5, 6, 7, 8, 11, 12, 13}
    BY <1>2, <1>4, <2>1
  <2>3. i \notin {0, 9, 10, 14, 15, 16, 17}
    BY <2>2
  <2>4. \A b \in S : i = Item[b] => ReadItems(b)
    BY <1>4, <2>1, <2>2
  <2> QED
    BY <2>3, <2>4 DEF i, S
<1>7. CASE \/ Skip \/ StringRef \/ Pair \/ FixedText \/ VarText \/ Call \/ Dispatch \/ Return
  <2>1. /\ i = 10 => Skip
        /\ i = 9 /\ o % 8 = 1 => FixedText
        /\ i = 9 /\ o % 8 = 3 => VarText
        /\ i = 15 => Call
        /\ i = 14 => Dispatch
        /\ i = 0 => Return
        /\ i = 16 => StringRef
        /\ i = 17 => Pair
    BY <1>1, <1>7
  <2>2. i \in {0, 9, 10, 14, 15, 16, 17}
    BY <1>1, <1>7
  <2>3. \A b \in S : i # Item[b]
    BY <1>4, <2>2
  <2> QED
    BY <2>1, <2>3 DEF i, S
<1> QED
  BY <1>5, <1>6, <1>7

(* The innermost call.                                                     *)
LEMMA TopFrame ==
  ASSUME TypeInv, NEW x \in BOOLEAN, NEW g, Trace(g, event, x, db, wire, stack, pos, values),
         NEW f, f = g[Len(g)]
  PROVE  /\ Len(g) \in Nat /\ Len(g) > 0 /\ Len(stack) = Len(g)
         /\ Stands(f, Len(g), x, db, wire) /\ f \in Frames /\ f.type \in TypeSet
         /\ f.at \in 1..(Len(f.type.fields) + 1)
         /\ Coded(f.type) /\ Len(f.type.fields) \in Nat
         /\ wire \in Seq(CellSet)
         /\ pos = Place(f) /\ pos \in Nat /\ (x = TRUE => values = Seen(f))
         /\ Last(stack) = [code |-> CodeOf(f.type), pc |-> CallOf(f).pc]
         /\ CallOf(f).pc \in Nat
         /\ Top.code = CodeOf(f.type) /\ Top.pc = CallOf(f).pc
         /\ Op = CodeOf(f.type)[CallOf(f).pc] /\ Count = CodeOf(f.type)[CallOf(f).pc + 1]
<1> DEFINE n == Len(g)
           t == f.type
           q == CallOf(f).pc
<1>1. /\ g \in Seq(Frames) /\ n > 0 /\ Len(stack) = n
      /\ \A k \in 1..n : Stands(g[k], k, x, db, wire) /\ stack[k] = CallOf(g[k])
      /\ pos = Place(g[n]) /\ (x = TRUE => values = Seen(g[n]))
  BY DEF Trace
<1>2. n \in Nat /\ n \in 1..n
  BY <1>1
<1>3. Stands(f, n, x, db, wire) /\ stack[n] = CallOf(f) /\ pos = Place(f)
      /\ (x = TRUE => values = Seen(f))
  BY <1>1, <1>2
<1>4. f \in Frames /\ t \in TypeSet /\ f.at \in 1..(Len(t.fields) + 1)
  BY <1>3 DEF Stands, Frames
<1>5. Coded(t) /\ wire \in Seq(CellSet) /\ pos \in Nat
  BY <1>4, TypeSetIs DEF TypeInv
<1>6. Len(t.fields) \in Nat
  BY <1>5, PiecesAre
<1>7. Last(stack) = stack[n]
  BY <1>1 DEF Last
<1>8. CallOf(f) = [code |-> CodeOf(t), pc |-> q]
  BY DEF CallOf
<1>9. Begin(t, f.at) \in Nat /\ Inside(t, f.at) \in Nat
  BY <1>4, <1>5, InsideIs
<1>10. q \in Nat
  BY <1>9 DEF CallOf
<1>11. Top.code = CodeOf(t) /\ Top.pc = q
  BY <1>3, <1>7, <1>8 DEF Top
<1> QED
  BY <1>1, <1>2, <1>3, <1>4, <1>5, <1>6, <1>7, <1>8, <1>10, <1>11 DEF Op, Count

(* Standing at h, the same call is m elements on.                          *)
Ahead(f, h, m) ==
  /\ h \in Frames /\ h.type = f.type /\ h.base = f.base /\ h.seen = f.seen
  /\ h.at \in 1..(Len(f.type.fields) + 1)
  /\ m \in Int /\ CallOf(h).pc = CallOf(f).pc + m /\ CallOf(h).pc \in Points(f.type)
MayStandAt(g, f, h, x, m) ==
  /\ Stands(h, Len(g), x, db, wire)
  /\ EndPlace(h) = EndPlace(f) /\ EndSeen(h) = EndSeen(f)
  /\ Goto(m) \in Seq(Calls) /\ Len(Goto(m)) = Len(g)
  /\ Goto(m)[Len(g)] = CallOf(h)
  /\ \A k \in 1..(Len(g) - 1) : Goto(m)[k] = stack[k]

(* The call may stand there.                                               *)
LEMMA Advances ==
  ASSUME TypeInv, NEW x \in BOOLEAN, NEW g, Trace(g, event, x, db, wire, stack, pos, values),
         NEW f, f = g[Len(g)], NEW h, NEW m, Ahead(f, h, m)
  PROVE  MayStandAt(g, f, h, x, m)
<1> DEFINE n == Len(g)
           q == CallOf(f).pc
<1>0. /\ h \in Frames /\ h.type = f.type /\ h.base = f.base /\ h.seen = f.seen
      /\ h.at \in 1..(Len(f.type.fields) + 1)
      /\ m \in Int /\ CallOf(h).pc = q + m /\ CallOf(h).pc \in Points(f.type)
  BY DEF Ahead
<1>1. /\ n \in Nat /\ n > 0 /\ Len(stack) = n
      /\ Stands(f, n, x, db, wire) /\ f.type \in TypeSet
      /\ Last(stack) = [code |-> CodeOf(f.type), pc |-> q]
      /\ q \in Nat
  BY TopFrame
<1>2. Stands(h, n, x, db, wire)
  BY <1>0, <1>1 DEF Stands
<1>3. EndPlace(h) = EndPlace(f) /\ EndSeen(h) = EndSeen(f)
  BY <1>0 DEF EndPlace, EndSeen
<1>4. CallOf(h) = [code |-> CodeOf(f.type), pc |-> q + m]
  <2>1. CallOf(h) = [code |-> CodeOf(f.type), pc |-> CallOf(h).pc]
    BY <1>0 DEF CallOf
  <2> QED
    BY <1>0, <2>1
<1>5. CallOf(h) \in Calls
  BY <1>0, <1>1, <1>4 DEF Calls
<1>6. stack \in Seq(Calls)
  BY DEF TypeInv
<1> HIDE DEF q, n
<1>7. /\ \A i \in 1..Len(stack) :
           Goto(m)[i] = IF i = Len(stack) THEN [code |-> CodeOf(f.type), pc |-> q + m] ELSE stack[i]
      /\ [code |-> CodeOf(f.type), pc |-> q + m] \in Calls =>
           Goto(m) \in Seq(Calls) /\ Len(Goto(m)) = Len(stack)
  <2>1. Len(stack) > 0 /\ q \in Int
    BY <1>1
  <2> QED
    BY <1>0, <1>1, <1>6, <2>1, GotoIs
<1>8. Goto(m) \in Seq(Calls) /\ Len(Goto(m)) = n
  BY <1>1, <1>4, <1>5, <1>7
<1>9. Goto(m)[n] = CallOf(h) /\ \A k \in 1..(n - 1) : Goto(m)[k] = stack[k]
  BY <1>1, <1>4, <1>7
<1> QED
  BY <1>2, <1>3, <1>8, <1>9 DEF n, MayStandAt

(* run_bc goes on, and stands at some frames.                              *)
GoesOn(x) ==
  /\ outcome' = "running" /\ event' = event /\ db' = db /\ wire' = wire
  /\ Traced(event, x, db, wire, stack', pos', values')

(* In front of a gap it is skipped, or there is none.                      *)
LEMMA GapIsPassed ==
  ASSUME TypeInv, outcome = "running", Next,
         NEW x \in BOOLEAN, NEW g, Trace(g, event, x, db, wire, stack, pos, values),
         g[Len(g)].before = "gap"
  PROVE  \/ \E g2 : Trace(g2, event, x, db, wire, stack, pos, values)
                      /\ g2[Len(g2)].before = "field"
         \/ GoesOn(x)
<1> DEFINE n == Len(g)
           f == g[n]
           t == f.type
           h == ToField(f.type, f.base, f.at, f.seen)
<1>1. /\ n \in Nat /\ n > 0 /\ Len(stack) = n
      /\ Stands(f, n, x, db, wire) /\ f \in Frames /\ f.at \in 1..(Len(t.fields) + 1)
      /\ Coded(t)
      /\ pos = Place(f) /\ pos \in Nat /\ (x = TRUE => values = Seen(f))
      /\ CallOf(f).pc \in Nat
      /\ Op = CodeOf(t)[CallOf(f).pc] /\ Count = CodeOf(t)[CallOf(f).pc + 1]
  BY TopFrame
<1>2. f.before = "gap"
  OBVIOUS
<1> HIDE DEF f
<1>3. /\ h \in Frames
      /\ h.type = t /\ h.base = f.base /\ h.at = f.at /\ h.before = "field"
      /\ h.seen = f.seen
      /\ Place(h) = Place(f) + GapAt(t, f.at) /\ Seen(h) = Seen(f)
  BY <1>1, <1>2, GapDone
<1> HIDE DEF h
<1>4. CallOf(f).pc = Begin(t, f.at) /\ CallOf(h).pc = Inside(t, f.at)
  BY <1>2, <1>3 DEF CallOf
<1>5. /\ Begin(t, f.at) \in Nat \ {0} /\ Inside(t, f.at) \in Nat /\ Inside(t, f.at) \in Points(t)
      /\ \/ /\ Leads(t, f.at) = <<>> /\ GapAt(t, f.at) = 0
            /\ Inside(t, f.at) = Begin(t, f.at)
         \/ /\ Inside(t, f.at) = Begin(t, f.at) + 2
            /\ CodeOf(t)[Begin(t, f.at)] = 81
            /\ CodeOf(t)[Begin(t, f.at) + 1] = GapAt(t, f.at)
  BY <1>1, InsideIs, SMTT(30)
<1>6. ASSUME NEW m \in Int, CallOf(h).pc = CallOf(f).pc + m
      PROVE  /\ Stands(h, n, x, db, wire)
             /\ EndPlace(h) = EndPlace(f) /\ EndSeen(h) = EndSeen(f)
             /\ Goto(m) \in Seq(Calls) /\ Len(Goto(m)) = n
             /\ Goto(m)[n] = CallOf(h)
             /\ \A k \in 1..(n - 1) : Goto(m)[k] = stack[k]
  <2>1. CallOf(h).pc \in Points(t) /\ h.at \in 1..(Len(t.fields) + 1)
    BY <1>1, <1>3, <1>4, <1>5
  <2>2. f = g[Len(g)]
    BY DEF f
  <2> QED
    <3>1. Ahead(f, h, m)
      BY <1>3, <1>6, <2>1 DEF Ahead
    <3>2. MayStandAt(g, f, h, x, m)
      BY <2>2, <3>1, Advances
    <3> QED
      BY <3>2 DEF MayStandAt
<1>7. CASE Inside(t, f.at) = Begin(t, f.at) /\ GapAt(t, f.at) = 0
  <2>1. Place(h) = pos /\ (x = TRUE => values = Seen(h))
    BY <1>1, <1>3, <1>7
  <2>2. Stands(h, n, x, db, wire) /\ EndPlace(h) = EndPlace(f) /\ EndSeen(h) = EndSeen(f)
    <3>1. CallOf(h).pc = CallOf(f).pc + 0
      BY <1>4, <1>5, <1>7
    <3> QED
      BY <1>6, <3>1
  <2>3. stack[n] = CallOf(h)
    <3>1. CallOf(h) = CallOf(f)
      BY <1>3, <1>4, <1>7 DEF CallOf
    <3>2. stack[n] = CallOf(f)
      BY <1>1 DEF Trace, f
    <3> QED
      BY <3>1, <3>2
  <2>4. \E g2 : Trace(g2, event, x, db, wire, stack, pos, values) /\ g2[Len(g2)] = h
    <3>1. /\ Stands(h, Len(g), x, db, wire)
          /\ EndPlace(h) = EndPlace(g[Len(g)]) /\ EndSeen(h) = EndSeen(g[Len(g)])
          /\ Len(stack) = Len(g) /\ stack[Len(g)] = CallOf(h)
      BY <1>1, <2>2, <2>3 DEF f
    <3>2. pos = Place(h) /\ (x = TRUE => values = Seen(h))
      BY <2>1
    <3>3. MovesTo(g, h, x, db, wire, stack, stack, pos, values)
      BY <3>1, <3>2 DEF MovesTo
    <3>4. TracedAt(h, event, x, db, wire, stack, pos, values)
      BY <3>3, TraceMoves
    <3> QED
      BY <3>4 DEF TracedAt
  <2> QED
    BY <1>3, <2>4
<1>8. CASE /\ Inside(t, f.at) = Begin(t, f.at) + 2
           /\ CodeOf(t)[Begin(t, f.at)] = 81
           /\ CodeOf(t)[Begin(t, f.at) + 1] = GapAt(t, f.at)
  <2>1. Op = 81 /\ Count = GapAt(t, f.at)
    BY <1>1, <1>4, <1>8
  <2>2. Skip
    BY <2>1, ActionIs
  <2>3. /\ pos' = Place(h) /\ stack' = Goto(2)
        /\ outcome' = "running" /\ event' = event /\ db' = db /\ wire' = wire
        /\ values' = values
    BY <1>1, <1>3, <2>1, <2>2 DEF Skip, input
  <2>4. /\ Stands(h, n, x, db, wire)
        /\ EndPlace(h) = EndPlace(f) /\ EndSeen(h) = EndSeen(f)
        /\ Len(Goto(2)) = n /\ Goto(2)[n] = CallOf(h)
        /\ \A k \in 1..(n - 1) : Goto(2)[k] = stack[k]
    BY <1>4, <1>6, <1>8
  <2>5. /\ Len(stack') = n /\ stack'[n] = CallOf(h)
        /\ \A k \in 1..(n - 1) : stack'[k] = stack[k]
    BY <2>3, <2>4
  <2>6. x = TRUE => values' = Seen(h)
    BY <1>1, <1>3, <2>3
  <2>7. \E g2 : Trace(g2, event, x, db, wire, stack', pos', values') /\ g2[Len(g2)] = h
    <3>1. /\ Stands(h, Len(g), x, db, wire)
          /\ EndPlace(h) = EndPlace(g[Len(g)]) /\ EndSeen(h) = EndSeen(g[Len(g)])
          /\ Len(stack') = Len(g) /\ stack'[Len(g)] = CallOf(h)
          /\ \A k \in 1..(Len(g) - 1) : stack'[k] = stack[k]
      BY <2>4, <2>5 DEF f
    <3>2. pos' = Place(h) /\ (x = TRUE => values' = Seen(h))
      BY <2>3, <2>6
    <3>3. MovesTo(g, h, x, db, wire, stack, stack', pos', values')
      BY <3>1, <3>2 DEF MovesTo
    <3>4. TracedAt(h, event, x, db, wire, stack', pos', values')
      BY <3>3, TraceMoves
    <3> QED
      BY <3>4 DEF TracedAt
  <2> QED
    BY <2>3, <2>7 DEF GoesOn, Traced
<1> QED
  BY <1>5, <1>7, <1>8

(* run_bc has ended with the whole event decoded.                          *)
EndsWell(x) ==
  /\ outcome' = "done" /\ event' = event /\ db' = db /\ wire' = wire
  /\ pos' = Pos(event, Len(event.fields))
  /\ x = TRUE => values' = FieldsOf(event.fields)

(* Behind the last field of a call it returns.                             *)
LEMMA EndIsPassed ==
  ASSUME TypeInv, outcome = "running", Next,
         NEW x \in BOOLEAN, NEW g, Trace(g, event, x, db, wire, stack, pos, values),
         NEW f, f = g[Len(g)], f.before = "field", f.at = Len(f.type.fields) + 1
  PROVE  GoesOn(x) \/ EndsWell(x)
<1> DEFINE n == Len(g)
           t == f.type
<1>1. /\ n \in Nat /\ n > 0 /\ Len(stack) = n
      /\ f \in Frames /\ Coded(t) /\ f.at \in 1..(Len(t.fields) + 1)
      /\ Op = CodeOf(t)[CallOf(f).pc]
  BY TopFrame
<1>2. AtEnd(f)
  BY <1>1, EndReached DEF AtEnd
<1>3. CallOf(f).pc = Inside(t, Len(t.fields) + 1)
  BY DEF CallOf
<1>4. Op = 0
  BY <1>1, <1>3, CodeIs
<1>5. Return
  BY <1>4, ActionIs
<1>6. /\ stack' = Front(stack)
      /\ outcome' = IF n = 1 THEN "done" ELSE "running"
      /\ event' = event /\ db' = db /\ wire' = wire /\ pos' = pos /\ values' = values
  BY <1>1, <1>5 DEF Return, input
<1>7. CASE n = 1
  <2>1. AtEnd(g[Len(g)])
    BY <1>2
  <2>2. pos = Pos(event, Len(event.fields)) /\ (x = TRUE => values = FieldsOf(event.fields))
    BY <1>7, <2>1, TraceEnds
  <2> QED
    BY <1>6, <1>7, <2>2 DEF EndsWell
<1>8. CASE n # 1
  <2>1. stack \in Seq(Calls)
    BY DEF TypeInv
  <2>2. Len(Front(stack)) = n - 1 /\ \A k \in 1..(n - 1) : Front(stack)[k] = stack[k]
    BY <1>1, <2>1 DEF Front
  <2>3. Len(stack') = n - 1 /\ \A k \in 1..(n - 1) : stack'[k] = stack[k]
    BY <1>6, <2>2
  <2>4. ReturnsTo(g, stack, stack')
    BY <1>1, <1>2, <1>8, <2>3 DEF ReturnsTo
  <2>5. Traced(event, x, db, wire, stack', pos, values)
    BY <2>4, TraceReturns
  <2> QED
    BY <1>6, <1>8, <2>5 DEF GoesOn
<1> QED
  BY <1>7, <1>8

(* What is known in front of a field: its instruction is next, and its     *)
(* bytes lie where the host is.                                            *)
LEMMA AtField ==
  ASSUME TypeInv, NEW x \in BOOLEAN, NEW g, Trace(g, event, x, db, wire, stack, pos, values),
         NEW f, f = g[Len(g)], f.before = "field", f.at \in 1..Len(f.type.fields)
  PROVE  /\ Coded(f.type) /\ FieldOf(f) \in Fields
         /\ StandsAt(FieldOf(f), CodeOf(f.type), CallOf(f).pc, CallOf(After(f)).pc)
         /\ CallOf(f).pc \in Nat
         /\ Top.code = CodeOf(f.type) /\ Top.pc = CallOf(f).pc
         /\ Op = CodeOf(f.type)[CallOf(f).pc] /\ Count = CodeOf(f.type)[CallOf(f).pc + 1]
         /\ wire \in Seq(CellSet) /\ Len(wire) \in Nat
         /\ pos \in Nat /\ pos = Place(f) /\ pos = StartOf(f.type, f.base, f.at)
         /\ HeldAt(wire, x, f.type, f.base, f.at)
         /\ Length(FieldOf(f)) \in Int
         /\ Place(After(f)) = pos + Length(FieldOf(f))
         /\ x = TRUE => values = Seen(f)
         /\ Seen(f) \in Values
         /\ x = TRUE /\ FieldOf(f).kind = "str" => FieldOf(f).pad = FALSE
         /\ HoldsTyped(f.type.fields) /\ f.base \in Nat
         /\ FieldOf(f).pad = TRUE => Seen(After(f)) = Seen(f)
         /\ FieldOf(f).pad = FALSE =>
              Seen(After(f)) = Seen(f) \o Moved(FieldValues(f.type.fields, f.at), f.base)
         /\ FieldOf(f).kind = "fixed" /\ FieldOf(f).array /\ FieldOf(f).pad = FALSE =>
              FieldOf(f).ty # "ZfmtStr" /\ FieldOf(f).ty # "ZfmtU64"
<1> DEFINE t == f.type
           c == f.type.fields[f.at]
           h == ToGap(f.type, f.base, f.at + 1, f.seen)
<1>1. /\ Stands(f, Len(g), x, db, wire) /\ f \in Frames
      /\ Coded(t)
      /\ wire \in Seq(CellSet)
      /\ pos = Place(f) /\ pos \in Nat /\ (x = TRUE => values = Seen(f))
      /\ CallOf(f).pc \in Nat
      /\ Top.code = CodeOf(t) /\ Top.pc = CallOf(f).pc
      /\ Op = CodeOf(t)[CallOf(f).pc] /\ Count = CodeOf(t)[CallOf(f).pc + 1]
  BY TopFrame
<1>2. Readable(wire, x, t, f.base)
  BY <1>1 DEF Stands
<1>3. /\ NoTableArrays(t.fields) /\ f.base \in Nat /\ HoldsTyped(t.fields)
      /\ \A i \in 1..Len(t.fields) : HeldAt(wire, x, t, f.base, i) /\ t.fields[i] \in Fields
      /\ x = TRUE => Exact(t)
  BY <1>1, <1>2, ReadableIs
<1>4. /\ h \in Frames
      /\ h.type = f.type /\ h.base = f.base /\ h.at = f.at + 1 /\ h.before = "gap"
      /\ Place(f) = StartOf(f.type, f.base, f.at)
      /\ Length(c) \in Int
      /\ Seen(f) \in Values
      /\ Place(h) = Place(f) + Length(c)
      /\ c.pad = TRUE => Seen(h) = Seen(f)
      /\ c.pad = FALSE =>
           Seen(h) = Seen(f) \o Moved(FieldValues(f.type.fields, f.at), f.base)
  BY <1>1, FieldDone
<1>5. CallOf(h).pc = Begin(t, f.at + 1) /\ CallOf(f).pc = Inside(t, f.at)
  BY <1>4 DEF CallOf
<1>6. StandsAt(c, CodeOf(t), CallOf(f).pc, CallOf(h).pc)
  BY <1>1, <1>5, InstructionAt
<1>7. c.kind = "fixed" /\ c.array /\ c.pad = FALSE => c.ty # "ZfmtStr" /\ c.ty # "ZfmtU64"
  <2>1. DOMAIN t.fields = 1..Len(t.fields)
    BY <1>1, PiecesAre
  <2> QED
    BY <1>3, <2>1 DEF NoTableArrays
<1>8. FieldOf(f) = c /\ After(f) = h
  BY DEF FieldOf, After
<1>9. Len(wire) \in Nat
  BY <1>1
<1> HIDE DEF h, c, t
<1>10. c \in Fields /\ HeldAt(wire, x, f.type, f.base, f.at)
  BY <1>3 DEF c, t
<1>11. x = TRUE /\ c.kind = "str" => c.pad = FALSE
  BY <1>3 DEF c, t, Exact
<1>12. f.base \in Nat /\ HoldsTyped(f.type.fields)
  BY <1>3 DEF t
<1> QED
  BY <1>1, <1>4, <1>6, <1>7, <1>8, <1>9, <1>10, <1>11, <1>12 DEF t

(* The call may go on behind the field.                                    *)
LEMMA FieldAdvances ==
  ASSUME TypeInv, NEW x \in BOOLEAN, NEW g, Trace(g, event, x, db, wire, stack, pos, values),
         NEW f, f = g[Len(g)], f.before = "field", f.at \in 1..Len(f.type.fields),
         NEW m \in Int, CallOf(After(f)).pc = CallOf(f).pc + m
  PROVE  /\ Len(g) \in Nat /\ Len(g) > 0 /\ Len(stack) = Len(g)
         /\ Stands(After(f), Len(g), x, db, wire)
         /\ EndPlace(After(f)) = EndPlace(f) /\ EndSeen(After(f)) = EndSeen(f)
         /\ Goto(m) \in Seq(Calls) /\ Len(Goto(m)) = Len(g)
         /\ Goto(m)[Len(g)] = CallOf(After(f))
         /\ \A k \in 1..(Len(g) - 1) : Goto(m)[k] = stack[k]
<1> DEFINE h == After(f)
<1>1. /\ f \in Frames /\ Coded(f.type) /\ Len(f.type.fields) \in Nat
      /\ f = g[Len(g)] /\ CallOf(f).pc \in Nat
      /\ Len(g) \in Nat /\ Len(g) > 0 /\ Len(stack) = Len(g)
  BY TopFrame
<1>2. /\ h \in Frames /\ h.type = f.type /\ h.base = f.base /\ h.at = f.at + 1
      /\ h.before = "gap" /\ h.seen = f.seen
  BY <1>1, FieldDone DEF After
<1>3. CallOf(h).pc = Begin(f.type, f.at + 1)
  BY <1>2 DEF CallOf
<1>4. CallOf(h).pc \in Points(f.type)
  <2>1. f.at \in 1..(Len(f.type.fields) + 1) /\ f.at <= Len(f.type.fields)
    BY <1>1
  <2> QED
    BY <1>1, <1>3, <2>1, InsideIs
<1>5. h.at \in 1..(Len(f.type.fields) + 1) /\ CallOf(h).pc = CallOf(f).pc + m
  BY <1>1, <1>2
<1> HIDE DEF h
<1>6. /\ Stands(h, Len(g), x, db, wire)
      /\ EndPlace(h) = EndPlace(f) /\ EndSeen(h) = EndSeen(f)
      /\ Goto(m) \in Seq(Calls) /\ Len(Goto(m)) = Len(g) /\ Goto(m)[Len(g)] = CallOf(h)
      /\ \A k \in 1..(Len(g) - 1) : Goto(m)[k] = stack[k]
  <2>1. Ahead(f, h, m)
    BY <1>1, <1>2, <1>4, <1>5 DEF Ahead
  <2>2. MayStandAt(g, f, h, x, m)
    BY <1>1, <2>1, Advances
  <2> QED
    BY <2>2 DEF MayStandAt
<1> QED
  BY <1>1, <1>6 DEF h

(* A field that makes no call is passed.                                   *)
Passes(f, x, m) ==
  /\ m \in Int /\ CallOf(After(f)).pc = CallOf(f).pc + m
  /\ outcome' = "running" /\ event' = event /\ db' = db /\ wire' = wire
  /\ stack' = Goto(m)
  /\ pos' = Place(After(f))
  /\ x = TRUE => values' = Seen(After(f))

(* The call goes on behind it.                                             *)
LEMMA FieldMoves ==
  ASSUME TypeInv, NEW x \in BOOLEAN, NEW g, Trace(g, event, x, db, wire, stack, pos, values),
         NEW f, f = g[Len(g)], f.before = "field", f.at \in 1..Len(f.type.fields),
         NEW m, Passes(f, x, m)
  PROVE  GoesOn(x)
<1>1. /\ m \in Int /\ CallOf(After(f)).pc = CallOf(f).pc + m
      /\ outcome' = "running" /\ event' = event /\ db' = db /\ wire' = wire
      /\ stack' = Goto(m) /\ pos' = Place(After(f))
      /\ x = TRUE => values' = Seen(After(f))
  BY DEF Passes
<1>2. /\ Stands(After(f), Len(g), x, db, wire)
      /\ EndPlace(After(f)) = EndPlace(f) /\ EndSeen(After(f)) = EndSeen(f)
      /\ Len(Goto(m)) = Len(g) /\ Goto(m)[Len(g)] = CallOf(After(f))
      /\ \A k \in 1..(Len(g) - 1) : Goto(m)[k] = stack[k]
  BY <1>1, FieldAdvances
<1>3. MovesTo(g, After(f), x, db, wire, stack, stack', pos', values')
  BY <1>1, <1>2 DEF MovesTo
<1>4. TracedAt(After(f), event, x, db, wire, stack', pos', values')
  BY <1>3, TraceMoves
<1> QED
  BY <1>1, <1>4 DEF GoesOn, TracedAt, Traced

(* One value more.                                                         *)
LEMMA AppendIs ==
  ASSUME NEW a \in Values, NEW v \in Seq(CellSet)
  PROVE  Append(a, v) = a \o <<v>>
<1>1. <<v>> \in Values
  BY DEF Values
<1>2. a \o <<v>> \in Values /\ Append(a, v) \in Values
  BY <1>1 DEF Values
<1>3. Len(a) \in Nat /\ Len(a \o <<v>>) = Len(a) + 1 /\ Len(Append(a, v)) = Len(a) + 1
  BY DEF Values
<1>4. ASSUME NEW k \in 1..(Len(a) + 1)
      PROVE  Append(a, v)[k] = (a \o <<v>>)[k]
  BY <1>3 DEF Values
<1> QED
  BY <1>2, <1>3, <1>4 DEF Values

(* The value of a flat field is the next to be shown.                      *)
LEMMA ValueSeen ==
  ASSUME NEW a, NEW f, NEW v,
         HoldsTyped(f.type.fields), f.base \in Nat, f.at \in 1..Len(f.type.fields),
         FieldOf(f).kind \in {"fixed", "str"},
         a = Seen(f), Seen(f) \in Values,
         Seen(After(f)) = Seen(f) \o Moved(FieldValues(f.type.fields, f.at), f.base),
         Moved(FlatValues(f.type.fields, f.at), f.base) = <<v>>
  PROVE  Append(a, v) = Seen(After(f))
<1> DEFINE T == f.type.fields
           vs == FlatValues(T, f.at)
<1>1. FieldValues(T, f.at) = vs
  BY DEF FieldValues, FieldOf
<1>2. vs \in Values
  BY <1>1, FieldValuesAre
<1> HIDE DEF vs
<1>3. Moved(vs, f.base) \in Values
  BY <1>2, MovedIs
<1>4. Moved(vs, f.base) = <<v>>
  BY DEF vs
<1>5. v \in Seq(CellSet)
  BY <1>3, <1>4 DEF Values
<1>6. Append(a, v) = a \o <<v>>
  BY <1>5, AppendIs
<1> QED
  BY <1>1, <1>4, <1>6

(* A text is read.                                                         *)
LEMMA TextIsRead ==
  ASSUME TypeInv, outcome = "running", Next,
         NEW x \in BOOLEAN, NEW g, Trace(g, event, x, db, wire, stack, pos, values),
         NEW f, f = g[Len(g)], f.before = "field", f.at \in 1..Len(f.type.fields),
         FieldOf(f).kind = "str"
  PROVE  GoesOn(x)
<1> DEFINE c == FieldOf(f)
           start == pos + LebLen(c.n)
           v == SubSeq(wire, start + 1, start + c.n)
<1>1. /\ c \in Fields
      /\ StandsAt(c, CodeOf(f.type), CallOf(f).pc, CallOf(After(f)).pc)
      /\ Op = CodeOf(f.type)[CallOf(f).pc]
      /\ wire \in Seq(CellSet) /\ Len(wire) \in Nat
      /\ pos \in Nat /\ pos = StartOf(f.type, f.base, f.at)
      /\ HeldAt(wire, x, f.type, f.base, f.at)
      /\ Place(After(f)) = pos + Length(c)
      /\ x = TRUE => values = Seen(f)
      /\ Seen(f) \in Values /\ HoldsTyped(f.type.fields) /\ f.base \in Nat
      /\ x = TRUE => c.pad = FALSE
      /\ c.pad = FALSE =>
           Seen(After(f)) = Seen(f) \o Moved(FieldValues(f.type.fields, f.at), f.base)
  BY AtField, ZenonT(60)
<1>2. c.n \in Nat /\ LebLen(c.n) \in {1, 2}
  <2>1. c \in StrFields
    BY <1>1, FieldKind
  <2>2. c.n \in Nat
    BY <2>1, StrFieldIs
  <2> QED
    BY <2>2 DEF LebLen
<1>3. Length(c) = LebLen(c.n) + c.n
  BY DEF Length
<1>4. /\ start + c.n <= Len(wire)
      /\ wire[pos + 1][3] = {c.n}
      /\ x => Moved(FlatValues(f.type.fields, f.at), f.base) = <<v>>
  BY <1>1 DEF HeldAt, FieldOf
<1>5. Op = 75 /\ CallOf(After(f)).pc = CallOf(f).pc + 1
  BY <1>1 DEF StandsAt
<1>6. VarText
  BY <1>5, ActionIs
<1>7. NumbersAt(pos) = {c.n}
  BY <1>4 DEF NumbersAt
<1> HIDE DEF c
<1>8. pos < Len(wire)
  BY <1>1, <1>2, <1>4, SMTT(30)
<1>9. /\ values' = Append(values, v) /\ pos' = start + c.n /\ stack' = Goto(1)
      /\ outcome' = outcome /\ event' = event /\ db' = db /\ wire' = wire
  BY <1>1, <1>4, <1>6, <1>7, <1>8, SMTT(30) DEF VarText, input
<1> HIDE DEF v
<1>10. pos' = Place(After(f))
  <2>1. PICK l \in Nat, y \in Nat, p \in Nat : l = LebLen(c.n) /\ y = c.n /\ p = pos
    BY <1>1, <1>2
  <2>2. pos' = p + l + y /\ Place(After(f)) = p + (l + y)
    BY <1>1, <1>3, <1>9, <2>1
  <2>3. p + l + y = p + (l + y)
    BY <2>1
  <2> QED
    BY <2>2, <2>3
<1>11. x = TRUE => values' = Seen(After(f))
  <2> SUFFICES ASSUME x = TRUE PROVE Append(values, v) = Seen(After(f))
    BY <1>9
  <2>1. FieldOf(f).kind \in {"fixed", "str"}
    OBVIOUS
  <2>2. values = Seen(f) /\ Moved(FlatValues(f.type.fields, f.at), f.base) = <<v>>
        /\ Seen(After(f)) = Seen(f) \o Moved(FieldValues(f.type.fields, f.at), f.base)
    BY <1>1, <1>4
  <2> QED
    BY <1>1, <2>1, <2>2, ValueSeen
<1> QED
  <2>1. Passes(f, x, 1)
    BY <1>5, <1>9, <1>10, <1>11 DEF Passes
  <2> QED
    BY <2>1, FieldMoves

(* Padding is skipped.                                                     *)
LEMMA PaddingIsPassed ==
  ASSUME TypeInv, outcome = "running", Next,
         NEW x \in BOOLEAN, NEW g, Trace(g, event, x, db, wire, stack, pos, values),
         NEW f, f = g[Len(g)], f.before = "field", f.at \in 1..Len(f.type.fields),
         FieldOf(f).kind = "fixed", FieldOf(f).pad = TRUE
  PROVE  GoesOn(x)
<1> DEFINE c == FieldOf(f)
<1>1. /\ StandsAt(c, CodeOf(f.type), CallOf(f).pc, CallOf(After(f)).pc)
      /\ Op = CodeOf(f.type)[CallOf(f).pc] /\ Count = CodeOf(f.type)[CallOf(f).pc + 1]
      /\ Place(After(f)) = pos + Length(c)
      /\ x = TRUE => values = Seen(f)
      /\ Seen(After(f)) = Seen(f)
  BY AtField
<1>2. Op = 81 /\ Count = FixedSize(c) /\ CallOf(After(f)).pc = CallOf(f).pc + 2
  BY <1>1 DEF StandsAt
<1>3. Length(c) = FixedSize(c)
  BY DEF Length
<1>4. Skip
  BY <1>2, ActionIs
<1>5. /\ pos' = pos + FixedSize(c) /\ stack' = Goto(2) /\ values' = values
      /\ outcome' = outcome /\ event' = event /\ db' = db /\ wire' = wire
  BY <1>2, <1>4 DEF Skip, input
<1>6. pos' = Place(After(f)) /\ (x = TRUE => values' = Seen(After(f)))
  BY <1>1, <1>3, <1>5
<1> QED
  <2>1. Passes(f, x, 2) /\ 2 \in Int
    BY <1>2, <1>5, <1>6 DEF Passes
  <2> QED
    BY <2>1, FieldMoves

(* The value of another field of fixed size is taken.                      *)
LEMMA FixedIsTaken ==
  ASSUME TypeInv, outcome = "running", Next,
         NEW x \in BOOLEAN, NEW g, Trace(g, event, x, db, wire, stack, pos, values),
         NEW f, f = g[Len(g)], f.before = "field", f.at \in 1..Len(f.type.fields),
         FieldOf(f).kind = "fixed", FieldOf(f).pad = FALSE
  PROVE  \E m \in Nat : /\ CallOf(After(f)).pc = CallOf(f).pc + m
                        /\ Take(FixedSize(FieldOf(f)), m)
<1> DEFINE c == FieldOf(f)
<1>1. /\ c \in Fields
      /\ StandsAt(c, CodeOf(f.type), CallOf(f).pc, CallOf(After(f)).pc)
      /\ Op = CodeOf(f.type)[CallOf(f).pc] /\ Count = CodeOf(f.type)[CallOf(f).pc + 1]
      /\ pos \in Nat /\ Len(wire) \in Nat
      /\ pos = StartOf(f.type, f.base, f.at)
      /\ HeldAt(wire, x, f.type, f.base, f.at)
      /\ c.array => c.ty # "ZfmtStr" /\ c.ty # "ZfmtU64"
  BY AtField, ZenonT(60)
<1>2. pos + FixedSize(c) <= Len(wire)
  BY <1>1 DEF HeldAt, FieldOf
<1>3. /\ c.ty \in ScalarTypes /\ c.n \in Nat /\ c.array \in BOOLEAN
      /\ FixedSize(c) = c.n * SizeOf(c.ty)
      /\ ~c.array => c.n = 1
  BY <1>1, FieldKind, FixedFieldIs
<1>4. /\ c.array => /\ Op = IF c.ty = "u8" THEN 73 ELSE Item[c.ty] * 8 + 1
                    /\ Count = c.n /\ CallOf(After(f)).pc = CallOf(f).pc + 2
      /\ ~c.array => Op = Item[c.ty] * 8 /\ CallOf(After(f)).pc = CallOf(f).pc + 1
  BY <1>1 DEF StandsAt
<1>5. /\ Item[c.ty] \in {1, 2, 3, 4, 5, 6, 7, 8, 11, 12, 13, 16, 17}
      /\ Item[c.ty] = 16 <=> c.ty = "ZfmtStr"
      /\ Item[c.ty] = 17 <=> c.ty = "ZfmtU64"
  BY <1>3, ItemIs
<1>6. Available(FixedSize(c))
  BY <1>2 DEF Available
<1>7. SizeOf(c.ty) \in {1, 2, 4, 8}
  BY <1>3, SizeOfIs
<1> HIDE DEF c
<1>8. CASE c.array /\ c.ty = "u8"
  <2>1. Op = 73 /\ Count = c.n /\ FixedSize(c) = c.n
    BY <1>3, <1>4, <1>8, ItemsAre
  <2>2. FixedText
    BY <2>1, ActionIs
  <2>3. Take(FixedSize(c), 2)
    BY <1>6, <2>1, <2>2 DEF FixedText, TakeOrFail
  <2> QED
    BY <1>4, <1>8, <2>3 DEF c
<1>9. CASE c.array /\ c.ty # "u8"
  <2>1. Op = Item[c.ty] * 8 + 1 /\ Count = c.n
    BY <1>4, <1>9
  <2>2. Op \div 8 = Item[c.ty] /\ Op % 8 = 1
    <3>1. PICK i \in 1..17 : i = Item[c.ty]
      BY <1>5
    <3>2. (i * 8 + 1) \div 8 = i /\ (i * 8 + 1) % 8 = 1
      OBVIOUS
    <3> QED
      BY <2>1, <3>1, <3>2
  <2>3. c.ty \in ScalarTypes \ {"ZfmtStr", "ZfmtU64"}
    BY <1>1, <1>3, <1>9
  <2>4. ReadItems(c.ty)
    BY <2>2, <2>3, ActionIs
  <2>5. Operand = 1
    BY <2>2 DEF Operand
  <2>6. \/ c.n > 0 /\ TakeOrFail(c.n * SizeOf(c.ty), 2)
        \/ c.n = 0 /\ Take(0, 2)
    BY <2>1, <2>4, <2>5, ItemsAre DEF ReadItems
  <2>7. Take(FixedSize(c), 2)
    <3>1. CASE c.n > 0
      BY <1>3, <1>6, <2>6, <3>1 DEF TakeOrFail
    <3>2. CASE c.n = 0
      <4>1. FixedSize(c) = 0
        BY <1>3, <1>7, <3>2
      <4> QED
        BY <2>6, <3>2, <4>1
    <3> QED
      BY <1>3, <3>1, <3>2
  <2> QED
    BY <1>4, <1>9, <2>7 DEF c
<1>10. CASE ~c.array
  <2>1. Op = Item[c.ty] * 8 /\ FixedSize(c) = SizeOf(c.ty)
    BY <1>3, <1>4, <1>7, <1>10
  <2>2. Op \div 8 = Item[c.ty] /\ Op % 8 = 0
    BY <1>5, <2>1, SMTT(30)
  <2>3. Operand = 0
    BY <2>2 DEF Operand
  <2>4. Take(FixedSize(c), 1)
    <3>1. CASE c.ty = "ZfmtStr"
      <4>1. StringRef
        BY <1>5, <2>2, <3>1, ActionIs
      <4> QED
        BY <1>6, <2>1, <3>1, <4>1 DEF StringRef, TakeOrFail
    <3>2. CASE c.ty = "ZfmtU64"
      <4>1. Pair
        BY <1>5, <2>2, <3>2, ActionIs
      <4> QED
        BY <1>6, <2>1, <2>3, <3>2, <4>1, ItemsAre DEF Pair, TakeOrFail
    <3>3. CASE c.ty \notin {"ZfmtStr", "ZfmtU64"}
      <4>1. ReadItems(c.ty)
        BY <1>3, <2>2, <3>3, ActionIs
      <4>2. TakeOrFail(SizeOf(c.ty), 1)
        BY <2>3, <4>1, ItemsAre DEF ReadItems
      <4> QED
        BY <1>6, <2>1, <4>2 DEF TakeOrFail
    <3> QED
      BY <3>1, <3>2, <3>3
  <2> QED
    BY <1>4, <1>10, <2>4 DEF c
<1> QED
  BY <1>3, <1>8, <1>9, <1>10

(* It is what the event shows.                                             *)
LEMMA FixedIsRead ==
  ASSUME TypeInv, outcome = "running", Next,
         NEW x \in BOOLEAN, NEW g, Trace(g, event, x, db, wire, stack, pos, values),
         NEW f, f = g[Len(g)], f.before = "field", f.at \in 1..Len(f.type.fields),
         FieldOf(f).kind = "fixed", FieldOf(f).pad = FALSE
  PROVE  GoesOn(x)
<1> DEFINE c == FieldOf(f)
           v == SubSeq(wire, pos + 1, pos + FixedSize(c))
<1>1. /\ pos = StartOf(f.type, f.base, f.at)
      /\ HeldAt(wire, x, f.type, f.base, f.at)
      /\ Place(After(f)) = pos + Length(c)
      /\ x = TRUE => values = Seen(f)
      /\ Seen(f) \in Values /\ HoldsTyped(f.type.fields) /\ f.base \in Nat
      /\ Seen(After(f)) = Seen(f) \o Moved(FieldValues(f.type.fields, f.at), f.base)
  BY AtField, ZenonT(60)
<1>2. PICK m \in Nat : CallOf(After(f)).pc = CallOf(f).pc + m /\ Take(FixedSize(c), m)
  BY FixedIsTaken
<1>3. x => Moved(FlatValues(f.type.fields, f.at), f.base) = <<v>>
  BY <1>1 DEF HeldAt, FieldOf
<1>4. Length(c) = FixedSize(c)
  BY DEF Length
<1>5. /\ values' = Append(values, v) /\ pos' = pos + FixedSize(c) /\ stack' = Goto(m)
      /\ outcome' = outcome /\ event' = event /\ db' = db /\ wire' = wire
  BY <1>2 DEF Take, input
<1> HIDE DEF v
<1>6. pos' = Place(After(f))
  BY <1>1, <1>4, <1>5
<1>7. x = TRUE => values' = Seen(After(f))
  <2> SUFFICES ASSUME x = TRUE PROVE Append(values, v) = Seen(After(f))
    BY <1>5
  <2>1. FieldOf(f).kind \in {"fixed", "str"}
    OBVIOUS
  <2>2. values = Seen(f) /\ Moved(FlatValues(f.type.fields, f.at), f.base) = <<v>>
    BY <1>1, <1>3
  <2> QED
    BY <1>1, <2>1, <2>2, ValueSeen
<1> QED
  <2>1. Passes(f, x, m)
    BY <1>2, <1>5, <1>6, <1>7 DEF Passes
  <2> QED
    BY <2>1, FieldMoves

(* A subroutine is entered at e, to return to where its caller goes on.    *)
Enters(f, e, k, x, m, p, t) ==
  /\ m \in Int /\ CallOf(After(f)).pc = CallOf(f).pc + m
  /\ Enter(t, p, m) /\ t \in db
  /\ Stands(e, k + 1, x, db, wire)
  /\ Place(e) = p
  /\ x = TRUE => values = Seen(e)
  /\ CallOf(e) = Begun(t)
  /\ EndPlace(e) = Place(After(f)) /\ EndSeen(e) = Seen(After(f))

(* Two calls stand where there was one.                                    *)
LEMMA FieldCalls ==
  ASSUME TypeInv, outcome = "running",
         NEW x \in BOOLEAN, NEW g, Trace(g, event, x, db, wire, stack, pos, values),
         NEW f, f = g[Len(g)], f.before = "field", f.at \in 1..Len(f.type.fields),
         NEW e, NEW m, NEW p, NEW t, Enters(f, e, Len(g), x, m, p, t)
  PROVE  GoesOn(x)
<1> DEFINE n == Len(g)
           h == After(f)
           b == Begun(t)
<1>1. /\ m \in Int /\ CallOf(h).pc = CallOf(f).pc + m
      /\ Enter(t, p, m) /\ t \in db
      /\ Stands(e, n + 1, x, db, wire)
      /\ Place(e) = p
      /\ x = TRUE => values = Seen(e)
      /\ CallOf(e) = b
      /\ EndPlace(e) = Place(h) /\ EndSeen(e) = Seen(h)
  BY DEF Enters
<1>2. /\ n \in Nat /\ n > 0
      /\ Stands(h, n, x, db, wire)
      /\ EndPlace(h) = EndPlace(f) /\ EndSeen(h) = EndSeen(f)
      /\ Goto(m) \in Seq(Calls) /\ Len(Goto(m)) = n
      /\ Goto(m)[n] = CallOf(h)
      /\ \A k \in 1..(n - 1) : Goto(m)[k] = stack[k]
  BY <1>1, FieldAdvances
<1>3. /\ stack' = Append(Goto(m), b)
      /\ pos' = p /\ values' = values
      /\ outcome' = "running" /\ event' = event /\ db' = db /\ wire' = wire
  BY <1>1 DEF Enter, input, Begun
<1>4. b \in Calls
  <2>1. e.type \in TypeSet /\ e.at \in 1..(Len(e.type.fields) + 1)
    BY <1>1 DEF Stands, Frames
  <2>2. CallOf(e).pc \in Points(e.type)
    BY <2>1, TypeSetIs, InsideIs DEF CallOf
  <2>3. CallOf(e) = [code |-> CodeOf(e.type), pc |-> CallOf(e).pc]
    BY DEF CallOf
  <2>4. CallOf(e) \in Calls
    BY <2>1, <2>2, <2>3 DEF Calls
  <2> QED
    BY <1>1, <2>4
<1> HIDE DEF b, h, n
<1> DEFINE r == Goto(m)
<1>5. r \in Seq(Calls) /\ Len(r) = n
  BY <1>2
<1> HIDE DEF r
<1>6. /\ Len(Append(r, b)) = n + 1 /\ Append(r, b)[n + 1] = b
      /\ \A k \in 1..n : Append(r, b)[k] = r[k]
  BY <1>2, <1>4, <1>5
<1>7. /\ Len(stack') = n + 1 /\ stack'[n + 1] = b
      /\ \A k \in 1..n : stack'[k] = Goto(m)[k]
  BY <1>3, <1>6 DEF r
<1>8. n \in 1..n /\ \A k \in 1..(n - 1) : k \in 1..n
  BY <1>2
<1>9. CallsTo(g, h, e, x, db, wire, stack, stack', pos', values')
  BY <1>1, <1>2, <1>3, <1>7, <1>8 DEF CallsTo, n
<1>10. Traced(event, x, db, wire, stack', pos', values')
  BY <1>9, TraceCalls
<1> QED
  BY <1>3, <1>10 DEF GoesOn

(* A nested struct is called.                                              *)
LEMMA NestedIsCalled ==
  ASSUME TypeInv, outcome = "running", Next,
         NEW x \in BOOLEAN, NEW g, Trace(g, event, x, db, wire, stack, pos, values),
         NEW f, f = g[Len(g)], f.before = "field", f.at \in 1..Len(f.type.fields),
         FieldOf(f).kind = "nested"
  PROVE  GoesOn(x)
<1> DEFINE c == FieldOf(f).type
<1>1. /\ StandsAt(FieldOf(f), CodeOf(f.type), CallOf(f).pc, CallOf(After(f)).pc)
      /\ Op = CodeOf(f.type)[CallOf(f).pc] /\ Count = CodeOf(f.type)[CallOf(f).pc + 1]
      /\ wire \in Seq(CellSet)
      /\ pos = Place(f)
      /\ x = TRUE => values = Seen(f)
  BY AtField, ZenonT(60)
<1>2. Len(g) \in Nat /\ Len(stack) = Len(g) /\ Stands(f, Len(g), x, db, wire)
  BY TopFrame
<1>3. Op = 120 /\ Count = c /\ CallOf(After(f)).pc = CallOf(f).pc + 2
  BY <1>1 DEF StandsAt
<1>4. PICK e : CalleeOf(f, e, Len(g), x, db, wire, c, Place(f))
  BY <1>1, <1>2, CallNested
<1>5. Call
  BY <1>3, ActionIs
<1> HIDE DEF c
<1>6. Enter(c, pos, 2)
  BY <1>2, <1>3, <1>4, <1>5 DEF Call, MayCall, CalleeOf
<1>7. Enters(f, e, Len(g), x, 2, pos, c)
  BY <1>1, <1>3, <1>4, <1>6 DEF Enters, CalleeOf
<1>8. 2 \in Int
  OBVIOUS
<1> QED
  BY <1>7, <1>8, FieldCalls

(* An inline enum dispatches to the subroutine of its variant.             *)
LEMMA InlineIsCalled ==
  ASSUME TypeInv, outcome = "running", Next,
         NEW x \in BOOLEAN, NEW g, Trace(g, event, x, db, wire, stack, pos, values),
         NEW f, f = g[Len(g)], f.before = "field", f.at \in 1..Len(f.type.fields),
         FieldOf(f).kind = "inline"
  PROVE  GoesOn(x)
<1> DEFINE u == FieldOf(f)
           c == Subroutine(u, u.pick)
           p == Place(f) + UnionAlign(u.variants)
           m == 4 + 2 * u.listed
<1>1. /\ StandsAt(u, CodeOf(f.type), CallOf(f).pc, CallOf(After(f)).pc)
      /\ CallOf(f).pc \in Nat
      /\ Top.code = CodeOf(f.type) /\ Top.pc = CallOf(f).pc
      /\ Op = CodeOf(f.type)[CallOf(f).pc]
      /\ wire \in Seq(CellSet) /\ Len(wire) \in Nat
      /\ pos = Place(f) /\ pos \in Nat
      /\ x = TRUE => values = Seen(f)
  BY AtField, ZenonT(60)
<1>2. Len(g) \in Nat /\ Len(stack) = Len(g) /\ Stands(f, Len(g), x, db, wire)
  BY TopFrame
<1>3. /\ u \in InlineFields /\ u.pick \in 1..u.listed
      /\ Place(f) < Len(wire) /\ wire[Place(f) + 1][3] = {u.pick}
      /\ \E e : CalleeOf(f, e, Len(g), x, db, wire, c, p)
  BY <1>1, <1>2, CallInline
<1> HIDE DEF u, p
<1>13. PICK e : CalleeOf(f, e, Len(g), x, db, wire, c, p)
  BY <1>3
<1>4. u.listed \in Nat /\ UnionAlign(u.variants) \in Nat \ {0}
  BY <1>3, InlineFieldIs
<1>5. /\ Op = 112
      /\ Top.code[Top.pc + 2] = UnionAlign(u.variants) - 1
      /\ Top.code[Top.pc + 3] = u.listed
      /\ Top.code[Top.pc + 3 + 2 * u.pick] = c
      /\ CallOf(After(f)).pc = CallOf(f).pc + 4 + 2 * u.listed
  <2>1. u.kind = "inline"
    BY DEF u
  <2> QED
    BY <1>1, <1>3, <2>1, SMTT(30) DEF StandsAt
<1>6. CallOf(After(f)).pc = CallOf(f).pc + m /\ m \in Int
  <2>1. PICK l \in Nat, p1 \in Nat : l = u.listed /\ p1 = CallOf(f).pc
    BY <1>1, <1>4
  <2>2. CallOf(After(f)).pc = p1 + 4 + 2 * l /\ m = 4 + 2 * l
    BY <1>5, <2>1
  <2>3. \A a, b \in Nat : a + 4 + 2 * b = a + (4 + 2 * b) /\ 4 + 2 * b \in Int
    OBVIOUS
  <2> QED
    BY <2>1, <2>2, <2>3
<1>7. Dispatch
  BY <1>5, ActionIs
<1>8. NumbersAt(pos) = {u.pick}
  BY <1>1, <1>3 DEF NumbersAt
<1>9. MayCall /\ Available(SizeOf("u8"))
  BY <1>1, <1>2, <1>3, <1>13, ItemsAre DEF MayCall, Available, CalleeOf
<1> HIDE DEF c
<1>10. pos + SizeOf("u8") + (UnionAlign(u.variants) - 1) = p
  BY <1>1, <1>4, ItemsAre DEF p
<1>11. Enter(c, p, m)
  BY <1>3, <1>5, <1>7, <1>8, <1>9, <1>10 DEF Dispatch, m
<1> HIDE DEF m
<1>12. Enters(f, e, Len(g), x, m, p, c)
  BY <1>1, <1>6, <1>11, <1>13 DEF Enters, CalleeOf
<1> QED
  BY <1>6, <1>12, FieldCalls

(* Every step of run_bc goes on, or ends well.                             *)
LEMMA FieldIsPassed ==
  ASSUME TypeInv, outcome = "running", Next,
         NEW x \in BOOLEAN, NEW g, Trace(g, event, x, db, wire, stack, pos, values),
         g[Len(g)].before = "field"
  PROVE  GoesOn(x) \/ EndsWell(x)
<1> DEFINE f == g[Len(g)]
<1>1. /\ f.at \in 1..(Len(f.type.fields) + 1) /\ Len(f.type.fields) \in Nat
  BY TopFrame
<1>2. f = g[Len(g)] /\ f.before = "field"
  OBVIOUS
<1> HIDE DEF f
<1>3. CASE f.at = Len(f.type.fields) + 1
  BY <1>2, <1>3, EndIsPassed
<1>4. CASE f.at \in 1..Len(f.type.fields)
  <2>1. FieldOf(f) \in Fields
    BY <1>2, <1>4, AtField
  <2>2. FieldOf(f).kind \in {"fixed", "str", "nested", "inline"} /\ FieldOf(f).pad \in BOOLEAN
    BY <2>1, FieldKind
  <2>3. CASE FieldOf(f).kind = "str"
    BY <1>2, <1>4, <2>3, TextIsRead
  <2>4. CASE FieldOf(f).kind = "nested"
    BY <1>2, <1>4, <2>4, NestedIsCalled
  <2>5. CASE FieldOf(f).kind = "inline"
    BY <1>2, <1>4, <2>5, InlineIsCalled
  <2>6. CASE FieldOf(f).kind = "fixed" /\ FieldOf(f).pad = TRUE
    BY <1>2, <1>4, <2>6, PaddingIsPassed
  <2>7. CASE FieldOf(f).kind = "fixed" /\ FieldOf(f).pad = FALSE
    BY <1>2, <1>4, <2>7, FixedIsRead
  <2> QED
    BY <2>2, <2>3, <2>4, <2>5, <2>6, <2>7
<1> QED
  BY <1>1, <1>3, <1>4

(* Every step of run_bc goes on, or ends well, wherever it is.             *)
LEMMA TracedSteps ==
  ASSUME TypeInv, outcome = "running", Next,
         NEW x \in BOOLEAN, Traced(event, x, db, wire, stack, pos, values)
  PROVE  GoesOn(x) \/ EndsWell(x)
<1>1. PICK g : Trace(g, event, x, db, wire, stack, pos, values)
  BY DEF Traced
<1>2. g[Len(g)].before \in {"gap", "field"}
  <2>1. g[Len(g)] \in Frames
    BY <1>1, TopFrame
  <2> QED
    BY <2>1 DEF Frames
<1>3. CASE g[Len(g)].before = "field"
  BY <1>1, <1>3, FieldIsPassed
<1>4. CASE g[Len(g)].before = "gap"
  <2>1. CASE GoesOn(x)
    BY <2>1
  <2>2. CASE \E g2 : Trace(g2, event, x, db, wire, stack, pos, values)
                       /\ g2[Len(g2)].before = "field"
    <3>1. PICK g2 : Trace(g2, event, x, db, wire, stack, pos, values)
                      /\ g2[Len(g2)].before = "field"
      BY <2>2
    <3> QED
      BY <3>1, FieldIsPassed
  <2> QED
    BY <1>1, <1>4, <2>1, <2>2, GapIsPassed
<1> QED
  BY <1>2, <1>3, <1>4

(* The events whose way through run_bc is known: those that decode (if x), *)
(* and those whose payload is consumed.                                    *)
Decodable(e, d) ==
  /\ \A t \in {e} \cup {c \in Callees(e.fields) : c.form = "struct"} : Regular(t)
  /\ Height(e.fields) <= MaxDepth
  /\ Fits(e)
  /\ d = Callees(e.fields)
Consumed(e) == NoTableArrays(e.fields) /\ (Tier(e) = "tier1" \/ Has(e.fields, "str"))
Followed(e, d, x) == (x = TRUE /\ Decodable(e, d)) \/ (x = FALSE /\ Consumed(e))

(* What is sent can be read.                                               *)
LEMMA SentIsReadable ==
  ASSUME NEW e \in Events, NEW d, NEW x \in BOOLEAN, Followed(e, d, x), Fits(e)
  PROVE  /\ Readable(Payload(e), x, e, 0)
         /\ x = TRUE => Height(e.fields) <= MaxDepth /\ d = Callees(e.fields)
<1> DEFINE w == Payload(e)
           T == e.fields
<1>1. Coded(e) /\ (IsStruct(e) \/ IsVariant(e))
  BY CodedTypes, EventsAssumption
<1>2. Tier(e) \in {"tier1", "tier2", "nested", "variant"} /\ e.form \in {"struct", "variant"}
  BY <1>1, TierIs
<1>3. CASE x = FALSE
  <2>1. Consumed(e)
    BY <1>3 DEF Followed
  <2>2. Tier(e) # "nested" /\ NoTableArrays(T)
    BY <1>1, <2>1, TierIs DEF Consumed
  <2> QED
    BY <1>1, <1>3, <2>2 DEF Readable
<1>4. CASE x = TRUE
  <2>1. Decodable(e, d)
    BY <1>4 DEF Followed
  <2>2. Regular(e) /\ \A c \in Callees(T) : c.form = "struct" => Regular(c)
    BY <2>1 DEF Decodable
  <2>3. Exact(e)
    BY <1>1, <2>2, RegularIsExact
  <2>4. Height(T) <= MaxDepth /\ d = Callees(T)
    BY <2>1 DEF Decodable
  <2>5. CASE IsBuffered(e)
    <3>1. Tier(e) # "nested" /\ NoTableArrays(T)
      BY <2>3, <2>5 DEF IsBuffered, Exact
    <3> QED
      BY <1>1, <1>4, <2>3, <2>4, <2>5, <3>1 DEF Readable
  <2>6. CASE ~IsBuffered(e)
    <3>1. Straight(e) /\ Tier(e) \in {"tier1", "nested"}
      BY <1>2, <2>3, <2>6 DEF IsBuffered, Exact
    <3>2. /\ w \in Seq(CellSet)
          /\ Tier(e) = "tier1" => Len(w) = LogicalSize(T)
          /\ Tier(e) = "nested" => Len(w) = StructSize(T)
          /\ \A k \in 1..Len(w) : w[k] = Cell(0, k, MarksAt(Marks(T), k))
      BY <1>1, <3>1, PayloadIs
    <3>3. LaidOut(T)
      BY <1>1, HoldsTypedIsLaidOut DEF Coded
    <3>4. Len(T) \in Nat /\ EndOf(T, Len(T)) \in Nat /\ EndOf(T, Len(T)) <= StructSize(T)
      BY <3>3, OffsetsAre
    <3>5. EndOf(T, Len(T)) <= Len(w)
      <4>1. CASE Tier(e) = "nested"
        BY <3>2, <3>4, <4>1
      <4>2. CASE Tier(e) = "tier1"
        <5>1. T \in Seq(FlatFields) /\ ~Has(T, "str") /\ NaturallyAligned(T)
          BY <1>1, <3>1, <4>2, TierIs DEF Straight
        <5>2. MacroEnd(T, Len(T)) = EndOf(T, Len(T))
          BY <3>4, <5>1, NaturalEnds
        <5> QED
          BY <3>2, <3>4, <4>2, <5>2 DEF LogicalSize
      <4> QED
        BY <3>1, <4>1, <4>2
    <3>6. Len(w) \in Nat
      BY <3>2
    <3> HIDE DEF w
    <3>7. Lies(w, e, 0)
      <4>1. \A k \in 1..EndOf(T, Len(T)) : k \in 1..Len(w) /\ 0 + k = k
        BY <3>4, <3>5, <3>6
      <4>2. 0 \in Nat /\ 0 + EndOf(T, Len(T)) <= Len(w)
        BY <3>4, <3>5
      <4> QED
        BY <3>2, <4>1, <4>2 DEF Lies
    <3> QED
      BY <1>4, <2>3, <2>4, <3>1, <3>7 DEF Readable, w
  <2> QED
    BY <2>5, <2>6
<1> QED
  BY <1>3, <1>4

(* At its first instruction run_bc stands at the frame of the event.       *)
LEMMA SentIsTraced ==
  ASSUME NEW e \in Events, NEW d, NEW x \in BOOLEAN, Followed(e, d, x), Fits(e)
  PROVE  Traced(e, x, d, Payload(e), <<Begun(e)>>, 0, <<>>)
<1> DEFINE w == Payload(e)
           T == e.fields
           f == ToGap(e, 0, 1, <<>>)
           g == <<f>>
<1>1. Readable(w, x, e, 0) /\ (x = TRUE => Height(T) <= MaxDepth /\ d = Callees(T))
  BY SentIsReadable
<1>2. Coded(e) /\ (IsStruct(e) \/ IsVariant(e)) /\ HoldsTyped(T)
  BY CodedTypes, EventsAssumption DEF Coded
<1>3. e \in TypeSet /\ 0 \in Nat /\ <<>> \in Values
  BY DEF TypeSet, Values
<1>4. /\ f \in Frames /\ f.type = e /\ f.base = 0 /\ f.at = 1
      /\ f.at \in 1..(Len(T) + 1)
      /\ Place(f) = 0 /\ Seen(f) = <<>> /\ CallOf(f) = Begun(e) /\ f.seen = <<>>
  BY <1>3, CallBegins
<1> HIDE DEF f, w
<1>5. Height(T) \in Nat /\ T \in Seq(Fields)
  BY <1>2, HeightIs DEF HoldsTyped
<1>6. x = TRUE => 1 + Height(T) <= MaxDepth + 1 /\ Callees(T) \subseteq d
  <2>1. PICK h \in Nat : h = Height(T)
    BY <1>5
  <2>2. h <= MaxDepth => 1 + h <= MaxDepth + 1
    BY InterpreterAssumption
  <2> QED
    BY <1>1, <2>1, <2>2
<1>7. Stands(f, 1, x, d, w)
  BY <1>1, <1>4, <1>6 DEF Stands
<1>8. EndPlace(f) = Pos(e, Len(T))
  <2>1. TailGap(e) = 0
    BY <1>2, TierIs DEF TailGap
  <2>2. Pos(e, Len(T)) \in Int
    <3>1. Len(T) \in 0..Len(T)
      BY <1>5
    <3> QED
      BY <1>2, <3>1, PosIs
  <2> QED
    BY <1>4, <2>1, <2>2 DEF EndPlace
<1>9. EndSeen(f) = FieldsOf(T)
  <2>1. FieldsOf(T) \in Values
    BY <1>2, FieldsOfIs
  <2>2. Moved(FieldsOf(T), 0) = FieldsOf(T)
    BY <2>1, MovedZero
  <2>3. <<>> \o FieldsOf(T) = FieldsOf(T)
    BY <2>1 DEF Values
  <2> QED
    BY <1>4, <2>2, <2>3 DEF EndSeen
<1>10. g \in Seq(Frames) /\ Len(g) = 1 /\ g[1] = f
  BY <1>4
<1>11. Len(<<Begun(e)>>) = 1 /\ <<Begun(e)>>[1] = Begun(e)
  OBVIOUS
<1> HIDE DEF g
<1>12. \A k \in 1..Len(g) : Stands(g[k], k, x, d, w) /\ <<Begun(e)>>[k] = CallOf(g[k])
  <2>1. \A k \in 1..Len(g) : k = 1
    BY <1>10
  <2> QED
    BY <1>4, <1>7, <1>10, <1>11, <2>1
<1>13. \A k \in 2..Len(g) : FALSE
  BY <1>10
<1>14. Trace(g, e, x, d, w, <<Begun(e)>>, 0, <<>>)
  BY <1>4, <1>8, <1>9, <1>10, <1>11, <1>12, <1>13 DEF Trace
<1> QED
  BY <1>14 DEF Traced, w

-----------------------------------------------------------------------------
(* What holds of an event whose way is known.                              *)
FollowInv(x) ==
  Followed(event, db, x) =>
    /\ outcome \in {"logging", "running", "done", "panicked"}
    /\ outcome = "panicked" => ~Fits(event)
    /\ outcome = "logging" => pos = 0 /\ values = <<>>
    /\ outcome \in {"running", "done"} => Fits(event) /\ wire = Payload(event)
    /\ outcome = "running" => Traced(event, x, db, wire, stack, pos, values)
    /\ outcome = "done" => /\ pos = Pos(event, Len(event.fields))
                           /\ x = TRUE => values = FieldsOf(event.fields)

(* It holds at the beginning,                                              *)
LEMMA InitFollowInv ==
  ASSUME NEW x \in BOOLEAN, Init
  PROVE  FollowInv(x)
BY DEF Init, FollowInv

(* What is given stays.                                                    *)
LEMMA InputIsFixed ==
  ASSUME Next
  PROVE  event' = event /\ db' = db
BY DEF Next, input, vars, Fail, Crash, Take, TakeOrFail, Enter, Skip, ReadItems, StringRef, Pair,
       FixedText, VarText, Call, Dispatch, Return, Stop, Send, Panic

(* While the event is being logged it is sent, or the device panics.       *)
LEMMA LoggingIs ==
  ASSUME outcome = "logging", Next
  PROVE  Send \/ Panic
BY DEF Next, At, Skip, ReadItems, StringRef, Pair, FixedText, VarText, Call, Dispatch,
       Return, Stop, Finished

(* When it has ended nothing changes.                                      *)
LEMMA FinishedIs ==
  ASSUME Finished, Next
  PROVE  UNCHANGED vars
BY DEF Next, At, Skip, ReadItems, StringRef, Pair, FixedText, VarText, Call, Dispatch,
       Return, Stop, Finished, Send, Panic

(* and every step keeps it: Send by what is sent, run_bc by TracedSteps.   *)
LEMMA NextFollowInv ==
  ASSUME TypeInv, NEW x \in BOOLEAN, FollowInv(x), [Next]_vars
  PROVE  FollowInv(x)'
<1>1. CASE UNCHANGED vars
  BY <1>1 DEF vars, FollowInv, Traced, Trace
<1>2. CASE outcome = "logging" /\ Next
  <2>1. CASE Send
    <3>1. /\ outcome' = "running" /\ wire' = Payload(event) /\ Fits(event)
          /\ stack' = <<Begun(event)>>
          /\ event' = event /\ db' = db /\ pos' = pos /\ values' = values
      BY <2>1 DEF Send, input, Begun
    <3>2. ASSUME Followed(event, db, x)
          PROVE  Traced(event, x, db, wire', stack', pos', values')
      <4>1. pos = 0 /\ values = <<>>
        BY <1>2, <3>2 DEF FollowInv
      <4>2. event \in Events
        BY DEF TypeInv
      <4>3. Traced(event, x, db, Payload(event), <<Begun(event)>>, 0, <<>>)
        BY <3>1, <3>2, <4>2, SentIsTraced
      <4> QED
        BY <3>1, <4>1, <4>3
    <3> QED
      BY <3>1, <3>2 DEF FollowInv
  <2>2. CASE Panic
    BY <2>2 DEF Panic, input, FollowInv
  <2> QED
    BY <1>2, <2>1, <2>2, LoggingIs
<1>3. CASE outcome = "running" /\ Next
  <2>1. event' = event /\ db' = db
    BY <1>3, InputIsFixed
  <2>2. SUFFICES ASSUME Followed(event, db, x) PROVE FollowInv(x)'
    BY <2>1 DEF FollowInv
  <2>3. Traced(event, x, db, wire, stack, pos, values) /\ Fits(event) /\ wire = Payload(event)
    BY <1>3, <2>2 DEF FollowInv
  <2>4. GoesOn(x) \/ EndsWell(x)
    BY <1>3, <2>3, TracedSteps
  <2> QED
    BY <2>3, <2>4 DEF GoesOn, EndsWell, FollowInv
<1>4. CASE Finished /\ Next
  <2>1. UNCHANGED vars
    BY <1>4, FinishedIs
  <2> QED
    BY <1>1, <2>1
<1>5. outcome = "logging" \/ outcome = "running" \/ Finished
  BY DEF TypeInv, Finished
<1> QED
  BY <1>1, <1>2, <1>3, <1>4, <1>5

Inv == TypeInv /\ \A x \in BOOLEAN : FollowInv(x)

(* The inductive invariant holds.                                          *)
LEMMA SpecInv == Spec => []Inv
<1>1. Init => Inv
  BY InitTypeInv, InitFollowInv DEF Inv
<1>2. Inv /\ [Next]_vars => Inv'
  <2> SUFFICES ASSUME Inv, [Next]_vars
               PROVE  Inv'
    OBVIOUS
  <2>1. TypeInv'
    BY NextTypeInv DEF Inv
  <2>2. ASSUME NEW x \in BOOLEAN
        PROVE  FollowInv(x)'
    BY NextFollowInv DEF Inv
  <2> QED
    BY <2>1, <2>2 DEF Inv
<1> QED
  BY <1>1, <1>2, PTL DEF Spec

-----------------------------------------------------------------------------
(* The results.                                                            *)
LEMMA DecodesWell ==
  ASSUME Inv, Finished, IsDecodable
  PROVE  outcome = "done" /\ values = FieldsOf(event.fields)
<1>1. PICK x \in BOOLEAN : x = TRUE
  OBVIOUS
<1>2. FollowInv(x)
  BY DEF Inv
<1>3. Decodable(event, db)
  BY DEF IsDecodable, Decodable
<1>4. Followed(event, db, x)
  BY <1>1, <1>3 DEF Followed
<1>5. Fits(event)
  BY <1>3 DEF Decodable
<1> QED
  BY <1>1, <1>2, <1>4, <1>5 DEF FollowInv, Finished

(* An event that IsDecodable is read back: every field that is not         *)
(* padding, with all its bytes and in order, whatever the types of the     *)
(* program, the target's alignment and the depth of nesting.  The macro's  *)
(* offsets, the compiler's layout, the serializer and run_bc agree.        *)
THEOREM ReadBack == Spec => []ReadsBack
<1>1. Inv => ReadsBack
  BY DecodesWell DEF ReadsBack
<1> QED
  BY <1>1, SpecInv, PTL

(* The bytecode of a Tier-1 struct or of an event with a str consumes the  *)
(* payload to its last byte, whether or not its fields are aligned.        *)
THEOREM PayloadConsumed == Spec => []ConsumesPayload
<1>1. Inv => ConsumesPayload
  <2> SUFFICES ASSUME Inv, outcome = "done", NoTableArrays(event.fields),
                      Tier(event) = "tier1" \/ Has(event.fields, "str")
               PROVE  pos = Len(wire)
    BY DEF ConsumesPayload
  <2>1. PICK x \in BOOLEAN : x = FALSE
    OBVIOUS
  <2>2. FollowInv(x) /\ event \in Events
    BY DEF Inv, TypeInv
  <2>3. Followed(event, db, x)
    BY <2>1 DEF Followed, Consumed
  <2>4. pos = Pos(event, Len(event.fields)) /\ Fits(event) /\ wire = Payload(event)
    BY <2>2, <2>3 DEF FollowInv
  <2>5. Coded(event) /\ (IsStruct(event) \/ IsVariant(event))
    BY <2>2, CodedTypes, EventsAssumption
  <2>6. Tier(event) # "nested"
    BY <2>5, TierIs
  <2>7. Pos(event, Len(event.fields)) = Len(Payload(event))
    BY <2>4, <2>5, <2>6, SentWhole
  <2> QED
    BY <2>4, <2>7
<1> QED
  BY <1>1, SpecInv, PTL

-----------------------------------------------------------------------------
(* Rendering.  The names that a format string may use, as far as field i.  *)
Names(T) == ShownPieces(T, [i \in DOMAIN T |-> <<i>>])
NamedTo(T, i) == Upto(Names(T), i)

(* Each field that is not padding adds its name.                           *)
LEMMA NamesAre ==
  ASSUME NEW T, HoldsTyped(T)
  PROVE  /\ Names(T) \in Seq(Seq(Nat)) /\ Len(Names(T)) = Len(T)
         /\ \A i \in 0..Len(T) : NamedTo(T, i) \in Seq(Nat)
         /\ NamedTo(T, 0) = <<>>
         /\ \A i \in 1..Len(T) :
              /\ T[i].pad = TRUE => NamedTo(T, i) = NamedTo(T, i - 1)
              /\ T[i].pad = FALSE => /\ Names(T)[i] = <<i>>
                                     /\ NamedTo(T, i) = NamedTo(T, i - 1) \o <<i>>
         /\ Shown(T) = NamedTo(T, Len(T)) /\ Shown(T) = FlattenSeq(Names(T))
<1> DEFINE n == Len(T)
           made == [i \in DOMAIN T |-> <<i>>]
<1>1. LaidOut(T) /\ n \in Nat /\ DOMAIN T = 1..n
  BY HoldsTypedIsLaidOut, OffsetsAre
<1>2. \A i \in 1..n : made[i] = <<i>> /\ <<i>> \in Seq(Nat)
  BY <1>1
<1> HIDE DEF made, n
<1>3. \A i \in 1..n : made[i] \in Seq(Nat)
  BY <1>2
<1>4. /\ OfShown(T, made) = FlattenSeq(ShownPieces(T, made))
      /\ ShownPieces(T, made) \in Seq(Seq(Nat))
      /\ Len(ShownPieces(T, made)) = n
  <2> DEFINE S == Nat
  <2>1. \A i \in 1..n : made[i] \in Seq(S)
    BY <1>3
  <2> HIDE DEF S
  <2>2. /\ OfShown(T, made) = FlattenSeq(ShownPieces(T, made))
        /\ ShownPieces(T, made) \in Seq(Seq(S))
        /\ Len(ShownPieces(T, made)) = n
    BY <1>1, <2>1, OfShownIs
  <2> QED
    BY <2>2 DEF S
<1>5. Names(T) = ShownPieces(T, made) /\ Shown(T) = OfShown(T, made)
  BY DEF Names, Shown, made
<1>6. Names(T) \in Seq(Seq(Nat)) /\ Len(Names(T)) = n
  BY <1>4, <1>5
<1>7. \A i \in 1..n : Names(T)[i] = IF T[i].pad THEN <<>> ELSE <<i>>
  BY <1>1, <1>2, <1>5 DEF ShownPieces
<1>8. /\ \A i \in 0..n : NamedTo(T, i) \in Seq(Nat)
      /\ NamedTo(T, 0) = <<>>
      /\ \A i \in 1..n : NamedTo(T, i) = NamedTo(T, i - 1) \o Names(T)[i]
      /\ FlattenSeq(Names(T)) = NamedTo(T, n)
  BY <1>6, UptoJoins DEF NamedTo
<1>9. ASSUME NEW i \in 1..n, T[i].pad = TRUE
      PROVE  NamedTo(T, i) = NamedTo(T, i - 1)
  <2>1. NamedTo(T, i) = NamedTo(T, i - 1) \o <<>>
    BY <1>7, <1>8, <1>9
  <2>2. i - 1 \in 0..n
    BY <1>1
  <2>3. NamedTo(T, i - 1) \in Seq(Nat)
    BY <1>8, <2>2
  <2> QED
    BY <2>1, <2>3
<1>10. ASSUME NEW i \in 1..n, T[i].pad = FALSE
       PROVE  Names(T)[i] = <<i>> /\ NamedTo(T, i) = NamedTo(T, i - 1) \o <<i>>
  BY <1>7, <1>8, <1>10
<1> QED
  BY <1>4, <1>5, <1>6, <1>8, <1>9, <1>10 DEF n

(* A flat field has one value.                                             *)
LEMMA OneValue ==
  ASSUME NEW T \in Seq(FlatFields), NEW i \in 1..Len(T)
  PROVE  \E v \in Seq(CellSet) : FieldValues(T, i) = <<v>>
<1>1. T[i].kind \in {"fixed", "str"} /\ T[i] \in FlatFields /\ LaidOut(T)
  BY FlatIsLaidOut
<1>2. FieldValues(T, i) = FlatValues(T, i)
  BY <1>1 DEF FieldValues
<1>3. FlatValues(T, i) \in Values
  BY <1>1, FlatValuesAre
<1>4. \E v : FlatValues(T, i) = <<v>>
  BY DEF FlatValues
<1>5. PICK v : FlatValues(T, i) = <<v>>
  BY <1>4
<1>6. v \in Seq(CellSet)
  BY <1>3, <1>5 DEF Values
<1> QED
  BY <1>2, <1>5, <1>6

(* Up to field i, the k-th value is that of the field with the k-th name,  *)
(* and the names are in the order of the fields.                           *)
Paired(T, i) ==
  /\ Len(ShownTo(T, i)) = Len(NamedTo(T, i)) /\ Len(NamedTo(T, i)) <= i
  /\ \A k \in 1..Len(NamedTo(T, i)) :
       /\ NamedTo(T, i)[k] \in 1..i
       /\ FieldValues(T, NamedTo(T, i)[k]) = <<ShownTo(T, i)[k]>>
  /\ \A j, k \in 1..Len(NamedTo(T, i)) : j < k => NamedTo(T, i)[j] < NamedTo(T, i)[k]

(* One field more.                                                         *)
LEMMA PairedNext ==
  ASSUME NEW T \in Seq(FlatFields), NEW i \in 1..Len(T), Paired(T, i - 1)
  PROVE  Paired(T, i)
<1> DEFINE a == NamedTo(T, i - 1)
           b == ShownTo(T, i - 1)
<1>1. HoldsTyped(T)
  BY FlatFieldsShown
<1>2. i \in Nat /\ i - 1 \in 0..Len(T)
  OBVIOUS
<1>3. /\ a \in Seq(Nat) /\ b \in Values
      /\ Len(b) = Len(a) /\ Len(a) \in Nat /\ Len(a) <= i - 1
      /\ \A k \in 1..Len(a) : a[k] \in 1..(i - 1) /\ FieldValues(T, a[k]) = <<b[k]>>
      /\ \A j, k \in 1..Len(a) : j < k => a[j] < a[k]
  <2>1. a \in Seq(Nat) /\ b \in Values
    BY <1>1, <1>2, NamesAre, ShowsAre
  <2>2. /\ Len(b) = Len(a) /\ Len(a) <= i - 1
        /\ \A k \in 1..Len(a) : a[k] \in 1..(i - 1) /\ FieldValues(T, a[k]) = <<b[k]>>
        /\ \A j, k \in 1..Len(a) : j < k => a[j] < a[k]
    BY DEF Paired
  <2>3. Len(a) \in Nat
    BY <2>1
  <2> QED
    BY <2>1, <2>2, <2>3
<1>4. CASE T[i].pad = TRUE
  <2>1. NamedTo(T, i) = a /\ ShownTo(T, i) = b
    BY <1>1, <1>4, NamesAre, ShowsAre
  <2>2. Len(a) <= i /\ \A k \in 1..Len(a) : a[k] \in 1..i
    BY <1>2, <1>3
  <2> QED
    BY <1>3, <2>1, <2>2 DEF Paired
<1>5. CASE T[i].pad = FALSE
  <2>1. PICK v \in Seq(CellSet) : FieldValues(T, i) = <<v>>
    BY OneValue
  <2> DEFINE a2 == a \o <<i>>
             b2 == b \o <<v>>
             n == Len(a)
  <2>2. NamedTo(T, i) = a2 /\ ShownTo(T, i) = b2
    BY <1>1, <1>5, <2>1, NamesAre, ShowsAre
  <2>3. /\ n \in Nat /\ Len(a2) = n + 1 /\ a2[n + 1] = i
        /\ \A k \in 1..n : a2[k] = a[k]
    <3> HIDE DEF a, b
    <3> QED
      BY <1>2, <1>3
  <2>4. /\ Len(b2) = n + 1 /\ b2[n + 1] = v
        /\ \A k \in 1..n : b2[k] = b[k]
    <3> HIDE DEF a, b
    <3>1. <<v>> \in Seq(Seq(CellSet)) /\ Len(<<v>>) = 1 /\ <<v>>[1] = v
      OBVIOUS
    <3>2. b \in Seq(Seq(CellSet)) /\ Len(b) = n /\ n \in Nat
      BY <1>3 DEF Values
    <3> DEFINE u == <<v>>
               S == Seq(CellSet)
    <3> HIDE DEF n, u, S
    <3>3. b \in Seq(S) /\ u \in Seq(S)
      BY <3>1, <3>2 DEF u, S
    <3>4. /\ Len(b \o u) = Len(b) + Len(u)
          /\ \A k \in 1..Len(b) : (b \o u)[k] = b[k]
          /\ \A k \in 1..Len(u) : (b \o u)[Len(b) + k] = u[k]
      BY <3>3, ConcatIs
    <3>5. Len(u) = 1 /\ u[1] = v /\ 1 \in 1..Len(u)
      BY DEF u
    <3>6. b2 = b \o u
      BY DEF u
    <3> QED
      BY <3>2, <3>4, <3>5, <3>6
  <2> HIDE DEF a2, b2, a, b, n
  <2>5. \A k \in 1..(n + 1) : k \in 1..n \/ k = n + 1
    BY <2>3
  <2>6. ASSUME NEW k \in 1..(n + 1)
        PROVE  a2[k] \in 1..i /\ FieldValues(T, a2[k]) = <<b2[k]>>
    <3>1. CASE k = n + 1
      BY <1>2, <2>1, <2>3, <2>4, <3>1
    <3>2. CASE k \in 1..n
      <4>1. a[k] \in 1..(i - 1) /\ FieldValues(T, a[k]) = <<b[k]>> /\ a2[k] = a[k] /\ b2[k] = b[k]
        BY <1>3, <2>3, <2>4, <3>2 DEF n
      <4> QED
        BY <1>2, <4>1
    <3> QED
      BY <2>5, <3>1, <3>2
  <2>7. ASSUME NEW j \in 1..(n + 1), NEW k \in 1..(n + 1), j < k
        PROVE  a2[j] < a2[k]
    <3>1. j \in 1..n /\ a2[j] = a[j] /\ a[j] \in 1..(i - 1)
      BY <1>3, <2>3, <2>7 DEF n
    <3>2. CASE k = n + 1
      BY <1>2, <2>3, <3>1, <3>2
    <3>3. CASE k \in 1..n
      BY <1>3, <2>3, <2>7, <3>1, <3>3 DEF n
    <3> QED
      BY <2>5, <3>2, <3>3
  <2>8. n + 1 <= i
    BY <1>2, <1>3 DEF n
  <2> QED
    BY <2>2, <2>3, <2>4, <2>6, <2>7, <2>8 DEF Paired
<1>6. T[i].pad \in BOOLEAN
  <2>1. T[i] \in Fields
    BY DEF Fields
  <2> QED
    BY <2>1, FieldKind
<1> QED
  BY <1>4, <1>5, <1>6

(* All fields.                                                             *)
LEMMA AllPaired ==
  ASSUME NEW T \in Seq(FlatFields)
  PROVE  Paired(T, Len(T))
<1> DEFINE n == Len(T)
           S == {i \in Nat : i <= n => Paired(T, i)}
<1>1. n \in Nat /\ HoldsTyped(T)
  BY FlatFieldsShown
<1>2. 0 \in S
  <2>1. NamedTo(T, 0) = <<>> /\ ShownTo(T, 0) = <<>>
    BY <1>1, NamesAre, ShowsAre
  <2>2. Paired(T, 0)
    BY <2>1 DEF Paired
  <2> QED
    BY <2>2
<1>3. ASSUME NEW k \in Nat, k \in S
      PROVE  k + 1 \in S
  <2>1. k + 1 <= n => Paired(T, k + 1)
    <3> SUFFICES ASSUME k + 1 <= n PROVE Paired(T, k + 1)
      OBVIOUS
    <3>1. k + 1 \in 1..Len(T) /\ (k + 1) - 1 = k /\ Paired(T, k)
      BY <1>1, <1>3
    <3> QED
      BY <3>1, PairedNext
  <2> QED
    BY <2>1
<1> HIDE DEF S
<1>4. Nat \subseteq S
  BY <1>2, <1>3, SetInduction
<1> QED
  BY <1>1, <1>4 DEF S

(* Of pieces of one element each, as far as the m-th, the k-th is the k-th *)
(* element of all.                                                         *)
LEMMA Singles ==
  ASSUME NEW X, NEW ss \in Seq(Seq(X)), NEW m \in 0..Len(ss),
         \A k \in 1..m : Len(ss[k]) = 1
  PROVE  /\ Len(Upto(ss, m)) = m
         /\ \A k \in 1..m : FlattenSeq(ss)[k] = ss[k][1] /\ k \in 1..Len(FlattenSeq(ss))
<1> DEFINE S == {i \in Nat : i <= m => Len(Upto(ss, i)) = i}
<1>1. Len(ss) \in Nat /\ m \in Nat /\ m <= Len(ss)
  OBVIOUS
<1>2. 0 \in S
  <2>1. Upto(ss, 0) = <<>>
    BY UptoJoins
  <2>2. Len(Upto(ss, 0)) = 0
    BY <2>1
  <2> QED
    BY <2>2
<1>3. ASSUME NEW k \in Nat, k \in S
      PROVE  k + 1 \in S
  <2>1. k + 1 <= m => Len(Upto(ss, k + 1)) = k + 1
    <3> SUFFICES ASSUME k + 1 <= m PROVE Len(Upto(ss, k + 1)) = k + 1
      OBVIOUS
    <3>1. k + 1 \in 1..Len(ss) /\ k + 1 \in 1..m /\ (k + 1) - 1 = k /\ Len(Upto(ss, k)) = k
      BY <1>1, <1>3
    <3>2. Len(Upto(ss, k + 1)) = Len(Upto(ss, (k + 1) - 1)) + Len(ss[k + 1])
      BY <3>1, UptoLen
    <3>3. Len(ss[k + 1]) = 1
      BY <3>1
    <3> QED
      BY <3>1, <3>2, <3>3
  <2> QED
    BY <2>1
<1> HIDE DEF S
<1>4. Nat \subseteq S
  BY <1>2, <1>3, SetInduction
<1>5. \A i \in 0..m : Len(Upto(ss, i)) = i
  BY <1>1, <1>4 DEF S
<1>6. ASSUME NEW k \in 1..m
      PROVE  FlattenSeq(ss)[k] = ss[k][1] /\ k \in 1..Len(FlattenSeq(ss))
  <2>1. k \in 1..Len(ss) /\ k - 1 \in 0..m
    BY <1>1
  <2>4. Len(ss[k]) = 1 /\ 1 \in 1..Len(ss[k])
    <3>1. Len(ss[k]) = 1
      OBVIOUS
    <3>2. 1 \in 1..1
      OBVIOUS
    <3> QED
      BY ONLY <3>1, <3>2
  <2>2. /\ FlattenSeq(ss)[Len(Upto(ss, k - 1)) + 1] = ss[k][1]
        /\ Len(Upto(ss, k - 1)) + 1 \in 1..Len(FlattenSeq(ss))
    BY <2>1, <2>4, UptoAt
  <2>3. Len(Upto(ss, k - 1)) + 1 = k
    BY <1>5, <2>1
  <2> QED
    BY <2>2, <2>3
<1> QED
  BY <1>1, <1>5, <1>6

(* The k-th value that the host gets is the value of the k-th field that   *)
(* is shown.                                                               *)
LEMMA ShownIs ==
  ASSUME NEW T \in Seq(FlatFields)
  PROVE  /\ Shown(T) \in Seq(Nat) /\ Len(Shown(T)) \in Nat /\ Len(Shown(T)) <= Len(T)
         /\ FieldsOf(T) \in Values /\ Len(FieldsOf(T)) = Len(Shown(T))
         /\ \A k \in 1..Len(Shown(T)) :
              /\ Shown(T)[k] \in 1..Len(T)
              /\ FieldValues(T, Shown(T)[k]) = <<FieldsOf(T)[k]>>
         /\ \A j, k \in 1..Len(Shown(T)) : j < k => Shown(T)[j] < Shown(T)[k]
<1>1. HoldsTyped(T) /\ Len(T) \in Nat
  BY FlatFieldsShown
<1>2. Len(T) \in 0..Len(T)
  BY <1>1
<1>3. Shown(T) = NamedTo(T, Len(T)) /\ NamedTo(T, Len(T)) \in Seq(Nat)
  BY <1>1, <1>2, NamesAre
<1>4. FieldsOf(T) = ShownTo(T, Len(T)) /\ FieldsOf(T) \in Values
  BY <1>1, ShowsAre, FieldsOfIs
<1>5. Len(Shown(T)) \in Nat
  BY <1>3
<1> QED
  BY <1>3, <1>4, <1>5, AllPaired DEF Paired

(* A format string that names the first fields that are shown, in order.   *)
LEMMA FormatIs ==
  ASSUME NEW T \in Seq(FlatFields), NEW e, e.fields = T, NEW f \in Formats(e),
         IsPrefix(f, Shown(T))
  PROVE  /\ Len(f) \in Nat /\ DOMAIN f = 1..Len(f) /\ Len(f) <= Len(Shown(T))
         /\ \A k \in 1..Len(f) : f[k] = Shown(T)[k]
<1> DEFINE N == Shown(T)
           n == Len(N)
           m == Max({n, 1})
<1>1. N \in Seq(Nat) /\ n \in Nat
  BY ShownIs
<1>2. f \in {<<>>, SubSeq(N, 1, n - 1), N, SubSeq(N, m, n)}
  BY DEF Formats
<1>3. m \in Nat /\ m >= 1 /\ (n >= 1 => m = n) /\ (n = 0 => m = 1)
  <2>1. \E y \in {n, 1} : \A z \in {n, 1} : y >= z
    BY <1>1
  <2>2. m \in {n, 1} /\ \A z \in {n, 1} : m >= z
    BY <2>1 DEF Max
  <2> HIDE DEF m
  <2> QED
    BY <1>1, <2>2
<1> HIDE DEF N, n, m
<1>4. f \in Seq(Nat)
  <2>1. SubSeq(N, 1, n - 1) \in Seq(Nat)
    BY <1>1 DEF n
  <2>2. SubSeq(N, m, n) \in Seq(Nat)
    BY <1>1, <1>3 DEF n
  <2>3. <<>> \in Seq(Nat)
    OBVIOUS
  <2> QED
    BY <1>1, <1>2, <2>1, <2>2, <2>3
<1>5. Len(f) \in Nat /\ DOMAIN f = 1..Len(f)
  BY <1>4
<1>6. Len(f) <= n /\ SubSeq(f, 1, Len(f)) = SubSeq(N, 1, Len(f))
  BY DEF IsPrefix, N, n
<1>7. ASSUME NEW k \in 1..Len(f)
      PROVE  f[k] = N[k]
  <2>1. SubSeq(f, 1, Len(f))[k] = f[k]
    BY <1>4, <1>5
  <2>2. SubSeq(N, 1, Len(f))[k] = N[k]
    BY <1>1, <1>5, <1>6 DEF n
  <2> QED
    BY <1>6, <2>1, <2>2
<1> QED
  BY <1>5, <1>6, <1>7 DEF N, n

(* The placeholder that names a field gets that field.                     *)
LEMMA AccessedIs ==
  ASSUME NEW T \in Seq(FlatFields), NEW e, e.fields = T, NEW f \in Formats(e),
         IsPrefix(f, Shown(T)), NEW k \in 1..Len(f)
  PROVE  Accessed(e, f[k]) = Shown(T)[k]
<1> DEFINE N == Shown(T)
           m == Len(f)
<1>1. /\ m \in Nat /\ DOMAIN f = 1..m /\ m <= Len(N)
      /\ \A j \in 1..m : f[j] = N[j]
  BY FormatIs
<1>2. /\ N \in Seq(Nat) /\ Len(N) \in Nat /\ Len(N) <= Len(T) /\ DOMAIN N = 1..Len(N)
      /\ \A i, j \in 1..Len(N) : i < j => N[i] < N[j]
      /\ \A j \in 1..Len(N) : N[j] \in 1..Len(T)
  BY ShownIs
<1>3. CASE Tier(e) # "variant"
  BY <1>1, <1>3 DEF Accessed
<1>4. CASE Tier(e) = "variant"
  <2>1. ASSUME NEW j \in 1..m
        PROVE  Accessed(e, f[j]) = j
    <3>1. j \in 1..Len(N) /\ f[j] = N[j]
      BY <1>1, <1>2
    <3>2. \A i \in 1..Len(N) : N[i] = N[j] => i = j
      <4> TAKE i \in 1..Len(N)
      <4>1. i < j \/ i = j \/ j < i
        BY <1>2, <3>1
      <4>2. N[i] \in Int /\ N[j] \in Int
        BY <1>2, <3>1
      <4> QED
        BY <1>2, <3>1, <4>1, <4>2
    <3>3. Accessed(e, f[j]) = CHOOSE i \in DOMAIN Shown(e.fields) : Shown(e.fields)[i] = f[j]
      BY <1>4 DEF Accessed
    <3>4. Accessed(e, f[j]) = CHOOSE i \in 1..Len(N) : N[i] = N[j]
      BY <1>2, <3>1, <3>3
    <3> HIDE DEF N, m
    <3> QED
      BY <3>1, <3>2, <3>4
  <2>2. ASSUME NEW j \in 1..m
        PROVE  T[j].pad = FALSE /\ j \in 1..Len(T)
    <3>1. ~e.fields[Accessed(e, f[j])].pad
      BY <1>1 DEF Formats
    <3>2. j \in 1..Len(T)
      BY <1>1, <1>2
    <3>3. T[j].pad \in BOOLEAN
      <4>1. T[j] \in Fields
        BY <3>2 DEF Fields
      <4> QED
        BY <4>1, FieldKind
    <3> QED
      BY <2>1, <3>1, <3>2, <3>3
  <2>3. HoldsTyped(T)
    BY FlatFieldsShown
  <2>4. \A j \in 1..m : Names(T)[j] = <<j>>
    BY <2>2, <2>3, NamesAre
  <2>5. Names(T) \in Seq(Seq(Nat)) /\ Len(Names(T)) = Len(T) /\ N = FlattenSeq(Names(T))
    BY <2>3, NamesAre
  <2>6. \A j \in 1..m : Len(Names(T)[j]) = 1
    <3> TAKE j \in 1..m
    <3>1. Len(<<j>>) = 1
      OBVIOUS
    <3> QED
      BY <2>4, <3>1
  <2>9. Len(T) \in Nat
    BY DEF Fields
  <2>10. m <= Len(Names(T))
    BY <1>1, <1>2, <2>5, <2>9
  <2>11. m \in 0..Len(Names(T))
    BY <1>1, <2>5, <2>9, <2>10
  <2>7. FlattenSeq(Names(T))[k] = Names(T)[k][1]
    BY <2>5, <2>6, <2>11, Singles
  <2>8. N[k] = k
    BY <2>4, <2>5, <2>7
  <2> QED
    BY <2>1, <2>8
<1> QED
  BY <1>3, <1>4

(* The format string is one that compiles, and stays the same.             *)
LEMMA SpecFormat == Spec => [](format \in Formats(event))
<1>1. Init => format \in Formats(event)
  BY DEF Init
<1>2. format \in Formats(event) /\ [Next]_vars => (format \in Formats(event))'
  <2>1. Next => format' = format /\ event' = event
    BY DEF Next, input, vars, Fail, Crash, Take, TakeOrFail, Enter, Skip, ReadItems, StringRef,
           Pair, FixedText, VarText, Call, Dispatch, Return, Stop, Send, Panic
  <2>2. UNCHANGED vars => format' = format /\ event' = event
    BY DEF vars
  <2>3. event' = event => Formats(event)' = Formats(event)
    BY DEF Formats, Accessed
  <2> QED
    BY <2>1, <2>2, <2>3
<1> QED
  BY <1>1, <1>2, PTL DEF Spec

(* The host's text shows what the device's text shows.                     *)
LEMMA SameText ==
  ASSUME NEW T \in Seq(FlatFields), event.fields = T, format \in Formats(event),
         IsPrefix(format, Shown(T))
  PROVE  Render(format, FieldsOf(T)) = DeviceText
<1> DEFINE V == FieldsOf(T)
           m == Len(format)
           piece(k) == FieldValues(T, Accessed(event, format[k]))
           made == [k \in 1..m |-> piece(k)]
<1>1. m \in Nat /\ DOMAIN format = 1..m /\ m <= Len(Shown(T))
  BY FormatIs
<1>2. /\ V \in Values /\ Len(V) = Len(Shown(T)) /\ Len(Shown(T)) \in Nat
      /\ \A k \in 1..Len(Shown(T)) : FieldValues(T, Shown(T)[k]) = <<V[k]>>
  BY ShownIs
<1>3. \A k \in 1..m : k \in 1..Len(V) /\ V[k] \in Seq(CellSet)
  BY <1>1, <1>2 DEF Values
<1>4. ASSUME NEW k \in 1..m
      PROVE  piece(k) = <<V[k]>> /\ piece(k) \in Seq(Seq(CellSet))
  <2>1. Accessed(event, format[k]) = Shown(T)[k]
    BY AccessedIs
  <2>2. piece(k) = <<V[k]>>
    BY <1>2, <1>3, <2>1
  <2>3. V[k] \in Seq(CellSet)
    BY <1>3
  <2> HIDE DEF V, piece
  <2> QED
    BY <2>2, <2>3
<1>5. DeviceText = FlattenSeq(made)
  BY <1>1 DEF DeviceText
<1> HIDE DEF piece, V, m
<1>6. made \in Seq(Seq(Seq(CellSet))) /\ Len(made) = m /\ \A k \in 1..m : made[k] = piece(k)
  BY <1>1, <1>4
<1> HIDE DEF made
<1> DEFINE S == Seq(CellSet)
           D == FlattenSeq(made)
           R == SubSeq(V, 1, m)
<1>7. \A k \in 1..m : Len(made[k]) = 1 /\ made[k][1] = V[k]
  BY <1>4, <1>6
<1>8. Len(D) = m /\ D \in Values /\ \A k \in 1..m : D[k] = V[k]
  <2>1. made \in Seq(Seq(S)) /\ m \in 0..Len(made) /\ Len(made) = m
    BY <1>1, <1>6
  <2> HIDE DEF S
  <2>2. Len(Upto(made, m)) = m /\ \A k \in 1..m : FlattenSeq(made)[k] = made[k][1]
    BY <1>7, <2>1, Singles
  <2>3. FlattenSeq(made) = Upto(made, m) /\ Upto(made, m) \in Seq(S)
    BY <2>1, UptoJoins
  <2> QED
    BY <1>7, <2>2, <2>3 DEF Values, S
<1>9. Len(R) = m /\ R \in Values /\ \A k \in 1..m : R[k] = V[k]
  <2>1. V \in Seq(S) /\ m \in Nat /\ m <= Len(V)
    BY <1>1, <1>2 DEF Values
  <2> HIDE DEF S
  <2>2. Len(R) = m /\ R \in Seq(S) /\ \A k \in 1..m : R[k] = V[k]
    BY <2>1
  <2> QED
    BY <2>2 DEF Values, S
<1> HIDE DEF D, R
<1>10. D = R
  BY <1>8, <1>9, SameValues
<1> QED
  BY <1>5, <1>10 DEF Render, D, R, V, m

(* The host's text shows what the device's text shows when the format      *)
(* string names the fields in the order of their declaration and leaves    *)
(* out none but the last ones, for every event of flat fields.             *)
THEOREM SameTexts == Spec => []TextAgrees
<1>1. Inv /\ format \in Formats(event) => TextAgrees
  <2> SUFFICES ASSUME Inv, format \in Formats(event), outcome = "done", IsDecodable,
                      IsPrefix(format, Shown(event.fields)),
                      ~Has(event.fields, "nested"), ~Has(event.fields, "inline")
               PROVE  Render(format, values) = DeviceText
    BY DEF TextAgrees
  <2>1. values = FieldsOf(event.fields)
    BY DecodesWell DEF Finished
  <2>2. Coded(event) /\ (IsStruct(event) \/ IsVariant(event))
    BY CodedTypes, EventsAssumption DEF Inv, TypeInv
  <2>3. Tier(event) # "nested"
    BY <2>2 DEF Tier, IsStruct, IsVariant, Variant, Struct
  <2>4. event.fields \in Seq(FlatFields)
    BY <2>2, <2>3, TierIs
  <2> QED
    BY <2>1, <2>4, SameText
<1> QED
  BY <1>1, SpecInv, SpecFormat, PTL
=============================================================================
