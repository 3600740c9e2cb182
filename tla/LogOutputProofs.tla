--------------------------- MODULE LogOutputProofs ---------------------------
(***************************************************************************)
(* Proofs about LogOutput, and before them what DeviceFormat computes for  *)
(* every value and spec: powers and digit counts, and that the writes of a *)
(* value are texts.                                                        *)
(***************************************************************************)
EXTENDS LogOutput, SequenceLemmas

-----------------------------------------------------------------------------
(* The formatters.                                                         *)

(* g[i] is base^i.                                                         *)
Powers(g, b, n) ==
  /\ g \in [0..n -> Nat]
  /\ g[0] = 1
  /\ \A i \in 1..n : g[i] = b * g[i - 1]

(* There are the powers of every number.                                   *)
LEMMA PowersExist ==
  ASSUME NEW b \in Nat, NEW n \in Nat
  PROVE  \E g : Powers(g, b, n)
<1> DEFINE F == [i \in 1..n |-> [x \in Nat |-> b * x]]
<1>1. F \in [1..n -> [Nat -> Nat]]
  OBVIOUS
<1>2. \A x \in Nat, i \in 1..n : F[i][x] = b * x
  OBVIOUS
<1> HIDE DEF F
<1>3. PICK g : Iterates(g, Nat, 1, n, F)
  BY <1>1, Recursion
<1>4. ASSUME NEW i \in 1..n
      PROVE  g[i] = b * g[i-1]
  <2>1. g[i-1] \in Nat /\ g[i] = F[i][g[i-1]]
    BY <1>3 DEF Iterates
  <2> QED
    BY <1>2, <2>1
<1>5. Powers(g, b, n)
  BY <1>3, <1>4 DEF Powers, Iterates
<1> QED
  BY <1>5

(* Power is a power.                                                       *)
LEMMA PowerIs ==
  ASSUME NEW b \in Nat, NEW n \in Nat, NEW m \in Nat, n <= m,
         NEW g, Powers(g, b, m)
  PROVE  Power(b, n) = g[n]
<1> DEFINE Rec(f) == [i \in 0..n |-> IF i = 0 THEN 1 ELSE b * f[i-1]]
           f0 == CHOOSE f : f = Rec(f)
           h == [i \in 0..n |-> g[i]]
<1>1. h = Rec(h)
  <2>1. ASSUME NEW i \in 0..n
        PROVE  g[i] = IF i = 0 THEN 1 ELSE b * h[i-1]
    <3>1. i # 0 => i - 1 \in 0..n /\ i \in 1..m
      OBVIOUS
    <3>2. i # 0 => h[i-1] = g[i-1]
      BY <3>1
    <3> QED
      BY <3>1, <3>2 DEF Powers
  <2> HIDE DEF h
  <2>2. Rec(h) = [i \in 0..n |-> g[i]]
    BY <2>1
  <2> QED
    BY <2>2 DEF h
<1>2. f0 = Rec(f0)
  BY <1>1
<1>3. Power(b, n) = f0[n]
  BY DEF Power
<1> HIDE DEF f0
<1>4. \A i \in 0..n : f0[i] = IF i = 0 THEN 1 ELSE b * f0[i-1]
  BY <1>2
<1>5. Follows(f0, g, n)
  <2>1. f0[0] = g[0]
    BY <1>4 DEF Powers
  <2>2. ASSUME NEW i \in 1..n, f0[i - 1] = g[i - 1]
        PROVE  f0[i] = g[i]
    <3>1. i \in 0..n /\ i # 0 /\ i \in 1..m
      OBVIOUS
    <3> QED
      BY <1>4, <2>2, <3>1 DEF Powers
  <2> QED
    BY <2>1, <2>2 DEF Follows
<1>6. n \in 0..n
  OBVIOUS
<1> QED
  BY <1>3, <1>5, <1>6, SameSteps

(* Power multiplies by the base at every step.                             *)
LEMMA PowerFacts ==
  ASSUME NEW b \in Nat, NEW n \in Nat
  PROVE  /\ Power(b, n) \in Nat
         /\ Power(b, 0) = 1
         /\ Power(b, n + 1) = b * Power(b, n)
<1>1. PICK g : Powers(g, b, n + 1)
  BY PowersExist
<1>2. Power(b, n + 1) = g[n+1] /\ Power(b, n) = g[n] /\ Power(b, 0) = g[0]
  BY <1>1, PowerIs
<1>3. n + 1 \in 1..(n+1) /\ (n + 1) - 1 = n /\ n \in 0..(n+1)
  OBVIOUS
<1> QED
  BY <1>1, <1>2, <1>3 DEF Powers

(* No power of a positive number is 0.                                     *)
LEMMA PowerIsPositive ==
  ASSUME NEW b \in Nat \ {0}, NEW n \in Nat
  PROVE  Power(b, n) \in Nat \ {0}
<1> DEFINE S == {i \in Nat : Power(b, i) # 0}
<1>1. 0 \in S
  BY PowerFacts
<1>2. ASSUME NEW i \in Nat, i \in S
      PROVE  i + 1 \in S
  <2>1. Power(b, i) \in Nat \ {0} /\ Power(b, i+1) = b * Power(b, i)
    BY <1>2, PowerFacts
  <2>2. \A x, y \in Nat \ {0} : x * y # 0
    OBVIOUS
  <2> QED
    BY <2>1, <2>2
<1> HIDE DEF S
<1>3. n \in S
  BY <1>1, <1>2, SetInduction
<1> QED
  BY <1>3, PowerFacts DEF S

(* A product grows with its factors.                                       *)
LEMMA ProductIsMonotone ==
  ASSUME NEW a \in Nat, NEW b \in Nat, NEW c \in Nat, NEW d \in Nat, a <= b, c <= d
  PROVE  a * c <= b * d
<1>1. a * c <= b * c
  <2>1. (b - a) * c >= 0
    OBVIOUS
  <2>2. b * c = a * c + (b - a) * c
    OBVIOUS
  <2> QED
    BY <2>1, <2>2
<1>2. b * c <= b * d
  <2>1. b * (d - c) >= 0
    OBVIOUS
  <2>2. b * d = b * c + b * (d - c)
    OBVIOUS
  <2> QED
    BY <2>1, <2>2
<1> QED
  BY <1>1, <1>2

(* A power grows with its exponent.                                        *)
LEMMA PowerIsMonotone ==
  ASSUME NEW b \in Nat \ {0}, NEW m \in Nat, NEW n \in Nat, m <= n
  PROVE  Power(b, m) <= Power(b, n)
<1> DEFINE S == {i \in Nat : Power(b, m) <= Power(b, m + i)}
<1>1. 0 \in S
  BY PowerFacts
<1>2. ASSUME NEW i \in Nat, i \in S
      PROVE  i + 1 \in S
  <2>1. Power(b, m + i) \in Nat /\ Power(b, m + (i + 1)) = b * Power(b, m + i)
    <3>1. m + i \in Nat /\ m + (i + 1) = (m + i) + 1
      OBVIOUS
    <3> QED
      BY <3>1, PowerFacts
  <2>2. Power(b, m + i) <= b * Power(b, m + i)
    BY <2>1, ProductIsMonotone
  <2> QED
    BY <1>2, <2>1, <2>2, PowerFacts
<1> HIDE DEF S
<1>3. n - m \in S
  <2>1. n - m \in Nat
    OBVIOUS
  <2> QED
    BY <1>1, <1>2, <2>1, SetInduction
<1> QED
  BY <1>3 DEF S

(* The powers of 2 are the least.                                          *)
LEMMA PowerOfTwoIsLeast ==
  ASSUME NEW b \in Nat, b >= 2, NEW n \in Nat
  PROVE  Power(2, n) <= Power(b, n)
<1> DEFINE S == {i \in Nat : Power(2, i) <= Power(b, i)}
<1>1. 0 \in S
  BY PowerFacts
<1>2. ASSUME NEW i \in Nat, i \in S
      PROVE  i + 1 \in S
  <2>1. Power(2, i+1) = 2 * Power(2, i) /\ Power(b, i+1) = b * Power(b, i)
    BY PowerFacts
  <2>2. Power(2, i) \in Nat /\ Power(b, i) \in Nat /\ Power(2, i) <= Power(b, i)
    BY <1>2, PowerFacts
  <2>3. 2 * Power(2, i) <= b * Power(b, i)
    BY <2>2, ProductIsMonotone
  <2> QED
    BY <2>1, <2>3
<1> HIDE DEF S
<1>3. n \in S
  BY <1>1, <1>2, SetInduction
<1> QED
  BY <1>3 DEF S

-----------------------------------------------------------------------------
(* A number is its quotient times the divisor, plus a remainder.           *)
LEMMA DivisionIsNat ==
  ASSUME NEW x \in Nat, NEW y \in Nat \ {0}
  PROVE  /\ x \div y \in Nat
         /\ x % y \in 0 .. y - 1
         /\ x = y * (x \div y) + (x % y)
OBVIOUS

(* The numbers of values of the integer types; a byte has at most 256.     *)
LEMMA ValuesFacts ==
  /\ \A size \in {1, 2, 4, 8} : Values(size) \in Nat /\ Values(size) <= Values(8)
  /\ \A i \in Nat : Values(i) \in Nat \ {0}
  /\ Values(1) <= 256
  /\ Values(8) >= 256
  /\ U64Max \in Nat
<1>1. ByteBits \in 1..8
  BY FormatAssumption
<1>2. ASSUME NEW i \in Nat
      PROVE  i * ByteBits \in Nat
  BY <1>1
<1>3. ASSUME NEW i \in Nat
      PROVE  Values(i) \in Nat \ {0}
  BY <1>2, PowerIsPositive DEF Values
<1>4. ASSUME NEW size \in {1, 2, 4, 8}
      PROVE  Values(size) <= Values(8)
  <2>1. size * ByteBits <= 8 * ByteBits
    BY <1>1
  <2>2. size * ByteBits \in Nat /\ 8 * ByteBits \in Nat
    BY <1>2
  <2> QED
    BY <2>1, <2>2, PowerIsMonotone DEF Values
<1>5. Power(2, 8) = 256
  <2>1. Power(2, 0) = 1
    BY PowerFacts
  <2>2. \A k \in 0..7 : Power(2, k + 1) = 2 * Power(2, k)
    BY PowerFacts
  <2>3. Power(2, 1) = 2 /\ Power(2, 2) = 4
    BY <2>1, <2>2
  <2>4. Power(2, 3) = 8 /\ Power(2, 4) = 16
    BY <2>2, <2>3
  <2>5. Power(2, 5) = 32 /\ Power(2, 6) = 64
    BY <2>2, <2>4
  <2> QED
    BY <2>2, <2>5
<1>6. Values(1) <= 256
  <2>1. 1 * ByteBits \in Nat /\ 1 * ByteBits <= 8
    BY <1>1
  <2> QED
    BY <2>1, <1>5, PowerIsMonotone DEF Values
<1>7. Values(8) >= 256
  <2>1. 8 * ByteBits \in Nat /\ 8 <= 8 * ByteBits
    BY <1>1
  <2>2. Power(2, 8) <= Power(2, 8 * ByteBits)
    BY <2>1, PowerIsMonotone
  <2>3. Power(2, 8 * ByteBits) \in Nat
    BY <2>1, PowerFacts
  <2> QED
    BY <2>2, <2>3, <1>5 DEF Values
<1> QED
  BY <1>3, <1>4, <1>6, <1>7 DEF U64Max

(* DigitCount is defined for every u64, and is the number of its digits:   *)
(* one less are too few.                                                   *)
LEMMA DigitCountFacts ==
  ASSUME NEW n \in Nat, n < Values(8), NEW b \in Nat, b >= 2
  PROVE  /\ DigitCount(n, b) \in 1 .. 8 * ByteBits
         /\ n < Power(b, DigitCount(n, b))
         /\ DigitCount(n, b) = 1 \/ Power(b, DigitCount(n, b) - 1) <= n
<1> DEFINE S == {k \in Nat : k >= 1 /\ n < Power(b, k)}
           P(k) == n < Power(b, k) /\ (k = 1 \/ Power(b, k - 1) <= n)
<1>1. ByteBits \in 1..8
  BY FormatAssumption
<1>2. 8 * ByteBits \in S
  <2>1. 8 * ByteBits \in Nat /\ 8 * ByteBits >= 1
    BY <1>1
  <2>2. Power(2, 8 * ByteBits) <= Power(b, 8 * ByteBits)
    BY <2>1, PowerOfTwoIsLeast
  <2>3. Power(2, 8 * ByteBits) \in Nat /\ Power(b, 8 * ByteBits) \in Nat
    BY <2>1, PowerFacts
  <2> QED
    BY <2>1, <2>2, <2>3 DEF Values
<1>3. PICK m \in S : \A k \in S : m <= k
  BY <1>2, Least
<1>4. m \in 1 .. 8 * ByteBits
  BY <1>1, <1>2, <1>3
<1>5. P(m)
  <2> SUFFICES ASSUME m # 1
               PROVE  Power(b, m - 1) <= n
    BY <1>3
  <2>1. m - 1 \in Nat /\ m - 1 >= 1 /\ ~(m <= m - 1)
    BY <1>4
  <2>2. m - 1 \notin S
    BY <1>3, <2>1
  <2>3. Power(b, m - 1) \in Nat
    BY <2>1, PowerFacts
  <2> QED
    BY <2>1, <2>2, <2>3
<1>6. \E k \in 1 .. 8 * ByteBits : P(k)
  BY <1>4, <1>5
<1>7. DigitCount(n, b) = CHOOSE k \in 1 .. 8 * ByteBits : P(k)
  BY DEF DigitCount
<1> HIDE DEF P
<1>8. DigitCount(n, b) \in 1 .. 8 * ByteBits /\ P(DigitCount(n, b))
  BY <1>6, <1>7
<1> QED
  BY <1>8 DEF P

-----------------------------------------------------------------------------
DigitChars == {"0", "1", "2", "3", "4", "5", "6", "7", "8", "9",
               "a", "b", "c", "d", "e", "f", "A", "B", "C", "D", "E", "F"}

\* The characters of a program's texts, and those that Format writes.
Char == STRING \cup DigitChars \cup {" ", "+", "-", ".", "\\"} \cup Types

(* The texts of a program are texts.                                       *)
LEMMA TextIsOfChars == Seq(STRING) \subseteq Seq(Char)
<1>1. STRING \subseteq Char
  BY DEF Char
<1>2. \A S, T : S \subseteq T => Seq(S) \subseteq Seq(T)
  OBVIOUS
<1> QED
  BY <1>1, <1>2

(* The digits of both tables.                                              *)
LEMMA DigitType ==
  \A i \in 1..16 : Digit[i] \in DigitChars /\ UpperDigit[i] \in DigitChars
<1> TAKE i \in 1..16
<1>1. i \in {1, 2, 3, 4, 5, 6, 7, 8, 9, 10, 11, 12, 13, 14, 15, 16}
  OBVIOUS
<1>2. Digit[i] \in DigitChars
  BY <1>1 DEF Digit, DigitChars
<1>3. UpperDigit[i] \in DigitChars
  BY <1>1 DEF UpperDigit, DigitChars
<1> QED
  BY <1>2, <1>3

(* The index of a digit is in the table (format.rs:101).                   *)
LEMMA DigitIndex ==
  ASSUME NEW n \in Nat, NEW p \in Nat \ {0}, NEW b \in 1..16
  PROVE  ((n \div p) % b) + 1 \in 1..b
<1>1. n \div p \in Nat
  OBVIOUS
<1> QED
  BY <1>1

(* write_digits writes digits.                                             *)
LEMMA WriteDigitsType ==
  ASSUME NEW n \in Nat, n < Values(8), NEW b \in 2..16,
         NEW digits, \A i \in 1..16 : digits[i] \in DigitChars
  PROVE  WriteDigits(n, b, digits) \in Seq(Char)
<1> DEFINE count == DigitCount(n, b)
           d == [i \in 1..count |-> digits[((n \div Power(b, count - i)) % b) + 1]]
<1>1. count \in Nat
  BY DigitCountFacts, FormatAssumption
<1>2. ASSUME NEW i \in 1..count
      PROVE  digits[((n \div Power(b, count - i)) % b) + 1] \in DigitChars
  <2>1. count - i \in Nat /\ b \in Nat \ {0}
    BY <1>1
  <2>2. Power(b, count - i) \in Nat \ {0}
    BY <2>1, PowerIsPositive
  <2>3. ((n \div Power(b, count - i)) % b) + 1 \in 1..b
    BY <2>2, DigitIndex
  <2> QED
    BY <2>3
<1>3. WriteDigits(n, b, digits) = d
  BY DEF WriteDigits
<1> HIDE DEF count
<1>4. d \in [1..count -> Char]
  BY <1>2 DEF Char
<1> QED
  BY <1>1, <1>3, <1>4

-----------------------------------------------------------------------------
Specs ==
  [align : {"", "<", ">"}, sign : BOOLEAN, alternate : BOOLEAN, zero : BOOLEAN,
   width : Nat, precision : SUBSET Nat, ty : {""} \cup Types]

IsSpec(spec) ==
  /\ spec.align \in {"", "<", ">"}
  /\ spec.width \in Nat
  /\ spec.precision \subseteq Nat
  /\ spec.ty \in {""} \cup Types

\* The spec of a ZfmtStr.
HexSpec(spec) ==
  [spec EXCEPT !.ty = "x", !.alternate = TRUE, !.zero = TRUE, !.width = ByteBits + 2]

(* A record of the parts of a spec is a spec.                              *)
LEMMA SpecRecord ==
  ASSUME NEW align \in {"", "<", ">"}, NEW sign \in BOOLEAN,
         NEW alternate \in BOOLEAN, NEW zero \in BOOLEAN, NEW width \in Nat,
         NEW precision \in SUBSET Nat, NEW ty \in {""} \cup Types
  PROVE  [align |-> align, sign |-> sign, alternate |-> alternate, zero |-> zero,
          width |-> width, precision |-> precision, ty |-> ty] \in Specs
BY Zenon DEF Specs

(* What the macro makes of a spec that it accepts is a spec.               *)
LEMMA MacroSpecType ==
  ASSUME NEW w \in AllWritten, MacroAccepts(w)
  PROVE  MacroSpec(w) \in Specs
<1>1. OrElse(w.width, 0) \in Nat
  BY DEF OrElse, AllWritten
<1>2. w.precision \in SUBSET Nat
  <2>1. w.precision \subseteq Nat \cup {NoDigits}
    BY DEF AllWritten
  <2>2. NoDigits \notin w.precision
    BY DEF MacroAccepts
  <2> QED
    BY <2>1, <2>2
<1>3. (IF w.rest = <<>> THEN "" ELSE w.rest[1]) \in {""} \cup Types
  BY DEF MacroAccepts
<1>4. w.align \in {"", "<", ">"}
  BY DEF AllWritten
<1> DEFINE ty == IF w.rest = <<>> THEN "" ELSE w.rest[1]
           width == OrElse(w.width, 0)
           sign == "+" \in w.flags
           alternate == "#" \in w.flags
           zero == "0" \in w.flags
<1>5. sign \in BOOLEAN /\ alternate \in BOOLEAN /\ zero \in BOOLEAN
  OBVIOUS
<1>6. MacroSpec(w) = [align |-> w.align, sign |-> sign, alternate |-> alternate,
                      zero |-> zero, width |-> width,
                      precision |-> w.precision, ty |-> ty]
  BY DEF MacroSpec, Spec
<1>7. ty \in {""} \cup Types /\ width \in Nat
  BY <1>1, <1>3
<1> HIDE DEF ty, width, sign, alternate, zero
<1>8. [align |-> w.align, sign |-> sign, alternate |-> alternate, zero |-> zero,
       width |-> width, precision |-> w.precision, ty |-> ty] \in Specs
  BY <1>2, <1>4, <1>5, <1>7, SpecRecord, Zenon
<1> QED
  BY <1>6, <1>8

(* Every spec has the parts that Format reads.                             *)
LEMMA SpecsAreSpecs ==
  ASSUME NEW spec \in Specs
  PROVE  /\ IsSpec(spec)
         /\ IsSpec(HexSpec(spec))
<1>1. ByteBits + 2 \in Nat
  BY FormatAssumption
<1>2. /\ spec.align \in {"", "<", ">"}
      /\ spec.width \in Nat
      /\ spec.precision \in SUBSET Nat
      /\ spec.ty \in {""} \cup Types
  BY DEF Specs
<1>3. /\ HexSpec(spec).align = spec.align
      /\ HexSpec(spec).width = ByteBits + 2
      /\ HexSpec(spec).precision = spec.precision
      /\ HexSpec(spec).ty = "x"
  BY DEF Specs, HexSpec
<1>4. HexSpec(spec).ty \in {""} \cup Types
  BY <1>3 DEF Types
<1> QED
  BY <1>1, <1>2, <1>3, <1>4 DEF IsSpec

-----------------------------------------------------------------------------
(* Fill repeats a write.                                                   *)
LEMMA FillType ==
  ASSUME NEW T, NEW c \in T, NEW n \in Nat
  PROVE  Fill(c, n) \in Seq(T) /\ Len(Fill(c, n)) = n
BY DEF Fill

(* Padding is never less than nothing.                                     *)
LEMMA PadType ==
  ASSUME NEW spec, spec.width \in Nat, NEW n \in Nat
  PROVE  Pad(spec, n) \in Nat
BY DEF Pad

(* Padding adds spaces to the writes.                                      *)
LEMMA AlignedType ==
  ASSUME NEW writes \in Seq(Seq(Char)), NEW pad \in Nat, NEW align \in {"", "<", ">"}
  PROVE  Aligned(writes, pad, align) \in Seq(Seq(Char))
<1>1. <<" ">> \in Seq(Char)
  <2>1. " " \in Char
    BY DEF Char
  <2> QED
    BY <2>1, OneElement
<1>2. Fill(<<" ">>, pad) \in Seq(Seq(Char))
  BY <1>1, FillType
<1> HIDE DEF Char
<1> QED
  BY <1>2, ConcatProperties DEF Aligned

(* Signs and prefixes are texts.                                           *)
LEMMA SignAndPrefixType ==
  ASSUME NEW negative \in BOOLEAN, NEW spec, IsSpec(spec)
  PROVE  SignOf(negative, spec) \in Seq(Char) /\ Prefix(spec) \in Seq(Char)
<1>1. SignOf(negative, spec) \in Seq(Char)
  <2>1. <<"-">> \in Seq(Char) /\ <<"+">> \in Seq(Char)
    <3>1. "+" \in Char /\ "-" \in Char
      BY DEF Char
    <3> QED
      BY <3>1, OneElement
  <2>2. <<>> \in Seq(Char)
    OBVIOUS
  <2>3. SignOf(negative, spec) \in {<<"-">>, <<"+">>, <<>>}
    BY DEF SignOf
  <2> QED
    BY <2>1, <2>2, <2>3
<1>2. Prefix(spec) \in Seq(Char)
  <2>1. "0" \in Char /\ (spec.ty # "" => spec.ty \in Char)
    BY DEF Char, DigitChars, IsSpec, Types
  <2>2. Prefix(spec) = <<>> \/ (Prefix(spec) = <<"0", spec.ty>> /\ spec.ty # "")
    BY DEF Prefix
  <2>3. spec.ty # "" => <<"0", spec.ty>> \in Seq(Char)
    BY <2>1, TwoElements
  <2>4. <<>> \in Seq(Char)
    OBVIOUS
  <2> QED
    BY <2>2, <2>3, <2>4
<1> QED
  BY <1>1, <1>2

(* fmt_uint writes texts.                                                  *)
LEMMA FmtUintType ==
  ASSUME NEW n \in Nat, n < Values(8), NEW spec, IsSpec(spec),
         NEW negative \in BOOLEAN
  PROVE  FmtUint(n, spec, negative) \in Seq(Seq(Char))
<1> DEFINE sign == SignOf(negative, spec)
           prefix == Prefix(spec)
           table == IF spec.ty = "X" THEN UpperDigit ELSE Digit
           digits == WriteDigits(n, Base(spec.ty), table)
           pad == Pad(spec, Len(sign) + Len(prefix) + Len(digits))
<1>1. sign \in Seq(Char) /\ prefix \in Seq(Char)
  BY SignAndPrefixType
<1>2. digits \in Seq(Char)
  <2>1. Base(spec.ty) \in 2..16
    BY DEF Base
  <2>2. \A i \in 1..16 : table[i] \in DigitChars
    BY DigitType
  <2> HIDE DEF table
  <2> QED
    BY <2>1, <2>2, WriteDigitsType
<1>3. Len(sign) + Len(prefix) + Len(digits) \in Nat
  BY <1>1, <1>2, LenProperties
<1>4. pad \in Nat
  <2> HIDE DEF sign, prefix, digits
  <2> QED
    BY <1>3, PadType DEF IsSpec
<1>5. FmtUint(n, spec, negative) =
        IF spec.zero /\ spec.align = ""
        THEN <<sign, prefix>> \o Fill(<<"0">>, pad) \o <<digits>>
        ELSE Aligned(<<sign, prefix, digits>>, pad, spec.align)
  BY DEF FmtUint
<1>6. <<"0">> \in Seq(Char)
  BY DEF Char, DigitChars
<1>7. spec.align \in {"", "<", ">"}
  BY DEF IsSpec
<1> HIDE DEF sign, prefix, digits, pad
<1>8. Fill(<<"0">>, pad) \in Seq(Seq(Char))
  BY <1>4, <1>6, FillType
<1>9. /\ <<sign, prefix>> \in Seq(Seq(Char)) /\ <<digits>> \in Seq(Seq(Char))
      /\ <<sign, prefix, digits>> \in Seq(Seq(Char))
  BY <1>1, <1>2
<1>10. <<sign, prefix>> \o Fill(<<"0">>, pad) \o <<digits>> \in Seq(Seq(Char))
  BY <1>8, <1>9, ConcatProperties
<1>11. Aligned(<<sign, prefix, digits>>, pad, spec.align) \in Seq(Seq(Char))
  BY <1>4, <1>7, <1>9, AlignedType
<1> QED
  BY <1>5, <1>10, <1>11

(* fmt_str_value writes texts.                                             *)
LEMMA FmtStrValueType ==
  ASSUME NEW text \in Seq(Char), NEW spec, IsSpec(spec)
  PROVE  FmtStrValue(text, spec) \in Seq(Seq(Char))
<1>1. Len(text) \in Nat /\ <<text>> \in Seq(Seq(Char))
  BY LenProperties, OneElement
<1>2. Pad(spec, Len(text)) \in Nat
  BY <1>1, PadType DEF IsSpec
<1>3. spec.align \in {"", "<", ">"}
  BY DEF IsSpec
<1> QED
  BY <1>1, <1>2, <1>3, AlignedType DEF FmtStrValue

(* unsigned_abs is a u64.                                                  *)
LEMMA UnsignedAbsType ==
  ASSUME NEW v \in IntValues
  PROVE  UnsignedAbs(v) \in Nat /\ UnsignedAbs(v) < Values(8)
<1>1. /\ v.bits \in Nat /\ v.size \in {1, 2, 4, 8}
      /\ v.bits < Values(v.size)
  BY DEF IntValues
<1>2. Values(v.size) \in Nat \ {0} /\ Values(v.size) <= Values(8) /\ Values(8) \in Nat
  BY <1>1, ValuesFacts
<1> QED
  BY <1>1, <1>2 DEF UnsignedAbs, IsNegative

(* A FourCC byte is a text.                                                *)
LEMMA FourCCType ==
  ASSUME NEW byte \in 0..255
  PROVE  FourCC(byte) \in Seq(Char)
<1>1. CASE byte \in DOMAIN Ascii
  <2>1. Ascii[byte] \in Char
    BY <1>1, FormatAssumption DEF Char
  <2>2. <<Ascii[byte]>> \in Seq(Char)
    BY <2>1, OneElement
  <2> QED
    BY <1>1, <2>2 DEF FourCC
<1>2. CASE byte \notin DOMAIN Ascii
  <2>1. (byte \div 16) + 1 \in 1..16 /\ (byte % 16) + 1 \in 1..16
    OBVIOUS
  <2> DEFINE high == Digit[(byte \div 16) + 1]
             low == Digit[(byte % 16) + 1]
  <2>2. high \in Char /\ low \in Char
    BY <2>1, DigitType DEF Char
  <2>3. "x" \in Char /\ "\\" \in Char
    BY DEF Char, Types
  <2>4. FourCC(byte) = <<"\\", "x", high, low>>
    BY <1>2 DEF FourCC
  <2> HIDE DEF high, low
  <2>5. <<"\\", "x">> \in Seq(Char) /\ <<high, low>> \in Seq(Char)
    BY <2>2, <2>3, TwoElements
  <2>6. <<"\\", "x", high, low>> = <<"\\", "x">> \o <<high, low>>
    OBVIOUS
  <2> QED
    BY <2>4, <2>5, <2>6, ConcatProperties
<1> QED
  BY <1>1, <1>2

(* fmt_fourcc writes texts.                                                *)
LEMMA FmtFourccType ==
  ASSUME NEW v \in IntValues
  PROVE  FmtFourcc(LeBytes(v)) \in Seq(Seq(Char))
<1>1. v.bits \in Nat /\ v.size \in Nat
  BY DEF IntValues
<1>2. ASSUME NEW i \in 1..v.size
      PROVE  (v.bits \div Values(i - 1)) % Values(1) \in 0..255
  <2>1. Values(i - 1) \in Nat \ {0} /\ Values(1) \in Nat \ {0} /\ Values(1) <= 256
    <3>1. i - 1 \in Nat
      BY <1>1
    <3> QED
      BY <3>1, ValuesFacts
  <2>2. v.bits \div Values(i - 1) \in Nat
    BY <1>1, <2>1, DivisionIsNat
  <2>3. (v.bits \div Values(i - 1)) % Values(1) \in 0 .. Values(1) - 1
    BY <2>1, <2>2, DivisionIsNat
  <2> QED
    BY <2>1, <2>3
<1>3. LeBytes(v) \in [1 .. v.size -> 0..255]
  BY <1>2 DEF LeBytes
<1>4. FmtFourcc(LeBytes(v)) \in [1 .. v.size -> Seq(Char)]
  BY <1>3, FourCCType DEF FmtFourcc
<1> QED
  BY <1>1, <1>4

(* write_u32_hex8 writes texts.                                            *)
LEMMA Hex8Type ==
  ASSUME NEW half \in Nat
  PROVE  Hex8(half) \in Seq(Char)
<1>1. ByteBits \in Nat
  BY FormatAssumption
<1>2. ASSUME NEW i \in 1..ByteBits
      PROVE  Digit[((half \div Power(16, ByteBits - i)) % 16) + 1] \in Char
  <2>1. ByteBits - i \in Nat /\ 16 \in Nat \ {0} /\ 16 \in 1..16
    BY <1>1
  <2>2. Power(16, ByteBits - i) \in Nat \ {0}
    BY <2>1, PowerIsPositive
  <2>3. ((half \div Power(16, ByteBits - i)) % 16) + 1 \in 1..16
    BY <2>1, <2>2, DigitIndex
  <2> QED
    BY <2>3, DigitType DEF Char
<1> QED
  BY <1>1, <1>2 DEF Hex8

-----------------------------------------------------------------------------
(* pow10 is positive and a u64, since it saturates.                        *)
LEMMA Pow10Type ==
  ASSUME NEW n \in Nat
  PROVE  Pow10(n) \in Nat \ {0} /\ Pow10(n) <= U64Max
<1> DEFINE count == DigitCount(U64Max, 10)
<1>1. U64Max \in Nat /\ U64Max >= 255 /\ U64Max < Values(8)
  BY ValuesFacts DEF U64Max
<1>2. count \in 1 .. 8 * ByteBits /\ (count = 1 \/ Power(10, count - 1) <= U64Max)
  BY <1>1, DigitCountFacts
<1>3. CASE n < count
  <2>1. count \in Nat /\ n <= count - 1 /\ count - 1 \in Nat
    BY <1>2, <1>3, FormatAssumption
  <2>2. Pow10(n) = Power(10, n)
    BY <1>3 DEF Pow10
  <2>3. Power(10, n) \in Nat \ {0} /\ Power(10, n) <= Power(10, count - 1)
    BY <2>1, PowerIsPositive, PowerIsMonotone
  <2>4. count = 1 => Power(10, count - 1) = 1
    BY PowerFacts
  <2>5. Power(10, count - 1) \in Nat
    BY <2>1, PowerFacts
  <2> HIDE DEF count
  <2> QED
    BY <1>1, <1>2, <2>2, <2>3, <2>4, <2>5
<1>4. CASE ~(n < count)
  BY <1>1, <1>4 DEF Pow10
<1> QED
  BY <1>3, <1>4

(* The parts of a float: an integer part below 2^64, and a fraction that   *)
(* is not negative.                                                        *)
LEMMA FloatParts ==
  ASSUME NEW v \in FloatValues
  PROVE  /\ IntPart(v) \in 0 .. U64Max
         /\ FracUnits(v) \in Nat
         /\ IntPart(v) < U64Max => /\ IntPart(v) = v.units \div FracUnit
                                   /\ FracUnits(v) = v.units % FracUnit
<1>1. /\ v.units \in Nat /\ FracUnit \in Nat \ {0}
      /\ v.units < FracUnit * U64Max \/ v.units >= FracUnit * Values(8)
  BY FormatAssumption DEF FloatValues
<1>2. U64Max \in Nat /\ Values(8) = U64Max + 1
  BY ValuesFacts DEF U64Max
<1> DEFINE int == v.units \div FracUnit
<1>3. /\ int \in Nat /\ v.units % FracUnit \in 0 .. FracUnit - 1
      /\ v.units = FracUnit * int + (v.units % FracUnit)
  BY <1>1, DivisionIsNat
<1> HIDE DEF int
<1>4. IntPart(v) = IF int > U64Max THEN U64Max ELSE int
  BY DEF IntPart, AsU64, int
<1>5. IntPart(v) \in 0 .. U64Max
  BY <1>2, <1>3, <1>4
<1>6. CASE IntPart(v) = U64Max
  <2>1. int >= U64Max
    BY <1>2, <1>3, <1>4, <1>6
  <2>2. FracUnit * int >= FracUnit * U64Max
    BY <1>1, <1>2, <1>3, <2>1, ProductIsMonotone
  <2>3. v.units >= FracUnit * U64Max
    BY <1>1, <1>2, <1>3, <2>2
  <2>4. v.units >= FracUnit * (U64Max + 1)
    BY <1>1, <1>2, <2>3
  <2>5. FracUnits(v) = v.units - FracUnit * (U64Max + 1)
    BY <1>6 DEF FracUnits
  <2>6. FracUnit * (U64Max + 1) \in Nat
    BY <1>1, <1>2
  <2> QED
    BY <1>1, <1>5, <1>6, <2>4, <2>5, <2>6
<1>7. CASE IntPart(v) # U64Max
  <2>1. IntPart(v) = int
    BY <1>2, <1>3, <1>4, <1>7
  <2>2. FracUnits(v) = v.units - FracUnit * int
    BY <1>7, <2>1 DEF FracUnits
  <2>3. FracUnit * int \in Nat
    BY <1>1, <1>3
  <2>4. FracUnits(v) = v.units % FracUnit
    BY <1>1, <1>3, <2>2, <2>3
  <2> QED
    BY <1>3, <1>5, <2>1, <2>4 DEF int
<1> QED
  BY <1>6, <1>7

(* The numbers that fmt_float shows are u64, and the fraction has no more  *)
(* digits than the precision asks for.                                     *)
LEMMA FinalParts ==
  ASSUME NEW v \in FloatValues, NEW precision \in Nat
  PROVE  /\ FracInt(v, precision) \in Nat
         /\ IntFinal(v, precision) \in Nat
         /\ IntFinal(v, precision) < Values(8)
         /\ FracFinal(v, precision) \in Nat
         /\ FracFinal(v, precision) < Pow10(precision)
<1>1. /\ IntPart(v) \in 0 .. U64Max /\ FracUnits(v) \in Nat
      /\ FracUnit \in Nat \ {0}
  BY FloatParts, FormatAssumption
<1>2. Pow10(precision) \in Nat \ {0} /\ Pow10(precision) <= U64Max
  BY Pow10Type
<1>3. FracInt(v, precision) \in Nat
  <2> DEFINE scale == Scale(precision)
             x == 2 * FracUnits(v) * scale + FracUnit
             rounded == x \div (2 * FracUnit)
  <2>1. scale \in Nat
    BY <1>2, ValuesFacts DEF Scale
  <2> HIDE DEF scale
  <2>2. x \in Nat /\ 2 * FracUnit \in Nat \ {0}
    BY <1>1, <2>1
  <2> HIDE DEF x
  <2>3. rounded \in Nat
    BY <2>2, DivisionIsNat
  <2>4. FracInt(v, precision) = AsU64(rounded)
    BY DEF FracInt, x, scale
  <2> HIDE DEF rounded
  <2>5. U64Max \in Nat
    BY ValuesFacts
  <2> QED
    BY <2>3, <2>4, <2>5 DEF AsU64
<1>4. Values(8) \in Nat \ {0} /\ U64Max = Values(8) - 1
  BY ValuesFacts DEF U64Max
<1>5. IntFinal(v, precision) \in Nat /\ IntFinal(v, precision) < Values(8)
  <2>1. IntPart(v) + 1 \in Nat
    BY <1>1
  <2>2. (IntPart(v) + 1) % Values(8) \in 0 .. Values(8) - 1
    BY <1>4, <2>1, DivisionIsNat
  <2> QED
    BY <1>1, <1>4, <2>2 DEF IntFinal
<1>6. FracFinal(v, precision) \in Nat /\ FracFinal(v, precision) < Pow10(precision)
  BY <1>2, <1>3 DEF FracFinal, Carries
<1> QED
  BY <1>3, <1>5, <1>6

(* The fraction is written in digits.                                      *)
LEMMA LowDigitsType ==
  ASSUME NEW n \in Nat, n < Values(8), NEW count \in Nat
  PROVE  LowDigits(n, count) \in Seq(Char)
<1> DEFINE digit(i) == IF count - i >= DigitCount(n, 10) THEN "0"
                       ELSE Digit[((n \div Power(10, count - i)) % 10) + 1]
<1>1. ASSUME NEW i \in 1..count
      PROVE  digit(i) \in Char
  <2>1. count - i \in Nat /\ 10 \in Nat \ {0} /\ 10 \in 1..16
    OBVIOUS
  <2>2. Power(10, count - i) \in Nat \ {0}
    BY <2>1, PowerIsPositive
  <2>3. ((n \div Power(10, count - i)) % 10) + 1 \in 1..10
    BY <2>1, <2>2, DigitIndex
  <2>4. Digit[((n \div Power(10, count - i)) % 10) + 1] \in DigitChars
    BY <2>3, DigitType
  <2>5. "0" \in DigitChars /\ DigitChars \subseteq Char
    BY DEF DigitChars, Char
  <2> QED
    BY <2>4, <2>5
<1> HIDE DEF digit
<1>2. [i \in 1..count |-> digit(i)] \in Seq(Char)
  BY <1>1
<1> QED
  BY <1>2 DEF LowDigits, digit

(* fmt_float writes texts.                                                 *)
LEMMA FmtFloatType ==
  ASSUME NEW v \in FloatValues, NEW spec, IsSpec(spec)
  PROVE  /\ FmtFloat(v, spec) \in Seq(Seq(Char))
         /\ \E text \in Seq(Char) : FmtFloat(v, spec) = FmtStrValue(text, spec)
<1> DEFINE precision == OrElse(spec.precision, 6)
           count == IF precision < FracBuffer THEN precision ELSE FracBuffer
           point == IF precision > 0 THEN <<".">> ELSE <<>>
           sign == SignOf(v.negative, spec)
           int == WriteDigits(IntFinal(v, precision), 10, Digit)
           frac == LowDigits(FracFinal(v, precision), count)
<1>1. precision \in Nat
  BY DEF OrElse, IsSpec
<1> HIDE DEF precision
<1>2. U64Max \in Nat /\ U64Max < Values(8) /\ Values(8) \in Nat
  BY ValuesFacts DEF U64Max
<1>3. FracBuffer \in Nat
  <2>1. FracBuffer \in 1 .. 8 * ByteBits
    BY <1>2, DigitCountFacts DEF FracBuffer
  <2> QED
    BY <2>1, FormatAssumption
<1>4. count \in Nat
  BY <1>1, <1>3
<1>5. sign \in Seq(Char)
  <2>1. v.negative \in BOOLEAN
    BY DEF FloatValues
  <2> QED
    BY <2>1, SignAndPrefixType
<1>6. int \in Seq(Char)
  <2>1. IntFinal(v, precision) \in Nat /\ IntFinal(v, precision) < Values(8)
    BY <1>1, FinalParts
  <2>2. 10 \in 2..16 /\ \A i \in 1..16 : Digit[i] \in DigitChars
    BY DigitType
  <2> QED
    BY <2>1, <2>2, WriteDigitsType
<1>7. point \in Seq(Char)
  <2>1. "." \in Char
    BY DEF Char
  <2>2. <<".">> \in Seq(Char)
    BY <2>1, OneElement
  <2>3. <<>> \in Seq(Char)
    OBVIOUS
  <2> QED
    BY <2>2, <2>3
<1>8. frac \in Seq(Char)
  <2>1. FracFinal(v, precision) \in Nat /\ FracFinal(v, precision) < Pow10(precision)
    BY <1>1, FinalParts
  <2>2. Pow10(precision) \in Nat /\ Pow10(precision) <= U64Max
    BY <1>1, Pow10Type
  <2>3. FracFinal(v, precision) < Values(8)
    BY <1>2, <2>1, <2>2
  <2> HIDE DEF count
  <2> QED
    BY <1>4, <2>1, <2>3, LowDigitsType
<1>9. FmtFloat(v, spec) = FmtStrValue(sign \o int \o point \o frac, spec)
  BY DEF FmtFloat, precision
<1> HIDE DEF count, point, sign, int, frac
<1>10. sign \o int \o point \o frac \in Seq(Char)
  BY <1>5, <1>6, <1>7, <1>8, ConcatProperties
<1> QED
  BY <1>9, <1>10, FmtStrValueType

-----------------------------------------------------------------------------
(* Format::fmt writes texts, for every value and every spec.               *)
LEMMA FmtType ==
  ASSUME NEW v \in AllValues, NEW spec \in Specs, NEW no64 \in BOOLEAN
  PROVE  Fmt(v, spec, no64) \in Seq(Seq(Char))
<1>1. IsSpec(spec) /\ IsSpec(HexSpec(spec))
  BY SpecsAreSpecs
<1>2. CASE v \in IntValues
  <2>1. /\ v.bits \in Nat /\ v.kind \in {"uint", "sint", "pair"}
        /\ v.size \in {1, 2, 4, 8} /\ v.bits < Values(v.size)
    BY <1>2 DEF IntValues
  <2>2. v.bits < Values(8)
    BY <2>1, ValuesFacts
  <2>3. FmtFourcc(LeBytes(v)) \in Seq(Seq(Char))
    BY <1>2, FmtFourccType
  <2>4. FmtUint(v.bits, spec, FALSE) \in Seq(Seq(Char))
    BY <1>1, <2>1, <2>2, FmtUintType
  <2>5. FmtSint(v, spec) \in Seq(Seq(Char))
    <3>1. UnsignedAbs(v) \in Nat /\ UnsignedAbs(v) < Values(8)
      BY <1>2, UnsignedAbsType
    <3>2. IsNegative(v) \in BOOLEAN
      BY DEF IsNegative
    <3>3. FmtUint(UnsignedAbs(v), spec, IsNegative(v)) \in Seq(Seq(Char))
      BY <1>1, <3>1, <3>2, FmtUintType
    <3> QED
      BY <2>4, <3>3 DEF FmtSint
  <2> DEFINE high == v.bits \div Values(4)
             low == v.bits % Values(4)
  <2>6. high \in Nat /\ low \in Nat
    <3>1. Values(4) \in Nat \ {0} /\ v.bits \in Nat
      BY <2>1, ValuesFacts
    <3>2. v.bits % Values(4) \in 0 .. Values(4) - 1 /\ v.bits \div Values(4) \in Nat
      BY <3>1, DivisionIsNat
    <3> QED
      BY <3>1, <3>2
  <2> HIDE DEF high, low
  <2>7. <<Hex8(high), Hex8(low)>> \in Seq(Seq(Char))
    BY <2>6, Hex8Type, TwoElements
  <2>8. Fmt(v, spec, no64) \in
          {FmtFourcc(LeBytes(v)), FmtUint(v.bits, spec, FALSE), FmtSint(v, spec),
           <<Hex8(high), Hex8(low)>>}
    BY <2>1 DEF Fmt, high, low
  <2> QED
    BY <2>3, <2>4, <2>5, <2>7, <2>8
<1>3. CASE v \in HashValues
  <2>1. v.bits \in Nat /\ v.kind = "hash" /\ v.bits < Values(4)
    BY <1>3 DEF HashValues
  <2>2. v.bits < Values(8)
    BY <2>1, ValuesFacts
  <2>3. FmtUint(v.bits, HexSpec(spec), FALSE) \in Seq(Seq(Char))
    BY <1>1, <2>1, <2>2, FmtUintType
  <2> QED
    BY <2>1, <2>3 DEF Fmt, HexSpec
<1>4. CASE v \in FloatValues
  <2>1. v.kind = "float"
    BY <1>4 DEF FloatValues
  <2>2. FmtFloat(v, spec) \in Seq(Seq(Char))
    BY <1>1, <1>4, FmtFloatType
  <2> QED
    BY <2>1, <2>2 DEF Fmt
<1>5. CASE v \in WordValues
  <2>1. v.kind \in {"nonfinite", "bool", "str"} /\ v.text \in Seq(STRING)
    BY <1>5 DEF WordValues
  <2>2. v.text \in Seq(Char)
    BY <2>1, TextIsOfChars
  <2>3. FmtStrValue(v.text, spec) \in Seq(Seq(Char))
    BY <1>1, <2>2, FmtStrValueType
  <2> QED
    BY <2>1, <2>3 DEF Fmt
<1> QED
  BY <1>2, <1>3, <1>4, <1>5 DEF AllValues

-----------------------------------------------------------------------------
(* The buffer.                                                             *)

Buffers == [text : Seq(Char), full : BOOLEAN]

(* write_str leaves a buffer.                                              *)
LEMMA WriteStrType ==
  ASSUME NEW buf \in Buffers, NEW text \in Seq(Char)
  PROVE  WriteStr(buf, text) \in Buffers
<1>1. buf.text \in Seq(Char) /\ buf.text \o text \in Seq(Char)
  BY ConcatProperties DEF Buffers
<1>2. [text |-> buf.text \o text, full |-> FALSE] \in Buffers
  BY <1>1, Zenon DEF Buffers
<1>3. [buf EXCEPT !.full = TRUE] \in Buffers
  BY Zenon DEF Buffers
<1> QED
  BY <1>2, <1>3 DEF WriteStr

(* A write leaves a buffer.                                                *)
LEMMA WriteNextType ==
  ASSUME NEW buf \in Buffers, NEW text \in Seq(Char)
  PROVE  WriteNext(buf, text) \in Buffers
BY WriteStrType DEF WriteNext

(* An error leaves the text of a buffer as it is.                          *)
LEMMA FullBuffer ==
  ASSUME NEW buf \in Buffers
  PROVE  [buf EXCEPT !.full = TRUE].full /\ [buf EXCEPT !.full = TRUE].text = buf.text
BY DEF Buffers

\* The buffers of WriteAll, one after every write.
BuffersOf(bufs, start, ws) ==
  /\ bufs \in [0..Len(ws) -> Buffers]
  /\ bufs[0] = [text |-> start, full |-> FALSE]
  /\ \A i \in 1..Len(ws) : bufs[i] = WriteNext(bufs[i - 1], ws[i])

(* WriteAll is the text of the last of its buffers.                        *)
LEMMA WriteAllSteps ==
  ASSUME NEW start \in Seq(Char), NEW ws \in Seq(Seq(Char))
  PROVE  \E bufs : BuffersOf(bufs, start, ws) /\ WriteAll(start, ws) = bufs[Len(ws)].text
<1> DEFINE n == Len(ws)
           c == [text |-> start, full |-> FALSE]
           G == [i \in 1..n |-> [b \in Buffers |-> WriteNext(b, ws[i])]]
           Rec(f) == [i \in 0..n |-> IF i = 0 THEN c ELSE WriteNext(f[i - 1], ws[i])]
           f0 == CHOOSE f : f = Rec(f)
<1>1. n \in Nat /\ \A i \in 1..n : ws[i] \in Seq(Char)
  BY LenProperties, ElementOfSeq
<1>2. c \in Buffers
  BY Zenon DEF Buffers
<1>3. WriteAll(start, ws) = f0[n].text
  BY DEF WriteAll
<1>4. G \in [1..n -> [Buffers -> Buffers]]
  BY <1>1, WriteNextType
<1>5. \A b \in Buffers, i \in 1..n : G[i][b] = WriteNext(b, ws[i])
  OBVIOUS
<1> HIDE DEF n, c, G
<1>6. PICK g : Iterates(g, Buffers, c, n, G)
  BY <1>1, <1>2, <1>4, Recursion
<1>7. /\ g \in [0..n -> Buffers] /\ g[0] = c
      /\ \A i \in 1..n : g[i] = WriteNext(g[i - 1], ws[i])
  <2>1. g \in [0..n -> Buffers] /\ g[0] = c
    BY <1>6 DEF Iterates
  <2>2. ASSUME NEW i \in 1..n
        PROVE  g[i] = WriteNext(g[i - 1], ws[i])
    <3>1. i - 1 \in 0..n
      BY <1>1
    <3>2. g[i - 1] \in Buffers
      BY <2>1, <3>1
    <3> QED
      BY <1>5, <1>6, <3>2 DEF Iterates
  <2> QED
    BY <2>1, <2>2
<1>8. g = Rec(g)
  BY <1>7
<1>9. f0 = Rec(f0)
  BY <1>8
<1> HIDE DEF f0
<1>10. \A i \in 0..n : f0[i] = IF i = 0 THEN c ELSE WriteNext(f0[i - 1], ws[i])
  BY <1>9
<1>11. Follows(f0, g, n)
  BY <1>1, <1>7, <1>10 DEF Follows
<1>14. f0[n] = g[n]
  <2>1. n \in 0..n
    BY <1>1
  <2> QED
    BY <1>1, <1>11, <2>1, SameSteps
<1>15. BuffersOf(g, start, ws)
  BY <1>7 DEF BuffersOf, n, c
<1> QED
  BY <1>3, <1>14, <1>15 DEF n

\* The first k of the writes fit, and the next one does not.
Takes(text, start, ws, g, k) ==
  /\ text = start \o g[k]
  /\ k > 0 => Len(start) + Len(g[k]) <= BufSize
  /\ k < Len(ws) => Len(start) + Len(g[k + 1]) > BufSize

(* WriteAll takes the writes up to the first that does not fit, whole.     *)
LEMMA WriteAllText ==
  ASSUME NEW start \in Seq(Char), NEW ws \in Seq(Seq(Char)), NEW g, Joined(Char, ws, g)
  PROVE  \E k \in 0..Len(ws) : Takes(WriteAll(start, ws), start, ws, g, k)
<1> DEFINE n == Len(ws)
<1>1. n \in Nat /\ \A i \in 1..n : ws[i] \in Seq(Char)
  BY LenProperties, ElementOfSeq
<1>2. /\ g \in [0..n -> Seq(Char)] /\ g[0] = <<>>
      /\ \A i \in 1..n : g[i] = g[i - 1] \o ws[i]
  BY DEF Joined
<1>3. PICK bufs : BuffersOf(bufs, start, ws) /\ WriteAll(start, ws) = bufs[n].text
  BY WriteAllSteps
<1>4. /\ bufs \in [0..n -> Buffers] /\ bufs[0] = [text |-> start, full |-> FALSE]
      /\ \A i \in 1..n : bufs[i] = WriteNext(bufs[i - 1], ws[i])
  BY <1>3 DEF BuffersOf
<1> HIDE DEF n
<1>5. BufSize \in Nat
  BY OutputAssumption
<1> DEFINE Fits(i) == /\ ~bufs[i].full
                      /\ bufs[i].text = start \o g[i]
                      /\ i > 0 => Len(start) + Len(g[i]) <= BufSize
           Full(i) == /\ bufs[i].full
                      /\ \E k \in 0 .. i - 1 :
                           /\ bufs[i].text = start \o g[k]
                           /\ k > 0 => Len(start) + Len(g[k]) <= BufSize
                           /\ Len(start) + Len(g[k + 1]) > BufSize
           S == {i \in Nat : i <= n => Fits(i) \/ Full(i)}
<1>6. 0 \in S
  <2>1. start \o <<>> = start
    BY ConcatEmptySeq
  <2> QED
    BY <1>2, <1>4, <2>1
<1>7. ASSUME NEW i \in Nat, i \in S
      PROVE  i + 1 \in S
  <2> SUFFICES ASSUME i + 1 <= n
               PROVE  Fits(i + 1) \/ Full(i + 1)
    <3> HIDE DEF Fits, Full
    <3> QED
      OBVIOUS
  <2>1. i + 1 \in 1..n /\ i \in 0..n /\ (i + 1) - 1 = i /\ i + 1 > 0
    BY <1>1
  <2>2. bufs[i + 1] = WriteNext(bufs[i], ws[i + 1]) /\ g[i + 1] = g[i] \o ws[i + 1]
    BY <1>2, <1>4, <2>1
  <2>3. bufs[i] \in Buffers /\ g[i] \in Seq(Char) /\ ws[i + 1] \in Seq(Char)
    BY <1>1, <1>2, <1>4, <2>1
  <2>4. Fits(i) \/ Full(i)
    <3> HIDE DEF Fits, Full
    <3> QED
      BY <1>1, <1>7, <2>1
  <2>5. CASE Full(i)
    <3>1. bufs[i + 1] = bufs[i]
      BY <2>2, <2>5 DEF WriteNext
    <3>2. 0 .. i - 1 \subseteq 0 .. (i + 1) - 1
      OBVIOUS
    <3>3. Full(i + 1)
      BY <2>5, <3>1, <3>2
    <3> HIDE DEF Fits, Full
    <3> QED
      BY <3>3
  <2>6. CASE Fits(i)
    <3>1. bufs[i + 1] = WriteStr(bufs[i], ws[i + 1])
      BY <2>2, <2>6 DEF WriteNext
    <3>2. /\ (start \o g[i]) \o ws[i + 1] = start \o g[i + 1]
          /\ Len(start \o g[i]) + Len(ws[i + 1]) = Len(start) + Len(g[i + 1])
          /\ Len(start) + Len(g[i + 1]) \in Nat
      <4> DEFINE s == g[i]
                 t == ws[i + 1]
                 u == g[i + 1]
      <4>1. s \in Seq(Char) /\ t \in Seq(Char) /\ u = s \o t
        BY <2>2, <2>3
      <4> HIDE DEF s, t, u
      <4>2. /\ (start \o s) \o t = start \o u
            /\ Len(start \o s) + Len(t) = Len(start) + Len(u)
            /\ Len(start) + Len(u) \in Nat
        BY <4>1, ThreePieces, SMTT(20)
      <4> QED
        BY <4>2 DEF s, t, u
    <3>3. ~bufs[i].full /\ bufs[i].text = start \o g[i] /\ (i > 0 => Len(start) + Len(g[i]) <= BufSize)
      BY <2>6
    <3>4. Len(bufs[i].text) + Len(ws[i + 1]) = Len(start) + Len(g[i + 1])
      BY <3>2, <3>3
    <3>5. CASE Len(start) + Len(g[i + 1]) > BufSize
      <4>1. bufs[i + 1] = [bufs[i] EXCEPT !.full = TRUE]
        BY <3>1, <3>4, <3>5 DEF WriteStr
      <4>2. bufs[i + 1].full /\ bufs[i + 1].text = start \o g[i]
        BY <2>3, <3>3, <4>1, FullBuffer
      <4>3. i \in 0 .. (i + 1) - 1
        OBVIOUS
      <4>4. Full(i + 1)
        BY <3>3, <3>5, <4>2, <4>3
      <4> QED
        BY <4>4
    <3>6. CASE ~(Len(start) + Len(g[i + 1]) > BufSize)
      <4>1. bufs[i + 1] = [text |-> bufs[i].text \o ws[i + 1], full |-> FALSE]
        BY <3>1, <3>4, <3>6 DEF WriteStr
      <4>2. Len(start) + Len(g[i + 1]) <= BufSize
        BY <1>5, <3>2, <3>6
      <4>3. ~bufs[i + 1].full /\ bufs[i + 1].text = start \o g[i + 1]
        BY <3>2, <3>3, <4>1
      <4>4. Fits(i + 1)
        BY <4>2, <4>3
      <4> QED
        BY <4>4
    <3> HIDE DEF Fits, Full
    <3> QED
      BY <3>5, <3>6
  <2> HIDE DEF Fits, Full
  <2> QED
    BY <2>4, <2>5, <2>6
<1> HIDE DEF S
<1>8. n \in S
  BY <1>1, <1>6, <1>7, SetInduction
<1> HIDE DEF Fits, Full
<1>9. Fits(n) \/ Full(n)
  BY <1>1, <1>8 DEF S
<1>10. CASE Fits(n)
  <2>1. Takes(WriteAll(start, ws), start, ws, g, n)
    BY <1>1, <1>3, <1>10 DEF Takes, n, Fits
  <2> QED
    BY <1>1, <2>1 DEF n
<1>11. CASE Full(n)
  <2>1. PICK k \in 0 .. n - 1 :
               /\ bufs[n].text = start \o g[k]
               /\ k > 0 => Len(start) + Len(g[k]) <= BufSize
               /\ Len(start) + Len(g[k + 1]) > BufSize
    BY <1>11 DEF Full
  <2>2. Takes(WriteAll(start, ws), start, ws, g, k)
    BY <1>3, <2>1 DEF Takes
  <2>3. k \in 0..n
    BY <1>1, <2>1
  <2> QED
    BY <2>2, <2>3 DEF n
<1> QED
  BY <1>9, <1>10, <1>11

(* WriteAll writes a text that fits the buffer.                            *)
LEMMA WriteAllType ==
  ASSUME NEW start \in Seq(Char), NEW ws \in Seq(Seq(Char))
  PROVE  /\ WriteAll(start, ws) \in Seq(Char)
         /\ Len(start) <= BufSize => Len(WriteAll(start, ws)) <= BufSize
<1>1. PICK g : Joined(Char, ws, g)
  BY JoinedExists
<1>2. PICK k \in 0..Len(ws) : Takes(WriteAll(start, ws), start, ws, g, k)
  BY <1>1, WriteAllText
<1>3. g[k] \in Seq(Char) /\ g[0] = <<>>
  BY <1>1 DEF Joined
<1>4. Len(start \o g[k]) = Len(start) + Len(g[k]) /\ start \o g[k] \in Seq(Char)
  BY <1>3, ConcatProperties
<1>5. Len(start) \in Nat /\ BufSize \in Nat /\ (k = 0 => Len(g[k]) = 0)
  BY <1>3, LenProperties, OutputAssumption
<1>6. k \in Nat
  BY LenProperties
<1> QED
  BY <1>2, <1>4, <1>5, <1>6 DEF Takes

-----------------------------------------------------------------------------
(* Texts and sizes.                                                        *)

Accepted(format) ==
  \A i \in DOMAIN format :
    format[i].kind = "field" => MacroAccepts(format[i].written)

(* What a segment is.                                                      *)
LEMMA SegmentType ==
  ASSUME NEW s \in Segments
  PROVE  \/ s.kind = "literal" /\ s.text \in Seq(Char)
         \/ s.kind = "field" /\ s.value \in AllValues /\ s.written \in AllWritten
<1>1. \/ s.kind = "literal" /\ s.text \in Seq(STRING)
      \/ s.kind = "field" /\ s.value \in AllValues /\ s.written \in AllWritten
  BY DEF Segments
<1> QED
  BY <1>1, TextIsOfChars

(* The writes of a segment that the macro accepts.                         *)
LEMMA WritesType ==
  ASSUME NEW s \in Segments, s.kind = "field" => MacroAccepts(s.written),
         build \in Builds
  PROVE  Writes(s) \in Seq(Seq(Char))
<1>1. CASE s.kind = "literal"
  <2>1. s.text \in Seq(Char)
    BY <1>1, SegmentType
  <2>2. <<s.text>> \in Seq(Seq(Char))
    BY <2>1, OneElement
  <2> QED
    BY <1>1, <2>2 DEF Writes
<1>2. CASE s.kind = "field"
  <2>1. s.value \in AllValues /\ s.written \in AllWritten
    BY <1>2, SegmentType
  <2>2. MacroSpec(s.written) \in Specs
    BY <1>2, <2>1, MacroSpecType
  <2>3. build.no64 \in BOOLEAN
    BY DEF Builds
  <2>4. Fmt(s.value, MacroSpec(s.written), build.no64) \in Seq(Seq(Char))
    BY <2>1, <2>2, <2>3, FmtType
  <2> QED
    BY <1>2, <2>4 DEF Writes
<1> QED
  BY <1>1, <1>2, SegmentType

(* The writes of a format string that the macro accepts.                   *)
LEMMA AllWritesType ==
  ASSUME NEW format \in Seq(Segments), Accepted(format), build \in Builds
  PROVE  /\ [i \in DOMAIN format |-> Writes(format[i])] \in Seq(Seq(Seq(Char)))
         /\ Len([i \in DOMAIN format |-> Writes(format[i])]) = Len(format)
         /\ AllWrites(format) \in Seq(Seq(Char))
<1> DEFINE n == Len(format)
           ws == [i \in DOMAIN format |-> Writes(format[i])]
           T == Seq(Char)
<1>1. n \in Nat /\ DOMAIN format = 1..n /\ \A i \in 1..n : format[i] \in Segments
  BY LenProperties, ElementOfSeq
<1>2. ASSUME NEW i \in 1..n
      PROVE  Writes(format[i]) \in Seq(T)
  BY <1>1, WritesType DEF Accepted
<1> HIDE DEF n, T
<1>3. ws \in [1..n -> Seq(T)]
  BY <1>1, <1>2
<1>4. ws \in Seq(Seq(T)) /\ Len(ws) = n
  BY <1>1, <1>3
<1> HIDE DEF ws
<1>5. PICK g : Joined(T, ws, g)
  BY <1>4, JoinedExists
<1>6. FlattenSeq(ws) = g[n]
  BY <1>4, <1>5, FlattenIsJoined
<1>7. n \in 0..n
  BY <1>1
<1>8. g[n] \in Seq(T)
  BY <1>4, <1>5, <1>7 DEF Joined
<1> QED
  BY <1>4, <1>6, <1>8 DEF AllWrites, ws, n, T

(* LogText is what its last segment leaves.                                *)
LEMMA LogTextSteps ==
  ASSUME NEW format \in Seq(Segments), Accepted(format), build \in Builds
  PROVE  \E texts :
           /\ texts \in [0..Len(format) -> Seq(Char)]
           /\ texts[0] = <<>>
           /\ \A i \in 1..Len(format) : texts[i] = WriteAll(texts[i - 1], Writes(format[i]))
           /\ LogText(format) = texts[Len(format)]
<1> DEFINE n == Len(format)
           V == Seq(Char)
           F == [i \in 1..n |-> [t \in V |-> WriteAll(t, Writes(format[i]))]]
           Rec(f) == [i \in 0..n |-> IF i = 0 THEN <<>>
                                     ELSE WriteAll(f[i - 1], Writes(format[i]))]
           f0 == CHOOSE f : f = Rec(f)
<1>1. n \in Nat /\ DOMAIN format = 1..n /\ \A i \in 1..n : format[i] \in Segments
  BY LenProperties, ElementOfSeq
<1>2. ASSUME NEW i \in 1..n, NEW t \in V
      PROVE  WriteAll(t, Writes(format[i])) \in V
  <2>1. Writes(format[i]) \in Seq(Seq(Char))
    BY <1>1, WritesType DEF Accepted
  <2> QED
    BY <2>1, WriteAllType
<1>3. LogText(format) = f0[n]
  BY DEF LogText
<1>4. F \in [1..n -> [V -> V]]
  BY <1>2
<1>5. \A t \in V, i \in 1..n : F[i][t] = WriteAll(t, Writes(format[i]))
  OBVIOUS
<1>6. <<>> \in V
  BY EmptySeq
<1> HIDE DEF n, V, F
<1>7. PICK g : Iterates(g, V, <<>>, n, F)
  BY <1>1, <1>4, <1>6, Recursion
<1>8. /\ g \in [0..n -> V] /\ g[0] = <<>>
      /\ \A i \in 1..n : g[i] = WriteAll(g[i - 1], Writes(format[i]))
  <2>1. g \in [0..n -> V] /\ g[0] = <<>>
    BY <1>7 DEF Iterates
  <2>2. ASSUME NEW i \in 1..n
        PROVE  g[i] = WriteAll(g[i - 1], Writes(format[i]))
    <3>1. i - 1 \in 0..n
      BY <1>1
    <3>2. g[i - 1] \in V
      BY <2>1, <3>1
    <3> QED
      BY <1>5, <1>7, <3>2 DEF Iterates
  <2> QED
    BY <2>1, <2>2
<1>9. g = Rec(g)
  BY <1>8
<1>10. f0 = Rec(f0)
  BY <1>9
<1> HIDE DEF f0
<1>11. /\ f0[0] = <<>>
       /\ \A i \in 1..n : f0[i] = WriteAll(f0[i - 1], Writes(format[i]))
  BY <1>1, <1>10
<1>12. f0[n] = g[n]
  <2>1. Follows(f0, g, n)
    BY <1>8, <1>11 DEF Follows
  <2>2. n \in 0..n
    BY <1>1
  <2> QED
    BY <1>1, <2>1, <2>2, SameSteps
<1> QED
  BY <1>3, <1>8, <1>12 DEF n, V

(* log_text! writes a text that fits its buffer.                           *)
LEMMA LogTextType ==
  ASSUME NEW format \in Seq(Segments), Accepted(format), build \in Builds
  PROVE  LogText(format) \in Seq(Char) /\ Len(LogText(format)) <= BufSize
<1> DEFINE n == Len(format)
<1>1. n \in Nat /\ DOMAIN format = 1..n /\ \A i \in 1..n : format[i] \in Segments
  BY LenProperties, ElementOfSeq
<1>2. PICK texts :
           /\ texts \in [0..n -> Seq(Char)]
           /\ texts[0] = <<>>
           /\ \A i \in 1..n : texts[i] = WriteAll(texts[i - 1], Writes(format[i]))
           /\ LogText(format) = texts[n]
  BY LogTextSteps
<1> DEFINE S == {i \in Nat : i <= n => Len(texts[i]) <= BufSize}
<1>3. 0 \in S
  BY <1>2, OutputAssumption
<1>4. ASSUME NEW i \in Nat, i \in S
      PROVE  i + 1 \in S
  <2> SUFFICES ASSUME i + 1 <= n
               PROVE  Len(texts[i + 1]) <= BufSize
    OBVIOUS
  <2>1. i + 1 \in 1..n /\ i \in 0..n /\ (i + 1) - 1 = i /\ Len(texts[i]) <= BufSize
    BY <1>1, <1>4
  <2>2. texts[i + 1] = WriteAll(texts[i], Writes(format[i + 1])) /\ texts[i] \in Seq(Char)
    BY <1>2, <2>1
  <2>3. Writes(format[i + 1]) \in Seq(Seq(Char))
    BY <1>1, <2>1, WritesType DEF Accepted
  <2> QED
    BY <2>1, <2>2, <2>3, WriteAllType
<1> HIDE DEF n, S
<1>5. n \in S /\ n \in 0..n
  BY <1>1, <1>3, <1>4, SetInduction
<1> QED
  BY <1>1, <1>2, <1>5 DEF S

(* A field takes a number of bytes.                                        *)
LEMMA FieldSizeType ==
  ASSUME NEW v \in AllValues
  PROVE  FieldSize(v) \in Nat
<1>1. v.kind # "str" => v.size \in Nat
  BY DEF AllValues, IntValues, HashValues, FloatValues, WordValues
<1>2. v.kind = "str" => Len(v.text) \in Nat
  <2>1. v.kind = "str" => v.text \in Seq(STRING)
    BY DEF AllValues, IntValues, HashValues, FloatValues, WordValues
  <2> QED
    BY <2>1, LenProperties
<1>3. ASSUME NEW n \in Nat
      PROVE  Counted(n) \in Nat
  BY DEF Counted, LebLen
<1> QED
  BY <1>1, <1>2, <1>3 DEF FieldSize

(* An event takes a number of bytes.                                       *)
LEMMA EventSizeType ==
  ASSUME NEW format \in Seq(Segments)
  PROVE  EventSize(format) \in Nat
<1> DEFINE n == Len(format)
           size(i) == IF format[i].kind = "field" THEN FieldSize(format[i].value) ELSE 0
           F == [i \in 1..n |-> [m \in Nat |-> m + size(i)]]
           Rec(f) == [i \in 0..n |-> IF i = 0 THEN 0 ELSE f[i - 1] + size(i)]
           f0 == CHOOSE f : f = Rec(f)
<1>1. n \in Nat /\ DOMAIN format = 1..n /\ \A i \in 1..n : format[i] \in Segments
  BY LenProperties, ElementOfSeq
<1>2. \A i \in 1..n : size(i) \in Nat
  BY <1>1, SegmentType, FieldSizeType
<1>3. EventSize(format) = f0[n]
  BY DEF EventSize
<1> HIDE DEF size
<1>4. F \in [1..n -> [Nat -> Nat]]
  BY <1>2
<1>5. \A m \in Nat, i \in 1..n : F[i][m] = m + size(i)
  OBVIOUS
<1> HIDE DEF n, F
<1>6. PICK g : Iterates(g, Nat, 0, n, F)
  BY <1>1, <1>4, Recursion
<1>7. /\ g \in [0..n -> Nat] /\ g[0] = 0
      /\ \A i \in 1..n : g[i] = g[i - 1] + size(i)
  <2>1. g \in [0..n -> Nat] /\ g[0] = 0
    BY <1>6 DEF Iterates
  <2>2. ASSUME NEW i \in 1..n
        PROVE  g[i] = g[i - 1] + size(i)
    <3>1. i - 1 \in 0..n
      BY <1>1
    <3>2. g[i - 1] \in Nat
      BY <2>1, <3>1
    <3> QED
      BY <1>5, <1>6, <3>2 DEF Iterates
  <2> QED
    BY <2>1, <2>2
<1>8. g = Rec(g)
  BY <1>7
<1>9. f0 = Rec(f0)
  BY <1>8
<1> HIDE DEF f0
<1>10. f0[0] = 0 /\ \A i \in 1..n : f0[i] = f0[i - 1] + size(i)
  BY <1>1, <1>9
<1>11. f0[n] = g[n] /\ g[n] \in Nat
  <2>1. Follows(f0, g, n)
    BY <1>7, <1>10 DEF Follows
  <2>2. n \in 0..n
    BY <1>1
  <2>3. \A i \in 0..n : f0[i] = g[i]
    BY <1>1, <2>1, SameSteps
  <2> QED
    BY <1>7, <2>2, <2>3
<1> QED
  BY <1>3, <1>11

-----------------------------------------------------------------------------
(* The bytes on the wire.                                                  *)

(* The cells come in the order of the frames, and within a frame each byte *)
(* follows the one before it: what a cut leaves out is at a frame's end.   *)
Before(a, b) == a[1] < b[1] \/ (a[1] = b[1] /\ a[2] < b[2])

Ordered(cells, low, high, fs) ==
  /\ cells \in Seq(Nat \X Nat)
  /\ \A p \in 1..Len(cells) :
       /\ cells[p][1] \in low..high
       /\ cells[p][2] \in 1..FrameLen(fs[cells[p][1]])
       /\ cells[p][2] # 1 =>
            p > 1 /\ cells[p - 1] = <<cells[p][1], cells[p][2] - 1>>
  /\ \A p, q \in 1..Len(cells) : p < q => Before(cells[p], cells[q])

(* A length takes one or two bytes.                                        *)
LEMMA LebLenType ==
  ASSUME NEW n
  PROVE  LebLen(n) \in 1..2
BY DEF LebLen

(* An interval lies in another.                                            *)
LEMMA IntervalInside ==
  ASSUME NEW a \in Int, NEW b \in Int, NEW n \in Nat, a >= 1, b <= n
  PROVE  a..b \subseteq 1..n
OBVIOUS

(* A frame has a tag, a length and a payload.                              *)
LEMMA FrameLenType ==
  ASSUME NEW f, f.len \in Nat
  PROVE  FrameLen(f) \in Nat /\ FrameLen(f) >= TagSize + 1 /\ TagSize \in Nat \ {0}
<1>1. TagSize \in Nat \ {0}
  BY OutputAssumption
<1>2. LebLen(f.len) \in 1..2
  BY LebLenType, Zenon
<1> QED
  BY <1>1, <1>2 DEF FrameLen

(* The bytes of one frame are in order.                                    *)
LEMMA OrderedCells ==
  ASSUME NEW k \in Nat, NEW fs, fs[k].len \in Nat
  PROVE  Ordered(Cells(k, fs[k]), k, k, fs)
<1> DEFINE n == FrameLen(fs[k])
           cells == [i \in 1..n |-> <<k, i>>]
<1>1. n \in Nat
  BY FrameLenType
<1> HIDE DEF n
<1>2. cells \in Seq(Nat \X Nat) /\ Len(cells) = n
  BY <1>1
<1>3. \A p \in 1..n : cells[p] = <<k, p>>
  OBVIOUS
<1> HIDE DEF cells
<1>4. ASSUME NEW p \in 1..n
      PROVE  /\ cells[p][1] \in k..k
             /\ cells[p][2] \in 1..n
             /\ cells[p][1] = k
             /\ cells[p][2] # 1 => p > 1 /\ cells[p - 1] = <<cells[p][1], cells[p][2] - 1>>
  BY <1>1, <1>3
<1>5. ASSUME NEW p \in 1..n, NEW q \in 1..n, p < q
      PROVE  Before(cells[p], cells[q])
  BY <1>1, <1>3, <1>5 DEF Before
<1>6. Ordered(cells, k, k, fs)
  BY <1>2, <1>4, <1>5 DEF Ordered, n
<1> QED
  BY <1>6 DEF Cells, cells, n

(* What is ordered stays ordered in front of bytes of later frames.        *)
LEMMA ConcatOrdered ==
  ASSUME NEW low \in Nat, NEW mid \in Nat, NEW next \in Nat, NEW high \in Nat,
         mid < next, low <= next, mid <= high,
         NEW fs, NEW a, NEW b,
         Ordered(a, low, mid, fs), Ordered(b, next, high, fs)
  PROVE  Ordered(a \o b, low, high, fs)
<1> DEFINE c == a \o b
           m == Len(a)
           n == Len(b)
<1>1. /\ a \in Seq(Nat \X Nat) /\ b \in Seq(Nat \X Nat)
  BY DEF Ordered
<1>2. m \in Nat /\ n \in Nat
  BY <1>1, LenProperties
<1>3. c \in Seq(Nat \X Nat) /\ Len(c) = m + n
  BY <1>1, ConcatProperties
<1>4. \A p \in 1 .. m + n : c[p] = IF p <= m THEN a[p] ELSE b[p - m]
  BY <1>1, ConcatProperties
<1> HIDE DEF c
<1>5. \A p \in 1..m : /\ a[p][1] \in low..mid
                      /\ a[p][2] \in 1..FrameLen(fs[a[p][1]])
                      /\ a[p][2] # 1 => p > 1 /\ a[p - 1] = <<a[p][1], a[p][2] - 1>>
  BY DEF Ordered
<1>6. \A p \in 1..n : /\ b[p][1] \in next..high
                      /\ b[p][2] \in 1..FrameLen(fs[b[p][1]])
                      /\ b[p][2] # 1 => p > 1 /\ b[p - 1] = <<b[p][1], b[p][2] - 1>>
  BY DEF Ordered
<1>7. \A p, q \in 1..m : p < q => Before(a[p], a[q])
  BY DEF Ordered
<1>8. \A p, q \in 1..n : p < q => Before(b[p], b[q])
  BY DEF Ordered
<1> HIDE DEF m, n
<1>9. ASSUME NEW p \in 1 .. m + n
      PROVE  /\ c[p][1] \in low..high
             /\ c[p][2] \in 1..FrameLen(fs[c[p][1]])
             /\ c[p][2] # 1 => p > 1 /\ c[p - 1] = <<c[p][1], c[p][2] - 1>>
  <2>1. CASE p <= m
    <3>1. p \in 1..m /\ c[p] = a[p]
      BY <1>2, <1>4, <2>1
    <3>2. p > 1 => c[p - 1] = a[p - 1]
      BY <1>2, <1>4, <2>1
    <3>3. a[p][1] \in low..high
      BY <1>5, <3>1
    <3> QED
      BY <1>5, <3>1, <3>2, <3>3
  <2>2. CASE ~(p <= m)
    <3> DEFINE r == p - m
    <3>1. r \in 1..n /\ (r > 1 => p > 1)
      BY <1>2, <2>2
    <3>4. c[p] = b[r]
      BY <1>4, <2>2
    <3>2. r > 1 => c[p - 1] = b[r - 1]
      <4>1. r > 1 => p - 1 \in 1 .. m + n /\ ~(p - 1 <= m) /\ (p - 1) - m = r - 1
        BY <1>2, <2>2
      <4> QED
        BY <1>4, <4>1
    <3> HIDE DEF r
    <3>3. b[r][1] \in low..high
      BY <1>6, <3>1
    <3> QED
      BY <1>6, <3>1, <3>2, <3>3, <3>4
  <2> QED
    BY <2>1, <2>2
<1>10. ASSUME NEW p \in 1 .. m + n, NEW q \in 1 .. m + n, p < q
       PROVE  Before(c[p], c[q])
  <2>1. CASE q <= m
    <3>1. p \in 1..m /\ q \in 1..m /\ c[p] = a[p] /\ c[q] = a[q]
      BY <1>2, <1>4, <1>10, <2>1
    <3> QED
      BY <1>7, <1>10, <3>1
  <2>2. CASE p <= m /\ ~(q <= m)
    <3>1. p \in 1..m /\ q - m \in 1..n /\ c[p] = a[p] /\ c[q] = b[q - m]
      BY <1>2, <1>4, <2>2
    <3>2. a[p][1] \in low..mid /\ b[q - m][1] \in next..high
      BY <1>5, <1>6, <3>1
    <3>3. a[p][1] < b[q - m][1]
      BY <3>2
    <3> QED
      BY <3>1, <3>3 DEF Before
  <2>3. CASE ~(p <= m)
    <3>1. /\ p - m \in 1..n /\ q - m \in 1..n /\ p - m < q - m
          /\ c[p] = b[p - m] /\ c[q] = b[q - m]
      BY <1>2, <1>4, <1>10, <2>3
    <3> QED
      BY <1>8, <3>1
  <2> QED
    BY <1>2, <1>10, <2>1, <2>2, <2>3
<1>11. Ordered(c, low, high, fs)
  BY <1>3, <1>9, <1>10 DEF Ordered
<1> QED
  BY <1>11 DEF c

(* Ordered is about the lengths of the frames that have bytes.             *)
LEMMA OrderedExtends ==
  ASSUME NEW low \in Nat, NEW high \in Nat, NEW fs, NEW gs, NEW cells,
         \A k \in low..high : fs[k] = gs[k], Ordered(cells, low, high, fs)
  PROVE  Ordered(cells, low, high, gs)
BY DEF Ordered

(* A cut leaves the order as it is.                                        *)
LEMMA OrderedPrefix ==
  ASSUME NEW low \in Nat, NEW high \in Nat, NEW fs, NEW cells,
         Ordered(cells, low, high, fs), NEW n \in 0..Len(cells)
  PROVE  Ordered(SubSeq(cells, 1, n), low, high, fs)
<1> DEFINE cut == SubSeq(cells, 1, n)
<1>1. cells \in Seq(Nat \X Nat) /\ Len(cells) \in Nat
  BY LenProperties DEF Ordered
<1>2. cut \in Seq(Nat \X Nat) /\ Len(cut) = n /\ \A p \in 1..n : cut[p] = cells[p]
  BY <1>1, SubSeqProperties
<1> HIDE DEF cut
<1>3. \A p \in 1..n : p \in 1..Len(cells)
  BY <1>1
<1>4. ASSUME NEW p \in 1..n
      PROVE  /\ cut[p][1] \in low..high
             /\ cut[p][2] \in 1..FrameLen(fs[cut[p][1]])
             /\ cut[p][2] # 1 => p > 1 /\ cut[p - 1] = <<cut[p][1], cut[p][2] - 1>>
  <2>1. /\ cells[p][1] \in low..high
        /\ cells[p][2] \in 1..FrameLen(fs[cells[p][1]])
        /\ cells[p][2] # 1 => p > 1 /\ cells[p - 1] = <<cells[p][1], cells[p][2] - 1>>
    BY <1>3 DEF Ordered
  <2>2. cut[p] = cells[p] /\ (p > 1 => cut[p - 1] = cells[p - 1])
    BY <1>2
  <2> QED
    BY <2>1, <2>2
<1>5. ASSUME NEW p \in 1..n, NEW q \in 1..n, p < q
      PROVE  Before(cut[p], cut[q])
  BY <1>2, <1>3, <1>5 DEF Ordered
<1>6. Ordered(cut, low, high, fs)
  BY <1>2, <1>4, <1>5 DEF Ordered
<1> QED
  BY <1>6 DEF cut

-----------------------------------------------------------------------------
(* Types.                                                                  *)

Lines == [frame : Nat \ {0}, payload : Seq(Nat \X Nat)]

\* The texts that a call sends.
IsTextOf(c, text) ==
  LET call == program[c] IN
  /\ Accepted(call.format)
  /\ \/ call.via = "event" /\ text = FormatInto(call.format)
     \/ call.via = "text" /\ text = LogText(call.format)

ProgramFrames ==
  {f \in [what : {"header", "event", "message", "start"},
          call : 1..Len(program), len : Nat, text : Seq(Char)] :
     /\ Len(f.text) <= BufSize
     /\ f.what = "message" => IsTextOf(f.call, f.text)}

Messages == {m \in Seq(ProgramFrames) : Len(m) \in 1..2}

IsCompiled == phase \notin {"compiling", "rejected"}

InputInv ==
  /\ program \in Seq(Calls)
  /\ build \in Builds
  /\ IsCompiled => \A c \in DOMAIN program : Accepted(program[c].format)

DeviceInv ==
  /\ phase \in {"compiling", "logging", "decoding", "rejected", "panicked",
                "done", "failed", "crashed"}
  /\ called \in 0..Len(program)
  /\ queue \in Seq(Messages)
  /\ phase \notin {"logging", "panicked"} => queue = <<>>

CaptureInv ==
  /\ frames \in Seq(ProgramFrames)
  /\ Ordered(wire, 1, Len(frames), frames)

LinesInv ==
  /\ pos \in 0..Len(wire)
  /\ lines \in Seq(Lines)
  /\ \A i \in DOMAIN lines : lines[i].frame \in DOMAIN frames

TypeInv == InputInv /\ DeviceInv /\ CaptureInv /\ LinesInv

(* The frames of a program stay what they are.                             *)
LEMMA SameFrames ==
  ASSUME UNCHANGED input
  PROVE  ProgramFrames' = ProgramFrames /\ Messages' = Messages
<1>1. program' = program /\ build' = build
  BY DEF input
<1>2. ProgramFrames' = ProgramFrames
  <2>1. ASSUME NEW s
        PROVE  Writes(s)' = Writes(s)
    BY <1>1 DEF Writes
  <2>2. ASSUME NEW format
        PROVE  FormatInto(format)' = FormatInto(format) /\ LogText(format)' = LogText(format)
    BY <1>1 DEF FormatInto, LogText, AllWrites, Writes
  <2>3. ASSUME NEW c, NEW text
        PROVE  IsTextOf(c, text)' <=> IsTextOf(c, text)
    BY <1>1, <2>2 DEF IsTextOf
  <2> QED
    BY <1>1, <2>3 DEF ProgramFrames
<1> QED
  BY <1>2 DEF Messages

(* The type invariant holds in the beginning.                              *)
LEMMA TypeInit == Init => TypeInv
<1> SUFFICES ASSUME Init
             PROVE  TypeInv
  OBVIOUS
<1>1. PICK r \in Runs : program = r.program /\ build = r.build
  BY DEF Init
<1>2. program \in Seq(Calls) /\ build \in Builds
  BY <1>1, OutputAssumption
<1>3. InputInv
  BY <1>2 DEF Init, InputInv, IsCompiled
<1>4. Len(program) \in Nat
  BY <1>2, LenProperties
<1>5. DeviceInv
  BY <1>4 DEF Init, DeviceInv
<1>6. CaptureInv
  BY DEF Init, CaptureInv, Ordered
<1>7. LinesInv
  BY DEF Init, LinesInv
<1> QED
  BY <1>3, <1>5, <1>6, <1>7 DEF TypeInv

(* A call is one of three kinds, with segments.                            *)
LEMMA CallType ==
  ASSUME InputInv, NEW c \in 1..Len(program)
  PROVE  /\ program[c].via \in {"event", "text", "bare"}
         /\ program[c].format \in Seq(Segments)
         /\ IsCompiled => Accepted(program[c].format)
<1>1. program[c] \in Calls /\ DOMAIN program = 1..Len(program)
  BY LenProperties, ElementOfSeq DEF InputInv
<1> QED
  BY <1>1 DEF InputInv, Calls

(* The texts of a call fit the buffer.                                     *)
LEMMA CallTexts ==
  ASSUME InputInv, NEW c \in 1..Len(program), NEW text, IsTextOf(c, text)
  PROVE  text \in Seq(Char) /\ Len(text) <= BufSize
<1>1. program[c].format \in Seq(Segments) /\ Accepted(program[c].format) /\ build \in Builds
  BY CallType DEF InputInv, IsTextOf
<1>2. CASE text = FormatInto(program[c].format)
  <2>1. AllWrites(program[c].format) \in Seq(Seq(Char))
    BY <1>1, AllWritesType
  <2>2. <<>> \in Seq(Char) /\ Len(<<>>) <= BufSize
    BY OutputAssumption
  <2> QED
    BY <1>2, <2>1, <2>2, WriteAllType DEF FormatInto
<1>3. CASE text = LogText(program[c].format)
  BY <1>1, <1>3, LogTextType
<1> QED
  BY <1>2, <1>3 DEF IsTextOf

(* The frames of a call are frames of the program.                         *)
LEMMA CallFrames ==
  ASSUME InputInv, IsCompiled, NEW c \in 1..Len(program)
  PROVE  /\ Header(c) \in ProgramFrames
         /\ EventFrame(c) \in ProgramFrames
         /\ Frame("start", c, StartSize, <<>>) \in ProgramFrames
         /\ \A text : IsTextOf(c, text) => MessageFrame(c, text) \in ProgramFrames
<1>1. <<>> \in Seq(Char) /\ Len(<<>>) <= BufSize
  BY OutputAssumption
<1>2. EventSize(program[c].format) \in Nat
  BY CallType, EventSizeType
<1>3. HeaderSize \in Nat /\ StartSize \in Nat
  BY OutputAssumption
<1>4. ASSUME NEW text, IsTextOf(c, text)
      PROVE  MessageFrame(c, text) \in ProgramFrames
  <2>1. text \in Seq(Char) /\ Len(text) <= BufSize
    BY <1>4, CallTexts
  <2>2. Counted(Len(text)) \in Nat
    <3>1. Len(text) \in Nat
      BY <2>1, LenProperties
    <3> QED
      BY <3>1, LebLenType DEF Counted
  <2> QED
    BY <1>4, <2>1, <2>2 DEF MessageFrame, Frame, ProgramFrames
<1> QED
  BY <1>1, <1>2, <1>3, <1>4 DEF Header, EventFrame, Frame, ProgramFrames

(* The messages of a call are messages of the program.                     *)
LEMMA CallMessages ==
  ASSUME InputInv, IsCompiled, NEW c \in 1..Len(program)
  PROVE  /\ program[c].via = "event" => SendEvent(c) \in Seq(Messages)
         /\ program[c].via = "text" => TextEvent(c) \in Seq(Messages)
         /\ BareEvent(c) \in Seq(Messages)
         /\ SentBeforePanic(c) \in Seq(Messages)
<1>1. /\ Header(c) \in ProgramFrames
      /\ EventFrame(c) \in ProgramFrames
      /\ Frame("start", c, StartSize, <<>>) \in ProgramFrames
      /\ \A text : IsTextOf(c, text) => MessageFrame(c, text) \in ProgramFrames
  BY CallFrames
<1>2. ASSUME NEW f \in ProgramFrames
      PROVE  <<<<f>>>> \in Seq(Messages)
  BY OneElement DEF Messages
<1>3. ASSUME NEW f \in ProgramFrames, NEW g \in ProgramFrames
      PROVE  <<<<f, g>>>> \in Seq(Messages)
  BY OneElement, TwoElements DEF Messages
<1>4. BareEvent(c) \in Seq(Messages)
  BY <1>1, <1>2 DEF BareEvent
<1>5. ASSUME program[c].via = "text"
      PROVE  TextEvent(c) \in Seq(Messages)
  <2>1. MessageFrame(c, LogText(program[c].format)) \in ProgramFrames
    BY <1>1, <1>5, CallType DEF IsTextOf
  <2> QED
    BY <1>1, <1>3, <2>1 DEF TextEvent
<1>6. ASSUME program[c].via = "event"
      PROVE  SendEvent(c) \in Seq(Messages)
  <2>1. MessageFrame(c, FormatInto(program[c].format)) \in ProgramFrames
    BY <1>1, <1>6, CallType DEF IsTextOf
  <2>2. TextSend(c) \in Seq(Messages)
    BY <1>1, <1>3, <2>1 DEF TextSend
  <2>3. BinarySend(c) \in Seq(Messages)
    BY <1>1, <1>3 DEF BinarySend
  <2>4. BinarySend(c) \o TextSend(c) \in Seq(Messages)
    BY <2>2, <2>3, ConcatProperties
  <2>5. build.mode \in {"binary", "text", "both"}
    BY DEF InputInv, Builds
  <2> QED
    BY <2>2, <2>3, <2>4, <2>5 DEF SendEvent
<1>7. SentBeforePanic(c) \in Seq(Messages)
  BY <1>1, <1>3, EmptySeq DEF SentBeforePanic, BinarySend
<1> QED
  BY <1>4, <1>5, <1>6, <1>7

(* A frame of the program has a length.                                    *)
LEMMA FrameType ==
  ASSUME NEW f \in ProgramFrames
  PROVE  /\ f.len \in Nat
         /\ FrameLen(f) \in Nat /\ FrameLen(f) - f.len \in Nat
         /\ FrameLen(f) - f.len = TagSize + LebLen(f.len)
         /\ FrameLen(f) >= TagSize + 1 + f.len
         /\ FrameLen(f) <= TagSize + 2 + f.len
<1>1. f.len \in Nat
  BY DEF ProgramFrames
<1>2. LebLen(f.len) \in 1..2 /\ TagSize \in Nat \ {0}
  BY LebLenType, OutputAssumption
<1>3. FrameLen(f) = TagSize + LebLen(f.len) + f.len
  BY DEF FrameLen
<1> QED
  BY <1>1, <1>2, <1>3

(* The bytes of a message are in order, behind those of all the others.    *)
LEMMA MessageOrdered ==
  ASSUME frames \in Seq(ProgramFrames), NEW message \in Messages
  PROVE  Ordered(MessageCells(message), Len(frames) + 1,
                 Len(frames) + Len(message), frames \o message)
<1> DEFINE m == Len(frames)
           n == Len(message)
           fs == frames \o message
           ss == [i \in DOMAIN message |-> Cells(m + i, message[i])]
           T == Nat \X Nat
<1>1. m \in Nat /\ n \in 1..2 /\ message \in Seq(ProgramFrames) /\ DOMAIN message = 1..n
  BY LenProperties DEF Messages
<1>2. ASSUME NEW i \in 1..n
      PROVE  fs[m + i] = message[i] /\ message[i] \in ProgramFrames
  <2>1. fs[m + i] = message[i]
    BY <1>1, ConcatProperties
  <2> QED
    BY <1>1, <2>1, ElementOfSeq
<1> HIDE DEF fs, m, n
<1>3. ASSUME NEW i \in 1..n
      PROVE  Ordered(Cells(m + i, message[i]), m + i, m + i, fs)
  <2>1. m + i \in Nat /\ fs[m + i].len \in Nat /\ fs[m + i] = message[i]
    BY <1>1, <1>2, FrameType
  <2>2. Ordered(Cells(m + i, fs[m + i]), m + i, m + i, fs)
    BY <2>1, OrderedCells
  <2> QED
    BY <2>1, <2>2
<1>4. ss \in Seq(Seq(T)) /\ Len(ss) = n /\ \A i \in 1..n : ss[i] = Cells(m + i, message[i])
  <2>1. ASSUME NEW i \in 1..n
        PROVE  Cells(m + i, message[i]) \in Seq(T)
    BY <1>3 DEF Ordered
  <2> HIDE DEF T
  <2> QED
    BY <1>1, <2>1
<1> HIDE DEF ss, T
<1>5. PICK g : Joined(T, ss, g)
  BY <1>4, JoinedExists
<1>6. g[0] = <<>> /\ \A i \in 1..n : g[i] = g[i - 1] \o ss[i]
  BY <1>4, <1>5 DEF Joined
<1>7. Ordered(g[0], m + 1, m, fs)
  BY <1>6 DEF Ordered
<1>8. ASSUME NEW i \in 1..n, Ordered(g[i - 1], m + 1, m + (i - 1), fs)
      PROVE  Ordered(g[i], m + 1, m + i, fs)
  <2> DEFINE low == m + 1
             mid == m + (i - 1)
             next == m + i
  <2>1. low \in Nat /\ mid \in Nat /\ next \in Nat /\ mid < next /\ low <= next
    BY <1>1
  <2>2. Ordered(g[i - 1], low, mid, fs) /\ Ordered(ss[i], next, next, fs)
    BY <1>3, <1>4, <1>8
  <2> HIDE DEF low, mid, next
  <2>3. mid <= next
    BY <2>1
  <2>4. Ordered(g[i - 1] \o ss[i], low, next, fs)
    BY <2>1, <2>2, <2>3, ConcatOrdered
  <2> QED
    BY <1>6, <2>4 DEF low, next
<1>9. Ordered(g[n], m + 1, m + n, fs)
  <2>1. Ordered(g[1], m + 1, m + 1, fs)
    <3>1. 1 \in 1..n /\ 1 - 1 = 0 /\ m + 0 = m
      BY <1>1
    <3> QED
      BY <1>7, <1>8, <3>1
  <2>2. n = 2 => Ordered(g[2], m + 1, m + 2, fs)
    <3>1. n = 2 => 2 \in 1..n /\ 2 - 1 = 1
      BY <1>1
    <3> QED
      BY <1>8, <2>1, <3>1
  <2> QED
    BY <1>1, <2>1, <2>2
<1>10. FlattenSeq(ss) = g[n]
  BY <1>4, <1>5, FlattenIsJoined
<1> QED
  BY <1>9, <1>10 DEF MessageCells, ss, m, n, fs

(* The tag that is read is that of a frame, or of none.                    *)
LEMMA FrameAtType ==
  ASSUME NEW p
  PROVE  FrameAt(p) \in {0} \cup DOMAIN frames
BY DEF FrameAt

(* The lengths that are read, with the bytes that they take.               *)
LEMMA LengthsAtType ==
  ASSUME frames \in Seq(ProgramFrames), NEW p, NEW l \in LengthsAt(p)
  PROVE  l[1] \in Nat /\ l[2] \in 1..2
<1> DEFINE true == {k \in DOMAIN frames :
                      Holds(p, k, TagSize + 1, TagSize + LebLen(frames[k].len))}
<1>1. CASE true = {}
  <2>1. l \in {<<n, 1>> : n \in 0..MaxGuess}
    BY <1>1 DEF LengthsAt
  <2> QED
    BY <2>1, OutputAssumption
<1>2. CASE true # {}
  <2>1. l \in {<<frames[k].len, LebLen(frames[k].len)>> : k \in true}
    BY <1>2 DEF LengthsAt
  <2>2. PICK k \in DOMAIN frames : l = <<frames[k].len, LebLen(frames[k].len)>>
    BY <2>1
  <2>3. frames[k] \in ProgramFrames
    BY <2>2, LenProperties, ElementOfSeq
  <2> QED
    BY <2>2, <2>3, FrameType, LebLenType
<1> QED
  BY <1>1, <1>2

(* A message that is delivered comes behind the others.                    *)
LEMMA CaptureNext ==
  ASSUME TypeInv, Deliver
  PROVE  /\ frames \o Head(queue) \in Seq(ProgramFrames)
         /\ Len(frames \o Head(queue)) >= Len(frames)
         /\ \A k \in 1..Len(frames) : (frames \o Head(queue))[k] = frames[k]
         /\ wire' \in Seq(Nat \X Nat)
         /\ Len(wire') >= Len(wire)
         /\ Ordered(wire', 1, Len(frames'), frames')
<1> DEFINE m == Len(frames)
           h == Head(queue)
           n == Len(h)
           fs == frames \o h
           cells == MessageCells(h)
           cut == Cut(cells)
<1>1. frames \in Seq(ProgramFrames) /\ Ordered(wire, 1, m, frames) /\ m \in Nat
  BY LenProperties DEF TypeInv, CaptureInv
<1>2. h \in Messages
  BY HeadTailProperties DEF TypeInv, DeviceInv, Deliver
<1>3. h \in Seq(ProgramFrames) /\ n \in 1..2
  BY <1>2 DEF Messages
<1>4. /\ fs \in Seq(ProgramFrames) /\ Len(fs) = m + n
      /\ \A k \in 1..m : fs[k] = frames[k]
  BY <1>1, <1>3, ConcatProperties
<1>5. Ordered(cells, m + 1, m + n, fs)
  BY <1>1, <1>2, MessageOrdered
<1>6. wire' = wire \o cut /\ frames' = fs
  BY DEF Deliver
<1>7. build.capacity \in Nat
  BY DEF TypeInv, InputInv, Builds
<1> HIDE DEF m, h, n, fs, cells, cut
<1>8. Ordered(cut, m + 1, m + n, fs)
  <2> DEFINE k == IF Len(cells) > build.capacity THEN build.capacity ELSE Len(cells)
             low == m + 1
             high == m + n
  <2>1. k \in 0..Len(cells)
    <3>1. Len(cells) \in Nat
      BY <1>5, LenProperties DEF Ordered
    <3> QED
      BY <1>7, <3>1
  <2>2. cut = SubSeq(cells, 1, k)
    BY DEF cut, Cut
  <2>3. low \in Nat /\ high \in Nat
    BY <1>1, <1>3
  <2>4. Ordered(cells, low, high, fs)
    BY <1>5
  <2> HIDE DEF k, low, high
  <2>5. Ordered(SubSeq(cells, 1, k), low, high, fs)
    BY <2>1, <2>3, <2>4, OrderedPrefix
  <2> QED
    BY <2>2, <2>5 DEF low, high
<1>9. Ordered(wire, 1, m, fs)
  <2>1. 1 \in Nat /\ \A k \in 1..m : frames[k] = fs[k]
    BY <1>4
  <2> QED
    BY <1>1, <2>1, OrderedExtends
<1>10. Ordered(wire \o cut, 1, m + n, fs)
  <2> DEFINE low == m + 1
             high == m + n
  <2>1. /\ low \in Nat /\ high \in Nat /\ m < low /\ 1 <= low /\ m <= high /\ 1 \in Nat
    BY <1>1, <1>3
  <2>2. Ordered(cut, low, high, fs)
    BY <1>8
  <2> HIDE DEF low, high
  <2>3. Ordered(wire \o cut, 1, high, fs)
    BY <1>1, <1>9, <2>1, <2>2, ConcatOrdered
  <2> QED
    BY <2>3 DEF high
<1>11. wire \o cut \in Seq(Nat \X Nat) /\ Len(wire \o cut) >= Len(wire)
  <2> HIDE DEF Ordered
  <2>1. wire \in Seq(Nat \X Nat) /\ cut \in Seq(Nat \X Nat)
    BY <1>8, <1>9 DEF Ordered
  <2>2. Len(wire \o cut) = Len(wire) + Len(cut) /\ wire \o cut \in Seq(Nat \X Nat)
    BY <2>1, ConcatProperties
  <2>3. Len(wire) \in Nat /\ Len(cut) \in Nat
    BY <2>1, LenProperties
  <2> QED
    BY <2>2, <2>3
<1>12. m + n >= m
  BY <1>1, <1>3
<1> QED
  BY <1>4, <1>6, <1>10, <1>11, <1>12 DEF fs, h, m

(* Every step keeps the types.                                             *)
LEMMA TypeNext == TypeInv /\ [Next]_vars => TypeInv'
<1> SUFFICES ASSUME TypeInv, [Next]_vars
             PROVE  TypeInv'
  OBVIOUS
<1> USE DEF input, device, capture, decoder
<1>1. /\ InputInv /\ DeviceInv /\ CaptureInv /\ LinesInv
  BY DEF TypeInv
<1>2. UNCHANGED input
  BY DEF Next, Compile, BeginCall, Deliver, Lose, EndCapture, EndOfData, BadLength,
         DecodeFrame, Stop, Finish, vars
<1>3. ProgramFrames' = ProgramFrames /\ Messages' = Messages
  BY <1>2, SameFrames
<1>4. phase' = phase => InputInv'
  BY <1>1, <1>2 DEF InputInv, IsCompiled, Accepted
<1>5. IsCompiled => InputInv'
  BY <1>1, <1>2 DEF InputInv, IsCompiled, Accepted
<1>6. UNCHANGED capture => CaptureInv'
  BY <1>1, <1>3 DEF CaptureInv
<1>7. UNCHANGED <<capture, decoder>> => LinesInv'
  BY <1>1 DEF LinesInv
<1>8. CASE Compile
  <2>1. InputInv'
    <3>1. phase' = "rejected" \/ \A c \in DOMAIN program : Accepted(program[c].format)
      BY <1>8 DEF Compile, Accepted
    <3> QED
      BY <1>1, <1>2, <3>1 DEF InputInv, IsCompiled, Accepted
  <2>2. DeviceInv'
    BY <1>1, <1>2, <1>3, <1>8 DEF DeviceInv, Compile
  <2> QED
    BY <1>6, <1>7, <1>8, <2>1, <2>2 DEF TypeInv, Compile
<1>9. CASE BeginCall
  <2>1. IsCompiled /\ called + 1 \in 1..Len(program)
    BY <1>1, <1>9, LenProperties DEF BeginCall, IsCompiled, DeviceInv, InputInv
  <2>2. /\ program[called + 1].via \in {"event", "text", "bare"}
        /\ program[called + 1].via = "event" => SendEvent(called + 1) \in Seq(Messages)
        /\ program[called + 1].via = "text" => TextEvent(called + 1) \in Seq(Messages)
        /\ BareEvent(called + 1) \in Seq(Messages)
        /\ SentBeforePanic(called + 1) \in Seq(Messages)
    BY <1>1, <2>1, CallType, CallMessages
  <2>3. queue' \in Seq(Messages)
    BY <1>9, <2>2 DEF BeginCall
  <2>4. phase' \in {"logging", "panicked"} /\ called' = called + 1
    BY <1>9 DEF BeginCall
  <2>5. DeviceInv'
    BY <1>1, <1>2, <1>3, <2>1, <2>3, <2>4 DEF DeviceInv
  <2> QED
    BY <1>5, <1>6, <1>7, <1>9, <2>1, <2>5 DEF TypeInv, BeginCall
<1>10. CASE Deliver
  <2>1. /\ frames' = frames \o Head(queue)
        /\ frames' \in Seq(ProgramFrames)
        /\ Len(frames') >= Len(frames)
        /\ wire' \in Seq(Nat \X Nat)
        /\ Len(wire') >= Len(wire)
        /\ Ordered(wire', 1, Len(frames'), frames')
    BY <1>10, CaptureNext DEF Deliver
  <2>2. CaptureInv'
    BY <1>3, <2>1 DEF CaptureInv
  <2>3. LinesInv'
    <3>1. Len(wire) \in Nat /\ Len(wire') \in Nat
      BY <1>1, <2>1, LenProperties DEF CaptureInv, Ordered
    <3>2. DOMAIN frames \subseteq DOMAIN frames'
      BY <1>1, <2>1, LenProperties DEF CaptureInv
    <3> QED
      BY <1>1, <1>10, <2>1, <3>1, <3>2 DEF LinesInv, Deliver
  <2>4. DeviceInv'
    <3>1. Tail(queue) \in Seq(Messages) /\ phase \in {"logging", "panicked"}
      BY <1>1, <1>10, HeadTailProperties DEF DeviceInv, Deliver
    <3> QED
      BY <1>1, <1>2, <1>3, <1>10, <3>1 DEF DeviceInv, Deliver
  <2> QED
    BY <1>4, <1>10, <2>2, <2>3, <2>4 DEF TypeInv, Deliver
<1>11. CASE Lose
  <2>1. DeviceInv'
    <3>1. Tail(queue) \in Seq(Messages) /\ phase \in {"logging", "panicked"}
      BY <1>1, <1>11, HeadTailProperties DEF DeviceInv, Lose
    <3> QED
      BY <1>1, <1>2, <1>3, <1>11, <3>1 DEF DeviceInv, Lose
  <2> QED
    BY <1>4, <1>6, <1>7, <1>11, <2>1 DEF TypeInv, Lose
<1>12. CASE EndCapture
  <2>1. DeviceInv'
    BY <1>1, <1>2, <1>3, <1>12 DEF DeviceInv, EndCapture
  <2>2. IsCompiled
    BY <1>12 DEF IsCompiled, EndCapture
  <2> QED
    BY <1>5, <1>6, <1>7, <1>12, <2>1, <2>2 DEF TypeInv, EndCapture
<1>13. ASSUME NEW how \in {"done", "failed", "crashed"}, Stop(how), phase = "decoding"
       PROVE  TypeInv'
  <2>1. DeviceInv'
    BY <1>1, <1>2, <1>3, <1>13 DEF DeviceInv, Stop
  <2>2. IsCompiled
    BY <1>13 DEF IsCompiled
  <2> QED
    BY <1>5, <1>6, <1>7, <1>13, <2>1, <2>2 DEF TypeInv, Stop
<1>14. CASE EndOfData
  BY <1>13, <1>14 DEF EndOfData
<1>15. CASE BadLength
  BY <1>13, <1>15 DEF BadLength
<1>16. CASE DecodeFrame
  <2> DEFINE k == FrameAt(pos)
  <2>1. PICK l \in LengthsAt(pos + TagSize) :
          LET start == pos + TagSize + l[2]
              payload == SubSeq(wire, start + 1, start + l[1]) IN
          IF Truncated(start, l[1]) THEN Stop("done")
          ELSE IF HostPanics(k, payload) THEN Stop("crashed")
          ELSE /\ pos' = start + l[1]
               /\ lines' = IF IsKnown(k)
                           THEN Append(lines, [frame |-> k, payload |-> payload])
                           ELSE lines
               /\ UNCHANGED <<input, phase, device, capture>>
    BY <1>16 DEF DecodeFrame
  <2> DEFINE start == pos + TagSize + l[2]
             payload == SubSeq(wire, start + 1, start + l[1])
  <2>2. phase = "decoding"
    BY <1>16 DEF DecodeFrame
  <2>3. CASE Stop("done") \/ Stop("crashed")
    BY <1>13, <2>2, <2>3
  <2>4. CASE /\ ~Truncated(start, l[1])
             /\ pos' = start + l[1]
             /\ lines' = IF IsKnown(k)
                         THEN Append(lines, [frame |-> k, payload |-> payload])
                         ELSE lines
             /\ UNCHANGED <<input, phase, device, capture>>
    <3>1. l[1] \in Nat /\ l[2] \in 1..2
      BY <1>1, LengthsAtType DEF CaptureInv
    <3>2. wire \in Seq(Nat \X Nat) /\ Len(wire) \in Nat
      BY <1>1, LenProperties DEF CaptureInv, Ordered
    <3>3. start \in Nat /\ start + l[1] <= Len(wire)
      <4>1. TagSize \in Nat /\ pos \in Nat
        BY <1>1, <3>2, OutputAssumption DEF LinesInv
      <4>2. start \in Nat
        BY <3>1, <4>1
      <4>3. ~(Len(wire) - start < l[1])
        BY <2>4 DEF Truncated
      <4> HIDE DEF start
      <4> QED
        BY <3>1, <3>2, <4>2, <4>3
    <3> HIDE DEF start
    <3>4. payload \in Seq(Nat \X Nat)
      <4>1. start + 1 \in 1 .. Len(wire) + 1 /\ start + l[1] \in 0 .. Len(wire)
        BY <3>1, <3>2, <3>3
      <4>2. \A i \in start + 1 .. start + l[1] : wire[i] \in Nat \X Nat
        <5>1. start + 1 .. start + l[1] \subseteq 1..Len(wire)
          BY <3>2, <4>1, IntervalInside
        <5> QED
          BY <3>2, <5>1, ElementOfSeq
      <4> QED
        BY <4>1, <4>2, SubSeqProperties
    <3>5. k \in {0} \cup DOMAIN frames /\ DOMAIN frames \subseteq Nat \ {0}
      BY <1>1, FrameAtType, LenProperties DEF CaptureInv
    <3> HIDE DEF k, payload
    <3>6. CASE IsKnown(k)
      <4>1. k \in DOMAIN frames /\ k \in Nat \ {0}
        BY <3>5, <3>6 DEF IsKnown
      <4> DEFINE line == [frame |-> k, payload |-> payload]
      <4>2. line \in Lines /\ line.frame = k
        BY <3>4, <4>1 DEF Lines
      <4> HIDE DEF line
      <4>3. lines \in Seq(Lines) /\ lines' = Append(lines, line)
        BY <1>1, <2>4, <3>6 DEF LinesInv, line
      <4>4. /\ lines' \in Seq(Lines) /\ Len(lines') = Len(lines) + 1
            /\ \A i \in 1..Len(lines) : lines'[i] = lines[i]
            /\ lines'[Len(lines) + 1] = line
            /\ Len(lines) \in Nat
        BY <4>2, <4>3, AppendProperties, LenProperties
      <4>5. ASSUME NEW i \in DOMAIN lines'
            PROVE  lines'[i].frame \in DOMAIN frames
        <5>1. DOMAIN lines' = 1 .. Len(lines) + 1 /\ DOMAIN lines = 1..Len(lines)
          BY <4>3, <4>4, LenProperties
        <5>2. i \in DOMAIN lines \/ i = Len(lines) + 1
          BY <4>4, <5>1
        <5> QED
          BY <1>1, <4>1, <4>2, <4>4, <5>1, <5>2 DEF LinesInv
      <4>6. pos' \in 0..Len(wire)
        BY <2>4, <3>1, <3>2, <3>3
      <4>7. LinesInv'
        BY <2>4, <4>4, <4>5, <4>6 DEF LinesInv
      <4>8. DeviceInv'
        BY <1>1, <1>2, <1>3, <2>4 DEF DeviceInv
      <4> QED
        BY <1>4, <1>6, <2>4, <4>7, <4>8 DEF TypeInv
    <3>7. CASE ~IsKnown(k)
      <4>1. pos' \in 0..Len(wire)
        BY <2>4, <3>1, <3>2, <3>3
      <4>2. LinesInv'
        BY <1>1, <2>4, <3>7, <4>1 DEF LinesInv
      <4>3. DeviceInv'
        BY <1>1, <1>2, <1>3, <2>4 DEF DeviceInv
      <4> QED
        BY <1>4, <1>6, <2>4, <4>2, <4>3 DEF TypeInv
    <3> QED
      BY <3>6, <3>7
  <2> QED
    BY <2>1, <2>3, <2>4
<1>17. CASE UNCHANGED vars
  BY <1>1, <1>3, <1>4, <1>6, <1>7, <1>17 DEF TypeInv, DeviceInv, vars
<1>18. CASE Finish
  BY <1>17, <1>18 DEF Finish
<1> QED
  BY <1>8, <1>9, <1>10, <1>11, <1>12, <1>14, <1>15, <1>16, <1>17, <1>18 DEF Next

(* The type invariant holds for every program.                             *)
THEOREM TypeHolds == OutputSpec => []TypeInv
BY TypeInit, TypeNext, PTL DEF OutputSpec

(* The variables stay in their ranges, whatever the program, the build and *)
(* the cuts.                                                               *)
THEOREM TypesHold == OutputSpec => []OutputTypeOK
<1>1. ASSUME TypeInv
      PROVE  OutputTypeOK
  <2>1. /\ InputInv /\ DeviceInv /\ CaptureInv /\ LinesInv
    BY <1>1 DEF TypeInv
  <2>2. \A m \in DOMAIN queue : Len(queue[m]) \in 1..2
    BY <2>1, ElementOfSeq, LenProperties DEF DeviceInv, Messages
  <2>3. \A k \in DOMAIN frames : Len(frames[k].text) <= BufSize
    BY <2>1, ElementOfSeq, LenProperties DEF CaptureInv, ProgramFrames
  <2>4. \A i \in DOMAIN wire : wire[i][1] \in DOMAIN frames
    BY <2>1, LenProperties DEF CaptureInv, Ordered
  <2> QED
    BY <2>1, <2>2, <2>3, <2>4 DEF OutputTypeOK, DeviceInv, LinesInv
<1> QED
  BY <1>1, TypeHolds, PTL

(* The host's parser makes of a spec that the macro accepts what the macro *)
(* makes of it.                                                            *)
LEMMA SameSpec ==
  ASSUME NEW w \in AllWritten, MacroAccepts(w)
  PROVE  HostAccepts(w) /\ HostSpec(w) = MacroSpec(w)
<1>1. HostAccepts(w)
  BY DEF HostAccepts, MacroAccepts
<1>2. {IF n <= FieldMax THEN n ELSE 6 : n \in w.precision} = w.precision
  BY DEF MacroAccepts
<1> QED
  BY <1>1, <1>2 DEF HostSpec, MacroSpec

(* Both parsers of a spec agree, for every program that compiles.          *)
THEOREM SpecsStayAgreed == OutputSpec => []SpecsAgree
<1>1. ASSUME TypeInv
      PROVE  SpecsAgree
  <2> SUFFICES ASSUME phase \notin {"compiling", "rejected"},
                      NEW c \in DOMAIN program,
                      NEW i \in DOMAIN program[c].format,
                      program[c].format[i].kind = "field"
               PROVE  /\ HostAccepts(program[c].format[i].written)
                      /\ HostSpec(program[c].format[i].written)
                           = MacroSpec(program[c].format[i].written)
    BY DEF SpecsAgree
  <2>1. c \in 1..Len(program) /\ InputInv /\ IsCompiled
    BY <1>1, LenProperties DEF TypeInv, InputInv, IsCompiled
  <2>2. program[c].format \in Seq(Segments) /\ Accepted(program[c].format)
    BY <2>1, CallType
  <2>3. program[c].format[i] \in Segments
    BY <2>2, ElementOfSeq, LenProperties
  <2>4. program[c].format[i].written \in AllWritten
    BY <2>3, SegmentType
  <2>5. MacroAccepts(program[c].format[i].written)
    BY <2>2 DEF Accepted
  <2> QED
    BY <2>4, <2>5, SameSpec
<1> QED
  BY <1>1, TypeHolds, PTL

-----------------------------------------------------------------------------
(* Where the bytes of a frame are.                                         *)

(* No byte is on the wire twice.                                           *)
LEMMA OncePerByte ==
  ASSUME CaptureInv, NEW p \in 1..Len(wire), NEW q \in 1..Len(wire), wire[p] = wire[q]
  PROVE  p = q
<1>1. Len(wire) \in Nat
  BY LenProperties DEF CaptureInv, Ordered
<1>2. wire[p][1] \in Int /\ wire[p][2] \in Int
  BY ElementOfSeq DEF CaptureInv, Ordered
<1>3. ~Before(wire[p], wire[q]) /\ ~Before(wire[q], wire[p])
  BY <1>2 DEF Before
<1>4. ~(p < q) /\ ~(q < p)
  BY <1>3 DEF CaptureInv, Ordered
<1> QED
  BY <1>1, <1>4

(* Joining three texts.                                                    *)
LEMMA TextAssociative ==
  \A r, s, t \in Seq(Char) : (r \o s) \o t = r \o (s \o t)
BY ConcatAssociative, SMTT(20)

(* The first bytes of a frame, in terms of positions.                      *)
LEMMA HoldsFirst ==
  ASSUME NEW p \in Nat, NEW n \in Nat, NEW k
  PROVE  Holds(p, k, 1, n) <=>
           p + n <= Len(wire) /\ \A i \in 1..n : wire[p + i] = <<k, i>>
<1>1. p + (n - 1 + 1) = p + n
  OBVIOUS
<1>2. \A i \in 1..n : p + i - 1 + 1 = p + i
  OBVIOUS
<1> QED
  BY <1>1, <1>2 DEF Holds

(* In front of a byte of a frame are the frame's bytes before it.          *)
LEMMA BytesInFront ==
  ASSUME CaptureInv, NEW p \in 1..Len(wire), NEW k, NEW n, wire[p] = <<k, n>>
  PROVE  n \in Nat \ {0} /\ p - n \in Nat /\ Holds(p - n, k, 1, n)
<1>1. Len(wire) \in Nat
  BY LenProperties DEF CaptureInv, Ordered
<1>2. ASSUME NEW q \in 1..Len(wire), NEW i, wire[q] = <<k, i>>
      PROVE  /\ i \in Nat \ {0}
             /\ i # 1 => q > 1 /\ wire[q - 1] = <<k, i - 1>>
  <2>1. wire[q] \in Nat \X Nat
    BY ElementOfSeq DEF CaptureInv, Ordered
  <2>2. wire[q][1] = k /\ wire[q][2] = i
    BY <1>2
  <2>3. i \in 1..FrameLen(frames[k])
    BY <2>2 DEF CaptureInv, Ordered
  <2>4. wire[q][2] # 1 => q > 1 /\ wire[q - 1] = <<wire[q][1], wire[q][2] - 1>>
    BY DEF CaptureInv, Ordered
  <2>5. i \in Nat
    BY <2>1, <2>2
  <2> QED
    BY <2>2, <2>3, <2>4, <2>5
<1>3. n \in Nat \ {0}
  BY <1>2
<1> DEFINE S == {j \in Nat : j < n => p - j \in 1..Len(wire) /\ wire[p - j] = <<k, n - j>>}
<1>4. 0 \in S
  <2>1. p - 0 = p /\ n - 0 = n
    BY <1>1, <1>3
  <2> QED
    BY <2>1
<1>5. ASSUME NEW j \in Nat, j \in S
      PROVE  j + 1 \in S
  <2> SUFFICES ASSUME j + 1 < n
               PROVE  /\ p - (j + 1) \in 1..Len(wire)
                      /\ wire[p - (j + 1)] = <<k, n - (j + 1)>>
    OBVIOUS
  <2>1. p - j \in 1..Len(wire) /\ wire[p - j] = <<k, n - j>>
    BY <1>3, <1>5
  <2>2. n - j # 1
    BY <1>3
  <2>3. p - j > 1 /\ wire[(p - j) - 1] = <<k, (n - j) - 1>>
    BY <1>2, <2>1, <2>2
  <2>4. (p - j) - 1 = p - (j + 1) /\ (n - j) - 1 = n - (j + 1)
    BY <1>1, <1>3
  <2>5. p - (j + 1) \in 1..Len(wire)
    BY <1>1, <2>1, <2>3
  <2> QED
    BY <2>3, <2>4, <2>5
<1> HIDE DEF S
<1>6. Nat \subseteq S
  BY <1>4, <1>5, SetInduction
<1>7. ASSUME NEW i \in 1..n
      PROVE  p - n + i \in 1..Len(wire) /\ wire[p - n + i] = <<k, i>>
  <2> DEFINE j == n - i
  <2>1. j \in Nat /\ j < n /\ p - j = p - n + i /\ n - j = i
    BY <1>1, <1>3
  <2>2. j \in S
    BY <1>6, <2>1
  <2> HIDE DEF j
  <2>3. p - j \in 1..Len(wire) /\ wire[p - j] = <<k, n - j>>
    BY <2>1, <2>2 DEF S
  <2> QED
    BY <2>1, <2>3
<1>8. p - n \in Nat
  <2>1. 1 \in 1..n
    BY <1>3
  <2>2. p - n + 1 >= 1
    BY <1>7, <2>1
  <2> QED
    BY <1>1, <1>3, <2>2
<1>9. p - n + n <= Len(wire)
  BY <1>1, <1>3
<1>10. \A i \in 1..n : wire[(p - n) + i] = <<k, i>>
  BY <1>7
<1> QED
  BY <1>3, <1>8, <1>9, <1>10, HoldsFirst

(* A frame that is whole has all of its bytes in one place.                *)
LEMMA WholeInOnePlace ==
  ASSUME CaptureInv, NEW k \in DOMAIN frames, IsWhole(k)
  PROVE  \E q \in Nat : Holds(q, k, 1, FrameLen(frames[k]))
<1> DEFINE n == FrameLen(frames[k])
<1>1. Len(wire) \in Nat
  BY LenProperties DEF CaptureInv, Ordered
<1>2. PICK p \in 0 .. Len(wire) - 1 : wire[p + 1] = <<k, n>>
  BY DEF IsWhole
<1>3. p + 1 \in 1..Len(wire)
  BY <1>1
<1> HIDE DEF n
<1>4. p + 1 - n \in Nat /\ Holds(p + 1 - n, k, 1, n)
  BY <1>2, <1>3, BytesInFront
<1> QED
  BY <1>4 DEF n

(* The frames are frames of the program.                                   *)
LEMMA FrameOf ==
  ASSUME CaptureInv, NEW k \in DOMAIN frames
  PROVE  frames[k] \in ProgramFrames /\ k \in Nat \ {0} /\ k <= Len(frames)
BY ElementOfSeq, LenProperties DEF CaptureInv

(* The last byte of the frame before m is in front of pos.                 *)
Behind(m) ==
  IF m = 1 THEN pos = 0
  ELSE pos > 0 /\ wire[pos] = <<m - 1, FrameLen(frames[m - 1])>>

(* A frame m begins at pos if the frame before it ends there.              *)
LEMMA NextIsHere ==
  ASSUME CaptureInv, LinesInv, NEW m \in DOMAIN frames, Behind(m),
         NEW q \in 1..Len(wire), wire[q] = <<m, 1>>
  PROVE  q = pos + 1
<1>1. Len(wire) \in Nat /\ pos \in 0..Len(wire) /\ m \in Nat \ {0}
  BY FrameOf, LenProperties DEF CaptureInv, Ordered, LinesInv
<1>2. ASSUME NEW p \in 1..Len(wire)
      PROVE  /\ wire[p][1] \in Nat /\ wire[p][1] >= 1
             /\ wire[p][2] \in Nat /\ wire[p][2] >= 1
             /\ wire[p][2] <= FrameLen(frames[wire[p][1]])
  <2>1. wire[p] \in Nat \X Nat
    BY ElementOfSeq DEF CaptureInv, Ordered
  <2>2. wire[p][1] \in 1..Len(frames) /\ wire[p][2] \in 1..FrameLen(frames[wire[p][1]])
    BY DEF CaptureInv, Ordered
  <2>3. frames[wire[p][1]] \in ProgramFrames
    BY <2>2, FrameOf, LenProperties DEF CaptureInv
  <2>4. FrameLen(frames[wire[p][1]]) \in Nat
    BY <2>3, FrameType
  <2> QED
    BY <2>1, <2>2, <2>4
<1>3. \A p, r \in 1..Len(wire) : p < r => Before(wire[p], wire[r])
  BY DEF CaptureInv, Ordered
<1>4. wire[q][1] = m /\ wire[q][2] = 1
  OBVIOUS
<1>5. CASE m = 1
  <2>1. pos = 0
    BY <1>5 DEF Behind
  <2>2. ~(1 < q)
    <3> SUFFICES ASSUME 1 < q
                 PROVE  FALSE
      OBVIOUS
    <3>1. 1 \in 1..Len(wire) /\ Before(wire[1], wire[q])
      BY <1>1, <1>3
    <3> QED
      BY <1>2, <1>4, <1>5, <3>1 DEF Before
  <2> QED
    BY <1>1, <2>1, <2>2
<1>6. CASE m # 1
  <2>1. pos \in 1..Len(wire) /\ wire[pos] = <<m - 1, FrameLen(frames[m - 1])>>
    BY <1>1, <1>6 DEF Behind
  <2>2. wire[pos][1] = m - 1 /\ wire[pos][2] = FrameLen(frames[m - 1])
    BY <2>1
  <2>3. pos # q
    BY <1>1, <1>4, <2>2
  <2>4. ~(q < pos)
    <3>1. ~Before(wire[q], wire[pos])
      BY <1>1, <1>4, <2>2 DEF Before
    <3> QED
      BY <1>3, <2>1, <3>1
  <2>5. ~(pos + 1 < q)
    <3> SUFFICES ASSUME pos + 1 < q
                 PROVE  FALSE
      OBVIOUS
    <3> DEFINE r == pos + 1
    <3>1. r \in 1..Len(wire) /\ pos < r /\ r < q
      BY <1>1
    <3> HIDE DEF r
    <3>2. Before(wire[pos], wire[r]) /\ Before(wire[r], wire[q])
      BY <1>3, <2>1, <3>1
    <3>3. /\ wire[r][1] \in Nat
          /\ wire[r][2] \in Nat /\ wire[r][2] >= 1
          /\ wire[r][2] <= FrameLen(frames[wire[r][1]])
      BY <1>2, <3>1
    <3>4. wire[pos][2] \in Nat
      BY <1>2, <2>1
    <3>5. wire[r][1] = m - 1 \/ wire[r][1] = m
      BY <1>1, <1>4, <2>2, <3>2, <3>3 DEF Before
    <3>6. CASE wire[r][1] = m
      BY <1>1, <1>4, <3>2, <3>3, <3>6 DEF Before
    <3>7. CASE wire[r][1] = m - 1
      <4>1. wire[pos][2] < wire[r][2]
        BY <1>1, <2>2, <3>2, <3>7 DEF Before
      <4>2. wire[r][2] <= wire[pos][2]
        BY <2>2, <3>3, <3>7
      <4> QED
        BY <3>3, <3>4, <4>1, <4>2
    <3> QED
      BY <3>5, <3>6, <3>7
  <2> QED
    BY <1>1, <2>3, <2>4, <2>5
<1> QED
  BY <1>5, <1>6

(* Behind the last frame is the end of the data.                           *)
LEMMA EndIsHere ==
  ASSUME CaptureInv, LinesInv, Behind(Len(frames) + 1)
  PROVE  pos = Len(wire)
<1> DEFINE m == Len(frames)
<1>1. Len(wire) \in Nat /\ pos \in 0..Len(wire) /\ m \in Nat
  BY LenProperties DEF CaptureInv, Ordered, LinesInv
<1>2. \A p \in 1..Len(wire) : wire[p][1] \in 1..m /\ wire[p][2] \in 1..FrameLen(frames[wire[p][1]])
  BY DEF CaptureInv, Ordered
<1>3. CASE m = 0
  <2>1. ~(1 \in 1..Len(wire))
    BY <1>2, <1>3
  <2> QED
    BY <1>1, <2>1
<1>4. CASE m # 0
  <2> SUFFICES ASSUME pos # Len(wire)
               PROVE  FALSE
    OBVIOUS
  <2> DEFINE r == pos + 1
  <2>1. pos > 0 /\ wire[pos] = <<(m + 1) - 1, FrameLen(frames[(m + 1) - 1])>>
    BY <1>1, <1>4 DEF Behind
  <2>2. wire[pos] = <<m, FrameLen(frames[m])>>
    BY <1>1, <2>1
  <2>3. r \in 1..Len(wire) /\ pos \in 1..Len(wire) /\ pos < r
    BY <1>1, <2>1
  <2> HIDE DEF r
  <2>4. Before(wire[pos], wire[r])
    BY <2>3 DEF CaptureInv, Ordered
  <2>5. wire[r][1] \in 1..m /\ wire[r][2] \in 1..FrameLen(frames[wire[r][1]])
    BY <1>2, <2>3
  <2>6. FrameLen(frames[m]) \in Nat
    <3>1. m \in DOMAIN frames
      BY <1>1, <1>4, LenProperties DEF CaptureInv
    <3> QED
      BY <3>1, FrameOf, FrameType
  <2>7. wire[pos][1] = m /\ wire[pos][2] = FrameLen(frames[m])
    BY <2>2
  <2>8. wire[r][1] = m /\ FrameLen(frames[m]) < wire[r][2]
    BY <1>1, <2>4, <2>5, <2>7 DEF Before
  <2> QED
    BY <1>1, <2>5, <2>6, <2>8
<1> QED
  BY <1>3, <1>4

(* What is on the wire of the frame m begins at pos.                       *)
LEMMA HeldHere ==
  ASSUME CaptureInv, LinesInv, NEW m \in DOMAIN frames, Behind(m),
         NEW q \in Nat, NEW n \in Nat \ {0}, Holds(q, m, 1, n)
  PROVE  q = pos /\ Start(m) = pos
<1>1. Len(wire) \in Nat /\ pos \in 0..Len(wire)
  BY LenProperties DEF CaptureInv, Ordered, LinesInv
<1>2. q + n <= Len(wire) /\ wire[q + 1] = <<m, 1>>
  <2>1. 1 \in 1..n
    OBVIOUS
  <2> QED
    BY <2>1, HoldsFirst
<1>3. q + 1 \in 1..Len(wire)
  BY <1>1, <1>2
<1>4. q + 1 = pos + 1
  BY <1>2, <1>3, NextIsHere
<1>5. q = pos /\ q \in 0 .. Len(wire) - 1
  BY <1>1, <1>3, <1>4
<1>6. ASSUME NEW p \in 0 .. Len(wire) - 1, wire[p + 1] = <<m, 1>>
      PROVE  p = pos
  <2>1. p + 1 \in 1..Len(wire)
    BY <1>1
  <2>2. p + 1 = pos + 1
    BY <1>6, <2>1, NextIsHere
  <2> QED
    BY <1>1, <2>2
<1>7. Start(m) = pos
  BY <1>2, <1>5, <1>6 DEF Start
<1> QED
  BY <1>5, <1>7

(* A tag and a length that are on the wire are read as they are.           *)
LEMMA ReadsFrame ==
  ASSUME CaptureInv, NEW m \in DOMAIN frames, NEW p \in Nat, NEW n \in Nat,
         n >= TagSize + LebLen(frames[m].len), Holds(p, m, 1, n)
  PROVE  /\ FrameAt(p) = m
         /\ LengthsAt(p + TagSize) = {<<frames[m].len, LebLen(frames[m].len)>>}
         /\ ~MayBeEndless(p + TagSize)
         /\ Len(wire) - p >= TagSize + 1
<1> DEFINE leb(k) == LebLen(frames[k].len)
           read(k) == Holds(p + TagSize, k, TagSize + 1, TagSize + leb(k))
<1>1. Len(wire) \in Nat /\ TagSize \in Nat \ {0} /\ \A k : leb(k) \in 1..2
  BY LenProperties, LebLenType, OutputAssumption DEF CaptureInv, Ordered
<1>2. p + n <= Len(wire) /\ \A i \in 1..n : wire[p + i] = <<m, i>>
  <2>1. p + (n - 1 + 1) = p + n
    OBVIOUS
  <2>2. \A i \in 1..n : p + i - 1 + 1 = p + i
    OBVIOUS
  <2> QED
    BY <2>1, <2>2 DEF Holds
<1>3. n >= TagSize + leb(m)
  OBVIOUS
<1> HIDE DEF leb
<1>4. FrameAt(p) = m
  <2>1. Holds(p, m, 1, TagSize)
    <3>1. p + TagSize <= Len(wire) /\ \A i \in 1..TagSize : wire[p + i] = <<m, i>>
      <4>1. n >= TagSize /\ TagSize \in Nat
        BY <1>1, <1>3
      <4>2. 1..TagSize \subseteq 1..n
        BY <4>1
      <4>3. p + TagSize <= Len(wire)
        BY <1>1, <1>2, <4>1
      <4> QED
        BY <1>2, <4>2, <4>3
    <3> QED
      BY <1>1, <3>1, HoldsFirst
  <2>2. ASSUME NEW k, Holds(p, k, 1, TagSize)
        PROVE  k = m
    <3>1. 1 \in 1..TagSize /\ 1 \in 1..n
      BY <1>1, <1>3
    <3>2. wire[p + 1] = <<k, 1>>
      BY <1>1, <2>2, <3>1, HoldsFirst
    <3>3. wire[p + 1] = <<m, 1>>
      BY <1>2, <3>1
    <3> QED
      BY <3>2, <3>3
  <2> QED
    BY <2>1, <2>2 DEF FrameAt
<1>5. ASSUME NEW k \in DOMAIN frames
      PROVE  read(k) <=> /\ p + TagSize + leb(k) <= Len(wire)
                         /\ \A i \in TagSize + 1 .. TagSize + leb(k) : wire[p + i] = <<k, i>>
  <2>1. (p + TagSize) + ((TagSize + leb(k)) - (TagSize + 1) + 1) = p + TagSize + leb(k)
    BY <1>1
  <2>2. \A i \in TagSize + 1 .. TagSize + leb(k) :
          (p + TagSize) + i - (TagSize + 1) + 1 = p + i
    BY <1>1
  <2>3. read(k) <=>
          /\ (p + TagSize) + ((TagSize + leb(k)) - (TagSize + 1) + 1) <= Len(wire)
          /\ \A i \in TagSize + 1 .. TagSize + leb(k) :
               wire[(p + TagSize) + i - (TagSize + 1) + 1] = <<k, i>>
    BY DEF Holds
  <2> HIDE DEF read
  <2> QED
    BY <2>1, <2>2, <2>3
<1>6. read(m)
  <2>1. p + TagSize + leb(m) <= Len(wire)
    BY <1>1, <1>2, <1>3
  <2>2. \A i \in TagSize + 1 .. TagSize + leb(m) : wire[p + i] = <<m, i>>
    <3>1. TagSize + 1 .. TagSize + leb(m) \subseteq 1..n
      BY <1>1, <1>3
    <3> QED
      BY <1>2, <3>1
  <2> QED
    BY <1>5, <2>1, <2>2
<1>7. ASSUME NEW k \in DOMAIN frames, read(k)
      PROVE  k = m
  <2>1. TagSize + 1 \in TagSize + 1 .. TagSize + leb(k) /\ TagSize + 1 \in 1..n
    BY <1>1, <1>3
  <2>2. wire[p + (TagSize + 1)] = <<k, TagSize + 1>>
    BY <1>5, <1>7, <2>1
  <2>3. wire[p + (TagSize + 1)] = <<m, TagSize + 1>>
    BY <1>2, <2>1
  <2> QED
    BY <2>2, <2>3
<1>8. {k \in DOMAIN frames : read(k)} = {m}
  BY <1>6, <1>7
<1>9. LengthsAt(p + TagSize) = {<<frames[m].len, leb(m)>>}
  BY <1>8 DEF LengthsAt, leb
<1>10. ~MayBeEndless(p + TagSize)
  BY <1>6 DEF MayBeEndless, leb
<1>11. Len(wire) - p >= TagSize + 1
  BY <1>1, <1>2, <1>3
<1> QED
  BY <1>4, <1>9, <1>10, <1>11 DEF leb

(* Behind the frame before m, what is read of m is its own tag and length. *)
LEMMA ReadsHere ==
  ASSUME CaptureInv, LinesInv, NEW m \in DOMAIN frames, Behind(m), HasLength(m)
  PROVE  /\ FrameAt(pos) = m
         /\ LengthsAt(pos + TagSize) = {<<frames[m].len, LebLen(frames[m].len)>>}
         /\ ~MayBeEndless(pos + TagSize)
         /\ Rest >= TagSize + 1
         /\ Start(m) = pos
<1> DEFINE n == FrameLen(frames[m]) - frames[m].len
<1>1. Len(wire) \in Nat /\ pos \in Nat
  BY LenProperties DEF CaptureInv, Ordered, LinesInv
<1>2. n \in Nat \ {0} /\ n = TagSize + LebLen(frames[m].len)
  <2>1. frames[m] \in ProgramFrames
    BY FrameOf
  <2>2. TagSize \in Nat \ {0} /\ LebLen(frames[m].len) \in 1..2
    BY LebLenType, OutputAssumption
  <2> QED
    BY <2>1, <2>2, FrameType
<1>3. PICK q \in 0 .. Len(wire) - 1 : Holds(q, m, 1, n)
  BY DEF HasLength
<1> HIDE DEF n
<1>4. q \in Nat
  BY <1>1
<1>5. q = pos /\ Start(m) = pos
  BY <1>2, <1>3, <1>4, HeldHere
<1>6. n \in Nat /\ n >= TagSize + LebLen(frames[m].len)
  BY <1>2
<1> QED
  BY <1>1, <1>3, <1>5, <1>6, ReadsFrame DEF Rest

(* A frame that is whole is all there, and so are its tag and length.      *)
LEMMA WholeIsHere ==
  ASSUME CaptureInv, LinesInv, NEW m \in DOMAIN frames, Behind(m), IsWhole(m)
  PROVE  /\ HasLength(m)
         /\ pos + FrameLen(frames[m]) <= Len(wire)
         /\ \A i \in 1 .. FrameLen(frames[m]) : wire[pos + i] = <<m, i>>
<1> DEFINE n == FrameLen(frames[m])
           h == FrameLen(frames[m]) - frames[m].len
<1>1. Len(wire) \in Nat /\ pos \in Nat
  BY LenProperties DEF CaptureInv, Ordered, LinesInv
<1>2. n \in Nat \ {0} /\ h \in Nat \ {0} /\ h <= n
  <2>1. frames[m] \in ProgramFrames
    BY FrameOf
  <2>2. TagSize \in Nat \ {0} /\ LebLen(frames[m].len) \in 1..2
    BY LebLenType, OutputAssumption
  <2> QED
    BY <2>1, <2>2, FrameType
<1>3. PICK q \in Nat : Holds(q, m, 1, n)
  BY WholeInOnePlace
<1> HIDE DEF n, h
<1>4. q = pos
  BY <1>2, <1>3, HeldHere
<1>5. pos + n <= Len(wire) /\ \A i \in 1..n : wire[pos + i] = <<m, i>>
  BY <1>1, <1>2, <1>3, <1>4, HoldsFirst
<1>6. pos + h <= Len(wire) /\ \A i \in 1..h : wire[pos + i] = <<m, i>>
  BY <1>1, <1>2, <1>5
<1>7. Holds(pos, m, 1, h) /\ pos \in 0 .. Len(wire) - 1
  <2>1. Holds(pos, m, 1, h)
    BY <1>1, <1>2, <1>6, HoldsFirst
  <2>2. pos \in 0 .. Len(wire) - 1
    BY <1>1, <1>2, <1>6
  <2> QED
    BY <2>1, <2>2
<1>8. HasLength(m)
  BY <1>7 DEF HasLength, h
<1> QED
  BY <1>5, <1>8 DEF n

(* What DecodeFrame makes of a frame m whose tag and length are at pos.    *)
LEMMA DecodesHere ==
  ASSUME TypeInv, NEW m \in DOMAIN frames, Behind(m), HasLength(m), DecodeFrame
  PROVE  LET end == pos + FrameLen(frames[m])
             payload == SubSeq(wire, end - frames[m].len + 1, end) IN
         \/ end > Len(wire) /\ Stop("done")
         \/ end <= Len(wire) /\ Stop("crashed")
         \/ /\ end <= Len(wire)
            /\ pos' = end
            /\ lines' = IF IsKnown(m)
                        THEN Append(lines, [frame |-> m, payload |-> payload])
                        ELSE lines
            /\ UNCHANGED <<input, phase, device, capture>>
<1> DEFINE len == frames[m].len
           leb == LebLen(frames[m].len)
           end == pos + FrameLen(frames[m])
           start == pos + TagSize + leb
<1>1. CaptureInv /\ LinesInv
  BY DEF TypeInv
<1>2. FrameAt(pos) = m /\ LengthsAt(pos + TagSize) = {<<len, leb>>}
  BY <1>1, ReadsHere
<1>3. Len(wire) \in Nat /\ pos \in Nat /\ TagSize \in Nat /\ leb \in Nat /\ len \in Nat
  <2>1. frames[m] \in ProgramFrames
    BY <1>1, FrameOf
  <2>2. TagSize \in Nat \ {0} /\ leb \in 1..2
    BY LebLenType, OutputAssumption
  <2>3. len \in Nat
    BY <2>1, FrameType, Zenon
  <2>4. Len(wire) \in Nat
    BY <1>1, LenProperties DEF CaptureInv, Ordered
  <2>5. pos \in Nat
    BY <1>1, <2>4 DEF LinesInv
  <2> HIDE DEF leb, len
  <2> QED
    BY <2>2, <2>3, <2>4, <2>5
<1>4. start + len = end /\ start = end - len /\ start \in Nat /\ end \in Nat
  BY <1>3 DEF FrameLen
<1>5. LET payload == SubSeq(wire, start + 1, start + len) IN
      IF Truncated(start, len) THEN Stop("done")
      ELSE IF HostPanics(m, payload) THEN Stop("crashed")
      ELSE /\ pos' = start + len
           /\ lines' = IF IsKnown(m)
                       THEN Append(lines, [frame |-> m, payload |-> payload])
                       ELSE lines
           /\ UNCHANGED <<input, phase, device, capture>>
  <2>1. PICK l \in LengthsAt(pos + TagSize) :
          LET at == pos + TagSize + l[2]
              payload == SubSeq(wire, at + 1, at + l[1])
              k == FrameAt(pos) IN
          IF Truncated(at, l[1]) THEN Stop("done")
          ELSE IF HostPanics(k, payload) THEN Stop("crashed")
          ELSE /\ pos' = at + l[1]
               /\ lines' = IF IsKnown(k)
                           THEN Append(lines, [frame |-> k, payload |-> payload])
                           ELSE lines
               /\ UNCHANGED <<input, phase, device, capture>>
    BY DEF DecodeFrame
  <2>2. l[1] = len /\ l[2] = leb /\ FrameAt(pos) = m
    BY <1>2
  <2> HIDE DEF len, leb
  <2> QED
    BY <2>1, <2>2
<1>6. Truncated(start, len) <=> end > Len(wire)
  BY <1>3, <1>4 DEF Truncated
<1>7. end > Len(wire) \/ end <= Len(wire)
  BY <1>3, <1>4
<1> HIDE DEF start, end, len
<1>8. LET payload == SubSeq(wire, end - len + 1, end) IN
      IF end > Len(wire) THEN Stop("done")
      ELSE IF HostPanics(m, payload) THEN Stop("crashed")
      ELSE /\ pos' = end
           /\ lines' = IF IsKnown(m)
                       THEN Append(lines, [frame |-> m, payload |-> payload])
                       ELSE lines
           /\ UNCHANGED <<input, phase, device, capture>>
  BY <1>4, <1>5, <1>6
<1> QED
  BY <1>7, <1>8 DEF end, len

(* The payload of a frame that is whole is its own.                        *)
LEMMA WholePayload ==
  ASSUME CaptureInv, LinesInv, NEW m \in DOMAIN frames, Behind(m), IsWhole(m)
  PROVE  LET end == pos + FrameLen(frames[m]) IN
         /\ SubSeq(wire, end - frames[m].len + 1, end) = Payload(m)
         /\ end > 0
         /\ wire[end] = <<m, FrameLen(frames[m])>>
<1> DEFINE n == FrameLen(frames[m])
           len == frames[m].len
           first == pos + n - len + 1
           end == pos + n
<1>1. end <= Len(wire) /\ \A i \in 1..n : wire[pos + i] = <<m, i>>
  BY WholeIsHere
<1>2. n \in Nat \ {0} /\ len \in Nat /\ n - len \in Nat
  <2>1. frames[m] \in ProgramFrames
    BY FrameOf
  <2>2. TagSize \in Nat \ {0}
    BY OutputAssumption
  <2> QED
    BY <2>1, <2>2, FrameType
<1>3. wire \in Seq(Nat \X Nat) /\ Len(wire) \in Nat /\ pos \in Nat
  BY LenProperties DEF CaptureInv, Ordered, LinesInv
<1>4. Payload(m) = [i \in 1..len |-> <<m, n - len + i>>]
  BY DEF Payload
<1> HIDE DEF n, len
<1>5. first \in 1 .. Len(wire) + 1 /\ end \in first - 1 .. Len(wire) /\ end - first + 1 = len
  BY <1>1, <1>2, <1>3
<1>6. \A i \in 1..len : first + i - 1 = pos + (n - len + i) /\ n - len + i \in 1..n
  BY <1>2, <1>3
<1>7. n \in 1..n /\ end > 0
  BY <1>2, <1>3
<1> HIDE DEF first, end
<1>8. SubSeq(wire, first, end) = [i \in 1..len |-> wire[first + i - 1]]
  BY <1>3, <1>5, SubSeqProperties
<1>9. \A i \in 1..len : wire[first + i - 1] = <<m, n - len + i>>
  BY <1>1, <1>6
<1>10. SubSeq(wire, first, end) = Payload(m)
  BY <1>4, <1>8, <1>9
<1>11. wire[end] = <<m, n>>
  BY <1>1, <1>7 DEF end
<1>12. first = end - len + 1
  BY <1>2, <1>3 DEF first, end
<1> QED
  BY <1>7, <1>10, <1>11, <1>12 DEF end, n, len
(* A frame with its tag and length starts somewhere.                       *)
LEMMA StartType ==
  ASSUME CaptureInv, NEW c \in DOMAIN frames, HasLength(c)
  PROVE  Start(c) \in Nat
<1> DEFINE n == FrameLen(frames[c]) - frames[c].len
<1>1. Len(wire) \in Nat /\ TagSize \in Nat
  BY LenProperties, OutputAssumption DEF CaptureInv, Ordered
<1>2. PICK q \in 0 .. Len(wire) - 1 : Holds(q, c, 1, n)
  BY DEF HasLength
<1>3. frames[c] \in ProgramFrames
  BY FrameOf
<1>4. n \in Nat /\ LebLen(frames[c].len) \in 1..2 /\ n = TagSize + LebLen(frames[c].len)
  BY <1>3, FrameType, LebLenType
<1>5. 1 \in 1..n /\ q \in Nat
  BY <1>1, <1>4
<1> HIDE DEF n
<1>6. wire[q + 1] = <<c, 1>>
  BY <1>2, <1>4, <1>5, HoldsFirst
<1>7. Start(c) \in 0 .. Len(wire) - 1
  BY <1>2, <1>6 DEF Start
<1> QED
  BY <1>1, <1>7

-----------------------------------------------------------------------------
(* The decoder.                                                            *)

\* The frames before m that are known were printed, and no others.
Printed(m) ==
  /\ \A i \in DOMAIN lines :
       lines[i].frame \in 1 .. m - 1 /\ lines[i].payload = Payload(lines[i].frame)
  /\ \A i, j \in DOMAIN lines : i < j => lines[i].frame < lines[j].frame
  /\ \A k \in 1 .. m - 1 : IsKnown(k) => \E i \in DOMAIN lines : lines[i].frame = k

\* The decoder is between frame m - 1 and frame m, and all went well.
InStep(m) == Behind(m) /\ (\A j \in 1 .. m - 1 : IsWhole(j)) /\ Printed(m)

\* Why it ended there.
StoppedAt(m) ==
  /\ phase = "failed" => m \in DOMAIN frames
  /\ phase \in {"done", "failed"} /\ m \in DOMAIN frames =>
       /\ ~IsWhole(m)
       /\ HasLength(m) => phase = "done" /\ pos + FrameLen(frames[m]) > Len(wire)

End(k) == Start(k) + FrameLen(frames[k])

\* The decoder came to the end of the frame before c.
Reached(c) ==
  c # 1 => \E p \in 1..pos : wire[p] = <<c - 1, FrameLen(frames[c - 1])>>

\* Of the frames before c, the known ones were printed, once and in order.
Kept(c) ==
  /\ \A i \in DOMAIN lines :
       lines[i].frame < c => lines[i].payload = Payload(lines[i].frame)
  /\ \A i, j \in DOMAIN lines :
       i < j /\ lines[j].frame < c => lines[i].frame < lines[j].frame
  /\ \A k \in 1 .. c - 1 : IsKnown(k) => \E i \in DOMAIN lines : lines[i].frame = k

\* The decoder is beyond frame c, the first that was cut.
OutOfStep(c) ==
  /\ ~IsWhole(c)
  /\ \A j \in 1 .. c - 1 : IsWhole(j)
  /\ HasLength(c) => End(c) <= pos
  /\ Reached(c)
  /\ Kept(c)

Decoded ==
  \/ \E m \in 1 .. Len(frames) + 1 : InStep(m) /\ StoppedAt(m)
  \/ \E c \in DOMAIN frames : OutOfStep(c)

DecoderInv ==
  IF phase \in {"decoding", "done", "failed", "crashed"} THEN Decoded
  ELSE pos = 0 /\ lines = <<>>

(* What is said of the capture does not change with the decoder.           *)
LEMMA SameCapture ==
  ASSUME UNCHANGED <<input, capture>>, NEW k
  PROVE  /\ (IsWhole(k))' = IsWhole(k)
         /\ (HasLength(k))' = HasLength(k)
         /\ (IsKnown(k))' = IsKnown(k)
         /\ (Payload(k))' = Payload(k)
         /\ (End(k))' = End(k)
<1>1. program' = program /\ frames' = frames /\ wire' = wire
  BY DEF input, capture
<1>2. (IsWhole(k))' = IsWhole(k) /\ (IsKnown(k))' = IsKnown(k) /\ (Payload(k))' = Payload(k)
  BY <1>1 DEF IsWhole, IsKnown, Payload
<1>3. (HasLength(k))' = HasLength(k)
  BY <1>1 DEF HasLength, Holds
<1>4. (End(k))' = End(k)
  BY <1>1 DEF End, Start
<1> QED
  BY <1>2, <1>3, <1>4

(* A stop leaves what was decoded as it is.                                *)
LEMMA SameDecoded ==
  ASSUME NEW how, Stop(how), NEW k
  PROVE  /\ (InStep(k))' = InStep(k)
         /\ (OutOfStep(k))' = OutOfStep(k)
<1>1. UNCHANGED <<input, capture>> /\ UNCHANGED <<pos, lines>>
  BY DEF Stop, decoder
<1>2. frames' = frames /\ wire' = wire
  BY <1>1 DEF capture
<1>3. \A j : (IsWhole(j))' = IsWhole(j) /\ (IsKnown(j))' = IsKnown(j)
  BY <1>1, SameCapture
<1>4. \A j : (HasLength(j))' = HasLength(j) /\ (Payload(j))' = Payload(j)
  BY <1>1, SameCapture
<1>5. \A j : (End(j))' = End(j)
  BY <1>1, SameCapture
<1>6. (Behind(k))' = Behind(k)
  BY <1>1, <1>2 DEF Behind
<1>7. (Printed(k))' = Printed(k)
  BY <1>1, <1>3, <1>4 DEF Printed
<1>8. (Reached(k))' = Reached(k)
  BY <1>1, <1>2 DEF Reached
<1>9. (Kept(k))' = Kept(k)
  BY <1>1, <1>3, <1>4 DEF Kept
<1> QED
  BY <1>1, <1>3, <1>4, <1>5, <1>6, <1>7, <1>8, <1>9 DEF InStep, OutOfStep

(* A line more.                                                            *)
LEMMA LineMore ==
  ASSUME lines \in Seq(Lines), NEW line, line \in Lines, lines' = Append(lines, line)
  PROVE  /\ DOMAIN lines = 1..Len(lines) /\ Len(lines) \in Nat
         /\ DOMAIN lines' = 1 .. Len(lines) + 1
         /\ \A i \in 1..Len(lines) : lines'[i] = lines[i]
         /\ lines'[Len(lines) + 1] = line
BY AppendProperties, LenProperties

(* A line of a frame from c on does not touch what is kept of the others.  *)
LEMMA KeptMore ==
  ASSUME lines \in Seq(Lines), NEW line, line \in Lines, lines' = Append(lines, line),
         UNCHANGED <<input, capture>>, NEW c, Kept(c), ~(line.frame < c)
  PROVE  (Kept(c))'
<1>1. /\ DOMAIN lines = 1..Len(lines) /\ Len(lines) \in Nat
      /\ DOMAIN lines' = 1 .. Len(lines) + 1
      /\ \A i \in 1..Len(lines) : lines'[i] = lines[i]
      /\ lines'[Len(lines) + 1] = line
  BY LineMore
<1>2. \A j : (IsKnown(j))' = IsKnown(j) /\ (Payload(j))' = Payload(j)
  BY SameCapture
<1>3. ASSUME NEW i \in DOMAIN lines', lines'[i].frame < c
      PROVE  i \in DOMAIN lines /\ lines'[i] = lines[i] /\ lines[i].frame < c
  <2>1. i # Len(lines) + 1
    BY <1>1, <1>3
  <2>2. i \in 1..Len(lines)
    BY <1>1, <2>1
  <2> QED
    BY <1>1, <1>3, <2>2
<1>4. ASSUME NEW i \in DOMAIN lines', lines'[i].frame < c
      PROVE  lines'[i].payload = Payload(lines'[i].frame)
  BY <1>3, <1>4 DEF Kept
<1>5. ASSUME NEW i \in DOMAIN lines', NEW j \in DOMAIN lines', i < j, lines'[j].frame < c
      PROVE  lines'[i].frame < lines'[j].frame
  <2>1. j \in DOMAIN lines /\ lines'[j] = lines[j] /\ lines[j].frame < c
    BY <1>3, <1>5
  <2>2. i \in DOMAIN lines /\ lines'[i] = lines[i]
    BY <1>1, <1>5, <2>1
  <2> QED
    BY <1>5, <2>1, <2>2 DEF Kept
<1>6. ASSUME NEW k \in 1 .. c - 1, IsKnown(k)
      PROVE  \E i \in DOMAIN lines' : lines'[i].frame = k
  <2>1. PICK i \in DOMAIN lines : lines[i].frame = k
    BY <1>6 DEF Kept
  <2>2. i \in DOMAIN lines' /\ lines'[i] = lines[i]
    BY <1>1
  <2> QED
    BY <2>1, <2>2
<1> QED
  BY <1>2, <1>4, <1>5, <1>6 DEF Kept

(* In step, all that came before was reached and kept.                     *)
LEMMA InStepKeeps ==
  ASSUME TypeInv, NEW m \in DOMAIN frames, InStep(m)
  PROVE  Reached(m) /\ Kept(m)
<1>1. Behind(m) /\ Printed(m) /\ pos \in Nat
  BY LenProperties DEF InStep, TypeInv, CaptureInv, Ordered, LinesInv
<1>2. Reached(m)
  BY <1>1 DEF Behind, Reached
<1> QED
  BY <1>1, <1>2 DEF Printed, Kept

(* In step, and the next frame is whole: it is printed as it is.           *)
LEMMA StepWhole ==
  ASSUME TypeInv, NEW m \in DOMAIN frames, InStep(m), IsWhole(m), DecodeFrame
  PROVE  \/ Stop("crashed")
         \/ UNCHANGED phase /\ (InStep(m + 1))'
<1> DEFINE end == pos + FrameLen(frames[m])
           line == [frame |-> m, payload |-> Payload(m)]
<1>1. CaptureInv /\ LinesInv /\ Behind(m)
  BY DEF TypeInv, InStep
<1>2. HasLength(m) /\ end <= Len(wire)
  BY <1>1, WholeIsHere
<1>3. /\ SubSeq(wire, end - frames[m].len + 1, end) = Payload(m)
      /\ end > 0 /\ wire[end] = <<m, FrameLen(frames[m])>>
  BY <1>1, WholePayload
<1>4. m \in Nat \ {0} /\ Len(wire) \in Nat /\ end \in Nat
  <2>1. frames[m] \in ProgramFrames /\ m \in Nat \ {0}
    BY <1>1, FrameOf
  <2> QED
    BY <1>1, <2>1, FrameType, LenProperties DEF CaptureInv, Ordered, LinesInv
<1> HIDE DEF end
<1>5. \/ end > Len(wire)
      \/ Stop("crashed")
      \/ /\ pos' = end
         /\ lines' = IF IsKnown(m) THEN Append(lines, line) ELSE lines
         /\ UNCHANGED <<input, phase, device, capture>>
  BY <1>1, <1>2, <1>3, DecodesHere DEF end
<1>6. SUFFICES ASSUME pos' = end,
                      lines' = IF IsKnown(m) THEN Append(lines, line) ELSE lines,
                      UNCHANGED <<input, phase, device, capture>>
               PROVE  (InStep(m + 1))'
  BY <1>2, <1>4, <1>5
<1>7. UNCHANGED <<input, capture>> /\ frames' = frames /\ wire' = wire
  BY <1>6 DEF capture
<1>8. \A j : (IsWhole(j))' = IsWhole(j) /\ (IsKnown(j))' = IsKnown(j) /\ (Payload(j))' = Payload(j)
  BY <1>7, SameCapture
<1>9. (Behind(m + 1))'
  <2>1. m + 1 # 1 /\ (m + 1) - 1 = m
    BY <1>4
  <2> QED
    BY <1>3, <1>6, <1>7, <2>1 DEF Behind
<1>10. 1 .. (m + 1) - 1 = (1 .. m - 1) \cup {m}
  BY <1>4
<1>11. \A j \in 1 .. (m + 1) - 1 : (IsWhole(j))'
  BY <1>8, <1>10 DEF InStep
<1>12. (Printed(m + 1))'
  <2>1. /\ \A i \in DOMAIN lines :
             /\ lines[i].frame \in 1 .. m - 1
             /\ lines[i].payload = Payload(lines[i].frame)
        /\ \A i, j \in DOMAIN lines : i < j => lines[i].frame < lines[j].frame
        /\ \A k \in 1 .. m - 1 : IsKnown(k) => \E i \in DOMAIN lines : lines[i].frame = k
    BY DEF InStep, Printed
  <2>2. CASE IsKnown(m)
    <3>1. line \in Lines
      <4>1. SubSeq(wire, end - frames[m].len + 1, end) \in Seq(Nat \X Nat)
        <5> DEFINE first == end - frames[m].len + 1
        <5>1. frames[m].len \in Nat /\ first \in 1 .. Len(wire) + 1 /\ end \in 0..Len(wire)
          <6>1. frames[m] \in ProgramFrames
            BY <1>1, FrameOf
          <6>2. TagSize \in Nat /\ pos \in Nat
            BY <1>1, OutputAssumption DEF LinesInv
          <6>3. /\ frames[m].len \in Nat /\ FrameLen(frames[m]) \in Nat
                /\ FrameLen(frames[m]) >= frames[m].len
            BY <6>1, <6>2, FrameType
          <6>4. end - frames[m].len >= 0
            BY <6>2, <6>3 DEF end
          <6> QED
            BY <1>2, <1>4, <6>3, <6>4
        <5>2. \A i \in first..end : wire[i] \in Nat \X Nat
          <6>1. wire \in Seq(Nat \X Nat)
            BY <1>1 DEF CaptureInv, Ordered
          <6>2. first..end \subseteq 1..Len(wire)
            BY <1>4, <5>1
          <6> QED
            BY <6>1, <6>2, ElementOfSeq
        <5> QED
          BY <1>4, <5>1, <5>2, SubSeqProperties
      <4> QED
        BY <1>3, <1>4, <4>1 DEF Lines
    <3>2. line.frame = m /\ line.payload = Payload(m)
      OBVIOUS
    <3> HIDE DEF line
    <3>3. lines \in Seq(Lines) /\ lines' = Append(lines, line)
      BY <1>1, <1>6, <2>2 DEF LinesInv
    <3>4. /\ DOMAIN lines = 1..Len(lines) /\ Len(lines) \in Nat
          /\ DOMAIN lines' = 1 .. Len(lines) + 1
          /\ \A i \in 1..Len(lines) : lines'[i] = lines[i]
          /\ lines'[Len(lines) + 1] = line
      BY <3>1, <3>3, LineMore
    <3>5. \A i \in DOMAIN lines' : i \in DOMAIN lines \/ i = Len(lines) + 1
      BY <3>4
    <3>6. ASSUME NEW i \in DOMAIN lines'
          PROVE  /\ lines'[i].frame \in 1 .. (m + 1) - 1
                 /\ lines'[i].payload = Payload(lines'[i].frame)
      BY <1>10, <2>1, <3>2, <3>4, <3>5
    <3>7. ASSUME NEW i \in DOMAIN lines', NEW j \in DOMAIN lines', i < j
          PROVE  lines'[i].frame < lines'[j].frame
      <4>1. i \in DOMAIN lines
        BY <3>4, <3>5, <3>7
      <4>2. CASE j \in DOMAIN lines
        BY <2>1, <3>4, <3>7, <4>1, <4>2
      <4>3. CASE j = Len(lines) + 1
        BY <1>4, <2>1, <3>2, <3>4, <4>1, <4>3
      <4> QED
        BY <3>5, <4>2, <4>3
    <3>8. ASSUME NEW k \in 1 .. (m + 1) - 1, IsKnown(k)
          PROVE  \E i \in DOMAIN lines' : lines'[i].frame = k
      <4>1. CASE k \in 1 .. m - 1
        <5>1. PICK i \in DOMAIN lines : lines[i].frame = k
          BY <2>1, <3>8, <4>1
        <5>2. i \in DOMAIN lines' /\ lines'[i] = lines[i]
          BY <3>4
        <5> QED
          BY <5>1, <5>2
      <4>2. CASE k = m
        <5>1. Len(lines) + 1 \in DOMAIN lines'
          BY <3>4
        <5> QED
          BY <3>2, <3>4, <4>2, <5>1
      <4> QED
        BY <1>10, <4>1, <4>2
    <3> QED
      BY <1>8, <3>6, <3>7, <3>8 DEF Printed
  <2>3. CASE ~IsKnown(m)
    <3>1. lines' = lines
      BY <1>6, <2>3
    <3>2. 1 .. m - 1 \subseteq 1 .. (m + 1) - 1
      BY <1>10
    <3> QED
      BY <1>8, <1>10, <2>1, <2>3, <3>1, <3>2 DEF Printed
  <2> QED
    BY <2>2, <2>3
<1> QED
  BY <1>9, <1>11, <1>12 DEF InStep

(* In step, and the next frame was cut behind its length: it takes what    *)
(* follows, or the data ends.                                              *)
LEMMA StepCut ==
  ASSUME TypeInv, NEW m \in DOMAIN frames, InStep(m), ~IsWhole(m), HasLength(m),
         DecodeFrame
  PROVE  \/ pos + FrameLen(frames[m]) > Len(wire) /\ Stop("done")
         \/ Stop("crashed")
         \/ UNCHANGED <<phase, frames>> /\ (OutOfStep(m))'
<1> DEFINE end == pos + FrameLen(frames[m])
           payload == SubSeq(wire, end - frames[m].len + 1, end)
           line == [frame |-> m, payload |-> payload]
<1>1. CaptureInv /\ LinesInv /\ Behind(m)
  BY DEF TypeInv, InStep
<1>2. Start(m) = pos
  BY <1>1, ReadsHere
<1>3. End(m) = end
  BY <1>2 DEF End
<1>4. Len(wire) \in Nat /\ end \in Nat /\ m \in Nat \ {0}
  <2>1. frames[m] \in ProgramFrames /\ m \in Nat \ {0}
    BY <1>1, FrameOf
  <2> QED
    BY <1>1, <2>1, FrameType, LenProperties DEF CaptureInv, Ordered, LinesInv
<1>5. \/ end > Len(wire) /\ Stop("done")
      \/ Stop("crashed")
      \/ /\ end <= Len(wire)
         /\ pos' = end
         /\ lines' = IF IsKnown(m) THEN Append(lines, line) ELSE lines
         /\ UNCHANGED <<input, phase, device, capture>>
  BY <1>1, DecodesHere
<1>6. SUFFICES ASSUME end <= Len(wire),
                      pos' = end,
                      lines' = IF IsKnown(m) THEN Append(lines, line) ELSE lines,
                      UNCHANGED <<input, phase, device, capture>>
               PROVE  UNCHANGED <<phase, frames>> /\ (OutOfStep(m))'
  BY <1>5
<1>7. UNCHANGED <<input, capture>> /\ frames' = frames /\ phase' = phase
  BY <1>6 DEF capture
<1>8. \A j : (IsWhole(j))' = IsWhole(j) /\ (HasLength(j))' = HasLength(j) /\ (IsKnown(j))' = IsKnown(j)
  BY <1>7, SameCapture
<1>9. (End(m))' = end
  BY <1>3, <1>7, SameCapture
<1>10. Reached(m) /\ Kept(m)
  BY InStepKeeps
<1>11. ASSUME IsKnown(m)
       PROVE  (Kept(m))'
  <2>1. line \in Lines
    <3>1. payload \in Seq(Nat \X Nat)
      <4> DEFINE first == end - frames[m].len + 1
      <4>1. frames[m].len \in Nat /\ first \in 1 .. Len(wire) + 1
        <5>1. frames[m] \in ProgramFrames
          BY <1>1, FrameOf
        <5>2. TagSize \in Nat /\ pos \in Nat
          BY <1>1, OutputAssumption DEF LinesInv
        <5>3. /\ frames[m].len \in Nat /\ FrameLen(frames[m]) \in Nat
              /\ FrameLen(frames[m]) >= frames[m].len
          BY <5>1, <5>2, FrameType
        <5>4. end - frames[m].len >= 0
          BY <5>2, <5>3
        <5> HIDE DEF end
        <5> QED
          BY <1>4, <1>6, <5>3, <5>4
      <4>2. \A i \in first..end : wire[i] \in Nat \X Nat
        <5>1. wire \in Seq(Nat \X Nat)
          BY <1>1 DEF CaptureInv, Ordered
        <5> HIDE DEF end
        <5>2. first..end \subseteq 1..Len(wire)
          <6> HIDE DEF first
          <6> QED
            BY <1>4, <1>6, <4>1, IntervalInside
        <5> QED
          BY <5>1, <5>2, ElementOfSeq
      <4> HIDE DEF end
      <4> QED
        BY <1>4, <4>1, <4>2, SubSeqProperties
    <3> HIDE DEF payload
    <3> QED
      BY <1>4, <3>1 DEF Lines
  <2>2. line.frame = m
    OBVIOUS
  <2> HIDE DEF line
  <2>3. lines \in Seq(Lines) /\ lines' = Append(lines, line)
    BY <1>1, <1>6, <1>11 DEF LinesInv
  <2>4. ~(line.frame < m)
    BY <1>4, <2>2
  <2> QED
    BY <1>7, <1>10, <2>1, <2>3, <2>4, KeptMore
<1>12. ASSUME ~IsKnown(m)
       PROVE  (Kept(m))'
  <2>1. lines' = lines
    BY <1>6, <1>12
  <2>2. \A j : (IsKnown(j))' = IsKnown(j) /\ (Payload(j))' = Payload(j)
    BY <1>7, SameCapture
  <2> QED
    BY <1>10, <2>1, <2>2 DEF Kept
<1>13. end <= pos' /\ pos <= pos' /\ pos \in Nat /\ pos' \in Nat
  <2>1. pos \in Nat
    BY <1>1, <1>4 DEF LinesInv
  <2>2. FrameLen(frames[m]) \in Nat
    BY <1>1, FrameOf, FrameType
  <2>3. pos' = end /\ pos <= end
    BY <1>6, <2>1, <2>2
  <2> HIDE DEF end
  <2> QED
    BY <1>4, <2>1, <2>3
<1>14. (Reached(m))'
  <2>1. wire' = wire /\ 1..pos \subseteq 1..pos'
    BY <1>6, <1>13 DEF capture
  <2> QED
    BY <1>7, <1>10, <2>1 DEF Reached
<1> HIDE DEF end, line
<1>15. \A j \in 1 .. m - 1 : IsWhole(j)
  BY DEF InStep
<1> QED
  BY <1>7, <1>8, <1>9, <1>11, <1>12, <1>13, <1>14, <1>15 DEF OutOfStep

(* Out of step, the decoder prints no frame before the one that was cut.   *)
LEMMA StepBeyond ==
  ASSUME TypeInv, NEW c \in DOMAIN frames, OutOfStep(c), DecodeFrame
  PROVE  \/ Stop("done") \/ Stop("crashed")
         \/ UNCHANGED <<phase, frames>> /\ (OutOfStep(c))'
<1> DEFINE k == FrameAt(pos)
<1>1. CaptureInv /\ LinesInv
  BY DEF TypeInv
<1>2. PICK l \in LengthsAt(pos + TagSize) :
        LET start == pos + TagSize + l[2]
            payload == SubSeq(wire, start + 1, start + l[1]) IN
        \/ Stop("done") \/ Stop("crashed")
        \/ /\ ~Truncated(start, l[1])
           /\ pos' = start + l[1]
           /\ lines' = IF IsKnown(k)
                       THEN Append(lines, [frame |-> k, payload |-> payload])
                       ELSE lines
           /\ UNCHANGED <<input, phase, device, capture>>
  BY DEF DecodeFrame
<1> DEFINE start == pos + TagSize + l[2]
           payload == SubSeq(wire, start + 1, start + l[1])
           line == [frame |-> k, payload |-> payload]
<1>3. SUFFICES ASSUME ~Truncated(start, l[1]),
                      pos' = start + l[1],
                      lines' = IF IsKnown(k) THEN Append(lines, line) ELSE lines,
                      UNCHANGED <<input, phase, device, capture>>
               PROVE  UNCHANGED <<phase, frames>> /\ (OutOfStep(c))'
  BY <1>2
<1>4. UNCHANGED <<input, capture>> /\ frames' = frames /\ phase' = phase
  BY <1>3 DEF capture
<1>5. \A j : (IsWhole(j))' = IsWhole(j) /\ (HasLength(j))' = HasLength(j) /\ (IsKnown(j))' = IsKnown(j)
  BY <1>4, SameCapture
<1>6. (End(c))' = End(c)
  BY <1>4, SameCapture
<1>7. /\ l[1] \in Nat /\ l[2] \in 1..2 /\ pos \in Nat /\ TagSize \in Nat \ {0}
      /\ wire \in Seq(Nat \X Nat) /\ Len(wire) \in Nat
  BY <1>1, LengthsAtType, LenProperties, OutputAssumption
     DEF CaptureInv, Ordered, LinesInv
<1>8. start \in Nat /\ start >= pos
  BY <1>7
<1>9. ~(Len(wire) - start < l[1])
  BY <1>3 DEF Truncated
<1>10. k \in {0} \cup DOMAIN frames
  BY FrameAtType
<1>11. ASSUME k # 0
       PROVE  ~(k < c)
  <2> SUFFICES ASSUME k < c
               PROVE  FALSE
    OBVIOUS
  <2>1. k \in DOMAIN frames
    BY <1>10, <1>11
  <2>2. k \in Nat \ {0} /\ c \in Nat \ {0}
    BY <1>1, <2>1, FrameOf
  <2>3. Holds(pos, k, 1, TagSize)
    BY <1>11 DEF FrameAt
  <2> HIDE DEF k
  <2>4. pos + TagSize <= Len(wire) /\ wire[pos + 1] = <<k, 1>>
    <3>1. 1 \in 1..TagSize /\ TagSize \in Nat
      BY <1>7
    <3> QED
      BY <1>7, <2>3, <3>1, HoldsFirst
  <2>5. PICK p \in 1..pos : wire[p] = <<c - 1, FrameLen(frames[c - 1])>>
    <3>1. c # 1
      BY <2>2
    <3> QED
      BY <3>1 DEF OutOfStep, Reached
  <2>6. p \in 1..Len(wire) /\ pos + 1 \in 1..Len(wire) /\ p < pos + 1
    BY <1>7, <2>4
  <2>7. Before(wire[p], wire[pos + 1])
    BY <1>1, <2>6 DEF CaptureInv, Ordered
  <2>8. wire[p][2] \in Nat /\ wire[p][2] >= 1
    <3>1. wire[p] \in Nat \X Nat /\ wire[p][2] \in 1..FrameLen(frames[wire[p][1]])
      BY <1>1, <2>6, ElementOfSeq DEF CaptureInv, Ordered
    <3> QED
      BY <3>1
  <2>9. wire[p][1] = c - 1 /\ wire[pos + 1][1] = k /\ wire[pos + 1][2] = 1
    BY <2>4, <2>5
  <2> QED
    BY <2>2, <2>7, <2>8, <2>9 DEF Before
<1>12. (Kept(c))'
  <2>1. CASE IsKnown(k)
    <3>1. k \in Nat \ {0}
      BY <1>1, <1>10, <2>1, FrameOf DEF IsKnown
    <3>2. payload \in Seq(Nat \X Nat)
      <4> HIDE DEF start
      <4>1. start + 1 \in Int /\ start + l[1] \in Int /\ start + 1 >= 1 /\ start + l[1] <= Len(wire)
        <5>1. l[1] \in Nat /\ Len(wire) \in Nat
          BY <1>7
        <5> DEFINE n == l[1]
        <5> HIDE DEF n
        <5>2. n \in Nat /\ start \in Nat /\ ~(Len(wire) - start < n)
          BY <1>8, <1>9, <5>1 DEF n
        <5>3. start + 1 \in Int /\ start + n \in Int /\ start + 1 >= 1 /\ start + n <= Len(wire)
          BY <5>1, <5>2
        <5> QED
          BY <5>3 DEF n
      <4>2. \A i \in start + 1 .. start + l[1] : wire[i] \in Nat \X Nat
        <5>1. start + 1 .. start + l[1] \subseteq 1..Len(wire)
          <6>1. Len(wire) \in Nat
            BY <1>7
          <6> QED
            BY <4>1, <6>1, IntervalInside
        <5> QED
          BY <1>7, <5>1, ElementOfSeq
      <4> QED
        BY <4>1, <4>2, SubSeqProperties
    <3> HIDE DEF k, payload
    <3>3. line \in Lines /\ line.frame = k
      BY <3>1, <3>2 DEF Lines
    <3> HIDE DEF line
    <3>4. lines \in Seq(Lines) /\ lines' = Append(lines, line)
      BY <1>1, <1>3, <2>1 DEF LinesInv
    <3>5. ~(line.frame < c) /\ Kept(c)
      BY <1>11, <3>1, <3>3 DEF OutOfStep
    <3> QED
      BY <1>4, <3>3, <3>4, <3>5, KeptMore
  <2>2. CASE ~IsKnown(k)
    <3>1. lines' = lines
      BY <1>3, <2>2
    <3>2. \A j : (IsKnown(j))' = IsKnown(j) /\ (Payload(j))' = Payload(j)
      BY <1>4, SameCapture
    <3> QED
      BY <3>1, <3>2 DEF OutOfStep, Kept
  <2> QED
    BY <2>1, <2>2
<1>13. pos' \in Nat /\ pos' >= pos
  <2>1. pos' = start + l[1]
    BY <1>3
  <2> HIDE DEF start
  <2> QED
    BY <1>7, <1>8, <2>1
<1>14. ASSUME HasLength(c)
       PROVE  End(c) <= pos'
  <2>1. End(c) <= pos
    BY <1>14 DEF OutOfStep
  <2>2. Start(c) \in Nat
    BY <1>1, <1>14, StartType
  <2>3. End(c) \in Nat
    BY <1>1, <2>2, FrameOf, FrameType DEF End
  <2> QED
    BY <1>7, <1>13, <2>1, <2>3
<1>15. (Reached(c))'
  <2>1. wire' = wire /\ 1..pos \subseteq 1..pos'
    BY <1>4, <1>7, <1>13 DEF capture
  <2> QED
    BY <1>4, <2>1 DEF OutOfStep, Reached
<1> HIDE DEF k, start, line, payload
<1> QED
  BY <1>4, <1>5, <1>6, <1>12, <1>14, <1>15 DEF OutOfStep

(* The decoder's invariant holds in the beginning.                         *)
LEMMA DecoderInit == Init => DecoderInv
BY DEF Init, DecoderInv

(* A step that ends the decoding leaves it where it is.                    *)
LEMMA DecoderStops ==
  ASSUME TypeInv, Decoded, phase = "decoding",
         NEW how \in {"done", "failed", "crashed"}, Stop(how),
         \A m \in 1 .. Len(frames) + 1 :
           InStep(m) =>
             \/ (StoppedAt(m))'
             \/ m \in DOMAIN frames /\ OutOfStep(m)
  PROVE  DecoderInv'
<1>1. frames' = frames /\ phase' = how
  BY DEF Stop, capture
<1>2. \A k : (InStep(k))' = InStep(k) /\ (OutOfStep(k))' = OutOfStep(k)
  BY SameDecoded
<1>3. (Decoded)'
  <2>1. CASE \E c \in DOMAIN frames : OutOfStep(c)
    BY <1>1, <1>2, <2>1 DEF Decoded
  <2>2. CASE \E m \in 1 .. Len(frames) + 1 : InStep(m) /\ StoppedAt(m)
    <3>1. PICK m \in 1 .. Len(frames) + 1 : InStep(m)
      BY <2>2
    <3>2. CASE (StoppedAt(m))'
      BY <1>1, <1>2, <3>1, <3>2 DEF Decoded
    <3>3. CASE m \in DOMAIN frames /\ OutOfStep(m)
      BY <1>1, <1>2, <3>3 DEF Decoded
    <3> QED
      BY <3>1, <3>2, <3>3
  <2> QED
    BY <2>1, <2>2 DEF Decoded
<1> QED
  BY <1>1, <1>3 DEF DecoderInv

(* A frame without its length is not whole in step either: nothing more is *)
(* said of the decoder.                                                    *)
LEMMA WithoutLength ==
  ASSUME TypeInv, NEW m \in DOMAIN frames, InStep(m), ~HasLength(m)
  PROVE  OutOfStep(m)
<1>1. ~IsWhole(m)
  BY WholeIsHere DEF TypeInv, InStep
<1> QED
  BY <1>1, InStepKeeps DEF InStep, OutOfStep

(* Every step keeps the decoder's invariant.                               *)
LEMMA DecoderNext == TypeInv /\ DecoderInv /\ [Next]_vars => DecoderInv'
<1> SUFFICES ASSUME TypeInv, DecoderInv, [Next]_vars
             PROVE  DecoderInv'
  OBVIOUS
<1>1. CaptureInv /\ LinesInv /\ DeviceInv
  BY DEF TypeInv
<1>2. DOMAIN frames = 1..Len(frames) /\ Len(frames) \in Nat
  BY <1>1, LenProperties DEF CaptureInv
<1>3. 1 .. Len(frames) + 1 = DOMAIN frames \cup {Len(frames) + 1}
  BY <1>2
<1>4. Len(wire) \in Nat /\ TagSize \in Nat \ {0}
  BY <1>1, LenProperties, OutputAssumption DEF CaptureInv, Ordered
<1>5. CASE Compile
  BY <1>5 DEF DecoderInv, Compile, decoder
<1>6. CASE BeginCall
  BY <1>6 DEF DecoderInv, BeginCall, decoder
<1>7. CASE Deliver
  BY <1>1, <1>7 DEF DecoderInv, Deliver, decoder, DeviceInv
<1>8. CASE Lose
  BY <1>1, <1>8 DEF DecoderInv, Lose, decoder, DeviceInv
<1>9. CASE EndCapture
  <2>1. pos' = 0 /\ lines' = <<>> /\ phase' = "decoding" /\ frames' = frames
    BY <1>9 DEF DecoderInv, EndCapture, decoder, capture
  <2>2. (InStep(1))'
    BY <2>1 DEF InStep, Behind, Printed
  <2>3. (StoppedAt(1))'
    BY <2>1 DEF StoppedAt
  <2>4. 1 \in 1 .. Len(frames') + 1
    BY <1>2, <2>1
  <2>5. (Decoded)'
    BY <2>2, <2>3, <2>4 DEF Decoded
  <2> QED
    BY <2>1, <2>5 DEF DecoderInv
<1>10. CASE EndOfData
  <2>1. phase = "decoding" /\ Rest < TagSize + 1 /\ Stop("done")
    BY <1>10 DEF EndOfData
  <2>2. phase' = "done" /\ frames' = frames
    BY <2>1 DEF Stop, capture
  <2>3. ASSUME NEW m \in 1 .. Len(frames) + 1, InStep(m)
        PROVE  (StoppedAt(m))' \/ (m \in DOMAIN frames /\ OutOfStep(m))
    <3>1. CASE m \in DOMAIN frames
      <4>1. ~HasLength(m)
        <5>1. HasLength(m) => Rest >= TagSize + 1
          BY <1>1, <2>3, <3>1, ReadsHere DEF InStep
        <5> QED
          BY <1>1, <1>4, <2>1, <5>1 DEF Rest, LinesInv
      <4> QED
        BY <2>3, <3>1, <4>1, WithoutLength
    <3>2. CASE m \notin DOMAIN frames
      BY <2>2, <3>2 DEF StoppedAt
    <3> QED
      BY <3>1, <3>2
  <2> QED
    BY <2>1, <2>3, DecoderStops DEF DecoderInv
<1>11. CASE BadLength
  <2>1. /\ phase = "decoding" /\ Rest >= TagSize + 1
        /\ MayBeEndless(pos + TagSize) /\ Stop("failed")
    BY <1>11 DEF BadLength
  <2>2. ASSUME NEW m \in 1 .. Len(frames) + 1, InStep(m)
        PROVE  (StoppedAt(m))' \/ (m \in DOMAIN frames /\ OutOfStep(m))
    <3>1. CASE m \in DOMAIN frames
      <4>1. ~HasLength(m)
        BY <1>1, <2>1, <2>2, <3>1, ReadsHere DEF InStep
      <4> QED
        BY <2>2, <3>1, <4>1, WithoutLength
    <3>2. CASE m = Len(frames) + 1
      <4>1. pos = Len(wire)
        BY <1>1, <2>2, <3>2, EndIsHere DEF InStep
      <4> QED
        BY <1>4, <2>1, <4>1 DEF Rest
    <3> QED
      BY <1>3, <3>1, <3>2
  <2> QED
    BY <2>1, <2>2, DecoderStops DEF DecoderInv
<1>12. CASE DecodeFrame
  <2>1. phase = "decoding" /\ Rest >= TagSize + 1 /\ Decoded
    BY <1>12 DEF DecodeFrame, DecoderInv
  <2>2. ASSUME NEW how \in {"done", "crashed"}, Stop(how),
               NEW c \in DOMAIN frames, OutOfStep(c)
        PROVE  DecoderInv'
    <3>1. (OutOfStep(c))' /\ frames' = frames /\ phase' = how
      BY <2>2, SameDecoded DEF Stop, capture
    <3> QED
      BY <3>1 DEF DecoderInv, Decoded
  <2>3. ASSUME NEW c \in DOMAIN frames, OutOfStep(c)
        PROVE  DecoderInv'
    <3>1. \/ Stop("done") \/ Stop("crashed")
          \/ UNCHANGED <<phase, frames>> /\ (OutOfStep(c))'
      BY <1>12, <2>3, StepBeyond
    <3>2. CASE UNCHANGED <<phase, frames>> /\ (OutOfStep(c))'
      BY <2>1, <3>2 DEF DecoderInv, Decoded
    <3> QED
      BY <2>2, <2>3, <3>1, <3>2
  <2>4. ASSUME NEW m \in 1 .. Len(frames) + 1, InStep(m)
        PROVE  DecoderInv'
    <3>1. m \in DOMAIN frames
      <4>1. m # Len(frames) + 1
        <5> SUFFICES ASSUME m = Len(frames) + 1
                     PROVE  FALSE
          OBVIOUS
        <5>1. pos = Len(wire)
          BY <1>1, <2>4, EndIsHere DEF InStep
        <5> QED
          BY <1>4, <2>1, <5>1 DEF Rest
      <4> QED
        BY <1>3, <4>1
    <3>2. ASSUME NEW how \in {"done", "crashed"}, Stop(how), (StoppedAt(m))'
          PROVE  DecoderInv'
      <4>1. (InStep(m))' /\ frames' = frames /\ phase' = how
        BY <2>4, <3>2, SameDecoded DEF Stop, capture
      <4> QED
        BY <3>2, <4>1 DEF DecoderInv, Decoded
    <3>3. Stop("crashed") => DecoderInv'
      <4>1. Stop("crashed") => (StoppedAt(m))'
        BY DEF Stop, StoppedAt
      <4> QED
        BY <3>2, <4>1
    <3>4. CASE IsWhole(m)
      <4>1. UNCHANGED phase /\ (InStep(m + 1))' => DecoderInv'
        <5> SUFFICES ASSUME UNCHANGED phase, (InStep(m + 1))'
                     PROVE  DecoderInv'
          OBVIOUS
        <5>1. frames' = frames
          BY <1>12, <2>1 DEF DecodeFrame, Stop, capture
        <5>2. m + 1 \in 1 .. Len(frames') + 1
          BY <1>2, <3>1, <5>1
        <5>3. (StoppedAt(m + 1))'
          BY <2>1 DEF StoppedAt
        <5> QED
          BY <2>1, <5>2, <5>3 DEF DecoderInv, Decoded
      <4> QED
        BY <1>12, <2>4, <3>1, <3>3, <3>4, <4>1, StepWhole
    <3>5. CASE ~IsWhole(m) /\ HasLength(m)
      <4>1. \/ pos + FrameLen(frames[m]) > Len(wire) /\ Stop("done")
            \/ Stop("crashed")
            \/ UNCHANGED <<phase, frames>> /\ (OutOfStep(m))'
        BY <1>12, <2>4, <3>1, <3>5, StepCut
      <4>2. CASE pos + FrameLen(frames[m]) > Len(wire) /\ Stop("done")
        <5>1. /\ phase' = "done" /\ frames' = frames /\ wire' = wire /\ pos' = pos
              /\ UNCHANGED <<input, capture>>
          BY <4>2 DEF Stop, capture, decoder
        <5>2. (IsWhole(m))' = IsWhole(m)
          BY <5>1, SameCapture
        <5>3. (StoppedAt(m))'
          BY <3>5, <4>2, <5>1, <5>2 DEF StoppedAt
        <5> QED
          BY <3>2, <4>2, <5>3
      <4>3. CASE UNCHANGED <<phase, frames>> /\ (OutOfStep(m))'
        BY <2>1, <3>1, <4>3 DEF DecoderInv, Decoded
      <4> QED
        BY <3>3, <4>1, <4>2, <4>3
    <3>6. CASE ~HasLength(m)
      BY <2>3, <2>4, <3>1, <3>6, WithoutLength
    <3> QED
      BY <3>4, <3>5, <3>6
  <2> QED
    BY <2>1, <2>3, <2>4 DEF Decoded
<1>13. CASE UNCHANGED vars
  <2>1. /\ UNCHANGED <<input, capture>> /\ UNCHANGED <<phase, pos, lines>>
        /\ frames' = frames /\ wire' = wire
    BY <1>13 DEF vars, capture, decoder
  <2>2. \A j : (IsWhole(j))' = IsWhole(j) /\ (HasLength(j))' = HasLength(j)
    BY <2>1, SameCapture
  <2>3. \A j : (IsKnown(j))' = IsKnown(j) /\ (Payload(j))' = Payload(j)
    BY <2>1, SameCapture
  <2>4. \A j : (End(j))' = End(j)
    BY <2>1, SameCapture
  <2>5. \A k : (InStep(k))' = InStep(k)
    BY <2>1, <2>2, <2>3 DEF InStep, Behind, Printed
  <2>6. \A k : (OutOfStep(k))' = OutOfStep(k)
    BY <2>1, <2>2, <2>3, <2>4 DEF OutOfStep, Reached, Kept
  <2>7. \A k : (StoppedAt(k))' = StoppedAt(k)
    BY <2>1, <2>2 DEF StoppedAt
  <2> QED
    BY <2>1, <2>5, <2>6, <2>7 DEF DecoderInv, Decoded
<1>14. CASE Finish
  BY <1>13, <1>14 DEF Finish
<1> QED
  BY <1>5, <1>6, <1>7, <1>8, <1>9, <1>10, <1>11, <1>12, <1>13, <1>14 DEF Next

(* The decoder's invariant holds for every program.                        *)
THEOREM DecoderHolds == OutputSpec => []DecoderInv
BY TypeHolds, DecoderInit, DecoderNext, PTL DEF OutputSpec

(* As long as no message was cut, the decoder prints every frame of a      *)
(* known event as it was sent, once and in order.                          *)
THEOREM InStepStays == OutputSpec => []StaysInStep
<1>1. ASSUME TypeInv, DecoderInv
      PROVE  StaysInStep
  <2> SUFFICES ASSUME \A k \in DOMAIN frames : IsWhole(k)
               PROVE  /\ phase # "failed"
                      /\ \A i \in DOMAIN lines : lines[i].payload = Payload(lines[i].frame)
                      /\ \A i, j \in DOMAIN lines : i < j => lines[i].frame < lines[j].frame
                      /\ phase = "done" =>
                           \A k \in DOMAIN frames : IsKnown(k) => LineOf(k) # {}
    BY DEF StaysInStep
  <2>1. CASE phase \notin {"decoding", "done", "failed", "crashed"}
    BY <1>1, <2>1 DEF DecoderInv
  <2>2. CASE phase \in {"decoding", "done", "failed", "crashed"}
    <3>1. PICK m \in 1 .. Len(frames) + 1 : InStep(m) /\ StoppedAt(m)
      BY <1>1, <2>2 DEF DecoderInv, Decoded, OutOfStep
    <3>2. phase # "failed"
      BY <3>1 DEF StoppedAt
    <3>3. ASSUME phase = "done", NEW k \in DOMAIN frames, IsKnown(k)
          PROVE  LineOf(k) # {}
      <4>1. m \notin DOMAIN frames
        BY <3>1, <3>3 DEF StoppedAt
      <4>2. DOMAIN frames = 1..Len(frames) /\ Len(frames) \in Nat
        BY <1>1, LenProperties DEF TypeInv, CaptureInv
      <4>3. k \in 1 .. m - 1
        BY <4>1, <4>2
      <4>4. PICK i \in DOMAIN lines : lines[i].frame = k
        BY <3>1, <3>3, <4>3 DEF InStep, Printed
      <4> QED
        BY <4>4 DEF LineOf
    <3> QED
      BY <3>1, <3>2, <3>3 DEF InStep, Printed
  <2> QED
    BY <2>1, <2>2
<1> QED
  BY <1>1, TypeHolds, DecoderHolds, PTL

(* A message that was cut does no harm to the frames before it, and what   *)
(* the end of the data cuts is not printed.                                *)
THEOREM CutsSpare == OutputSpec => []CutsSpareWhatPrecedes
<1>1. ASSUME TypeInv, DecoderInv
      PROVE  CutsSpareWhatPrecedes
  <2> SUFFICES ASSUME NEW k \in DOMAIN frames, ~IsWhole(k),
                      \A j \in 1 .. k - 1 : IsWhole(j)
               PROVE  /\ \A i \in DOMAIN lines :
                           lines[i].frame < k => lines[i].payload = Payload(lines[i].frame)
                      /\ \A i, j \in DOMAIN lines :
                           i < j /\ lines[j].frame < k => lines[i].frame < lines[j].frame
                      /\ phase \in {"done", "failed"} =>
                           \A j \in 1 .. k - 1 : IsKnown(j) => LineOf(j) # {}
                      /\ HasLength(k) /\ End(k) > Len(wire) =>
                           \A i \in DOMAIN lines : lines[i].frame < k
    BY DEF CutsSpareWhatPrecedes, End
  <2>1. CaptureInv /\ LinesInv
    BY <1>1 DEF TypeInv
  <2>2. DOMAIN frames = 1..Len(frames) /\ Len(frames) \in Nat /\ Len(wire) \in Nat
    BY <2>1, LenProperties DEF CaptureInv, Ordered
  <2>3. CASE phase \notin {"decoding", "done", "failed", "crashed"}
    BY <1>1, <2>3 DEF DecoderInv
  <2>4. ASSUME NEW m \in 1 .. Len(frames) + 1, InStep(m), StoppedAt(m)
        PROVE  /\ \A i \in DOMAIN lines : lines[i].frame < k
               /\ \A i \in DOMAIN lines : lines[i].payload = Payload(lines[i].frame)
               /\ \A i, j \in DOMAIN lines : i < j => lines[i].frame < lines[j].frame
               /\ phase \in {"done", "failed"} =>
                    \A j \in 1 .. k - 1 : IsKnown(j) => LineOf(j) # {}
    <3>1. ~(k < m)
      <4>1. k < m => k \in 1 .. m - 1
        BY <2>2
      <4> QED
        BY <2>4, <4>1 DEF InStep
    <3>2. m \in DOMAIN frames /\ m <= k
      BY <2>2, <3>1
    <3>3. \A i \in DOMAIN lines : lines[i].frame < k
      <4>1. \A i \in DOMAIN lines : lines[i].frame \in 1 .. m - 1
        BY <2>4 DEF InStep, Printed
      <4> QED
        BY <2>2, <3>2, <4>1
    <3>4. ASSUME phase \in {"done", "failed"}, NEW j \in 1 .. k - 1, IsKnown(j)
          PROVE  LineOf(j) # {}
      <4>1. ~IsWhole(m)
        BY <2>4, <3>2, <3>4 DEF StoppedAt
      <4>2. ~(m < k)
        <5>1. m < k => m \in 1 .. k - 1
          BY <2>2
        <5> QED
          BY <4>1, <5>1
      <4>3. m = k
        BY <2>2, <3>2, <4>2
      <4>4. PICK i \in DOMAIN lines : lines[i].frame = j
        BY <2>4, <3>4, <4>3 DEF InStep, Printed
      <4> QED
        BY <4>4 DEF LineOf
    <3> QED
      BY <2>4, <3>3, <3>4 DEF InStep, Printed
  <2>5. ASSUME NEW c \in DOMAIN frames, OutOfStep(c)
        PROVE  /\ Kept(k)
               /\ ~(HasLength(k) /\ End(k) > Len(wire))
    <3>1. ~(c < k)
      <4>1. c < k => c \in 1 .. k - 1
        BY <2>2
      <4> QED
        BY <2>5, <4>1 DEF OutOfStep
    <3>2. ~(k < c)
      <4>1. k < c => k \in 1 .. c - 1
        BY <2>2
      <4> QED
        BY <2>5, <4>1 DEF OutOfStep
    <3>3. c = k
      BY <2>2, <3>1, <3>2
    <3>4. ASSUME HasLength(k)
          PROVE  ~(End(k) > Len(wire))
      <4>1. End(k) <= pos
        BY <2>5, <3>3, <3>4 DEF OutOfStep
      <4>2. End(k) \in Int
        <5>1. Start(k) \in Nat
          BY <2>1, <3>4, StartType
        <5> QED
          BY <2>1, <5>1, FrameOf, FrameType DEF End
      <4>3. pos \in Int /\ pos <= Len(wire)
        BY <2>1, <2>2 DEF LinesInv
      <4> QED
        BY <2>2, <4>1, <4>2, <4>3
    <3> QED
      BY <2>5, <3>3, <3>4 DEF OutOfStep
  <2>6. ASSUME Kept(k)
        PROVE  \A j \in 1 .. k - 1 : IsKnown(j) => LineOf(j) # {}
    BY <2>6 DEF Kept, LineOf
  <2>7. CASE \E m \in 1 .. Len(frames) + 1 : InStep(m) /\ StoppedAt(m)
    BY <2>4, <2>7
  <2>8. CASE \E c \in DOMAIN frames : OutOfStep(c)
    BY <2>5, <2>6, <2>8 DEF Kept
  <2> QED
    BY <1>1, <2>3, <2>7, <2>8 DEF DecoderInv, Decoded
<1> QED
  BY <1>1, TypeHolds, DecoderHolds, PTL

-----------------------------------------------------------------------------
(* What the buffer leaves out of a text.                                   *)

(* Writes that fit are all written.                                        *)
LEMMA WriteAllFits ==
  ASSUME NEW start \in Seq(Char), NEW ws \in Seq(Seq(Char)),
         Len(start) + Len(FlattenSeq(ws)) <= BufSize
  PROVE  WriteAll(start, ws) = start \o FlattenSeq(ws)
<1> DEFINE n == Len(ws)
<1>1. PICK g : Joined(Char, ws, g)
  BY JoinedExists
<1>2. PICK k \in 0..n : Takes(WriteAll(start, ws), start, ws, g, k)
  BY <1>1, WriteAllText
<1>3. FlattenSeq(ws) = g[n]
  BY <1>1, FlattenIsJoined
<1>4. n \in Nat /\ k \in Nat /\ BufSize \in Nat /\ Len(start) \in Nat
  BY LenProperties, OutputAssumption
<1>5. k = n
  <2> SUFFICES ASSUME k < n
               PROVE  FALSE
    BY <1>4
  <2> DEFINE j == k + 1
  <2>1. j \in Nat /\ n \in Nat /\ j <= n /\ n <= Len(ws)
    BY <1>4
  <2>2. Len(start) + Len(g[j]) > BufSize
    BY <1>2 DEF Takes
  <2> HIDE DEF j
  <2>3. Len(g[j]) <= Len(g[n]) /\ Len(g[j]) \in Nat /\ Len(g[n]) \in Nat
    BY <1>1, <2>1, JoinedGrows
  <2> QED
    BY <1>3, <1>4, <2>2, <2>3
<1> QED
  BY <1>2, <1>3, <1>5 DEF Takes

(* The text of an event breaks off at the end of a write.                  *)
LEMMA FormatIntoBreaksOff ==
  ASSUME NEW format \in Seq(Segments), Accepted(format), build \in Builds
  PROVE  /\ IsPrefix(FormatInto(format), FlattenSeq(AllWrites(format)))
         /\ Len(FlattenSeq(AllWrites(format))) <= BufSize =>
              FormatInto(format) = FlattenSeq(AllWrites(format))
<1> DEFINE ws == AllWrites(format)
           n == Len(ws)
<1>1. ws \in Seq(Seq(Char)) /\ <<>> \in Seq(Char)
  BY AllWritesType, EmptySeq
<1>2. FormatInto(format) = WriteAll(<<>>, ws)
  BY DEF FormatInto
<1> HIDE DEF ws
<1>3. PICK g : Joined(Char, ws, g)
  BY <1>1, JoinedExists
<1>4. PICK k \in 0..n : Takes(WriteAll(<<>>, ws), <<>>, ws, g, k)
  BY <1>1, <1>3, WriteAllText
<1>5. FlattenSeq(ws) = g[n]
  BY <1>1, <1>3, FlattenIsJoined
<1>6. n \in Nat /\ k \in Nat /\ k <= n /\ n <= Len(ws)
  BY <1>1, LenProperties
<1>7. g[k] \in Seq(Char) /\ g[n] \in Seq(Char)
  BY <1>3, <1>6 DEF Joined
<1>8. WriteAll(<<>>, ws) = g[k]
  BY <1>4, <1>7, ConcatEmptySeq DEF Takes
<1>9. IsPrefix(g[k], g[n])
  <2> HIDE DEF n
  <2>1. Continues(Char, g[k], g[n])
    BY <1>1, <1>3, <1>6, JoinedGrows
  <2>2. PICK r \in Seq(Char) : g[n] = g[k] \o r
    BY <2>1 DEF Continues
  <2> QED
    BY <1>7, <2>2, PrefixOfConcat
<1>10. ASSUME Len(FlattenSeq(ws)) <= BufSize
       PROVE  WriteAll(<<>>, ws) = FlattenSeq(ws)
  <2>1. FlattenSeq(ws) \in Seq(Char)
    BY <1>5, <1>7
  <2>2. Len(<<>>) + Len(FlattenSeq(ws)) <= BufSize
    BY <1>10, <2>1, LenProperties
  <2>3. WriteAll(<<>>, ws) = <<>> \o FlattenSeq(ws)
    BY <1>1, <2>2, WriteAllFits
  <2> QED
    BY <2>1, <2>3, ConcatEmptySeq
<1> QED
  BY <1>2, <1>5, <1>8, <1>9, <1>10 DEF ws

(* What log_text! writes of a text that fits is the text.                  *)
LEMMA LogTextFits ==
  ASSUME NEW format \in Seq(Segments), Accepted(format), build \in Builds,
         Len(FlattenSeq(AllWrites(format))) <= BufSize
  PROVE  LogText(format) = FlattenSeq(AllWrites(format))
<1> DEFINE n == Len(format)
           T == Seq(Char)
           ss == [i \in DOMAIN format |-> Writes(format[i])]
<1>1. n \in Nat /\ DOMAIN format = 1..n
  BY LenProperties
<1>2. ss \in Seq(Seq(T)) /\ Len(ss) = n
  BY AllWritesType
<1>3. \A i \in 1..n : ss[i] = Writes(format[i])
  BY <1>1
<1>4. PICK texts :
           /\ texts \in [0..n -> Seq(Char)]
           /\ texts[0] = <<>>
           /\ \A i \in 1..n : texts[i] = WriteAll(texts[i - 1], Writes(format[i]))
           /\ LogText(format) = texts[n]
  BY LogTextSteps
<1>5. AllWrites(format) = FlattenSeq(ss)
  BY DEF AllWrites
<1> HIDE DEF ss, n
<1>6. PICK g : Joined(T, ss, g)
  BY <1>2, JoinedExists
<1>7. /\ g \in [0..n -> Seq(T)] /\ g[0] = <<>>
      /\ \A i \in 1..n : g[i] = g[i - 1] \o ss[i]
  BY <1>2, <1>6 DEF Joined
<1>8. FlattenSeq(ss) = g[n]
  BY <1>2, <1>6, FlattenIsJoined
<1> DEFINE text(i) == FlattenSeq(g[i])
<1>9. ASSUME NEW i \in 1..n
      PROVE  /\ text(i) = text(i - 1) \o FlattenSeq(ss[i])
             /\ text(i - 1) \in T /\ FlattenSeq(ss[i]) \in T /\ text(i) \in T
  <2>1. g[i - 1] \in Seq(T) /\ ss[i] \in Seq(T) /\ g[i] = g[i - 1] \o ss[i]
    <3>1. i - 1 \in 0..n
      BY <1>1
    <3> QED
      BY <1>2, <1>7, <3>1, ElementOfSeq
  <2>2. /\ FlattenSeq(g[i - 1] \o ss[i]) = FlattenSeq(g[i - 1]) \o FlattenSeq(ss[i])
        /\ FlattenSeq(g[i - 1]) \in T /\ FlattenSeq(ss[i]) \in T
    BY <2>1, FlattenConcat
  <2>3. FlattenSeq(g[i - 1]) \o FlattenSeq(ss[i]) \in T
    BY <2>2, ConcatProperties
  <2> QED
    BY <2>1, <2>2, <2>3
<1>10. text(0) = <<>>
  <2>1. FlattenSeq(<<>>) = <<>>
    <3>1. <<>> \in Seq(Seq(Char)) /\ Len(<<>>) = 0
      BY EmptySeq
    <3>2. PICK h : Joined(Char, <<>>, h)
      BY <3>1, JoinedExists
    <3>3. FlattenSeq(<<>>) = h[Len(<<>>)]
      BY <3>1, <3>2, FlattenIsJoined
    <3> QED
      BY <3>1, <3>2, <3>3 DEF Joined
  <2> QED
    BY <1>7, <2>1
<1>11. Len(text(n)) <= BufSize
  BY <1>5, <1>8
<1> HIDE DEF text
<1> DEFINE S == {i \in Nat : i <= n => texts[i] = text(i) /\ text(i) \in T}
           B == {i \in Nat : i <= n => Len(text(n - i)) <= BufSize}
<1>12. 0 \in B
  BY <1>1, <1>11
<1>13. ASSUME NEW i \in Nat, i \in B
       PROVE  i + 1 \in B
  <2> SUFFICES ASSUME i + 1 <= n
               PROVE  Len(text(n - (i + 1))) <= BufSize
    OBVIOUS
  <2> DEFINE j == n - i
             s == text(j - 1)
             r == FlattenSeq(ss[j])
             t == text(j)
  <2>1. j \in 1..n /\ n - (i + 1) = j - 1 /\ Len(t) <= BufSize
    BY <1>1, <1>13
  <2> HIDE DEF j
  <2>2. t = s \o r /\ s \in T /\ r \in T
    BY <1>9, <2>1
  <2> HIDE DEF s, r, t
  <2>3. Len(t) = Len(s) + Len(r) /\ Len(s) \in Nat /\ Len(r) \in Nat
    BY <2>2, ConcatProperties, LenProperties
  <2>4. Len(s) <= BufSize
    BY <2>1, <2>3, OutputAssumption
  <2> QED
    BY <2>1, <2>4 DEF s
<1> HIDE DEF B
<1>14. Nat \subseteq B
  BY <1>12, <1>13, SetInduction
<1>15. ASSUME NEW i \in 0..n
       PROVE  Len(text(i)) <= BufSize
  <2>1. n - i \in B /\ n - i <= n /\ n - (n - i) = i
    BY <1>1, <1>14
  <2> QED
    BY <2>1 DEF B
<1>16. 0 \in S
  BY <1>4, <1>10, EmptySeq
<1>17. ASSUME NEW i \in Nat, i \in S
       PROVE  i + 1 \in S
  <2> SUFFICES ASSUME i + 1 <= n
               PROVE  texts[i + 1] = text(i + 1) /\ text(i + 1) \in T
    OBVIOUS
  <2> DEFINE j == i + 1
             s == text(i)
             ws == ss[j]
             t == text(j)
  <2>1. j \in 1..n /\ j - 1 = i /\ j \in 0..n
    BY <1>1
  <2>2. texts[j] = WriteAll(texts[i], ws) /\ texts[i] = s
    <3>1. texts[i] = s
      BY <1>1, <1>17
    <3>2. texts[j] = WriteAll(texts[j - 1], Writes(format[j])) /\ ws = Writes(format[j])
      BY <1>3, <1>4, <2>1
    <3> QED
      BY <2>1, <3>1, <3>2
  <2> HIDE DEF j
  <2>3. t = s \o FlattenSeq(ws) /\ s \in T /\ FlattenSeq(ws) \in T /\ t \in T
    BY <1>9, <2>1
  <2>4. ws \in Seq(T) /\ Len(t) <= BufSize
    BY <1>2, <1>15, <2>1, ElementOfSeq
  <2> HIDE DEF s, ws, t
  <2>5. Len(s) + Len(FlattenSeq(ws)) <= BufSize
    <3>1. Len(t) = Len(s) + Len(FlattenSeq(ws))
      BY <2>3, ConcatProperties
    <3> QED
      BY <2>4, <3>1
  <2>6. WriteAll(s, ws) = s \o FlattenSeq(ws)
    BY <2>3, <2>4, <2>5, WriteAllFits
  <2>7. texts[j] = t /\ t \in T
    BY <2>2, <2>3, <2>6
  <2> QED
    BY <2>7 DEF j, t
<1> HIDE DEF S
<1>18. n \in S
  BY <1>1, <1>16, <1>17, SetInduction
<1>19. texts[n] = text(n)
  BY <1>1, <1>18 DEF S
<1> QED
  BY <1>4, <1>5, <1>8, <1>19 DEF text

(* A message is of a call that has texts.                                  *)
LEMMA MessageType ==
  ASSUME TypeInv, NEW k \in Texts
  PROVE  /\ frames[k].call \in 1..Len(program)
         /\ IsTextOf(frames[k].call, frames[k].text)
         /\ FormatOf(k) \in Seq(Segments)
         /\ Accepted(FormatOf(k))
         /\ build \in Builds
<1>1. frames[k] \in ProgramFrames /\ frames[k].what = "message"
  BY FrameOf DEF Texts, TypeInv
<1>2. frames[k].call \in 1..Len(program) /\ IsTextOf(frames[k].call, frames[k].text)
  BY <1>1 DEF ProgramFrames
<1>3. InputInv /\ build \in Builds
  BY DEF TypeInv, InputInv
<1>4. FormatOf(k) \in Seq(Segments)
  BY <1>2, <1>3, CallType DEF FormatOf
<1> QED
  BY <1>2, <1>3, <1>4 DEF IsTextOf, FormatOf

(* What an event's text leaves out is at its end, and nothing is left out  *)
(* of a text that fits.                                                    *)
THEOREM TextsBreakOff == OutputSpec => []TextsBreakOffAtTheEnd
<1>1. ASSUME TypeInv
      PROVE  TextsBreakOffAtTheEnd
  <2> SUFFICES ASSUME NEW k \in Texts
               PROVE  LET full == FlattenSeq(AllWrites(FormatOf(k))) IN
                      /\ program[frames[k].call].via = "event" =>
                           IsPrefix(frames[k].text, full)
                      /\ Len(full) <= BufSize => frames[k].text = full
    BY DEF TextsBreakOffAtTheEnd, FullText, FormatOf
  <2>1. /\ IsTextOf(frames[k].call, frames[k].text)
        /\ FormatOf(k) \in Seq(Segments) /\ Accepted(FormatOf(k)) /\ build \in Builds
    BY <1>1, MessageType
  <2>2. \/ program[frames[k].call].via = "event" /\ frames[k].text = FormatInto(FormatOf(k))
        \/ program[frames[k].call].via = "text" /\ frames[k].text = LogText(FormatOf(k))
    BY <2>1 DEF IsTextOf, FormatOf
  <2>3. CASE /\ program[frames[k].call].via = "event"
             /\ frames[k].text = FormatInto(FormatOf(k))
    BY <2>1, <2>3, FormatIntoBreaksOff
  <2>4. CASE /\ program[frames[k].call].via = "text"
             /\ frames[k].text = LogText(FormatOf(k))
    BY <2>1, <2>4, LogTextFits
  <2> QED
    BY <2>2, <2>3, <2>4
<1> QED
  BY <1>1, TypeHolds, PTL

-----------------------------------------------------------------------------
(* Numbers in texts that the buffer cuts.                                  *)

EndsPlain(w, base) == w = <<>> \/ ~IsDigit(w[Len(w)], base)
StartsPlain(w, base) == w = <<>> \/ ~IsDigit(w[1], base)

\* Of the pieces of a text, one shows a number; no digit adjoins it.
Framed(ws, base) ==
  \E c \in 1..Len(ws) :
    /\ \A i \in 1 .. c - 1 : EndsPlain(ws[i], base)
    /\ \A i \in c + 1 .. Len(ws) : StartsPlain(ws[i], base)

(* Pieces that end without a digit do so when they are joined.             *)
LEMMA EndsPlainConcat ==
  ASSUME NEW s \in Seq(Char), NEW t \in Seq(Char), NEW base,
         EndsPlain(s, base), EndsPlain(t, base)
  PROVE  EndsPlain(s \o t, base)
<1>1. CASE t = <<>>
  <2>1. s \o t = s
    BY <1>1, ConcatEmptySeq
  <2> QED
    BY <2>1
<1>2. CASE t # <<>>
  <2>1. Len(t) \in Nat /\ Len(t) > 0 /\ Len(s) \in Nat
    BY <1>2, LenProperties, EmptySeq
  <2>2. Len(s \o t) = Len(s) + Len(t)
    BY ConcatProperties
  <2>3. (s \o t)[Len(s) + Len(t)] = t[Len(t)]
    BY <2>1, ConcatProperties
  <2> QED
    BY <1>2, <2>2, <2>3 DEF EndsPlain
<1> QED
  BY <1>1, <1>2

(* Pieces that start without a digit do so when they are joined.           *)
LEMMA StartsPlainConcat ==
  ASSUME NEW s \in Seq(Char), NEW t \in Seq(Char), NEW base,
         StartsPlain(s, base), StartsPlain(t, base)
  PROVE  StartsPlain(s \o t, base)
<1>1. CASE s = <<>>
  <2>1. s \o t = t
    BY <1>1, ConcatEmptySeq
  <2> QED
    BY <2>1
<1>2. CASE s # <<>>
  <2>1. Len(s) \in Nat /\ Len(s) > 0 /\ Len(t) \in Nat
    BY <1>2, LenProperties, EmptySeq
  <2>2. (s \o t)[1] = s[1]
    BY <2>1, ConcatProperties
  <2> QED
    BY <1>2, <2>2 DEF StartsPlain
<1> QED
  BY <1>1, <1>2

(* Where pieces around a number are split, no digits are on both sides.    *)
LEMMA SplitsPlainly ==
  ASSUME NEW ws \in Seq(Seq(Char)), NEW base, Framed(ws, base),
         NEW g, Joined(Char, ws, g), NEW j \in 0..Len(ws),
         0 < Len(g[j]), Len(g[j]) < Len(g[Len(ws)])
  PROVE  ~(IsDigit(g[Len(ws)][Len(g[j])], base)
           /\ IsDigit(g[Len(ws)][Len(g[j]) + 1], base))
<1> DEFINE n == Len(ws)
<1>1. n \in Nat /\ n \in 0..n /\ j \in Nat /\ j <= n
  BY LenProperties
<1>2. /\ \A i \in 0..n : g[i] \in Seq(Char)
      /\ g[0] = <<>>
      /\ \A i \in 1..n : g[i] = g[i - 1] \o ws[i]
      /\ \A i \in 1..n : ws[i] \in Seq(Char)
  BY ElementOfSeq DEF Joined
<1>3. PICK c \in 1..n : /\ \A i \in 1 .. c - 1 : EndsPlain(ws[i], base)
                        /\ \A i \in c + 1 .. n : StartsPlain(ws[i], base)
  BY DEF Framed
<1>4. PICK r \in Seq(Char) : g[n] = g[j] \o r
  <2>1. j \in Nat /\ n \in Nat /\ j <= n /\ n <= Len(ws)
    BY <1>1
  <2> HIDE DEF n
  <2>2. Continues(Char, g[j], g[n])
    BY <2>1, JoinedGrows
  <2> QED
    BY <2>2 DEF Continues
<1>5. Len(g[j]) \in Nat /\ g[j] \in Seq(Char)
  BY <1>1, <1>2, LenProperties
<1> HIDE DEF n
<1>6. CASE j < c
  <2> DEFINE S == {i \in Nat : i < c => EndsPlain(g[i], base)}
  <2>1. 0 \in S
    BY <1>2 DEF EndsPlain
  <2>2. ASSUME NEW i \in Nat, i \in S
        PROVE  i + 1 \in S
    <3> SUFFICES ASSUME i + 1 < c
                 PROVE  EndsPlain(g[i + 1], base)
      OBVIOUS
    <3>1. i + 1 \in 1 .. c - 1 /\ i + 1 \in 1..n /\ i \in 0..n /\ (i + 1) - 1 = i /\ i < c
      BY <1>1
    <3>2. EndsPlain(g[i], base) /\ EndsPlain(ws[i + 1], base)
      BY <1>3, <2>2, <3>1
    <3>3. g[i] \in Seq(Char) /\ ws[i + 1] \in Seq(Char)
      BY <1>2, <3>1
    <3>4. EndsPlain(g[i] \o ws[i + 1], base)
      BY <3>2, <3>3, EndsPlainConcat
    <3>5. g[i + 1] = g[i] \o ws[i + 1]
      BY <1>2, <3>1
    <3> QED
      BY <3>4, <3>5
  <2> HIDE DEF S
  <2>3. j \in Nat /\ j \in S
    <3>1. Nat \subseteq S
      BY <2>1, <2>2, SetInduction
    <3> QED
      BY <1>1, <3>1
  <2>4. EndsPlain(g[j], base)
    BY <1>6, <2>3 DEF S
  <2>5. g[j] # <<>>
    BY <1>5, EmptySeq
  <2>6. (g[j] \o r)[Len(g[j])] = g[j][Len(g[j])]
    BY <1>5, ConcatProperties
  <2> QED
    BY <1>4, <2>4, <2>5, <2>6 DEF EndsPlain, n
<1>7. CASE c <= j
  <2> DEFINE P(i) == \E s \in Seq(Char) : g[i] = g[j] \o s /\ StartsPlain(s, base)
             S == {i \in Nat : j + i <= n => P(j + i)}
  <2>1. 0 \in S
    <3>1. <<>> \in Seq(Char) /\ g[j] = g[j] \o <<>> /\ StartsPlain(<<>>, base)
      BY <1>5, EmptySeq, ConcatEmptySeq DEF StartsPlain
    <3>2. j + 0 = j
      BY <1>1
    <3> QED
      BY <3>1, <3>2
  <2>2. ASSUME NEW i \in Nat, i \in S
        PROVE  i + 1 \in S
    <3> SUFFICES ASSUME j + (i + 1) <= n
                 PROVE  P(j + (i + 1))
      <4> HIDE DEF P
      <4> QED
        OBVIOUS
    <3> DEFINE m == j + (i + 1)
    <3>1. m \in c + 1 .. n /\ m \in 1..n /\ m - 1 = j + i /\ j + i <= n
      BY <1>1, <1>7
    <3>2. PICK s \in Seq(Char) : g[j + i] = g[j] \o s /\ StartsPlain(s, base)
      BY <2>2, <3>1
    <3> HIDE DEF m
    <3> DEFINE t == ws[m]
    <3>3. t \in Seq(Char) /\ StartsPlain(t, base) /\ g[m] = g[j + i] \o t
      BY <1>2, <1>3, <3>1
    <3> HIDE DEF t
    <3>4. StartsPlain(s \o t, base) /\ s \o t \in Seq(Char)
      BY <3>2, <3>3, StartsPlainConcat, ConcatProperties
    <3> DEFINE p == g[j]
    <3>5. p \in Seq(Char)
      BY <1>5
    <3> HIDE DEF p
    <3>6. (p \o s) \o t = p \o (s \o t)
      <4>1. t \in Seq(Char)
        BY <3>3
      <4> QED
        BY <3>5, <4>1, TextAssociative
    <3>7. g[m] = g[j] \o (s \o t)
      BY <3>2, <3>3, <3>6 DEF p
    <3> QED
      BY <3>4, <3>7 DEF m
  <2> HIDE DEF S
  <2>3. n - j \in Nat /\ n - j \in S /\ j + (n - j) = n
    <3>1. Nat \subseteq S
      BY <2>1, <2>2, SetInduction
    <3> QED
      BY <1>1, <3>1
  <2>4. PICK s \in Seq(Char) : g[n] = g[j] \o s /\ StartsPlain(s, base)
    <3>1. P(j + (n - j))
      <4> HIDE DEF P
      <4> QED
        BY <1>1, <2>3 DEF S
    <3>2. P(n)
      BY <2>3, <3>1
    <3> QED
      BY <3>2
  <2> DEFINE p == g[j]
  <2>5. Len(p \o s) = Len(p) + Len(s) /\ Len(s) \in Nat
    BY <1>5, ConcatProperties, LenProperties
  <2>6. Len(s) > 0
    BY <1>5, <2>4, <2>5 DEF n
  <2>7. (p \o s)[Len(p) + 1] = s[1]
    <3>1. (p \o s)[Len(p) + 1] = s[(Len(p) + 1) - Len(p)]
      BY <1>5, <2>6, <2>5, ConcatProperties
    <3> QED
      BY <1>5, <3>1
  <2>8. s # <<>>
    BY <2>6
  <2> QED
    BY <2>4, <2>7, <2>8 DEF StartsPlain, n
<1> QED
  BY <1>1, <1>6, <1>7

(* A digit of a base is a digit.                                           *)
LEMMA DigitsAreDigits ==
  ASSUME NEW c, NEW base \in 1..16, IsDigit(c, base)
  PROVE  c \in DigitChars
<1>1. PICK i \in 1..base : c = Digit[i] \/ c = UpperDigit[i]
  BY DEF IsDigit
<1>2. i \in 1..16
  BY <1>1
<1> QED
  BY <1>1, <1>2, DigitType

(* No sign, space or prefix ends with a digit.                             *)
LEMMA PlainChars ==
  ASSUME NEW base \in 1..16
  PROVE  /\ ~IsDigit(" ", base) /\ ~IsDigit("-", base) /\ ~IsDigit("+", base)
         /\ ~IsDigit("x", base) /\ ~IsDigit("X", base) /\ ~IsDigit("o", base)
         /\ base = 2 => ~IsDigit("b", base)
<1>1. /\ " " \notin DigitChars /\ "-" \notin DigitChars /\ "+" \notin DigitChars
      /\ "x" \notin DigitChars /\ "X" \notin DigitChars /\ "o" \notin DigitChars
  BY Zenon DEF DigitChars
<1>2. ASSUME base = 2
      PROVE  ~IsDigit("b", base)
  <2>1. ASSUME NEW i \in 1..base
        PROVE  "b" # Digit[i] /\ "b" # UpperDigit[i]
    <3>1. i = 1 \/ i = 2
      BY <1>2
    <3> QED
      BY <3>1 DEF Digit, UpperDigit
  <2> QED
    BY <2>1 DEF IsDigit
<1> QED
  BY <1>1, <1>2, DigitsAreDigits, Zenon

(* Pieces that end without a digit may come before a number.               *)
LEMMA FramedInFront ==
  ASSUME NEW ws \in Seq(Seq(Char)), NEW base, Framed(ws, base),
         NEW f \in Seq(Seq(Char)), \A i \in 1..Len(f) : EndsPlain(f[i], base)
  PROVE  Framed(f \o ws, base)
<1> DEFINE n == Len(ws)
           m == Len(f)
           s == f \o ws
<1>1. n \in Nat /\ m \in Nat
  BY LenProperties
<1>2. PICK c \in 1..n : /\ \A i \in 1 .. c - 1 : EndsPlain(ws[i], base)
                        /\ \A i \in c + 1 .. n : StartsPlain(ws[i], base)
  BY DEF Framed
<1>3. /\ Len(s) = m + n
      /\ \A i \in 1 .. m + n : s[i] = IF i <= m THEN f[i] ELSE ws[i - m]
  BY ConcatProperties
<1>4. \A i \in 1..m : EndsPlain(f[i], base)
  OBVIOUS
<1> HIDE DEF n, m, s
<1>5. ASSUME NEW i \in 1 .. (m + c) - 1
      PROVE  EndsPlain(s[i], base)
  <2>1. CASE i <= m
    <3>1. i \in 1..m /\ i \in 1 .. m + n
      BY <1>1, <2>1
    <3> QED
      BY <1>3, <1>4, <2>1, <3>1
  <2>2. CASE i > m
    <3>1. i - m \in 1 .. c - 1 /\ i \in 1 .. m + n /\ ~(i <= m)
      BY <1>1, <1>2, <2>2
    <3> QED
      BY <1>2, <1>3, <3>1
  <2> QED
    BY <1>1, <1>2, <2>1, <2>2
<1>6. ASSUME NEW i \in (m + c) + 1 .. m + n
      PROVE  StartsPlain(s[i], base)
  <2>1. i - m \in c + 1 .. n /\ i \in 1 .. m + n /\ ~(i <= m)
    BY <1>1, <1>2
  <2> QED
    BY <1>2, <1>3, <2>1
<1>7. m + c \in 1 .. Len(s)
  BY <1>1, <1>2, <1>3
<1>8. Framed(s, base)
  BY <1>3, <1>5, <1>6, <1>7 DEF Framed
<1> QED
  BY <1>8 DEF s

(* Pieces that start without a digit may come behind a number.             *)
LEMMA FramedBehind ==
  ASSUME NEW ws \in Seq(Seq(Char)), NEW base, Framed(ws, base),
         NEW f \in Seq(Seq(Char)), \A i \in 1..Len(f) : StartsPlain(f[i], base)
  PROVE  Framed(ws \o f, base)
<1> DEFINE n == Len(ws)
           m == Len(f)
           s == ws \o f
<1>1. n \in Nat /\ m \in Nat
  BY LenProperties
<1>2. PICK c \in 1..n : /\ \A i \in 1 .. c - 1 : EndsPlain(ws[i], base)
                        /\ \A i \in c + 1 .. n : StartsPlain(ws[i], base)
  BY DEF Framed
<1>3. /\ Len(s) = n + m
      /\ \A i \in 1 .. n + m : s[i] = IF i <= n THEN ws[i] ELSE f[i - n]
  BY ConcatProperties
<1>4. \A i \in 1..m : StartsPlain(f[i], base)
  OBVIOUS
<1> HIDE DEF n, m, s
<1>5. ASSUME NEW i \in 1 .. c - 1
      PROVE  EndsPlain(s[i], base)
  <2>1. i \in 1 .. n + m /\ i <= n
    BY <1>1, <1>2
  <2> QED
    BY <1>2, <1>3, <2>1
<1>6. ASSUME NEW i \in c + 1 .. n + m
      PROVE  StartsPlain(s[i], base)
  <2>0. i \in 1 .. n + m
    BY <1>1, <1>2
  <2>1. CASE i <= n
    <3>1. i \in c + 1 .. n
      BY <1>1, <1>2, <2>1
    <3> QED
      BY <1>2, <1>3, <2>0, <2>1, <3>1
  <2>2. CASE i > n
    <3>1. i - n \in 1..m /\ ~(i <= n)
      BY <1>1, <1>2, <2>2
    <3> QED
      BY <1>3, <1>4, <2>0, <3>1
  <2> QED
    BY <1>1, <1>2, <2>1, <2>2
<1>7. c \in 1 .. Len(s)
  BY <1>1, <1>2, <1>3
<1>8. Framed(s, base)
  BY <1>3, <1>5, <1>6, <1>7 DEF Framed
<1> QED
  BY <1>8 DEF s

(* A piece that is a space neither starts nor ends with a digit.           *)
LEMMA SpaceIsPlain ==
  ASSUME NEW base \in 1..16, NEW pad \in Nat
  PROVE  /\ Fill(<<" ">>, pad) \in Seq(Seq(Char))
         /\ \A i \in 1 .. Len(Fill(<<" ">>, pad)) :
              /\ EndsPlain(Fill(<<" ">>, pad)[i], base)
              /\ StartsPlain(Fill(<<" ">>, pad)[i], base)
<1> DEFINE space == " "
           piece == <<space>>
<1>1. space \in Char
  BY Zenon DEF Char
<1>2. ~IsDigit(space, base)
  BY PlainChars, Zenon
<1> HIDE DEF space
<1>3. EndsPlain(piece, base) /\ StartsPlain(piece, base)
  <2>1. Len(piece) = 1 /\ piece[1] = space
    OBVIOUS
  <2> HIDE DEF piece
  <2> QED
    BY <1>2, <2>1 DEF EndsPlain, StartsPlain
<1>4. piece \in Seq(Char)
  BY <1>1, OneElement
<1> HIDE DEF piece
<1>5. Fill(piece, pad) \in Seq(Seq(Char)) /\ Len(Fill(piece, pad)) = pad
  BY <1>4, FillType
<1>6. \A i \in 1..pad : Fill(piece, pad)[i] = piece
  BY DEF Fill
<1> QED
  BY <1>3, <1>5, <1>6, Zenon DEF piece, space

(* Spaces around the pieces of a number leave it framed.                   *)
LEMMA AlignedFramed ==
  ASSUME NEW ws \in Seq(Seq(Char)), NEW base \in 1..16, Framed(ws, base),
         NEW pad \in Nat, NEW align \in {"", "<", ">"}
  PROVE  Framed(Aligned(ws, pad, align), base)
<1>1. Framed(Fill(<<" ">>, pad) \o ws, base)
  BY SpaceIsPlain, FramedInFront, Zenon
<1>2. Framed(ws \o Fill(<<" ">>, pad), base)
  BY SpaceIsPlain, FramedBehind, Zenon
<1> QED
  BY <1>1, <1>2, Zenon DEF Aligned

(* One piece alone is framed.                                              *)
LEMMA OneFramed ==
  ASSUME NEW text, NEW base
  PROVE  Framed(<<text>>, base)
BY DEF Framed

\* Zeros are written in front of the digits, up to the width.
FillsZeros(spec) == spec.zero /\ spec.align = ""

(* What shows an integer that no zeros fill is framed.                     *)
LEMMA FmtUintFramed ==
  ASSUME NEW n \in Nat, n < Values(8), NEW spec, IsSpec(spec),
         NEW negative \in BOOLEAN, ~FillsZeros(spec)
  PROVE  Framed(FmtUint(n, spec, negative), Base(spec.ty))
<1> DEFINE sign == SignOf(negative, spec)
           prefix == Prefix(spec)
           digits == WriteDigits(n, Base(spec.ty),
                                 IF spec.ty = "X" THEN UpperDigit ELSE Digit)
           pad == Pad(spec, Len(sign) + Len(prefix) + Len(digits))
           base == Base(spec.ty)
           ws == <<sign, prefix, digits>>
<1>1. base \in {2, 8, 10, 16}
  BY DEF Base
<1> HIDE DEF base
<1>0. base \in 1..16 /\ base \in 2..16
  BY <1>1
<1>2. EndsPlain(sign, base)
  <2>1. sign = <<>> \/ sign = <<"-">> \/ sign = <<"+">>
    BY DEF SignOf
  <2>2. ~IsDigit("-", base) /\ ~IsDigit("+", base)
    BY <1>0, PlainChars
  <2>3. /\ Len(<<"-">>) = 1 /\ <<"-">>[1] = "-"
        /\ Len(<<"+">>) = 1 /\ <<"+">>[1] = "+"
    OBVIOUS
  <2> HIDE DEF sign, base
  <2> QED
    BY <2>1, <2>2, <2>3 DEF EndsPlain
<1>3. EndsPlain(prefix, base)
  <2>1. \/ prefix = <<>>
        \/ spec.ty \in {"x", "X", "b", "o"} /\ prefix = <<"0", spec.ty>>
    BY DEF Prefix
  <2>2. CASE spec.ty \in {"x", "X", "b", "o"} /\ prefix = <<"0", spec.ty>>
    <3>1. spec.ty = "b" => base = 2
      BY DEF Base, base
    <3>2. ~IsDigit(spec.ty, base)
      BY <1>0, <2>2, <3>1, PlainChars
    <3>3. Len(<<"0", spec.ty>>) = 2 /\ <<"0", spec.ty>>[2] = spec.ty
      OBVIOUS
    <3> HIDE DEF base, prefix
    <3> QED
      BY <2>2, <3>2, <3>3 DEF EndsPlain
  <2> HIDE DEF base, prefix
  <2> QED
    BY <2>1, <2>2 DEF EndsPlain
<1>4. sign \in Seq(Char) /\ prefix \in Seq(Char) /\ digits \in Seq(Char)
  <2>1. sign \in Seq(Char) /\ prefix \in Seq(Char)
    BY SignAndPrefixType
  <2>2. \A d : (d = Digit \/ d = UpperDigit) => \A i \in 1..16 : d[i] \in DigitChars
    BY DigitType
  <2>3. WriteDigits(n, base, IF spec.ty = "X" THEN UpperDigit ELSE Digit) \in Seq(Char)
    BY <1>0, <2>2, WriteDigitsType
  <2> QED
    BY <2>1, <2>3 DEF base
<1>5. pad \in Nat
  <2> HIDE DEF sign, prefix, digits
  <2>1. Len(sign) + Len(prefix) + Len(digits) \in Nat
    BY <1>4, LenProperties
  <2> QED
    BY <2>1, PadType DEF IsSpec
<1>6. FmtUint(n, spec, negative) = Aligned(ws, pad, spec.align)
  BY Zenon DEF FmtUint, FillsZeros, base
<1> HIDE DEF sign, prefix, digits, pad, base
<1>7. Framed(ws, base)
  <2>1. Len(ws) = 3 /\ ws[1] = sign /\ ws[2] = prefix
    OBVIOUS
  <2> HIDE DEF ws
  <2>2. ASSUME NEW i \in 1 .. 3 - 1
        PROVE  EndsPlain(ws[i], base)
    <3>1. i = 1 \/ i = 2
      OBVIOUS
    <3> QED
      BY <1>2, <1>3, <2>1, <3>1
  <2> QED
    BY <2>1, <2>2 DEF Framed
<1>8. ws \in Seq(Seq(Char))
  <2> DEFINE T == Seq(Char)
  <2>1. sign \in T /\ prefix \in T /\ digits \in T
    BY <1>4
  <2> HIDE DEF T
  <2>2. ws \in Seq(T)
    BY <2>1
  <2> QED
    BY <2>2 DEF T
<1>9. Framed(Aligned(ws, pad, spec.align), base)
  BY <1>0, <1>5, <1>7, <1>8, AlignedFramed DEF IsSpec
<1> QED
  BY <1>6, <1>9 DEF base

(* A text in one piece is framed.                                          *)
LEMMA FmtStrValueFramed ==
  ASSUME NEW text \in Seq(Char), NEW spec, IsSpec(spec), NEW base \in 1..16
  PROVE  Framed(FmtStrValue(text, spec), base)
<1>1. Pad(spec, Len(text)) \in Nat
  BY LenProperties, PadType DEF IsSpec
<1>2. <<text>> \in Seq(Seq(Char)) /\ Framed(<<text>>, base)
  BY OneElement, OneFramed
<1>3. spec.align \in {"", "<", ">"}
  BY DEF IsSpec
<1> DEFINE pad == Pad(spec, Len(text))
           align == spec.align
           ws == <<text>>
<1> HIDE DEF pad, align, ws
<1>4. Framed(Aligned(ws, pad, align), base)
  BY <1>1, <1>2, <1>3, AlignedFramed DEF pad, align, ws
<1> QED
  BY <1>4 DEF FmtStrValue, pad, align, ws

(* Whatever is not written piecemeal is framed.                            *)
LEMMA FmtFramed ==
  ASSUME NEW v \in AllValues, NEW spec \in Specs, build \in Builds,
         ~IsPiecemeal(v, spec)
  PROVE  Framed(Fmt(v, spec, build.no64), ShownBase(v, spec))
<1>1. IsSpec(spec) /\ IsSpec(HexSpec(spec))
  BY SpecsAreSpecs
<1>2. CASE v \in IntValues
  <2>1. /\ v.bits \in Nat /\ v.kind \in {"uint", "sint", "pair"}
        /\ v.size \in {1, 2, 4, 8} /\ v.bits < Values(v.size)
    BY <1>2 DEF IntValues
  <2>2. v.bits < Values(8)
    BY <2>1, ValuesFacts
  <2>3. /\ spec.ty # "c" /\ ~FillsZeros(spec)
        /\ v.kind = "pair" => ~build.no64
    BY <2>1, Zenon DEF IsPiecemeal, FillsZeros
  <2>4. Framed(FmtUint(v.bits, spec, FALSE), Base(spec.ty))
    <3>1. FALSE \in BOOLEAN /\ v.bits \in Nat
      BY <2>1
    <3> QED
      BY <1>1, <2>2, <2>3, <3>1, FmtUintFramed
  <2>5. Framed(FmtSint(v, spec), Base(spec.ty))
    <3>1. UnsignedAbs(v) \in Nat /\ UnsignedAbs(v) < Values(8)
      BY <1>2, UnsignedAbsType
    <3>2. IsNegative(v) \in BOOLEAN
      BY DEF IsNegative
    <3>3. Framed(FmtUint(UnsignedAbs(v), spec, IsNegative(v)), Base(spec.ty))
      BY <1>1, <2>3, <3>1, <3>2, FmtUintFramed
    <3> QED
      BY <2>4, <3>3 DEF FmtSint
  <2>6. Fmt(v, spec, build.no64) \in {FmtUint(v.bits, spec, FALSE), FmtSint(v, spec)}
    BY <2>1, <2>3 DEF Fmt
  <2>7. ShownBase(v, spec) = Base(spec.ty)
    BY <2>1 DEF ShownBase
  <2> QED
    BY <2>4, <2>5, <2>6, <2>7
<1>3. CASE v \in HashValues
  <2>1. v.bits \in Nat /\ v.kind = "hash" /\ v.bits < Values(4)
    BY <1>3 DEF HashValues
  <2>2. v.bits < Values(8)
    BY <2>1, ValuesFacts
  <2>3. ~FillsZeros(HexSpec(spec))
    <3>1. spec.align # ""
      BY <2>1, Zenon DEF IsPiecemeal
    <3>2. HexSpec(spec).align = spec.align
      BY DEF Specs, HexSpec
    <3> QED
      BY <3>1, <3>2, Zenon DEF FillsZeros
  <2>4. Base(HexSpec(spec).ty) = 16
    <3>1. HexSpec(spec).ty = "x"
      BY DEF Specs, HexSpec
    <3> QED
      BY <3>1 DEF Base
  <2>5. Framed(FmtUint(v.bits, HexSpec(spec), FALSE), Base(HexSpec(spec).ty))
    <3>1. FALSE \in BOOLEAN /\ v.bits \in Nat
      BY <2>1
    <3> QED
      BY <1>1, <2>2, <2>3, <3>1, FmtUintFramed
  <2>6. Fmt(v, spec, build.no64) = FmtUint(v.bits, HexSpec(spec), FALSE)
    BY <2>1 DEF Fmt, HexSpec
  <2>7. ShownBase(v, spec) = 16
    BY <2>1 DEF ShownBase
  <2> QED
    BY <2>4, <2>5, <2>6, <2>7
<1>4. CASE v \in FloatValues
  <2>1. v.kind = "float"
    BY <1>4 DEF FloatValues
  <2>2. PICK text \in Seq(Char) : FmtFloat(v, spec) = FmtStrValue(text, spec)
    BY <1>1, <1>4, FmtFloatType
  <2>3. Framed(FmtStrValue(text, spec), 10)
    <3>1. 10 \in 1..16
      OBVIOUS
    <3> QED
      BY <1>1, <2>2, <3>1, FmtStrValueFramed
  <2>4. ShownBase(v, spec) = 10
    BY <2>1 DEF ShownBase
  <2> QED
    BY <2>1, <2>2, <2>3, <2>4 DEF Fmt
<1>5. CASE v \in WordValues
  <2>1. v.kind \in {"nonfinite", "bool", "str"} /\ v.text \in Seq(STRING)
    BY <1>5 DEF WordValues
  <2>2. v.text \in Seq(Char)
    BY <2>1, TextIsOfChars
  <2>3. Framed(FmtStrValue(v.text, spec), 10)
    <3>1. 10 \in 1..16
      OBVIOUS
    <3> QED
      BY <1>1, <2>2, <3>1, FmtStrValueFramed
  <2>4. ShownBase(v, spec) = 10
    BY <2>1 DEF ShownBase
  <2> QED
    BY <2>1, <2>3, <2>4 DEF Fmt
<1> QED
  BY <1>2, <1>3, <1>4, <1>5 DEF AllValues

-----------------------------------------------------------------------------
(* Joining what follows a first piece.                                     *)
LEMMA JoinedBehind ==
  ASSUME NEW first \in Seq(Char), NEW ws \in Seq(Seq(Char)),
         NEW g, Joined(Char, ws, g), NEW h, Joined(Char, <<first>> \o ws, h)
  PROVE  \A i \in 0..Len(ws) : h[i + 1] = first \o g[i]
<1> DEFINE n == Len(ws)
           s == <<first>> \o ws
           T == Seq(Char)
<1>1. n \in Nat
  BY LenProperties
<1>2. Len(s) = 1 + n /\ s[1] = first /\ \A i \in 1..n : s[i + 1] = ws[i]
  <2> DEFINE f == <<first>>
  <2>1. f \in Seq(T) /\ Len(f) = 1 /\ f[1] = first
    BY OneElement
  <2>2. ws \in Seq(T)
    OBVIOUS
  <2> HIDE DEF f, T
  <2>3. /\ Len(f \o ws) = 1 + n
        /\ \A i \in 1 .. 1 + n : (f \o ws)[i] = IF i <= 1 THEN f[i] ELSE ws[i - 1]
    <3>1. /\ Len(f \o ws) = Len(f) + Len(ws)
          /\ \A i \in 1 .. Len(f) + Len(ws) :
               (f \o ws)[i] = IF i <= Len(f) THEN f[i] ELSE ws[i - Len(f)]
      BY <2>1, <2>2, ConcatProperties
    <3> QED
      BY <2>1, <3>1
  <2>4. ASSUME NEW i \in 1..n
        PROVE  (f \o ws)[i + 1] = ws[i]
    <3>1. i + 1 \in 1 .. 1 + n /\ ~(i + 1 <= 1) /\ (i + 1) - 1 = i
      BY <1>1
    <3> QED
      BY <2>3, <3>1
  <2>5. 1 \in 1 .. 1 + n
    BY <1>1
  <2> QED
    BY <2>1, <2>3, <2>4, <2>5 DEF f
<1>3. /\ g \in [0..n -> T] /\ g[0] = <<>> /\ \A i \in 1..n : g[i] = g[i - 1] \o ws[i]
  BY DEF Joined
<1>4. /\ h[0] = <<>> /\ \A i \in 1 .. 1 + n : h[i] = h[i - 1] \o s[i]
  BY <1>2 DEF Joined
<1>5. \A i \in 1..n : ws[i] \in T
  BY ElementOfSeq
<1> HIDE DEF n, s
<1> DEFINE S == {i \in Nat : i <= n => h[i + 1] = first \o g[i]}
<1>6. 0 \in S
  <2>1. h[1] = <<>> \o first
    <3>1. 1 \in 1 .. 1 + n /\ 1 - 1 = 0
      BY <1>1
    <3> QED
      BY <1>2, <1>4, <3>1
  <2>2. <<>> \o first = first \o <<>>
    BY ConcatEmptySeq
  <2> QED
    BY <1>3, <2>1, <2>2
<1>7. ASSUME NEW i \in Nat, i \in S
      PROVE  i + 1 \in S
  <2> SUFFICES ASSUME i + 1 <= n
               PROVE  h[(i + 1) + 1] = first \o g[i + 1]
    OBVIOUS
  <2> DEFINE r == g[i]
             t == ws[i + 1]
  <2>1. i + 1 \in 1..n /\ i \in 0..n /\ (i + 1) - 1 = i /\ (i + 1) + 1 \in 1 .. 1 + n
        /\ ((i + 1) + 1) - 1 = i + 1 /\ i <= n
    BY <1>1
  <2>2. h[i + 1] = first \o r
    BY <1>7, <2>1
  <2>3. r \in Seq(Char) /\ t \in Seq(Char) /\ g[i + 1] = r \o t
    BY <1>3, <1>5, <2>1
  <2>4. h[(i + 1) + 1] = h[i + 1] \o t
    BY <1>2, <1>4, <2>1
  <2> HIDE DEF r, t
  <2>5. (first \o r) \o t = first \o (r \o t)
    <3>1. r \in Seq(Char) /\ t \in Seq(Char)
      BY <2>3
    <3> QED
      BY <3>1, TextAssociative
  <2> QED
    BY <2>2, <2>3, <2>4, <2>5
<1>8. Nat \subseteq S
  <2> HIDE DEF S
  <2> QED
    BY <1>6, <1>7, SetInduction
<1> QED
  BY <1>1, <1>8 DEF n

(* The writes of a literal and a field.                                    *)
LEMMA TwoSegments ==
  ASSUME NEW format \in Seq(Segments), Accepted(format), build \in Builds,
         Len(format) = 2, format[1].kind = "literal", format[2].kind = "field"
  PROVE  /\ format[1].text \in Seq(Char)
         /\ format[2].value \in AllValues
         /\ MacroSpec(format[2].written) \in Specs
         /\ Writes(format[1]) = <<format[1].text>>
         /\ Writes(format[2]) \in Seq(Seq(Char))
         /\ AllWrites(format) = <<format[1].text>> \o Writes(format[2])
<1>1. format[1] \in Segments /\ format[2] \in Segments /\ DOMAIN format = {1, 2}
  <2>1. DOMAIN format = 1..2
    BY LenProperties
  <2>2. 1..2 = {1, 2}
    OBVIOUS
  <2>3. 1 \in 1..Len(format) /\ 2 \in 1..Len(format)
    BY <2>2
  <2> QED
    BY <2>1, <2>2, <2>3, ElementOfSeq, Zenon
<1>2. MacroAccepts(format[2].written)
  BY <1>1 DEF Accepted
<1>3. format[1].text \in Seq(Char)
  BY <1>1, SegmentType
<1>4. format[2].value \in AllValues /\ format[2].written \in AllWritten
  BY <1>1, SegmentType
<1>5. MacroSpec(format[2].written) \in Specs
  BY <1>2, <1>4, MacroSpecType
<1>6. Writes(format[1]) = <<format[1].text>>
  BY DEF Writes
<1>7. Writes(format[2]) \in Seq(Seq(Char)) /\ Writes(format[1]) \in Seq(Seq(Char))
  BY <1>1, <1>2, WritesType
<1>8. AllWrites(format) = Writes(format[1]) \o Writes(format[2])
  <2> DEFINE T == Seq(Char)
             ss == [i \in DOMAIN format |-> Writes(format[i])]
  <2>1. ss \in Seq(Seq(T)) /\ Len(ss) = 2
    BY AllWritesType
  <2>2. ss[1] = Writes(format[1]) /\ ss[2] = Writes(format[2])
    BY <1>1
  <2> HIDE DEF ss, T
  <2>3. PICK g : Joined(T, ss, g)
    BY <2>1, JoinedExists
  <2>4. FlattenSeq(ss) = g[2]
    BY <2>1, <2>3, FlattenIsJoined
  <2>5. g[0] = <<>> /\ g[1] = g[0] \o ss[1] /\ g[2] = g[1] \o ss[2]
    <3>1. g[0] = <<>> /\ \A i \in 1..2 : g[i] = g[i - 1] \o ss[i]
      BY <2>1, <2>3 DEF Joined
    <3>2. 1 \in 1..2 /\ 2 \in 1..2 /\ 1 - 1 = 0 /\ 2 - 1 = 1
      OBVIOUS
    <3> QED
      BY <3>1, <3>2
  <2>6. <<>> \o ss[1] = ss[1]
    <3>1. ss[1] \in Seq(T)
      BY <1>7, <2>2 DEF T
    <3> QED
      BY <3>1, ConcatEmptySeq
  <2> QED
    BY <2>2, <2>4, <2>5, <2>6 DEF AllWrites, ss
<1> QED
  BY <1>3, <1>4, <1>5, <1>6, <1>7, <1>8

\* A text is a literal and the first j pieces of a field.
ShowsPieces(text, first, ws, g, j) ==
  Joined(Char, ws, g) /\ j \in 0..Len(ws) /\ text = first \o g[j]

(* A text that the buffer cut in a field is cut between two of its writes. *)
LEMMA CutInField ==
  ASSUME NEW format \in Seq(Segments), Accepted(format), build \in Builds,
         Len(format) = 2, format[1].kind = "literal", format[2].kind = "field",
         NEW text, text = FormatInto(format) \/ text = LogText(format),
         Len(text) > Len(format[1].text)
  PROVE  \E g, j : ShowsPieces(text, format[1].text, Writes(format[2]), g, j)
<1> DEFINE first == format[1].text
           ws == Writes(format[2])
           n == Len(ws)
<1>1. /\ first \in Seq(Char) /\ ws \in Seq(Seq(Char)) /\ Writes(format[1]) = <<first>>
      /\ AllWrites(format) = <<first>> \o ws
  BY TwoSegments
<1>2. Len(text) > Len(first)
  OBVIOUS
<1> HIDE DEF first, ws
<1>3. n \in Nat /\ Len(first) \in Nat /\ BufSize \in Nat
  BY <1>1, LenProperties, OutputAssumption
<1>4. PICK g : Joined(Char, ws, g)
  BY <1>1, JoinedExists
<1>5. <<first>> \in Seq(Seq(Char)) /\ Len(<<first>>) = 1
  BY <1>1, OneElement
<1>6. CASE text = FormatInto(format)
  <2> DEFINE s == <<first>> \o ws
  <2>1. s \in Seq(Seq(Char)) /\ Len(s) = 1 + n
    BY <1>1, <1>5, ConcatProperties
  <2>2. text = WriteAll(<<>>, s) /\ <<>> \in Seq(Char)
    BY <1>1, <1>6, EmptySeq DEF FormatInto
  <2>3. PICK h : Joined(Char, s, h)
    BY <2>1, JoinedExists
  <2>4. \A i \in 0..n : h[i + 1] = first \o g[i]
    BY <1>1, <1>4, <2>3, JoinedBehind
  <2> HIDE DEF s, n
  <2>5. PICK k \in 0 .. 1 + n : Takes(text, <<>>, s, h, k)
    BY <2>1, <2>2, <2>3, WriteAllText
  <2>6. text = h[k]
    <3>1. h[k] \in Seq(Char) /\ text = <<>> \o h[k]
      BY <2>1, <2>3, <2>5 DEF Joined, Takes
    <3> QED
      BY <3>1, ConcatEmptySeq
  <2>7. k # 0
    <3> SUFFICES ASSUME k = 0
                 PROVE  FALSE
      OBVIOUS
    <3>1. text = <<>>
      BY <2>3, <2>6 DEF Joined
    <3>2. Len(text) = 0
      BY <3>1
    <3> QED
      BY <1>2, <1>3, <3>2
  <2>8. k - 1 \in 0..n /\ (k - 1) + 1 = k
    BY <1>3, <2>7
  <2>9. text = first \o g[k - 1]
    BY <2>4, <2>6, <2>8
  <2>10. ShowsPieces(text, first, ws, g, k - 1)
    BY <1>4, <2>8, <2>9 DEF ShowsPieces, n
  <2> QED
    BY <2>10 DEF first, ws
<1>7. CASE text = LogText(format)
  <2>1. PICK texts :
           /\ texts \in [0..Len(format) -> Seq(Char)]
           /\ texts[0] = <<>>
           /\ \A i \in 1..Len(format) : texts[i] = WriteAll(texts[i - 1], Writes(format[i]))
           /\ LogText(format) = texts[Len(format)]
    BY LogTextSteps
  <2>2. texts[1] = WriteAll(<<>>, <<first>>) /\ text = WriteAll(texts[1], ws)
    <3>1. 1 \in 1..Len(format) /\ 2 \in 1..Len(format) /\ 1 - 1 = 0 /\ 2 - 1 = 1
      OBVIOUS
    <3> QED
      BY <1>1, <1>7, <2>1, <3>1 DEF ws
  <2>3. texts[1] \in Seq(Char) /\ Len(texts[1]) <= BufSize
    <3>1. <<>> \in Seq(Char) /\ Len(<<>>) <= BufSize
      BY <1>3, EmptySeq
    <3> QED
      BY <1>5, <2>2, <3>1, WriteAllType
  <2>4. Len(text) <= BufSize /\ text \in Seq(Char)
    BY <1>1, <2>2, <2>3, WriteAllType
  <2>5. Len(first) <= BufSize
    BY <1>2, <1>3, <2>4, LenProperties
  <2>6. texts[1] = first
    <3>1. <<>> \in Seq(Char) /\ FlattenSeq(<<first>>) = first
      BY <1>1, FlattenOne, EmptySeq
    <3>2. Len(<<>>) + Len(FlattenSeq(<<first>>)) <= BufSize
      BY <1>3, <2>5, <3>1
    <3>3. WriteAll(<<>>, <<first>>) = <<>> \o first
      BY <1>5, <3>1, <3>2, WriteAllFits
    <3> QED
      BY <1>1, <2>2, <3>3, ConcatEmptySeq
  <2>7. PICK j \in 0..n : Takes(text, first, ws, g, j)
    BY <1>1, <1>4, <2>2, <2>6, WriteAllText
  <2>8. ShowsPieces(text, first, ws, g, j)
    BY <1>4, <2>7 DEF Takes, ShowsPieces
  <2> QED
    BY <2>8 DEF first, ws
<1> QED
  BY <1>6, <1>7

(* A text that the buffer cut does not show some of the digits of a number *)
(* as if they were all, but for values written piecemeal.                  *)
THEOREM CutNumbersAreWhole == OutputSpec => []NumbersAreWhole
<1>1. ASSUME TypeInv, NEW k \in CutFields
      PROVE  LET field == FormatOf(k)[2]
                 spec == MacroSpec(field.written)
                 base == ShownBase(field.value, spec)
                 full == FlattenSeq(AllWrites(FormatOf(k)))
                 cut == Len(frames[k].text) IN
             IsPiecemeal(field.value, spec)
               \/ ~(IsDigit(full[cut], base) /\ IsDigit(full[cut + 1], base))
  <2> DEFINE format == FormatOf(k)
             first == format[1].text
             v == format[2].value
             spec == MacroSpec(format[2].written)
             base == ShownBase(v, spec)
             ws == Writes(format[2])
             full == FlattenSeq(AllWrites(format))
             text == frames[k].text
  <2>1. /\ k \in Texts /\ Len(format) = 2
        /\ format[1].kind = "literal" /\ format[2].kind = "field"
        /\ Len(text) > Len(first) /\ Len(text) < Len(full)
    BY DEF CutFields, FullText, FormatOf
  <2>2. /\ IsTextOf(frames[k].call, text)
        /\ format \in Seq(Segments) /\ Accepted(format) /\ build \in Builds
    BY <1>1, <2>1, MessageType
  <2>3. text = FormatInto(format) \/ text = LogText(format)
    BY <2>2 DEF IsTextOf, FormatOf
  <2>4. /\ first \in Seq(Char) /\ v \in AllValues /\ spec \in Specs
        /\ ws \in Seq(Seq(Char)) /\ AllWrites(format) = <<first>> \o ws
    <3> HIDE DEF format
    <3> QED
      BY <2>1, <2>2, TwoSegments
  <2>5. PICK g, j : ShowsPieces(text, first, ws, g, j)
    <3> HIDE DEF format, text
    <3> QED
      BY <2>1, <2>2, <2>3, CutInField
  <2>6. ws = Fmt(v, spec, build.no64)
    BY <2>1 DEF Writes
  <2> SUFFICES ASSUME ~IsPiecemeal(v, spec)
               PROVE  ~(IsDigit(full[Len(text)], base) /\ IsDigit(full[Len(text) + 1], base))
    OBVIOUS
  <2>7. Framed(ws, base)
    BY <2>2, <2>4, <2>6, FmtFramed
  <2> HIDE DEF format, first, v, spec, base, ws, text
  <2>8. full = first \o g[Len(ws)]
    <3> DEFINE f == <<first>>
    <3>1. f \in Seq(Seq(Char)) /\ FlattenSeq(f) = first
      BY <2>4, OneElement, FlattenOne
    <3> HIDE DEF f
    <3>2. FlattenSeq(f \o ws) = FlattenSeq(f) \o FlattenSeq(ws)
      BY <2>4, <3>1, FlattenConcat
    <3>3. FlattenSeq(ws) = g[Len(ws)]
      BY <2>4, <2>5, FlattenIsJoined DEF ShowsPieces
    <3> QED
      BY <2>4, <3>1, <3>2, <3>3 DEF f
  <2> DEFINE n == Len(ws)
             s == g[j]
             t == g[n]
  <2>9. n \in Nat /\ n \in 0..n /\ j \in 0..n
    BY <2>4, <2>5, LenProperties DEF ShowsPieces
  <2>10. s \in Seq(Char) /\ t \in Seq(Char)
    BY <2>5, <2>9 DEF ShowsPieces, Joined
  <2>11. text = first \o s /\ full = first \o t
    BY <2>5, <2>8 DEF ShowsPieces
  <2>12. ~(IsDigit(t[Len(s)], base) /\ IsDigit(t[Len(s) + 1], base))
         \/ ~(0 < Len(s) /\ Len(s) < Len(t))
    BY <2>4, <2>5, <2>7, SplitsPlainly DEF ShowsPieces
  <2> HIDE DEF s, t, n, full
  <2>13. /\ Len(text) = Len(first) + Len(s) /\ Len(full) = Len(first) + Len(t)
         /\ Len(first) \in Nat /\ Len(s) \in Nat /\ Len(t) \in Nat
    BY <2>4, <2>10, <2>11, ConcatProperties, LenProperties
  <2>14. 0 < Len(s) /\ Len(s) < Len(t)
    BY <2>1, <2>13
  <2>15. full[Len(first) + Len(s)] = t[Len(s)] /\ full[Len(first) + Len(s) + 1] = t[Len(s) + 1]
    <3>1. \A i \in 1 .. Len(first) + Len(t) :
            full[i] = IF i <= Len(first) THEN first[i] ELSE t[i - Len(first)]
      BY <2>4, <2>10, <2>11, ConcatProperties
    <3> DEFINE a == Len(first) + Len(s)
    <3>2. /\ a \in 1 .. Len(first) + Len(t) /\ ~(a <= Len(first)) /\ a - Len(first) = Len(s)
          /\ a + 1 \in 1 .. Len(first) + Len(t) /\ ~(a + 1 <= Len(first))
          /\ (a + 1) - Len(first) = Len(s) + 1
      BY <2>13, <2>14
    <3> HIDE DEF a
    <3>3. full[a] = t[Len(s)] /\ full[a + 1] = t[Len(s) + 1]
      BY <3>1, <3>2
    <3> QED
      BY <3>3 DEF a
  <2> QED
    BY <2>12, <2>13, <2>14, <2>15
<1>2. ASSUME TypeInv
      PROVE  NumbersAreWhole
  BY <1>1, <1>2 DEF NumbersAreWhole, FullText, FormatOf
<1> QED
  BY <1>2, TypeHolds, PTL

-----------------------------------------------------------------------------
(* Numbers read back.                                                      *)

\* What a text that showed the number a shows with one more character.
WithChar(a, c, base) == IF IsDigit(c, base) THEN base * a + DigitValue(c) ELSE a

\* Reading the characters of t leads from the number a to b.
Leads(f, t, base, a, b) ==
  /\ f \in [0..Len(t) -> Nat]
  /\ f[0] = a
  /\ f[Len(t)] = b
  /\ \A i \in 1..Len(t) : f[i] = WithChar(f[i - 1], t[i], base)

Moves(t, base, a, b) == \E f : Leads(f, t, base, a, b)

(* What reading the whole text leads to is the number that it shows.       *)
LEMMA ReadMoves ==
  ASSUME NEW text \in Seq(Char), NEW base, NEW b, Moves(text, base, 0, b)
  PROVE  ReadNumber(text, base) = b
<1> DEFINE n == Len(text)
           Rec(f) == [i \in 0..n |-> IF i = 0 THEN 0 ELSE WithChar(f[i - 1], text[i], base)]
           f0 == CHOOSE f : f = Rec(f)
<1>1. n \in Nat
  BY LenProperties
<1>2. PICK g : Leads(g, text, base, 0, b)
  BY DEF Moves
<1>3. /\ g \in [0..n -> Nat] /\ g[0] = 0 /\ g[n] = b
      /\ \A i \in 1..n : g[i] = WithChar(g[i - 1], text[i], base)
  BY <1>2 DEF Leads
<1>4. ReadNumber(text, base) = f0[n]
  BY DEF ReadNumber, WithChar
<1> HIDE DEF n
<1>5. g = Rec(g)
  BY <1>1, <1>3
<1>6. f0 = Rec(f0)
  BY <1>5
<1> HIDE DEF f0
<1>7. \A i \in 0..n : f0[i] = IF i = 0 THEN 0 ELSE WithChar(f0[i - 1], text[i], base)
  BY <1>6
<1>8. Follows(f0, g, n)
  BY <1>1, <1>3, <1>7 DEF Follows
<1>9. f0[n] = g[n]
  <2>1. n \in 0..n
    BY <1>1
  <2> QED
    BY <1>1, <1>8, <2>1, SameSteps
<1> QED
  BY <1>3, <1>4, <1>9

(* A character that is no digit changes nothing.                           *)
LEMMA MovesPlain ==
  ASSUME NEW t, NEW base, NEW a \in Nat,
         t = <<>> \/ \E c : t = <<c>> /\ ~IsDigit(c, base)
  PROVE  Moves(t, base, a, a)
<1> DEFINE f == [i \in 0..Len(t) |-> a]
<1>1. CASE t = <<>>
  <2>1. Len(t) = 0
    BY <1>1
  <2>2. Leads(f, t, base, a, a)
    BY <2>1 DEF Leads
  <2> QED
    BY <2>2 DEF Moves
<1>2. CASE \E c : t = <<c>> /\ ~IsDigit(c, base)
  <2>1. PICK c : t = <<c>> /\ ~IsDigit(c, base)
    BY <1>2
  <2>2. Len(t) = 1 /\ t[1] = c
    BY <2>1
  <2>3. WithChar(a, t[1], base) = a
    BY <2>1, <2>2 DEF WithChar
  <2>4. f \in [0..1 -> Nat] /\ f[0] = a /\ f[1] = a
    BY <2>2
  <2>5. \A i \in 1..1 : f[i] = WithChar(f[i - 1], t[i], base)
    <3> HIDE DEF f
    <3>1. \A i \in 1..1 : i = 1 /\ i - 1 = 0
      OBVIOUS
    <3> QED
      BY <2>3, <2>4, <3>1
  <2> HIDE DEF f
  <2>6. Leads(f, t, base, a, a)
    BY <2>2, <2>4, <2>5 DEF Leads
  <2> QED
    BY <2>6 DEF Moves
<1> QED
  BY <1>1, <1>2

(* Reading a text and the next one.                                        *)
LEMMA MovesConcat ==
  ASSUME NEW s \in Seq(Char), NEW t \in Seq(Char), NEW base,
         NEW a, NEW b, NEW c, Moves(s, base, a, b), Moves(t, base, b, c)
  PROVE  Moves(s \o t, base, a, c)
<1>1. PICK f : Leads(f, s, base, a, b)
  BY DEF Moves
<1>2. PICK g : Leads(g, t, base, b, c)
  BY DEF Moves
<1> DEFINE m == Len(s)
           n == Len(t)
           u == s \o t
           h == [i \in 0 .. m + n |-> IF i <= m THEN f[i] ELSE g[i - m]]
<1>3. m \in Nat /\ n \in Nat /\ Len(u) = m + n
  BY ConcatProperties, LenProperties
<1>4. \A i \in 1 .. m + n : u[i] = IF i <= m THEN s[i] ELSE t[i - m]
  BY ConcatProperties
<1>5. /\ f \in [0..m -> Nat] /\ f[0] = a /\ f[m] = b
      /\ \A i \in 1..m : f[i] = WithChar(f[i - 1], s[i], base)
  BY <1>1 DEF Leads
<1>6. /\ g \in [0..n -> Nat] /\ g[0] = b /\ g[n] = c
      /\ \A i \in 1..n : g[i] = WithChar(g[i - 1], t[i], base)
  BY <1>2 DEF Leads
<1> HIDE DEF m, n, u
<1>7. \A i \in 0..n : h[m + i] = g[i]
  <2> SUFFICES ASSUME NEW i \in 0..n
               PROVE  h[m + i] = g[i]
    OBVIOUS
  <2>1. m + i \in 0 .. m + n /\ (m + i) - m = i
    BY <1>3
  <2>2. CASE i = 0
    <3>1. m + i = m /\ m <= m
      BY <1>3, <2>2
    <3> QED
      BY <1>5, <1>6, <2>1, <2>2, <3>1
  <2>3. CASE i # 0
    <3>1. ~(m + i <= m)
      BY <1>3, <2>3
    <3> QED
      BY <2>1, <3>1
  <2> QED
    BY <2>2, <2>3
<1>8. \A i \in 0..m : h[i] = f[i]
  BY <1>3
<1>9. h \in [0 .. m + n -> Nat]
  <2>1. ASSUME NEW i \in 0 .. m + n
        PROVE  (IF i <= m THEN f[i] ELSE g[i - m]) \in Nat
    <3>1. CASE i <= m
      <4>1. i \in 0..m
        BY <1>3, <3>1
      <4> QED
        BY <1>5, <3>1, <4>1
    <3>2. CASE ~(i <= m)
      <4>1. i - m \in 0..n
        BY <1>3, <3>2
      <4> QED
        BY <1>6, <3>2, <4>1
    <3> QED
      BY <3>1, <3>2
  <2> QED
    BY <2>1
<1> HIDE DEF h
<1>10. h[0] = a /\ h[m + n] = c
  <2>1. 0 \in 0..m /\ n \in 0..n
    BY <1>3
  <2> QED
    BY <1>5, <1>6, <1>7, <1>8, <2>1
<1>11. ASSUME NEW i \in 1 .. m + n
       PROVE  h[i] = WithChar(h[i - 1], u[i], base)
  <2>1. CASE i <= m
    <3>1. i \in 1..m /\ i \in 0..m /\ i - 1 \in 0..m
      BY <1>3, <2>1
    <3>2. h[i] = f[i] /\ h[i - 1] = f[i - 1] /\ u[i] = s[i]
      BY <1>4, <1>8, <2>1, <3>1
    <3> QED
      BY <1>5, <3>1, <3>2
  <2>2. CASE ~(i <= m)
    <3> DEFINE j == i - m
    <3>1. j \in 1..n /\ j \in 0..n /\ j - 1 \in 0..n /\ m + j = i /\ m + (j - 1) = i - 1
      BY <1>3, <2>2
    <3>2. u[i] = t[j]
      BY <1>4, <2>2
    <3> HIDE DEF j
    <3>3. h[i] = g[j] /\ h[i - 1] = g[j - 1]
      BY <1>7, <3>1
    <3> QED
      BY <1>6, <3>1, <3>2, <3>3
  <2> QED
    BY <2>1, <2>2
<1>12. Leads(h, u, base, a, c)
  BY <1>3, <1>9, <1>10, <1>11 DEF Leads
<1> QED
  BY <1>12 DEF Moves, u

-----------------------------------------------------------------------------
(* Digits.                                                                 *)

\* The place of a digit in the tables.
PlaceOf(c) ==
  CASE c \in {"0"} -> 1
    [] c \in {"1"} -> 2
    [] c \in {"2"} -> 3
    [] c \in {"3"} -> 4
    [] c \in {"4"} -> 5
    [] c \in {"5"} -> 6
    [] c \in {"6"} -> 7
    [] c \in {"7"} -> 8
    [] c \in {"8"} -> 9
    [] c \in {"9"} -> 10
    [] c \in {"a", "A"} -> 11
    [] c \in {"b", "B"} -> 12
    [] c \in {"c", "C"} -> 13
    [] c \in {"d", "D"} -> 14
    [] c \in {"e", "E"} -> 15
    [] c \in {"f", "F"} -> 16

(* Every digit has one place.                                              *)
LEMMA DigitPlace ==
  ASSUME NEW i \in 1..16
  PROVE  PlaceOf(Digit[i]) = i /\ PlaceOf(UpperDigit[i]) = i
<1>1. \/ i = 1 \/ i = 2 \/ i = 3 \/ i = 4 \/ i = 5 \/ i = 6 \/ i = 7 \/ i = 8
      \/ i = 9 \/ i = 10 \/ i = 11 \/ i = 12 \/ i = 13 \/ i = 14 \/ i = 15 \/ i = 16
  OBVIOUS
<1>2. CASE i \in {1, 2, 3, 4, 5, 6, 7, 8}
  BY <1>2 DEF PlaceOf, Digit, UpperDigit
<1>3. CASE i \in {9, 10, 11, 12, 13, 14, 15, 16}
  BY <1>3 DEF PlaceOf, Digit, UpperDigit
<1> QED
  BY <1>1, <1>2, <1>3

(* A digit stands for its place in the tables, less one.                   *)
LEMMA DigitValueIs ==
  ASSUME NEW base \in 2..16, NEW d \in 0 .. base - 1
  PROVE  /\ IsDigit(Digit[d + 1], base) /\ DigitValue(Digit[d + 1]) = d
         /\ IsDigit(UpperDigit[d + 1], base) /\ DigitValue(UpperDigit[d + 1]) = d
<1> DEFINE k == d + 1
<1>1. k \in 1..base /\ k \in 1..16 /\ k - 1 = d
  OBVIOUS
<1> HIDE DEF k
<1>2. IsDigit(Digit[k], base) /\ IsDigit(UpperDigit[k], base)
  BY <1>1 DEF IsDigit
<1>3. ASSUME NEW c \in {Digit[k], UpperDigit[k]}
      PROVE  DigitValue(c) = d
  <2> DEFINE Q(i) == c \in {Digit[i], UpperDigit[i]}
             e == CHOOSE i \in 1..16 : Q(i)
  <2>1. Q(k)
    OBVIOUS
  <2>2. PlaceOf(c) = k
    BY <1>1, DigitPlace
  <2>3. ASSUME NEW i \in 1..16, Q(i)
        PROVE  i = k
    <3>1. PlaceOf(c) = i
      BY <2>3, DigitPlace
    <3> QED
      BY <2>2, <3>1
  <2> HIDE DEF Q
  <2>4. e \in 1..16 /\ Q(e)
    BY <1>1, <2>1, Zenon
  <2>5. e = k
    BY <2>3, <2>4
  <2>6. DigitValue(c) = e - 1
    BY DEF DigitValue, e, Q
  <2> HIDE DEF e
  <2> QED
    BY <1>1, <2>5, <2>6
<1> QED
  BY <1>2, <1>3 DEF k

(* Dividing by a multiple of b is dividing by b at the end.                *)
LEMMA DivideTwice ==
  ASSUME NEW n \in Nat, NEW p \in Nat \ {0}, NEW b \in Nat \ {0}
  PROVE  n \div p = b * (n \div (b * p)) + ((n \div p) % b)
<1> DEFINE x == n \div p
           r == n % p
           y == x \div b
           d == x % b
<1>1. x \in Nat /\ r \in 0 .. p - 1 /\ n = p * x + r
  BY DivisionIsNat
<1> HIDE DEF x, r
<1>2. y \in Nat /\ d \in 0 .. b - 1 /\ x = b * y + d
  BY <1>1, DivisionIsNat
<1> HIDE DEF y, d
<1> DEFINE q == b * p
           s == p * d + r
<1>3. q \in Nat \ {0} /\ p * (b * y) = q * y
  BY <1>2
<1>4. n = q * y + s
  <2>1. p * (b * y + d) = p * (b * y) + p * d
    BY <1>2
  <2> QED
    BY <1>1, <1>2, <1>3, <2>1
<1>5. s \in Nat /\ s < q
  <2>1. p * d <= p * (b - 1)
    BY <1>2
  <2>2. p * (b - 1) = q - p
    OBVIOUS
  <2> QED
    BY <1>1, <1>2, <2>1, <2>2
<1> HIDE DEF q, s
<1>6. n \div q = y
  BY <1>2, <1>3, <1>4, <1>5
<1> QED
  BY <1>2, <1>6 DEF q, x, y, d

\* The last digits of n, count of them.
LastDigits(n, count, base, table) ==
  [i \in 1..count |-> table[((n \div Power(base, count - i)) % base) + 1]]

(* Reading the digits of a number appends them to what was read before.    *)
LEMMA MovesDigits ==
  ASSUME NEW base \in 2..16, NEW count \in Nat, NEW n \in Nat, n < Power(base, count),
         NEW a \in Nat, NEW table \in {Digit, UpperDigit}
  PROVE  Moves(LastDigits(n, count, base, table), base, a, a * Power(base, count) + n)
<1> DEFINE P(i) == Power(base, i)
           Q(i) == n \div P(count - i)
           t == LastDigits(n, count, base, table)
           f == [i \in 0..count |-> a * P(i) + Q(i)]
<1>1. base \in Nat \ {0} /\ base \in Nat
  OBVIOUS
<1>2. \A i \in Nat : P(i) \in Nat \ {0} /\ P(i + 1) = base * P(i)
  <2> SUFFICES ASSUME NEW i \in Nat
               PROVE  P(i) \in Nat \ {0} /\ P(i + 1) = base * P(i)
    OBVIOUS
  <2> QED
    BY <1>1, PowerFacts, PowerIsPositive
<1>3. P(0) = 1 /\ n < P(count)
  BY <1>1, PowerFacts
<1>4. Len(t) = count /\ \A i \in 1..count : t[i] = table[(Q(i) % base) + 1]
  <2>1. t \in [1..count -> {table[(Q(i) % base) + 1] : i \in 1..count}]
    BY DEF LastDigits
  <2>2. Len(t) = count
    BY <2>1
  <2> QED
    BY <2>2 DEF LastDigits
<1> HIDE DEF P, t
<1>5. \A i \in 0..count : Q(i) \in Nat
  <2> SUFFICES ASSUME NEW i \in 0..count
               PROVE  Q(i) \in Nat
    OBVIOUS
  <2>1. count - i \in Nat
    OBVIOUS
  <2>2. P(count - i) \in Nat \ {0}
    BY <1>2, <2>1
  <2> QED
    BY <2>2, DivisionIsNat
<1>6. Q(0) = 0 /\ Q(count) = n
  <2>1. count - 0 = count /\ count - count = 0
    OBVIOUS
  <2>2. P(count) \in Nat \ {0}
    BY <1>2
  <2>3. n \div P(count) = 0
    BY <1>3, <2>2
  <2>4. n \div 1 = n
    OBVIOUS
  <2> QED
    BY <1>3, <2>1, <2>3, <2>4
<1>7. ASSUME NEW i \in 0 .. count - 1
      PROVE  Q(i + 1) = base * Q(i) + (Q(i + 1) % base)
  <2> DEFINE j == count - (i + 1)
             p == P(j)
  <2>1. j \in Nat /\ count - i = j + 1
    OBVIOUS
  <2> HIDE DEF j
  <2>2. p \in Nat \ {0} /\ P(count - i) = base * p
    BY <1>2, <2>1
  <2> HIDE DEF p
  <2>3. n \div p = base * (n \div (base * p)) + ((n \div p) % base)
    BY <1>1, <2>2, DivideTwice
  <2> QED
    BY <2>2, <2>3 DEF p, j
<1> HIDE DEF Q
<1>8. f \in [0..count -> Nat] /\ \A i \in 0..count : f[i] = a * P(i) + Q(i)
  <2>1. ASSUME NEW i \in 0..count
        PROVE  a * P(i) + Q(i) \in Nat
    <3>1. P(i) \in Nat /\ Q(i) \in Nat
      BY <1>2, <1>5
    <3> QED
      BY <3>1
  <2> QED
    BY <2>1
<1> HIDE DEF f
<1>9. f[0] = a /\ f[count] = a * P(count) + n
  <2>1. 0 \in 0..count /\ count \in 0..count /\ a * 1 + 0 = a
    OBVIOUS
  <2> QED
    BY <1>3, <1>6, <1>8, <2>1
<1>10. ASSUME NEW i \in 1..count
       PROVE  f[i] = WithChar(f[i - 1], t[i], base)
  <2> DEFINE k == i - 1
             d == Q(i) % base
  <2>1. k \in 0 .. count - 1 /\ k + 1 = i /\ k \in 0..count /\ i \in 0..count /\ k \in Nat
    OBVIOUS
  <2>2. d \in 0 .. base - 1
    BY <1>1, <1>5, <2>1, DivisionIsNat
  <2>3. t[i] = table[d + 1]
    BY <1>4
  <2> HIDE DEF d
  <2>4. IsDigit(t[i], base) /\ DigitValue(t[i]) = d
    <3>1. table = Digit \/ table = UpperDigit
      OBVIOUS
    <3> QED
      BY <2>2, <2>3, <3>1, DigitValueIs
  <2>5. WithChar(f[k], t[i], base) = base * f[k] + d
    BY <2>4 DEF WithChar
  <2> HIDE DEF k
  <2>6. f[k] = a * P(k) + Q(k) /\ f[i] = a * P(i) + Q(i) /\ P(i) = base * P(k)
    BY <1>2, <1>8, <2>1
  <2>7. Q(i) = base * Q(k) + d
    BY <1>7, <2>1 DEF d
  <2>8. P(k) \in Nat /\ Q(k) \in Nat
    BY <1>2, <1>5, <2>1
  <2>9. f[i] = base * f[k] + d
    <3> DEFINE x == P(k)
               y == Q(k)
    <3>1. x \in Nat /\ y \in Nat
      BY <2>8
    <3> HIDE DEF x, y
    <3>2. base * (a * x + y) = a * (base * x) + base * y
      BY <3>1
    <3>3. a * (base * x) \in Nat /\ base * y \in Nat /\ d \in Nat
      BY <2>2, <3>1
    <3> QED
      BY <2>6, <2>7, <3>2, <3>3 DEF x, y
  <2> QED
    BY <2>5, <2>9 DEF k
<1>11. Leads(f, t, base, a, a * P(count) + n)
  BY <1>4, <1>8, <1>9, <1>10 DEF Leads
<1> QED
  BY <1>11 DEF Moves, t, P

(* What write_digits writes is the last digits of a number, and all of     *)
(* them.                                                                   *)
LEMMA MovesWriteDigits ==
  ASSUME NEW base \in 2..16, NEW n \in Nat, n < Values(8), NEW table \in {Digit, UpperDigit}
  PROVE  Moves(WriteDigits(n, base, table), base, 0, n)
<1> DEFINE count == DigitCount(n, base)
<1>1. base \in Nat /\ base >= 2
  OBVIOUS
<1>2. count \in 1 .. 8 * ByteBits /\ n < Power(base, count)
  BY <1>1, DigitCountFacts
<1>3. count \in Nat
  BY <1>2, FormatAssumption
<1>4. WriteDigits(n, base, table) = LastDigits(n, count, base, table)
  BY DEF WriteDigits, LastDigits
<1> HIDE DEF count
<1>5. Moves(LastDigits(n, count, base, table), base, 0, 0 * Power(base, count) + n)
  BY <1>2, <1>3, MovesDigits
<1>6. 0 * Power(base, count) + n = n
  <2>1. Power(base, count) \in Nat
    BY <1>1, <1>3, PowerFacts
  <2> QED
    BY <2>1
<1> QED
  BY <1>4, <1>5, <1>6

(* The last digits of a number are what LowDigits writes: zeros are its    *)
(* leading digits.                                                         *)
LEMMA LowDigitsAre ==
  ASSUME NEW n \in Nat, n < Values(8), NEW count \in Nat
  PROVE  LowDigits(n, count) = LastDigits(n, count, 10, Digit)
<1> DEFINE c == DigitCount(n, 10)
<1>1. c \in Nat /\ n < Power(10, c)
  <2>1. 10 \in Nat /\ 10 >= 2
    OBVIOUS
  <2>2. c \in 1 .. 8 * ByteBits /\ n < Power(10, c)
    BY <2>1, DigitCountFacts
  <2> QED
    BY <2>2, FormatAssumption
<1>2. LowDigits(n, count) = [i \in 1..count |->
                               IF count - i >= c THEN "0"
                               ELSE Digit[((n \div Power(10, count - i)) % 10) + 1]]
  BY DEF LowDigits
<1> HIDE DEF c
<1>3. ASSUME NEW i \in 1..count, count - i >= c
      PROVE  Digit[((n \div Power(10, count - i)) % 10) + 1] = "0"
  <2> DEFINE p == Power(10, count - i)
  <2>1. p \in Nat \ {0} /\ n < p
    <3>1. 10 \in Nat \ {0} /\ count - i \in Nat /\ c <= count - i
      BY <1>1, <1>3
    <3>2. p \in Nat \ {0}
      BY <3>1, PowerIsPositive
    <3>3. Power(10, c) <= p
      BY <1>1, <3>1, PowerIsMonotone
    <3>4. Power(10, c) \in Nat
      BY <1>1, <3>1, PowerIsPositive
    <3> HIDE DEF p
    <3> QED
      BY <1>1, <3>2, <3>3, <3>4
  <2> HIDE DEF p
  <2>2. n \div p = 0
    BY <2>1
  <2>3. ((n \div p) % 10) + 1 = 1
    BY <2>2
  <2>4. Digit[1] = "0"
    BY DEF Digit
  <2> QED
    BY <2>3, <2>4 DEF p
<1> QED
  BY <1>2, <1>3 DEF LastDigits

-----------------------------------------------------------------------------
(* A spec without width, plus and prefix.                                  *)

IsPlain(spec) == spec.width = 0 /\ ~spec.alternate /\ ~spec.sign

(* Nothing is padded without a width.                                      *)
LEMMA NothingToPad ==
  ASSUME NEW spec, IsPlain(spec), NEW n \in Nat
  PROVE  Pad(spec, n) = 0
BY DEF IsPlain, Pad

(* Nothing is filled up to no width.                                       *)
LEMMA NothingToFill ==
  ASSUME NEW c
  PROVE  Fill(c, 0) = <<>>
<1>1. Fill(c, 0) = [i \in 1..0 |-> c]
  BY DEF Fill
<1>2. 1..0 = {}
  OBVIOUS
<1> QED
  BY <1>1, <1>2

(* What is not padded is written as it is.                                 *)
LEMMA AlignedPlain ==
  ASSUME NEW ws \in Seq(Seq(Char)), NEW align \in {"", "<", ">"}
  PROVE  Aligned(ws, 0, align) = ws
<1>1. Fill(<<" ">>, 0) = <<>>
  BY NothingToFill
<1>2. <<>> \o ws = ws /\ ws \o <<>> = ws
  BY ConcatEmptySeq, Zenon
<1> QED
  BY <1>1, <1>2, Zenon DEF Aligned

(* A plain sign is a minus or nothing.                                     *)
LEMMA PlainSign ==
  ASSUME NEW spec, IsPlain(spec), NEW negative \in BOOLEAN, NEW base \in 1..16
  PROVE  /\ SignOf(negative, spec) \in Seq(Char)
         /\ Moves(SignOf(negative, spec), base, 0, 0)
<1> DEFINE sign == SignOf(negative, spec)
<1>1. sign = <<>> \/ sign = <<"-">>
  BY DEF SignOf, IsPlain
<1>2. ~IsDigit("-", base)
  BY PlainChars, Zenon
<1>3. "-" \in Char
  BY Zenon DEF Char
<1>4. <<"-">> \in Seq(Char) /\ <<>> \in Seq(Char)
  BY <1>3, OneElement, EmptySeq
<1> HIDE DEF sign
<1>5. Moves(sign, base, 0, 0)
  <2>1. sign = <<>> \/ \E c : sign = <<c>> /\ ~IsDigit(c, base)
    BY <1>1, <1>2
  <2>2. 0 \in Nat
    OBVIOUS
  <2> QED
    BY <2>1, <2>2, MovesPlain
<1> QED
  BY <1>1, <1>4, <1>5 DEF sign

(* Joining a sign, no prefix and digits.                                   *)
LEMMA FlattenThree ==
  ASSUME NEW s \in Seq(Char), NEW t \in Seq(Char), NEW ws \in Seq(Seq(Char)),
         Len(ws) = 3, ws[1] = s, ws[2] = <<>>, ws[3] = t
  PROVE  FlattenSeq(ws) = s \o t
<1>1. PICK g : Joined(Char, ws, g)
  BY JoinedExists
<1>2. FlattenSeq(ws) = g[3]
  BY <1>1, FlattenIsJoined
<1>3. g[0] = <<>> /\ \A i \in 1..3 : g[i] = g[i - 1] \o ws[i]
  BY <1>1 DEF Joined
<1>4. g[1] = <<>> \o s /\ g[2] = g[1] \o <<>> /\ g[3] = g[2] \o t
  <2>1. /\ 1 \in 1..3 /\ 2 \in 1..3 /\ 3 \in 1..3
        /\ 1 - 1 = 0 /\ 2 - 1 = 1 /\ 3 - 1 = 2
    OBVIOUS
  <2> QED
    BY <1>3, <2>1
<1>5. <<>> \o s = s /\ s \o <<>> = s
  BY ConcatEmptySeq
<1> QED
  BY <1>2, <1>4, <1>5

(* What an unsigned integer is shown as reads back.                        *)
LEMMA UintReadsBack ==
  ASSUME NEW n \in Nat, n < Values(8), NEW spec, IsSpec(spec), IsPlain(spec),
         NEW negative \in BOOLEAN
  PROVE  ReadNumber(FlattenSeq(FmtUint(n, spec, negative)), Base(spec.ty)) = n
<1> DEFINE sign == SignOf(negative, spec)
           prefix == Prefix(spec)
           table == IF spec.ty = "X" THEN UpperDigit ELSE Digit
           base == Base(spec.ty)
           digits == WriteDigits(n, base, table)
           pad == Pad(spec, Len(sign) + Len(prefix) + Len(digits))
           ws == <<sign, prefix, digits>>
<1>1. base \in {2, 8, 10, 16} /\ table \in {Digit, UpperDigit}
  BY DEF Base
<1>2. base \in 1..16 /\ base \in 2..16
  <2> HIDE DEF base
  <2> QED
    BY <1>1
<1>3. prefix = <<>>
  BY DEF Prefix, IsPlain
<1>4. sign \in Seq(Char) /\ Moves(sign, base, 0, 0)
  BY <1>2, PlainSign
<1>5. digits \in Seq(Char) /\ Moves(digits, base, 0, n)
  <2>1. \A i \in 1..16 : table[i] \in DigitChars
    BY DigitType
  <2> HIDE DEF table, base
  <2> QED
    BY <1>1, <1>2, <2>1, WriteDigitsType, MovesWriteDigits
<1>6. FmtUint(n, spec, negative) =
        IF FillsZeros(spec)
        THEN <<sign, prefix>> \o Fill(<<"0">>, pad) \o <<digits>>
        ELSE Aligned(ws, pad, spec.align)
  BY Zenon DEF FmtUint, FillsZeros
<1> HIDE DEF sign, prefix, digits, table, base
<1>7. pad = 0
  <2>1. Len(sign) + Len(prefix) + Len(digits) \in Nat
    BY <1>3, <1>4, <1>5, LenProperties
  <2> QED
    BY <2>1, NothingToPad
<1> HIDE DEF pad
<1>8. ws \in Seq(Seq(Char)) /\ Len(ws) = 3 /\ ws[1] = sign /\ ws[2] = <<>> /\ ws[3] = digits
  <2>1. ws \in Seq(Seq(Char))
    <3> DEFINE T == Seq(Char)
    <3>1. sign \in T /\ prefix \in T /\ digits \in T
      BY <1>3, <1>4, <1>5, EmptySeq
    <3> HIDE DEF T
    <3>2. ws \in Seq(T)
      BY <3>1
    <3> QED
      BY <3>2 DEF T
  <2> QED
    BY <1>3, <2>1
<1>9. Aligned(ws, 0, spec.align) = ws
  BY <1>8, AlignedPlain, Zenon DEF IsSpec
<1> HIDE DEF ws
<1> DEFINE u == <<sign, prefix>> \o Fill(<<"0">>, 0) \o <<digits>>
<1>10. u \in Seq(Seq(Char)) /\ Len(u) = 3 /\ u[1] = sign /\ u[2] = <<>> /\ u[3] = digits
  <2> DEFINE T == Seq(Char)
             s == <<sign, prefix>>
             d == <<digits>>
  <2>1. sign \in T /\ prefix \in T /\ digits \in T
    BY <1>3, <1>4, <1>5, EmptySeq
  <2> HIDE DEF T
  <2>2. s \in Seq(T) /\ Len(s) = 2 /\ s[1] = sign /\ s[2] = prefix
    BY <2>1, TwoElements
  <2>3. d \in Seq(T) /\ Len(d) = 1 /\ d[1] = digits
    BY <2>1, OneElement
  <2> HIDE DEF s, d
  <2>4. u = s \o d
    <3>1. s \o <<>> = s
      BY <2>2, ConcatEmptySeq
    <3> QED
      BY <3>1, NothingToFill DEF s, d
  <2> DEFINE w == s \o d
  <2>5. /\ w \in Seq(T) /\ Len(w) = Len(s) + Len(d)
        /\ \A i \in 1 .. Len(s) + Len(d) :
             w[i] = IF i <= Len(s) THEN s[i] ELSE d[i - Len(s)]
    BY <2>2, <2>3, ConcatProperties
  <2> HIDE DEF w
  <2>6. \A i \in 1..3 : w[i] = IF i <= 2 THEN s[i] ELSE d[i - 2]
    BY <2>2, <2>3, <2>5
  <2>7. w[1] = s[1] /\ w[2] = s[2]
    BY <2>6
  <2>8. w[3] = d[1]
    <3>1. w[3] = d[3 - 2]
      BY <2>6
    <3> QED
      BY <3>1
  <2>9. Len(w) = 3
    BY <2>2, <2>3, <2>5
  <2>10. w[1] = sign /\ w[2] = <<>> /\ w[3] = digits
    BY <1>3, <2>2, <2>3, <2>7, <2>8
  <2> HIDE DEF u
  <2>11. u = w
    BY <2>4 DEF w
  <2> QED
    BY <2>5, <2>9, <2>10, <2>11 DEF T
<1> HIDE DEF u
<1>11. FmtUint(n, spec, negative) = ws \/ FmtUint(n, spec, negative) = u
  BY <1>6, <1>7, <1>9 DEF u
<1>12. FlattenSeq(ws) = sign \o digits /\ FlattenSeq(u) = sign \o digits
  BY <1>4, <1>5, <1>8, <1>10, FlattenThree
<1>13. Moves(sign \o digits, base, 0, n) /\ sign \o digits \in Seq(Char)
  BY <1>4, <1>5, MovesConcat, ConcatProperties
<1>14. ReadNumber(sign \o digits, base) = n
  BY <1>13, ReadMoves
<1> QED
  BY <1>11, <1>12, <1>14 DEF base

-----------------------------------------------------------------------------
(* Floats.                                                                 *)

(* Multiples of the divisor come out of a division.                        *)
LEMMA DivideSum ==
  ASSUME NEW n \in Nat, NEW k \in Nat, NEW b \in Nat \ {0}
  PROVE  (b * k + n) \div b = k + (n \div b)
<1> DEFINE q == n \div b
           r == n % b
<1>1. q \in Nat /\ r \in 0 .. b - 1 /\ n = b * q + r
  BY DivisionIsNat
<1> HIDE DEF q, r
<1>2. b * k + n = b * (k + q) + r
  BY <1>1
<1>3. (b * (k + q) + r) \div b = k + q
  <2> DEFINE s == k + q
  <2>1. s \in Nat
    BY <1>1
  <2> HIDE DEF s
  <2>2. (b * s + r) \div b = s
    BY <1>1, <2>1
  <2> QED
    BY <2>2 DEF s
<1> QED
  BY <1>2, <1>3 DEF q

(* The whole part and the rounded fraction of a number r more than q       *)
(* units, with P to a unit: the fraction is at most P.                     *)
LEMMA Rounded ==
  ASSUME NEW q \in Nat, NEW U \in Nat \ {0}, NEW r \in 0 .. U - 1, NEW P \in Nat \ {0},
         NEW f, f = (2 * r * P + U) \div (2 * U)
  PROVE  /\ f \in Nat /\ f <= P
         /\ (2 * (U * q + r) * P + U) \div (2 * U) = q * P + f
<1> DEFINE b == 2 * U
           n == 2 * r * P + U
           k == q * P
<1>1. b \in Nat \ {0} /\ k \in Nat /\ r \in Nat /\ r + 1 <= U
  OBVIOUS
<1>2. r * P \in Nat /\ n = 2 * (r * P) + U
  BY <1>1
<1>3. n \in Nat
  BY <1>2
<1>4. 2 * (U * q + r) * P + U = b * k + n
  <2>1. (U * q + r) * P = U * (q * P) + r * P
    BY <1>1
  <2>2. 2 * (U * q + r) * P = 2 * ((U * q + r) * P)
    BY <1>1
  <2>3. b * k = 2 * (U * (q * P))
    OBVIOUS
  <2>4. U * (q * P) \in Nat
    OBVIOUS
  <2> QED
    BY <1>2, <2>1, <2>2, <2>3, <2>4
<1>5. f = n \div b /\ (b * k + n) \div b = k + f
  <2>1. f = n \div b
    OBVIOUS
  <2> HIDE DEF b, n, k
  <2>2. (b * k + n) \div b = k + (n \div b)
    BY <1>1, <1>3, DivideSum
  <2> QED
    BY <2>1, <2>2
<1>6. n < b * (P + 1)
  <2>1. (r + 1) * P <= U * P
    <3>1. r + 1 \in Nat /\ U \in Nat /\ P \in Nat /\ P <= P
      BY <1>1
    <3> QED
      BY <1>1, <3>1, ProductIsMonotone
  <2>2. (r + 1) * P = r * P + P
    BY <1>1
  <2>3. b * (P + 1) = 2 * (U * P) + 2 * U
    OBVIOUS
  <2>4. U * P \in Nat
    OBVIOUS
  <2> QED
    BY <1>2, <2>1, <2>2, <2>3, <2>4
<1>7. f \in Nat /\ f <= P
  <2> HIDE DEF b, n
  <2>1. f \in Nat /\ n % b \in 0 .. b - 1 /\ n = b * f + (n % b)
    BY <1>1, <1>3, <1>5, DivisionIsNat
  <2> DEFINE m == n % b
  <2> HIDE DEF m
  <2>2. f \in Nat /\ m \in 0 .. b - 1 /\ n = b * f + m
    BY <2>1 DEF m
  <2>3. ASSUME f >= P + 1
        PROVE  FALSE
    <3>1. b * (P + 1) <= b * f
      <4>1. b \in Nat /\ P + 1 \in Nat /\ f \in Nat /\ P + 1 <= f /\ b <= b
        BY <1>1, <2>2, <2>3
      <4> QED
        BY <4>1, ProductIsMonotone
    <3>2. b * f \in Nat /\ b * (P + 1) \in Nat
      BY <1>1, <2>2
    <3> QED
      BY <1>3, <1>6, <2>2, <3>1, <3>2
  <2> QED
    BY <2>2, <2>3
<1> QED
  BY <1>4, <1>5, <1>7

(* What a float below 2^64 shows is its units, rounded to the precision.   *)
LEMMA FloatIsRounded ==
  ASSUME NEW v \in FloatValues, v.units < FracUnit * U64Max,
         NEW precision \in Nat, precision < FracBuffer
  PROVE  /\ FracFinal(v, precision) < Power(10, precision)
         /\ IntFinal(v, precision) * Power(10, precision) + FracFinal(v, precision)
              = (2 * v.units * Power(10, precision) + FracUnit) \div (2 * FracUnit)
<1> DEFINE P == Power(10, precision)
           U == FracUnit
           q == v.units \div FracUnit
           r == v.units % FracUnit
           f == (2 * r * P + U) \div (2 * U)
<1>1. Pow10(precision) = P /\ Scale(precision) = P
  BY DEF Pow10, Scale, FracBuffer
<1>2. P \in Nat \ {0}
  <2>1. 10 \in Nat \ {0}
    OBVIOUS
  <2> QED
    BY <2>1, PowerIsPositive
<1>3. U \in Nat \ {0} /\ v.units \in Nat
  BY FormatAssumption DEF FloatValues
<1>4. q \in Nat /\ r \in 0 .. U - 1 /\ v.units = U * q + r
  BY <1>3, DivisionIsNat
<1>5. U64Max \in Nat /\ Values(8) = U64Max + 1
  BY ValuesFacts DEF U64Max
<1>6. q < U64Max
  <2> SUFFICES ASSUME q >= U64Max
               PROVE  FALSE
    BY <1>4, <1>5
  <2> HIDE DEF q, r
  <2>1. U * U64Max <= U * q
    <3>1. U \in Nat /\ U <= U
      BY <1>3
    <3> QED
      BY <1>4, <1>5, <3>1, ProductIsMonotone
  <2>2. U * U64Max \in Nat /\ U * q \in Nat
    BY <1>3, <1>4, <1>5
  <2>3. v.units < U * U64Max
    OBVIOUS
  <2> HIDE DEF U
  <2> QED
    BY <1>3, <1>4, <2>1, <2>2, <2>3
<1>7. IntPart(v) = q /\ FracUnits(v) = r
  <2>1. IntPart(v) < U64Max
    <3>1. ~(q > U64Max)
      BY <1>4, <1>5, <1>6
    <3>2. IntPart(v) = q
      BY <3>1 DEF IntPart, AsU64
    <3> QED
      BY <1>6, <3>2
  <2> QED
    BY <2>1, FloatParts
<1>8. f \in Nat /\ f <= P /\ (2 * (U * q + r) * P + U) \div (2 * U) = q * P + f
  <2> HIDE DEF P, U, q, r
  <2>1. q \in Nat /\ U \in Nat \ {0} /\ r \in 0 .. U - 1 /\ P \in Nat \ {0}
    BY <1>2, <1>3, <1>4
  <2>2. f = (2 * r * P + U) \div (2 * U)
    OBVIOUS
  <2> HIDE DEF f
  <2> QED
    BY <2>1, <2>2, Rounded
<1>9. FracInt(v, precision) = f
  <2>1. FracInt(v, precision) = AsU64(f)
    BY <1>1, <1>7 DEF FracInt
  <2>2. P <= U64Max
    BY <1>1, Pow10Type
  <2> HIDE DEF P, f
  <2>3. ~(f > U64Max)
    BY <1>2, <1>5, <1>8, <2>2
  <2> QED
    BY <2>1, <2>3 DEF AsU64
<1>10. (2 * v.units * P + U) \div (2 * U) = q * P + f
  <2> HIDE DEF P, U, q, r, f
  <2> QED
    BY <1>4, <1>8
<1> HIDE DEF f
<1>11. CASE f >= P
  <2>1. f = P
    BY <1>2, <1>8, <1>11
  <2>2. Carries(v, precision)
    BY <1>1, <1>9, <1>11 DEF Carries
  <2>3. FracFinal(v, precision) = 0
    BY <2>2 DEF FracFinal
  <2>4. IntFinal(v, precision) = q + 1
    <3>1. IntFinal(v, precision) = (q + 1) % Values(8)
      BY <1>7, <2>2 DEF IntFinal
    <3> HIDE DEF q
    <3>2. q + 1 \in 0 .. Values(8) - 1 /\ Values(8) \in Nat \ {0}
      BY <1>4, <1>5, <1>6
    <3>3. (q + 1) % Values(8) = q + 1
      BY <3>2
    <3> QED
      BY <3>1, <3>3
  <2> HIDE DEF P, U, q, r
  <2>5. (q + 1) * P + 0 = q * P + f
    BY <1>2, <1>4, <2>1
  <2>6. 0 < P
    BY <1>2
  <2> QED
    BY <1>10, <2>3, <2>4, <2>5, <2>6 DEF P, U
<1>12. CASE ~(f >= P)
  <2>1. r < U /\ ~(r >= U)
    BY <1>3, <1>4
  <2>2. ~Carries(v, precision)
    BY <1>1, <1>7, <1>9, <1>12, <2>1 DEF Carries
  <2>3. FracFinal(v, precision) = f /\ IntFinal(v, precision) = q
    BY <1>7, <1>9, <2>2 DEF FracFinal, IntFinal
  <2> HIDE DEF P, U, q, r
  <2>4. f < P
    BY <1>2, <1>8, <1>12
  <2> QED
    BY <1>10, <2>3, <2>4 DEF P, U
<1> QED
  BY <1>11, <1>12

(* What a float below 2^64 is shown as reads back, without its point.      *)
LEMMA FloatReadsBack ==
  ASSUME NEW v \in FloatValues, v.units < FracUnit * U64Max,
         NEW spec, IsSpec(spec), IsPlain(spec),
         OrElse(spec.precision, 6) < FracBuffer
  PROVE  ReadNumber(FlattenSeq(FmtFloat(v, spec)), 10) =
           (2 * v.units * Power(10, OrElse(spec.precision, 6)) + FracUnit)
             \div (2 * FracUnit)
<1> DEFINE precision == OrElse(spec.precision, 6)
           P == Power(10, precision)
           whole == IntFinal(v, precision)
           part == FracFinal(v, precision)
           sign == SignOf(v.negative, spec)
           int == WriteDigits(whole, 10, Digit)
           point == IF precision > 0 THEN <<".">> ELSE <<>>
           frac == LowDigits(part, precision)
           text == sign \o int \o point \o frac
<1>1. precision \in Nat /\ precision < FracBuffer
  BY DEF OrElse, IsSpec
<1>2. FmtFloat(v, spec) = Aligned(<<text>>, Pad(spec, Len(text)), spec.align)
  BY <1>1 DEF FmtFloat, FmtStrValue
<1> HIDE DEF precision
<1>3. whole \in Nat /\ whole < Values(8) /\ part \in Nat /\ part < Values(8)
  <2>1. /\ whole \in Nat /\ whole < Values(8) /\ part \in Nat
        /\ part < Pow10(precision)
    BY <1>1, FinalParts
  <2>2. Pow10(precision) \in Nat /\ Pow10(precision) <= U64Max
    BY <1>1, Pow10Type
  <2>3. U64Max \in Nat /\ Values(8) = U64Max + 1
    BY ValuesFacts DEF U64Max
  <2> HIDE DEF whole, part
  <2> QED
    BY <2>1, <2>2, <2>3
<1>4. part < P /\ whole * P + part = (2 * v.units * P + FracUnit) \div (2 * FracUnit)
  BY <1>1, FloatIsRounded
<1> HIDE DEF whole, part, P
<1>5. /\ 10 \in 2..16 /\ 10 \in 1..16 /\ Digit \in {Digit, UpperDigit}
      /\ \A i \in 1..16 : Digit[i] \in DigitChars
  BY DigitType
<1>6. sign \in Seq(Char) /\ Moves(sign, 10, 0, 0)
  <2>1. v.negative \in BOOLEAN
    BY DEF FloatValues
  <2> QED
    BY <1>5, <2>1, PlainSign
<1>7. int \in Seq(Char) /\ Moves(int, 10, 0, whole)
  BY <1>3, <1>5, WriteDigitsType, MovesWriteDigits
<1>8. point \in Seq(Char) /\ Moves(point, 10, whole, whole)
  <2>1. "." \in Char
    BY Zenon DEF Char
  <2>2. ~IsDigit(".", 10)
    <3>1. "." \notin DigitChars
      BY Zenon DEF DigitChars
    <3> QED
      BY <1>5, <3>1, DigitsAreDigits
  <2>3. <<".">> \in Seq(Char) /\ <<>> \in Seq(Char)
    BY <2>1, OneElement, EmptySeq
  <2>4. point = <<>> \/ \E c : point = <<c>> /\ ~IsDigit(c, 10)
    BY <2>2
  <2>5. point \in Seq(Char)
    BY <2>3
  <2> HIDE DEF point
  <2> QED
    BY <1>3, <2>4, <2>5, MovesPlain
<1>9. frac \in Seq(Char) /\ Moves(frac, 10, whole, whole * P + part)
  <2>1. frac = LastDigits(part, precision, 10, Digit)
    BY <1>1, <1>3, LowDigitsAre
  <2>2. Moves(LastDigits(part, precision, 10, Digit), 10, whole, whole * P + part)
    BY <1>1, <1>3, <1>4, <1>5, MovesDigits DEF P
  <2> QED
    BY <1>1, <1>3, <2>1, <2>2, LowDigitsType
<1> DEFINE b == whole * P + part
<1> HIDE DEF sign, int, point, frac, b
<1>10. Moves(text, 10, 0, b) /\ text \in Seq(Char)
  <2>1. Moves(sign \o int, 10, 0, whole) /\ sign \o int \in Seq(Char)
    BY <1>6, <1>7, MovesConcat, ConcatProperties
  <2> DEFINE s == sign \o int
  <2> HIDE DEF s
  <2>2. Moves(s \o point, 10, 0, whole) /\ s \o point \in Seq(Char)
    BY <1>8, <2>1, MovesConcat, ConcatProperties DEF s
  <2> DEFINE t == s \o point
  <2> HIDE DEF t
  <2>3. Moves(t \o frac, 10, 0, b) /\ t \o frac \in Seq(Char)
    BY <1>9, <2>2, MovesConcat, ConcatProperties DEF t, b
  <2> QED
    BY <2>3 DEF t, s
<1> HIDE DEF text
<1>11. FmtFloat(v, spec) = <<text>>
  <2>1. Pad(spec, Len(text)) = 0
    BY <1>10, LenProperties, NothingToPad
  <2>2. <<text>> \in Seq(Seq(Char))
    BY <1>10, OneElement
  <2>3. Aligned(<<text>>, 0, spec.align) = <<text>>
    BY <2>2, AlignedPlain, Zenon DEF IsSpec
  <2> QED
    BY <1>2, <2>1, <2>3
<1>12. FlattenSeq(<<text>>) = text
  BY <1>10, FlattenOne
<1>13. ReadNumber(text, 10) = b
  BY <1>10, ReadMoves
<1> QED
  BY <1>4, <1>11, <1>12, <1>13 DEF b, P, precision

(* The text of one field.                                                  *)
LEMMA OneSegment ==
  ASSUME NEW format \in Seq(Segments), Accepted(format), build \in Builds,
         Len(format) = 1, format[1].kind = "field"
  PROVE  /\ format[1].value \in AllValues
         /\ MacroSpec(format[1].written) \in Specs
         /\ AllWrites(format) = Fmt(format[1].value, MacroSpec(format[1].written), build.no64)
<1>1. format[1] \in Segments /\ DOMAIN format = {1}
  BY ElementOfSeq
<1>2. MacroAccepts(format[1].written)
  BY <1>1 DEF Accepted
<1>3. format[1].value \in AllValues /\ format[1].written \in AllWritten
  BY <1>1, SegmentType
<1>4. MacroSpec(format[1].written) \in Specs
  BY <1>2, <1>3, MacroSpecType
<1>5. Writes(format[1]) \in Seq(Seq(Char))
  BY <1>1, <1>2, WritesType
<1> DEFINE T == Seq(Char)
           w == Writes(format[1])
           ss == [i \in DOMAIN format |-> Writes(format[i])]
<1>6. ss = <<w>>
  BY <1>1
<1> HIDE DEF w, T
<1>7. FlattenSeq(<<w>>) = w
  BY <1>5, FlattenOne DEF w
<1>8. AllWrites(format) = w
  BY <1>6, <1>7 DEF AllWrites
<1>9. w = Fmt(format[1].value, MacroSpec(format[1].written), build.no64)
  BY DEF Writes, w
<1> QED
  BY <1>3, <1>4, <1>8, <1>9

(* The number that the text of one field shows is the value: an integer in *)
(* the base of its type, a float rounded to the precision.                 *)
THEOREM ShownNumbersReadBack == OutputSpec => []NumbersReadBack
<1>1. ASSUME TypeInv, NEW k \in PlainTexts
      PROVE  LET v == FormatOf(k)[1].value
                 spec == MacroSpec(FormatOf(k)[1].written)
                 text == frames[k].text
                 precision == OrElse(spec.precision, 6) IN
             /\ v.kind \in {"uint", "sint"} /\ spec.ty # "c" =>
                  ReadNumber(text, Base(spec.ty)) =
                    IF spec.ty = "" THEN UnsignedAbs(v) ELSE v.bits
             /\ v.kind = "float" =>
                  \/ v.units >= FracUnit * U64Max
                  \/ precision >= FracBuffer
                  \/ ReadNumber(text, 10) =
                       (2 * v.units * Power(10, precision) + FracUnit) \div (2 * FracUnit)
  <2> DEFINE format == FormatOf(k)
             v == format[1].value
             spec == MacroSpec(format[1].written)
             text == frames[k].text
             precision == OrElse(spec.precision, 6)
  <2>1. /\ k \in Texts /\ Len(format) = 1 /\ format[1].kind = "field"
        /\ IsPlain(spec) /\ text = FlattenSeq(AllWrites(format))
    BY DEF PlainTexts, FullText, FormatOf, IsPlain
  <2>2. format \in Seq(Segments) /\ Accepted(format) /\ build \in Builds
    BY <1>1, <2>1, MessageType
  <2>3. v \in AllValues /\ spec \in Specs /\ AllWrites(format) = Fmt(v, spec, build.no64)
    <3> HIDE DEF format
    <3> QED
      BY <2>1, <2>2, OneSegment
  <2> HIDE DEF format, v, spec, text
  <2>4. IsSpec(spec)
    BY <2>3, SpecsAreSpecs
  <2>5. ASSUME v.kind \in {"uint", "sint"}, spec.ty # "c"
        PROVE  ReadNumber(text, Base(spec.ty)) =
                 IF spec.ty = "" THEN UnsignedAbs(v) ELSE v.bits
    <3>1. v \in IntValues
      BY <2>3, <2>5 DEF AllValues, HashValues, FloatValues, WordValues
    <3>2. v.bits \in Nat /\ v.bits < Values(8)
      <4>1. v.bits \in Nat /\ v.size \in {1, 2, 4, 8} /\ v.bits < Values(v.size)
        BY <3>1 DEF IntValues
      <4> QED
        BY <4>1, ValuesFacts
    <3>3. UnsignedAbs(v) \in Nat /\ UnsignedAbs(v) < Values(8)
      BY <3>1, UnsignedAbsType
    <3>4. IsNegative(v) \in BOOLEAN /\ FALSE \in BOOLEAN
      BY DEF IsNegative
    <3>5. ReadNumber(FlattenSeq(FmtUint(v.bits, spec, FALSE)), Base(spec.ty)) = v.bits
      BY <2>1, <2>4, <3>2, <3>4, UintReadsBack
    <3>6. ReadNumber(FlattenSeq(FmtUint(UnsignedAbs(v), spec, IsNegative(v))), Base(spec.ty))
            = UnsignedAbs(v)
      BY <2>1, <2>4, <3>3, <3>4, UintReadsBack
    <3>7. CASE v.kind = "uint"
      <4>1. Fmt(v, spec, build.no64) = FmtUint(v.bits, spec, FALSE)
        BY <2>5, <3>7 DEF Fmt
      <4>2. UnsignedAbs(v) = v.bits
        BY <3>7 DEF UnsignedAbs, IsNegative
      <4> QED
        BY <2>1, <2>3, <3>5, <4>1, <4>2
    <3>8. CASE v.kind = "sint"
      <4>1. Fmt(v, spec, build.no64) = FmtSint(v, spec)
        BY <2>5, <3>8 DEF Fmt
      <4> DEFINE display == spec.ty = ""
      <4>2. FmtSint(v, spec) = IF display THEN FmtUint(UnsignedAbs(v), spec, IsNegative(v))
                               ELSE FmtUint(v.bits, spec, FALSE)
        BY Zenon DEF FmtSint
      <4>3. (IF spec.ty = "" THEN UnsignedAbs(v) ELSE v.bits)
              = IF display THEN UnsignedAbs(v) ELSE v.bits
        OBVIOUS
      <4> HIDE DEF display
      <4>4. CASE display
        BY <2>1, <2>3, <3>6, <4>1, <4>2, <4>3, <4>4
      <4>5. CASE ~display
        BY <2>1, <2>3, <3>5, <4>1, <4>2, <4>3, <4>5
      <4> QED
        BY <4>4, <4>5
    <3> QED
      BY <2>5, <3>7, <3>8
  <2>6. ASSUME v.kind = "float", ~(v.units >= FracUnit * U64Max), ~(precision >= FracBuffer)
        PROVE  ReadNumber(text, 10) =
                 (2 * v.units * Power(10, precision) + FracUnit) \div (2 * FracUnit)
    <3>1. v \in FloatValues
      BY <2>3, <2>6 DEF AllValues, IntValues, HashValues, WordValues
    <3>2. v.units < FracUnit * U64Max
      <4>1. v.units \in Nat
        BY <3>1 DEF FloatValues
      <4>2. FracUnit * U64Max \in Nat
        BY ValuesFacts, FormatAssumption
      <4> DEFINE m == FracUnit * U64Max
      <4> HIDE DEF m
      <4> QED
        BY <2>6, <4>1, <4>2 DEF m
    <3>3. precision < FracBuffer
      <4>1. precision \in Nat
        BY <2>4 DEF OrElse, IsSpec
      <4>2. FracBuffer \in Nat
        <5>1. U64Max \in Nat /\ U64Max < Values(8)
          BY ValuesFacts DEF U64Max
        <5>2. FracBuffer \in 1 .. 8 * ByteBits
          BY <5>1, DigitCountFacts DEF FracBuffer
        <5> QED
          BY <5>2, FormatAssumption
      <4> HIDE DEF precision
      <4> QED
        BY <2>6, <4>1, <4>2
    <3>4. Fmt(v, spec, build.no64) = FmtFloat(v, spec)
      BY <2>6 DEF Fmt
    <3>5. ReadNumber(FlattenSeq(FmtFloat(v, spec)), 10) =
            (2 * v.units * Power(10, precision) + FracUnit) \div (2 * FracUnit)
      BY <2>1, <2>4, <3>1, <3>2, <3>3, FloatReadsBack
    <3> QED
      BY <2>1, <2>3, <3>4, <3>5
  <2> QED
    BY <2>5, <2>6 DEF v, spec, text, format
<1>2. ASSUME TypeInv
      PROVE  NumbersReadBack
  BY <1>1, <1>2 DEF NumbersReadBack
<1> QED
  BY <1>2, TypeHolds, PTL

-----------------------------------------------------------------------------
(* The text of the device and the host's.                                  *)

(* The host's modules instantiate the same definitions: of powers, ...     *)
LEMMA HostPower ==
  ASSUME NEW b, NEW n
  PROVE  H!Power(b, n) = Power(b, n)
BY DEF H!Power, Power

(* ... of digits, ...                                                      *)
LEMMA HostDigits ==
  ASSUME NEW n, NEW b, NEW digits
  PROVE  /\ H!DigitCount(n, b) = DigitCount(n, b)
         /\ H!ToDigits(n, b, digits) =
              Reverse([i \in 1 .. DigitCount(n, b) |->
                         digits[((n \div Power(b, i - 1)) % b) + 1]])
BY DEF H!DigitCount, DigitCount, H!Power, Power, H!ToDigits, H!Reverse, Reverse

(* ... and of the parts of a float.                                        *)
LEMMA HostFloat ==
  ASSUME NEW v, NEW p
  PROVE  /\ H!D!IntFinal(v, p) = IntFinal(v, p)
         /\ H!D!FracFinal(v, p) = FracFinal(v, p)
BY DEF H!D!IntFinal, IntFinal, H!D!FracFinal, FracFinal, H!D!Carries, Carries, H!D!FracInt, FracInt,
  H!D!Scale, Scale, H!D!Pow10, Pow10, H!D!IntPart, IntPart, H!D!FracUnits, FracUnits, H!D!AsU64, AsU64, H!D!U64Max, U64Max,
  H!D!Values, Values, H!D!Power, Power, H!D!DigitCount, DigitCount

(* So are the parts of a text ...                                          *)
LEMMA HostParts ==
  ASSUME NEW spec
  PROVE  /\ \A negative : H!SignOf(negative, spec) = SignOf(negative, spec)
         /\ H!Prefix(spec) = Prefix(spec)
         /\ H!Base(spec.ty) = Base(spec.ty)
         /\ \A n : H!Pad(spec, n) = Pad(spec, n)
         /\ \A c, n : H!Fill(c, n) = Fill(c, n)
         /\ H!Digit = Digit /\ H!UpperDigit = UpperDigit
         /\ \A option, n : H!OrElse(option, n) = OrElse(option, n)
<1>1. \A negative : H!SignOf(negative, spec) = SignOf(negative, spec)
  BY DEF H!SignOf, SignOf
<1>2. H!Prefix(spec) = Prefix(spec)
  BY DEF H!Prefix, Prefix
<1>3. H!Base(spec.ty) = Base(spec.ty)
  BY DEF H!Base, Base
<1>4. \A n : H!Pad(spec, n) = Pad(spec, n)
  BY DEF H!Pad, Pad
<1>5. \A c, n : H!Fill(c, n) = Fill(c, n)
  BY DEF H!Fill, Fill
<1>6. H!Digit = Digit /\ H!UpperDigit = UpperDigit
  BY DEF H!Digit, Digit, H!UpperDigit, UpperDigit
<1>7. \A option, n : H!OrElse(option, n) = OrElse(option, n)
  BY DEF H!OrElse, OrElse
<1> QED
  BY <1>1, <1>2, <1>3, <1>4, <1>5, <1>6, <1>7

(* ... and of a value.                                                     *)
LEMMA HostValue ==
  ASSUME NEW v
  PROVE  /\ H!IsNegative(v) = IsNegative(v)
         /\ H!UnsignedAbs(v) = UnsignedAbs(v)
         /\ H!LeBytes(v) = LeBytes(v)
         /\ \A n : H!Values(n) = Values(n)
         /\ \A b : H!FourCC(b) = FourCC(b)
         /\ \A s : H!FlattenSeq(s) = FlattenSeq(s)
<1>1. \A n : H!Values(n) = Values(n)
  BY DEF H!Values, Values, H!Power, Power
<1>2. H!IsNegative(v) = IsNegative(v)
  BY <1>1 DEF H!IsNegative, IsNegative
<1>3. H!UnsignedAbs(v) = UnsignedAbs(v)
  BY <1>1, <1>2 DEF H!UnsignedAbs, UnsignedAbs
<1>4. H!LeBytes(v) = LeBytes(v)
  BY <1>1 DEF H!LeBytes, LeBytes
<1>5. \A b : H!FourCC(b) = FourCC(b)
  BY DEF H!FourCC, FourCC, H!Digit, Digit
<1>6. \A s : H!FlattenSeq(s) = FlattenSeq(s)
  BY DEF H!FlattenSeq, FlattenSeq
<1> QED
  BY <1>1, <1>2, <1>3, <1>4, <1>5, <1>6

(* to_digits of the host makes of a number what write_digits does.         *)
LEMMA SameDigits ==
  ASSUME NEW n \in Nat, n < Values(8), NEW b \in 2..16, NEW table,
         \A i \in 1..16 : table[i] \in DigitChars
  PROVE  H!ToDigits(n, b, table) = WriteDigits(n, b, table)
<1> DEFINE count == DigitCount(n, b)
           digit(k) == table[((n \div Power(b, k)) % b) + 1]
           s == [i \in 1..count |-> digit(i - 1)]
<1>1. count \in Nat
  <2>1. b \in Nat /\ b >= 2
    OBVIOUS
  <2>2. count \in 1 .. 8 * ByteBits
    BY <2>1, DigitCountFacts
  <2> QED
    BY <2>2, FormatAssumption
<1>2. H!ToDigits(n, b, table) = Reverse(s)
  BY HostDigits
<1>3. WriteDigits(n, b, table) = [i \in 1..count |-> digit(count - i)]
  BY DEF WriteDigits
<1> HIDE DEF count, digit
<1>4. Len(s) = count /\ \A i \in 1..count : s[i] = digit(i - 1)
  <2>1. s \in [1..count -> {digit(i - 1) : i \in 1..count}]
    OBVIOUS
  <2>2. Len(s) = count
    BY <1>1, <2>1
  <2> QED
    BY <2>2
<1>5. Reverse(s) = [i \in 1..count |-> s[(count - i) + 1]]
  <2>1. Reverse(s) = [i \in 1..Len(s) |-> s[(Len(s) - i) + 1]]
    BY DEF Reverse
  <2> HIDE DEF s
  <2> QED
    BY <1>4, <2>1
<1> HIDE DEF s
<1>6. ASSUME NEW i \in 1..count
      PROVE  s[(count - i) + 1] = digit(count - i)
  <2>1. (count - i) + 1 \in 1..count /\ ((count - i) + 1) - 1 = count - i
    BY <1>1
  <2> QED
    BY <1>4, <2>1
<1> QED
  BY <1>2, <1>3, <1>5, <1>6

(* Fillings of one character each, joined.                                 *)
LEMMA FlattenFill ==
  ASSUME NEW c \in Char, NEW n \in Nat
  PROVE  FlattenSeq(Fill(<<c>>, n)) = Fill(c, n)
<1> DEFINE g == [i \in 0..n |-> Fill(c, i)]
           ws == Fill(<<c>>, n)
<1>1. <<c>> \in Seq(Char) /\ ws \in Seq(Seq(Char)) /\ Len(ws) = n
  <2>1. <<c>> \in Seq(Char)
    BY OneElement
  <2> QED
    BY <2>1, FillType
<1>2. g \in [0..n -> Seq(Char)] /\ \A i \in 0..n : g[i] = Fill(c, i)
  BY FillType
<1>3. g[0] = <<>> /\ g[n] = Fill(c, n)
  BY <1>2, NothingToFill
<1>4. \A i \in 1..n : ws[i] = <<c>>
  BY DEF Fill
<1> HIDE DEF g, ws
<1>5. ASSUME NEW i \in 1..n
      PROVE  g[i] = g[i - 1] \o ws[i]
  <2> DEFINE a == Fill(c, i - 1)
             d == Fill(c, i)
  <2>1. i - 1 \in Nat /\ i \in Nat /\ i - 1 \in 0..n /\ i \in 0..n
    OBVIOUS
  <2>2. a \in Seq(Char) /\ Len(a) = i - 1 /\ d \in Seq(Char) /\ Len(d) = i
    BY <2>1, FillType
  <2>3. (\A k \in 1..(i - 1) : a[k] = c) /\ \A k \in 1..i : d[k] = c
    BY DEF Fill
  <2> HIDE DEF a, d
  <2>4. d = a \o <<c>>
    <3>1. a \o <<c>> \in Seq(Char) /\ Len(a \o <<c>>) = i
      BY <1>1, <2>2
    <3>2. ASSUME NEW k \in 1..i
          PROVE  (a \o <<c>>)[k] = c
      BY <2>2, <2>3
    <3> QED
      BY <2>2, <2>3, <3>1, <3>2
  <2>5. g[i - 1] = a /\ g[i] = d
    BY <1>2, <2>1 DEF a, d
  <2> QED
    BY <1>4, <2>4, <2>5
<1>6. Joined(Char, ws, g)
  BY <1>1, <1>2, <1>3, <1>5 DEF Joined
<1>7. FlattenSeq(ws) = g[n]
  BY <1>1, <1>6, FlattenIsJoined
<1> QED
  BY <1>3, <1>7 DEF ws

(* Two and three pieces, joined.                                           *)
LEMMA FlattenFew ==
  ASSUME NEW r \in Seq(Char), NEW s \in Seq(Char), NEW t \in Seq(Char)
  PROVE  /\ <<r, s>> \in Seq(Seq(Char)) /\ <<r, s, t>> \in Seq(Seq(Char))
         /\ FlattenSeq(<<r, s>>) = r \o s
         /\ FlattenSeq(<<r, s, t>>) = r \o s \o t
<1> DEFINE T == Seq(Char)
           two == <<r, s>>
           three == <<r, s, t>>
<1>1. r \in T /\ s \in T /\ t \in T
  OBVIOUS
<1> HIDE DEF T
<1>2. two \in Seq(T) /\ Len(two) = 2 /\ two[1] = r /\ two[2] = s
  BY <1>1, TwoElements
<1>3. three \in Seq(T) /\ Len(three) = 3 /\ three[1] = r /\ three[2] = s /\ three[3] = t
  BY <1>1
<1> HIDE DEF two, three
<1>4. PICK g : Joined(Char, two, g)
  BY <1>2, JoinedExists DEF T
<1>5. PICK h : Joined(Char, three, h)
  BY <1>3, JoinedExists DEF T
<1>6. FlattenSeq(two) = g[2] /\ FlattenSeq(three) = h[3]
  BY <1>2, <1>3, <1>4, <1>5, FlattenIsJoined DEF T
<1>7. /\ 1 \in 1..2 /\ 2 \in 1..2 /\ 1 \in 1..3 /\ 2 \in 1..3 /\ 3 \in 1..3
      /\ 1 - 1 = 0 /\ 2 - 1 = 1 /\ 3 - 1 = 2
  OBVIOUS
<1>8. /\ g[0] = <<>> /\ \A i \in 1..2 : g[i] = g[i - 1] \o two[i]
      /\ h[0] = <<>> /\ \A i \in 1..3 : h[i] = h[i - 1] \o three[i]
  BY <1>2, <1>3, <1>4, <1>5 DEF Joined
<1>9. g[1] = <<>> \o r /\ g[2] = g[1] \o s
  BY <1>2, <1>7, <1>8
<1>10. h[1] = <<>> \o r /\ h[2] = h[1] \o s /\ h[3] = h[2] \o t
  BY <1>3, <1>7, <1>8
<1>11. <<>> \o r = r
  BY ConcatEmptySeq
<1> QED
  BY <1>2, <1>3, <1>6, <1>9, <1>10, <1>11 DEF two, three, T

(* What alignment makes of a text written in pieces.                       *)
LEMMA AlignedText ==
  ASSUME NEW ws \in Seq(Seq(Char)), NEW pad \in Nat, NEW align \in {"", "<", ">"}
  PROVE  /\ FlattenSeq(ws) \in Seq(Char) /\ Fill(" ", pad) \in Seq(Char)
         /\ FlattenSeq(Aligned(ws, pad, align)) =
              CASE align = ">" -> Fill(" ", pad) \o FlattenSeq(ws)
                [] align = "<" -> FlattenSeq(ws) \o Fill(" ", pad)
                [] align = "" -> FlattenSeq(ws)
<1> DEFINE f == Fill(<<" ">>, pad)
<1>1. " " \in Char
  BY Zenon DEF Char
<1>2. <<" ">> \in Seq(Char)
  BY <1>1, OneElement
<1>3. f \in Seq(Seq(Char)) /\ FlattenSeq(f) = Fill(" ", pad) /\ Fill(" ", pad) \in Seq(Char)
  BY <1>1, <1>2, FillType, FlattenFill
<1> HIDE DEF f
<1>4. /\ FlattenSeq(f \o ws) = FlattenSeq(f) \o FlattenSeq(ws)
      /\ FlattenSeq(ws \o f) = FlattenSeq(ws) \o FlattenSeq(f)
      /\ FlattenSeq(ws) \in Seq(Char)
  BY <1>3, FlattenConcat
<1>5. CASE align = ">"
  <2>1. Aligned(ws, pad, align) = f \o ws
    BY <1>5, Zenon DEF Aligned, f
  <2> QED
    BY <1>3, <1>4, <1>5, <2>1, Zenon
<1>6. CASE align = "<"
  <2>1. Aligned(ws, pad, align) = ws \o f
    BY <1>6, Zenon DEF Aligned, f
  <2> QED
    BY <1>3, <1>4, <1>6, <2>1, Zenon
<1>7. CASE align = ""
  <2>1. Aligned(ws, pad, align) = ws
    BY <1>7, Zenon DEF Aligned
  <2> QED
    BY <1>3, <1>4, <1>7, <2>1, Zenon
<1> QED
  BY <1>5, <1>6, <1>7

(* Without a need for padding, alignment leaves a text as it is; with an   *)
(* alignment or without such a need, the host does the same.               *)
LEMMA AlignedAlike ==
  ASSUME NEW ws \in Seq(Seq(Char)), NEW spec, IsSpec(spec),
         NEW text, text = FlattenSeq(ws)
  PROVE  /\ spec.width <= Len(text) =>
              /\ FlattenSeq(Aligned(ws, Pad(spec, Len(text)), spec.align)) = text
              /\ H!ApplyWidth(text, spec) = text
         /\ spec.align = "" =>
              FlattenSeq(Aligned(ws, Pad(spec, Len(text)), spec.align)) = text
         /\ spec.align # "" =>
              FlattenSeq(Aligned(ws, Pad(spec, Len(text)), spec.align)) =
                H!ApplyWidth(text, spec)
<1> DEFINE pad == Pad(spec, Len(text))
           fill == Fill(" ", pad)
           align == spec.align
<1>1. text \in Seq(Char)
  <2>1. PICK g : Joined(Char, ws, g)
    BY JoinedExists
  <2>2. text = g[Len(ws)] /\ Len(ws) \in 0..Len(ws)
    BY <2>1, FlattenIsJoined, LenProperties
  <2> QED
    BY <2>1, <2>2 DEF Joined
<1>2. align \in {"", "<", ">"} /\ spec.width \in Nat /\ Len(text) \in Nat
  BY <1>1, LenProperties DEF IsSpec
<1>3. pad \in Nat
  BY <1>2, PadType
<1>4. H!ApplyWidth(text, spec) = IF align = "<" THEN text \o fill ELSE fill \o text
  <2>1. H!Fill(" ", H!Pad(spec, Len(text))) = fill
    BY HostParts
  <2> HIDE DEF fill
  <2> QED
    BY <2>1, Zenon DEF H!ApplyWidth
<1>5. FlattenSeq(Aligned(ws, pad, align)) =
        CASE align = ">" -> fill \o text
          [] align = "<" -> text \o fill
          [] align = "" -> text
  <2> HIDE DEF pad, align
  <2> QED
    BY <1>2, <1>3, AlignedText
<1>6. spec.width <= Len(text) => fill = <<>>
  <2>1. spec.width <= Len(text) => pad = 0
    <3>1. PICK w \in Nat, l \in Nat : w = spec.width /\ l = Len(text)
      BY <1>2
    <3>2. pad = IF w > l THEN w - l ELSE 0
      BY <3>1 DEF Pad
    <3> HIDE DEF pad
    <3> QED
      BY <3>1, <3>2
  <2> HIDE DEF pad
  <2> QED
    BY <2>1, NothingToFill
<1>7. <<>> \o text = text /\ text \o <<>> = text
  BY <1>1, ConcatEmptySeq
<1> DEFINE a == FlattenSeq(Aligned(ws, pad, align))
           h == H!ApplyWidth(text, spec)
<1> HIDE DEF pad, fill, a, h
<1>8. h = IF align = "<" THEN text \o fill ELSE fill \o text
  BY <1>4 DEF h
<1>9. a = CASE align = ">" -> fill \o text
            [] align = "<" -> text \o fill
            [] align = "" -> text
  BY <1>5 DEF a
<1> HIDE DEF align
<1>10. fill = <<>> => a = text /\ h = text
  BY <1>2, <1>7, <1>8, <1>9, Zenon
<1>11. align = "" => a = text
  BY <1>9, Zenon
<1>12. align # "" => a = h
  BY <1>2, <1>8, <1>9, Zenon
<1> QED
  BY <1>6, <1>10, <1>11, <1>12 DEF a, h, pad, align

\* The digits of an integer, and its text without padding.
UintDigits(n, spec) ==
  WriteDigits(n, Base(spec.ty), IF spec.ty = "X" THEN UpperDigit ELSE Digit)
UintBody(n, spec, negative) ==
  SignOf(negative, spec) \o Prefix(spec) \o UintDigits(n, spec)

(* What the device writes of an integer: zeros behind the sign and the     *)
(* prefix, or spaces around the whole.                                     *)
LEMMA UintText ==
  ASSUME NEW n \in Nat, n < Values(8), NEW spec, IsSpec(spec),
         NEW negative \in BOOLEAN
  PROVE  LET sign == SignOf(negative, spec)
             prefix == Prefix(spec)
             digits == UintDigits(n, spec)
             body == UintBody(n, spec, negative)
             pad == Pad(spec, Len(body)) IN
         /\ sign \in Seq(Char) /\ prefix \in Seq(Char) /\ digits \in Seq(Char)
         /\ body \in Seq(Char) /\ Len(body) = Len(sign) + Len(prefix) + Len(digits)
         /\ <<sign, prefix, digits>> \in Seq(Seq(Char))
         /\ body = FlattenSeq(<<sign, prefix, digits>>)
         /\ FlattenSeq(FmtUint(n, spec, negative)) =
              IF FillsZeros(spec) THEN sign \o prefix \o Fill("0", pad) \o digits
              ELSE FlattenSeq(Aligned(<<sign, prefix, digits>>, pad, spec.align))
<1> DEFINE sign == SignOf(negative, spec)
           prefix == Prefix(spec)
           table == IF spec.ty = "X" THEN UpperDigit ELSE Digit
           digits == UintDigits(n, spec)
           body == UintBody(n, spec, negative)
           pad == Pad(spec, Len(body))
           three == <<sign, prefix, digits>>
           two == <<sign, prefix>>
           zeros == Fill(<<"0">>, pad)
           one == <<digits>>
<1>1. sign \in Seq(Char) /\ prefix \in Seq(Char)
  BY SignAndPrefixType
<1>2. digits \in Seq(Char)
  <2>1. Base(spec.ty) \in 2..16
    BY DEF Base
  <2>2. \A i \in 1..16 : table[i] \in DigitChars
    BY DigitType
  <2> HIDE DEF table
  <2>3. WriteDigits(n, Base(spec.ty), table) \in Seq(Char)
    BY <2>1, <2>2, WriteDigitsType
  <2> QED
    BY <2>3 DEF UintDigits, table
<1> HIDE DEF digits
<1>3. body = sign \o prefix \o digits
  BY DEF UintBody, digits
<1>4. FmtUint(n, spec, negative) =
        LET p == Pad(spec, Len(sign) + Len(prefix) + Len(digits)) IN
        IF FillsZeros(spec)
        THEN <<sign, prefix>> \o Fill(<<"0">>, p) \o <<digits>>
        ELSE Aligned(<<sign, prefix, digits>>, p, spec.align)
  BY Zenon DEF FmtUint, FillsZeros, UintDigits, digits
<1> HIDE DEF sign, prefix, body
<1>5. body \in Seq(Char) /\ Len(body) = Len(sign) + Len(prefix) + Len(digits)
  <2> DEFINE a == sign \o prefix
  <2>1. a \in Seq(Char) /\ Len(a) = Len(sign) + Len(prefix)
    BY <1>1, ConcatProperties
  <2> HIDE DEF a
  <2>2. a \o digits \in Seq(Char) /\ Len(a \o digits) = Len(a) + Len(digits)
    BY <1>2, <2>1, ConcatProperties
  <2> QED
    BY <1>3, <2>1, <2>2 DEF a
<1>6. three \in Seq(Seq(Char)) /\ two \in Seq(Seq(Char))
      /\ FlattenSeq(three) = body /\ FlattenSeq(two) = sign \o prefix
  BY <1>1, <1>2, <1>3, FlattenFew
<1>7. one \in Seq(Seq(Char)) /\ FlattenSeq(one) = digits
  BY <1>2, OneElement, FlattenOne
<1>8. pad \in Nat
  <2>1. Len(body) \in Nat
    BY <1>5, LenProperties
  <2> QED
    BY <2>1, PadType DEF IsSpec
<1> HIDE DEF pad
<1>9. zeros \in Seq(Seq(Char)) /\ FlattenSeq(zeros) = Fill("0", pad)
  <2>1. "0" \in Char
    BY Zenon DEF Char, DigitChars
  <2>2. <<"0">> \in Seq(Char)
    BY <2>1, OneElement
  <2> QED
    BY <1>8, <2>1, <2>2, FillType, FlattenFill
<1>10. FmtUint(n, spec, negative) =
         IF FillsZeros(spec) THEN two \o zeros \o one
         ELSE Aligned(three, pad, spec.align)
  BY <1>4, <1>5 DEF pad
<1> HIDE DEF three, two, zeros, one
<1>11. FlattenSeq(two \o zeros \o one) = sign \o prefix \o Fill("0", pad) \o digits
  <2> DEFINE t == two \o zeros
  <2>1. t \in Seq(Seq(Char))
    BY <1>6, <1>9, ConcatProperties
  <2>2. FlattenSeq(t) = sign \o prefix \o Fill("0", pad)
    <3>1. two \in Seq(Seq(Char)) /\ zeros \in Seq(Seq(Char))
      BY <1>6, <1>9
    <3>2. FlattenSeq(two \o zeros) = FlattenSeq(two) \o FlattenSeq(zeros)
      BY <3>1, FlattenConcat
    <3> QED
      BY <1>6, <1>9, <3>2, Zenon
  <2> HIDE DEF t
  <2>3. FlattenSeq(t \o one) = FlattenSeq(t) \o FlattenSeq(one)
    BY <1>7, <2>1, FlattenConcat
  <2> QED
    BY <1>7, <2>2, <2>3 DEF t
<1>12. FlattenSeq(FmtUint(n, spec, negative)) =
         IF FillsZeros(spec) THEN sign \o prefix \o Fill("0", pad) \o digits
         ELSE FlattenSeq(Aligned(three, pad, spec.align))
  BY <1>10, <1>11
<1> QED
  BY <1>1, <1>2, <1>5, <1>6, <1>12 DEF sign, prefix, digits, body, pad, three

\* A spec without its width.
Narrow(spec) == [spec EXCEPT !.width = 0]

(* A width changes nothing else of a spec.                                 *)
LEMMA NarrowSpec ==
  ASSUME NEW spec \in Specs
  PROVE  /\ Narrow(spec) \in Specs /\ IsSpec(Narrow(spec)) /\ IsSpec(spec)
         /\ Narrow(spec).width = 0 /\ Narrow(spec).align = spec.align
         /\ Narrow(spec).sign = spec.sign /\ Narrow(spec).zero = spec.zero
         /\ Narrow(spec).alternate = spec.alternate
         /\ Narrow(spec).precision = spec.precision /\ Narrow(spec).ty = spec.ty
<1>1. Narrow(spec) \in Specs
  BY DEF Narrow, Specs
<1>2. IsSpec(Narrow(spec)) /\ IsSpec(spec)
  BY <1>1, SpecsAreSpecs
<1> QED
  BY <1>1, <1>2 DEF Narrow, Specs

\* There is an alignment, zeros are asked for, or there is nothing to pad.
PadsAlike(n, spec, negative) ==
  \/ spec.align # "" \/ spec.zero
  \/ spec.width <= Len(FlattenSeq(FmtUint(n, Narrow(spec), negative)))

(* Then integers look alike.                                               *)
LEMMA UintAlike ==
  ASSUME NEW n \in Nat, n < Values(8), NEW spec \in Specs, NEW negative \in BOOLEAN,
         PadsAlike(n, spec, negative)
  PROVE  FlattenSeq(FmtUint(n, spec, negative)) = H!FmtUint(n, negative, spec)
<1> DEFINE narrow == Narrow(spec)
           sign == SignOf(negative, spec)
           prefix == Prefix(spec)
           digits == UintDigits(n, spec)
           body == UintBody(n, spec, negative)
           pad == Pad(spec, Len(body))
           three == <<sign, prefix, digits>>
           text == FlattenSeq(FmtUint(n, spec, negative))
<1>1. IsSpec(spec)
  BY NarrowSpec
<1>2. /\ sign \in Seq(Char) /\ prefix \in Seq(Char) /\ digits \in Seq(Char)
      /\ body \in Seq(Char) /\ Len(body) = Len(sign) + Len(prefix) + Len(digits)
      /\ three \in Seq(Seq(Char)) /\ body = FlattenSeq(three)
      /\ text = IF FillsZeros(spec) THEN sign \o prefix \o Fill("0", pad) \o digits
                ELSE FlattenSeq(Aligned(three, pad, spec.align))
  BY <1>1, UintText
<1>3. H!FmtUint(n, negative, spec) =
        IF FillsZeros(spec) THEN sign \o prefix \o Fill("0", pad) \o digits
        ELSE H!ApplyWidth(body, spec)
  <2> DEFINE table == IF spec.ty = "X" THEN UpperDigit ELSE Digit
  <2>1. H!ToDigits(n, Base(spec.ty), table) = digits
    <3>1. Base(spec.ty) \in 2..16
      BY DEF Base
    <3>2. \A i \in 1..16 : table[i] \in DigitChars
      BY DigitType
    <3> HIDE DEF table
    <3>3. H!ToDigits(n, Base(spec.ty), table) = WriteDigits(n, Base(spec.ty), table)
      BY <3>1, <3>2, SameDigits
    <3> QED
      BY <3>3 DEF UintDigits, table
  <2>2. /\ H!SignOf(negative, spec) = sign /\ H!Prefix(spec) = prefix
        /\ H!Base(spec.ty) = Base(spec.ty)
        /\ H!UpperDigit = UpperDigit /\ H!Digit = Digit
        /\ \A k : H!Pad(spec, k) = Pad(spec, k)
        /\ \A c, k : H!Fill(c, k) = Fill(c, k)
    BY HostParts
  <2>3. body = sign \o prefix \o digits
    BY DEF UintBody
  <2> HIDE DEF digits, body, sign, prefix
  <2>4. H!FmtUint(n, negative, spec) =
          LET p == Pad(spec, Len(sign) + Len(prefix) + Len(digits)) IN
          IF spec.zero /\ spec.align = ""
          THEN sign \o prefix \o Fill("0", p) \o digits
          ELSE H!ApplyWidth(sign \o prefix \o digits, spec)
    BY <2>1, <2>2 DEF H!FmtUint
  <2> QED
    BY <1>2, <2>3, <2>4 DEF FillsZeros
<1>4. CASE FillsZeros(spec)
  BY <1>2, <1>3, <1>4
<1>5. CASE ~FillsZeros(spec)
  <2>1. spec.width <= Len(body) \/ spec.align # ""
    <3>1. CASE spec.align # "" \/ spec.zero
      BY <1>5, <3>1 DEF FillsZeros
    <3>2. CASE spec.width <= Len(FlattenSeq(FmtUint(n, narrow, negative)))
      <4>1. IsSpec(narrow) /\ narrow.width = 0 /\ narrow.align = spec.align
            /\ narrow.sign = spec.sign /\ narrow.zero = spec.zero
            /\ narrow.alternate = spec.alternate /\ narrow.ty = spec.ty
        BY NarrowSpec
      <4> HIDE DEF narrow
      <4>2. ~FillsZeros(narrow)
        BY <1>5, <4>1 DEF FillsZeros
      <4>3. /\ SignOf(negative, narrow) = sign /\ Prefix(narrow) = prefix
            /\ UintDigits(n, narrow) = digits
            /\ UintBody(n, narrow, negative) = body
        BY <4>1 DEF SignOf, Prefix, UintDigits, UintBody
      <4>4. FlattenSeq(FmtUint(n, narrow, negative)) =
              FlattenSeq(Aligned(three, Pad(narrow, Len(body)), narrow.align))
        BY <4>1, <4>2, <4>3, UintText
      <4>5. narrow.width <= Len(body)
        <5>1. body \in Seq(Char)
          BY <1>2
        <5> HIDE DEF body
        <5>2. Len(body) \in Nat
          BY <5>1, LenProperties
        <5> QED
          BY <4>1, <5>2
      <4> HIDE DEF three, body
      <4>6. FlattenSeq(Aligned(three, Pad(narrow, Len(body)), narrow.align)) = body
        BY <1>2, <4>1, <4>5, AlignedAlike
      <4> QED
        BY <3>2, <4>4, <4>6 DEF narrow
    <3> QED
      BY <3>1, <3>2 DEF PadsAlike
  <2> HIDE DEF three, body
  <2>2. three \in Seq(Seq(Char)) /\ body = FlattenSeq(three)
    BY <1>2
  <2>3. FlattenSeq(Aligned(three, pad, spec.align)) = H!ApplyWidth(body, spec)
    <3>1. /\ spec.width <= Len(body) =>
               /\ FlattenSeq(Aligned(three, Pad(spec, Len(body)), spec.align)) = body
               /\ H!ApplyWidth(body, spec) = body
          /\ spec.align # "" =>
               FlattenSeq(Aligned(three, Pad(spec, Len(body)), spec.align)) =
                 H!ApplyWidth(body, spec)
      BY <1>1, <2>2, AlignedAlike
    <3> QED
      BY <2>1, <3>1 DEF pad
  <2> QED
    BY <1>2, <1>3, <1>5, <2>3
<1> QED
  BY <1>4, <1>5

(* Texts of one piece: the device pads them if there is an alignment, the  *)
(* host in any case.                                                       *)
LEMMA StrAlike ==
  ASSUME NEW text \in Seq(Char), NEW spec \in Specs
  PROVE  /\ FlattenSeq(FmtStrValue(text, Narrow(spec))) = text
         /\ spec.width <= Len(text) =>
              /\ FlattenSeq(FmtStrValue(text, spec)) = text
              /\ H!ApplyWidth(text, spec) = text
         /\ spec.align = "" => FlattenSeq(FmtStrValue(text, spec)) = text
         /\ spec.align # "" =>
              FlattenSeq(FmtStrValue(text, spec)) = H!ApplyWidth(text, spec)
<1> DEFINE narrow == Narrow(spec)
           one == <<text>>
<1>1. IsSpec(spec) /\ IsSpec(narrow) /\ narrow.width = 0
  BY NarrowSpec
<1>2. one \in Seq(Seq(Char)) /\ text = FlattenSeq(one)
  BY OneElement, FlattenOne
<1>3. /\ FmtStrValue(text, spec) = Aligned(one, Pad(spec, Len(text)), spec.align)
      /\ FmtStrValue(text, narrow) = Aligned(one, Pad(narrow, Len(text)), narrow.align)
  BY DEF FmtStrValue
<1> HIDE DEF narrow, one
<1>4. Len(text) \in Nat
  BY LenProperties
<1>5. narrow.width <= Len(text)
  BY <1>1, <1>4
<1>6. FlattenSeq(Aligned(one, Pad(narrow, Len(text)), narrow.align)) = text
  BY <1>1, <1>2, <1>5, AlignedAlike
<1>7. /\ spec.width <= Len(text) =>
           /\ FlattenSeq(Aligned(one, Pad(spec, Len(text)), spec.align)) = text
           /\ H!ApplyWidth(text, spec) = text
      /\ spec.align = "" =>
           FlattenSeq(Aligned(one, Pad(spec, Len(text)), spec.align)) = text
      /\ spec.align # "" =>
           FlattenSeq(Aligned(one, Pad(spec, Len(text)), spec.align)) =
             H!ApplyWidth(text, spec)
  BY <1>1, <1>2, AlignedAlike
<1> QED
  BY <1>3, <1>6, <1>7 DEF narrow

(* The decimal places of a float: the host writes zeros and the digits.    *)
LEMMA DecimalPlaces ==
  ASSUME NEW f \in Nat, f < Values(8), NEW p \in Nat \ {0}, f < Power(10, p)
  PROVE  LET digits == WriteDigits(f, 10, Digit) IN
         /\ digits \in Seq(Char) /\ Len(digits) \in 1..p
         /\ Fill("0", p - Len(digits)) \in Seq(Char)
         /\ LowDigits(f, p) = Fill("0", p - Len(digits)) \o digits
<1> DEFINE c == DigitCount(f, 10)
           digits == WriteDigits(f, 10, Digit)
           place(k) == Digit[((f \div Power(10, k)) % 10) + 1]
           zeros == Fill("0", p - c)
<1>1. 10 \in 2..16 /\ 10 \in Nat /\ 10 >= 2 /\ 10 \in Nat \ {0}
      /\ \A i \in 1..16 : Digit[i] \in DigitChars
  BY DigitType
<1>2. c \in 1 .. 8 * ByteBits /\ (c = 1 \/ Power(10, c - 1) <= f)
  BY <1>1, DigitCountFacts
<1>3. c \in Nat \ {0}
  BY <1>2, FormatAssumption
<1> HIDE DEF c
<1>4. c <= p
  <2>1. SUFFICES ASSUME ~(c <= p) PROVE FALSE
    OBVIOUS
  <2>2. p <= c - 1 /\ c - 1 \in Nat /\ c # 1
    BY <1>3, <2>1
  <2>3. Power(10, p) <= Power(10, c - 1)
    BY <1>1, <2>2, PowerIsMonotone
  <2>4. Power(10, p) \in Nat /\ Power(10, c - 1) \in Nat
    BY <1>1, <2>2, PowerIsPositive
  <2> QED
    BY <1>2, <2>2, <2>3, <2>4
<1>5. digits = [i \in 1..c |-> place(c - i)]
  BY DEF WriteDigits, c
<1>6. LowDigits(f, p) = [i \in 1..p |-> IF p - i >= c THEN "0" ELSE place(p - i)]
  BY DEF LowDigits, c
<1>7. digits \in Seq(Char)
  BY <1>1, WriteDigitsType
<1>8. zeros \in Seq(Char) /\ Len(zeros) = p - c /\ \A i \in 1 .. p - c : zeros[i] = "0"
  <2>1. "0" \in Char
    BY Zenon DEF Char, DigitChars
  <2>2. p - c \in Nat
    BY <1>3, <1>4
  <2>3. zeros \in Seq(Char) /\ Len(zeros) = p - c
    BY <2>1, <2>2, FillType
  <2> QED
    BY <2>3 DEF Fill
<1>9. LowDigits(f, p) \in Seq(Char)
  BY LowDigitsType
<1> HIDE DEF digits, place, zeros
<1>10. Len(digits) = c /\ \A i \in 1..c : digits[i] = place(c - i)
  BY <1>3, <1>5, <1>7
<1> DEFINE t == zeros \o digits
           l == LowDigits(f, p)
<1>11. t \in Seq(Char) /\ Len(t) = p
       /\ \A i \in 1..p : t[i] = IF i <= p - c THEN zeros[i] ELSE digits[i - (p - c)]
  <2>1. /\ t \in Seq(Char) /\ Len(t) = Len(zeros) + Len(digits)
        /\ \A i \in 1 .. Len(zeros) + Len(digits) :
             t[i] = IF i <= Len(zeros) THEN zeros[i] ELSE digits[i - Len(zeros)]
    BY <1>7, <1>8, ConcatProperties
  <2>2. Len(zeros) + Len(digits) = p
    BY <1>3, <1>4, <1>8, <1>10
  <2> HIDE DEF t
  <2> QED
    BY <1>8, <2>1, <2>2
<1>12. Len(l) = p /\ \A i \in 1..p : l[i] = IF p - i >= c THEN "0" ELSE place(p - i)
  BY <1>6, <1>9
<1> HIDE DEF t, l
<1>13. ASSUME NEW i \in 1..p
       PROVE  t[i] = l[i]
  <2>1. CASE i <= p - c
    <3>1. p - i >= c /\ i \in 1 .. p - c
      BY <1>3, <1>4, <2>1
    <3> QED
      BY <1>8, <1>11, <1>12, <2>1, <3>1
  <2>2. CASE ~(i <= p - c)
    <3> DEFINE j == i - (p - c)
    <3>1. j \in 1..c /\ c - j = p - i /\ ~(p - i >= c)
      BY <1>3, <1>4, <2>2
    <3>2. t[i] = digits[j]
      BY <1>11, <2>2
    <3> HIDE DEF j
    <3> QED
      BY <1>10, <1>12, <3>1, <3>2
  <2> QED
    BY <2>1, <2>2
<1>14. t = l
  BY <1>9, <1>11, <1>12, <1>13 DEF l
<1>15. Len(digits) \in 1..p /\ Fill("0", p - Len(digits)) = zeros
  BY <1>3, <1>4, <1>10 DEF zeros
<1> QED
  BY <1>7, <1>8, <1>14, <1>15 DEF t, l, digits

(* An optional number is a number.                                         *)
LEMMA OrElseType ==
  ASSUME NEW option, option \subseteq Nat, NEW n \in Nat
  PROVE  OrElse(option, n) \in Nat
BY DEF OrElse

\* The text of a float, without padding.
FloatText(v, spec) ==
  LET precision == OrElse(spec.precision, 6)
      count == IF precision < FracBuffer THEN precision ELSE FracBuffer
      point == IF precision > 0 THEN <<".">> ELSE <<>> IN
  SignOf(v.negative, spec) \o WriteDigits(IntFinal(v, precision), 10, Digit)
    \o point \o LowDigits(FracFinal(v, precision), count)

\* Neither a plus sign nor the minus of a zero is shown.
ShowsMinusOnly(v, spec) == IF v.negative THEN v.units > 0 ELSE ~spec.sign

(* Then floats look alike, as long as there are no more decimal places     *)
(* than the device's buffer has.                                           *)
LEMMA FloatAlike ==
  ASSUME NEW v \in FloatValues, NEW spec, IsSpec(spec),
         ShowsMinusOnly(v, spec), NEW option, option \subseteq Nat,
         NEW precision, precision = OrElse(spec.precision, 6),
         precision = OrElse(option, 6), precision <= FracBuffer
  PROVE  /\ FloatText(v, spec) \in Seq(Char)
         /\ FmtFloat(v, spec) = FmtStrValue(FloatText(v, spec), spec)
         /\ FloatText(v, spec) = H!FormatFloat(v, option)
<1> DEFINE whole == IntFinal(v, precision)
           part == FracFinal(v, precision)
           sign == SignOf(v.negative, spec)
           int == WriteDigits(whole, 10, Digit)
           frac == WriteDigits(part, 10, Digit)
           low == LowDigits(part, precision)
           zeros == Fill("0", precision - Len(frac))
           point == <<".">>
           digits == sign \o int
<1>1. precision \in Nat
  BY OrElseType
<1>2. U64Max \in Nat /\ U64Max < Values(8) /\ Values(8) \in Nat
  BY ValuesFacts DEF U64Max
<1>3. FracBuffer \in Nat /\ U64Max < Power(10, FracBuffer)
  <2>1. FracBuffer \in 1 .. 8 * ByteBits /\ U64Max < Power(10, FracBuffer)
    BY <1>2, DigitCountFacts DEF FracBuffer
  <2> QED
    BY <2>1, FormatAssumption
<1>4. whole \in Nat /\ whole < Values(8) /\ part \in Nat /\ part < Values(8)
      /\ part < Power(10, precision)
  <2>1. /\ whole \in Nat /\ whole < Values(8) /\ part \in Nat
        /\ part < Pow10(precision)
    BY <1>1, FinalParts
  <2>2. Pow10(precision) \in Nat /\ Pow10(precision) <= U64Max
    BY <1>1, Pow10Type
  <2>3. Pow10(precision) = IF precision < FracBuffer THEN Power(10, precision) ELSE U64Max
    BY DEF Pow10, FracBuffer
  <2>4. Power(10, precision) \in Nat
    BY <1>1, PowerIsPositive
  <2> HIDE DEF whole, part
  <2>5. part < Values(8)
    BY <1>2, <2>1, <2>2
  <2>6. CASE precision < FracBuffer
    BY <2>1, <2>3, <2>5, <2>6
  <2>7. CASE ~(precision < FracBuffer)
    <3>1. precision = FracBuffer
      BY <1>1, <1>3, <2>7
    <3>2. part < U64Max /\ U64Max < Power(10, precision)
      BY <1>3, <2>1, <2>3, <2>7, <3>1
    <3>3. part < Power(10, precision)
      BY <1>2, <2>1, <2>4, <3>2
    <3> QED
      BY <2>1, <2>5, <3>3
  <2> QED
    BY <2>6, <2>7
<1> HIDE DEF whole, part
<1>5. 10 \in 2..16 /\ Digit \in {Digit, UpperDigit} /\ \A i \in 1..16 : Digit[i] \in DigitChars
  BY DigitType
<1>6. sign \in Seq(Char)
  <2>1. v.negative \in BOOLEAN
    BY DEF FloatValues
  <2> QED
    BY <2>1, SignAndPrefixType
<1>7. int \in Seq(Char) /\ frac \in Seq(Char) /\ low \in Seq(Char)
      /\ H!ToDigits(whole, 10, Digit) = int /\ H!ToDigits(part, 10, Digit) = frac
  BY <1>1, <1>4, <1>5, WriteDigitsType, LowDigitsType, SameDigits
<1>8. point \in Seq(Char) /\ <<>> \in Seq(Char)
  <2>1. "." \in Char
    BY Zenon DEF Char
  <2> QED
    BY <2>1, OneElement, EmptySeq
<1>9. SignOf(v.negative, spec) = IF v.negative /\ v.units > 0 THEN <<"-">> ELSE <<>>
  <2>1. CASE v.negative
    <3>1. v.units > 0
      BY <2>1 DEF ShowsMinusOnly
    <3> QED
      BY <2>1, <3>1, Zenon DEF SignOf
  <2>2. CASE ~v.negative
    <3>1. ~spec.sign
      BY <2>2 DEF ShowsMinusOnly
    <3> QED
      BY <2>2, <3>1, Zenon DEF SignOf
  <2> QED
    BY <2>1, <2>2
<1>10. H!FormatFloat(v, option) =
         LET places == IF precision > Len(frac) THEN zeros ELSE <<>> IN
         IF precision = 0 THEN digits ELSE digits \o point \o places \o frac
  <2>1. H!OrElse(option, 6) = precision /\ H!Digit = Digit
        /\ H!Fill("0", precision - Len(frac)) = zeros
    BY HostParts
  <2>2. H!D!IntFinal(v, precision) = whole /\ H!D!FracFinal(v, precision) = part
    BY HostFloat DEF whole, part
  <2> HIDE DEF int, frac, zeros
  <2>3. sign = IF v.negative /\ v.units > 0 THEN <<"-">> ELSE <<>>
    BY <1>9
  <2> HIDE DEF sign
  <2>4. H!FormatFloat(v, option) =
          LET s == IF v.negative /\ v.units > 0 THEN <<"-">> ELSE <<>>
              places == IF precision > Len(frac) THEN zeros ELSE <<>> IN
          IF precision = 0 THEN s \o int ELSE s \o int \o <<".">> \o places \o frac
    BY <1>7, <2>1, <2>2 DEF H!FormatFloat
  <2> QED
    BY <2>3, <2>4
<1>11. FloatText(v, spec) =
         digits \o (IF precision > 0 THEN point ELSE <<>>) \o low
  <2>1. precision = IF precision < FracBuffer THEN precision ELSE FracBuffer
    BY <1>1, <1>3
  <2>2. FloatText(v, spec) =
          SignOf(v.negative, spec) \o WriteDigits(IntFinal(v, precision), 10, Digit)
            \o (IF precision > 0 THEN <<".">> ELSE <<>>)
            \o LowDigits(FracFinal(v, precision),
                         IF precision < FracBuffer THEN precision ELSE FracBuffer)
    BY DEF FloatText
  <2> QED
    BY <2>1, <2>2 DEF whole, part
<1>12. FmtFloat(v, spec) = FmtStrValue(FloatText(v, spec), spec)
  BY Zenon DEF FmtFloat, FloatText
<1> HIDE DEF sign, int, frac, point
<1>13. digits \in Seq(Char)
  BY <1>6, <1>7, ConcatProperties
<1> HIDE DEF digits, low
<1>14. CASE precision = 0
  <2>1. low = <<>>
    BY <1>14 DEF low, LowDigits
  <2>2. digits \o <<>> = digits
    BY <1>13, ConcatEmptySeq
  <2>3. (IF precision > 0 THEN point ELSE <<>>) = <<>>
    BY <1>14
  <2>4. FloatText(v, spec) = digits
    BY <1>11, <2>1, <2>2, <2>3
  <2>5. H!FormatFloat(v, option) = digits
    BY <1>10, <1>14, Zenon
  <2> QED
    BY <1>12, <1>13, <2>4, <2>5
<1>15. CASE precision # 0
  <2>1. precision \in Nat \ {0} /\ precision > 0
    BY <1>1, <1>15
  <2>2. /\ Len(frac) \in 1..precision /\ zeros \in Seq(Char)
        /\ low = zeros \o frac
    BY <1>4, <2>1, DecimalPlaces DEF frac, low
  <2>3. (IF precision > Len(frac) THEN zeros ELSE <<>>) = zeros
    <3>1. CASE precision > Len(frac)
      BY <3>1
    <3>2. CASE ~(precision > Len(frac))
      <4>1. precision - Len(frac) = 0
        BY <1>1, <2>2, <3>2
      <4> QED
        BY <3>2, <4>1, NothingToFill
    <3> QED
      BY <3>1, <3>2
  <2> HIDE DEF zeros
  <2> DEFINE a == digits \o point
  <2>4. a \in Seq(Char)
    BY <1>8, <1>13, ConcatProperties
  <2> HIDE DEF a
  <2>5. (a \o zeros) \o frac = a \o (zeros \o frac)
    <3>1. a \in Seq(Char) /\ zeros \in Seq(Char) /\ frac \in Seq(Char)
      BY <1>7, <2>2, <2>4
    <3> QED
      BY <3>1, TextAssociative, Zenon
  <2>6. a \o low \in Seq(Char)
    BY <1>7, <2>4, ConcatProperties
  <2>7. H!FormatFloat(v, option) = (a \o zeros) \o frac
    BY <1>10, <1>15, <2>3 DEF a
  <2>8. FloatText(v, spec) = a \o low
    BY <1>11, <2>1 DEF a
  <2> QED
    BY <1>12, <2>2, <2>5, <2>6, <2>7, <2>8
<1> QED
  BY <1>14, <1>15

(* The four characters of a FourCC are the same on both sides.             *)
LEMMA FourCCAlike ==
  ASSUME NEW v
  PROVE  FlattenSeq(FmtFourcc(LeBytes(v))) =
           H!FlattenSeq([i \in 1..v.size |-> H!FourCC(H!LeBytes(v)[i])])
<1>1. DOMAIN LeBytes(v) = 1..v.size
  BY DEF LeBytes
<1>2. FmtFourcc(LeBytes(v)) = [i \in 1..v.size |-> FourCC(LeBytes(v)[i])]
  BY <1>1 DEF FmtFourcc
<1>3. [i \in 1..v.size |-> H!FourCC(H!LeBytes(v)[i])] =
        [i \in 1..v.size |-> FourCC(LeBytes(v)[i])]
  BY HostValue
<1> QED
  BY <1>2, <1>3, HostValue

(* When both pad alike.                                                    *)
LEMMA WhenSamePadding ==
  ASSUME NEW v, NEW spec \in Specs, SamePadding(v, spec)
  PROVE  LET fits == spec.width <= Len(FlattenSeq(Fmt(v, Narrow(spec), build.no64))) IN
         /\ v.kind \in {"uint", "sint", "pair"} /\ spec.ty # "c" =>
              fits \/ spec.align # "" \/ spec.zero
         /\ v.kind = "str" /\ spec.ty # "c" => fits \/ spec.align # ""
         /\ v.kind = "str" /\ spec.ty = "c" => fits \/ spec.align = ""
         /\ v.kind \in {"float", "nonfinite", "bool"} => fits \/ spec.align = ""
<1> DEFINE length == Len(FlattenSeq(Fmt(v, [spec EXCEPT !.width = 0], build.no64)))
           fits == spec.width <= length
           devicePads ==
             spec.align # "" \/ (v.kind \in {"uint", "sint", "pair"} /\ spec.zero)
           hostPads ==
             v.kind \in {"uint", "sint", "pair", "str"} /\ ~(v.kind = "str" /\ spec.ty = "c")
<1>1. fits = (spec.width <= Len(FlattenSeq(Fmt(v, Narrow(spec), build.no64))))
  BY Zenon DEF Narrow
<1>2. \/ fits
      \/ v.kind \in {"uint", "sint"} /\ spec.ty = "c"
      \/ devicePads <=> hostPads
  BY Zenon DEF SamePadding
<1> HIDE DEF length, fits
<1>3. CASE v.kind \in {"uint", "sint", "pair"}
  <2>1. hostPads /\ (spec.ty # "c" => fits \/ devicePads)
    <3>1. spec.ty # "c" => hostPads
      BY <1>3
    <3> QED
      BY <1>2, <1>3, <3>1
  <2> QED
    BY <1>1, <1>3, <2>1
<1>4. CASE v.kind = "str"
  <2>1. devicePads <=> spec.align # ""
    BY <1>4
  <2>2. hostPads <=> spec.ty # "c"
    BY <1>4
  <2>3. fits \/ (spec.align # "" <=> spec.ty # "c")
    BY <1>2, <1>4, <2>1, <2>2
  <2> QED
    BY <1>1, <1>4, <2>3
<1>5. CASE v.kind \in {"float", "nonfinite", "bool"}
  <2>1. devicePads <=> spec.align # ""
    BY <1>5
  <2>2. ~hostPads
    BY <1>5
  <2>3. fits \/ spec.align = ""
    BY <1>2, <1>5, <2>1, <2>2
  <2> QED
    BY <1>1, <1>5, <2>3
<1> QED
  BY <1>3, <1>4, <1>5

\* How an integer is formatted: the number and whether it has a minus.
IsFormattedAs(v, spec, n, negative) ==
  /\ n \in Nat /\ n < Values(8) /\ negative \in BOOLEAN
  /\ Fmt(v, spec, build.no64) = FmtUint(n, spec, negative)
  /\ Fmt(v, Narrow(spec), build.no64) = FmtUint(n, Narrow(spec), negative)
  /\ H!DisplaySpec(v, spec) = H!FmtUint(n, negative, spec)

(* Both sides show the same number of an integer, unless it is a negative  *)
(* i8 in another base than 10.                                             *)
LEMMA SameNumber ==
  ASSUME NEW v \in IntValues, NEW spec \in Specs, spec.ty # "c",
         v.kind = "pair" => ~build.no64, SameContent(v, spec)
  PROVE  \E n, negative : IsFormattedAs(v, spec, n, negative)
<1> DEFINE narrow == Narrow(spec)
<1>1. /\ v.bits \in Nat /\ v.kind \in {"uint", "sint", "pair"}
      /\ v.size \in {1, 2, 4, 8} /\ v.bits < Values(v.size)
  BY DEF IntValues
<1>2. v.bits < Values(8)
  BY <1>1, ValuesFacts
<1>3. narrow.ty = spec.ty
  BY NarrowSpec
<1> HIDE DEF narrow
<1>4. UnsignedAbs(v) \in Nat /\ UnsignedAbs(v) < Values(8) /\ IsNegative(v) \in BOOLEAN
  BY UnsignedAbsType DEF IsNegative
<1>5. PICK no \in BOOLEAN : no = FALSE
  OBVIOUS
<1>6. CASE v.kind \in {"uint", "pair"}
  <2>1. /\ Fmt(v, spec, build.no64) = FmtUint(v.bits, spec, no)
        /\ Fmt(v, narrow, build.no64) = FmtUint(v.bits, narrow, no)
    BY <1>3, <1>5, <1>6 DEF Fmt
  <2>2. H!DisplaySpec(v, spec) = H!FmtUint(v.bits, no, spec)
    BY <1>5, <1>6 DEF H!DisplaySpec
  <2>3. IsFormattedAs(v, spec, v.bits, no)
    BY <1>1, <1>2, <2>1, <2>2 DEF IsFormattedAs, narrow
  <2> QED
    BY <2>3
<1>7. CASE v.kind = "sint" /\ spec.ty = ""
  <2> DEFINE n == UnsignedAbs(v)
             negative == IsNegative(v)
  <2>1. /\ Fmt(v, spec, build.no64) = FmtUint(n, spec, negative)
        /\ Fmt(v, narrow, build.no64) = FmtUint(n, narrow, negative)
    BY <1>3, <1>7 DEF Fmt, FmtSint
  <2>2. H!DisplaySpec(v, spec) = H!FmtInt(v, spec)
    BY <1>7 DEF H!DisplaySpec
  <2>3. H!FmtInt(v, spec) = H!FmtUint(H!UnsignedAbs(v), H!IsNegative(v), spec)
    BY <1>7 DEF H!FmtInt
  <2>4. H!UnsignedAbs(v) = n /\ H!IsNegative(v) = negative
    BY HostValue
  <2>5. IsFormattedAs(v, spec, n, negative)
    BY <1>4, <2>1, <2>2, <2>3, <2>4 DEF IsFormattedAs, narrow
  <2> QED
    BY <2>5
<1>8. CASE v.kind = "sint" /\ spec.ty # ""
  <2>1. /\ Fmt(v, spec, build.no64) = FmtUint(v.bits, spec, no)
        /\ Fmt(v, narrow, build.no64) = FmtUint(v.bits, narrow, no)
    BY <1>3, <1>5, <1>8 DEF Fmt, FmtSint
  <2>2. H!Bits(v) = v.bits
    <3>1. v.size > 1 \/ ~IsNegative(v)
      BY <1>8 DEF SameContent
    <3>2. ~(v.size = 1 /\ IsNegative(v))
      BY <1>1, <3>1
    <3>3. H!IsNegative(v) = IsNegative(v)
      BY HostValue
    <3> QED
      BY <3>2, <3>3, Zenon DEF H!Bits
  <2>3. H!DisplaySpec(v, spec) = H!FmtInt(v, spec)
    BY <1>8 DEF H!DisplaySpec
  <2>4. H!FmtInt(v, spec) = H!FmtUint(v.bits, no, spec)
    BY <1>5, <1>8, <2>2 DEF H!FmtInt
  <2>5. IsFormattedAs(v, spec, v.bits, no)
    BY <1>1, <1>2, <2>1, <2>3, <2>4 DEF IsFormattedAs, narrow
  <2> QED
    BY <2>5
<1> QED
  BY <1>1, <1>6, <1>7, <1>8

(* Integers with the same content and padding.                             *)
LEMMA IntAlike ==
  ASSUME NEW v \in IntValues, NEW spec \in Specs,
         v.kind = "pair" => ~build.no64, SameContent(v, spec), SamePadding(v, spec)
  PROVE  FlattenSeq(Fmt(v, spec, build.no64)) = H!DisplaySpec(v, spec)
<1>1. v.kind \in {"uint", "sint", "pair"}
  BY DEF IntValues
<1>2. CASE spec.ty = "c"
  <2>1. v.kind \in {"uint", "sint"}
    BY <1>1, <1>2 DEF SameContent
  <2>2. Fmt(v, spec, build.no64) = FmtFourcc(LeBytes(v))
    BY <1>2, <2>1 DEF Fmt
  <2>3. H!DisplaySpec(v, spec) =
          H!FlattenSeq([i \in 1..v.size |-> H!FourCC(H!LeBytes(v)[i])])
    BY <1>2, <2>1 DEF H!DisplaySpec, H!IsInteger
  <2> QED
    BY <2>2, <2>3, FourCCAlike
<1>3. CASE spec.ty # "c"
  <2>1. PICK n, negative : IsFormattedAs(v, spec, n, negative)
    BY <1>3, SameNumber
  <2>2. /\ n \in Nat /\ n < Values(8) /\ negative \in BOOLEAN
        /\ Fmt(v, spec, build.no64) = FmtUint(n, spec, negative)
        /\ Fmt(v, Narrow(spec), build.no64) = FmtUint(n, Narrow(spec), negative)
        /\ H!DisplaySpec(v, spec) = H!FmtUint(n, negative, spec)
    BY <2>1 DEF IsFormattedAs
  <2>3. \/ spec.width <= Len(FlattenSeq(Fmt(v, Narrow(spec), build.no64)))
        \/ spec.align # "" \/ spec.zero
    BY <1>1, <1>3, WhenSamePadding
  <2>4. PadsAlike(n, spec, negative)
    BY <2>2, <2>3, Zenon DEF PadsAlike
  <2>5. FlattenSeq(FmtUint(n, spec, negative)) = H!FmtUint(n, negative, spec)
    BY <2>2, <2>4, UintAlike
  <2> QED
    BY <2>2, <2>5
<1> QED
  BY <1>2, <1>3

(* A text that is padded is shown as by the host's ApplyWidth, one that is *)
(* not, as it is.                                                          *)
LEMMA PaddedAlike ==
  ASSUME NEW v, NEW spec \in Specs, NEW text \in Seq(Char),
         Fmt(v, spec, build.no64) = FmtStrValue(text, spec),
         Fmt(v, Narrow(spec), build.no64) = FmtStrValue(text, Narrow(spec)),
         SamePadding(v, spec)
  PROVE  /\ v.kind = "str" /\ spec.ty # "c" =>
              FlattenSeq(Fmt(v, spec, build.no64)) = H!ApplyWidth(text, spec)
         /\ v.kind = "str" /\ spec.ty = "c" =>
              FlattenSeq(Fmt(v, spec, build.no64)) = text
         /\ v.kind \in {"float", "nonfinite", "bool"} =>
              FlattenSeq(Fmt(v, spec, build.no64)) = text
<1> DEFINE fits == spec.width <= Len(text)
<1>1. /\ FlattenSeq(FmtStrValue(text, Narrow(spec))) = text
      /\ fits =>
           /\ FlattenSeq(FmtStrValue(text, spec)) = text
           /\ H!ApplyWidth(text, spec) = text
      /\ spec.align = "" => FlattenSeq(FmtStrValue(text, spec)) = text
      /\ spec.align # "" =>
           FlattenSeq(FmtStrValue(text, spec)) = H!ApplyWidth(text, spec)
  BY StrAlike
<1>2. (spec.width <= Len(FlattenSeq(Fmt(v, Narrow(spec), build.no64)))) = fits
  BY <1>1
<1>3. /\ v.kind = "str" /\ spec.ty # "c" => fits \/ spec.align # ""
      /\ v.kind = "str" /\ spec.ty = "c" => fits \/ spec.align = ""
      /\ v.kind \in {"float", "nonfinite", "bool"} => fits \/ spec.align = ""
  BY <1>2, WhenSamePadding
<1> HIDE DEF fits
<1> QED
  BY <1>1, <1>3

(* Strings, bools and what is no finite number.                            *)
LEMMA WordAlike ==
  ASSUME NEW v \in WordValues, NEW spec \in Specs, SamePadding(v, spec)
  PROVE  FlattenSeq(Fmt(v, spec, build.no64)) = H!DisplaySpec(v, spec)
<1>1. v.kind \in {"nonfinite", "bool", "str"} /\ v.text \in Seq(STRING)
  BY DEF WordValues
<1>2. v.text \in Seq(Char)
  BY <1>1, TextIsOfChars
<1>3. /\ Fmt(v, spec, build.no64) = FmtStrValue(v.text, spec)
      /\ Fmt(v, Narrow(spec), build.no64) = FmtStrValue(v.text, Narrow(spec))
  BY <1>1 DEF Fmt
<1>4. /\ v.kind = "str" /\ spec.ty # "c" =>
           FlattenSeq(Fmt(v, spec, build.no64)) = H!ApplyWidth(v.text, spec)
      /\ v.kind = "str" /\ spec.ty = "c" =>
           FlattenSeq(Fmt(v, spec, build.no64)) = v.text
      /\ v.kind \in {"float", "nonfinite", "bool"} =>
           FlattenSeq(Fmt(v, spec, build.no64)) = v.text
  BY <1>2, <1>3, PaddedAlike
<1>5. CASE spec.ty = "c"
  <2>1. H!DisplaySpec(v, spec) = v.text
    BY <1>1, <1>5 DEF H!DisplaySpec, H!IsInteger, H!DisplayDefault
  <2> QED
    BY <1>1, <1>4, <1>5, <2>1
<1>6. CASE spec.ty # "c" /\ v.kind = "str"
  <2>1. H!DisplaySpec(v, spec) = H!ApplyWidth(v.text, spec)
    BY <1>6 DEF H!DisplaySpec
  <2> QED
    BY <1>4, <1>6, <2>1
<1>7. CASE spec.ty # "c" /\ v.kind \in {"nonfinite", "bool"}
  <2>1. H!DisplaySpec(v, spec) = v.text
    BY <1>7 DEF H!DisplaySpec
  <2> QED
    BY <1>4, <1>7, <2>1
<1> QED
  BY <1>1, <1>5, <1>6, <1>7

(* Finite floats with the same content and padding.                        *)
LEMMA FloatFieldAlike ==
  ASSUME NEW v \in FloatValues, NEW spec \in Specs,
         SameContent(v, spec), SamePadding(v, spec)
  PROVE  FlattenSeq(Fmt(v, spec, build.no64)) = H!DisplaySpec(v, spec)
<1> DEFINE precision == OrElse(spec.precision, 6)
           text == FloatText(v, spec)
           narrow == Narrow(spec)
<1>1. v.kind = "float"
  BY DEF FloatValues
<1>2. /\ ShowsMinusOnly(v, spec) /\ precision <= FracBuffer
      /\ spec.ty = "c" => precision = 6
  BY <1>1 DEF SameContent, ShowsMinusOnly
<1>3. /\ IsSpec(spec) /\ IsSpec(narrow) /\ spec.precision \subseteq Nat
      /\ narrow.precision = spec.precision /\ narrow.sign = spec.sign
  BY NarrowSpec DEF IsSpec
<1> HIDE DEF narrow
<1>4. OrElse({}, 6) = 6
  BY DEF OrElse
<1> HIDE DEF precision
<1>5. /\ text \in Seq(Char) /\ FmtFloat(v, spec) = FmtStrValue(text, spec)
      /\ text = H!FormatFloat(v, spec.precision)
  BY <1>2, <1>3, FloatAlike DEF precision
<1>6. spec.ty = "c" => text = H!FormatFloat(v, {})
  <2>1. SUFFICES ASSUME spec.ty = "c" PROVE text = H!FormatFloat(v, {})
    OBVIOUS
  <2>2. precision = OrElse({}, 6) /\ {} \subseteq Nat
    BY <1>2, <1>4, <2>1
  <2> QED
    BY <1>2, <1>3, <2>2, FloatAlike DEF precision
<1>7. FloatText(v, narrow) = text /\ ShowsMinusOnly(v, narrow)
  BY <1>2, <1>3 DEF FloatText, SignOf, ShowsMinusOnly
<1>8. FmtFloat(v, narrow) = FmtStrValue(text, narrow)
  <2>1. precision = OrElse(narrow.precision, 6)
    BY <1>3 DEF precision
  <2>2. FmtFloat(v, narrow) = FmtStrValue(FloatText(v, narrow), narrow)
    BY Zenon DEF FmtFloat, FloatText
  <2> QED
    BY <1>7, <2>2
<1>9. /\ Fmt(v, spec, build.no64) = FmtFloat(v, spec)
      /\ Fmt(v, narrow, build.no64) = FmtFloat(v, narrow)
  BY <1>1 DEF Fmt
<1> HIDE DEF text
<1>10. v.kind \in {"float", "nonfinite", "bool"} =>
         FlattenSeq(Fmt(v, spec, build.no64)) = text
  BY <1>5, <1>8, <1>9, PaddedAlike DEF narrow
<1>11. CASE spec.ty = "c"
  <2>1. H!DisplaySpec(v, spec) = H!FormatFloat(v, {})
    BY <1>1, <1>11 DEF H!DisplaySpec, H!IsInteger, H!DisplayDefault
  <2> QED
    BY <1>1, <1>6, <1>10, <1>11, <2>1
<1>12. CASE spec.ty # "c"
  <2>1. H!DisplaySpec(v, spec) = H!FormatFloat(v, spec.precision)
    BY <1>1, <1>12 DEF H!DisplaySpec
  <2> QED
    BY <1>1, <1>5, <1>10, <2>1
<1> QED
  BY <1>11, <1>12

(* Values with the same content and the same padding are shown alike.      *)
LEMMA FmtAlike ==
  ASSUME NEW v \in AllValues, NEW spec \in Specs,
         v.kind = "pair" => ~build.no64, SameContent(v, spec), SamePadding(v, spec)
  PROVE  FlattenSeq(Fmt(v, spec, build.no64)) = H!DisplaySpec(v, spec)
<1>1. CASE v \in IntValues
  BY <1>1, IntAlike
<1>2. CASE v \in HashValues
  <2>1. v.kind = "hash"
    BY <1>2 DEF HashValues
  <2>2. ~SameContent(v, spec)
    BY <2>1 DEF SameContent
  <2> QED
    BY <2>2
<1>3. CASE v \in FloatValues
  BY <1>3, FloatFieldAlike
<1>4. CASE v \in WordValues
  BY <1>4, WordAlike
<1> QED
  BY <1>1, <1>2, <1>3, <1>4 DEF AllValues

(* Joining all the pieces of all sequences of pieces.                      *)
LEMMA FlattenTwice ==
  ASSUME NEW T, NEW wss \in Seq(Seq(Seq(T)))
  PROVE  FlattenSeq(FlattenSeq(wss)) =
           FlattenSeq([i \in DOMAIN wss |-> FlattenSeq(wss[i])])
<1> DEFINE n == Len(wss)
           ts == [i \in DOMAIN wss |-> FlattenSeq(wss[i])]
<1>1. n \in Nat /\ DOMAIN wss = 1..n /\ \A i \in 1..n : wss[i] \in Seq(Seq(T))
  BY LenProperties, ElementOfSeq
<1>2. PICK g : Joined(Seq(T), wss, g)
  BY JoinedExists
<1>3. FlattenSeq(wss) = g[n]
  BY <1>2, FlattenIsJoined
<1>4. /\ g \in [0..n -> Seq(Seq(T))] /\ g[0] = <<>>
      /\ \A i \in 1..n : g[i] = g[i - 1] \o wss[i]
  BY <1>2 DEF Joined
<1> HIDE DEF n
<1>5. \A s \in Seq(Seq(T)) : FlattenSeq(s) \in Seq(T)
  BY FlattenConcat
<1> DEFINE h == [i \in 0..n |-> FlattenSeq(g[i])]
<1>6. h \in [0..n -> Seq(T)]
  BY <1>4, <1>5
<1>7. ts \in Seq(Seq(T)) /\ Len(ts) = n /\ \A i \in 1..n : ts[i] = FlattenSeq(wss[i])
  <2> DEFINE S == Seq(T)
  <2>1. \A i \in 1..n : FlattenSeq(wss[i]) \in S
    BY <1>1, <1>5
  <2> HIDE DEF S
  <2>2. ts \in [1..n -> S]
    BY <1>1, <2>1
  <2>3. ts \in Seq(S) /\ Len(ts) = n
    BY <1>1, <2>2
  <2> QED
    BY <1>1, <2>3 DEF S
<1>8. 0 \in 0..n /\ n \in 0..n
  BY <1>1
<1>9. h[0] = <<>> /\ h[n] = FlattenSeq(g[n])
  <2>1. FlattenSeq(<<>>) = <<>>
    <3> DEFINE e == [i \in 0..0 |-> <<>>]
    <3>1. <<>> \in Seq(Seq(T)) /\ Len(<<>>) = 0
      BY EmptySeq
    <3>2. e \in [0..0 -> Seq(T)] /\ e[0] = <<>>
      BY EmptySeq
    <3> HIDE DEF e
    <3>3. Joined(T, <<>>, e)
      BY <3>1, <3>2 DEF Joined
    <3>4. FlattenSeq(<<>>) = e[Len(<<>>)]
      BY <3>1, <3>3, FlattenIsJoined
    <3> QED
      BY <3>1, <3>2, <3>4
  <2>2. h[0] = FlattenSeq(g[0]) /\ h[n] = FlattenSeq(g[n])
    BY <1>8
  <2> HIDE DEF h
  <2> QED
    BY <1>4, <2>1, <2>2
<1>10. ASSUME NEW i \in 1..n
       PROVE  h[i] = h[i - 1] \o ts[i]
  <2>1. i \in 0..n /\ i - 1 \in 0..n
    BY <1>1
  <2>2. h[i] = FlattenSeq(g[i]) /\ h[i - 1] = FlattenSeq(g[i - 1])
    BY <2>1
  <2>3. g[i] = g[i - 1] \o wss[i] /\ g[i - 1] \in Seq(Seq(T)) /\ wss[i] \in Seq(Seq(T))
    BY <1>1, <1>4, <2>1
  <2>4. FlattenSeq(g[i - 1] \o wss[i]) = FlattenSeq(g[i - 1]) \o FlattenSeq(wss[i])
    BY <2>3, FlattenConcat
  <2>5. ts[i] = FlattenSeq(wss[i])
    BY <1>7
  <2> HIDE DEF h, ts
  <2> QED
    BY <2>2, <2>3, <2>4, <2>5
<1> HIDE DEF h, ts
<1>11. Joined(T, ts, h)
  BY <1>6, <1>7, <1>9, <1>10 DEF Joined
<1>12. FlattenSeq(ts) = h[n]
  BY <1>7, <1>11, FlattenIsJoined
<1> QED
  BY <1>3, <1>9, <1>12 DEF ts

(* A segment that is shown alike.                                          *)
LEMMA SegmentAlike ==
  ASSUME NEW s \in Segments, s.kind = "field" => MacroAccepts(s.written),
         build \in Builds, IsShownAlike(s)
  PROVE  SegmentText(s) = FlattenSeq(Writes(s))
<1>1. CASE s.kind = "literal"
  <2>1. s.text \in Seq(Char)
    BY <1>1, SegmentType
  <2>2. Writes(s) = <<s.text>> /\ SegmentText(s) = s.text
    BY <1>1 DEF Writes, SegmentText
  <2> QED
    BY <2>1, <2>2, FlattenOne
<1>2. CASE s.kind = "field"
  <2> DEFINE spec == MacroSpec(s.written)
  <2>1. s.value \in AllValues /\ s.written \in AllWritten
    BY <1>2, SegmentType
  <2>2. spec \in Specs /\ HostSpec(s.written) = spec
    BY <1>2, <2>1, MacroSpecType, SameSpec
  <2>3. Writes(s) = Fmt(s.value, spec, build.no64)
    BY <1>2 DEF Writes
  <2>4. SegmentText(s) = H!DisplaySpec(s.value, spec)
    BY <1>2, <2>2 DEF SegmentText
  <2>5. /\ s.value.kind = "pair" => ~build.no64
        /\ SameContent(s.value, spec) /\ SamePadding(s.value, spec)
    BY <1>2 DEF IsShownAlike
  <2> HIDE DEF spec
  <2>6. FlattenSeq(Fmt(s.value, spec, build.no64)) = H!DisplaySpec(s.value, spec)
    BY <2>1, <2>2, <2>5, FmtAlike
  <2> QED
    BY <2>3, <2>4, <2>6
<1> QED
  BY <1>1, <1>2, SegmentType

(* A format string all of whose fields are shown alike.                    *)
LEMMA FormatAlike ==
  ASSUME NEW format \in Seq(Segments), Accepted(format), build \in Builds,
         \A i \in DOMAIN format : IsShownAlike(format[i])
  PROVE  FlattenSeq([i \in DOMAIN format |-> SegmentText(format[i])]) =
           FlattenSeq(AllWrites(format))
<1> DEFINE wss == [i \in DOMAIN format |-> Writes(format[i])]
<1>1. wss \in Seq(Seq(Seq(Char)))
  BY AllWritesType
<1>2. DOMAIN wss = DOMAIN format /\ \A i \in DOMAIN format : wss[i] = Writes(format[i])
  OBVIOUS
<1>3. ASSUME NEW i \in DOMAIN format
      PROVE  SegmentText(format[i]) = FlattenSeq(wss[i])
  <2>1. format[i] \in Segments
    BY ElementOfSeq, LenProperties
  <2>2. format[i].kind = "field" => MacroAccepts(format[i].written)
    BY DEF Accepted
  <2>3. SegmentText(format[i]) = FlattenSeq(Writes(format[i]))
    BY <2>1, <2>2, SegmentAlike
  <2> QED
    BY <1>2, <2>3
<1>4. AllWrites(format) = FlattenSeq(wss)
  BY DEF AllWrites
<1> HIDE DEF wss
<1>5. FlattenSeq(FlattenSeq(wss)) = FlattenSeq([i \in DOMAIN wss |-> FlattenSeq(wss[i])])
  BY <1>1, FlattenTwice
<1>6. [i \in DOMAIN format |-> SegmentText(format[i])] =
        [i \in DOMAIN wss |-> FlattenSeq(wss[i])]
  BY <1>2, <1>3
<1> QED
  BY <1>4, <1>5, <1>6

(* What output-both sends twice is printed twice alike if all of its       *)
(* values are shown alike under their specs (SPEC.md:729): the host's text *)
(* of the event is the text that the device has sent.                      *)
THEOREM TextsStayAlike == OutputSpec => []TextsAgree
<1>1. ASSUME TypeInv
      PROVE  TextsAgree
  <2> SUFFICES ASSUME NEW p \in Pairs,
                      \A i \in DOMAIN program[frames[lines[p[1]].frame].call].format :
                        IsShownAlike(program[frames[lines[p[1]].frame].call].format[i])
               PROVE  HostText(frames[lines[p[1]].frame].call) =
                        frames[lines[p[2]].frame].text
    BY DEF TextsAgree
  <2> DEFINE k == lines[p[2]].frame
             c == frames[lines[p[1]].frame].call
  <2>1. /\ p[2] \in DOMAIN lines /\ frames[k].what = "message"
        /\ c = frames[k].call /\ frames[k].text = FullText(c)
    BY DEF Pairs
  <2>2. k \in Texts
    <3>1. k \in DOMAIN frames
      BY <1>1, <2>1 DEF TypeInv, LinesInv
    <3> QED
      BY <2>1, <3>1 DEF Texts
  <2> HIDE DEF k, c
  <2> DEFINE format == program[c].format
  <2>3. format \in Seq(Segments) /\ Accepted(format) /\ build \in Builds
    BY <1>1, <2>1, <2>2, MessageType DEF FormatOf
  <2>4. \A i \in DOMAIN format : IsShownAlike(format[i])
    BY DEF c
  <2>5. /\ HostText(c) = FlattenSeq([i \in DOMAIN format |-> SegmentText(format[i])])
        /\ FullText(c) = FlattenSeq(AllWrites(format))
    BY DEF HostText, FullText
  <2> HIDE DEF format
  <2>6. HostText(c) = FullText(c)
    BY <2>3, <2>4, <2>5, FormatAlike
  <2> QED
    BY <2>1, <2>6 DEF k, c
<1> QED
  BY <1>1, TypeHolds, PTL
=============================================================================
