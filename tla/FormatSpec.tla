------------------------------ MODULE FormatSpec ------------------------------
(***************************************************************************)
(* The values that events carry and the specs of the placeholders that     *)
(* show them.  The same spec is parsed twice: by the macro when the        *)
(* firmware is compiled (zfmt-macro/src/fmtstr.rs), and by the host when   *)
(* it prints the event (zfmt-host/src/interpret.rs).                       *)
(*                                                                         *)
(* A text is a sequence of characters of one byte each.  A spec is written *)
(* as the record of its parts, an optional part being a set of at most one *)
(* element; rest is what follows the precision.                            *)
(***************************************************************************)
EXTENDS Integers, Sequences, SequencesExt

CONSTANTS
  ByteBits,     \* 8: the bits of a byte
  FieldMax,     \* 255: the largest u8, for a width or a precision
  FracUnit,     \* bound: floats are multiples of 1/FracUnit
  Ascii         \* the printable bytes, each with its character

ASSUME FormatAssumption ==
  /\ ByteBits \in 1..8
  /\ FieldMax \in Nat
  /\ FracUnit \in Nat \ {0}
  /\ Ascii \in [DOMAIN Ascii -> STRING]

\* base^n, by multiplication
Power(base, n) ==
  LET powers[i \in 0..n] == IF i = 0 THEN 1 ELSE base * powers[i - 1] IN
  powers[n]

-----------------------------------------------------------------------------
(* Values.  An integer, a ZfmtU64 ("pair") and a ZfmtStr ("hash") are bits *)
(* of memory; a finite float is a sign and a number of units 1/FracUnit.   *)

UInt(size, bits) == [kind |-> "uint", size |-> size, bits |-> bits]
SInt(size, bits) == [kind |-> "sint", size |-> size, bits |-> bits]
Pair(bits) == [kind |-> "pair", size |-> 8, bits |-> bits]
Hash(bits, text) == [kind |-> "hash", size |-> 4, bits |-> bits, text |-> text]
Float(negative, units) ==
  [kind |-> "float", size |-> 8, negative |-> negative, units |-> units]

\* NaN and the infinities of a float, a bool, and a str
Word(kind, size, text) == [kind |-> kind, size |-> size, text |-> text]

Values(size) == Power(2, size * ByteBits)
U64Max == Values(8) - 1
AsU64(number) == IF number > U64Max THEN U64Max ELSE number

(* What a value can be: an integer is below the number of its values.      *)
IntValues ==
  {v \in [kind : {"uint", "sint", "pair"}, size : {1, 2, 4, 8}, bits : Nat] :
     v.bits < Values(v.size) /\ (v.kind = "pair" => v.size = 8)}

HashValues ==
  {v \in [kind : {"hash"}, size : {4}, bits : Nat, text : Seq(STRING)] :
     v.bits < Values(4)}

\* No double lies between U64Max and 2^64.
FloatValues ==
  {v \in [kind : {"float"}, size : {8}, negative : BOOLEAN, units : Nat] :
     v.units < FracUnit * U64Max \/ v.units >= FracUnit * Values(8)}

WordValues ==
  [kind : {"nonfinite", "bool", "str"}, size : Nat, text : Seq(STRING)]

AllValues == IntValues \cup HashValues \cup FloatValues \cup WordValues

IsNegative(v) == v.kind = "sint" /\ 2 * v.bits >= Values(v.size)
UnsignedAbs(v) == IF IsNegative(v) THEN Values(v.size) - v.bits ELSE v.bits
LeBytes(v) == [i \in 1..v.size |-> (v.bits \div Values(i - 1)) % Values(1)]

-----------------------------------------------------------------------------
(* Specs.                                                                  *)

Types == {"x", "X", "b", "o", "c"}

Written(align, flags, width, precision, rest) ==
  [align |-> align, flags |-> flags, width |-> width,
   precision |-> precision, rest |-> rest]

\* a point without digits behind it
NoDigits == -1

AllWritten ==
  [align : {"", "<", ">"}, flags : SUBSET {"+", "#", "0"}, width : SUBSET Nat,
   precision : SUBSET (Nat \cup {NoDigits}), rest : Seq(STRING)]

OrElse(option, default) ==
  IF option = {} THEN default ELSE CHOOSE n \in option : TRUE

\* What FormatSpec (device) and Spec (host) record; no type is Display.
Spec(w, width, precision) ==
  [align |-> w.align, sign |-> "+" \in w.flags, alternate |-> "#" \in w.flags,
   zero |-> "0" \in w.flags, width |-> width, precision |-> precision,
   ty |-> IF w.rest = <<>> THEN "" ELSE w.rest[1]]

(* Mutant: a number that does not fit u8 is not an error.                  *)
MacroAcceptsLong(w) ==
  /\ NoDigits \notin w.precision
  /\ Len(w.rest) <= 1
  /\ w.rest # <<>> => w.rest[1] \in Types

(* The macro refuses numbers that do not fit u8, and leftovers.            *)
MacroAccepts(w) ==
  /\ \A n \in w.width : n <= FieldMax
  /\ \A n \in w.precision : n # NoDigits /\ n <= FieldMax
  /\ Len(w.rest) <= 1
  /\ w.rest # <<>> => w.rest[1] \in Types

MacroSpec(w) == Spec(w, OrElse(w.width, 0), w.precision)

(* The host has a wider width, and makes do with less.                     *)
HostAccepts(w) ==
  /\ NoDigits \notin w.precision
  /\ w.rest # <<>> => w.rest[1] \in Types

HostSpec(w) ==
  Spec(w, OrElse(w.width, 0),
       {IF n <= FieldMax THEN n ELSE 6 : n \in w.precision})

-----------------------------------------------------------------------------
(* Characters.                                                             *)

Digit == <<"0", "1", "2", "3", "4", "5", "6", "7",
           "8", "9", "a", "b", "c", "d", "e", "f">>
UpperDigit == <<"0", "1", "2", "3", "4", "5", "6", "7",
                "8", "9", "A", "B", "C", "D", "E", "F">>

Base(ty) ==
  CASE ty \in {"x", "X"} -> 16
    [] ty = "b" -> 2
    [] ty = "o" -> 8
    [] OTHER -> 10

Prefix(spec) ==
  CASE spec.alternate /\ spec.ty \in {"x", "X", "b", "o"} -> <<"0", spec.ty>>
    [] OTHER -> <<>>

SignOf(negative, spec) ==
  CASE negative -> <<"-">>
    [] ~negative /\ spec.sign -> <<"+">>
    [] OTHER -> <<>>

(* A printable byte is itself, any other is \xNN.                          *)
FourCC(byte) ==
  IF byte \in DOMAIN Ascii THEN <<Ascii[byte]>>
  ELSE <<"\\", "x", Digit[(byte \div 16) + 1], Digit[(byte % 16) + 1]>>

Fill(c, n) == [i \in 1..n |-> c]

(* What width asks for beyond length.                                      *)
Pad(spec, length) == IF spec.width > length THEN spec.width - length ELSE 0

(* A digit count that is enough for every u64.                             *)
DigitCount(n, base) ==
  CHOOSE k \in 1 .. 8 * ByteBits :
    n < Power(base, k) /\ (k = 1 \/ Power(base, k - 1) <= n)
=============================================================================
