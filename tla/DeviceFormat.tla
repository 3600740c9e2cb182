----------------------------- MODULE DeviceFormat -----------------------------
(***************************************************************************)
(* Format::fmt of the primitive types on the device (zfmt/src/format.rs).  *)
(* The result is the sequence of the writes, each of which a buffer takes  *)
(* whole or not at all.                                                    *)
(***************************************************************************)
EXTENDS FormatSpec

WriteDigits(n, base, digits) ==
  LET count == DigitCount(n, base) IN
  [i \in 1..count |-> digits[((n \div Power(base, count - i)) % base) + 1]]

Aligned(writes, pad, align) ==
  CASE align = ">" -> Fill(<<" ">>, pad) \o writes
    [] align = "<" -> writes \o Fill(<<" ">>, pad)
    [] align = "" -> writes

FmtUint(value, spec, negative) ==
  LET sign == SignOf(negative, spec)
      prefix == Prefix(spec)
      digits == WriteDigits(value, Base(spec.ty),
                            IF spec.ty = "X" THEN UpperDigit ELSE Digit)
      pad == Pad(spec, Len(sign) + Len(prefix) + Len(digits)) IN
  IF spec.zero /\ spec.align = ""
  THEN <<sign, prefix>> \o Fill(<<"0">>, pad) \o <<digits>>
  ELSE Aligned(<<sign, prefix, digits>>, pad, spec.align)

FmtStrValue(text, spec) == Aligned(<<text>>, Pad(spec, Len(text)), spec.align)

FmtFourcc(bytes) == [i \in DOMAIN bytes |-> FourCC(bytes[i])]

FmtSint(v, spec) ==
  IF spec.ty = "" THEN FmtUint(UnsignedAbs(v), spec, IsNegative(v))
  ELSE FmtUint(v.bits, spec, FALSE)

-----------------------------------------------------------------------------
(* Floats, in exact arithmetic: what f64 rounds beyond is left out, except *)
(* that the integer part of a float of 2^64 or more is U64Max, and that    *)
(* U64Max as a float is 2^64.                                              *)

\* 10 to the n, saturating
Pow10(n) == IF n < DigitCount(U64Max, 10) THEN Power(10, n) ELSE U64Max

\* What frac is multiplied with, as a float.
Scale(n) == IF n < DigitCount(U64Max, 10) THEN Pow10(n) ELSE Values(8)

IntPart(v) == AsU64(v.units \div FracUnit)

\* The units behind IntPart.
FracUnits(v) ==
  v.units - FracUnit * (IF IntPart(v) = U64Max THEN U64Max + 1 ELSE IntPart(v))

\* frac * scale + 0.5, rounded down to a u64
FracInt(v, precision) ==
  AsU64((2 * FracUnits(v) * Scale(precision) + FracUnit) \div (2 * FracUnit))

(* Mutant: a fraction that rounds to exactly 1 is not carried over.        *)
CarriesBeyond(v, precision) ==
  FracUnits(v) >= FracUnit \/ FracInt(v, precision) > Pow10(precision)

Carries(v, precision) ==
  FracUnits(v) >= FracUnit \/ FracInt(v, precision) >= Pow10(precision)

(* The carry beyond u64 panics if overflow is checked, and is 0 otherwise. *)
Overflows(v, precision) == IntPart(v) = U64Max /\ Carries(v, precision)

IntFinal(v, precision) ==
  IF Carries(v, precision) THEN (IntPart(v) + 1) % Values(8) ELSE IntPart(v)

FracFinal(v, precision) ==
  IF Carries(v, precision) THEN 0 ELSE FracInt(v, precision)

(* The last digits of n, with leading zeros.                               *)
LowDigits(n, count) ==
  [i \in 1..count |->
     IF count - i >= DigitCount(n, 10) THEN "0"
     ELSE Digit[((n \div Power(10, count - i)) % 10) + 1]]

FracBuffer == DigitCount(U64Max, 10)

FmtFloat(v, spec) ==
  LET precision == OrElse(spec.precision, 6)
      count == IF precision < FracBuffer THEN precision ELSE FracBuffer
      point == IF precision > 0 THEN <<".">> ELSE <<>> IN
  FmtStrValue(SignOf(v.negative, spec)
                \o WriteDigits(IntFinal(v, precision), 10, Digit) \o point
                \o LowDigits(FracFinal(v, precision), count), spec)

(* With the feature no-64bit, every hexadecimal digit of both halves.      *)
Hex8(half) ==
  [i \in 1..ByteBits |-> Digit[((half \div Power(16, ByteBits - i)) % 16) + 1]]

Fmt(v, spec, no64) ==
  CASE v.kind \in {"uint", "sint"} /\ spec.ty = "c" -> FmtFourcc(LeBytes(v))
    [] v.kind = "uint" /\ spec.ty # "c" -> FmtUint(v.bits, spec, FALSE)
    [] v.kind = "sint" /\ spec.ty # "c" -> FmtSint(v, spec)
    [] v.kind = "float" -> FmtFloat(v, spec)
    [] v.kind \in {"nonfinite", "bool", "str"} -> FmtStrValue(v.text, spec)
    [] v.kind = "hash" ->
         FmtUint(v.bits, [spec EXCEPT !.ty = "x", !.alternate = TRUE,
                                      !.zero = TRUE, !.width = ByteBits + 2], FALSE)
    [] v.kind = "pair" /\ ~no64 -> FmtUint(v.bits, spec, FALSE)
    [] v.kind = "pair" /\ no64 ->
         <<Hex8(v.bits \div Values(4)), Hex8(v.bits % Values(4))>>
=============================================================================
