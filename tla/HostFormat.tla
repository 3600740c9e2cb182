------------------------------ MODULE HostFormat ------------------------------
(***************************************************************************)
(* Value::display_spec on the host (zfmt-host/src/interpret.rs): the text  *)
(* of a value that was decoded from a payload.                             *)
(***************************************************************************)
EXTENDS FormatSpec

D == INSTANCE DeviceFormat

(* Without an alignment, the text is aligned to the right.                 *)
ApplyWidth(text, spec) ==
  LET pad == Fill(" ", Pad(spec, Len(text))) IN
  IF spec.align = "<" THEN text \o pad ELSE pad \o text

(* Mutant: the digits are left in the order in which they are pushed.      *)
ToDigitsPushed(n, base, digits) ==
  [i \in 1 .. DigitCount(n, base) |->
     digits[((n \div Power(base, i - 1)) % base) + 1]]

(* to_digits pushes the least significant digit first.                     *)
ToDigits(n, base, digits) ==
  Reverse([i \in 1 .. DigitCount(n, base) |->
             digits[((n \div Power(base, i - 1)) % base) + 1]])

FmtUint(value, negative, spec) ==
  LET sign == SignOf(negative, spec)
      prefix == Prefix(spec)
      digits == ToDigits(value, Base(spec.ty),
                         IF spec.ty = "X" THEN UpperDigit ELSE Digit)
      pad == Pad(spec, Len(sign) + Len(prefix) + Len(digits)) IN
  IF spec.zero /\ spec.align = ""
  THEN sign \o prefix \o Fill("0", pad) \o digits
  ELSE ApplyWidth(sign \o prefix \o digits, spec)

(* An i8 is sign-extended to 64 bits, other integers are not.              *)
Bits(v) ==
  IF v.size = 1 /\ IsNegative(v) THEN v.bits + Values(8) - Values(1) ELSE v.bits

FmtInt(v, spec) ==
  IF spec.ty = "" THEN FmtUint(UnsignedAbs(v), IsNegative(v), spec)
  ELSE FmtUint(Bits(v), FALSE, spec)

(* The arithmetic is that of the device, the sign and the zeros are not.   *)
FormatFloat(v, option) ==
  LET precision == OrElse(option, 6)
      sign == IF v.negative /\ v.units > 0 THEN <<"-">> ELSE <<>>
      digits == sign \o ToDigits(D!IntFinal(v, precision), 10, Digit)
      fraction == ToDigits(D!FracFinal(v, precision), 10, Digit)
      zeros == IF precision > Len(fraction)
               THEN Fill("0", precision - Len(fraction)) ELSE <<>> IN
  IF precision = 0 THEN digits ELSE digits \o <<".">> \o zeros \o fraction

IsInteger(v) == v.kind \in {"uint", "sint", "pair"}

\* Without a spec: Value::display_default of what is not an integer.
DisplayDefault(v) == IF v.kind = "float" THEN FormatFloat(v, {}) ELSE v.text

DisplaySpec(v, spec) ==
  CASE spec.ty = "c" ->
         IF IsInteger(v)
         THEN FlattenSeq([i \in 1..v.size |-> FourCC(LeBytes(v)[i])])
         ELSE DisplayDefault(v)
    [] spec.ty # "c" /\ v.kind \in {"uint", "pair"} -> FmtUint(v.bits, FALSE, spec)
    [] spec.ty # "c" /\ v.kind = "sint" -> FmtInt(v, spec)
    [] spec.ty # "c" /\ v.kind = "float" -> FormatFloat(v, spec.precision)
    [] spec.ty # "c" /\ v.kind \in {"nonfinite", "bool"} -> v.text
    [] spec.ty # "c" /\ v.kind \in {"str", "hash"} -> ApplyWidth(v.text, spec)
=============================================================================
