---------------------------- MODULE PayloadLayout ----------------------------
(***************************************************************************)
(* What #[derive(Zfmt)] makes of an event type (zfmt-macro/src/tier1.rs,   *)
(* tier2.rs, codegen.rs, enum_derive.rs): the bytecode that the host will  *)
(* interpret, and the bytes that the firmware sends.  The macro computes   *)
(* offsets from a table of sizes; a struct's memory is laid out by the     *)
(* compiler, whose repr(C) rules are modelled next to the macro's.         *)
(*                                                                         *)
(* A byte of memory is its address in the event's struct.  Bytecode is a   *)
(* sequence of numbers as in the source, except that a tag is one element, *)
(* the type it is the tag of.                                              *)
(***************************************************************************)
EXTENDS Integers, Sequences, SequencesExt

CONSTANTS
  WordAlign,   \* the target's alignment of an 8-byte primitive
  MaxPayload,  \* 256: the buffer on the stack of with_payload_bytes
  LebBase      \* 128: the first number that takes two bytes of LEB128

ASSUME LayoutAssumption ==
  /\ WordAlign \in {4, 8}
  /\ MaxPayload \in Nat
  /\ LebBase \in Nat \ {0}

-----------------------------------------------------------------------------
(* The fields an event is declared with.  A field whose name begins with   *)
(* an underscore is padding.  The type of a nested field carries what the  *)
(* compiler and the macro make of it where it is declared.                 *)

Field(kind, ty, array, n, pad) ==
  [kind |-> kind, ty |-> ty, array |-> array, n |-> n, pad |-> pad]

Scalar(ty) == Field("fixed", ty, FALSE, 1, FALSE)
Array(ty, n) == Field("fixed", ty, TRUE, n, FALSE)
Padding(n) == Field("fixed", "u8", TRUE, n, TRUE)
Str(len) == Field("str", "str", FALSE, len, FALSE)
Nested(t) == [kind |-> "nested", type |-> t, pad |-> FALSE]

(* A repr(C, u8) enum as a field, holding the variant pick; the first      *)
(* listed variants are in the dispatch table.                              *)
Inline(variants, pick, listed) ==
  [kind |-> "inline", variants |-> variants, pick |-> pick,
   listed |-> listed, pad |-> FALSE]

(* A variant of a top-level enum, and the subroutine of a variant of an    *)
(* inline enum whose union takes body bytes.                               *)
Variant(T) == [form |-> "variant", fields |-> T, body |-> 0]
InlineVariant(T, body) == [form |-> "inline", fields |-> T, body |-> body]

Has(T, kind) == \E i \in DOMAIN T : T[i].kind = kind

(* is_tier2 does not count a str whose name begins with an underscore.     *)
IsTier2(T) == \E i \in DOMAIN T : T[i].kind = "str" /\ ~T[i].pad

Tier(t) ==
  CASE t.form # "struct" -> t.form
    [] t.form = "struct" /\ IsTier2(t.fields) -> "tier2"
    [] t.form = "struct" /\ ~IsTier2(t.fields) ->
         IF Has(t.fields, "nested") \/ Has(t.fields, "inline")
         THEN "nested" ELSE "tier1"

SizeOf(ty) ==
  CASE ty \in {"u8", "i8", "bool"} -> 1
    [] ty \in {"u16", "i16"} -> 2
    [] ty \in {"u32", "i32", "f32", "ZfmtStr"} -> 4
    [] ty \in {"u64", "i64", "f64", "ZfmtU64"} -> 8

AlignUp(offset, align) == ((offset + align - 1) \div align) * align

(* Where each of parts ends, one behind the other, counted again from 0    *)
(* behind a Restart.                                                       *)
Part(align, size) == [align |-> align, size |-> size]
Restart == Part(0, 0)
Ends(parts) ==
  LET ends[i \in 0..Len(parts)] ==
        IF i = 0 \/ parts[i] = Restart THEN 0
        ELSE AlignUp(ends[i - 1], parts[i].align) + parts[i].size IN
  ends

SumOf(ns) ==
  LET sums[i \in 0..Len(ns)] == IF i = 0 THEN 0 ELSE sums[i - 1] + ns[i] IN
  sums[Len(ns)]

-----------------------------------------------------------------------------
(* The compiler's layout.  ZfmtU64 is a repr(C) pair of u32; a &str is an  *)
(* address and a length on a 32-bit target.                                *)
PointerSize == 4

FixedAlign(ty) ==
  IF ty = "ZfmtU64" THEN 4
  ELSE IF SizeOf(ty) = 8 THEN WordAlign ELSE SizeOf(ty)
FixedSize(f) == f.n * SizeOf(f.ty)

(* The layout of a struct T, given the part that each of its fields is.    *)
AlignOf(parts) == Max({1} \cup {parts[i].align : i \in DOMAIN parts})
SizeWithTail(parts) == AlignUp(Ends(parts)[Len(parts)], AlignOf(parts))

(* The variants of an inline enum hold no field that is nested.            *)
FlatPart(f) ==
  IF f.kind = "str" THEN Part(PointerSize, 2 * PointerSize)
  ELSE Part(FixedAlign(f.ty), FixedSize(f))
FlatParts(T) == [i \in DOMAIN T |-> FlatPart(T[i])]

UnionAlign(variants) ==
  Max({1} \cup {AlignOf(FlatParts(variants[j])) : j \in DOMAIN variants})
UnionSize(variants) ==
  AlignUp(Max({0} \cup {SizeWithTail(FlatParts(variants[j])) : j \in DOMAIN variants}),
          UnionAlign(variants))

FieldPart(f) ==
  CASE f.kind \in {"fixed", "str"} -> FlatPart(f)
    [] f.kind = "nested" -> Part(f.type.align, f.type.size)
    [] f.kind = "inline" ->
         Part(UnionAlign(f.variants), UnionAlign(f.variants) + UnionSize(f.variants))

FieldAlign(f) == FieldPart(f).align
FieldSize(f) == FieldPart(f).size
Parts(T) == [i \in DOMAIN T |-> FieldPart(T[i])]

StructAlign(T) == AlignOf(Parts(T))
StructSize(T) == SizeWithTail(Parts(T))
EndOf(T, i) == Ends(Parts(T))[i]
OffsetOf(T, i) == AlignUp(EndOf(T, i - 1), FieldAlign(T[i]))

(* A byte on the wire: the k-th of the struct's memory (source 0), or of   *)
(* the text of field source.  Taken for a length or a discriminant, it is  *)
(* one of numbers, or any number if there are none.                        *)
Cell(source, k, numbers) == <<source, k, numbers>>
ZeroByte == Cell(0, 0, {})

Zeros(n) == [k \in 1..n |-> ZeroByte]
MemoryBytes(start, n) == [k \in 1..n |-> Cell(0, start + k, {})]
TextBytes(i, n) == [k \in 1..n |-> Cell(i, k, {})]
PadTo(cells, n) == cells \o Zeros(n - Len(cells))

(* The discriminants in the memory of a struct: <<address, number>>.       *)
Marks(T) ==
  UNION {CASE T[i].kind = "nested" ->
                {<<OffsetOf(T, i) + m[1], m[2]>> : m \in T[i].type.marks}
           [] T[i].kind = "inline" -> {<<OffsetOf(T, i) + 1, T[i].pick>>}
           [] OTHER -> {} : i \in DOMAIN T}

MarksAt(marks, k) == {m[2] : m \in {x \in marks : x[1] = k}}
MemoryCell(marks, k) == Cell(0, k, MarksAt(marks, k))

-----------------------------------------------------------------------------
(* Bytecode.                                                               *)
Item ==
  [end |-> 0, u8 |-> 1, u16 |-> 2, u32 |-> 3, u64 |-> 4, i8 |-> 5, i16 |-> 6,
   i32 |-> 7, i64 |-> 8, utf8 |-> 9, skip |-> 10, f32 |-> 11, f64 |-> 12,
   bool |-> 13, dispatch |-> 14, call |-> 15, ZfmtStr |-> 16, ZfmtU64 |-> 17]

Single == 0
FixedArray == 1
VarLength == 3

Opcode(item, operand) == item * 8 + operand
End == <<Opcode(Item.end, Single)>>

SkipOver(n) == <<Opcode(Item.skip, FixedArray), n>>
PushSkip(n) == IF n = 0 THEN <<>> ELSE SkipOver(n)

EmitField(f) ==
  IF f.array
  THEN <<Opcode(IF f.ty = "u8" THEN Item.utf8 ELSE Item[f.ty], FixedArray), f.n>>
  ELSE <<Opcode(Item[f.ty], Single)>>

(* The macro's running offset: where a field ends, behind a gap that aligns *)
(* it to its size, and 0 behind a str.                                     *)
MacroPart(f) ==
  IF f.kind = "str" THEN Restart ELSE Part(SizeOf(f.ty), FixedSize(f))
MacroEnd(T, i) == Ends([j \in DOMAIN T |-> MacroPart(T[j])])[i]

GapBehind(offset, f) ==
  IF f.kind = "str" THEN 0 ELSE AlignUp(offset, SizeOf(f.ty)) - offset
GapBefore(T, i) == GapBehind(MacroEnd(T, i - 1), T[i])

(* total_size_with_tail_padding; None, of which its callers make 0 or the  *)
(* size without tail padding, if there is a str.                           *)
LogicalSize(T) == MacroEnd(T, Len(T))
TotalSize(T) ==
  IF Has(T, "str") THEN 0
  ELSE AlignUp(LogicalSize(T), Max({1} \cup {SizeOf(T[i].ty) : i \in DOMAIN T}))

(* The union body as the macro computes it, and a variant's subroutine.    *)
UnionBody(variants) ==
  Max({0} \cup {TotalSize(variants[j]) : j \in DOMAIN variants})
Subroutine(f, j) == InlineVariant(f.variants[j], UnionBody(f.variants))

(* The macro has no case for an inline enum as a field: its DISPATCH is    *)
(* assembled by hand, as in the tests of interpret.rs.                     *)
DispatchCode(f) ==
  <<Opcode(Item.dispatch, Single), Item.u8, UnionAlign(f.variants) - 1, f.listed>>
    \o [k \in 1..(2 * f.listed) |->
          IF k % 2 = 1 THEN (k + 1) \div 2 ELSE Subroutine(f, k \div 2)]

Instruction(f) ==
  CASE f.kind = "str" -> <<Opcode(Item.utf8, VarLength)>>
    [] f.kind = "fixed" /\ f.pad -> PushSkip(FixedSize(f))
    [] f.kind = "fixed" /\ ~f.pad -> EmitField(f)
    [] f.kind = "nested" -> <<Opcode(Item.call, Single), f.type>>
    [] f.kind = "inline" -> DispatchCode(f)

(* Mutant: the gap in front of a field of a nested struct is forgotten.    *)
NestedGapForgotten(T, i) == 0

(* A struct with nested fields takes its gaps from offset_of! and always   *)
(* emits a SKIP, so that the length is known before the gaps are.          *)
NestedGap(T, i) == OffsetOf(T, i) - EndOf(T, i - 1)

(* build_tier1_bytecode, build_tier2_bytecode and gen_bytecode are three   *)
(* copies of one loop, in which a SKIP leads only over a gap.              *)
Lead(t, i) ==
  IF Tier(t) = "nested" THEN SkipOver(NestedGap(t.fields, i))
  ELSE PushSkip(GapBefore(t.fields, i))

(* The subroutine of an inline variant goes on to the end of the union.    *)
TailSkip(t) ==
  IF t.form = "inline" /\ t.body > TotalSize(t.fields)
  THEN PushSkip(t.body - TotalSize(t.fields)) ELSE <<>>

CodeOf(t) ==
  FlattenSeq([i \in DOMAIN t.fields |-> Lead(t, i) \o Instruction(t.fields[i])])
    \o TailSkip(t) \o End

-----------------------------------------------------------------------------
(* What the firmware sends.                                                *)
LebLen(n) == IF n < LebBase THEN 1 ELSE 2
Leb(i, n) == [k \in 1..LebLen(n) |-> Cell(i, 1 - k, IF k = 1 THEN {n} ELSE {})]

(* serialize_into field by field, and payload_size, a second traversal.    *)
SerializedField(T, i) ==
  IF T[i].kind = "str" THEN Leb(i, T[i].n) \o TextBytes(i, T[i].n)
  ELSE Zeros(GapBefore(T, i)) \o MemoryBytes(OffsetOf(T, i), FixedSize(T[i]))

Serialize(T) == FlattenSeq([i \in DOMAIN T |-> SerializedField(T, i)])

SentLen(f) == IF f.kind = "str" THEN LebLen(f.n) + f.n ELSE FixedSize(f)

(* Mutant: payload_size does not restart the alignment behind a str.       *)
PayloadSizeUnreset(T) ==
  LET ends == Ends([j \in DOMAIN T |->
                      IF T[j].kind = "str" THEN Part(1, 0) ELSE MacroPart(T[j])]) IN
  SumOf([i \in DOMAIN T |-> GapBehind(ends[i - 1], T[i]) + SentLen(T[i])])

PayloadSize(T) == SumOf([i \in DOMAIN T |-> GapBefore(T, i) + SentLen(T[i])])

SentSize(t) ==
  IF Tier(t) = "variant" /\ ~Has(t.fields, "str")
  THEN TotalSize(t.fields) ELSE PayloadSize(t.fields)

IsBuffered(t) == Tier(t) \in {"tier2", "variant"}

(* Otherwise a slice of the buffer is out of range, and the device panics. *)
Fits(t) ==
  IsBuffered(t) =>
    Len(Serialize(t.fields)) <= MaxPayload /\ SentSize(t) <= MaxPayload

(* A Tier-1 struct is sent from memory, up to ZFMT_PAYLOAD_SIZE, which may *)
(* lie behind its end; a nested one whole; the others from a zeroed buffer. *)
Payload(t) ==
  LET T == t.fields
      memory(n) == [k \in 1..n |-> MemoryCell(Marks(T), k)] IN
  CASE Tier(t) = "tier1" -> memory(LogicalSize(T))
    [] Tier(t) = "nested" -> memory(StructSize(T))
    [] IsBuffered(t) -> SubSeq(PadTo(Serialize(T), MaxPayload), 1, SentSize(t))
=============================================================================
