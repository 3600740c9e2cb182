----------------------------- MODULE Interpreter -----------------------------
(***************************************************************************)
(* One event from the firmware's memory to the host's text: it is sent     *)
(* (with_payload_bytes), its bytecode is run against the payload, one      *)
(* instruction per step (zfmt-host/src/interpret.rs, run_bc), and the      *)
(* values are matched with the placeholders of the format string (render). *)
(*                                                                         *)
(* Operands that no bytecode of this repository uses are left out: ZERO_   *)
(* TERM, and VAR_LENGTH of anything but UTF8_BYTE.  No state gets stuck on *)
(* one.  A length or discriminant that is read from bytes that are neither *)
(* (the address in a &str of a nested struct) is anything up to MaxGuess.  *)
(***************************************************************************)
EXTENDS PayloadLayout

CONSTANTS
  Types,     \* the struct types that others hold
  Events,    \* the event types under check: structs and variants
  MaxDepth,  \* MAX_DEPTH
  MaxGuess   \* bound: a number read from bytes that hold another field

-----------------------------------------------------------------------------
(* What is known of a type where it is held.  The values that it shows     *)
(* carry the addresses of their bytes.                                     *)

(* What is made of every field of T that is not padding, in order.         *)
OfShown(T, made) == FlattenSeq([i \in DOMAIN T |-> IF T[i].pad THEN <<>> ELSE made[i]])

Moved(values, base) ==
  [k \in DOMAIN values |->
     [x \in DOMAIN values[k] |->
        Cell(values[k][x][1], base + values[k][x][2], values[k][x][3])]]

FlatValues(T, i) ==
  IF T[i].kind = "str" THEN <<TextBytes(i, T[i].n)>>
  ELSE <<MemoryBytes(OffsetOf(T, i), FixedSize(T[i]))>>
FlatFieldsOf(T) == OfShown(T, [i \in DOMAIN T |-> FlatValues(T, i)])

FieldValues(T, i) ==
  CASE T[i].kind \in {"fixed", "str"} -> FlatValues(T, i)
    [] T[i].kind = "nested" -> Moved(T[i].type.shown, OffsetOf(T, i))
    [] T[i].kind = "inline" ->
         Moved(FlatFieldsOf(T[i].variants[T[i].pick]),
               OffsetOf(T, i) + UnionAlign(T[i].variants))
FieldsOf(T) == OfShown(T, [i \in DOMAIN T |-> FieldValues(T, i)])

(* The types that the bytecode calls, at any depth.                        *)
Callees(T) ==
  UNION {CASE T[i].kind = "nested" -> {T[i].type} \cup T[i].type.callees
           [] T[i].kind = "inline" -> {Subroutine(T[i], j) : j \in 1..T[i].listed}
           [] OTHER -> {} : i \in DOMAIN T}

(* How deep its calls are nested.                                          *)
Height(T) ==
  Max({0} \cup {CASE T[i].kind = "nested" -> T[i].type.height + 1
                  [] T[i].kind = "inline" -> 1
                  [] OTHER -> 0 : i \in DOMAIN T})

(* Bytes of a field that its subroutine does not read: the tail padding of *)
(* a nested struct and what is unread in it, and what the subroutine of a  *)
(* variant leaves of the union (or, if negative, reads too much).          *)
Unread(f) ==
  CASE f.kind = "nested" -> f.type.unread
    [] f.kind = "inline" ->
         LET V == f.variants[f.pick] IN
         UnionSize(f.variants)
           - (LogicalSize(V) + (UnionBody(f.variants) - TotalSize(V)))
    [] OTHER -> 0
UnreadIn(T) ==
  (StructSize(T) - EndOf(T, Len(T))) + SumOf([i \in DOMAIN T |-> Unread(T[i])])

Struct(T) ==
  [form |-> "struct", fields |-> T, align |-> StructAlign(T), size |-> StructSize(T),
   marks |-> Marks(T), shown |-> FieldsOf(T), callees |-> Callees(T),
   height |-> Height(T), unread |-> UnreadIn(T)]

-----------------------------------------------------------------------------
(* The types of a program.                                                 *)
ScalarTypes ==
  {"u8", "u16", "u32", "u64", "i8", "i16", "i32", "i64", "f32", "f64", "bool",
   "ZfmtStr", "ZfmtU64"}

(* Left out are padding of no bytes, which makes no bytecode, and an array *)
(* of 8 ZfmtStr or more: its length is taken for an opcode, of END up to 7. *)
FixedFields ==
  {f \in [kind : {"fixed"}, ty : ScalarTypes, array : BOOLEAN, n : Nat, pad : BOOLEAN] :
     /\ ~f.array => f.n = 1
     /\ f.pad => f.n > 0
     /\ f.array /\ f.ty = "ZfmtStr" /\ ~f.pad => f.n < 8}
StrFields ==
  [kind : {"str"}, ty : {"str"}, array : {FALSE}, n : Nat, pad : BOOLEAN]
FlatFields == FixedFields \cup StrFields
NestedFields == [kind : {"nested"}, type : Types, pad : {FALSE}]
InlineFields ==
  {f \in [kind : {"inline"}, variants : Seq(Seq(FlatFields)), pick : Nat, listed : Nat,
          pad : {FALSE}] :
     f.pick \in DOMAIN f.variants /\ f.listed <= Len(f.variants)}

(* A struct that holds a text compiles if one is not padding, and if all   *)
(* its other fields are flat.                                              *)
Compiles(T) ==
  Has(T, "str") => IsTier2(T) /\ ~Has(T, "nested") /\ ~Has(T, "inline")

(* A type is never inside itself: how deep it is nested is a number.       *)
IsStruct(t) ==
  /\ t.fields \in Seq(FlatFields \cup NestedFields \cup InlineFields)
  /\ Compiles(t.fields)
  /\ t = Struct(t.fields)
  /\ t.height \in Nat

IsVariant(t) == t.fields \in Seq(FlatFields) /\ t = Variant(t.fields)

ASSUME TypesAssumption == \A t \in Types : IsStruct(t)
ASSUME EventsAssumption == \A e \in Events : IsStruct(e) \/ IsVariant(e)

ASSUME InterpreterAssumption == MaxDepth \in Nat /\ MaxGuess \in Nat

-----------------------------------------------------------------------------
VARIABLES
  event,    \* the type of the event
  format,   \* the fields that the placeholders of its format string name
  db,       \* the types whose bytecode the host's database has
  outcome,  \* "logging", "running", or how it ended
  wire,     \* the payload
  stack,    \* the calls of run_bc: bytecode and bc_pos, the innermost last
  pos,      \* p_pos
  values    \* the values decoded so far

vars == <<event, format, db, outcome, wire, stack, pos, values>>
input == <<event, format, db>>

(* The fields that a format string may name: those that are not padding.   *)
Shown(T) == OfShown(T, [i \in DOMAIN T |-> <<i>>])

(* The field that format_into prints for the placeholder that names field  *)
(* i.  For a variant, variant_format_arm_body zips all fields with the     *)
(* names of those that are not padding.                                    *)
Accessed(t, i) ==
  IF Tier(t) = "variant" THEN CHOOSE k \in DOMAIN Shown(t.fields) :
                                Shown(t.fields)[k] = i
  ELSE i

(* A format string may leave out fields.  One that names a field which is  *)
(* not found does not compile.                                             *)
Formats(t) ==
  LET names == Shown(t.fields)
      n == Len(names) IN
  {f \in {<<>>, SubSeq(names, 1, n - 1), names, SubSeq(names, Max({n, 1}), n)} :
     \A k \in DOMAIN f : ~t.fields[Accessed(t, f[k])].pad}

Init ==
  /\ event \in Events
  /\ format \in Formats(event)
  /\ db \in {{}, Callees(event.fields)}
  /\ outcome = "logging"
  /\ wire = <<>>
  /\ stack = <<>>
  /\ pos = 0
  /\ values = <<>>

Send ==
  /\ outcome = "logging"
  /\ Fits(event)
  /\ outcome' = "running"
  /\ wire' = Payload(event)
  /\ stack' = <<[code |-> CodeOf(event), pc |-> 1]>>
  /\ UNCHANGED <<input, pos, values>>

Panic ==
  /\ outcome = "logging"
  /\ ~Fits(event)
  /\ outcome' = "panicked"
  /\ UNCHANGED <<input, wire, stack, pos, values>>

-----------------------------------------------------------------------------
Top == Last(stack)
Op == Top.code[Top.pc]
Operand == Op % 8
Count == Top.code[Top.pc + 1]

At(item) == outcome = "running" /\ Op \div 8 = item

Goto(k) == [stack EXCEPT ![Len(stack)].pc = @ + k]

(* need: the payload has n more bytes.                                     *)
Available(n) == pos + n <= Len(wire)

Fail ==
  /\ outcome' = "error"
  /\ UNCHANGED <<input, wire, stack, pos, values>>

(* Slicing the payload behind its end is a panic of the host.              *)
Crash ==
  /\ outcome' = "crashed"
  /\ UNCHANGED <<input, wire, stack, pos, values>>

(* Decode one value from the next n bytes and go on k elements later.      *)
Take(n, k) ==
  /\ values' = Append(values, SubSeq(wire, pos + 1, pos + n))
  /\ pos' = pos + n
  /\ stack' = Goto(k)
  /\ UNCHANGED <<input, outcome, wire>>

TakeOrFail(n, k) == IF Available(n) THEN Take(n, k) ELSE Fail

(* SKIP alone does not look at the length of the payload.                  *)
Skip ==
  /\ At(Item.skip)
  /\ pos' = pos + Count
  /\ stack' = Goto(2)
  /\ UNCHANGED <<input, outcome, wire, values>>

(* Nor does an array of no items.                                          *)
ReadItems(ty) ==
  /\ At(Item[ty])
  /\ \/ Operand = Single /\ TakeOrFail(SizeOf(ty), 1)
     \/ Operand = FixedArray /\ Count > 0 /\ TakeOrFail(Count * SizeOf(ty), 2)
     \/ Operand = FixedArray /\ Count = 0 /\ Take(0, 2)

(* STRING_REF has no operand, and does not look at the operand bits.       *)
StringRef == At(Item.ZfmtStr) /\ TakeOrFail(SizeOf("ZfmtStr"), 1)

Pair ==
  /\ At(Item.ZfmtU64)
  /\ IF Operand = Single THEN TakeOrFail(SizeOf("ZfmtU64"), 1) ELSE Fail

FixedText ==
  /\ At(Item.utf8)
  /\ Operand = FixedArray
  /\ TakeOrFail(Count, 2)

(* The number at p: a length or a discriminant, or bytes that are neither. *)
NumbersAt(p) == IF wire[p + 1][3] = {} THEN 0..MaxGuess ELSE wire[p + 1][3]

VarText ==
  /\ At(Item.utf8)
  /\ Operand = VarLength
  /\ IF pos > Len(wire) THEN Crash
     ELSE IF pos = Len(wire) THEN Fail
     ELSE \E n \in NumbersAt(pos) :
       LET start == pos + LebLen(n) IN
       IF start + n <= Len(wire)
       THEN /\ values' = Append(values, SubSeq(wire, start + 1, start + n))
            /\ pos' = start + n
            /\ stack' = Goto(1)
            /\ UNCHANGED <<input, outcome, wire>>
       ELSE Fail

(* Mutant: the depth is checked after the callee has been entered.         *)
MayCallOnceMore == Len(stack) <= MaxDepth + 1

(* The depth that run_bc was called with is not used up.                   *)
MayCall == Len(stack) <= MaxDepth

(* Run the bytecode of a tag on the payload from p as a subroutine; the    *)
(* caller goes on k elements later.                                        *)
Enter(t, p, k) ==
  IF t \in db
  THEN /\ stack' = Append(Goto(k), [code |-> CodeOf(t), pc |-> 1])
       /\ pos' = p
       /\ UNCHANGED <<input, outcome, wire, values>>
  ELSE Fail

Call ==
  /\ At(Item.call)
  /\ IF MayCall THEN Enter(Count, pos, 2) ELSE Fail

(* An unknown discriminant is a value of its own and takes no more bytes.  *)
Dispatch ==
  LET padding == Top.code[Top.pc + 2]
      listed == Top.code[Top.pc + 3]
      body == pos + SizeOf("u8") + padding
      next == 4 + 2 * listed IN
  /\ At(Item.dispatch)
  /\ IF ~MayCall \/ ~Available(SizeOf("u8")) THEN Fail
     ELSE \E discriminant \in NumbersAt(pos) :
       IF discriminant \in 1..listed
       THEN Enter(Top.code[Top.pc + 3 + 2 * discriminant], body, next)
       ELSE /\ values' = Append(values, <<>>)
            /\ pos' = body
            /\ stack' = Goto(next)
            /\ UNCHANGED <<input, outcome, wire>>

Return ==
  /\ At(Item.end)
  /\ stack' = Front(stack)
  /\ outcome' = IF Len(stack) = 1 THEN "done" ELSE outcome
  /\ UNCHANGED <<input, wire, pos, values>>

Finished == outcome \in {"done", "error", "panicked", "crashed"}
Stop == Finished /\ UNCHANGED vars

Next ==
  \/ Send \/ Panic
  \/ Skip \/ StringRef \/ Pair \/ FixedText \/ VarText
  \/ \E ty \in ScalarTypes \ {"ZfmtStr", "ZfmtU64"} : ReadItems(ty)
  \/ Call \/ Dispatch \/ Return
  \/ Stop

Spec == Init /\ [][Next]_vars

-----------------------------------------------------------------------------
(* Rendering.  The host gives the N-th value to the N-th placeholder; the  *)
(* device (format_into) prints the named field, a nested one by its own    *)
(* format string, which here names all its fields in order.                *)

(* Mutant: the first value is left over, and the last placeholder empty.   *)
RenderShifted(names, vals) == SubSeq(Append(vals, <<>>), 2, Len(names) + 1)

Render(names, vals) == SubSeq(vals, 1, Len(names))

DeviceText ==
  FlattenSeq([k \in DOMAIN format |->
                FieldValues(event.fields, Accessed(event, format[k]))])

-----------------------------------------------------------------------------
(* The event types that decode correctly.                                  *)

(* Every field of T lies where the macro computes it to lie.               *)
NaturallyAligned(T) ==
  \A i \in DOMAIN T :
    T[i].kind = "fixed" => OffsetOf(T, i) % SizeOf(T[i].ty) = 0

(* STRING_REF and U64_PAIR have no FIXED_ARRAY form.                       *)
NoTableArrays(T) ==
  \A i \in DOMAIN T :
    T[i].kind = "fixed" /\ T[i].array /\ ~T[i].pad =>
      T[i].ty \notin {"ZfmtStr", "ZfmtU64"}

(* Nothing is displayed after field i of T.                                *)
IsLast(T, i) == \A j \in DOMAIN T : j > i => T[j].pad

(* The subroutine of a field reads the field, and what follows is read     *)
(* from where it lies.                                                     *)
RegularCall(T, i) ==
  /\ Unread(T[i]) = 0 \/ IsLast(T, i)
  /\ T[i].kind = "nested" => ~IsTier2(T[i].type.fields)
  /\ T[i].kind = "inline" =>
       LET V == T[i].variants[T[i].pick] IN
       /\ T[i].pick <= T[i].listed
       /\ NaturallyAligned(V) /\ NoTableArrays(V) /\ ~Has(V, "str")

Regular(t) ==
  LET T == t.fields IN
  /\ NoTableArrays(T)
  /\ \A i \in DOMAIN T : T[i].kind = "str" => ~T[i].pad
  /\ Tier(t) = "tier1" => NaturallyAligned(T)
  /\ \A i \in DOMAIN T : T[i].kind \in {"nested", "inline"} => RegularCall(T, i)

(* An event decodes correctly if it and the structs in it are Regular, if  *)
(* they are nested no deeper than the host allows, and if the host knows   *)
(* them.                                                                   *)
IsDecodable ==
  /\ \A t \in {event} \cup {c \in Callees(event.fields) : c.form = "struct"} : Regular(t)
  /\ Height(event.fields) <= MaxDepth
  /\ Fits(event)
  /\ db = Callees(event.fields)

-----------------------------------------------------------------------------
(* Properties.                                                             *)

(* A call is never deeper than MAX_DEPTH, no jump leaves the bytecode, and *)
(* the payload fits its buffer.                                            *)
InterpreterTypeOK ==
  /\ outcome \in {"logging", "running"} \cup
                 {"done", "error", "panicked", "crashed"}
  /\ Len(stack) <= MaxDepth + 1
  /\ \A k \in DOMAIN stack : stack[k].pc \in 1..Len(stack[k].code)
  /\ pos \in Nat
  /\ IsBuffered(event) => Len(wire) <= MaxPayload

(* The macro's offsets, the compiler's layout, the serializer and the      *)
(* interpreter agree on every event that IsDecodable: the host gets back   *)
(* every field that is not padding, with all its bytes and in order, and   *)
(* nothing else.                                                           *)
ReadsBack ==
  Finished /\ IsDecodable => outcome = "done" /\ values = FieldsOf(event.fields)

(* What IsDecodable excludes is not read back: it says no more than what   *)
(* goes wrong.                                                             *)
NothingElseReadsBack ==
  outcome = "done" /\ values = FieldsOf(event.fields) => IsDecodable

(* The bytecode consumes the payload to its last byte, whatever its        *)
(* alignment: bytecode, payload_size and serialize_into are three          *)
(* traversals that agree (SPEC.md:354).  What is sent with tail padding,   *)
(* nested structs and variants of fixed size, is excepted.                 *)
ConsumesPayload ==
  outcome = "done" /\ NoTableArrays(event.fields)
    /\ (Tier(event) = "tier1" \/ Has(event.fields, "str")) =>
      pos = Len(wire)

(* The host's text shows what the device's text shows when the format      *)
(* string names the fields in the order of their declaration and leaves    *)
(* out none but the last ones.                                             *)
TextAgrees ==
  outcome = "done" /\ IsDecodable /\ IsPrefix(format, Shown(event.fields))
    /\ ~Has(event.fields, "nested") /\ ~Has(event.fields, "inline") =>
      Render(format, values) = DeviceText

(* SPEC.md:325-327: the macro emits SKIPs for all repr(C) padding, so the  *)
(* host need not know the target's alignment rules.                        *)
SkipsCoverPadding ==
  outcome = "done" /\ Tier(event) = "tier1" /\ NoTableArrays(event.fields) =>
    values = FieldsOf(event.fields)
=============================================================================
