---------------------------- MODULE MCInterpreter ----------------------------
(* Small event types for Interpreter: one scalar type per size and         *)
(* alignment, every way of combining them, and bounded nesting.            *)
EXTENDS Interpreter

SeqsOf(S, low, high) == UNION {[1..n -> S] : n \in low..high}

Scalars == {Scalar(ty) : ty \in {"u8", "u16", "u32", "u64", "ZfmtU64"}}
Paddings == {Padding(1), Padding(2)}
Arrays == {Array("u8", 3), Array("u16", 2)}
Odd == {Array("ZfmtStr", 2), Array("ZfmtU64", 2), Scalar("ZfmtStr")}

(* Texts whose length takes one byte and two, and one that is padding.     *)
Texts == {Str(0), Str(1), Str(3), Field("str", "str", FALSE, 1, TRUE)}

Flat ==
  {Struct(T) : T \in SeqsOf(Scalars \cup Paddings \cup Arrays \cup Odd, 0, 3)}

(* A struct whose only text is padding does not compile.                   *)
Mixed ==
  {Struct(T) : T \in {U \in SeqsOf({Scalar("u8"), Scalar("u32"), Scalar("ZfmtU64"),
                                    Padding(2)} \cup Texts, 1, 3) : IsTier2(U)}}

Variants ==
  {Variant(T) : T \in SeqsOf({Scalar("u8"), Scalar("u32"), Scalar("ZfmtU64"),
                              Padding(2), Array("ZfmtStr", 2), Str(3)}, 0, 3)}

Inner ==
  {Struct(T) : T \in SeqsOf({Scalar("u8"), Scalar("u32"), Scalar("ZfmtU64")}, 1, 2)}
    \cup {Struct(<<Scalar("u8"), Str(2)>>), Struct(<<Array("ZfmtStr", 2)>>),
          Struct(<<Scalar("u8"), Scalar("ZfmtU64"), Str(2)>>)}

Holders ==
  {Struct(T) : T \in {U \in SeqsOf({Scalar("u8"), Scalar("u32"), Padding(1)}
                                     \cup {Nested(t) : t \in Inner}, 1, 3) :
                        Has(U, "nested")}}

(* Nesting that reaches the depth limit and goes beyond it.                *)
Chain ==
  LET chain[n \in 0..(MaxDepth + 2)] ==
        IF n = 0 THEN Struct(<<Scalar("u16"), Scalar("u8")>>)
        ELSE Struct(<<Scalar("u16"), Nested(chain[n - 1])>>) IN
  {chain[n] : n \in 0..(MaxDepth + 2)}

Unions ==
  {<<<<Scalar("u32")>>, <<Scalar("u8")>>>>,
   <<<<Scalar("u32"), Scalar("u8")>>, <<Scalar("u8")>>>>,
   <<<<Array("u8", 5)>>, <<Scalar("u32")>>>>,
   <<<<Scalar("u8")>>, <<Scalar("u16"), Scalar("u16")>>>>,
   <<<<Scalar("u32"), Scalar("ZfmtU64")>>, <<>>>>,
   <<<<Str(1)>>, <<Scalar("u32")>>>>}

Enums ==
  {Inline(U, pick, listed) : U \in Unions, pick \in 1..2, listed \in 1..2}

EnumHolders ==
  {Struct(T) : T \in {<<e>> : e \in Enums} \cup {<<e, Scalar("u8")>> : e \in Enums}
                       \cup {<<Scalar("u8"), e, Scalar("u16")>> : e \in Enums}}

(* The macro takes a ZfmtU64, and a union that holds one, to end too late: *)
(* what follows is read from elsewhere, or from behind the payload.        *)
Late == Nested(Struct(<<Scalar("u8"), Scalar("ZfmtU64")>>))
LateEnum == Inline(<<<<Scalar("u32"), Scalar("ZfmtU64")>>, <<>>>>, 2, 2)

Overruns ==
  {Struct(<<Late, Array("u8", 3)>>), Struct(<<Late, Array("u16", 2)>>),
   Struct(<<Late, Inline(<<<<Scalar("u8")>>, <<>>>>, 1, 2)>>),
   Struct(<<LateEnum, LateEnum, LateEnum, Nested(Struct(<<Str(1)>>))>>)}

(* Every scalar type, and an array of nothing behind the end.              *)
Others ==
  {Struct(<<Scalar(ty)>>) : ty \in ScalarTypes}
    \cup {Struct(<<Late, Array("u8", 3), Array("u16", 0)>>), Struct(<<Array("u32", 0)>>)}

MCTypes == Inner \cup Chain \cup {Struct(<<Str(1)>>)}
MCEvents ==
  Flat \cup Mixed \cup Variants \cup Holders \cup EnumHolders \cup Overruns \cup Others
    \cup {t \in Chain : t.height > 0}

FlatEvents == Flat
=============================================================================
