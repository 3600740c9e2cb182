------------------------------ MODULE MCLogOutput ------------------------------
(* Small programs for LogOutput: one call with every kind of value and     *)
(* spec, calls whose text meets the end of the buffer, and sequences of    *)
(* calls whose messages meet the end of the Logger's buffer.               *)
EXTENDS LogOutput

SeqsOf(S, low, high) == UNION {[1..n -> S] : n \in low..high}
Optional(S) == {{}} \cup {{n} : n \in S}

MCAscii == [b \in {4, 5} |-> IF b = 4 THEN "E" ELSE " "]

(* Small values, and those at the edges of their types.                    *)
Ints ==
  {UInt(1, 0), UInt(1, 5), SInt(1, 3), SInt(1, 4), SInt(1, 7), UInt(2, 10),
   SInt(2, 32), SInt(4, 2^12 - 1), UInt(8, 2^24 - 1), SInt(8, 2^23),
   Pair(5), Pair(2^24 - 1)}

Floats ==
  {Float(negative, units) : negative \in BOOLEAN, units \in {0, 1, 2, 39, 2^27}}
    \cup {Word("nonfinite", 8, t) : t \in {<<"N", "a", "N">>, <<"-", "i", "n", "f">>}}

Words ==
  {Word("bool", 1, <<"t", "r", "u", "e">>), Word("str", 0, <<"s">>), Word("str", 0, <<>>),
   Hash(10, <<"h", "i">>)}

Aligns == {"", "<", ">"}
IntSpecs ==
  {Written(a, f, w, {}, r) :
     a \in Aligns, f \in SUBSET {"+", "#", "0"}, w \in Optional({6}),
     r \in {<<>>, <<"x">>, <<"X">>, <<"b">>, <<"o">>, <<"c">>}}
WordSpecs ==
  {Written(a, f, w, p, r) :
     a \in Aligns, f \in SUBSET {"+", "0"}, w \in Optional({12}),
     p \in Optional({0, 1, 7, 9}), r \in {<<>>, <<"c">>}}

(* Specs that only one of the parsers takes, or neither.                   *)
OddSpecs ==
  {Written("", {}, w, p, r) :
     w \in Optional({FieldMax, FieldMax + 1}),
     p \in Optional({NoDigits, FieldMax, FieldMax + 1}),
     r \in {<<>>, <<"x">>, <<"x", "x">>, <<"z">>}}

One(value, written) == <<Call("event", <<Field(value, written)>>, TRUE)>>

Shows ==
  {One(v, w) : v \in Ints, w \in IntSpecs}
    \cup {One(v, w) : v \in Floats \cup Words, w \in WordSpecs}
    \cup {One(UInt(1, 7), w) : w \in OddSpecs}

(* Texts of all lengths around that of the buffer.                         *)
Long(n) == Literal(Fill("l", n))
Filling ==
  {<<Call(via, <<Long(n), Field(v, Written(a, f, {6}, {}, r))>> \o tail, TRUE)>> :
     via \in {"event", "text"}, n \in (BufSize - 8) .. BufSize,
     v \in {UInt(2, 63), SInt(2, 63), Pair(75), Hash(10, <<"h">>)},
     a \in {"", ">"}, f \in SUBSET {"#", "0"},
     r \in {<<>>, <<"x">>, <<"b">>, <<"c">>},
     tail \in {<<>>, <<Literal(<<"m", "s">>)>>}}

(* Two values in one text.                                                 *)
Several ==
  {<<Call("event", <<Field(v, p), Literal(<<"k">>), Field(u, w)>>, TRUE)>> :
     v \in {UInt(1, 5), SInt(2, 32), Word("str", 0, <<"s">>)},
     u \in {UInt(2, 10), Float(FALSE, 39), Hash(10, <<"h", "i">>)},
     p \in {Written("", {}, {}, {}, <<>>), Written("<", {}, {3}, {}, <<>>)},
     w \in {Written(a, {}, {4}, {0}, <<>>) : a \in {"", ">"}}}

(* Calls with payloads whose length takes one byte and two.                *)
Plain == Written("", {}, {}, {}, <<>>)
Known == Call("event", <<Field(UInt(2, 9), Plain)>>, TRUE)
Unknown == Call("event", <<Field(UInt(1, 1), Plain)>>, FALSE)
Big == Call("event", <<Field(Word("str", 0, Fill("s", LebBase)), Plain)>>, TRUE)
Noise == Call("text", <<Literal(<<"a">>)>>, TRUE)
Boot == Call("bare", <<>>, TRUE)
Sequences == SeqsOf({Known, Unknown, Big, Noise, Boot}, 1, 3)

Unbounded == 1000
MCBuilds ==
  {Build("both", 11, FALSE, TRUE), Build("text", 10, TRUE, FALSE),
   Build("binary", 8, FALSE, TRUE), Build("both", Unbounded, FALSE, FALSE)}

RunsOf(programs, builds) == [program : programs, build : builds]

MCRuns ==
  RunsOf(Shows \cup Several, {Build("both", Unbounded, FALSE, FALSE)})
    \cup RunsOf({One(v, Plain) : v \in Floats \cup Ints}, MCBuilds)
    \cup RunsOf(Filling, {Build("text", Unbounded, no64, FALSE) : no64 \in BOOLEAN})
    \cup RunsOf(Sequences, MCBuilds)

(* The programs of the runs that look for a claim to be violated.          *)
CutRuns == RunsOf(SeqsOf({Known, Unknown, Boot}, 1, 3), {Build("binary", 9, FALSE, TRUE)})
AlignedRuns ==
  RunsOf({One(v, Written(a, {}, {12}, {}, <<>>)) : v \in Floats \cup Words, a \in {"<", ">"}},
         {Build("both", Unbounded, FALSE, FALSE)})
=============================================================================
