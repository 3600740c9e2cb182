------------------------------ MODULE MCIngestDb ------------------------------
(* Builds for IngestDb: an event type with a nested type, the same program *)
(* after its nested type changed, and builds that collide with them, one   *)
(* of them in itself as well.                                              *)
EXTENDS IngestDb, TLC

CONSTANTS t1, t2, t3, h1, h2, h3, h4, f1, f2, c1, c2, c3, leaf, call1, call2,
          outer1, outer2, retext, twin, id0, id1, id2, id3, id4

MCCallee == leaf :> {} @@ call1 :> {t1} @@ call2 :> {t2}

Event(t, h, f, bc) ==
  [tag |-> t, full_hash |-> h, format_hash |-> f, bytecode |-> bc]
String(f, c) == [hash |-> f, content |-> c]

Inner1 == Event(t1, h1, f1, leaf)
Inner2 == Event(t2, h2, NoFormat, leaf)   \* the nested type gained a field
Outer1 == Event(t3, h3, NoFormat, call1)
Outer2 == Event(t3, h3, NoFormat, call2)  \* its hash names only the type
Clash == Event(t1, h4, NoFormat, leaf)    \* truncates to the tag of Inner1

MCEmitted ==
  outer1 :> [events |-> {Inner1, Outer1}, strings |-> {String(f1, c1)}] @@
  outer2 :> [events |-> {Inner2, Outer2}, strings |-> {}] @@
  retext :> [events |-> {}, strings |-> {String(f1, c3)}] @@
  twin :> [events |-> {Inner1, Clash}, strings |-> {String(f1, c1), String(f2, c2)}]

MCBuildIdOf ==
  outer1 :> id1 @@ outer2 :> id2 @@ retext :> id3 @@ twin :> id4

Emitted_ == [b \in Build |-> MCEmitted[b]]
BuildIdOf_ == [b \in Build |-> MCBuildIdOf[b]]
=============================================================================
