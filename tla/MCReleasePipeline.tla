-------------------------- MODULE MCReleasePipeline --------------------------
(* ELF images for ReleasePipeline: one program, its next release, and a    *)
(* program whose event has the tag of another type.                        *)
EXTENDS ReleasePipeline, TLC

CONSTANTS t1, t2, h1, h2, h3, f1, f2, c1, c2, c3, leaf, id1, id2, id3

MCCallee == leaf :> {}

Event(t, h, f) == [tag |-> t, full_hash |-> h, format_hash |-> f, bytecode |-> leaf]
String(f, c) == [hash |-> f, content |-> c]

Release1 ==
  [events |-> {Event(t1, h1, f1)}, strings |-> {String(f1, c1)}, build |-> id1]
Release2 ==
  [events |-> {Event(t1, h1, f1), Event(t2, h2, NoFormat)},
   strings |-> {String(f1, c1)}, build |-> id2]
Clashing ==
  [events |-> {Event(t1, h3, f2)}, strings |-> {String(f2, c2)}, build |-> id3]
Reworded == [events |-> {}, strings |-> {String(f1, c3)}, build |-> id3]

MCImage == {Release1, Release2, Clashing, Reworded}

ProcSymmetry == Permutations(Proc)
=============================================================================
