-------------------------- MODULE MCCompanionExport --------------------------
(* Images for CompanionExport: a program, one that uses the same types and *)
(* one more, and one that collides with the first.                         *)
EXTENDS CompanionExport, TLC

CONSTANTS t1, t2, h1, h2, h3, f1, f2, c1, c2, leaf, call1, id1, id2, id3, x1

MCCallee == leaf :> {} @@ call1 :> {t1}

Event(t, h, f, bc) ==
  [tag |-> t, full_hash |-> h, format_hash |-> f, bytecode |-> bc]
String(f, c) == [hash |-> f, content |-> c]

Inner == Event(t1, h1, f1, leaf)
Outer == Event(t2, h2, f2, call1)

Program ==
  [events |-> {Inner}, strings |-> {String(f1, c1)}, build |-> id1]
Extended ==
  [events |-> {Inner, Outer}, strings |-> {String(f1, c1), String(f2, c2)},
   build |-> id2]
Colliding ==
  [events |-> {Event(t1, h3, NoFormat, leaf)}, strings |-> {}, build |-> id3]

MCImage == {Program, Extended, Colliding}

(* "events.db" and "events.sqlite" have one export, "events.db.txt".       *)
MCExportOf == [d \in Db |-> x1]

ProcSymmetry == Permutations(Proc)
=============================================================================
