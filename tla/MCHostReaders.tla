---------------------------- MODULE MCHostReaders ----------------------------
EXTENDS HostReaders, TLC

CONSTANTS t1, t2, h1, h2, h3, f1, f2, c1, c2, leaf, call1, id1, x1, d1, d2

(* The caller's bytecode CALLs the nested type.                            *)
MCCallee == leaf :> {} @@ call1 :> {t1}

Event(t, h, f, bc) ==
  [tag |-> t, full_hash |-> h, format_hash |-> f, bytecode |-> bc]
String(f, c) == [hash |-> f, content |-> c]

(* A program with a nested type, before its caller was added and after it, *)
(* and a program in which another type has the caller's tag.               *)
Base ==
  [events |-> {Event(t1, h1, f1, leaf)}, strings |-> {String(f1, c1)}, build |-> id1]
Extended ==
  [events |-> {Event(t1, h1, f1, leaf), Event(t2, h2, f2, call1)},
   strings |-> {String(f1, c1), String(f2, c2)}, build |-> id1]
Colliding ==
  [events |-> {Event(t2, h3, NoFormat, leaf)}, strings |-> {}, build |-> id1]

MCImage == {Base, Extended, Colliding}

(* "events.db" and "events.sqlite" have one export, "events.db.txt".       *)
MCExportOf == [d \in Db |-> x1]

MCDatabases == {<<d1, d2>>}

(* What the next states and the properties depend on: of a process that    *)
(* waits for a command, only what its last one must have exported.         *)
ProcView(p) ==
  IF stage[p] \notin AtRest
  THEN <<stage[p], target[p], request[p], rows[p], alone[p]>>
  ELSE IF stage[p] = "done" /\ alone[p] THEN <<"done", target[p]>> ELSE <<"rest">>

MCView == <<db, [p \in Proc |-> ProcView(p)], file, readerVars>>

MCSymmetry == Permutations(Proc)
=============================================================================
