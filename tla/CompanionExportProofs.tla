------------------------ MODULE CompanionExportProofs ------------------------
(***************************************************************************)
(* Proofs about CompanionExport, for any number of processes, databases,   *)
(* export files and batches: what an export shows is closed, and an ingest *)
(* nobody overlapped exports exactly its database.                         *)
(***************************************************************************)
EXTENDS CompanionExport, TLAPS

StepOf(p) ==
  \/ Command(p)
  \/ EndIngest(p)
  \/ EndMerge(p)
  \/ RefuseBatch(p)
  \/ Export(p)
  \/ Abort(p)

(* A running request is one of the batches there are.                      *)
RequestInv == \A p \in Proc : status[p] = "running" => request[p] \in Image

ClosedDbInv == \A d \in Db : Closed(db[d].events, db[d].strings)

Grows == \A d \in Db : Within(db[d], db'[d])

-----------------------------------------------------------------------------
(* The database.                                                           *)

(* The rows of a closed database and a closed batch are closed together:   *)
(* an entry of the batch that was skipped has a row with its tag.          *)
LEMMA UpdatedIsClosed ==
  ASSUME NEW T, NEW B, Closed(T.events, T.strings), Closed(B.events, B.strings)
  PROVE  Closed(Updated(T, B).events, Updated(T, B).strings)
<1> DEFINE U == Updated(T, B)
<1>1. /\ U.events = T.events \cup {e \in B.events : ~EventKnown(T, e)}
      /\ U.strings = T.strings \cup B.strings
  BY DEF Updated
<1>2. ASSUME NEW f \in B.events
      PROVE  \E g \in U.events : g.tag = f.tag
  BY <1>1 DEF EventKnown, SameIdentity
<1> HIDE DEF U
<1> SUFFICES ASSUME NEW e \in U.events
             PROVE  /\ e.format_hash = NoFormat \/ \E s \in U.strings : s.hash = e.format_hash
                    /\ \A t \in Callee[e.bytecode] : \E f \in U.events : f.tag = t
  BY DEF Closed, U
<1>3. CASE e \in T.events
  BY <1>1, <1>3 DEF Closed
<1>4. CASE e \in B.events
  BY <1>1, <1>2, <1>4 DEF Closed
<1> QED
  BY <1>1, <1>3, <1>4

(* A step keeps the database typed and closed, and nothing leaves it.      *)
LEMMA DbStep ==
  ASSUME TypeOK, RequestInv, ClosedDbInv, NEW p \in Proc, StepOf(p)
  PROVE  TypeOK' /\ RequestInv' /\ ClosedDbInv' /\ Grows
<1> USE DEF TypeOK, RequestInv
<1>1. CASE UNCHANGED vars
  BY <1>1 DEF vars, ClosedDbInv, Grows, Within
<1>2. ASSUME NEW kind \in {"ingest", "merge"}, NEW B \in Image, NEW d \in Db,
             StartCommand(p, kind, B, d)
      PROVE  TypeOK' /\ RequestInv' /\ ClosedDbInv' /\ Grows
  <2>1. B \in Batch /\ db' = db
    BY <1>2, ExportAssumption DEF StartCommand, Submit
  <2>2. /\ request' = [request EXCEPT ![p] = B]
        /\ status' = [status EXCEPT ![p] = "running"]
        /\ target' = [target EXCEPT ![p] = d]
    BY <1>2 DEF StartCommand, Submit
  <2> QED
    BY <2>1, <2>2 DEF ClosedDbInv, Grows, Within
<1>3. ASSUME Committed(p)
      PROVE  TypeOK' /\ RequestInv' /\ ClosedDbInv' /\ Grows
  <2> DEFINE d == target[p]
             U == Updated(db[d], request[p])
  <2>1. d \in Db /\ request[p] \in Image /\ request[p] \in Batch
    BY <1>3, ExportAssumption DEF Committed, Accept
  <2>2. U \in Tables
    BY <2>1 DEF Updated, Tables, Batch
  <2>3. Closed(U.events, U.strings)
    BY <2>1, UpdatedIsClosed, ExportAssumption DEF ClosedDbInv
  <2>4. Within(db[d], U)
    BY DEF Updated, Within
  <2>5. db' = [db EXCEPT ![d] = U]
    BY <1>3 DEF Committed
  <2> HIDE DEF U
  <2>6. db'[d] = U /\ \A c \in Db \ {d} : db'[c] = db[c]
    BY <2>1, <2>5
  <2>7. /\ status' = [status EXCEPT ![p] = "ok"]
        /\ request' = [request EXCEPT ![p] = NoRequest]
        /\ target' = target
    BY <1>3 DEF Committed, Accept, Finish
  <2>8. TypeOK' /\ RequestInv'
    BY <2>2, <2>5, <2>7
  <2>9. ClosedDbInv'
    BY <2>3, <2>6 DEF ClosedDbInv
  <2>10. Grows
    BY <2>4, <2>6 DEF Grows, Within
  <2> QED
    BY <2>8, <2>9, <2>10
<1>4. CASE Reject(p)
  BY <1>4 DEF Reject, Finish, ClosedDbInv, Grows, Within
<1>5. CASE Fail(p)
  BY <1>5 DEF Fail, ClosedDbInv, Grows, Within
<1>6. CASE Export(p) \/ Abort(p)
  BY <1>1, <1>5, <1>6 DEF Export, ReadEvents, ReadStrings, Truncate, Write, Abort
<1> QED
  BY <1>2, <1>3, <1>4, <1>6 DEF StepOf, Command, EndIngest, EndMerge, RefuseBatch

-----------------------------------------------------------------------------
(* Types.                                                                  *)

LEMMA ExportTypeInit == ExportInit => ExportTypeOK /\ RequestInv /\ ClosedDbInv
<1> SUFFICES ASSUME ExportInit
             PROVE  ExportTypeOK /\ RequestInv /\ ClosedDbInv
  OBVIOUS
<1>1. TypeOK
  BY DEF ExportInit, Init, TypeOK, Tables, EmptyTables
<1>2. RequestInv /\ ClosedDbInv
  BY DEF ExportInit, Init, RequestInv, ClosedDbInv, Closed, EmptyTables
<1>3. NoRows \in Rows /\ Whole(NoRows) \in File
  BY DEF NoRows, Rows, Whole, File
<1> QED
  BY <1>1, <1>2, <1>3 DEF ExportInit, ExportTypeOK, Stage, AtRest

LEMMA ExportTypeStep ==
  ASSUME ExportTypeOK, TypeOK', NEW p \in Proc, StepOf(p)
  PROVE  ExportTypeOK'
<1> USE DEF ExportTypeOK
<1>1. NoRows \in Rows /\ Whole(NoRows) \in File /\ Torn \in File
  BY DEF NoRows, Rows, Whole, Torn, File
<1>2. target[p] \in Db /\ db[target[p]] \in Tables
  BY DEF TypeOK
<1>3. CASE Command(p)
  BY <1>3 DEF Command, StartCommand, Stage
<1>4. CASE EndIngest(p) \/ EndMerge(p)
  <2>1. /\ stage' \in [Proc -> Stage]
        /\ last' = [last EXCEPT ![target[p]] = p]
        /\ UNCHANGED <<rows, file, alone>>
    BY <1>4 DEF EndIngest, EndMerge, Committed, Stage, AtRest, Exporting
  <2> QED
    BY <2>1
<1>5. CASE RefuseBatch(p)
  BY <1>5 DEF RefuseBatch, Stage, AtRest
<1>6. CASE ReadEvents(p)
  <2>1. [rows[p] EXCEPT !.events = db[target[p]].events] \in Rows
    BY <1>2 DEF Rows, Tables
  <2>2. /\ rows' = [rows EXCEPT ![p] = [rows[p] EXCEPT !.events = db[target[p]].events]]
        /\ stage' = [stage EXCEPT ![p] = "read_strings"]
        /\ UNCHANGED <<file, alone, last>>
    BY <1>6 DEF ReadEvents
  <2> QED
    BY <2>1, <2>2 DEF Stage, Exporting
<1>7. CASE ReadStrings(p)
  <2>1. [rows[p] EXCEPT !.strings = db[target[p]].strings] \in Rows
    BY <1>2 DEF Rows, Tables
  <2>2. /\ rows' = [rows EXCEPT ![p] = [rows[p] EXCEPT !.strings = db[target[p]].strings]]
        /\ stage' = [stage EXCEPT ![p] = "truncate"]
        /\ UNCHANGED <<file, alone, last>>
    BY <1>7 DEF ReadStrings
  <2> QED
    BY <2>1, <2>2 DEF Stage, Exporting
<1>8. CASE Truncate(p)
  BY <1>1, <1>8 DEF Truncate, Stage, Exporting
<1>9. CASE Write(p)
  <2>1. rows[p] \in Rows /\ Whole(rows[p]) \in File
    BY DEF Whole, File
  <2>2. PICK g \in {Whole(rows[p]), Torn} :
          file' = [file EXCEPT ![ExportOf[target[p]]] = g]
    BY <1>9 DEF Write, Overlays
  <2>3. /\ stage' = [stage EXCEPT ![p] = "done"]
        /\ rows' = [rows EXCEPT ![p] = NoRows]
        /\ UNCHANGED <<alone, last>>
    BY <1>9 DEF Write
  <2> QED
    BY <1>1, <2>1, <2>2, <2>3 DEF Stage, AtRest
<1>10. CASE Abort(p)
  BY <1>1, <1>10 DEF Abort, Stage, AtRest
<1> QED
  BY <1>3, <1>4, <1>5, <1>6, <1>7, <1>8, <1>9, <1>10 DEF StepOf, Export

-----------------------------------------------------------------------------
(* What an export shows.  The rows in hand are closed only once the        *)
(* strings are read: the events were read from an earlier database, whose  *)
(* strings are still there.                                                *)

RowsInv(p) ==
  /\ stage[p] = "read_strings" => Closed(rows[p].events, db[target[p]].strings)
  /\ stage[p] \in {"truncate", "write"} => Closed(rows[p].events, rows[p].strings)

ClosedInv ==
  /\ ExportTypeOK
  /\ RequestInv
  /\ ClosedDbInv
  /\ \A p \in Proc : RowsInv(p)
  /\ ExportIsClosed

LEMMA MoreStrings ==
  ASSUME NEW E, NEW S, NEW S2, S \subseteq S2, Closed(E, S)
  PROVE  Closed(E, S2)
BY DEF Closed

(* A step of one process leaves the command of another where it was.       *)
LEMMA OthersRest ==
  ASSUME ExportTypeOK, NEW p \in Proc, NEW q \in Proc \ {p}, StepOf(p)
  PROVE  stage'[q] = stage[q] /\ rows'[q] = rows[q] /\ target'[q] = target[q]
<1> USE DEF ExportTypeOK, TypeOK
<1>1. CASE Command(p)
  BY <1>1 DEF Command, StartCommand, Submit
<1>2. CASE EndIngest(p) \/ EndMerge(p) \/ RefuseBatch(p)
  BY <1>2 DEF EndIngest, EndMerge, RefuseBatch, Committed, Accept, Reject, Finish
<1>3. CASE Export(p)
  BY <1>3 DEF Export, ReadEvents, ReadStrings, Truncate, Write, vars
<1>4. CASE Abort(p)
  BY <1>4 DEF Abort, Fail, vars
<1> QED
  BY <1>1, <1>2, <1>3, <1>4 DEF StepOf

LEMMA ClosedStep == ClosedInv /\ [ExportNext]_exportVars => ClosedInv'
<1>1. ASSUME ClosedInv, NEW p \in Proc, StepOf(p)
      PROVE  ClosedInv'
  <2> USE DEF ClosedInv
  <2>1. TypeOK' /\ RequestInv' /\ ClosedDbInv' /\ Grows
    BY <1>1, DbStep DEF ExportTypeOK
  <2>2. ExportTypeOK'
    BY <1>1, <2>1, ExportTypeStep
  <2>3. ASSUME NEW q \in Proc \ {p}
        PROVE  RowsInv(q)'
    <3>1. stage'[q] = stage[q] /\ rows'[q] = rows[q] /\ target'[q] = target[q]
      BY <1>1, <2>3, OthersRest
    <3>2. target[q] \in Db
      BY <1>1 DEF ExportTypeOK, TypeOK
    <3>3. db[target[q]].strings \subseteq db'[target[q]].strings
      BY <2>1, <3>2 DEF Grows, Within
    <3> QED
      BY <1>1, <2>3, <3>1, <3>3, MoreStrings DEF RowsInv
  <2>4. RowsInv(p)' /\ ExportIsClosed'
    <3> USE DEF ExportTypeOK
    <3>1. Closed(NoRows.events, NoRows.strings)
      BY DEF Closed, NoRows
    <3>2. CASE stage'[p] \notin {"read_strings", "truncate", "write"} /\ file' = file
      BY <1>1, <3>2 DEF RowsInv, ExportIsClosed
    <3>3. CASE Command(p) \/ EndIngest(p) \/ EndMerge(p) \/ RefuseBatch(p) \/ Abort(p)
      <4>1. stage'[p] \notin {"read_strings", "truncate", "write"} /\ file' = file
        BY <1>1, <3>3
           DEF Command, StartCommand, EndIngest, EndMerge, RefuseBatch, Abort
      <4> QED
        BY <3>2, <4>1
    <3>4. CASE ReadEvents(p)
      <4>1. /\ stage'[p] = "read_strings"
            /\ rows'[p].events = db[target[p]].events
            /\ UNCHANGED <<db, target, file>>
        BY <1>1, <3>4 DEF ReadEvents, vars, Rows
      <4>2. Closed(db[target[p]].events, db[target[p]].strings)
        BY <1>1 DEF ClosedDbInv, TypeOK
      <4> QED
        BY <1>1, <4>1, <4>2 DEF RowsInv, ExportIsClosed
    <3>5. CASE ReadStrings(p)
      <4>1. /\ stage[p] = "read_strings" /\ stage'[p] = "truncate"
            /\ rows'[p].strings = db[target[p]].strings
            /\ rows'[p].events = rows[p].events
            /\ file' = file
        BY <1>1, <3>5 DEF ReadStrings, Rows
      <4> QED
        BY <1>1, <4>1 DEF RowsInv, ExportIsClosed
    <3>6. CASE Truncate(p)
      <4>1. /\ stage[p] = "truncate" /\ stage'[p] = "write" /\ rows' = rows
            /\ file' = [file EXCEPT ![ExportOf[target[p]]] = Whole(NoRows)]
        BY <1>1, <3>6 DEF Truncate
      <4> QED
        BY <1>1, <3>1, <4>1 DEF RowsInv, ExportIsClosed, Whole
    <3>7. CASE Write(p)
      <4>1. PICK g \in {Whole(rows[p]), Torn} :
              file' = [file EXCEPT ![ExportOf[target[p]]] = g]
        BY <3>7 DEF Write, Overlays
      <4>2. stage[p] = "write" /\ stage'[p] = "done"
        BY <1>1, <3>7 DEF Write
      <4>3. Closed(g.rows.events, g.rows.strings)
        BY <1>1, <3>1, <4>2 DEF RowsInv, Whole, Torn
      <4> QED
        BY <1>1, <4>1, <4>2, <4>3 DEF RowsInv, ExportIsClosed
    <3> QED
      BY <1>1, <3>3, <3>4, <3>5, <3>6, <3>7 DEF StepOf, Export
  <2> QED
    BY <2>1, <2>2, <2>3, <2>4
<1>2. ASSUME ClosedInv, UNCHANGED exportVars
      PROVE  ClosedInv'
  BY <1>2 DEF exportVars, vars, ClosedInv, ExportTypeOK, TypeOK, RequestInv, ClosedDbInv,
              RowsInv, ExportIsClosed
<1> QED
  BY <1>1, <1>2 DEF ExportNext, StepOf

LEMMA ClosedInit == ExportInit => ClosedInv
<1> SUFFICES ASSUME ExportInit
             PROVE  ClosedInv
  OBVIOUS
<1>1. \A p \in Proc : stage[p] = "idle"
  BY DEF ExportInit
<1>2. \A x \in Path : file[x].rows = NoRows
  BY DEF ExportInit, Whole
<1> QED
  BY <1>1, <1>2, ExportTypeInit DEF ClosedInv, RowsInv, ExportIsClosed, Closed, NoRows

LEMMA ClosedInvariance == ExportSpec => []ClosedInv
  BY ClosedInit, ClosedStep, PTL DEF ExportSpec

(* Every variable of the export keeps its type.                            *)
THEOREM ExportTypeCorrect == ExportSpec => []ExportTypeOK
  BY ClosedInvariance, PTL DEF ClosedInv

(* An export is closed although its rows come from two SELECTs with other  *)
(* processes' commits in between (db.rs:420-425).                          *)
THEOREM ExportClosed == ExportSpec => []ExportIsClosed
  BY ClosedInvariance, PTL DEF ClosedInv

-----------------------------------------------------------------------------
(* An ingest that no other command overlapped.  While it is alone nothing  *)
(* but itself changes its database or its file.                            *)

FileOf(p) == ExportOf[target[p]]

LoneInv(p) ==
  alone[p] =>
    /\ \A o \in Proc \ {p} : stage[o] \in AtRest
    /\ stage[p] = "read_strings" => rows[p].events = db[target[p]].events
    /\ stage[p] \in {"truncate", "write"} => rows[p] = RowsOf(target[p])
    /\ stage[p] = "write" => file[FileOf(p)] = Whole(NoRows)
    /\ stage[p] = "done" => file[FileOf(p)] = Whole(RowsOf(target[p]))

(* A process that is alone takes a step of its own.                        *)
LEMMA LoneStep ==
  ASSUME ExportTypeOK, NEW p \in Proc, LoneInv(p), StepOf(p)
  PROVE  LoneInv(p)'
<1> USE DEF ExportTypeOK
<1>1. CASE Command(p)
  <2>1. PICK kind \in {"ingest", "merge"}, B \in Image, d \in Db : StartCommand(p, kind, B, d)
    BY <1>1 DEF Command
  <2>2. /\ stage' = [stage EXCEPT ![p] = kind]
        /\ alone'[p] => \A o \in Proc \ {p} : stage[o] \in AtRest
    BY <2>1 DEF StartCommand
  <2> QED
    BY <2>2 DEF LoneInv
<1> SUFFICES ASSUME ~Command(p), alone[p]
             PROVE  LoneInv(p)'
  <2>1. CASE ~Command(p)
    <3>1. alone' = alone
      BY <2>1 DEF StepOf, EndIngest, EndMerge, RefuseBatch, Export, ReadEvents,
                  ReadStrings, Truncate, Write, Abort
    <3> QED
      BY <2>1, <3>1 DEF LoneInv
  <2> QED
    BY <1>1, <2>1
<1>2. \A o \in Proc \ {p} : stage'[o] \in AtRest
  BY OthersRest DEF LoneInv
<1>3. target[p] \in Db /\ rows[p] \in Rows
  BY DEF TypeOK
<1>4. ASSUME stage'[p] \notin {"read_strings", "truncate", "write", "done"}
      PROVE  LoneInv(p)'
  BY <1>2, <1>4 DEF LoneInv
<1>5. CASE EndIngest(p) \/ EndMerge(p) \/ RefuseBatch(p) \/ Abort(p)
  BY <1>4, <1>5 DEF EndIngest, EndMerge, RefuseBatch, Abort
<1>6. CASE ReadEvents(p)
  <2>1. /\ stage'[p] = "read_strings" /\ UNCHANGED <<db, target>>
        /\ rows'[p].events = db[target[p]].events
    BY <1>3, <1>6 DEF ReadEvents, vars, Rows
  <2> QED
    BY <1>2, <2>1 DEF LoneInv
<1>7. CASE ReadStrings(p)
  <2>1. /\ stage[p] = "read_strings" /\ stage'[p] = "truncate"
        /\ UNCHANGED <<db, target>>
        /\ rows'[p] = [rows[p] EXCEPT !.strings = db[target[p]].strings]
    BY <1>7 DEF ReadStrings, vars
  <2>2. rows[p].events = db[target[p]].events
    BY <2>1 DEF LoneInv
  <2>3. rows'[p] = RowsOf(target[p])
    BY <1>3, <2>1, <2>2 DEF RowsOf, Rows
  <2> QED
    BY <1>2, <2>1, <2>3 DEF LoneInv, RowsOf
<1>8. CASE Truncate(p)
  <2>1. /\ stage[p] = "truncate" /\ stage'[p] = "write"
        /\ UNCHANGED <<db, target, rows>>
        /\ file' = [file EXCEPT ![FileOf(p)] = Whole(NoRows)]
    BY <1>8 DEF Truncate, vars, FileOf
  <2>2. FileOf(p) \in Path
    BY <1>3, ExportAssumption DEF FileOf
  <2>3. file'[FileOf(p)] = Whole(NoRows)
    BY <2>1, <2>2
  <2> QED
    BY <1>2, <2>1, <2>3 DEF LoneInv, RowsOf, FileOf
<1>9. CASE Write(p)
  <2>1. /\ stage[p] = "write" /\ stage'[p] = "done" /\ UNCHANGED <<db, target>>
        /\ \E g \in Overlays(rows[p], file[FileOf(p)]) :
             file' = [file EXCEPT ![FileOf(p)] = g]
    BY <1>9 DEF Write, vars, FileOf
  <2>2. FileOf(p) \in Path
    BY <1>3, ExportAssumption DEF FileOf
  <2>3. file[FileOf(p)] = Whole(NoRows) /\ rows[p] = RowsOf(target[p])
    BY <2>1 DEF LoneInv
  <2>4. ASSUME NEW g \in Overlays(rows[p], Whole(NoRows))
        PROVE  g = Whole(rows[p])
    BY <2>4 DEF Overlays, Whole, Within, NoRows
  <2>5. file'[FileOf(p)] = Whole(RowsOf(target[p]))
    BY <2>1, <2>2, <2>3, <2>4
  <2> QED
    BY <1>2, <2>1, <2>5 DEF LoneInv, RowsOf, FileOf
<1> QED
  BY <1>5, <1>6, <1>7, <1>8, <1>9 DEF StepOf, Export

(* Another process takes a step: a command that begins ends the solitude,  *)
(* and no other step is possible.                                          *)
LEMMA OtherStep ==
  ASSUME ExportTypeOK, NEW p \in Proc, NEW q \in Proc \ {p}, LoneInv(q), StepOf(p)
  PROVE  LoneInv(q)'
<1> USE DEF ExportTypeOK
<1>1. CASE Command(p)
  <2>1. ~alone'[q]
    BY <1>1 DEF Command, StartCommand
  <2> QED
    BY <2>1 DEF LoneInv
<1>2. CASE ~Command(p)
  <2>1. alone' = alone /\ stage[p] \notin AtRest
    BY <1>2 DEF StepOf, EndIngest, EndMerge, RefuseBatch, Export, ReadEvents,
                ReadStrings, Truncate, Write, Abort, AtRest
  <2>2. ~alone[q]
    BY <2>1 DEF LoneInv
  <2> QED
    BY <2>1, <2>2 DEF LoneInv
<1> QED
  BY <1>1, <1>2

(* An ingest that no other command overlapped exports exactly the rows of  *)
(* its database (main.rs:127-160).                                         *)
THEOREM LoneIngestIsExported == ExportSpec => []LoneIngestExports
<1> DEFINE Inv == \A p \in Proc : LoneInv(p)
<1>1. ExportInit => Inv
  BY DEF ExportInit, LoneInv
<1>2. ClosedInv /\ Inv /\ [ExportNext]_exportVars => Inv'
  <2>1. ASSUME ExportTypeOK, Inv, NEW p \in Proc, StepOf(p), NEW q \in Proc
        PROVE  LoneInv(q)'
    BY <2>1, LoneStep, OtherStep
  <2>2. ASSUME Inv, UNCHANGED exportVars, NEW q \in Proc
        PROVE  LoneInv(q)'
    BY <2>2 DEF exportVars, vars, LoneInv, RowsOf, FileOf
  <2> QED
    BY <2>1, <2>2 DEF ExportNext, StepOf, ClosedInv
<1>3. Inv => LoneIngestExports
  BY DEF LoneInv, LoneIngestExports, FileOf
<1> HIDE DEF Inv
<1> QED
  BY <1>1, <1>2, <1>3, ClosedInvariance, PTL DEF ExportSpec
=============================================================================
