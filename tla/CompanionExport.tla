--------------------------- MODULE CompanionExport ---------------------------
(***************************************************************************)
(* The companion export (SPEC.md section 9.3): after its transaction has   *)
(* committed, `zfmt ingest` reads the whole database back, with one SELECT *)
(* for the events and one for the strings, and overwrites a text file next *)
(* to the database; `zfmt db merge` does not (zfmt-host/src/main.rs,       *)
(* db.rs).  Ingest and merge themselves are steps of SerialDb.             *)
(*                                                                         *)
(* std::fs::write is two steps: it truncates the file, then writes the     *)
(* text at offset 0 of whatever another process has put there meanwhile.   *)
(***************************************************************************)
EXTENDS SerialDb

CONSTANTS
  Image,    \* the batches that may be ingested or merged
  Path,     \* export files
  ExportOf  \* Path::with_extension("db.txt") of each database

ASSUME ExportAssumption ==
  /\ Image \subseteq Batch
  /\ \A B \in Image : Closed(B.events, B.strings)
  /\ ExportOf \in [Db -> Path]

VARIABLES
  stage,  \* where each process is in its command
  rows,   \* what write_export has read back
  file,   \* the content of each export file
  alone,  \* no other command ran since this one began (for the properties)
  last    \* the process that last changed each database (for the properties)

exportVars == <<vars, stage, rows, file, alone, last>>

AtRest == {"idle", "done", "merged", "failed"}
Exporting == {"read_events", "read_strings", "truncate", "write"}
Stage == AtRest \cup Exporting \cup {"ingest", "merge"}

NoRows == [events |-> {}, strings |-> {}]
Rows == [events : SUBSET EventEntry, strings : SUBSET StringEntry]
RowsOf(d) == [events |-> db[d].events, strings |-> db[d].strings]

(* A file holds the rendering of some rows, or two renderings overlaid.    *)
Whole(r) == [rows |-> r, torn |-> FALSE]
Torn == [rows |-> NoRows, torn |-> TRUE]
File == [rows : Rows, torn : BOOLEAN]

ExportInit ==
  /\ Init
  /\ stage = [p \in Proc |-> "idle"]
  /\ rows = [p \in Proc |-> NoRows]
  /\ file = [x \in Path |-> Whole(NoRows)]
  /\ alone = [p \in Proc |-> FALSE]
  /\ last \in [Db -> Proc]

StartCommand(p, kind, B, d) ==
  /\ stage[p] \in AtRest
  /\ stage' = [stage EXCEPT ![p] = kind]
  /\ alone' = [q \in Proc |-> q = p /\ \A o \in Proc \ {p} : stage[o] \in AtRest]
  /\ target' = [target EXCEPT ![p] = d]
  /\ request' = [request EXCEPT ![p] = B]
  /\ Submit(p)
  /\ UNCHANGED <<rows, file, last>>

Committed(p) ==
  /\ db' = [db EXCEPT ![target[p]] = Updated(@, request[p])]
  /\ Accept(p)
  /\ last' = [last EXCEPT ![target[p]] = p]

EndIngest(p) ==
  /\ stage[p] = "ingest"
  /\ Committed(p)
  /\ stage' = [stage EXCEPT ![p] = "read_events"]
  /\ UNCHANGED <<rows, file, alone>>

EndMerge(p) ==
  /\ stage[p] = "merge"
  /\ Committed(p)
  /\ stage' = [stage EXCEPT ![p] = "merged"]
  /\ UNCHANGED <<rows, file, alone>>

RefuseBatch(p) ==
  /\ stage[p] \in {"ingest", "merge"}
  /\ Reject(p)
  /\ stage' = [stage EXCEPT ![p] = "failed"]
  /\ UNCHANGED <<rows, file, alone, last>>

-----------------------------------------------------------------------------
(* Db::write_export.                                                       *)

ReadEvents(p) ==
  /\ stage[p] = "read_events"
  /\ rows' = [rows EXCEPT ![p].events = db[target[p]].events]
  /\ stage' = [stage EXCEPT ![p] = "read_strings"]
  /\ UNCHANGED <<vars, file, alone, last>>

(* Mutant: the second SELECT names the first one's table.                  *)
ReadStringsFromEvents(p) ==
  /\ stage[p] = "read_strings"
  /\ rows' = [rows EXCEPT ![p].strings = db[target[p]].events]
  /\ stage' = [stage EXCEPT ![p] = "truncate"]
  /\ UNCHANGED <<vars, file, alone, last>>

ReadStrings(p) ==
  /\ stage[p] = "read_strings"
  /\ rows' = [rows EXCEPT ![p].strings = db[target[p]].strings]
  /\ stage' = [stage EXCEPT ![p] = "truncate"]
  /\ UNCHANGED <<vars, file, alone, last>>

(* Mutant: the file is opened without truncating it.                       *)
OpenUntruncated(p) ==
  /\ stage[p] = "truncate"
  /\ stage' = [stage EXCEPT ![p] = "write"]
  /\ UNCHANGED <<vars, rows, file, alone, last>>

Truncate(p) ==
  /\ stage[p] = "truncate"
  /\ file' = [file EXCEPT ![ExportOf[target[p]]] = Whole(NoRows)]
  /\ stage' = [stage EXCEPT ![p] = "write"]
  /\ UNCHANGED <<vars, rows, alone, last>>

Within(r, s) == r.events \subseteq s.events /\ r.strings \subseteq s.strings

(* The text of more rows is longer.  A text at least as long as what the   *)
(* file holds replaces it; a shorter one leaves the tail of the other.     *)
Overlays(r, f) ==
  {g \in {Whole(r), Torn} :
     /\ g = Whole(r) => f.torn \/ r = f.rows \/ ~Within(r, f.rows)
     /\ g = Torn => f.torn \/ ~Within(f.rows, r)}

Write(p) ==
  LET x == ExportOf[target[p]] IN
  /\ stage[p] = "write"
  /\ \E g \in Overlays(rows[p], file[x]) : file' = [file EXCEPT ![x] = g]
  /\ stage' = [stage EXCEPT ![p] = "done"]
  /\ rows' = [rows EXCEPT ![p] = NoRows]
  /\ UNCHANGED <<vars, alone, last>>

-----------------------------------------------------------------------------
(* The process is killed, or a statement or the file system fails.         *)
Abort(p) ==
  /\ stage[p] \notin AtRest
  /\ stage' = [stage EXCEPT ![p] = "failed"]
  /\ rows' = [rows EXCEPT ![p] = NoRows]
  /\ IF stage[p] \in Exporting THEN UNCHANGED vars ELSE Fail(p)
  /\ UNCHANGED <<file, alone, last>>

Command(p) ==
  \E kind \in {"ingest", "merge"}, B \in Image, d \in Db : StartCommand(p, kind, B, d)

(* Mutant: the strings are read back before the events.                    *)
ReadStringsFirst(p) ==
  /\ stage[p] = "read_events"
  /\ rows' = [rows EXCEPT ![p].strings = db[target[p]].strings]
  /\ stage' = [stage EXCEPT ![p] = "read_strings"]
  /\ UNCHANGED <<vars, file, alone, last>>

ReadEventsLast(p) ==
  /\ stage[p] = "read_strings"
  /\ rows' = [rows EXCEPT ![p].events = db[target[p]].events]
  /\ stage' = [stage EXCEPT ![p] = "truncate"]
  /\ UNCHANGED <<vars, file, alone, last>>

ExportStringsFirst(p) ==
  ReadStringsFirst(p) \/ ReadEventsLast(p) \/ Truncate(p) \/ Write(p)

Export(p) == ReadEvents(p) \/ ReadStrings(p) \/ Truncate(p) \/ Write(p)

ExportNext ==
  \E p \in Proc :
    \/ Command(p)
    \/ EndIngest(p)
    \/ EndMerge(p)
    \/ RefuseBatch(p)
    \/ Export(p)
    \/ Abort(p)

ExportSpec == ExportInit /\ [][ExportNext]_exportVars

-----------------------------------------------------------------------------
(* Properties.                                                             *)

(* Every variable stays in its range.                                      *)
ExportTypeOK ==
  /\ TypeOK
  /\ stage \in [Proc -> Stage]
  /\ rows \in [Proc -> Rows]
  /\ file \in [Path -> File]
  /\ alone \in [Proc -> BOOLEAN]
  /\ last \in [Db -> Proc]

(* An export never shows an event without its format string or without the *)
(* event a CALL in it names, although its rows come from two SELECTs with  *)
(* other processes' commits in between (db.rs:421-422).                    *)
ExportIsClosed ==
  \A x \in Path : Closed(file[x].rows.events, file[x].rows.strings)

(* An ingest that no other command overlapped leaves an export of exactly  *)
(* the rows of its database, whatever crashed or was torn before it.       *)
LoneIngestExports ==
  \A p \in Proc : stage[p] = "done" /\ alone[p] =>
    file[ExportOf[target[p]]] = Whole(RowsOf(target[p]))

(* SPEC.md:704-707: once every command has ended, a database whose last    *)
(* change was an ingest that succeeded has an export of exactly its rows.  *)
IngestsExport ==
  (\A p \in Proc : stage[p] \in AtRest) =>
    \A d \in Db :
      stage[last[d]] = "done" /\ target[last[d]] = d =>
        file[ExportOf[d]] = Whole(RowsOf(d))
=============================================================================
