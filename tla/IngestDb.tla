------------------------------- MODULE IngestDb -------------------------------
(***************************************************************************)
(* `zfmt ingest` and `zfmt db merge` at the grain of their SQL statements: *)
(* any number of zfmt processes run at once on any number of database      *)
(* files, may be killed between two statements, and share nothing but      *)
(* SQLite's file locks (zfmt-host/src/db.rs, main.rs, elf.rs).             *)
(*                                                                         *)
(* SQLite itself is modelled from how db.rs uses it: Connection::open in   *)
(* the default rollback-journal mode and Connection::transaction, which    *)
(* issues a deferred BEGIN.  The first SELECT takes a SHARED lock that the *)
(* transaction keeps, the first INSERT takes the single RESERVED lock and  *)
(* fails at once when another connection has it, and COMMIT waits under a  *)
(* PENDING lock, which keeps new readers out, until it is the only reader. *)
(* A wait ends in an error when the busy timeout expires.                  *)
(***************************************************************************)
EXTENDS EventTables

CONSTANTS
  Proc,       \* zfmt processes
  Db,         \* database files
  Build,      \* firmware builds that may be ingested
  Emitted,    \* the entries the crates of a build emit
  BuildIdOf,  \* the --build-id given with a build's ELF
  MergeId     \* the build id 0 that merge_from passes to ingest

ASSUME EmittedAssumption ==
  /\ Emitted \in [Build -> [events : SUBSET EventEntry,
                            strings : SUBSET StringEntry]]
  /\ \A b \in Build : Closed(Emitted[b].events, Emitted[b].strings)
  /\ BuildIdOf \in [Build -> BuildId]
  /\ MergeId \in BuildId

VARIABLES
  db,       \* the committed tables of each file
  readers,  \* connections holding SHARED on each file
  writer,   \* the connections, at most one, holding RESERVED
  pending,  \* the writer of the file also holds PENDING
  pc,       \* where each process is
  target,   \* the database a process writes
  source,   \* the database a merge reads
  batch,    \* the slices passed to ingest, and its build id
  seen,     \* the entries of the slices already iterated over
  view      \* what the process's open transaction sees

locks == <<readers, writer, pending>>
vars == <<db, locks, pc, target, source, batch, seen, view>>

Finished == {"idle", "ok", "collision", "failed"}
MergePhase == {"read_events", "read_strings"}
TxPhase == {"tx", "commit"}
Phase == Finished \cup MergePhase \cup {"begin"} \cup TxPhase

NothingSeen == [events |-> {}, strings |-> {}]
NoBatch == [events |-> {}, strings |-> {}, build |-> MergeId]

-----------------------------------------------------------------------------
(* elf::parse_events and parse_strings return one entry per section.  The  *)
(* linker has merged the sections of one name, which is the tag or the     *)
(* hash, and only the first entry of a section is parsed.                  *)
FirstPerTag(events) ==
  {S \in SUBSET events :
     /\ \A e \in events : \E f \in S : f.tag = e.tag
     /\ \A e, f \in S : e.tag = f.tag => e = f}

FirstPerHash(strings) ==
  {S \in SUBSET strings :
     /\ \A s \in strings : \E r \in S : r.hash = s.hash
     /\ \A r, s \in S : r.hash = s.hash => r = s}

Parses(b) ==
  [events : FirstPerTag(Emitted[b].events),
   strings : FirstPerHash(Emitted[b].strings),
   build : {BuildIdOf[b]}]

-----------------------------------------------------------------------------
(* SQLite's locks.                                                         *)

Unlocked(p) ==
  /\ readers' = [d \in Db |-> readers[d] \ {p}]
  /\ writer' = [d \in Db |-> writer[d] \ {p}]
  /\ pending' = [d \in Db |-> pending[d] /\ p \notin writer[d]]

MayWrite(p) == writer[target[p]] \subseteq {p}

Reserve(p) ==
  /\ MayWrite(p)
  /\ writer' = [writer EXCEPT ![target[p]] = {p}]

-----------------------------------------------------------------------------
Init ==
  /\ db = [d \in Db |-> EmptyTables]
  /\ readers = [d \in Db |-> {}]
  /\ writer = [d \in Db |-> {}]
  /\ pending = [d \in Db |-> FALSE]
  /\ pc = [p \in Proc |-> "idle"]
  /\ target \in [Proc -> Db]
  /\ source = target
  /\ batch = [p \in Proc |-> NoBatch]
  /\ seen = [p \in Proc |-> NothingSeen]
  /\ view = [p \in Proc |-> EmptyTables]

(* cmd_ingest: the ELF is read and parsed before the database is opened.   *)
StartIngest(p, b, d) ==
  /\ pc[p] \in Finished
  /\ pc' = [pc EXCEPT ![p] = "begin"]
  /\ target' = [target EXCEPT ![p] = d]
  /\ \E B \in Parses(b) : batch' = [batch EXCEPT ![p] = B]
  /\ UNCHANGED <<db, locks, source, seen, view>>

(* cmd_db_merge.                                                           *)
StartMerge(p, s, d) ==
  /\ pc[p] \in Finished
  /\ pc' = [pc EXCEPT ![p] = "read_events"]
  /\ target' = [target EXCEPT ![p] = d]
  /\ source' = [source EXCEPT ![p] = s]
  /\ batch' = [batch EXCEPT ![p] = NoBatch]
  /\ UNCHANGED <<db, locks, seen, view>>

(* merge_from reads the source with two SELECTs that are not in one        *)
(* transaction: others may commit to the source in between.                *)
ReadEvents(p) ==
  /\ pc[p] = "read_events"
  /\ ~pending[source[p]]
  /\ batch' = [batch EXCEPT ![p].events = db[source[p]].events]
  /\ pc' = [pc EXCEPT ![p] = "read_strings"]
  /\ UNCHANGED <<db, locks, target, source, seen, view>>

(* Mutant: the second SELECT names the first one's table.                  *)
ReadStringsFromEvents(p) ==
  /\ pc[p] = "read_strings"
  /\ ~pending[source[p]]
  /\ batch' = [batch EXCEPT ![p].strings = db[source[p]].events]
  /\ pc' = [pc EXCEPT ![p] = "begin"]
  /\ UNCHANGED <<db, locks, target, source, seen, view>>

ReadStrings(p) ==
  /\ pc[p] = "read_strings"
  /\ ~pending[source[p]]
  /\ batch' = [batch EXCEPT ![p].strings = db[source[p]].strings]
  /\ pc' = [pc EXCEPT ![p] = "begin"]
  /\ UNCHANGED <<db, locks, target, source, seen, view>>

-----------------------------------------------------------------------------
(* The first statement of ingest's transaction takes the SHARED lock.      *)
Begin(p) ==
  LET d == target[p] IN
  /\ pc[p] = "begin"
  /\ ~pending[d]
  /\ readers' = [readers EXCEPT ![d] = @ \cup {p}]
  /\ view' = [view EXCEPT ![p] = db[d]]
  /\ pc' = [pc EXCEPT ![p] = "tx"]
  /\ UNCHANGED <<db, writer, pending, target, source, batch, seen>>

StringsLeft(p) == batch[p].strings \ seen[p].strings
EventsLeft(p) == batch[p].events \ seen[p].events

(* The two loops of ingest.  The slices are iterated in the order of the   *)
(* sections (or of ORDER BY), which here is any order; strings come first. *)
NextString(p, s) ==
  /\ pc[p] = "tx"
  /\ s \in StringsLeft(p)

NextEvent(p, e) ==
  /\ pc[p] = "tx"
  /\ StringsLeft(p) = {}
  /\ e \in EventsLeft(p)

SkipString(p, s) ==
  /\ NextString(p, s)
  /\ StringKnown(view[p], s)
  /\ seen' = [seen EXCEPT ![p].strings = @ \cup {s}]
  /\ UNCHANGED <<db, locks, pc, target, source, batch, view>>

InsertString(p, s) ==
  /\ NextString(p, s)
  /\ StringFresh(view[p], s)
  /\ Reserve(p)
  /\ view' = [view EXCEPT ![p] = WithString(@, s)]
  /\ seen' = [seen EXCEPT ![p].strings = @ \cup {s}]
  /\ UNCHANGED <<db, readers, pending, pc, target, source, batch>>

SkipEvent(p, e) ==
  /\ NextEvent(p, e)
  /\ EventKnown(view[p], e)
  /\ seen' = [seen EXCEPT ![p].events = @ \cup {e}]
  /\ UNCHANGED <<db, locks, pc, target, source, batch, view>>

(* Mutant: events are inserted outside the transaction.                    *)
InsertEventAutocommit(p, e) ==
  /\ NextEvent(p, e)
  /\ EventFresh(view[p], e)
  /\ Reserve(p)
  /\ db' = [db EXCEPT ![target[p]] = WithEvent(@, e)]
  /\ view' = [view EXCEPT ![p] = WithEvent(@, e)]
  /\ seen' = [seen EXCEPT ![p].events = @ \cup {e}]
  /\ UNCHANGED <<readers, pending, pc, target, source, batch>>

InsertEvent(p, e) ==
  /\ NextEvent(p, e)
  /\ EventFresh(view[p], e)
  /\ Reserve(p)
  /\ view' = [view EXCEPT ![p] = WithEvent(@, e)]
  /\ seen' = [seen EXCEPT ![p].events = @ \cup {e}]
  /\ UNCHANGED <<db, readers, pending, pc, target, source, batch>>

AllSeen(p) == StringsLeft(p) = {} /\ EventsLeft(p) = {}

(* Mutant: the build is recorded before the loops are done.                *)
RecordBuildEarly(p) ==
  /\ pc[p] = "tx"
  /\ Reserve(p)
  /\ view' = [view EXCEPT ![p] = WithBuild(@, batch[p].build)]
  /\ pc' = [pc EXCEPT ![p] = "commit"]
  /\ UNCHANGED <<db, readers, pending, target, source, batch, seen>>

RecordBuild(p) ==
  /\ pc[p] = "tx"
  /\ AllSeen(p)
  /\ Reserve(p)
  /\ view' = [view EXCEPT ![p] = WithBuild(@, batch[p].build)]
  /\ pc' = [pc EXCEPT ![p] = "commit"]
  /\ UNCHANGED <<db, readers, pending, target, source, batch, seen>>

(* COMMIT with other readers present: no new one may start.                *)
AwaitReaders(p) ==
  LET d == target[p] IN
  /\ pc[p] = "commit"
  /\ readers[d] # {p}
  /\ pending' = [pending EXCEPT ![d] = TRUE]
  /\ UNCHANGED <<db, readers, writer, pc, target, source, batch, seen, view>>

-----------------------------------------------------------------------------
(* Leaving the command.  Dropping the Transaction, or the process, rolls   *)
(* back whatever was not committed and releases the locks.  The batch of a *)
(* command that succeeded is kept for the properties to speak of.          *)
Exit(p, outcome) ==
  /\ pc' = [pc EXCEPT ![p] = outcome]
  /\ seen' = [seen EXCEPT ![p] = NothingSeen]
  /\ view' = [view EXCEPT ![p] = EmptyTables]
  /\ batch' = [batch EXCEPT ![p] = IF outcome = "ok" THEN @ ELSE NoBatch]
  /\ Unlocked(p)
  /\ UNCHANGED <<target, source>>

(* Mutant: COMMIT does not wait for the other readers.                     *)
CommitEagerly(p) ==
  /\ pc[p] = "commit"
  /\ db' = [db EXCEPT ![target[p]] = view[p]]
  /\ Exit(p, "ok")

Commit(p) ==
  LET d == target[p] IN
  /\ pc[p] = "commit"
  /\ readers[d] = {p}
  /\ db' = [db EXCEPT ![d] = view[p]]
  /\ Exit(p, "ok")

(* The three bail!s of ingest.                                             *)
Collide(p) ==
  /\ \/ \E s \in batch[p].strings : NextString(p, s) /\ StringClash(view[p], s)
     \/ \E e \in batch[p].events :
          NextEvent(p, e) /\ (HashClash(view[p], e) \/ TagClash(view[p], e))
  /\ Exit(p, "collision")
  /\ UNCHANGED db

(* An INSERT that needs RESERVED while another connection holds it fails   *)
(* without waiting, because this transaction already holds SHARED.         *)
(* Mutant: such an INSERT waits for the lock instead.                      *)
WriteBusyWaits(p) == p \notin Proc /\ UNCHANGED vars

WriteBusy(p) ==
  /\ ~MayWrite(p)
  /\ \/ \E s \in batch[p].strings : NextString(p, s) /\ StringFresh(view[p], s)
     \/ \E e \in batch[p].events : NextEvent(p, e) /\ EventFresh(view[p], e)
     \/ pc[p] = "tx" /\ AllSeen(p)
  /\ Exit(p, "failed")
  /\ UNCHANGED db

(* The busy timeout of a statement that waits for a lock.                  *)
Timeout(p) ==
  /\ \/ pc[p] \in MergePhase /\ pending[source[p]]
     \/ pc[p] = "begin" /\ pending[target[p]]
     \/ pc[p] = "commit" /\ readers[target[p]] # {p}
  /\ Exit(p, "failed")
  /\ UNCHANGED db

(* The process is killed, or a statement fails for a reason of its own.    *)
(* Mutant: what was written before the process died stays.                 *)
CrashKeepsWrites(p) ==
  /\ pc[p] \notin Finished
  /\ Exit(p, "failed")
  /\ db' = IF pc[p] \in TxPhase THEN [db EXCEPT ![target[p]] = view[p]] ELSE db

Crash(p) ==
  /\ pc[p] \notin Finished
  /\ Exit(p, "failed")
  /\ UNCHANGED db

-----------------------------------------------------------------------------
Start(p) ==
  \/ \E b \in Build, d \in Db : StartIngest(p, b, d)
  \/ \E s, d \in Db : StartMerge(p, s, d)

Iterate(p) ==
  \/ \E s \in batch[p].strings : SkipString(p, s) \/ InsertString(p, s)
  \/ \E e \in batch[p].events : SkipEvent(p, e) \/ InsertEvent(p, e)

Advance(p) ==
  \/ ReadEvents(p)
  \/ ReadStrings(p)
  \/ Begin(p)
  \/ Iterate(p)
  \/ RecordBuild(p)
  \/ AwaitReaders(p)
  \/ Commit(p)
  \/ Collide(p)
  \/ WriteBusy(p)

Next == \E p \in Proc : Start(p) \/ Advance(p) \/ Timeout(p) \/ Crash(p)

Spec == Init /\ [][Next]_vars

(* The operating system keeps running a process that can take a step.      *)
(* Nothing makes a process start, time out or crash.                       *)
FairSpec == Spec /\ \A p \in Proc : WF_vars(Advance(p))

-----------------------------------------------------------------------------
(* Properties.                                                             *)

(* Every variable stays in its range: what an ingest is given and what its *)
(* transaction sees are rows of the right tables.                          *)
TypeOK ==
  /\ db \in [Db -> Tables]
  /\ readers \in [Db -> SUBSET Proc]
  /\ writer \in [Db -> SUBSET Proc]
  /\ pending \in [Db -> BOOLEAN]
  /\ pc \in [Proc -> Phase]
  /\ target \in [Proc -> Db]
  /\ source \in [Proc -> Db]
  /\ batch \in [Proc -> Batch]
  /\ seen \in [Proc -> [events : SUBSET EventEntry,
                        strings : SUBSET StringEntry]]
  /\ view \in [Proc -> Tables]

(* No interleaving of ingests and merges, with crashes, ever commits two   *)
(* rows for one tag, one full_hash or one string hash.  The SELECTs alone  *)
(* ensure it: the PRIMARY KEY and UNIQUE constraints of SCHEMA never fire. *)
KeysStayUnique == \A d \in Db : KeysUnique(db[d])

(* A committed event never lacks its format string or the target of one of *)
(* its CALLs: strings and events are written in one transaction, and a     *)
(* merge reads the source's events before its strings.                     *)
NothingDangles == \A d \in Db : Closed(db[d].events, db[d].strings)

(* After an ingest or a merge has returned success, every entry it was     *)
(* given is, and remains, in the database whatever the others do.          *)
Durable(p) ==
  /\ \A e \in batch[p].events : EventKnown(db[target[p]], e)
  /\ batch[p].strings \subseteq db[target[p]].strings
  /\ batch[p].build \in db[target[p]].ingested_builds

SuccessIsDurable == \A p \in Proc : pc[p] = "ok" => Durable(p)

(* The store is append-only (SPEC.md:648): no commit loses or changes a    *)
(* row that another process committed.                                     *)
NothingLost(d) ==
  /\ db[d].events \subseteq db'[d].events
  /\ db[d].strings \subseteq db'[d].strings
  /\ db[d].ingested_builds \subseteq db'[d].ingested_builds

AppendOnly == [][\A d \in Db : NothingLost(d)]_vars

(* Every ingest and merge is one atomic step of the serial database, or no *)
(* step of it; a collision is reported only for a batch that conflicts.    *)
Status(p) ==
  CASE pc[p] \in MergePhase -> "idle"
    [] pc[p] \in {"begin"} \cup TxPhase -> "running"
    [] OTHER -> pc[p]

RequestOf(p) ==
  IF Status(p) = "running" THEN batch[p] ELSE NothingSeen

SerialStatus == [p \in Proc |-> Status(p)]
SerialRequest == [p \in Proc |-> RequestOf(p)]

Serial == INSTANCE SerialDb WITH status <- SerialStatus, request <- SerialRequest

SerialSpec == Serial!Spec

(* No two processes wait for each other's locks for ever, even when no     *)
(* busy timeout expires: whoever holds a lock on a file lets go of it.     *)
LocksAreReleased ==
  \A p \in Proc, d \in Db : p \in readers[d] ~> p \notin readers[d]

(* SPEC.md:685-688: an entry whose full hash is in the database with       *)
(* different content must make the ingestion fail.                         *)
DifferentContentFails ==
  \A p \in Proc :
    pc[p] = "ok" => batch[p].events \subseteq db[target[p]].events

-----------------------------------------------------------------------------
(* The inductive invariant behind the safety properties.                   *)

InTx(p) == pc[p] \in TxPhase

(* The SHARED lock is held exactly while a transaction is open.            *)
LockInv ==
  \A p \in Proc, d \in Db :
    p \in readers[d] <=> InTx(p) /\ target[p] = d

(* A transaction sees the committed tables plus what it has iterated over. *)
ViewOf(p) ==
  LET T == db[target[p]]
      V == view[p] IN
  /\ T.events \subseteq V.events
  /\ V.events \subseteq T.events \cup seen[p].events
  /\ \A e \in seen[p].events : EventKnown(V, e)
  /\ V.strings = T.strings \cup seen[p].strings
  /\ V.ingested_builds = T.ingested_builds \cup
       (IF pc[p] = "commit" THEN {batch[p].build} ELSE {})
  /\ KeysUnique(V)
  /\ seen[p].events \subseteq batch[p].events
  /\ seen[p].strings \subseteq batch[p].strings
  /\ pc[p] = "commit" => AllSeen(p)

ViewInv == \A p \in Proc : InTx(p) => ViewOf(p)

(* What ingest is given is closed; a merge that has read the events relies *)
(* on the source, which only grows, to still have their strings.           *)
BatchOf(p) ==
  /\ pc[p] \in {"begin"} \cup TxPhase =>
       Closed(batch[p].events, batch[p].strings)
  /\ pc[p] = "read_strings" =>
       Closed(batch[p].events, db[source[p]].strings)

BatchInv == \A p \in Proc : BatchOf(p)

(* A process that is not in a transaction has nothing in hand.             *)
IdleInv == \A p \in Proc : ~InTx(p) => seen[p] = NothingSeen

(* What holds in every reachable state and is preserved by every step: the *)
(* invariants above and what ties a transaction to the committed tables.   *)
IInv ==
  /\ TypeOK
  /\ LockInv
  /\ ViewInv
  /\ BatchInv
  /\ IdleInv
  /\ KeysStayUnique
  /\ NothingDangles
  /\ SuccessIsDurable
=============================================================================
