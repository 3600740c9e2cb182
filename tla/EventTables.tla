----------------------------- MODULE EventTables -----------------------------
(***************************************************************************)
(* The rows of the host database, the entries an ELF file carries, and the *)
(* collision policy that decides what becomes of an entry                  *)
(* (zfmt-host/src/db.rs and elf.rs).                                       *)
(*                                                                         *)
(* Hashes, tags, contents and bytecode are opaque: ingest and check only   *)
(* ever compare them for equality.  The one fact about bytecode that the   *)
(* database's integrity depends on is which other events it CALLs.         *)
(***************************************************************************)
CONSTANTS
  Tag,        \* 32-bit wire tags
  FullHash,   \* 64-bit type hashes
  FmtHash,    \* 32-bit format string hashes
  NoFormat,   \* the format_hash of an event with no string section
  Content,    \* format strings
  Bytecode,   \* serialised bytecode blobs
  Callee,     \* the tags a bytecode CALLs
  BuildId     \* firmware build identifiers

ASSUME CalleeAssumption == Callee \in [Bytecode -> SUBSET Tag]

EventEntry ==
  [tag : Tag, full_hash : FullHash,
   format_hash : FmtHash \cup {NoFormat}, bytecode : Bytecode]

StringEntry == [hash : FmtHash, content : Content]

(* What one call of Db::ingest is given: two slices and a build id.        *)
Batch ==
  [events : SUBSET EventEntry, strings : SUBSET StringEntry, build : BuildId]

(* The three tables of SCHEMA.                                             *)
Tables ==
  [events : SUBSET EventEntry, strings : SUBSET StringEntry,
   ingested_builds : SUBSET BuildId]

EmptyTables == [events |-> {}, strings |-> {}, ingested_builds |-> {}]

-----------------------------------------------------------------------------
(* The outcome of the SELECTs made for one string.                         *)

StringKnown(T, s) == s \in T.strings

(* Mutant: a row with the hash clashes whatever its content.               *)
StringClashOnHash(T, s) == \E r \in T.strings : r.hash = s.hash

StringClash(T, s) ==
  \E r \in T.strings : r.hash = s.hash /\ r.content # s.content

StringFresh(T, s) == \A r \in T.strings : r.hash # s.hash

(* The outcome of the SELECTs made for one event: by full_hash, then by    *)
(* tag.  A row with the entry's full_hash and tag makes the entry known,   *)
(* whatever its format_hash and bytecode say.                              *)

SameIdentity(r, e) == r.full_hash = e.full_hash /\ r.tag = e.tag

EventKnown(T, e) == \E r \in T.events : SameIdentity(r, e)

HashClash(T, e) ==
  \E r \in T.events : r.full_hash = e.full_hash /\ r.tag # e.tag

TagClash(T, e) ==
  \E r \in T.events : r.tag = e.tag /\ r.full_hash # e.full_hash

(* Mutant: the tag is not looked up.                                       *)
EventFreshByHash(T, e) == \A r \in T.events : r.full_hash # e.full_hash

EventFresh(T, e) ==
  \A r \in T.events : r.full_hash # e.full_hash /\ r.tag # e.tag

-----------------------------------------------------------------------------
(* The rows an INSERT adds.                                                *)

WithString(T, s) == [T EXCEPT !.strings = @ \cup {s}]

WithEvent(T, e) == [T EXCEPT !.events = @ \cup {e}]

WithBuild(T, b) == [T EXCEPT !.ingested_builds = @ \cup {b}]

(* The tables after every entry of B was inserted or skipped.              *)
Updated(T, B) ==
  [events |-> T.events \cup {e \in B.events : ~EventKnown(T, e)},
   strings |-> T.strings \cup B.strings,
   ingested_builds |-> T.ingested_builds \cup {B.build}]

-----------------------------------------------------------------------------
(* Integrity of a database.                                                *)

(* A tag decodes to one event and a hash names one event and one string.   *)
KeysUnique(T) ==
  /\ \A r, q \in T.events :
       (r.tag = q.tag \/ r.full_hash = q.full_hash) => r = q
  /\ \A r, q \in T.strings : r.hash = q.hash => r = q

(* Every format_hash has its string and every CALL its target among the    *)
(* given entries.                                                          *)
Closed(events, strings) ==
  \A e \in events :
    /\ e.format_hash = NoFormat \/ \E s \in strings : s.hash = e.format_hash
    /\ \A t \in Callee[e.bytecode] : \E f \in events : f.tag = t

(* T and B together hold two entries that cannot both be stored.           *)
Conflict(T, B) ==
  \/ \E r, s \in T.strings \cup B.strings :
       r.hash = s.hash /\ r.content # s.content
  \/ \E r, e \in T.events \cup B.events :
       (r.tag = e.tag) # (r.full_hash = e.full_hash)

(* U is T after all of B was ingested: nothing of T is lost, every entry   *)
(* of B is represented, and nothing else appeared.                         *)
Ingested(T, B, U) ==
  /\ T.events \subseteq U.events
  /\ U.events \subseteq T.events \cup B.events
  /\ \A e \in B.events : EventKnown(U, e)
  /\ U.strings = T.strings \cup B.strings
  /\ U.ingested_builds = T.ingested_builds \cup {B.build}
  /\ KeysUnique(U)
=============================================================================
