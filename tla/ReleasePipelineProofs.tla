------------------------ MODULE ReleasePipelineProofs ------------------------
(***************************************************************************)
(* Proofs about ReleasePipeline, for any number of processes, databases    *)
(* and ELF files of any size: what check and verify say stands up to       *)
(* everything that other processes ingest meanwhile.                       *)
(***************************************************************************)
EXTENDS ReleasePipeline, FiniteSetTheorems, TLAPS

(* A running request is a batch, and every key of a database is unique.    *)
RequestInv == \A p \in Proc : status[p] = "running" => request[p] \in Batch
KeysInv == \A d \in Db : KeysUnique(db[d])

StepOf(p) ==
  \/ \E B \in Image : StartCheck(p, B) \/ StartIngest(p, B) \/ StartVerify(p, B)
  \/ Check(p)
  \/ Ingest(p)
  \/ Verify(p)
  \/ Abort(p)

IncludedIn(T, U) == T.events \subseteq U.events /\ T.strings \subseteq U.strings

Grows == \A d \in Db : IncludedIn(db[d], db'[d])

-----------------------------------------------------------------------------
(* The abstract database.                                                  *)

(* check and verify, and their beginning, leave the database alone.        *)
LEMMA OnlyIngestWrites ==
  ASSUME NEW p \in Proc,
         \/ \E B \in Image : StartCheck(p, B) \/ StartVerify(p, B)
         \/ Check(p)
         \/ Verify(p)
  PROVE  UNCHANGED vars
<1>1. ASSUME NEW B \in Image, StartCheck(p, B) \/ StartVerify(p, B)
      PROVE  UNCHANGED vars
  BY <1>1 DEF StartCheck, StartVerify, Begin
<1>2. CASE Check(p)
  BY <1>2 DEF Check, OldString, NewString, ClashingString, OldEvent, HashNotFound,
              NewEvent, ClashingEvent, PassCheck, End
<1>3. CASE Verify(p)
  BY <1>3 DEF Verify, FindEvent, MissEvent, MismatchEvent, FinishVerify, End
<1> QED
  BY <1>1, <1>2, <1>3

(* A step keeps the database typed and its keys unique, and nothing leaves *)
(* it.                                                                     *)
LEMMA DbStep ==
  ASSUME TypeOK, RequestInv, KeysInv, NEW p \in Proc, StepOf(p)
  PROVE  TypeOK' /\ RequestInv' /\ KeysInv' /\ Grows /\ target' = target
<1> USE DEF TypeOK, RequestInv
<1>1. CASE UNCHANGED vars
  BY <1>1 DEF vars, KeysInv, Grows, IncludedIn
<1>2. ASSUME NEW B \in Image, StartIngest(p, B)
      PROVE  TypeOK' /\ RequestInv' /\ KeysInv' /\ Grows /\ target' = target
  <2>1. B \in Batch /\ UNCHANGED <<db, target>>
    BY <1>2, ImageAssumption DEF StartIngest, Submit
  <2>2. /\ request' = [request EXCEPT ![p] = B]
        /\ status' = [status EXCEPT ![p] = "running"]
    BY <1>2 DEF StartIngest, Submit
  <2> QED
    BY <2>1, <2>2 DEF KeysInv, Grows, IncludedIn
<1>3. ASSUME Accept(p), db' = [db EXCEPT ![target[p]] = Updated(@, request[p])]
      PROVE  TypeOK' /\ RequestInv' /\ KeysInv' /\ Grows /\ target' = target
  <2> DEFINE d == target[p]
  <2>1. /\ d \in Db
        /\ request[p] \in Batch
        /\ Ingested(db[d], request[p], db'[d])
    BY <1>3 DEF Accept
  <2>2. Updated(db[d], request[p]) \in Tables
    BY <2>1 DEF Updated, Tables, Batch
  <2>3. /\ status' = [status EXCEPT ![p] = "ok"]
        /\ request' = [request EXCEPT ![p] = NoRequest]
        /\ target' = target
    BY <1>3 DEF Accept, Finish
  <2>4. TypeOK' /\ RequestInv'
    BY <1>3, <2>2, <2>3
  <2>5. \A c \in Db \ {d} : db'[c] = db[c]
    BY <1>3
  <2>6. KeysInv'
    BY <2>1, <2>5 DEF KeysInv, Ingested
  <2>7. IncludedIn(db[d], db'[d])
    BY <2>1 DEF Ingested, IncludedIn
  <2>8. Grows
    BY <2>5, <2>7 DEF Grows, IncludedIn
  <2> QED
    BY <2>3, <2>4, <2>6, <2>8
<1>4. CASE Reject(p)
  BY <1>4 DEF Reject, Finish, KeysInv, Grows, IncludedIn
<1>5. CASE Fail(p)
  BY <1>5 DEF Fail, KeysInv, Grows, IncludedIn
<1>6. CASE Ingest(p)
  BY <1>3, <1>4, <1>6 DEF Ingest
<1>7. CASE Abort(p)
  BY <1>1, <1>5, <1>7 DEF Abort
<1> QED
  BY <1>1, <1>2, <1>6, <1>7, OnlyIngestWrites DEF StepOf

-----------------------------------------------------------------------------
(* Types.                                                                  *)

(* A process that neither checks nor verifies has nothing in hand.         *)
IdleInv ==
  \A p \in Proc : stage[p] \notin {"check", "verify"} =>
    left[p] = Nothing /\ asked[p] = NoEvent /\ missing[p] = {}

TypeInv == PipelineTypeOK /\ RequestInv /\ KeysInv /\ IdleInv

LEMMA PipelineTypeInit == PipelineInit => TypeInv
<1> SUFFICES ASSUME PipelineInit
             PROVE  TypeInv
  OBVIOUS
<1>1. TypeOK
  BY DEF PipelineInit, Init, TypeOK, Tables, EmptyTables
<1>2. KeysInv /\ RequestInv
  BY DEF PipelineInit, Init, KeysInv, RequestInv, KeysUnique, EmptyTables
<1> QED
  BY <1>1, <1>2
     DEF PipelineInit, PipelineTypeOK, Ended, Running, Nothing, Tables, EmptyTables,
         TypeInv, IdleInv

Entries == [events : SUBSET EventEntry, strings : SUBSET StringEntry]

(* An entry that was looked at is dropped, and nothing else changes.       *)
LEMMA Dropping ==
  ASSUME left \in [Proc -> Entries], NEW p \in Proc, NEW x,
         DropString(p, x) \/ DropEvent(p, x)
  PROVE  /\ left' \in [Proc -> Entries]
         /\ \A q \in Proc : /\ left'[q].events \subseteq left[q].events
                            /\ left'[q].strings \subseteq left[q].strings
<1>1. /\ [left[p] EXCEPT !.strings = @ \ {x}] \in Entries
      /\ [left[p] EXCEPT !.events = @ \ {x}] \in Entries
  BY DEF Entries
<1> QED
  BY <1>1 DEF DropString, DropEvent, Entries

(* One step of the pipeline keeps every variable in its type.              *)
LEMMA PipelineTypeStep ==
  ASSUME PipelineTypeOK, IdleInv, TypeOK', NEW p \in Proc, StepOf(p)
  PROVE  PipelineTypeOK'
<1> USE DEF PipelineTypeOK, Ended, Running
<1>1. ASSUME NEW B \in Image, StartCheck(p, B) \/ StartVerify(p, B)
      PROVE  PipelineTypeOK'
  <2>1. B.events \subseteq EventEntry /\ B.strings \subseteq StringEntry
    BY ImageAssumption DEF Batch
  <2>2. PICK name \in {"rejected", "check", "verify"},
             entries \in {EntriesOf(B), [EntriesOf(B) EXCEPT !.strings = {}]} :
               Begin(p, name, B, entries)
    BY <1>1 DEF StartCheck, StartVerify
  <2>3. /\ entries \in [events : SUBSET EventEntry, strings : SUBSET StringEntry]
        /\ entries.events \subseteq B.events
        /\ entries.strings \subseteq B.strings
    BY <2>1 DEF EntriesOf
  <2>4. Here(p) \in Tables
    BY DEF Here, TypeOK
  <2> QED
    BY <2>2, <2>3, <2>4 DEF Begin
<1>2. ASSUME NEW outcome \in Ended, Leave(p, outcome)
      PROVE  PipelineTypeOK'
  BY <1>2 DEF Leave, Nothing
<1>3. ASSUME NEW B \in Image, StartIngest(p, B)
      PROVE  PipelineTypeOK'
  <2>1. left[p] = Nothing /\ asked[p] = NoEvent /\ missing[p] = {}
    BY <1>3 DEF StartIngest, IdleInv
  <2>2. /\ stage' = [stage EXCEPT ![p] = "ingest"]
        /\ image' = [image EXCEPT ![p] = B]
        /\ present' = [present EXCEPT ![p] = 0]
        /\ began' = [began EXCEPT ![p] = EmptyTables]
        /\ UNCHANGED <<left, asked, missing>>
    BY <1>3 DEF StartIngest
  <2>3. EmptyTables \in Tables
    BY DEF EmptyTables, Tables
  <2> QED
    BY <2>1, <2>2, <2>3 DEF Nothing
<1>4. ASSUME NEW s \in Strings(p),
             OldString(p, s) \/ NewString(p, s) \/ ClashingString(p, s)
      PROVE  PipelineTypeOK'
  <2>1. CASE ClashingString(p, s)
    BY <1>2, <2>1 DEF ClashingString, End
  <2>2. CASE DropString(p, s) /\ (OldString(p, s) \/ NewString(p, s))
    BY <2>2, Dropping DEF OldString, NewString, Count, Entries
  <2> QED
    BY <1>4, <2>1, <2>2 DEF OldString, NewString
<1>5. ASSUME NEW e \in Events(p),
             \/ OldEvent(p, e) \/ HashNotFound(p, e)
             \/ NewEvent(p, e) \/ ClashingEvent(p, e)
      PROVE  PipelineTypeOK'
  <2>1. e \in EventEntry /\ e \in image[p].events
    BY DEF Events
  <2>2. CASE ClashingEvent(p, e)
    BY <1>2, <2>2 DEF ClashingEvent, End
  <2>3. CASE HashNotFound(p, e)
    <3>1. asked' = [asked EXCEPT ![p] = e]
      BY <2>3 DEF HashNotFound
    <3>2. UNCHANGED <<stage, image, left, present, missing, began>>
      BY <2>3 DEF HashNotFound
    <3> QED
      BY <2>1, <3>1, <3>2
  <2>4. CASE DropEvent(p, e) /\ (OldEvent(p, e) \/ NewEvent(p, e))
    <3>1. \/ asked' = [asked EXCEPT ![p] = NoEvent] /\ UNCHANGED present
          \/ present' = [present EXCEPT ![p] = @ + 1] /\ UNCHANGED asked
      BY <2>4 DEF OldEvent, NewEvent, Count
    <3>2. UNCHANGED <<stage, image, missing, began>>
      BY <2>4 DEF OldEvent, NewEvent
    <3>3. /\ asked' \in [Proc -> EventEntry \cup {NoEvent}]
          /\ \A q \in Proc : asked'[q] \in image[q].events \cup {NoEvent}
          /\ present' \in [Proc -> Nat]
      BY <3>1
    <3> QED
      BY <2>4, <3>2, <3>3, Dropping DEF Entries
  <2> QED
    BY <1>5, <2>2, <2>3, <2>4 DEF OldEvent, NewEvent
<1>6. CASE PassCheck(p)
  BY <1>2, <1>6 DEF PassCheck, End
<1>7. CASE Ingest(p)
  BY <1>2, <1>7 DEF Ingest
<1>8. ASSUME NEW e \in Unverified(p),
             FindEvent(p, e) \/ MissEvent(p, e) \/ MismatchEvent(p, e)
      PROVE  PipelineTypeOK'
  <2>1. e \in EventEntry /\ e \in image[p].events
    BY DEF Unverified
  <2>2. CASE MismatchEvent(p, e)
    BY <1>2, <2>2 DEF MismatchEvent, End
  <2>3. CASE FindEvent(p, e)
    BY <2>3, Dropping DEF FindEvent, Entries
  <2>4. CASE MissEvent(p, e)
    <3>1. missing' = [missing EXCEPT ![p] = @ \cup {e}]
      BY <2>4 DEF MissEvent
    <3>2. /\ missing' \in [Proc -> SUBSET EventEntry]
          /\ \A q \in Proc : missing'[q] \subseteq image[q].events
      BY <2>1, <3>1
    <3>3. DropEvent(p, e) /\ UNCHANGED <<stage, image, asked, present, began>>
      BY <2>4 DEF MissEvent
    <3> QED
      BY <3>2, <3>3, Dropping DEF Entries
  <2> QED
    BY <1>8, <2>2, <2>3, <2>4
<1>9. CASE FinishVerify(p)
  BY <1>2, <1>9 DEF FinishVerify, End
<1>10. CASE Abort(p)
  BY <1>2, <1>10 DEF Abort
<1> QED
  BY <1>1, <1>3, <1>4, <1>5, <1>6, <1>7, <1>8, <1>9, <1>10 DEF StepOf, Check, Verify

LEMMA IdleStep ==
  ASSUME PipelineTypeOK, IdleInv, NEW p \in Proc, StepOf(p)
  PROVE  IdleInv'
<1> USE DEF PipelineTypeOK, IdleInv
<1>1. ASSUME NEW B \in Image, StartCheck(p, B) \/ StartVerify(p, B)
      PROVE  IdleInv'
  <2>1. ~SameElfCollision(B)
    BY ImageAssumption DEF SameElfCollision
  <2>2. PICK name \in {"check", "verify"} :
          Begin(p, name, B, left'[p])
    BY <1>1, <2>1 DEF StartCheck, StartVerify, Begin
  <2> QED
    BY <2>2 DEF Begin
<1>2. ASSUME NEW outcome \in Ended, Leave(p, outcome)
      PROVE  IdleInv'
  BY <1>2 DEF Leave
<1>3. ASSUME NEW B \in Image, StartIngest(p, B)
      PROVE  IdleInv'
  BY <1>3 DEF StartIngest, Ended
<1>4. ASSUME NEW s \in Strings(p),
             OldString(p, s) \/ NewString(p, s) \/ ClashingString(p, s)
      PROVE  IdleInv'
  BY <1>2, <1>4
     DEF OldString, NewString, ClashingString, End, DropString, Count, Strings, Ended
<1>5. ASSUME NEW e \in Events(p),
             \/ OldEvent(p, e) \/ HashNotFound(p, e)
             \/ NewEvent(p, e) \/ ClashingEvent(p, e)
      PROVE  IdleInv'
  BY <1>2, <1>5
     DEF OldEvent, HashNotFound, NewEvent, ClashingEvent, End, DropEvent, Count, Events,
         Ended
<1>6. CASE PassCheck(p)
  BY <1>2, <1>6 DEF PassCheck, End, Ended
<1>7. CASE Ingest(p)
  BY <1>2, <1>7 DEF Ingest, Ended
<1>8. ASSUME NEW e \in Unverified(p),
             FindEvent(p, e) \/ MissEvent(p, e) \/ MismatchEvent(p, e)
      PROVE  IdleInv'
  BY <1>2, <1>8 DEF FindEvent, MissEvent, MismatchEvent, End, DropEvent, Unverified, Ended
<1>9. CASE FinishVerify(p)
  BY <1>2, <1>9 DEF FinishVerify, End, Ended
<1>10. CASE Abort(p)
  BY <1>2, <1>10 DEF Abort, Ended
<1> QED
  BY <1>1, <1>3, <1>4, <1>5, <1>6, <1>7, <1>8, <1>9, <1>10 DEF StepOf, Check, Verify

-----------------------------------------------------------------------------
(* The verdicts.  None of them is inductive: check and verify each draw    *)
(* one conclusion from SELECTs made at different moments.  What they have  *)
(* concluded of the entries they are done with is about the database as it *)
(* was when they began, or about one that has only grown since.            *)

CheckedSoFar(p) ==
  stage[p] = "check" =>
    /\ IncludedIn(began[p], Here(p))
    /\ \A s \in image[p].strings \ left[p].strings : ~StringClash(began[p], s)
    /\ \A e \in image[p].events \ left[p].events :
         ~HashClash(began[p], e) /\ ~TagClash(began[p], e)
    /\ asked[p] # NoEvent =>
         \A r \in began[p].events : r.full_hash # asked[p].full_hash

VerifiedSoFar(p) ==
  stage[p] = "verify" =>
    /\ IncludedIn(began[p], Here(p))
    /\ \A e \in image[p].events \ left[p].events :
         e \in missing[p] \/ EventKnown(Here(p), e)
    /\ \A e \in missing[p] : ~EventKnown(began[p], e)

\* What a rejection comes from, of which nothing ever goes away.
Cause(p) ==
  \/ Conflict(Here(p), image[p])
  \/ \E e \in image[p].events : EventKnown(Here(p), e) /\ ~EventKnown(began[p], e)

Verdict(p) ==
  /\ stage[p] = "checked" => ~Conflict(began[p], image[p])
  /\ stage[p] = "verified" => \A e \in image[p].events : EventKnown(Here(p), e)
  /\ stage[p] = "unverified" => \E e \in image[p].events : ~EventKnown(began[p], e)
  /\ stage[p] = "rejected" => Cause(p)

ProcInv(p) == CheckedSoFar(p) /\ VerifiedSoFar(p) /\ Verdict(p)

IInv == TypeInv /\ \A p \in Proc : ProcInv(p)

(* A step of one process leaves the command of another alone.              *)
LEMMA OthersRest ==
  ASSUME PipelineTypeOK, NEW p \in Proc, NEW q \in Proc \ {p}, StepOf(p)
  PROVE  /\ stage'[q] = stage[q] /\ image'[q] = image[q] /\ left'[q] = left[q]
         /\ asked'[q] = asked[q] /\ missing'[q] = missing[q] /\ began'[q] = began[q]
         /\ present'[q] = present[q]
<1> USE DEF PipelineTypeOK
<1>1. ASSUME NEW B \in Image, StartCheck(p, B) \/ StartIngest(p, B) \/ StartVerify(p, B)
      PROVE  /\ stage'[q] = stage[q] /\ image'[q] = image[q] /\ left'[q] = left[q]
             /\ asked'[q] = asked[q] /\ missing'[q] = missing[q] /\ began'[q] = began[q]
             /\ present'[q] = present[q]
  BY <1>1 DEF StartCheck, StartIngest, StartVerify, Begin
<1>2. CASE Check(p)
  BY <1>2 DEF Check, OldString, NewString, ClashingString, OldEvent, HashNotFound,
              NewEvent, ClashingEvent, PassCheck, End, Leave, DropString, DropEvent, Count
<1>3. CASE Ingest(p) \/ Abort(p)
  BY <1>3 DEF Ingest, Abort, Leave
<1>4. CASE Verify(p)
  BY <1>4 DEF Verify, FindEvent, MissEvent, MismatchEvent, FinishVerify, End, Leave,
              DropEvent
<1> QED
  BY <1>1, <1>2, <1>3, <1>4 DEF StepOf

LEMMA ConflictStays ==
  ASSUME NEW T, NEW U, NEW B, IncludedIn(T, U), Conflict(T, B)
  PROVE  Conflict(U, B)
BY DEF IncludedIn, Conflict

(* A process at rest keeps its invariant while its database grows.         *)
LEMMA RestStep ==
  ASSUME PipelineTypeOK, Grows, target' = target, NEW q \in Proc, ProcInv(q),
         /\ stage'[q] = stage[q] /\ image'[q] = image[q] /\ left'[q] = left[q]
         /\ asked'[q] = asked[q] /\ missing'[q] = missing[q] /\ began'[q] = began[q]
  PROVE  ProcInv(q)'
<1>1. target[q] \in Db
  BY DEF PipelineTypeOK, TypeOK
<1>2. IncludedIn(Here(q), Here(q)')
  BY <1>1 DEF Grows, Here
<1>3. \A e : EventKnown(Here(q), e) => EventKnown(Here(q)', e)
  BY <1>2 DEF EventKnown, IncludedIn
<1>4. IncludedIn(began[q], Here(q)) => IncludedIn(began[q], Here(q)')
  BY <1>2 DEF IncludedIn
<1>5. CheckedSoFar(q)'
  BY <1>4 DEF ProcInv, CheckedSoFar
<1>6. VerifiedSoFar(q)'
  BY <1>3, <1>4 DEF ProcInv, VerifiedSoFar
<1>7. Cause(q) => Cause(q)'
  BY <1>2, <1>3, ConflictStays DEF Cause
<1>8. Verdict(q)'
  BY <1>3, <1>7 DEF ProcInv, Verdict
<1> QED
  BY <1>5, <1>6, <1>8 DEF ProcInv

(* A row of a database with unique keys that is the entry clashes with no  *)
(* part of it.                                                             *)
LEMMA KnownNeverClashes ==
  ASSUME NEW T, NEW U, NEW e, IncludedIn(T, U), KeysUnique(U), EventKnown(U, e)
  PROVE  ~HashClash(T, e) /\ ~TagClash(T, e)
BY DEF IncludedIn, KeysUnique, EventKnown, SameIdentity, HashClash, TagClash

(* An image that clashes with a database in no entry does not conflict.    *)
LEMMA NoClashNoConflict ==
  ASSUME NEW T, NEW U, NEW B \in Image, IncludedIn(T, U), KeysUnique(U),
         \A s \in B.strings : ~StringClash(T, s),
         \A e \in B.events : ~HashClash(T, e) /\ ~TagClash(T, e)
  PROVE  ~Conflict(T, B)
<1>1. \A r, s \in T.strings \cup B.strings : r.hash = s.hash => r.content = s.content
  BY ImageAssumption DEF StringClash, IncludedIn, KeysUnique
<1>2. \A r, e \in T.events \cup B.events : (r.tag = e.tag) <=> (r.full_hash = e.full_hash)
  <2>1. ASSUME NEW r \in T.events, NEW e \in B.events
        PROVE  (r.tag = e.tag) <=> (r.full_hash = e.full_hash)
    BY <2>1 DEF HashClash, TagClash
  <2>2. ASSUME NEW r \in T.events, NEW e \in T.events
        PROVE  (r.tag = e.tag) <=> (r.full_hash = e.full_hash)
    BY <2>2 DEF IncludedIn, KeysUnique
  <2>3. ASSUME NEW r \in B.events, NEW e \in B.events
        PROVE  (r.tag = e.tag) <=> (r.full_hash = e.full_hash)
    BY <2>3, ImageAssumption
  <2> QED
    BY <2>1, <2>2, <2>3
<1> QED
  BY <1>1, <1>2 DEF Conflict

(* check's own steps.                                                      *)
LEMMA CheckStep ==
  ASSUME TypeInv, NEW p \in Proc, ProcInv(p), Check(p)
  PROVE  ProcInv(p)'
<1> USE DEF TypeInv, PipelineTypeOK
<1>1. stage[p] = "check"
  BY DEF Check, Strings, Events, PassCheck
<1>2. target[p] \in Db /\ KeysUnique(Here(p)) /\ image[p] \in Image
  BY DEF TypeOK, KeysInv, Here
<1>3. UNCHANGED vars /\ Here(p)' = Here(p)
  BY OnlyIngestWrites DEF vars, Here
<1>4. /\ IncludedIn(began[p], Here(p))
      /\ \A s \in image[p].strings \ left[p].strings : ~StringClash(began[p], s)
      /\ \A e \in image[p].events \ left[p].events :
           ~HashClash(began[p], e) /\ ~TagClash(began[p], e)
      /\ asked[p] # NoEvent =>
           \A r \in began[p].events : r.full_hash # asked[p].full_hash
  BY <1>1 DEF ProcInv, CheckedSoFar
<1>5. ASSUME stage'[p] = "check", image'[p] = image[p], began'[p] = began[p],
             CheckedSoFar(p)'
      PROVE  ProcInv(p)'
  BY <1>5 DEF ProcInv, VerifiedSoFar, Verdict
<1>6. ASSUME NEW outcome \in {"rejected", "checked"}, End(p, outcome),
             outcome = "checked" => ~Conflict(began[p], image[p]),
             outcome = "rejected" => Cause(p)
      PROVE  ProcInv(p)'
  <2>1. stage'[p] = outcome /\ image'[p] = image[p] /\ began'[p] = began[p]
    BY <1>6 DEF End, Leave
  <2>2. Cause(p)' <=> Cause(p)
    BY <1>3, <2>1 DEF Cause
  <2> QED
    BY <1>6, <2>1, <2>2 DEF ProcInv, CheckedSoFar, VerifiedSoFar, Verdict
<1>7. ASSUME NEW s \in Strings(p), OldString(p, s) \/ NewString(p, s)
      PROVE  ProcInv(p)'
  <2>1. /\ stage'[p] = "check" /\ image'[p] = image[p] /\ began'[p] = began[p]
        /\ asked'[p] = asked[p]
    BY <1>1, <1>7 DEF OldString, NewString
  <2>2. left'[p].strings = left[p].strings \ {s} /\ left'[p].events = left[p].events
    BY <1>7 DEF OldString, NewString, DropString
  <2>3. ~StringClash(began[p], s)
    BY <1>2, <1>4, <1>7
       DEF OldString, NewString, StringKnown, StringFresh, StringClash, IncludedIn, KeysUnique
  <2> QED
    BY <1>3, <1>4, <1>5, <2>1, <2>2, <2>3 DEF CheckedSoFar
<1>8. ASSUME NEW e \in Events(p), OldEvent(p, e) \/ NewEvent(p, e)
      PROVE  ProcInv(p)'
  <2>1. /\ stage'[p] = "check" /\ image'[p] = image[p] /\ began'[p] = began[p]
        /\ asked'[p] = NoEvent
    BY <1>1, <1>8 DEF OldEvent, NewEvent
  <2>2. left'[p].events = left[p].events \ {e} /\ left'[p].strings = left[p].strings
    BY <1>8 DEF OldEvent, NewEvent, DropEvent
  <2>3. ~HashClash(began[p], e) /\ ~TagClash(began[p], e)
    <3>1. CASE OldEvent(p, e)
      BY <1>2, <1>4, <3>1, KnownNeverClashes DEF OldEvent
    <3>2. CASE NewEvent(p, e)
      <4>1. e # NoEvent
        BY ImageAssumption DEF Events
      <4> QED
        BY <1>4, <3>2, <4>1 DEF NewEvent, IncludedIn, HashClash, TagClash
    <3> QED
      BY <1>8, <3>1, <3>2
  <2> QED
    BY <1>3, <1>4, <1>5, <2>1, <2>2, <2>3 DEF CheckedSoFar
<1>9. ASSUME NEW e \in Events(p), HashNotFound(p, e)
      PROVE  ProcInv(p)'
  <2>1. /\ stage'[p] = "check" /\ image'[p] = image[p] /\ began'[p] = began[p]
        /\ left'[p] = left[p] /\ asked'[p] = e
    BY <1>1, <1>9 DEF HashNotFound
  <2>2. \A r \in began[p].events : r.full_hash # e.full_hash
    BY <1>4, <1>9 DEF HashNotFound, IncludedIn
  <2> QED
    BY <1>3, <1>4, <1>5, <2>1, <2>2 DEF CheckedSoFar
<1>10. CASE PassCheck(p)
  <2>1. left[p].strings = {} /\ left[p].events = {}
    BY <1>10 DEF PassCheck, Nothing
  <2>2. ~Conflict(began[p], image[p])
    BY <1>2, <1>4, <2>1, NoClashNoConflict
  <2> QED
    BY <1>6, <1>10, <2>2 DEF PassCheck
<1>11. ASSUME NEW s \in Strings(p), ClashingString(p, s)
       PROVE  ProcInv(p)'
  <2>1. Conflict(Here(p), image[p])
    BY <1>11 DEF ClashingString, StringClash, Strings, Conflict
  <2> QED
    BY <1>6, <1>11, <2>1 DEF ClashingString, Cause
<1>12. ASSUME NEW e \in Events(p), ClashingEvent(p, e)
       PROVE  ProcInv(p)'
  <2>1. e \in image[p].events /\ e # NoEvent
    BY ImageAssumption DEF Events
  <2>2. ASSUME HashClash(Here(p), e)
        PROVE  Cause(p)
    BY <2>1, <2>2 DEF HashClash, Conflict, Cause
  <2>3. ASSUME asked[p] = e, TagTaken(Here(p), e)
        PROVE  Cause(p)
    <3>1. ~EventKnown(began[p], e)
      BY <1>4, <2>1, <2>3 DEF EventKnown, SameIdentity
    <3>2. EventKnown(Here(p), e) \/ Conflict(Here(p), image[p])
      BY <2>1, <2>3 DEF TagTaken, EventKnown, SameIdentity, Conflict
    <3> QED
      BY <2>1, <3>1, <3>2 DEF Cause
  <2>4. Cause(p)
    BY <1>12, <2>2, <2>3 DEF ClashingEvent
  <2> QED
    BY <1>6, <1>12, <2>4 DEF ClashingEvent
<1> QED
  BY <1>7, <1>8, <1>9, <1>10, <1>11, <1>12 DEF Check

(* verify's own steps.                                                     *)
LEMMA VerifyStep ==
  ASSUME TypeInv, NEW p \in Proc, ProcInv(p), Verify(p)
  PROVE  ProcInv(p)'
<1> USE DEF TypeInv, PipelineTypeOK
<1>1. stage[p] = "verify"
  BY DEF Verify, Unverified, FinishVerify
<1>2. target[p] \in Db /\ KeysUnique(Here(p)) /\ image[p] \in Image
  BY DEF TypeOK, KeysInv, Here
<1>3. UNCHANGED vars /\ Here(p)' = Here(p)
  BY OnlyIngestWrites DEF vars, Here
<1>4. /\ IncludedIn(began[p], Here(p))
      /\ \A e \in image[p].events \ left[p].events :
           e \in missing[p] \/ EventKnown(Here(p), e)
      /\ \A e \in missing[p] : ~EventKnown(began[p], e)
  BY <1>1 DEF ProcInv, VerifiedSoFar
<1>5. ASSUME NEW e \in Unverified(p), FindEvent(p, e) \/ MissEvent(p, e)
      PROVE  ProcInv(p)'
  <2>1. /\ stage'[p] = "verify" /\ image'[p] = image[p] /\ began'[p] = began[p]
        /\ left'[p].events = left[p].events \ {e}
    BY <1>1, <1>5 DEF FindEvent, MissEvent, DropEvent
  <2>2. \/ EventKnown(Here(p), e) /\ missing'[p] = missing[p]
        \/ ~EventKnown(began[p], e) /\ missing'[p] = missing[p] \cup {e}
    BY <1>4, <1>5 DEF FindEvent, MissEvent, TagTaken, EventKnown, SameIdentity, IncludedIn
  <2>3. VerifiedSoFar(p)'
    BY <1>3, <1>4, <2>1, <2>2 DEF VerifiedSoFar
  <2> QED
    BY <2>1, <2>3 DEF ProcInv, CheckedSoFar, Verdict
<1>6. ASSUME NEW e \in Unverified(p), MismatchEvent(p, e)
      PROVE  ProcInv(p)'
  <2>1. /\ stage'[p] = "unverified" /\ image'[p] = image[p] /\ began'[p] = began[p]
    BY <1>6 DEF MismatchEvent, End, Leave
  <2>2. e \in image[p].events
    BY DEF Unverified
  <2>3. ~EventKnown(began[p], e)
    BY <1>2, <1>4, <1>6
       DEF MismatchEvent, TagClash, EventKnown, SameIdentity, IncludedIn, KeysUnique
  <2> QED
    BY <2>1, <2>2, <2>3 DEF ProcInv, CheckedSoFar, VerifiedSoFar, Verdict
<1>7. CASE FinishVerify(p)
  <2>1. left[p].events = {}
    BY <1>7 DEF FinishVerify, Nothing
  <2>2. /\ image'[p] = image[p] /\ began'[p] = began[p]
        /\ stage'[p] = IF missing[p] = {} THEN "verified" ELSE "unverified"
    BY <1>7 DEF FinishVerify, End, Leave
  <2> QED
    BY <1>3, <1>4, <2>1, <2>2 DEF ProcInv, CheckedSoFar, VerifiedSoFar, Verdict
<1> QED
  BY <1>5, <1>6, <1>7 DEF Verify

(* A command begins, ingests or is killed.                                 *)
LEMMA CommandStep ==
  ASSUME TypeInv, NEW p \in Proc, Ingest(p) \/ Abort(p)
         \/ \E B \in Image : StartCheck(p, B) \/ StartIngest(p, B) \/ StartVerify(p, B)
  PROVE  ProcInv(p)'
<1> USE DEF TypeInv, PipelineTypeOK
<1>1. ASSUME NEW B \in Image, StartCheck(p, B) \/ StartVerify(p, B)
      PROVE  ProcInv(p)'
  <2>1. ~SameElfCollision(B)
    BY ImageAssumption DEF SameElfCollision
  <2>2. PICK name \in {"check", "verify"} :
          /\ Begin(p, name, B, left'[p])
          /\ left'[p].events = B.events
          /\ name = "check" => left'[p].strings = B.strings
    BY <1>1, <2>1 DEF StartCheck, StartVerify, Begin, EntriesOf
  <2>3. /\ stage'[p] = name /\ image'[p] = B /\ began'[p] = Here(p)
        /\ asked'[p] = NoEvent /\ missing'[p] = {} /\ Here(p)' = Here(p)
    BY <2>2 DEF Begin, Here, vars
  <2> QED
    BY <2>2, <2>3 DEF ProcInv, CheckedSoFar, VerifiedSoFar, Verdict, IncludedIn
<1>2. ASSUME NEW B \in Image, StartIngest(p, B)
      PROVE  ProcInv(p)'
  BY <1>2 DEF StartIngest, ProcInv, CheckedSoFar, VerifiedSoFar, Verdict
<1>3. CASE Ingest(p) \/ Abort(p)
  BY <1>3 DEF Ingest, Abort, Leave, ProcInv, CheckedSoFar, VerifiedSoFar, Verdict
<1> QED
  BY <1>1, <1>2, <1>3

LEMMA InvariantStep == IInv /\ [PipelineNext]_pipelineVars => IInv'
<1>1. ASSUME IInv, NEW p \in Proc, StepOf(p)
      PROVE  IInv'
  <2>1. TypeOK' /\ RequestInv' /\ KeysInv' /\ Grows /\ target' = target
    BY <1>1, DbStep DEF IInv, TypeInv, PipelineTypeOK
  <2>2. TypeInv'
    BY <1>1, <2>1, PipelineTypeStep, IdleStep DEF IInv, TypeInv
  <2>3. ASSUME NEW q \in Proc \ {p}
        PROVE  ProcInv(q)'
    BY <1>1, <2>1, OthersRest, RestStep DEF IInv, TypeInv
  <2>4. ProcInv(p)'
    BY <1>1, CheckStep, VerifyStep, CommandStep DEF IInv, StepOf
  <2> QED
    BY <2>2, <2>3, <2>4 DEF IInv
<1>2. ASSUME IInv, UNCHANGED pipelineVars
      PROVE  IInv'
  BY <1>2 DEF pipelineVars, vars, IInv, TypeInv, PipelineTypeOK, TypeOK, RequestInv, KeysInv,
              IdleInv, ProcInv, CheckedSoFar, VerifiedSoFar, Verdict, Cause, Here
<1> QED
  BY <1>1, <1>2 DEF PipelineNext, StepOf

LEMMA InvariantInit == PipelineInit => IInv
<1> SUFFICES ASSUME PipelineInit
             PROVE  IInv
  OBVIOUS
<1>1. \A p \in Proc : stage[p] = "idle"
  BY DEF PipelineInit
<1> QED
  BY <1>1, PipelineTypeInit DEF IInv, ProcInv, CheckedSoFar, VerifiedSoFar, Verdict

LEMMA PipelineInvariance == PipelineSpec => []IInv
  BY InvariantInit, InvariantStep, PTL DEF PipelineSpec

(* Every variable of the pipeline keeps its type.                          *)
THEOREM PipelineTypeCorrect == PipelineSpec => []PipelineTypeOK
  BY PipelineInvariance, PTL DEF IInv, TypeInv

(* An ELF that check passed had no conflict with the database as it was    *)
(* when check began, whatever was ingested while it ran (db.rs:214-305).   *)
THEOREM PassIsRight == PipelineSpec => []PassMeansNoConflict
<1>1. IInv => PassMeansNoConflict
  BY DEF IInv, ProcInv, Verdict, PassMeansNoConflict
<1> QED
  BY <1>1, PipelineInvariance, PTL

(* What verify has verified stays in the database (db.rs:312-336).         *)
THEOREM VerifiedIsRight == PipelineSpec => []VerifiedStaysPresent
<1>1. IInv => VerifiedStaysPresent
  BY DEF IInv, ProcInv, Verdict, VerifiedStaysPresent
<1> QED
  BY <1>1, PipelineInvariance, PTL

(* verify fails only on an image of which an event was missing when it     *)
(* began (db.rs:312-336).                                                  *)
THEOREM UnverifiedIsRight == PipelineSpec => []UnverifiedWasMissing
<1>1. IInv => UnverifiedWasMissing
  BY DEF IInv, ProcInv, Verdict, UnverifiedWasMissing
<1> QED
  BY <1>1, PipelineInvariance, PTL

(* A check rejects only an ELF that conflicts with the database, or one of *)
(* which another process ingested an event meanwhile (db.rs:284-293).      *)
THEOREM RejectionIsCaused == PipelineSpec => []RejectionHasItsCause
<1>1. IInv => RejectionHasItsCause
  BY DEF IInv, ProcInv, Verdict, Cause, RejectionHasItsCause
<1> QED
  BY <1>1, PipelineInvariance, PTL

-----------------------------------------------------------------------------
(* The count of entries that were present.                                 *)

(* Of the events E and strings S, how many T has.                          *)
Found(T, E, S) ==
  Cardinality({e \in E : EventKnown(T, e)}) + Cardinality(S \cap T.strings)

CountedSoFar(p) ==
  /\ stage[p] = "check" =>
       LET E == image[p].events \ left[p].events
           S == image[p].strings \ left[p].strings IN
       /\ Found(began[p], E, S) <= present[p]
       /\ present[p] <= Found(Here(p), E, S)
  /\ stage[p] = "checked" =>
       /\ PresentIn(began[p], image[p]) <= present[p]
       /\ present[p] <= PresentIn(Here(p), image[p])

LEMMA FoundIsNat ==
  ASSUME NEW T, NEW E, NEW S, IsFiniteSet(E), IsFiniteSet(S)
  PROVE  /\ IsFiniteSet({e \in E : EventKnown(T, e)})
         /\ IsFiniteSet(S \cap T.strings)
         /\ Cardinality({e \in E : EventKnown(T, e)}) \in Nat
         /\ Cardinality(S \cap T.strings) \in Nat
         /\ Found(T, E, S) \in Nat
<1>1. /\ IsFiniteSet({e \in E : EventKnown(T, e)})
      /\ IsFiniteSet(S \cap T.strings)
  BY FS_Subset
<1> QED
  BY <1>1, FS_CardinalityType DEF Found

LEMMA FoundGrows ==
  ASSUME NEW T, NEW U, NEW E, NEW S, IsFiniteSet(E), IsFiniteSet(S), IncludedIn(T, U)
  PROVE  Found(T, E, S) <= Found(U, E, S)
<1>1. {e \in E : EventKnown(T, e)} \subseteq {e \in E : EventKnown(U, e)}
  BY DEF IncludedIn, EventKnown
<1>2. S \cap T.strings \subseteq S \cap U.strings
  BY DEF IncludedIn
<1>3. /\ Cardinality({e \in E : EventKnown(T, e)}) <= Cardinality({e \in E : EventKnown(U, e)})
      /\ Cardinality(S \cap T.strings) <= Cardinality(S \cap U.strings)
  BY <1>1, <1>2, FoundIsNat, FS_Subset
<1> QED
  BY <1>3, FoundIsNat DEF Found

(* An entry more is found if it is there.                                  *)
LEMMA StringMore ==
  ASSUME NEW T, NEW E, NEW S, IsFiniteSet(E), IsFiniteSet(S), NEW s, s \notin S
  PROVE  /\ s \in T.strings => Found(T, E, S \cup {s}) = Found(T, E, S) + 1
         /\ s \notin T.strings => Found(T, E, S \cup {s}) = Found(T, E, S)
<1>1. ASSUME s \in T.strings
      PROVE  Found(T, E, S \cup {s}) = Found(T, E, S) + 1
  <2>1. (S \cup {s}) \cap T.strings = (S \cap T.strings) \cup {s}
    BY <1>1
  <2>2. Cardinality((S \cup {s}) \cap T.strings) = Cardinality(S \cap T.strings) + 1
    BY <2>1, FoundIsNat, FS_AddElement
  <2> QED
    BY <2>2, FoundIsNat DEF Found
<1>2. ASSUME s \notin T.strings
      PROVE  Found(T, E, S \cup {s}) = Found(T, E, S)
  <2>1. (S \cup {s}) \cap T.strings = S \cap T.strings
    BY <1>2
  <2> QED
    BY <2>1 DEF Found
<1> QED
  BY <1>1, <1>2

LEMMA EventMore ==
  ASSUME NEW T, NEW E, NEW S, IsFiniteSet(E), IsFiniteSet(S), NEW x, x \notin E
  PROVE  /\ EventKnown(T, x) => Found(T, E \cup {x}, S) = Found(T, E, S) + 1
         /\ ~EventKnown(T, x) => Found(T, E \cup {x}, S) = Found(T, E, S)
<1>1. ASSUME EventKnown(T, x)
      PROVE  Found(T, E \cup {x}, S) = Found(T, E, S) + 1
  <2>1. {e \in E \cup {x} : EventKnown(T, e)} = {e \in E : EventKnown(T, e)} \cup {x}
    BY <1>1
  <2>2. Cardinality({e \in E \cup {x} : EventKnown(T, e)}) =
          Cardinality({e \in E : EventKnown(T, e)}) + 1
    BY <2>1, FoundIsNat, FS_AddElement
  <2> QED
    BY <2>2, FoundIsNat DEF Found
<1>2. ASSUME ~EventKnown(T, x)
      PROVE  Found(T, E \cup {x}, S) = Found(T, E, S)
  <2>1. {e \in E \cup {x} : EventKnown(T, e)} = {e \in E : EventKnown(T, e)}
    BY <1>2
  <2> QED
    BY <2>1 DEF Found
<1> QED
  BY <1>1, <1>2

LEMMA FoundNothing == \A T : Found(T, {}, {}) = 0
<1> SUFFICES ASSUME NEW T
             PROVE  Found(T, {}, {}) = 0
  OBVIOUS
<1>1. {e \in {} : EventKnown(T, e)} = {} /\ {} \cap T.strings = {}
  OBVIOUS
<1> QED
  BY <1>1, FS_EmptySet DEF Found

(* The counts of a process at rest stay between the same bounds, of which  *)
(* the upper one may rise.                                                 *)
LEMMA CountRests ==
  ASSUME PipelineTypeOK, Grows, target' = target, NEW q \in Proc, CountedSoFar(q),
         /\ stage'[q] = stage[q] /\ image'[q] = image[q] /\ left'[q] = left[q]
         /\ began'[q] = began[q] /\ present'[q] = present[q]
  PROVE  CountedSoFar(q)'
<1> DEFINE E == image[q].events \ left[q].events
           S == image[q].strings \ left[q].strings
<1>1. target[q] \in Db /\ image[q] \in Image /\ present[q] \in Nat
  BY DEF PipelineTypeOK, TypeOK
<1>2. IncludedIn(Here(q), Here(q)')
  BY <1>1 DEF Grows, Here
<1>3. /\ IsFiniteSet(image[q].events) /\ IsFiniteSet(image[q].strings)
      /\ IsFiniteSet(E) /\ IsFiniteSet(S)
  BY <1>1, ImageAssumption, FS_Subset
<1>4. /\ Found(Here(q), E, S) <= Found(Here(q)', E, S)
      /\ Found(Here(q), E, S) \in Nat /\ Found(Here(q)', E, S) \in Nat
  <2> HIDE DEF E, S
  <2> QED
    BY <1>2, <1>3, FoundGrows, FoundIsNat
<1>5. /\ PresentIn(Here(q), image[q]) <= PresentIn(Here(q)', image[q])
      /\ PresentIn(Here(q), image[q]) \in Nat /\ PresentIn(Here(q)', image[q]) \in Nat
  BY <1>2, <1>3, FoundGrows, FoundIsNat DEF PresentIn, Found
<1>6. stage[q] = "check" =>
        Found(began[q], E, S) <= present[q] /\ present[q] <= Found(Here(q)', E, S)
  BY <1>1, <1>4 DEF CountedSoFar
<1>7. stage[q] = "checked" =>
        /\ PresentIn(began[q], image[q]) <= present[q]
        /\ present[q] <= PresentIn(Here(q)', image[q])
  BY <1>1, <1>5 DEF CountedSoFar
<1> QED
  BY <1>6, <1>7 DEF CountedSoFar

(* check looks at an entry and drops it.                                   *)
LEMMA CountEntry ==
  ASSUME TypeInv, NEW p \in Proc, ProcInv(p), CountedSoFar(p),
         \/ \E s \in Strings(p) : OldString(p, s) \/ NewString(p, s)
         \/ \E e \in Events(p) : OldEvent(p, e) \/ NewEvent(p, e)
  PROVE  CountedSoFar(p)'
<1> USE DEF TypeInv, PipelineTypeOK
<1> DEFINE E == image[p].events \ left[p].events
           S == image[p].strings \ left[p].strings
           E1 == image[p].events \ left'[p].events
           S1 == image[p].strings \ left'[p].strings
<1>1. stage[p] = "check" /\ image[p] \in Image /\ present[p] \in Nat
  BY DEF Strings, Events
<1>2. UNCHANGED <<db, target, stage, image, began>>
  BY DEF OldString, NewString, OldEvent, NewEvent, vars
<1>3. /\ IsFiniteSet(E) /\ IsFiniteSet(S)
      /\ Found(began[p], E, S) \in Nat /\ Found(Here(p), E, S) \in Nat
  <2>1. IsFiniteSet(E) /\ IsFiniteSet(S)
    BY <1>1, ImageAssumption, FS_Subset
  <2> HIDE DEF E, S
  <2> QED
    BY <2>1, FoundIsNat
<1>4. /\ IncludedIn(began[p], Here(p))
      /\ Found(began[p], E, S) <= present[p]
      /\ present[p] <= Found(Here(p), E, S)
  BY <1>1 DEF ProcInv, CheckedSoFar, CountedSoFar
<1>5. Found(began[p], E1, S1) <= present'[p] /\ present'[p] <= Found(Here(p), E1, S1)
  <2>1. ASSUME NEW s \in Strings(p), OldString(p, s) \/ NewString(p, s)
        PROVE  Found(began[p], E1, S1) <= present'[p] /\ present'[p] <= Found(Here(p), E1, S1)
    <3>1. E1 = E /\ S1 = S \cup {s} /\ s \notin S
      BY <2>1 DEF OldString, NewString, DropString, Strings
    <3> HIDE DEF E, S, E1, S1
    <3>3. CASE OldString(p, s)
      <4>1. s \in Here(p).strings /\ present'[p] = present[p] + 1
        BY <3>3 DEF OldString, StringKnown, Count
      <4>2. Found(Here(p), E, S \cup {s}) = Found(Here(p), E, S) + 1
        BY <1>3, <3>1, <4>1, StringMore
      <4>3. Found(began[p], E, S \cup {s}) \in {Found(began[p], E, S), Found(began[p], E, S) + 1}
        BY <1>3, <3>1, StringMore
      <4> QED
        BY <1>1, <1>3, <1>4, <3>1, <4>1, <4>2, <4>3
    <3>4. CASE NewString(p, s)
      <4>1. s \notin Here(p).strings /\ s \notin began[p].strings /\ present'[p] = present[p]
        BY <1>4, <3>4 DEF NewString, StringFresh, IncludedIn
      <4>2. /\ Found(began[p], E, S \cup {s}) = Found(began[p], E, S)
            /\ Found(Here(p), E, S \cup {s}) = Found(Here(p), E, S)
        BY <1>3, <3>1, <4>1, StringMore
      <4> QED
        BY <1>4, <3>1, <4>1, <4>2
    <3> QED
      BY <2>1, <3>3, <3>4
  <2>2. ASSUME NEW e \in Events(p), OldEvent(p, e) \/ NewEvent(p, e)
        PROVE  Found(began[p], E1, S1) <= present'[p] /\ present'[p] <= Found(Here(p), E1, S1)
    <3>1. S1 = S /\ E1 = E \cup {e} /\ e \notin E
      BY <2>2 DEF OldEvent, NewEvent, DropEvent, Events
    <3> HIDE DEF E, S, E1, S1
    <3>3. CASE OldEvent(p, e)
      <4>1. EventKnown(Here(p), e) /\ present'[p] = present[p] + 1
        BY <3>3 DEF OldEvent, Count
      <4>2. Found(Here(p), E \cup {e}, S) = Found(Here(p), E, S) + 1
        BY <1>3, <3>1, <4>1, EventMore
      <4>3. Found(began[p], E \cup {e}, S) \in {Found(began[p], E, S), Found(began[p], E, S) + 1}
        BY <1>3, <3>1, EventMore
      <4> QED
        BY <1>1, <1>3, <1>4, <3>1, <4>1, <4>2, <4>3
    <3>4. CASE NewEvent(p, e)
      <4>1. ~EventKnown(Here(p), e) /\ ~EventKnown(began[p], e) /\ present'[p] = present[p]
        BY <1>4, <3>4 DEF NewEvent, EventKnown, SameIdentity, IncludedIn
      <4>2. /\ Found(began[p], E \cup {e}, S) = Found(began[p], E, S)
            /\ Found(Here(p), E \cup {e}, S) = Found(Here(p), E, S)
        BY <1>3, <3>1, <4>1, EventMore
      <4> QED
        BY <1>4, <3>1, <4>1, <4>2
    <3> QED
      BY <2>2, <3>3, <3>4
  <2> QED
    BY <2>1, <2>2
<1> QED
  BY <1>1, <1>2, <1>5 DEF CountedSoFar, Here

(* Every other step of a command: it begins with nothing looked at, and    *)
(* passes with everything looked at.                                       *)
LEMMA CountStep ==
  ASSUME TypeInv, NEW p \in Proc, ProcInv(p), CountedSoFar(p), StepOf(p)
  PROVE  CountedSoFar(p)'
<1> USE DEF TypeInv, PipelineTypeOK
<1>1. ASSUME stage'[p] \notin {"check", "checked"}
      PROVE  CountedSoFar(p)'
  BY <1>1 DEF CountedSoFar
<1>2. ASSUME NEW B \in Image, StartCheck(p, B)
      PROVE  CountedSoFar(p)'
  <2>1. ~SameElfCollision(B)
    BY ImageAssumption DEF SameElfCollision
  <2>2. /\ stage'[p] = "check" /\ image'[p] = B /\ present'[p] = 0
        /\ left'[p] = EntriesOf(B)
    BY <1>2, <2>1 DEF StartCheck, Begin
  <2>3. /\ image'[p].events \ left'[p].events = {}
        /\ image'[p].strings \ left'[p].strings = {}
    BY <2>2 DEF EntriesOf
  <2>4. Found(began[p]', {}, {}) = 0 /\ Found(Here(p)', {}, {}) = 0
    BY FoundNothing
  <2>5. 0 <= 0
    OBVIOUS
  <2> HIDE DEF TypeInv, PipelineTypeOK
  <2> QED
    BY <2>2, <2>3, <2>4, <2>5 DEF CountedSoFar
<1>3. ASSUME NEW B \in Image, StartIngest(p, B) \/ StartVerify(p, B)
      PROVE  CountedSoFar(p)'
  BY <1>1, <1>3 DEF StartIngest, StartVerify, Begin
<1>4. CASE PassCheck(p)
  <2>1. image[p].events \ left[p].events = image[p].events
        /\ image[p].strings \ left[p].strings = image[p].strings
        /\ stage[p] = "check"
    BY <1>4 DEF PassCheck, Nothing
  <2>2. /\ Found(began[p], image[p].events, image[p].strings) <= present[p]
        /\ present[p] <= Found(Here(p), image[p].events, image[p].strings)
    BY <2>1 DEF CountedSoFar
  <2>3. PresentIn(began[p], image[p]) <= present[p] /\ present[p] <= PresentIn(Here(p), image[p])
    BY <2>2 DEF Found, PresentIn
  <2>4. UNCHANGED <<db, target, image, present, began>> /\ stage'[p] = "checked"
    BY <1>4 DEF PassCheck, End, Leave, vars
  <2> QED
    BY <2>3, <2>4 DEF CountedSoFar, Here
<1>5. ASSUME NEW e \in Events(p), HashNotFound(p, e)
      PROVE  CountedSoFar(p)'
  BY <1>5 DEF HashNotFound, CountedSoFar, Here, vars
<1>6. ASSUME End(p, "rejected")
      PROVE  CountedSoFar(p)'
  BY <1>1, <1>6 DEF End, Leave
<1>7. CASE Check(p)
  BY <1>4, <1>5, <1>6, <1>7, CountEntry DEF Check, ClashingString, ClashingEvent
<1>8. CASE Verify(p)
  <2>1. stage[p] = "verify"
    BY <1>8 DEF Verify, Unverified, FinishVerify
  <2> QED
    BY <1>1, <1>8, <2>1
       DEF Verify, FindEvent, MissEvent, MismatchEvent, FinishVerify, End, Leave
<1>9. CASE Ingest(p) \/ Abort(p)
  BY <1>1, <1>9 DEF Ingest, Abort, Leave
<1> QED
  BY <1>2, <1>3, <1>7, <1>8, <1>9 DEF StepOf

(* What check reports as present lies between what was there when it began *)
(* and what is there now (db.rs:240-304).                                  *)
THEOREM CountIsRight == PipelineSpec => []CountIsBracketed
<1> DEFINE CountInv == IInv /\ \A p \in Proc : CountedSoFar(p)
<1>1. PipelineInit => CountInv
  <2> SUFFICES ASSUME PipelineInit
               PROVE  CountInv
    OBVIOUS
  <2>1. \A p \in Proc : stage[p] = "idle"
    BY DEF PipelineInit
  <2> QED
    BY <2>1, InvariantInit DEF CountedSoFar
<1>2. CountInv /\ [PipelineNext]_pipelineVars => CountInv'
  <2>1. ASSUME CountInv, NEW p \in Proc, StepOf(p), NEW q \in Proc
        PROVE  CountedSoFar(q)'
    <3>1. TypeInv /\ ProcInv(p) /\ CountedSoFar(p) /\ CountedSoFar(q)
      BY <2>1 DEF IInv
    <3>2. Grows /\ target' = target
      BY <2>1, <3>1, DbStep DEF TypeInv, PipelineTypeOK
    <3>3. CASE q = p
      BY <2>1, <3>1, <3>3, CountStep
    <3>4. CASE q # p
      BY <2>1, <3>1, <3>2, <3>4, OthersRest, CountRests DEF TypeInv
    <3> QED
      BY <3>3, <3>4
  <2>2. ASSUME CountInv, UNCHANGED pipelineVars, NEW q \in Proc
        PROVE  CountedSoFar(q)'
    BY <2>2 DEF pipelineVars, vars, CountedSoFar, Here
  <2> QED
    BY <2>1, <2>2, InvariantStep DEF PipelineNext, StepOf
<1>3. CountInv => CountIsBracketed
  BY DEF CountedSoFar, CountIsBracketed
<1> HIDE DEF CountInv
<1> QED
  BY <1>1, <1>2, <1>3, PTL DEF PipelineSpec
=============================================================================
