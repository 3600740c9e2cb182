--------------------------- MODULE ReleasePipeline ---------------------------
(***************************************************************************)
(* The release pipeline of SPEC.md section 16: processes run `zfmt check`, *)
(* `zfmt ingest` and `zfmt verify` on one shared database, in that order   *)
(* or alone.  Ingest is one step of SerialDb, which IngestDb implements;   *)
(* check and verify ask their questions with one SELECT each, outside any  *)
(* transaction, so the database may grow between two of them               *)
(* (zfmt-host/src/db.rs, main.rs).                                         *)
(***************************************************************************)
EXTENDS SerialDb, Naturals, FiniteSets

CONSTANTS
  Image,    \* the batches that the ELF files at hand parse to
  NoEvent   \* no event is between its two SELECTs

(* A file has finitely many entries.  elf.rs gives one entry per section,  *)
(* a section is named by the tag or the hash, and the macros make the tag  *)
(* the low half of the full hash.                                          *)
ASSUME ImageAssumption ==
  /\ Image \subseteq Batch
  /\ \A B \in Image :
       /\ IsFiniteSet(B.events) /\ IsFiniteSet(B.strings)
       /\ \A e, f \in B.events :
            (e.tag = f.tag \/ e.full_hash = f.full_hash) => e = f
       /\ \A r, s \in B.strings : r.hash = s.hash => r = s
  /\ NoEvent \notin EventEntry

VARIABLES
  stage,    \* the command a process runs, or how its last one ended
  image,    \* what the command's ELF parses to
  left,     \* the entries the command has still to look at
  asked,    \* check found no row with this event's full_hash
  present,  \* how many entries check counted as already present
  missing,  \* the events verify did not find
  began     \* the database when the command began (kept for the properties)

pipelineVars == <<vars, stage, image, left, asked, present, missing, began>>

Ended == {"idle", "checked", "rejected", "ingested", "refused",
          "verified", "unverified", "failed"}
Running == {"check", "ingest", "verify"}

Here(p) == db[target[p]]

Nothing == [events |-> {}, strings |-> {}]
EntriesOf(B) == [events |-> B.events, strings |-> B.strings]

PipelineInit ==
  /\ Init
  /\ stage = [p \in Proc |-> "idle"]
  /\ image \in [Proc -> Image]
  /\ left = [p \in Proc |-> Nothing]
  /\ asked = [p \in Proc |-> NoEvent]
  /\ present = [p \in Proc |-> 0]
  /\ missing = [p \in Proc |-> {}]
  /\ began = [p \in Proc |-> EmptyTables]

(* A command reads and parses its ELF, then opens the database.            *)
Begin(p, name, B, entries) ==
  /\ stage[p] \in Ended
  /\ stage' = [stage EXCEPT ![p] = name]
  /\ image' = [image EXCEPT ![p] = B]
  /\ left' = [left EXCEPT ![p] = entries]
  /\ asked' = [asked EXCEPT ![p] = NoEvent]
  /\ present' = [present EXCEPT ![p] = 0]
  /\ missing' = [missing EXCEPT ![p] = {}]
  /\ began' = [began EXCEPT ![p] = Here(p)]
  /\ UNCHANGED vars

(* Mutant: a command leaves its worklist to the next one.                  *)
LeaveWorklist(p, outcome) ==
  /\ stage' = [stage EXCEPT ![p] = outcome]
  /\ asked' = [asked EXCEPT ![p] = NoEvent]
  /\ UNCHANGED <<left, missing, image, present, began>>

(* A command ends: its local state is gone, its verdict and ELF are kept.  *)
Leave(p, outcome) ==
  /\ stage' = [stage EXCEPT ![p] = outcome]
  /\ left' = [left EXCEPT ![p] = Nothing]
  /\ asked' = [asked EXCEPT ![p] = NoEvent]
  /\ missing' = [missing EXCEPT ![p] = {}]
  /\ UNCHANGED <<image, present, began>>

End(p, outcome) == Leave(p, outcome) /\ UNCHANGED vars

DropString(p, s) == left' = [left EXCEPT ![p].strings = @ \ {s}]
DropEvent(p, e) == left' = [left EXCEPT ![p].events = @ \ {e}]
Count(p) == present' = [present EXCEPT ![p] = @ + 1]

-----------------------------------------------------------------------------
(* zfmt check.                                                             *)

(* The scan for two entries of one tag sees only what the parser left.     *)
SameElfCollision(B) ==
  \E e, f \in B.events : e.tag = f.tag /\ e.full_hash # f.full_hash

StartCheck(p, B) ==
  Begin(p, IF SameElfCollision(B) THEN "rejected" ELSE "check", B, EntriesOf(B))

Strings(p) == IF stage[p] = "check" THEN left[p].strings ELSE {}
Events(p) == IF stage[p] = "check" /\ Strings(p) = {} THEN left[p].events ELSE {}

OldString(p, s) ==
  /\ StringKnown(Here(p), s)
  /\ Count(p)
  /\ DropString(p, s)
  /\ UNCHANGED <<vars, stage, image, asked, missing, began>>

(* Mutant: a new string is counted as present.                             *)
NewStringCounted(p, s) ==
  /\ StringFresh(Here(p), s)
  /\ Count(p)
  /\ DropString(p, s)
  /\ UNCHANGED <<vars, stage, image, asked, missing, began>>

NewString(p, s) ==
  /\ StringFresh(Here(p), s)
  /\ DropString(p, s)
  /\ UNCHANGED <<vars, stage, image, asked, present, missing, began>>

ClashingString(p, s) ==
  /\ StringClash(Here(p), s)
  /\ End(p, "rejected")

(* SELECT tag FROM events WHERE full_hash = ?                              *)
OldEvent(p, e) ==
  /\ asked[p] = NoEvent
  /\ EventKnown(Here(p), e)
  /\ Count(p)
  /\ DropEvent(p, e)
  /\ UNCHANGED <<vars, stage, image, asked, missing, began>>

HashNotFound(p, e) ==
  /\ asked[p] = NoEvent
  /\ \A r \in Here(p).events : r.full_hash # e.full_hash
  /\ asked' = [asked EXCEPT ![p] = e]
  /\ UNCHANGED <<vars, stage, image, left, present, missing, began>>

(* Mutant: the answer of the second SELECT is not looked at.               *)
NewEventUnasked(p, e) ==
  /\ asked[p] = e
  /\ asked' = [asked EXCEPT ![p] = NoEvent]
  /\ DropEvent(p, e)
  /\ UNCHANGED <<vars, stage, image, present, missing, began>>

(* SELECT full_hash FROM events WHERE tag = ?  Any row is taken for a      *)
(* wire collision: that no row had the full_hash was asked before.         *)
NewEvent(p, e) ==
  /\ asked[p] = e
  /\ \A r \in Here(p).events : r.tag # e.tag
  /\ asked' = [asked EXCEPT ![p] = NoEvent]
  /\ DropEvent(p, e)
  /\ UNCHANGED <<vars, stage, image, present, missing, began>>

TagTaken(T, e) == \E r \in T.events : r.tag = e.tag

(* Mutant: the tag is looked up before the full_hash.                      *)
ClashingEventByTag(p, e) ==
  /\ asked[p] = NoEvent /\ TagTaken(Here(p), e)
  /\ End(p, "rejected")

ClashingEvent(p, e) ==
  /\ \/ asked[p] = NoEvent /\ HashClash(Here(p), e)
     \/ asked[p] = e /\ TagTaken(Here(p), e)
  /\ End(p, "rejected")

PassCheck(p) ==
  /\ stage[p] = "check"
  /\ left[p] = Nothing
  /\ End(p, "checked")

Check(p) ==
  \/ \E s \in Strings(p) : OldString(p, s) \/ NewString(p, s) \/ ClashingString(p, s)
  \/ \E e \in Events(p) :
       OldEvent(p, e) \/ HashNotFound(p, e) \/ NewEvent(p, e) \/ ClashingEvent(p, e)
  \/ PassCheck(p)

-----------------------------------------------------------------------------
(* zfmt ingest, one step of SerialDb once it has begun.  It is run on the  *)
(* image that was just checked, or on any image without a check.           *)

StartIngest(p, B) ==
  /\ stage[p] \in Ended
  /\ stage[p] = "checked" => image[p] = B
  /\ stage' = [stage EXCEPT ![p] = "ingest"]
  /\ image' = [image EXCEPT ![p] = B]
  /\ target' = target
  /\ request' = [request EXCEPT ![p] = B]
  /\ Submit(p)
  /\ present' = [present EXCEPT ![p] = 0]
  /\ began' = [began EXCEPT ![p] = EmptyTables]
  /\ UNCHANGED <<left, asked, missing>>

Ingest(p) ==
  /\ stage[p] = "ingest"
  /\ \/ /\ db' = [db EXCEPT ![target[p]] = Updated(@, request[p])]
        /\ Accept(p)
        /\ Leave(p, "ingested")
     \/ Reject(p) /\ Leave(p, "refused")

-----------------------------------------------------------------------------
(* zfmt verify.                                                            *)

StartVerify(p, B) == Begin(p, "verify", B, [EntriesOf(B) EXCEPT !.strings = {}])

Unverified(p) == IF stage[p] = "verify" THEN left[p].events ELSE {}

(* Mutant: the row's full_hash is not compared.                            *)
FindEventByTag(p, e) ==
  /\ TagTaken(Here(p), e)
  /\ DropEvent(p, e)
  /\ UNCHANGED <<vars, stage, image, asked, present, missing, began>>

(* SELECT full_hash FROM events WHERE tag = ?                              *)
FindEvent(p, e) ==
  /\ EventKnown(Here(p), e)
  /\ DropEvent(p, e)
  /\ UNCHANGED <<vars, stage, image, asked, present, missing, began>>

MissEvent(p, e) ==
  /\ ~TagTaken(Here(p), e)
  /\ missing' = [missing EXCEPT ![p] = @ \cup {e}]
  /\ DropEvent(p, e)
  /\ UNCHANGED <<vars, stage, image, asked, present, began>>

(* Mutant: any row with the tag is a mismatch.                             *)
MismatchAnyRow(p, e) == TagTaken(Here(p), e) /\ End(p, "unverified")

MismatchEvent(p, e) ==
  /\ TagClash(Here(p), e)
  /\ End(p, "unverified")

FinishVerify(p) ==
  /\ stage[p] = "verify"
  /\ left[p] = Nothing
  /\ End(p, IF missing[p] = {} THEN "verified" ELSE "unverified")

Verify(p) ==
  \/ \E e \in Unverified(p) : FindEvent(p, e) \/ MissEvent(p, e) \/ MismatchEvent(p, e)
  \/ FinishVerify(p)

-----------------------------------------------------------------------------
(* Any command may be killed, or give up waiting for a lock.               *)
Abort(p) ==
  /\ stage[p] \in Running
  /\ Leave(p, "failed")
  /\ IF stage[p] = "ingest" THEN Fail(p) ELSE UNCHANGED vars

PipelineNext ==
  \E p \in Proc :
    \/ \E B \in Image : StartCheck(p, B) \/ StartIngest(p, B) \/ StartVerify(p, B)
    \/ Check(p)
    \/ Ingest(p)
    \/ Verify(p)
    \/ Abort(p)

PipelineSpec == PipelineInit /\ [][PipelineNext]_pipelineVars

-----------------------------------------------------------------------------
(* Properties.                                                             *)

(* Every variable stays in its range.                                      *)
PipelineTypeOK ==
  /\ TypeOK
  /\ stage \in [Proc -> Ended \cup Running]
  /\ image \in [Proc -> Image]
  /\ left \in [Proc -> [events : SUBSET EventEntry, strings : SUBSET StringEntry]]
  /\ asked \in [Proc -> EventEntry \cup {NoEvent}]
  /\ missing \in [Proc -> SUBSET EventEntry]
  /\ \A p \in Proc : /\ left[p].events \subseteq image[p].events
                     /\ left[p].strings \subseteq image[p].strings
                     /\ missing[p] \subseteq image[p].events
                     /\ asked[p] \in image[p].events \cup {NoEvent}
  /\ present \in [Proc -> Nat]
  /\ began \in [Proc -> Tables]

(* An ELF that check passed had no conflict with the database as it stood  *)
(* when check began, although its SELECTs saw later and different states.  *)
PassMeansNoConflict ==
  \A p \in Proc : stage[p] = "checked" => ~Conflict(began[p], image[p])

(* What check reports as already present lies between what was present     *)
(* when it began and what is present now (db.rs:211-212).                  *)
PresentIn(T, B) ==
  Cardinality({e \in B.events : EventKnown(T, e)}) +
  Cardinality(B.strings \cap T.strings)

CountIsBracketed ==
  \A p \in Proc : stage[p] = "checked" =>
    /\ PresentIn(began[p], image[p]) <= present[p]
    /\ present[p] <= PresentIn(Here(p), image[p])

(* A verify that passed stays right: no event of the image ever leaves the *)
(* database or changes its hash.                                           *)
VerifiedStaysPresent ==
  \A p \in Proc : stage[p] = "verified" =>
    \A e \in image[p].events : EventKnown(Here(p), e)

(* A verify that failed is right about the database it began with, so it   *)
(* never fails on an image whose ingest had succeeded before.              *)
UnverifiedWasMissing ==
  \A p \in Proc : stage[p] = "unverified" =>
    \E e \in image[p].events : ~EventKnown(began[p], e)

(* A check that rejects its ELF has found a conflict, one that is there    *)
(* for good, unless one of the ELF's own events was ingested by another    *)
(* process while it ran: its SELECTs cannot tell that from a collision     *)
(* (db.rs:284-293).                                                        *)
RejectionHasItsCause ==
  \A p \in Proc : stage[p] = "rejected" =>
    \/ Conflict(Here(p), image[p])
    \/ \E e \in image[p].events : EventKnown(Here(p), e) /\ ~EventKnown(began[p], e)
=============================================================================
