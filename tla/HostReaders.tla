----------------------------- MODULE HostReaders -----------------------------
(***************************************************************************)
(* `zfmt decode` with several databases (zfmt-host/src/decode.rs,          *)
(* interpret.rs), while other processes ingest, merge and export.  Every   *)
(* frame of the stream is looked up anew: the first database that knows    *)
(* its tag supplies the bytecode and the subroutines that it CALLs, and    *)
(* the first that knows its format hash supplies the text.  Each question  *)
(* is a SELECT of its own; one that fails counts as a database that does   *)
(* not know.                                                               *)
(***************************************************************************)
EXTENDS CompanionExport, Sequences

CONSTANTS
  Reader,     \* decoding processes
  Databases,  \* the lists of databases it may be given (with none it skips all)
  Sent,       \* the tags of frames; other types are only CALLed
  None        \* no frame is in hand, or no event was found for it

ASSUME ReaderAssumption ==
  /\ Databases \subseteq Seq(Db) \ {<<>>}
  /\ Sent \subseteq Tag
  /\ None \notin EventEntry \cup Tag \cup Db
  /\ NoFormat \notin FmtHash
  \* the format string is hashed into the full hash (zfmt-macro/src/hash.rs)
  /\ \A B, C \in Image : \A e \in B.events, f \in C.events :
       e.full_hash = f.full_hash => e.format_hash = f.format_hash

VARIABLES
  at,      \* what a decoder does, or how its last frame ended
  list,    \* its databases, in the order of the command line
  rest,    \* the databases it has still to ask
  frame,   \* the tag of the frame in hand
  entry,   \* the event found for it
  home,    \* the database that entry is from
  calls,   \* the subroutines that the payload makes it CALL
  failed,  \* a SELECT for its format string failed
  shown    \* history: the tag, type and text of the lines printed in full

readerVars == <<at, list, rest, frame, entry, home, calls, failed, shown>>

FrameDone == {"idle", "broken", "unformatted"}

ReaderInit ==
  /\ ExportInit
  /\ at = [r \in Reader |-> "idle"]
  /\ list \in [Reader -> Databases]
  /\ rest = [r \in Reader |-> <<>>]
  /\ frame = [r \in Reader |-> None]
  /\ entry = [r \in Reader |-> None]
  /\ home = [r \in Reader |-> None]
  /\ calls = [r \in Reader |-> {}]
  /\ failed = [r \in Reader |-> FALSE]
  /\ shown = [r \in Reader |-> {}]

(* The next frame: its tag and payload.                                    *)
ReadFrame(r, t) ==
  /\ at[r] \in FrameDone
  /\ at' = [at EXCEPT ![r] = "find"]
  /\ frame' = [frame EXCEPT ![r] = t]
  /\ rest' = [rest EXCEPT ![r] = list[r]]
  /\ UNCHANGED <<list, entry, home, calls, failed, shown>>

(* The databases are asked in turn.                                        *)
Asked(r) == Head(rest[r])

(* Mutant: the end of the list is noticed one database too late.           *)
MoreOnceAgain(r) == rest[r] # <<>>

More(r) == Tail(rest[r]) # <<>>

AskNext(r, fails) ==
  /\ rest' = [rest EXCEPT ![r] = Tail(@)]
  /\ failed' = [failed EXCEPT ![r] = fails]
  /\ UNCHANGED <<at, list, frame, entry, home, calls, shown>>

NextLine(r, outcome) ==
  /\ at' = [at EXCEPT ![r] = outcome]
  /\ rest' = [rest EXCEPT ![r] = <<>>]
  /\ calls' = [calls EXCEPT ![r] = {}]
  /\ frame' = [frame EXCEPT ![r] = None]
  /\ entry' = [entry EXCEPT ![r] = None]
  /\ home' = [home EXCEPT ![r] = None]
  /\ failed' = [failed EXCEPT ![r] = FALSE]
  /\ list' = list

-----------------------------------------------------------------------------
(* Mutant: only the first database is asked for the text.                  *)
InterpretForFirst(r, used) ==
  /\ calls' = [calls EXCEPT ![r] = used]
  /\ at' = [at EXCEPT ![r] = IF used = {} THEN "text" ELSE "call"]
  /\ rest' = [rest EXCEPT ![r] = IF used = {} THEN <<Head(list[r])>> ELSE <<>>]

(* The values are read: the payload made the bytecode CALL the subroutines *)
(* of used (DISPATCH chooses), or is done.                                 *)
Interpret(r, used) ==
  /\ calls' = [calls EXCEPT ![r] = used]
  /\ at' = [at EXCEPT ![r] = IF used = {} THEN "text" ELSE "call"]
  /\ rest' = [rest EXCEPT ![r] = IF used = {} THEN list[r] ELSE <<>>]

(* databases.iter().find_map(...) over all_events().                       *)
FindEvent(r) ==
  /\ at[r] = "find"
  /\ \E e \in db[Asked(r)].events :
       /\ e.tag = frame[r]
       /\ entry' = [entry EXCEPT ![r] = e]
       /\ \E used \in SUBSET Callee[e.bytecode] : Interpret(r, used)
  /\ home' = [home EXCEPT ![r] = Asked(r)]
  /\ UNCHANGED <<list, frame, failed, shown>>

(* Mutant: a subroutine is looked up in the first database.                *)
NoSubroutineInFirst(r) ==
  /\ at[r] = "call"
  /\ \E t \in calls[r] :
       NextLine(r, IF \E g \in db[Head(list[r])].events : g.tag = t THEN "idle" ELSE "broken")
  /\ UNCHANGED shown

(* lookup_bytecode, in the database that the event is from.                *)
CallEvent(r) ==
  /\ at[r] = "call"
  /\ \E t \in calls[r], g \in db[home[r]].events :
       /\ g.tag = t
       /\ \E used \in SUBSET Callee[g.bytecode] :
            Interpret(r, (calls[r] \ {t}) \cup used)
  /\ UNCHANGED <<list, frame, entry, home, failed, shown>>

(* It returns an error: the SELECT fails, or there is no such event.       *)
NoSubroutine(r) ==
  /\ at[r] = "call"
  /\ \E t \in calls[r] :
       NextLine(r, IF \E g \in db[home[r]].events : g.tag = t THEN "idle" ELSE "broken")
  /\ UNCHANGED shown

(* The payload does not fit the bytecode.                                  *)
RejectPayload(r) ==
  /\ \/ at[r] = "find" /\ \E e \in db[Asked(r)].events : e.tag = frame[r]
     \/ at[r] = "call"
  /\ NextLine(r, "idle")
  /\ UNCHANGED shown

-----------------------------------------------------------------------------
Lines == [tag : Tag, full_hash : FullHash, text : Content \cup {NoFormat}]

Line(r, text) ==
  [tag |-> frame[r], full_hash |-> entry[r].full_hash, text |-> text]

(* databases.iter().find_map(...) over lookup_string().                    *)
PrintFormatted(r) ==
  /\ at[r] = "text"
  /\ \E s \in db[Asked(r)].strings :
       /\ s.hash = entry[r].format_hash
       /\ shown' = [shown EXCEPT ![r] = @ \cup {Line(r, s.content)}]
  /\ NextLine(r, "idle")

(* An unknown tag is skipped; fallback_join prints values without a text.  *)
SkipFrame(r) ==
  /\ NextLine(r, "idle")
  /\ UNCHANGED shown

PrintValues(r, fails) ==
  /\ NextLine(r, IF fails \/ entry[r].format_hash = NoFormat THEN "idle" ELSE "unformatted")
  /\ shown' = IF fails THEN shown ELSE [shown EXCEPT ![r] = @ \cup {Line(r, NoFormat)}]

(* A SELECT that fails, for a lock held too long or an I/O error, is a     *)
(* database that does not know (.ok()).                                    *)
NoEvent(r) ==
  /\ at[r] = "find"
  /\ IF More(r) THEN AskNext(r, FALSE) ELSE SkipFrame(r)

NoString(r, fails) ==
  /\ at[r] = "text"
  /\ fails \/ \A s \in db[Asked(r)].strings : s.hash # entry[r].format_hash
  /\ IF More(r) THEN AskNext(r, fails \/ failed[r]) ELSE PrintValues(r, fails \/ failed[r])

Decode(r) ==
  \/ \E t \in Sent : ReadFrame(r, t)
  \/ FindEvent(r) \/ NoEvent(r)
  \/ CallEvent(r) \/ NoSubroutine(r) \/ RejectPayload(r)
  \/ PrintFormatted(r) \/ \E fails \in BOOLEAN : NoString(r, fails)

ReaderNext ==
  \/ ExportNext /\ UNCHANGED readerVars
  \/ (\E r \in Reader : Decode(r)) /\ UNCHANGED exportVars

ReaderSpec == ReaderInit /\ [][ReaderNext]_<<exportVars, readerVars>>

-----------------------------------------------------------------------------
(* Properties.                                                             *)

(* Every variable stays in its range; a database is left to be asked while *)
(* one is looked up in, and a subroutine while one is CALLed.              *)
ReaderTypeOK ==
  /\ ExportTypeOK
  /\ at \in [Reader -> FrameDone \cup {"find", "call", "text"}]
  /\ list \in [Reader -> Databases]
  /\ rest \in [Reader -> Seq(Db)]
  /\ frame \in [Reader -> Tag \cup {None}]
  /\ entry \in [Reader -> EventEntry \cup {None}]
  /\ home \in [Reader -> Db \cup {None}]
  /\ calls \in [Reader -> SUBSET Tag]
  /\ failed \in [Reader -> BOOLEAN]
  /\ shown \in [Reader -> SUBSET Lines]
  /\ \A r \in Reader :
       /\ rest[r] # <<>> <=> at[r] \in {"find", "text"}
       /\ calls[r] # {} <=> at[r] = "call"
       /\ entry[r] # None <=> at[r] \in {"call", "text"}
       /\ frame[r] = None <=> at[r] \in FrameDone
       /\ failed[r] => at[r] = "text"

(* A frame whose tag is known is decoded in full unless a SELECT fails:    *)
(* every subroutine it CALLs and the string of its event are found, in     *)
(* SELECTs made after the one that found it (decode.rs:78-137).            *)
KnownEventsDecode == \A r \in Reader : at[r] \notin {"broken", "unformatted"}

Given(r) == {list[r][i] : i \in DOMAIN list[r]}

(* No two of the databases contradict each other.                          *)
Agreeing(D) ==
  \A c, d \in D :
    /\ \A e \in db[c].events, f \in db[d].events :
         e.tag = f.tag => e.full_hash = f.full_hash
    /\ \A s \in db[c].strings, u \in db[d].strings :
         s.hash = u.hash => s.content = u.content

(* A decoder whose databases do not contradict each other prints all the   *)
(* frames of a tag as one type with one text, whichever of the databases   *)
(* came to know the tag or its string while it ran (decode.rs:78, 122).    *)
OneTagOneText ==
  \A r \in Reader : Agreeing(Given(r)) =>
    \A a, b \in shown[r] : a.tag = b.tag => a = b
=============================================================================
