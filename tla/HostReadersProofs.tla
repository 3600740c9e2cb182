-------------------------- MODULE HostReadersProofs --------------------------
(***************************************************************************)
(* Proofs about HostReaders, for any number of decoders, writers and       *)
(* databases: an event that is found is decoded in full, and databases     *)
(* that agree give every frame of a tag one text.                          *)
(***************************************************************************)
EXTENDS HostReaders, CompanionExportProofs, SequenceTheorems

Elements(s) == {s[i] : i \in DOMAIN s}

(* Every row of a database came with a build.                              *)
OriginInv == \A d \in Db : \A e \in db[d].events : \E B \in Image : e \in B.events

(* The event in hand is a row of the database it is from, which has the    *)
(* subroutines to be CALLed; while the event's format string is looked for *)
(* and no SELECT has failed, that database is still to be asked.           *)
HandInv(r) ==
  /\ \A t \in calls[r] : \E g \in db[home[r]].events : g.tag = t
  /\ Elements(rest[r]) \subseteq Given(r)
  /\ entry[r] # None =>
       /\ home[r] \in Given(r)
       /\ entry[r] \in db[home[r]].events
       /\ entry[r].tag = frame[r]
  /\ at[r] = "text" /\ ~failed[r] /\ entry[r].format_hash # NoFormat =>
       home[r] \in Elements(rest[r])
  /\ at[r] \notin {"broken", "unformatted"}

(* A line is that of an event and a string of the databases.               *)
Rendered(a, e, D) ==
  /\ a.tag = e.tag
  /\ a.full_hash = e.full_hash
  /\ \/ e.format_hash = NoFormat /\ a.text = NoFormat
     \/ \E d \in D : \E s \in db[d].strings :
          e.format_hash = s.hash /\ a.text = s.content

ShownInv(r) ==
  \A a \in shown[r] : \E d \in Given(r) : \E e \in db[d].events :
    Rendered(a, e, Given(r))

ReaderInv ==
  /\ ClosedInv
  /\ OriginInv
  /\ ReaderTypeOK
  /\ \A r \in Reader : HandInv(r) /\ ShownInv(r)

-----------------------------------------------------------------------------
(* The list of databases.                                                  *)

LEMMA Pops ==
  ASSUME NEW S, NEW s \in Seq(S), s # <<>>
  PROVE  /\ Head(s) \in Elements(s)
         /\ Tail(s) \in Seq(S)
         /\ Elements(s) = {Head(s)} \cup Elements(Tail(s))
         /\ Tail(s) = <<>> => Elements(s) = {Head(s)}
<1>1. /\ Tail(s) \in Seq(S)
      /\ Len(Tail(s)) = Len(s) - 1
      /\ \A i \in 1 .. Len(Tail(s)) : Tail(s)[i] = s[i+1]
  BY HeadTailProperties
<1>2. Len(s) \in Nat \ {0} /\ DOMAIN s = 1 .. Len(s) /\ Head(s) = s[1]
  BY EmptySeq
<1>3. DOMAIN Tail(s) = 1 .. Len(s) - 1
  BY <1>1
<1>4. Head(s) \in Elements(s)
  BY <1>2 DEF Elements
<1>5. ASSUME NEW i \in DOMAIN s
      PROVE  s[i] \in {Head(s)} \cup Elements(Tail(s))
  <2>1. CASE i = 1
    BY <1>2, <2>1
  <2>2. CASE i # 1
    <3>1. i - 1 \in 1 .. Len(s) - 1 /\ (i - 1) + 1 = i
      BY <1>2, <2>2
    <3>2. Tail(s)[i - 1] = s[i]
      BY <1>1, <3>1
    <3> QED
      BY <1>3, <3>1, <3>2 DEF Elements
  <2> QED
    BY <2>1, <2>2
<1>6. ASSUME NEW i \in DOMAIN Tail(s)
      PROVE  Tail(s)[i] \in Elements(s)
  <2>1. i + 1 \in DOMAIN s /\ Tail(s)[i] = s[i + 1]
    BY <1>1, <1>2, <1>3
  <2> QED
    BY <2>1 DEF Elements
<1>7. Elements(s) = {Head(s)} \cup Elements(Tail(s))
  BY <1>4, <1>5, <1>6 DEF Elements
<1>8. ASSUME Tail(s) = <<>>
      PROVE  Elements(Tail(s)) = {}
  BY <1>8 DEF Elements
<1> QED
  BY <1>1, <1>4, <1>7, <1>8

(* What is known of a decoder's databases.                                 *)
LEMMA GivenFacts ==
  ASSUME ReaderTypeOK, NEW r \in Reader
  PROVE  /\ list[r] \in Seq(Db) /\ list[r] # <<>>
         /\ Given(r) = Elements(list[r])
         /\ Given(r) \subseteq Db
<1>1. list[r] \in Seq(Db) /\ list[r] # <<>>
  BY ReaderAssumption DEF ReaderTypeOK
<1>2. Given(r) = Elements(list[r])
  BY DEF Given, Elements
<1>3. Given(r) \subseteq Db
  BY <1>1, ElementOfSeq DEF Given
<1> QED
  BY <1>1, <1>2, <1>3

(* A decoder that looks something up has a database to ask.                *)
LEMMA AskedFacts ==
  ASSUME ReaderTypeOK, NEW r \in Reader, HandInv(r), at[r] \in {"find", "text"}
  PROVE  /\ rest[r] \in Seq(Db) /\ rest[r] # <<>>
         /\ Asked(r) \in Given(r) /\ Asked(r) \in Db
         /\ Elements(rest[r]) = {Asked(r)} \cup Elements(Tail(rest[r]))
         /\ Tail(rest[r]) \in Seq(Db)
         /\ ~More(r) => Elements(rest[r]) = {Asked(r)}
<1>1. rest[r] \in Seq(Db) /\ rest[r] # <<>>
  BY DEF ReaderTypeOK
<1>2. Elements(rest[r]) \subseteq Given(r) /\ Given(r) \subseteq Db
  BY GivenFacts DEF HandInv
<1> QED
  BY <1>1, <1>2, Pops DEF Asked, More

-----------------------------------------------------------------------------
(* The writers.  Rows only come, so what a decoder has seen is still there. *)

LEMMA OriginStep ==
  ASSUME TypeOK, RequestInv, OriginInv, NEW p \in Proc, StepOf(p)
  PROVE  OriginInv'
<1> USE DEF TypeOK, RequestInv, OriginInv
<1>1. CASE db' = db
  BY <1>1
<1>2. ASSUME Committed(p)
      PROVE  OriginInv'
  <2> DEFINE d == target[p]
             U == Updated(db[d], request[p])
  <2>1. d \in Db /\ request[p] \in Image
    BY <1>2 DEF Committed, Accept
  <2>2. \A e \in U.events : e \in db[d].events \/ e \in request[p].events
    BY DEF Updated
  <2>3. db' = [db EXCEPT ![d] = U]
    BY <1>2 DEF Committed
  <2> HIDE DEF U
  <2>4. db'[d] = U /\ \A c \in Db \ {d} : db'[c] = db[c]
    BY <2>1, <2>3
  <2> QED
    BY <2>1, <2>2, <2>4
<1> QED
  BY <1>1, <1>2 DEF StepOf, Command, StartCommand, Submit, EndIngest, EndMerge, RefuseBatch,
     Reject, Export, ReadEvents, ReadStrings, Truncate, Write, Abort, Fail, vars

LEMMA WriterStep ==
  ASSUME ReaderInv, NEW p \in Proc, StepOf(p), ClosedInv', UNCHANGED readerVars
  PROVE  ReaderInv'
<1> USE DEF ReaderInv, readerVars
<1>1. Grows
  BY DbStep DEF ClosedInv, ExportTypeOK
<1>2. OriginInv'
  BY OriginStep DEF ClosedInv, ExportTypeOK
<1>3. ReaderTypeOK'
  BY DEF ReaderTypeOK, ClosedInv
<1>4. ASSUME NEW r \in Reader
      PROVE  HandInv(r)' /\ ShownInv(r)'
  <2>1. Given(r)' = Given(r) /\ Given(r) \subseteq Db
    BY GivenFacts DEF Given
  <2>2. \A d \in Db : /\ db[d].events \subseteq db'[d].events
                     /\ db[d].strings \subseteq db'[d].strings
    BY <1>1 DEF Grows, Within
  <2>3. calls[r] # {} => home[r] \in Given(r)
    BY DEF ReaderTypeOK, HandInv
  <2>4. HandInv(r)'
    BY <2>1, <2>2, <2>3 DEF HandInv
  <2>5. ASSUME NEW a, NEW e, Rendered(a, e, Given(r))
        PROVE  Rendered(a, e, Given(r))'
    BY <2>1, <2>2, <2>5 DEF Rendered
  <2>6. ShownInv(r)'
    BY <2>1, <2>2, <2>5 DEF ShownInv
  <2> QED
    BY <2>4, <2>6
<1> QED
  BY <1>2, <1>3, <1>4

-----------------------------------------------------------------------------
(* The decoders.                                                           *)

(* What a step of one decoder does to the variables of its own.            *)
Own(r) == <<at[r], list[r], rest[r], frame[r], entry[r], home[r], calls[r], failed[r], shown[r]>>

LEMMA OthersWait ==
  ASSUME ReaderTypeOK, NEW r \in Reader, NEW q \in Reader \ {r}, Decode(r)
  PROVE  Own(q)' = Own(q)
<1> USE DEF ReaderTypeOK, Own
<1>1. CASE \E t \in Sent : ReadFrame(r, t)
  BY <1>1 DEF ReadFrame
<1>2. CASE FindEvent(r) \/ CallEvent(r)
  BY <1>2 DEF FindEvent, CallEvent, Interpret
<1>3. CASE NoEvent(r) \/ NoSubroutine(r) \/ RejectPayload(r)
  BY <1>3 DEF NoEvent, NoSubroutine, RejectPayload, AskNext, SkipFrame, NextLine
<1>4. CASE PrintFormatted(r) \/ \E fails \in BOOLEAN : NoString(r, fails)
  BY <1>4 DEF PrintFormatted, NoString, AskNext, PrintValues, NextLine
<1> QED
  BY <1>1, <1>2, <1>3, <1>4 DEF Decode

(* The end of a frame without a line, or with one.                         *)
LEMMA FrameEnds ==
  ASSUME ReaderInv, NEW r \in Reader, NextLine(r, "idle"),
         NEW new \in SUBSET Lines, shown' = [shown EXCEPT ![r] = @ \cup new],
         \A a \in new : \E d \in Given(r) : \E e \in db[d].events : Rendered(a, e, Given(r)),
         UNCHANGED exportVars
  PROVE  ReaderTypeOK' /\ HandInv(r)' /\ ShownInv(r)'
<1> USE DEF ReaderInv, ReaderTypeOK
<1>1. ReaderTypeOK'
  <2>1. <<>> \in Seq(Db)
    BY EmptySeq
  <2>2. ExportTypeOK'
    BY DEF exportVars, vars, ExportTypeOK, TypeOK
  <2> QED
    BY <2>1, <2>2 DEF NextLine, FrameDone
<1>2. /\ at'[r] = "idle" /\ rest'[r] = <<>> /\ calls'[r] = {}
      /\ entry'[r] = None /\ list' = list /\ db' = db
      /\ shown'[r] = shown[r] \cup new
  BY DEF NextLine, exportVars, vars
<1>3. Given(r)' = Given(r)
  BY <1>2 DEF Given
<1>4. HandInv(r)'
  BY <1>2 DEF HandInv, Elements
<1>5. ShownInv(r)'
  <2>1. \A a \in shown'[r] : \E d \in Given(r) : \E e \in db[d].events : Rendered(a, e, Given(r))
    BY <1>2 DEF ShownInv
  <2>2. \A a, e : Rendered(a, e, Given(r)) => Rendered(a, e, Given(r))'
    BY <1>2, <1>3 DEF Rendered
  <2> QED
    BY <1>2, <1>3, <2>1, <2>2 DEF ShownInv
<1> QED
  BY <1>1, <1>4, <1>5

LEMMA FrameSkipped ==
  ASSUME ReaderInv, NEW r \in Reader, NextLine(r, "idle"), UNCHANGED shown,
         UNCHANGED exportVars
  PROVE  ReaderTypeOK' /\ HandInv(r)' /\ ShownInv(r)'
<1>1. shown' = [shown EXCEPT ![r] = @ \cup {}]
  BY DEF ReaderInv, ReaderTypeOK
<1>2. {} \in SUBSET Lines
  OBVIOUS
<1>3. \A a \in {} : \E d \in Given(r) : \E e \in db[d].events : Rendered(a, e, Given(r))
  OBVIOUS
<1> QED
  BY ONLY <1>1, <1>2, <1>3, FrameEnds, ReaderInv, r \in Reader, NextLine(r, "idle"), UNCHANGED exportVars

(* While a frame is in hand its lines stay what they were.                 *)
LEMMA LinesStay ==
  ASSUME NEW r \in Reader, ShownInv(r), list' = list, shown' = shown, db' = db
  PROVE  ShownInv(r)'
<1>1. Given(r)' = Given(r)
  BY DEF Given
<1>2. \A a, e : Rendered(a, e, Given(r)) => Rendered(a, e, Given(r))'
  BY <1>1 DEF Rendered
<1> QED
  BY <1>1, <1>2 DEF ShownInv

LEMMA ExportUnchanged ==
  ASSUME ReaderTypeOK, UNCHANGED exportVars
  PROVE  ExportTypeOK' /\ db' = db
BY DEF ReaderTypeOK, exportVars, vars, ExportTypeOK, TypeOK

(* The event found is a row whose subroutines are rows beside it.          *)
LEMMA CalleesKnown ==
  ASSUME ReaderInv, NEW d \in Db, NEW e \in db[d].events,
         NEW used \in SUBSET Callee[e.bytecode]
  PROVE  /\ used \in SUBSET Tag
         /\ \A t \in used : \E g \in db[d].events : g.tag = t
<1>1. e \in EventEntry
  BY DEF ReaderInv, ClosedInv, ExportTypeOK, TypeOK, Tables
<1>2. Callee[e.bytecode] \in SUBSET Tag
  BY <1>1, CalleeAssumption DEF EventEntry
<1>3. \A t \in used : \E g \in db[d].events : g.tag = t
  BY DEF ReaderInv, ClosedInv, ClosedDbInv, Closed
<1> QED
  BY <1>2, <1>3

LEMMA ReadFrameStep ==
  ASSUME ReaderInv, NEW r \in Reader, NEW t \in Sent, ReadFrame(r, t), UNCHANGED exportVars
  PROVE  ReaderTypeOK' /\ HandInv(r)' /\ ShownInv(r)'
<1> USE DEF ReaderInv, ReaderTypeOK
<1>1. list[r] \in Seq(Db) /\ list[r] # <<>> /\ Given(r) = Elements(list[r])
  BY GivenFacts
<1>2. ExportTypeOK' /\ db' = db
  BY ExportUnchanged
<1>3. t \in Tag /\ t # None
  BY ReaderAssumption
<1>4. entry[r] = None /\ calls[r] = {} /\ ~failed[r]
  BY DEF ReadFrame, FrameDone
<1>5. ReaderTypeOK'
  BY <1>1, <1>2, <1>3, <1>4 DEF ReadFrame, FrameDone
<1>6. Given(r)' = Given(r)
  BY DEF ReadFrame, Given
<1>7. at'[r] = "find" /\ rest'[r] = list[r] /\ entry'[r] = None /\ calls'[r] = {}
  BY <1>4 DEF ReadFrame
<1>8. HandInv(r)'
  BY <1>1, <1>6, <1>7 DEF HandInv
<1> QED
  BY <1>2, <1>5, <1>8, LinesStay DEF ReadFrame

LEMMA FindEventStep ==
  ASSUME ReaderInv, NEW r \in Reader, FindEvent(r), UNCHANGED exportVars
  PROVE  ReaderTypeOK' /\ HandInv(r)' /\ ShownInv(r)'
<1> USE DEF ReaderInv, ReaderTypeOK
<1>1. Asked(r) \in Given(r) /\ Asked(r) \in Db /\ Asked(r) # None
  BY AskedFacts, ReaderAssumption DEF FindEvent
<1>2. list[r] \in Seq(Db) /\ list[r] # <<>> /\ Given(r) = Elements(list[r])
  BY GivenFacts
<1>3. ExportTypeOK' /\ db' = db
  BY ExportUnchanged
<1>4. PICK e \in db[Asked(r)].events :
        /\ e.tag = frame[r]
        /\ entry' = [entry EXCEPT ![r] = e]
        /\ \E used \in SUBSET Callee[e.bytecode] : Interpret(r, used)
  BY DEF FindEvent
<1>5. PICK used \in SUBSET Callee[e.bytecode] : Interpret(r, used)
  BY <1>4
<1>6. e \in EventEntry /\ e # None
  BY <1>1, ReaderAssumption DEF ClosedInv, ExportTypeOK, TypeOK, Tables
<1>7. /\ used \in SUBSET Tag
      /\ \A t \in used : \E g \in db[Asked(r)].events : g.tag = t
  BY <1>1, CalleesKnown
<1>8. <<>> \in Seq(Db) /\ Elements(<<>>) = {}
  BY EmptySeq DEF Elements
<1>9. /\ at[r] = "find" /\ ~failed[r] /\ frame[r] # None
      /\ home' = [home EXCEPT ![r] = Asked(r)]
      /\ UNCHANGED <<list, frame, failed, shown>>
  BY DEF FindEvent, FrameDone
<1>10. ReaderTypeOK'
  BY <1>1, <1>2, <1>3, <1>4, <1>5, <1>6, <1>7, <1>8, <1>9 DEF Interpret, FrameDone
<1>11. Given(r)' = Given(r)
  BY <1>9 DEF Given
<1>12. /\ calls'[r] = used /\ entry'[r] = e /\ home'[r] = Asked(r) /\ frame'[r] = frame[r]
       /\ at'[r] = IF used = {} THEN "text" ELSE "call"
       /\ rest'[r] = IF used = {} THEN list[r] ELSE <<>>
  BY <1>4, <1>5, <1>9 DEF Interpret
<1>13. HandInv(r)'
  BY <1>1, <1>2, <1>3, <1>4, <1>7, <1>8, <1>11, <1>12 DEF HandInv
<1> QED
  BY <1>3, <1>9, <1>10, <1>13, LinesStay

LEMMA CallEventStep ==
  ASSUME ReaderInv, NEW r \in Reader, CallEvent(r), UNCHANGED exportVars
  PROVE  ReaderTypeOK' /\ HandInv(r)' /\ ShownInv(r)'
<1> USE DEF ReaderInv, ReaderTypeOK
<1>1. /\ at[r] = "call" /\ ~failed[r] /\ frame[r] # None /\ entry[r] # None
      /\ UNCHANGED <<list, frame, entry, home, failed, shown>>
  BY DEF CallEvent, FrameDone
<1>2. list[r] \in Seq(Db) /\ list[r] # <<>> /\ Given(r) = Elements(list[r])
      /\ Given(r) \subseteq Db
  BY GivenFacts
<1>3. ExportTypeOK' /\ db' = db
  BY ExportUnchanged
<1>4. home[r] \in Given(r) /\ home[r] \in Db
  BY <1>1, <1>2 DEF HandInv
<1>5. PICK t \in calls[r], g \in db[home[r]].events :
        \E used \in SUBSET Callee[g.bytecode] : Interpret(r, (calls[r] \ {t}) \cup used)
  BY DEF CallEvent
<1>6. PICK used \in SUBSET Callee[g.bytecode] : Interpret(r, (calls[r] \ {t}) \cup used)
  BY <1>5
<1> DEFINE left == (calls[r] \ {t}) \cup used
<1>7. /\ left \in SUBSET Tag
      /\ \A u \in left : \E f \in db[home[r]].events : f.tag = u
  BY <1>4, CalleesKnown DEF HandInv
<1>8. <<>> \in Seq(Db) /\ Elements(<<>>) = {}
  BY EmptySeq DEF Elements
<1>9. Interpret(r, left)
  BY <1>6
<1> HIDE DEF left
<1>10. ReaderTypeOK'
  BY <1>1, <1>2, <1>3, <1>7, <1>8, <1>9 DEF Interpret, FrameDone
<1>11. Given(r)' = Given(r)
  BY <1>1 DEF Given
<1>12. /\ calls'[r] = left
       /\ at'[r] = IF left = {} THEN "text" ELSE "call"
       /\ rest'[r] = IF left = {} THEN list[r] ELSE <<>>
  BY <1>9 DEF Interpret
<1>13. HandInv(r)'
  BY <1>1, <1>2, <1>3, <1>4, <1>7, <1>8, <1>11, <1>12 DEF HandInv
<1> QED
  BY <1>1, <1>3, <1>10, <1>13, LinesStay

LEMMA NoEventStep ==
  ASSUME ReaderInv, NEW r \in Reader, NoEvent(r), UNCHANGED exportVars
  PROVE  ReaderTypeOK' /\ HandInv(r)' /\ ShownInv(r)'
<1>1. CASE ~More(r)
  BY <1>1, FrameSkipped DEF NoEvent, SkipFrame
<1>2. CASE More(r)
  <2> USE DEF ReaderInv, ReaderTypeOK
  <2>1. /\ Tail(rest[r]) \in Seq(Db) /\ Tail(rest[r]) # <<>>
        /\ Elements(Tail(rest[r])) \subseteq Elements(rest[r])
    BY <1>2, AskedFacts DEF NoEvent, More
  <2>2. /\ at[r] = "find" /\ ~failed[r] /\ entry[r] = None
        /\ rest' = [rest EXCEPT ![r] = Tail(@)]
        /\ failed' = [failed EXCEPT ![r] = FALSE]
        /\ UNCHANGED <<at, list, frame, entry, home, calls, shown>>
    BY <1>2 DEF NoEvent, AskNext
  <2>3. ExportTypeOK' /\ db' = db
    BY ExportUnchanged
  <2>4. ReaderTypeOK'
    BY <2>1, <2>2, <2>3 DEF FrameDone
  <2>5. Given(r)' = Given(r) /\ rest'[r] = Tail(rest[r])
    BY <2>2 DEF Given
  <2>6. HandInv(r)'
    BY <2>1, <2>2, <2>3, <2>5 DEF HandInv
  <2> QED
    BY <2>2, <2>3, <2>4, <2>6, LinesStay
<1> QED
  BY <1>1, <1>2

(* A subroutine is missing from no database that has its caller.           *)
LEMMA NoSubroutineStep ==
  ASSUME ReaderInv, NEW r \in Reader, NoSubroutine(r), UNCHANGED exportVars
  PROVE  ReaderTypeOK' /\ HandInv(r)' /\ ShownInv(r)'
<1>1. NextLine(r, "idle") /\ UNCHANGED shown
  BY DEF ReaderInv, HandInv, NoSubroutine
<1> QED
  BY <1>1, FrameSkipped

LEMMA RejectPayloadStep ==
  ASSUME ReaderInv, NEW r \in Reader, RejectPayload(r), UNCHANGED exportVars
  PROVE  ReaderTypeOK' /\ HandInv(r)' /\ ShownInv(r)'
BY FrameSkipped DEF RejectPayload

LEMMA PrintFormattedStep ==
  ASSUME ReaderInv, NEW r \in Reader, PrintFormatted(r), UNCHANGED exportVars
  PROVE  ReaderTypeOK' /\ HandInv(r)' /\ ShownInv(r)'
<1> USE DEF ReaderInv, ReaderTypeOK
<1>1. at[r] = "text" /\ NextLine(r, "idle")
  BY DEF PrintFormatted
<1>2. PICK s \in db[Asked(r)].strings :
        /\ s.hash = entry[r].format_hash
        /\ shown' = [shown EXCEPT ![r] = @ \cup {Line(r, s.content)}]
  BY DEF PrintFormatted
<1>3. Asked(r) \in Given(r) /\ Asked(r) \in Db
  BY <1>1, AskedFacts
<1>4. entry[r] \in EventEntry /\ frame[r] \in Tag
  BY <1>1 DEF FrameDone
<1>5. s \in StringEntry
  BY <1>3 DEF ClosedInv, ExportTypeOK, TypeOK, Tables
<1> DEFINE a == Line(r, s.content)
<1>6. {a} \in SUBSET Lines
  BY <1>4, <1>5 DEF Line, Lines, EventEntry, StringEntry
<1>7. /\ home[r] \in Given(r)
      /\ entry[r] \in db[home[r]].events
      /\ entry[r].tag = frame[r]
  BY <1>1 DEF HandInv
<1>8. Rendered(a, entry[r], Given(r))
  BY <1>2, <1>3, <1>7 DEF Rendered, Line
<1> HIDE DEF a
<1>9. \A b \in {a} : \E d \in Given(r) : \E e \in db[d].events : Rendered(b, e, Given(r))
  BY <1>7, <1>8
<1>10. shown' = [shown EXCEPT ![r] = @ \cup {a}]
  BY <1>2 DEF a
<1> QED
  BY <1>1, <1>6, <1>9, <1>10, FrameEnds

(* No database has the string only if the event has none or a SELECT fails. *)
LEMMA NoStringStep ==
  ASSUME ReaderInv, NEW r \in Reader, NEW fails \in BOOLEAN, NoString(r, fails),
         UNCHANGED exportVars
  PROVE  ReaderTypeOK' /\ HandInv(r)' /\ ShownInv(r)'
<1> USE DEF ReaderInv, ReaderTypeOK
<1> DEFINE failing == fails \/ failed[r]
<1>1. at[r] = "text" /\ entry[r] # None /\ calls[r] = {} /\ frame[r] # None
  BY DEF NoString, FrameDone
<1>2. /\ home[r] \in Given(r) /\ home[r] \in Db
      /\ entry[r] \in db[home[r]].events
      /\ entry[r].tag = frame[r]
  BY <1>1, GivenFacts DEF HandInv
<1>3. ~failing /\ entry[r].format_hash # NoFormat => home[r] # Asked(r)
  <2>1. entry[r].format_hash # NoFormat =>
          \E s \in db[home[r]].strings : s.hash = entry[r].format_hash
    BY <1>2 DEF ClosedInv, ClosedDbInv, Closed
  <2>2. ~failing => \A s \in db[Asked(r)].strings : s.hash # entry[r].format_hash
    BY DEF NoString
  <2> QED
    BY <2>1, <2>2
<1>4. CASE More(r)
  <2>1. /\ Tail(rest[r]) \in Seq(Db) /\ Tail(rest[r]) # <<>>
        /\ Elements(rest[r]) = {Asked(r)} \cup Elements(Tail(rest[r]))
    BY <1>1, <1>4, AskedFacts DEF More
  <2>2. /\ rest' = [rest EXCEPT ![r] = Tail(@)]
        /\ failed' = [failed EXCEPT ![r] = failing]
        /\ UNCHANGED <<at, list, frame, entry, home, calls, shown>>
    BY <1>4 DEF NoString, AskNext
  <2>3. ExportTypeOK' /\ db' = db
    BY ExportUnchanged
  <2>4. ReaderTypeOK'
    BY <1>1, <2>1, <2>2, <2>3 DEF FrameDone
  <2>5. Given(r)' = Given(r) /\ rest'[r] = Tail(rest[r]) /\ failed'[r] = failing
    BY <2>2 DEF Given
  <2>6. HandInv(r)'
    <3>1. ASSUME entry[r].format_hash # NoFormat, ~failing
          PROVE  home[r] \in Elements(Tail(rest[r]))
      BY <1>1, <1>3, <2>1, <3>1 DEF HandInv
    <3>2. Elements(rest'[r]) \subseteq Given(r)'
      BY <2>1, <2>5 DEF HandInv
    <3> QED
      BY <1>1, <1>2, <2>2, <2>3, <2>5, <3>1, <3>2 DEF HandInv
  <2> QED
    BY <2>2, <2>3, <2>4, <2>6, LinesStay
<1>5. CASE ~More(r)
  <2>1. Elements(rest[r]) = {Asked(r)}
    BY <1>1, <1>5, AskedFacts
  <2>2. failing \/ entry[r].format_hash = NoFormat
    BY <1>1, <1>3, <2>1 DEF HandInv
  <2>3. /\ NextLine(r, "idle")
        /\ shown' = IF failing THEN shown ELSE [shown EXCEPT ![r] = @ \cup {Line(r, NoFormat)}]
    BY <1>5, <2>2 DEF NoString, PrintValues
  <2>4. CASE failing
    BY <2>3, <2>4, FrameSkipped
  <2>5. CASE ~failing
    <3> DEFINE a == Line(r, NoFormat)
    <3>1. entry[r] \in EventEntry /\ frame[r] \in Tag
      BY <1>1
    <3>2. {a} \in SUBSET Lines
      BY <3>1 DEF Line, Lines, EventEntry
    <3>3. Rendered(a, entry[r], Given(r))
      BY <1>2, <2>2, <2>5 DEF Rendered, Line
    <3>4. shown' = [shown EXCEPT ![r] = @ \cup {a}]
      BY <2>3, <2>5
    <3> HIDE DEF a
    <3>5. \A b \in {a} : \E d \in Given(r) : \E e \in db[d].events : Rendered(b, e, Given(r))
      BY <1>2, <3>3
    <3> QED
      BY <2>3, <3>2, <3>4, <3>5, FrameEnds
  <2> QED
    BY <2>4, <2>5
<1> QED
  BY <1>4, <1>5

-----------------------------------------------------------------------------
(* The invariant and what it shows.                                        *)

LEMMA DecodeStep ==
  ASSUME ReaderInv, NEW r \in Reader, Decode(r), UNCHANGED exportVars
  PROVE  ReaderInv'
<1>1. ReaderTypeOK' /\ HandInv(r)' /\ ShownInv(r)'
  BY ReadFrameStep, FindEventStep, NoEventStep, CallEventStep, NoSubroutineStep,
     RejectPayloadStep, PrintFormattedStep, NoStringStep DEF Decode
<1>2. ASSUME NEW q \in Reader \ {r}
      PROVE  HandInv(q)' /\ ShownInv(q)'
  <2>1. /\ at'[q] = at[q] /\ list'[q] = list[q] /\ rest'[q] = rest[q]
        /\ frame'[q] = frame[q] /\ entry'[q] = entry[q] /\ home'[q] = home[q]
        /\ calls'[q] = calls[q] /\ failed'[q] = failed[q] /\ shown'[q] = shown[q]
    BY OthersWait DEF Own, ReaderInv
  <2>2. db' = db /\ Given(q)' = Given(q)
    BY <2>1 DEF Given, exportVars, vars
  <2>3. HandInv(q)'
    BY <2>1, <2>2 DEF HandInv, ReaderInv
  <2>4. \A a, e : Rendered(a, e, Given(q)) => Rendered(a, e, Given(q))'
    BY <2>2 DEF Rendered
  <2>5. ShownInv(q)'
    BY <2>1, <2>2, <2>4 DEF ShownInv, ReaderInv
  <2> QED
    BY <2>3, <2>5
<1>3. ClosedInv' /\ OriginInv'
  <2>1. ClosedInv'
    BY ClosedStep DEF ReaderInv
  <2> QED
    BY <2>1 DEF OriginInv, ReaderInv, exportVars, vars
<1> QED
  BY <1>1, <1>2, <1>3 DEF ReaderInv

LEMMA ReaderInitial == ReaderInit => ReaderInv
<1> SUFFICES ASSUME ReaderInit
             PROVE  ReaderInv
  OBVIOUS
<1>1. ClosedInv
  BY ClosedInit DEF ReaderInit
<1>2. OriginInv
  BY DEF ReaderInit, ExportInit, Init, EmptyTables, OriginInv
<1>3. ReaderTypeOK
  BY <1>1, EmptySeq DEF ReaderInit, ReaderTypeOK, ClosedInv, FrameDone
<1>4. \A r \in Reader : HandInv(r) /\ ShownInv(r)
  BY DEF ReaderInit, HandInv, ShownInv, Elements
<1> QED
  BY <1>1, <1>2, <1>3, <1>4 DEF ReaderInv

LEMMA ReaderStep ==
  ReaderInv /\ [ReaderNext]_<<exportVars, readerVars>> => ReaderInv'
<1> SUFFICES ASSUME ReaderInv, [ReaderNext]_<<exportVars, readerVars>>
             PROVE  ReaderInv'
  OBVIOUS
<1>1. ASSUME ExportNext, UNCHANGED readerVars
      PROVE  ReaderInv'
  <2>1. ClosedInv'
    BY <1>1, ClosedStep DEF ReaderInv
  <2>2. PICK p \in Proc : StepOf(p)
    BY <1>1 DEF ExportNext, StepOf
  <2> QED
    BY <1>1, <2>1, <2>2, WriterStep
<1>2. ASSUME NEW r \in Reader, Decode(r), UNCHANGED exportVars
      PROVE  ReaderInv'
  BY <1>2, DecodeStep
<1>3. CASE UNCHANGED <<exportVars, readerVars>>
  <2>1. ClosedInv'
    BY <1>3, ClosedStep DEF ReaderInv
  <2>2. /\ db' = db
        /\ UNCHANGED <<at, list, rest, frame, entry, home, calls, failed, shown>>
    BY <1>3 DEF readerVars, exportVars, vars
  <2>3. OriginInv' /\ ReaderTypeOK'
    BY <2>1, <2>2 DEF ReaderInv, ClosedInv, OriginInv, ReaderTypeOK
  <2>4. ASSUME NEW r \in Reader
        PROVE  HandInv(r)' /\ ShownInv(r)'
    <3>1. HandInv(r)'
      BY <2>2 DEF ReaderInv, HandInv, Given
    <3> QED
      BY <2>2, <3>1, LinesStay DEF ReaderInv
  <2> QED
    BY <2>1, <2>3, <2>4 DEF ReaderInv
<1> QED
  BY <1>1, <1>2, <1>3 DEF ReaderNext

LEMMA ReaderInvariance == ReaderSpec => []ReaderInv
  BY ReaderInitial, ReaderStep, PTL DEF ReaderSpec

(* The decoders' variables keep their types, and a decoder that looks      *)
(* something up never runs past the end of its databases.                  *)
THEOREM ReadersTypeCorrect == ReaderSpec => []ReaderTypeOK
  BY ReaderInvariance, PTL DEF ReaderInv

(* A frame whose tag a database knows is decoded in full unless a SELECT   *)
(* fails, however the databases grow meanwhile (decode.rs:78-137).         *)
THEOREM KnownEventsAreDecoded == ReaderSpec => []KnownEventsDecode
<1>1. ReaderInv => KnownEventsDecode
  BY DEF ReaderInv, HandInv, KnownEventsDecode
<1> QED
  BY <1>1, ReaderInvariance, PTL

(* Databases that agree give all frames of a tag one type and one text,    *)
(* whichever of them came to know the tag first (decode.rs:78, 122).       *)
THEOREM TagsHaveOneText == ReaderSpec => []OneTagOneText
<1>1. ASSUME ReaderInv, NEW r \in Reader, Agreeing(Given(r)),
             NEW a \in shown[r], NEW b \in shown[r], a.tag = b.tag
      PROVE  a = b
  <2> USE DEF ReaderInv
  <2>1. PICK c \in Given(r) : \E e \in db[c].events : Rendered(a, e, Given(r))
    BY <1>1 DEF ShownInv
  <2>2. PICK e \in db[c].events : Rendered(a, e, Given(r))
    BY <2>1
  <2>3. PICK d \in Given(r) : \E f \in db[d].events : Rendered(b, f, Given(r))
    BY <1>1 DEF ShownInv
  <2>4. PICK f \in db[d].events : Rendered(b, f, Given(r))
    BY <2>3
  <2>5. e.full_hash = f.full_hash
    <3>1. e.tag = f.tag
      BY <1>1, <2>2, <2>4 DEF Rendered
    <3>2. \A x \in db[c].events, y \in db[d].events : x.tag = y.tag => x.full_hash = y.full_hash
      BY <1>1 DEF Agreeing
    <3> QED
      BY <3>1, <3>2
  <2>6. c \in Db /\ d \in Db
    BY <1>1, GivenFacts
  <2>7. e.format_hash = f.format_hash
    BY <1>1, <2>5, <2>6, ReaderAssumption DEF OriginInv
  <2>8. \A x \in Given(r) : \A s \in db[x].strings : s.hash # NoFormat
    BY <1>1, GivenFacts, ReaderAssumption
       DEF ClosedInv, ExportTypeOK, TypeOK, Tables, StringEntry
  <2>9. a.text = b.text
    BY <1>1, <2>2, <2>4, <2>7, <2>8 DEF Rendered, Agreeing
  <2>10. a.full_hash = b.full_hash
    BY <2>2, <2>4, <2>5 DEF Rendered
  <2>11. a \in Lines /\ b \in Lines
    BY <1>1 DEF ReaderTypeOK
  <2> QED
    BY <1>1, <2>9, <2>10, <2>11 DEF Lines
<1>2. ReaderInv => OneTagOneText
  BY <1>1 DEF OneTagOneText
<1> QED
  BY <1>2, ReaderInvariance, PTL
=============================================================================
