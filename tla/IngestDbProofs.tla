---------------------------- MODULE IngestDbProofs ----------------------------
(***************************************************************************)
(* Proofs about IngestDb, for any number of processes, files and builds.   *)
(***************************************************************************)
EXTENDS IngestDb, TLAPS

LEMMA ParsesAreBatches ==
  ASSUME NEW b \in Build, NEW B \in Parses(b)
  PROVE  /\ B \in Batch
         /\ B.events \in FirstPerTag(Emitted[b].events)
         /\ B.strings \in FirstPerHash(Emitted[b].strings)
  BY EmittedAssumption DEF Parses, FirstPerTag, FirstPerHash, Batch

(* One step of the program keeps every variable in its type.               *)
LEMMA TypeStep == TypeOK /\ [Next]_vars => TypeOK'
<1> SUFFICES ASSUME TypeOK, [Next]_vars
             PROVE  TypeOK'
  OBVIOUS
<1> USE DEF TypeOK, Phase, Finished, MergePhase, TxPhase, locks
<1>1. ASSUME NEW p \in Proc, NEW b \in Build, NEW d \in Db, StartIngest(p, b, d)
      PROVE  TypeOK'
  <2>1. PICK B \in Parses(b) : batch' = [batch EXCEPT ![p] = B]
    BY <1>1 DEF StartIngest
  <2>2. B \in Batch
    BY ParsesAreBatches
  <2>3. batch' \in [Proc -> Batch]
    BY <2>1, <2>2
  <2> QED
    BY <1>1, <2>3 DEF StartIngest
<1>2. ASSUME NEW p \in Proc, NEW s \in Db, NEW d \in Db, StartMerge(p, s, d)
      PROVE  TypeOK'
  BY <1>2, EmittedAssumption DEF StartMerge, NoBatch, Batch
<1>3. ASSUME NEW p \in Proc, ReadEvents(p) \/ ReadStrings(p)
      PROVE  TypeOK'
  <2>1. batch[p] \in Batch /\ db[source[p]] \in Tables
    OBVIOUS
  <2>2. /\ [batch[p] EXCEPT !.events = db[source[p]].events] \in Batch
        /\ [batch[p] EXCEPT !.strings = db[source[p]].strings] \in Batch
    BY <2>1 DEF Batch, Tables
  <2>3. batch' \in [Proc -> Batch]
    BY <1>3, <2>2 DEF ReadEvents, ReadStrings
  <2> QED
    BY <1>3, <2>3 DEF ReadEvents, ReadStrings
<1>5. ASSUME NEW p \in Proc, Begin(p)
      PROVE  TypeOK'
  BY <1>5 DEF Begin
<1>6. ASSUME NEW p \in Proc, NEW s \in batch[p].strings,
             SkipString(p, s) \/ InsertString(p, s)
      PROVE  TypeOK'
  <2>1. s \in StringEntry
    BY DEF Batch
  <2>2. [seen[p] EXCEPT !.strings = @ \cup {s}]
          \in [events : SUBSET EventEntry, strings : SUBSET StringEntry]
    BY <2>1
  <2>3. WithString(view[p], s) \in Tables
    BY <2>1 DEF WithString, Tables
  <2>4. seen' \in [Proc -> [events : SUBSET EventEntry, strings : SUBSET StringEntry]]
    BY <1>6, <2>2 DEF SkipString, InsertString
  <2>5. view' \in [Proc -> Tables]
    BY <1>6, <2>3 DEF SkipString, InsertString
  <2>6. writer' \in [Db -> SUBSET Proc]
    <3>1. CASE SkipString(p, s)
      BY <3>1 DEF SkipString
    <3>2. CASE InsertString(p, s)
      BY <3>2 DEF InsertString, Reserve
    <3> QED
      BY <1>6, <3>1, <3>2
  <2>7. UNCHANGED <<db, readers, pending, pc, target, source, batch>>
    BY <1>6 DEF SkipString, InsertString
  <2> QED
    BY <2>4, <2>5, <2>6, <2>7
<1>7. ASSUME NEW p \in Proc, NEW e \in batch[p].events,
             SkipEvent(p, e) \/ InsertEvent(p, e)
      PROVE  TypeOK'
  <2>1. e \in EventEntry
    BY DEF Batch
  <2>2. [seen[p] EXCEPT !.events = @ \cup {e}]
          \in [events : SUBSET EventEntry, strings : SUBSET StringEntry]
    BY <2>1
  <2>3. WithEvent(view[p], e) \in Tables
    BY <2>1 DEF WithEvent, Tables
  <2>4. seen' \in [Proc -> [events : SUBSET EventEntry, strings : SUBSET StringEntry]]
    BY <1>7, <2>2 DEF SkipEvent, InsertEvent
  <2>5. view' \in [Proc -> Tables]
    BY <1>7, <2>3 DEF SkipEvent, InsertEvent
  <2>6. writer' \in [Db -> SUBSET Proc]
    <3>1. CASE SkipEvent(p, e)
      BY <3>1 DEF SkipEvent
    <3>2. CASE InsertEvent(p, e)
      BY <3>2 DEF InsertEvent, Reserve
    <3> QED
      BY <1>7, <3>1, <3>2
  <2>7. UNCHANGED <<db, readers, pending, pc, target, source, batch>>
    BY <1>7 DEF SkipEvent, InsertEvent
  <2> QED
    BY <2>4, <2>5, <2>6, <2>7
<1>8. ASSUME NEW p \in Proc, RecordBuild(p)
      PROVE  TypeOK'
  <2>1. WithBuild(view[p], batch[p].build) \in Tables
    <3>1. view[p] \in Tables /\ batch[p].build \in BuildId
      BY DEF Batch
    <3> QED
      BY <3>1 DEF WithBuild, Tables
  <2>2. view' \in [Proc -> Tables]
    BY <1>8, <2>1 DEF RecordBuild
  <2> QED
    BY <1>8, <2>2 DEF RecordBuild, Reserve
<1>9. ASSUME NEW p \in Proc, AwaitReaders(p)
      PROVE  TypeOK'
  BY <1>9 DEF AwaitReaders
<1>10. ASSUME NEW p \in Proc, NEW outcome \in Finished, Exit(p, outcome),
              db' \in [Db -> Tables]
       PROVE  TypeOK'
  <2>1. NoBatch \in Batch
    BY EmittedAssumption DEF NoBatch, Batch
  <2>2. EmptyTables \in Tables
    BY DEF EmptyTables, Tables
  <2> QED
    BY <1>10, <2>1, <2>2 DEF Exit, Unlocked, NothingSeen
<1>11. ASSUME NEW p \in Proc, Commit(p)
       PROVE  TypeOK'
  BY <1>11, <1>10 DEF Commit
<1>12. ASSUME NEW p \in Proc, Collide(p) \/ WriteBusy(p) \/ Timeout(p) \/ Crash(p)
       PROVE  TypeOK'
  BY <1>12, <1>10 DEF Collide, WriteBusy, Timeout, Crash
<1>13. CASE UNCHANGED vars
  BY <1>13 DEF vars
<1> QED
  BY <1>1, <1>2, <1>3, <1>5, <1>6, <1>7, <1>8, <1>9, <1>11, <1>12, <1>13
     DEF Next, Start, Advance, Iterate

LEMMA TypeInit == Init => TypeOK
  BY EmittedAssumption
     DEF Init, TypeOK, Tables, EmptyTables, Batch, NoBatch, NothingSeen, Phase, Finished

(* Every variable keeps its type in every state of every behaviour.        *)
THEOREM TypeCorrect == Spec => []TypeOK
  BY TypeInit, TypeStep, PTL DEF Spec

-----------------------------------------------------------------------------
(* Facts about the collision policy and the parser.                        *)

(* Dropping all but one entry per section leaves no reference dangling.    *)
LEMMA ParsesAreClosed ==
  ASSUME NEW b \in Build, NEW B \in Parses(b)
  PROVE  Closed(B.events, B.strings)
<1>1. /\ B.events \in FirstPerTag(Emitted[b].events)
      /\ B.strings \in FirstPerHash(Emitted[b].strings)
  BY ParsesAreBatches
<1>2. Closed(Emitted[b].events, Emitted[b].strings)
  BY EmittedAssumption
<1>3. ASSUME NEW e \in B.events, e.format_hash # NoFormat
      PROVE  \E s \in B.strings : s.hash = e.format_hash
  BY <1>1, <1>2, <1>3 DEF Closed, FirstPerTag, FirstPerHash
<1>4. ASSUME NEW e \in B.events, NEW t \in Callee[e.bytecode]
      PROVE  \E f \in B.events : f.tag = t
  BY <1>1, <1>2 DEF Closed, FirstPerTag
<1> QED
  BY <1>3, <1>4 DEF Closed

(* Ingesting a closed batch into a closed database leaves it closed.       *)
LEMMA IngestedIsClosed ==
  ASSUME NEW T, NEW B, NEW U, Ingested(T, B, U),
         Closed(T.events, T.strings), Closed(B.events, B.strings)
  PROVE  Closed(U.events, U.strings)
<1>1. ASSUME NEW e \in U.events, e.format_hash # NoFormat
      PROVE  \E s \in U.strings : s.hash = e.format_hash
  BY <1>1 DEF Ingested, Closed
<1>2. ASSUME NEW e \in U.events, NEW t \in Callee[e.bytecode]
      PROVE  \E f \in U.events : f.tag = t
  <2>1. CASE e \in T.events
    BY <2>1 DEF Ingested, Closed
  <2>2. CASE e \in B.events
    BY <2>2 DEF Ingested, Closed, EventKnown, SameIdentity
  <2> QED
    BY <2>1, <2>2 DEF Ingested
<1> QED
  BY <1>1, <1>2 DEF Closed

(* An insertion that follows the SELECTs' answers keeps the keys unique.   *)
LEMMA FreshStringKeepsKeys ==
  ASSUME NEW T \in Tables, NEW s, KeysUnique(T), StringFresh(T, s)
  PROVE  KeysUnique(WithString(T, s))
  BY DEF KeysUnique, StringFresh, WithString, Tables

LEMMA FreshEventKeepsKeys ==
  ASSUME NEW T \in Tables, NEW e, KeysUnique(T), EventFresh(T, e)
  PROVE  KeysUnique(WithEvent(T, e))
  BY DEF KeysUnique, EventFresh, WithEvent, Tables

-----------------------------------------------------------------------------
(* The conjuncts of the inductive invariant, one lemma for each.           *)

LEMMA LockStep == TypeOK /\ LockInv /\ [Next]_vars => LockInv'
<1> SUFFICES ASSUME TypeOK, LockInv, [Next]_vars
             PROVE  LockInv'
  OBVIOUS
<1> USE DEF LockInv, InTx, TxPhase
<1>1. ASSUME NEW p \in Proc, Start(p)
      PROVE  LockInv'
  <2>1. /\ readers' = readers
        /\ pc[p] \in Finished
        /\ pc'[p] \in {"begin", "read_events"}
        /\ \A q \in Proc \ {p} : pc'[q] = pc[q] /\ target'[q] = target[q]
    BY <1>1 DEF Start, StartIngest, StartMerge, TypeOK, locks
  <2> QED
    BY <2>1 DEF Finished
<1>2. ASSUME NEW p \in Proc, ReadEvents(p) \/ ReadStrings(p) \/ RecordBuild(p)
      PROVE  LockInv'
  BY <1>2 DEF ReadEvents, ReadStrings, RecordBuild, TypeOK, locks
<1>3. ASSUME NEW p \in Proc, Begin(p)
      PROVE  LockInv'
  BY <1>3 DEF Begin, TypeOK
<1>4. ASSUME NEW p \in Proc, Iterate(p) \/ AwaitReaders(p)
      PROVE  LockInv'
  BY <1>4 DEF Iterate, SkipString, InsertString, SkipEvent, InsertEvent,
              AwaitReaders, locks
<1>5. ASSUME NEW p \in Proc, NEW outcome \in Finished, Exit(p, outcome)
      PROVE  LockInv'
  <2>1. /\ target' = target
        /\ pc'[p] = outcome
        /\ \A q \in Proc \ {p} : pc'[q] = pc[q]
        /\ \A d \in Db : readers'[d] = readers[d] \ {p}
    BY <1>5 DEF Exit, Unlocked, TypeOK
  <2> QED
    BY <2>1 DEF Finished
<1>6. ASSUME NEW p \in Proc,
             Commit(p) \/ Collide(p) \/ WriteBusy(p) \/ Timeout(p) \/ Crash(p)
      PROVE  LockInv'
  BY <1>6, <1>5 DEF Commit, Collide, WriteBusy, Timeout, Crash, Finished
<1>7. CASE UNCHANGED vars
  BY <1>7 DEF vars, locks
<1> QED
  BY <1>1, <1>2, <1>3, <1>4, <1>6, <1>7 DEF Next, Advance

LEMMA IdleStep == TypeOK /\ IdleInv /\ [Next]_vars => IdleInv'
<1> SUFFICES ASSUME TypeOK, IdleInv, [Next]_vars
             PROVE  IdleInv'
  OBVIOUS
<1> USE DEF IdleInv, InTx, TxPhase
<1>1. ASSUME NEW p \in Proc, Start(p)
      PROVE  IdleInv'
  BY <1>1 DEF Start, StartIngest, StartMerge, Finished, TypeOK
<1>2. ASSUME NEW p \in Proc,
             ReadEvents(p) \/ ReadStrings(p) \/ RecordBuild(p) \/ Begin(p)
      PROVE  IdleInv'
  BY <1>2 DEF ReadEvents, ReadStrings, RecordBuild, Begin, TypeOK
<1>3. ASSUME NEW p \in Proc, Iterate(p) \/ AwaitReaders(p)
      PROVE  IdleInv'
  BY <1>3 DEF Iterate, SkipString, InsertString, SkipEvent, InsertEvent,
              NextString, NextEvent, AwaitReaders, TypeOK
<1>4. ASSUME NEW p \in Proc,
             Commit(p) \/ Collide(p) \/ WriteBusy(p) \/ Timeout(p) \/ Crash(p)
      PROVE  IdleInv'
  BY <1>4 DEF Commit, Collide, WriteBusy, Timeout, Crash, Exit, TypeOK
<1>5. CASE UNCHANGED vars
  BY <1>5 DEF vars
<1> QED
  BY <1>1, <1>2, <1>3, <1>4, <1>5 DEF Next, Advance

-----------------------------------------------------------------------------
(* The committed tables change only by a commit, which finds its process   *)
(* to be the only reader of the file.                                      *)
LEMMA CommitsOnly ==
  ASSUME TypeOK, [Next]_vars
  PROVE  db' = db \/ \E p \in Proc : Commit(p)
  BY DEF Next, Start, StartIngest, StartMerge, Advance, ReadEvents, ReadStrings,
         Begin, Iterate, SkipString, InsertString, SkipEvent, InsertEvent,
         RecordBuild, AwaitReaders, Collide, WriteBusy, Timeout, Crash, vars

(* What a commit installs is its batch ingested into what was there.       *)
LEMMA CommitIngests ==
  ASSUME IInv, NEW p \in Proc, Commit(p)
  PROVE  /\ Ingested(db[target[p]], batch[p], view[p])
         /\ db' = [db EXCEPT ![target[p]] = view[p]]
         /\ view[p] \in Tables
         /\ Closed(view[p].events, view[p].strings)
<1>1. pc[p] = "commit" /\ InTx(p)
  BY DEF Commit, InTx, TxPhase
<1>2. seen[p].events = batch[p].events /\ seen[p].strings = batch[p].strings
  <2>1. /\ seen[p].events \subseteq batch[p].events
        /\ seen[p].strings \subseteq batch[p].strings
        /\ AllSeen(p)
    BY <1>1 DEF IInv, ViewInv, ViewOf
  <2> QED
    BY <2>1 DEF AllSeen, StringsLeft, EventsLeft
<1>3. Ingested(db[target[p]], batch[p], view[p])
  BY <1>1, <1>2 DEF IInv, ViewInv, ViewOf, Ingested
<1>4. Closed(batch[p].events, batch[p].strings)
  BY <1>1 DEF IInv, BatchInv, BatchOf, TxPhase
<1>5. Closed(db[target[p]].events, db[target[p]].strings)
  BY DEF IInv, NothingDangles, TypeOK
<1>6. Closed(view[p].events, view[p].strings)
  BY <1>3, <1>4, <1>5, IngestedIsClosed
<1> QED
  BY <1>3, <1>6 DEF Commit, IInv, TypeOK

LEMMA DbStep == IInv /\ [Next]_vars => KeysStayUnique' /\ NothingDangles'
<1> SUFFICES ASSUME IInv, [Next]_vars
             PROVE  KeysStayUnique' /\ NothingDangles'
  OBVIOUS
<1>1. CASE db' = db
  BY <1>1 DEF IInv, KeysStayUnique, NothingDangles
<1>2. ASSUME NEW p \in Proc, Commit(p)
      PROVE  KeysStayUnique' /\ NothingDangles'
  <2>1. \A d \in Db : db'[d] = db[d] \/ db'[d] = view[p]
    BY <1>2, CommitIngests DEF IInv, TypeOK
  <2>2. KeysUnique(view[p]) /\ Closed(view[p].events, view[p].strings)
    BY <1>2, CommitIngests DEF Ingested
  <2> QED
    BY <2>1, <2>2 DEF IInv, KeysStayUnique, NothingDangles
<1> QED
  BY <1>1, <1>2, CommitsOnly DEF IInv

LEMMA Growth == IInv /\ [Next]_vars => \A d \in Db : NothingLost(d)
<1> SUFFICES ASSUME IInv, [Next]_vars, NEW d \in Db
             PROVE  NothingLost(d)
  OBVIOUS
<1>1. CASE db' = db
  BY <1>1 DEF NothingLost
<1>2. ASSUME NEW p \in Proc, Commit(p)
      PROVE  NothingLost(d)
  <2>1. db'[d] = db[d] \/ (d = target[p] /\ db'[d] = view[p])
    BY <1>2, CommitIngests DEF IInv, TypeOK
  <2> QED
    BY <1>2, <2>1, CommitIngests DEF Ingested, NothingLost
<1> QED
  BY <1>1, <1>2, CommitsOnly DEF IInv

(* A process in a transaction keeps the committed tables it started from.  *)
LEMMA Isolation ==
  ASSUME IInv, [Next]_vars, NEW p \in Proc, InTx(p), InTx(p)'
  PROVE  target'[p] = target[p] /\ db'[target[p]] = db[target[p]]
<1>1. target'[p] = target[p]
  BY DEF IInv, TypeOK, InTx, TxPhase, Finished, Next, Start, StartIngest, StartMerge,
         Advance, ReadEvents, ReadStrings, Begin, Iterate, SkipString,
         InsertString, SkipEvent, InsertEvent, RecordBuild, AwaitReaders,
         Commit, Collide, WriteBusy, Timeout, Crash, Exit, vars
<1>2. ASSUME NEW q \in Proc, Commit(q)
      PROVE  db'[target[p]] = db[target[p]]
  <2>1. p \in readers[target[p]]
    BY DEF IInv, LockInv, TypeOK
  <2>2. q # p
    BY <1>2 DEF Commit, Exit, InTx, TxPhase, IInv, TypeOK
  <2>3. target[q] # target[p]
    BY <1>2, <2>1, <2>2 DEF Commit
  <2> QED
    BY <1>2, <2>3 DEF Commit, IInv, TypeOK
<1> QED
  BY <1>1, <1>2, CommitsOnly DEF IInv

(* A step of one process leaves the local state of the others alone.       *)
LEMMA Frame ==
  ASSUME TypeOK, NEW q \in Proc, Start(q) \/ Advance(q) \/ Timeout(q) \/ Crash(q),
         NEW p \in Proc, p # q
  PROVE  UNCHANGED <<pc[p], target[p], source[p], batch[p], seen[p], view[p]>>
<1> USE DEF TypeOK
<1>1. CASE Start(q)
  BY <1>1 DEF Start, StartIngest, StartMerge
<1>2. CASE ReadEvents(q) \/ ReadStrings(q) \/ Begin(q) \/ RecordBuild(q)
  BY <1>2 DEF ReadEvents, ReadStrings, Begin, RecordBuild
<1>3. CASE Iterate(q) \/ AwaitReaders(q)
  BY <1>3 DEF Iterate, SkipString, InsertString, SkipEvent, InsertEvent, AwaitReaders
<1>4. CASE Commit(q) \/ Collide(q) \/ WriteBusy(q) \/ Timeout(q) \/ Crash(q)
  BY <1>4 DEF Commit, Collide, WriteBusy, Timeout, Crash, Exit
<1> QED
  BY <1>1, <1>2, <1>3, <1>4 DEF Advance

(* The steps of a process that is, or gets, in a transaction.              *)
LEMMA TxSteps ==
  ASSUME TypeOK, [Next]_vars, NEW p \in Proc, InTx(p)'
  PROVE  \/ UNCHANGED <<pc[p], batch[p], seen[p], view[p]>>
         \/ Begin(p)
         \/ RecordBuild(p)
         \/ \E s \in batch[p].strings : SkipString(p, s) \/ InsertString(p, s)
         \/ \E e \in batch[p].events : SkipEvent(p, e) \/ InsertEvent(p, e)
<1> USE DEF InTx, TxPhase
<1>1. CASE UNCHANGED vars
  BY <1>1 DEF vars
<1>2. ASSUME NEW q \in Proc, Start(q) \/ Advance(q) \/ Timeout(q) \/ Crash(q), q # p
      PROVE  UNCHANGED <<pc[p], batch[p], seen[p], view[p]>>
  BY <1>2, Frame
<1>3. ~Start(p)
  BY DEF TypeOK, Start, StartIngest, StartMerge
<1>4. ~ReadEvents(p) /\ ~ReadStrings(p)
  BY DEF TypeOK, ReadEvents, ReadStrings
<1>5. ~Commit(p) /\ ~Collide(p) /\ ~WriteBusy(p) /\ ~Timeout(p) /\ ~Crash(p)
  BY DEF TypeOK, Commit, Collide, WriteBusy, Timeout, Crash, Exit
<1>6. AwaitReaders(p) => UNCHANGED <<pc[p], batch[p], seen[p], view[p]>>
  BY DEF AwaitReaders
<1> QED
  BY <1>1, <1>2, <1>3, <1>4, <1>5, <1>6 DEF Next, Advance, Iterate

(* The facts ViewInv states of one process.                                *)
LEMMA ViewStep == IInv /\ [Next]_vars => ViewInv'
<1> SUFFICES ASSUME IInv, [Next]_vars, NEW p \in Proc, InTx(p)'
             PROVE  ViewOf(p)'
  BY DEF ViewInv
<1> USE DEF TxPhase
<1>1. CASE ~InTx(p)
  <2>1. Begin(p)
    <3>1. ~RecordBuild(p) /\ pc'[p] # pc[p]
      BY <1>1 DEF InTx, RecordBuild
    <3>2. ASSUME NEW s PROVE ~SkipString(p, s) /\ ~InsertString(p, s)
      BY <1>1 DEF InTx, SkipString, InsertString, NextString
    <3>3. ASSUME NEW e PROVE ~SkipEvent(p, e) /\ ~InsertEvent(p, e)
      BY <1>1 DEF InTx, SkipEvent, InsertEvent, NextEvent
    <3> QED
      BY <3>1, <3>2, <3>3, TxSteps DEF IInv
  <2>2. seen[p] = NothingSeen
    BY <1>1 DEF IInv, IdleInv
  <2>3. /\ view'[p] = db[target[p]]
        /\ db' = db /\ target' = target /\ seen' = seen /\ pc'[p] = "tx"
    BY <2>1 DEF Begin, IInv, TypeOK
  <2>4. KeysUnique(db[target[p]])
    BY DEF IInv, TypeOK, KeysStayUnique
  <2> QED
    BY <2>2, <2>3, <2>4 DEF ViewOf, NothingSeen
<1>2. CASE InTx(p)
  <2>1. target'[p] = target[p] /\ db'[target[p]] = db[target[p]]
    BY <1>2, Isolation
  <2>2. ViewOf(p)
    BY <1>2 DEF IInv, ViewInv
  <2>3. CASE UNCHANGED <<pc[p], batch[p], seen[p], view[p]>>
    BY <2>1, <2>2, <2>3 DEF ViewOf, AllSeen, StringsLeft, EventsLeft
  <2>4. ASSUME NEW s \in batch[p].strings, SkipString(p, s)
        PROVE  ViewOf(p)'
    <3>1. /\ seen'[p].strings = seen[p].strings \cup {s}
          /\ seen'[p].events = seen[p].events
          /\ UNCHANGED <<pc, batch, view>>
      BY <2>4 DEF SkipString, IInv, TypeOK
    <3>2. s \in view[p].strings /\ pc[p] = "tx"
      BY <2>4 DEF SkipString, NextString, StringKnown
    <3> QED
      BY <2>1, <2>2, <3>1, <3>2 DEF ViewOf
  <2>5. ASSUME NEW s \in batch[p].strings, InsertString(p, s)
        PROVE  ViewOf(p)'
    <3>1. /\ seen'[p].strings = seen[p].strings \cup {s}
          /\ seen'[p].events = seen[p].events
          /\ view'[p] = WithString(view[p], s)
          /\ UNCHANGED <<pc, batch>>
      BY <2>5 DEF InsertString, IInv, TypeOK
    <3>2. pc[p] = "tx" /\ StringFresh(view[p], s) /\ view[p] \in Tables
      BY <2>5 DEF InsertString, NextString, IInv, TypeOK
    <3>3. KeysUnique(view'[p])
      BY <2>2, <3>1, <3>2, FreshStringKeepsKeys DEF ViewOf
    <3>4. /\ view'[p].strings = view[p].strings \cup {s}
          /\ view'[p].events = view[p].events
          /\ view'[p].ingested_builds = view[p].ingested_builds
      BY <3>1, <3>2 DEF WithString, Tables
    <3> QED
      BY <2>1, <2>2, <3>1, <3>2, <3>3, <3>4 DEF ViewOf, EventKnown
  <2>6. ASSUME NEW e \in batch[p].events, SkipEvent(p, e)
        PROVE  ViewOf(p)'
    <3>1. /\ seen'[p].events = seen[p].events \cup {e}
          /\ seen'[p].strings = seen[p].strings
          /\ UNCHANGED <<pc, batch, view>>
      BY <2>6 DEF SkipEvent, IInv, TypeOK
    <3>2. EventKnown(view[p], e) /\ pc[p] = "tx"
      BY <2>6 DEF SkipEvent, NextEvent
    <3> QED
      BY <2>1, <2>2, <3>1, <3>2 DEF ViewOf
  <2>7. ASSUME NEW e \in batch[p].events, InsertEvent(p, e)
        PROVE  ViewOf(p)'
    <3>1. /\ seen'[p].events = seen[p].events \cup {e}
          /\ seen'[p].strings = seen[p].strings
          /\ view'[p] = WithEvent(view[p], e)
          /\ UNCHANGED <<pc, batch>>
      BY <2>7 DEF InsertEvent, IInv, TypeOK
    <3>2. pc[p] = "tx" /\ EventFresh(view[p], e) /\ view[p] \in Tables
      BY <2>7 DEF InsertEvent, NextEvent, IInv, TypeOK
    <3>3. KeysUnique(view'[p])
      BY <2>2, <3>1, <3>2, FreshEventKeepsKeys DEF ViewOf
    <3>4. /\ view'[p].strings = view[p].strings
          /\ view'[p].events = view[p].events \cup {e}
          /\ view'[p].ingested_builds = view[p].ingested_builds
      BY <3>1, <3>2 DEF WithEvent, Tables
    <3>5. \A f \in seen'[p].events : EventKnown(view'[p], f)
      BY <2>2, <3>1, <3>4 DEF ViewOf, EventKnown, SameIdentity
    <3> QED
      BY <2>1, <2>2, <3>1, <3>2, <3>3, <3>4, <3>5 DEF ViewOf
  <2>8. ASSUME RecordBuild(p)
        PROVE  ViewOf(p)'
    <3>1. /\ pc[p] = "tx" /\ pc'[p] = "commit"
          /\ view'[p] = WithBuild(view[p], batch[p].build)
          /\ AllSeen(p)
          /\ UNCHANGED <<batch, seen>>
      BY <2>8 DEF RecordBuild, IInv, TypeOK
    <3>2. /\ view'[p].strings = view[p].strings
          /\ view'[p].events = view[p].events
          /\ view'[p].ingested_builds =
               view[p].ingested_builds \cup {batch[p].build}
      BY <3>1 DEF WithBuild, Tables, IInv, TypeOK
    <3>3. KeysUnique(view'[p])
      BY <2>2, <3>2 DEF ViewOf, KeysUnique
    <3>4. AllSeen(p)'
      BY <3>1 DEF AllSeen, StringsLeft, EventsLeft
    <3> QED
      BY <2>1, <2>2, <3>1, <3>2, <3>3, <3>4 DEF ViewOf, EventKnown
  <2>9. \/ UNCHANGED <<pc[p], batch[p], seen[p], view[p]>>
        \/ RecordBuild(p)
        \/ \E s \in batch[p].strings : SkipString(p, s) \/ InsertString(p, s)
        \/ \E e \in batch[p].events : SkipEvent(p, e) \/ InsertEvent(p, e)
    BY <1>2, TxSteps DEF IInv, InTx, Begin
  <2> QED
    BY <2>3, <2>4, <2>5, <2>6, <2>7, <2>8, <2>9
<1> QED
  BY <1>1, <1>2

LEMMA BatchStep == IInv /\ [Next]_vars => BatchInv'
<1> SUFFICES ASSUME IInv, [Next]_vars, NEW p \in Proc
             PROVE  BatchOf(p)'
  BY DEF BatchInv
<1>1. BatchOf(p)
  BY DEF IInv, BatchInv
<1>2. CASE UNCHANGED <<pc[p], source[p], batch[p]>>
  <2>1. db[source[p]].strings \subseteq db'[source[p]].strings
    BY Growth DEF NothingLost, IInv, TypeOK
  <2> QED
    BY <1>1, <1>2, <2>1 DEF BatchOf, Closed
<1>3. ASSUME NEW b \in Build, NEW d \in Db, StartIngest(p, b, d)
      PROVE  BatchOf(p)'
  <2>1. PICK B \in Parses(b) : batch' = [batch EXCEPT ![p] = B]
    BY <1>3 DEF StartIngest
  <2>2. batch'[p] = B /\ pc'[p] = "begin"
    BY <1>3, <2>1 DEF StartIngest, IInv, TypeOK
  <2> QED
    BY <2>2, ParsesAreClosed DEF BatchOf
<1>4. ASSUME NEW s \in Db, NEW d \in Db, StartMerge(p, s, d)
      PROVE  BatchOf(p)'
  BY <1>4 DEF StartMerge, BatchOf, TxPhase, IInv, TypeOK
<1>5. ASSUME ReadEvents(p)
      PROVE  BatchOf(p)'
  <2>1. /\ pc'[p] = "read_strings" /\ source' = source /\ db' = db
        /\ batch'[p].events = db[source[p]].events
    BY <1>5 DEF ReadEvents, IInv, TypeOK, Batch
  <2>2. Closed(db[source[p]].events, db[source[p]].strings)
    BY DEF IInv, TypeOK, NothingDangles
  <2> QED
    BY <2>1, <2>2 DEF BatchOf, TxPhase
<1>6. ASSUME ReadStrings(p)
      PROVE  BatchOf(p)'
  <2>1. /\ pc[p] = "read_strings" /\ pc'[p] = "begin"
        /\ batch'[p].events = batch[p].events
        /\ batch'[p].strings = db[source[p]].strings
    BY <1>6 DEF ReadStrings, IInv, TypeOK, Batch
  <2> QED
    BY <1>1, <2>1 DEF BatchOf
<1>7. CASE Begin(p) \/ Iterate(p) \/ RecordBuild(p) \/ AwaitReaders(p)
  <2>1. /\ UNCHANGED <<db, source, batch>>
        /\ pc[p] \in {"begin"} \cup TxPhase
        /\ pc'[p] \in TxPhase
    BY <1>7 DEF Begin, Iterate, SkipString, InsertString, SkipEvent, InsertEvent,
                NextString, NextEvent, RecordBuild, AwaitReaders, TxPhase,
                IInv, TypeOK
  <2> QED
    BY <1>1, <2>1 DEF BatchOf, TxPhase
<1>8. CASE Commit(p) \/ Collide(p) \/ WriteBusy(p) \/ Timeout(p) \/ Crash(p)
  <2>1. pc'[p] \in Finished
    BY <1>8 DEF Commit, Collide, WriteBusy, Timeout, Crash, Exit, Finished,
                IInv, TypeOK
  <2> QED
    BY <2>1 DEF BatchOf, TxPhase, Finished
<1>9. ASSUME NEW q \in Proc, Start(q) \/ Advance(q) \/ Timeout(q) \/ Crash(q), q # p
      PROVE  UNCHANGED <<pc[p], source[p], batch[p]>>
  BY <1>9, Frame DEF IInv
<1>10. CASE UNCHANGED vars
  BY <1>2, <1>10 DEF vars
<1> QED
  BY <1>2, <1>3, <1>4, <1>5, <1>6, <1>7, <1>8, <1>9, <1>10 DEF Next, Start, Advance

LEMMA DurableStep == IInv /\ [Next]_vars => SuccessIsDurable'
<1> SUFFICES ASSUME IInv, [Next]_vars, NEW p \in Proc, pc'[p] = "ok"
             PROVE  Durable(p)'
  BY DEF SuccessIsDurable
<1>1. CASE Commit(p)
  <2>1. /\ target'[p] = target[p] /\ batch'[p] = batch[p]
        /\ db'[target[p]] = view[p]
    BY <1>1 DEF Commit, Exit, IInv, TypeOK
  <2>2. Ingested(db[target[p]], batch[p], view[p])
    BY <1>1, CommitIngests
  <2> QED
    BY <2>1, <2>2 DEF Durable, Ingested
<1>2. CASE UNCHANGED <<pc[p], target[p], batch[p]>>
  <2>1. Durable(p)
    BY <1>2 DEF IInv, SuccessIsDurable
  <2>2. NothingLost(target[p])
    BY Growth DEF IInv, TypeOK
  <2> QED
    BY <1>2, <2>1, <2>2 DEF Durable, NothingLost, EventKnown
<1>3. ASSUME NEW q \in Proc, Start(q) \/ Advance(q) \/ Timeout(q) \/ Crash(q), q # p
      PROVE  UNCHANGED <<pc[p], target[p], batch[p]>>
  BY <1>3, Frame DEF IInv
<1>4. ~Start(p)
  BY DEF IInv, TypeOK, Start, StartIngest, StartMerge
<1>5. ~ReadEvents(p) /\ ~ReadStrings(p) /\ ~Begin(p) /\ ~RecordBuild(p)
  BY DEF IInv, TypeOK, ReadEvents, ReadStrings, Begin, RecordBuild
<1>6. ~Iterate(p) /\ ~AwaitReaders(p)
  BY DEF Iterate, SkipString, InsertString, SkipEvent, InsertEvent, NextString,
         NextEvent, AwaitReaders
<1>7. ~Collide(p) /\ ~WriteBusy(p) /\ ~Timeout(p) /\ ~Crash(p)
  BY DEF IInv, TypeOK, Collide, WriteBusy, Timeout, Crash, Exit
<1>8. CASE UNCHANGED vars
  BY <1>2, <1>8 DEF vars
<1> QED
  BY <1>1, <1>2, <1>3, <1>4, <1>5, <1>6, <1>7, <1>8 DEF Next, Advance

LEMMA InvInit == Init => IInv
<1> SUFFICES ASSUME Init
             PROVE  IInv
  OBVIOUS
<1>1. TypeOK
  BY TypeInit
<1>2. \A p \in Proc : pc[p] = "idle" /\ ~InTx(p)
  BY DEF Init, InTx, TxPhase
<1>3. KeysStayUnique /\ NothingDangles
  BY DEF Init, KeysStayUnique, NothingDangles, KeysUnique, Closed, EmptyTables
<1> QED
  BY <1>1, <1>2, <1>3 DEF IInv, Init, LockInv, ViewInv, BatchInv, BatchOf, IdleInv,
                          SuccessIsDurable, TxPhase

LEMMA InvStep == IInv /\ [Next]_vars => IInv'
  BY TypeStep, LockStep, IdleStep, DbStep, ViewStep, BatchStep, DurableStep DEF IInv

(* The inductive invariant holds in every reachable state.                 *)
THEOREM Invariance == Spec => []IInv
  BY InvInit, InvStep, PTL DEF Spec

(* Whatever the interleaving of ingests, merges and crashes, a committed   *)
(* database has one row per tag, full_hash and string hash.                *)
THEOREM KeysCorrect == Spec => []KeysStayUnique
<1>1. IInv => KeysStayUnique
  BY DEF IInv
<1> QED
  BY <1>1, Invariance, PTL

(* No committed event lacks its format string or the target of a CALL.     *)
THEOREM ReferencesCorrect == Spec => []NothingDangles
<1>1. IInv => NothingDangles
  BY DEF IInv
<1> QED
  BY <1>1, Invariance, PTL

(* What a successful command reported stays true for ever.                 *)
THEOREM DurabilityCorrect == Spec => []SuccessIsDurable
<1>1. IInv => SuccessIsDurable
  BY DEF IInv
<1> QED
  BY <1>1, Invariance, PTL

(* No step loses a committed row: the database is append-only.             *)
THEOREM AppendOnlyCorrect == Spec => AppendOnly
<1>1. IInv /\ [Next]_vars => [\A d \in Db : NothingLost(d)]_vars
  BY Growth
<1> QED
  BY <1>1, Invariance, PTL DEF Spec, AppendOnly

-----------------------------------------------------------------------------
(* IngestDb implements SerialDb.                                           *)

(* The abstract state changes only at the process that takes the step.     *)
LEMMA SerialFrame ==
  ASSUME TypeOK, NEW p \in Proc,
         Start(p) \/ Advance(p) \/ Timeout(p) \/ Crash(p)
  PROVE  /\ SerialStatus' = [SerialStatus EXCEPT ![p] = Status(p)']
         /\ SerialRequest' = [SerialRequest EXCEPT ![p] = RequestOf(p)']
         /\ \A q \in Proc : SerialStatus[q] = Status(q)
         /\ \A q \in Proc : SerialRequest[q] = RequestOf(q)
<1>1. ASSUME NEW q \in Proc, q # p
      PROVE  Status(q)' = Status(q) /\ RequestOf(q)' = RequestOf(q)
  <2>1. UNCHANGED <<pc[q], batch[q]>>
    BY <1>1, Frame
  <2> QED
    BY <2>1 DEF Status, RequestOf
<1> QED
  BY <1>1 DEF SerialStatus, SerialRequest

LEMMA SerialStutter ==
  ASSUME TypeOK, NEW p \in Proc,
         Start(p) \/ Advance(p) \/ Timeout(p) \/ Crash(p),
         Status(p)' = Status(p), RequestOf(p)' = RequestOf(p)
  PROVE  UNCHANGED <<SerialStatus, SerialRequest>>
<1>1. /\ SerialStatus' = [SerialStatus EXCEPT ![p] = Status(p)]
      /\ SerialRequest' = [SerialRequest EXCEPT ![p] = RequestOf(p)]
      /\ SerialStatus[p] = Status(p) /\ SerialRequest[p] = RequestOf(p)
  BY SerialFrame
<1> QED
  BY <1>1 DEF SerialStatus, SerialRequest

LEMMA ExitStatus ==
  ASSUME TypeOK, NEW p \in Proc, NEW outcome \in Finished, Exit(p, outcome)
  PROVE  /\ Status(p)' = outcome
         /\ RequestOf(p)' = NothingSeen
         /\ target' = target
  BY DEF Exit, Status, RequestOf, Finished, MergePhase, TxPhase, TypeOK

(* A clash with what a transaction sees is a clash with the database or    *)
(* within the batch.                                                       *)
LEMMA CollisionIsReal ==
  ASSUME IInv, NEW p \in Proc, Collide(p)
  PROVE  Conflict(db[target[p]], batch[p])
<1>1. pc[p] = "tx" /\ InTx(p)
  BY DEF Collide, NextString, NextEvent, InTx, TxPhase
<1>2. /\ view[p].events \subseteq db[target[p]].events \cup batch[p].events
      /\ view[p].strings \subseteq db[target[p]].strings \cup batch[p].strings
  BY <1>1 DEF IInv, ViewInv, ViewOf
<1>3. CASE \E s \in batch[p].strings : StringClash(view[p], s)
  BY <1>2, <1>3 DEF StringClash, Conflict
<1>4. CASE \E e \in batch[p].events : HashClash(view[p], e) \/ TagClash(view[p], e)
  <2>1. PICK e \in batch[p].events, r \in view[p].events :
          (r.tag = e.tag) # (r.full_hash = e.full_hash)
    BY <1>4 DEF HashClash, TagClash
  <2> QED
    BY <1>2, <2>1 DEF Conflict
<1> QED
  BY <1>3, <1>4 DEF Collide

(* A process whose status becomes "running" submits its batch.             *)
LEMMA SerialSubmit ==
  ASSUME TypeOK, NEW p \in Proc, Start(p) \/ Advance(p),
         Status(p) # "running", Status(p)' = "running",
         RequestOf(p)' = batch'[p], batch'[p] \in Serial!Batch,
         target' = [target EXCEPT ![p] = target'[p]], target'[p] \in Db,
         db' = db
  PROVE  Serial!Submit(p)
<1>1. /\ SerialStatus' = [SerialStatus EXCEPT ![p] = "running"]
      /\ SerialRequest' = [SerialRequest EXCEPT ![p] = batch'[p]]
      /\ SerialStatus[p] # "running"
  BY SerialFrame
<1>2. SerialRequest'[p] = batch'[p]
  BY <1>1 DEF SerialRequest
<1>3. SerialRequest' = [SerialRequest EXCEPT ![p] = SerialRequest'[p]]
  BY <1>1, <1>2
<1> QED
  BY <1>1, <1>2, <1>3 DEF Serial!Submit

LEMMA SerialStep ==
  ASSUME IInv, IInv', [Next]_vars
  PROVE  [Serial!Next]_(Serial!vars)
<1> USE DEF Serial!vars
<1>t. TypeOK /\ TypeOK'
  BY DEF IInv
<1>b. Serial!Batch = Batch
  BY DEF Serial!Batch, Batch, Serial!EventEntry, EventEntry, Serial!StringEntry,
         StringEntry
<1>1. ASSUME NEW p \in Proc, NEW b \in Build, NEW d \in Db, StartIngest(p, b, d)
      PROVE  Serial!Submit(p)
  <2>1. /\ Status(p) # "running" /\ Status(p)' = "running"
        /\ RequestOf(p)' = batch'[p]
    BY <1>1, <1>t DEF StartIngest, Status, RequestOf, Finished, MergePhase, TxPhase, TypeOK
  <2>2. /\ target' = [target EXCEPT ![p] = target'[p]] /\ target'[p] \in Db
        /\ batch'[p] \in Batch /\ db' = db
    BY <1>1, <1>t DEF StartIngest, TypeOK
  <2>3. Start(p)
    BY <1>1 DEF Start
  <2> QED
    BY <1>t, <1>b, <2>1, <2>2, <2>3, SerialSubmit
<1>2. ASSUME NEW p \in Proc, NEW s \in Db, NEW d \in Db, StartMerge(p, s, d)
      PROVE  Serial!Prepare(p)
  <2>1. /\ Status(p) # "running" /\ Status(p)' = "idle"
        /\ RequestOf(p) = NothingSeen /\ RequestOf(p)' = NothingSeen
    BY <1>2, <1>t DEF StartMerge, Status, RequestOf, Finished, MergePhase, TxPhase, TypeOK
  <2>2. /\ target' = [target EXCEPT ![p] = target'[p]] /\ target'[p] \in Db
        /\ db' = db
    BY <1>2, <1>t DEF StartMerge, TypeOK
  <2>3. Start(p)
    BY <1>2 DEF Start
  <2>4. SerialRequest' = SerialRequest
    BY <1>t, <2>1, <2>3, SerialFrame DEF SerialRequest
  <2> QED
    BY <1>t, <2>1, <2>2, <2>3, <2>4, SerialFrame DEF Serial!Prepare
<1>3. ASSUME NEW p \in Proc, ReadEvents(p)
      PROVE  UNCHANGED Serial!vars
  <2>1. pc[p] = "read_events" /\ pc'[p] = "read_strings"
    BY <1>3, <1>t DEF ReadEvents, TypeOK
  <2>2. Status(p) = "idle"
    BY <2>1 DEF Status, MergePhase, TxPhase
  <2>3. Status(p)' = "idle"
    BY <2>1 DEF Status, MergePhase, TxPhase
  <2>4. RequestOf(p)' = RequestOf(p)
    BY <2>2, <2>3 DEF RequestOf
  <2> QED
    BY <1>3, <1>t, <2>2, <2>3, <2>4, SerialStutter DEF ReadEvents, Advance
<1>4. ASSUME NEW p \in Proc, ReadStrings(p)
      PROVE  Serial!Submit(p)
  <2>1. /\ Status(p) # "running" /\ Status(p)' = "running"
        /\ RequestOf(p)' = batch'[p]
    BY <1>4, <1>t DEF ReadStrings, Status, RequestOf, MergePhase, TxPhase, TypeOK
  <2>2. /\ target' = [target EXCEPT ![p] = target'[p]] /\ target'[p] \in Db
        /\ batch'[p] \in Batch /\ db' = db
    BY <1>4, <1>t DEF ReadStrings, TypeOK
  <2>3. Advance(p)
    BY <1>4 DEF Advance
  <2> QED
    BY <1>t, <1>b, <2>1, <2>2, <2>3, SerialSubmit
<1>5. ASSUME NEW p \in Proc, Begin(p) \/ Iterate(p) \/ RecordBuild(p) \/ AwaitReaders(p)
      PROVE  UNCHANGED Serial!vars
  <2>1. Status(p)' = Status(p) /\ RequestOf(p)' = RequestOf(p)
    BY <1>5, <1>t DEF Begin, Iterate, SkipString, InsertString, SkipEvent, InsertEvent,
       NextString, NextEvent, RecordBuild, AwaitReaders, Status, RequestOf,
       MergePhase, TxPhase, TypeOK
  <2>2. UNCHANGED <<db, target>>
    BY <1>5 DEF Begin, Iterate, SkipString, InsertString, SkipEvent, InsertEvent,
       RecordBuild, AwaitReaders
  <2> QED
    BY <1>5, <1>t, <2>1, <2>2, SerialStutter DEF Advance
<1>6. ASSUME NEW p \in Proc, Commit(p)
      PROVE  Serial!Accept(p)
  <2>1. Status(p)' = "ok" /\ RequestOf(p)' = NothingSeen /\ target' = target
    BY <1>6, <1>t, ExitStatus DEF Commit, Finished
  <2>2. Status(p) = "running" /\ RequestOf(p) = batch[p]
    BY <1>6 DEF Commit, Status, RequestOf, MergePhase, TxPhase
  <2>3. /\ Ingested(db[target[p]], batch[p], view[p])
        /\ db' = [db EXCEPT ![target[p]] = view[p]]
        /\ db'[target[p]] = view[p]
    BY <1>6, <1>t, CommitIngests DEF TypeOK
  <2>4. Advance(p)
    BY <1>6 DEF Advance
  <2> QED
    BY <1>t, <2>1, <2>2, <2>3, <2>4, SerialFrame
       DEF Serial!Accept, Serial!Finish, Serial!NoRequest, NothingSeen, Serial!Ingested,
           Ingested, Serial!EventKnown, EventKnown, Serial!SameIdentity, SameIdentity,
           Serial!KeysUnique, KeysUnique
<1>7. ASSUME NEW p \in Proc, Collide(p)
      PROVE  Serial!Reject(p)
  <2>1. Status(p)' = "collision" /\ RequestOf(p)' = NothingSeen /\ target' = target
    BY <1>7, <1>t, ExitStatus DEF Collide, Finished
  <2>2. Status(p) = "running" /\ RequestOf(p) = batch[p]
    BY <1>7 DEF Collide, NextString, NextEvent, Status, RequestOf, MergePhase, TxPhase
  <2>3. Conflict(db[target[p]], batch[p]) /\ db' = db
    BY <1>7, CollisionIsReal DEF Collide
  <2>4. Advance(p)
    BY <1>7 DEF Advance
  <2> QED
    BY <1>t, <2>1, <2>2, <2>3, <2>4, SerialFrame
       DEF Serial!Reject, Serial!Finish, Serial!NoRequest, NothingSeen,
           Serial!Conflict, Conflict
<1>8. ASSUME NEW p \in Proc, WriteBusy(p) \/ Timeout(p) \/ Crash(p)
      PROVE  Serial!Fail(p)
  <2>1. Status(p)' = "failed" /\ RequestOf(p)' = NothingSeen /\ target' = target
    BY <1>8, <1>t, ExitStatus DEF WriteBusy, Timeout, Crash, Finished
  <2>2. db' = db
    BY <1>8 DEF WriteBusy, Timeout, Crash
  <2>3. Advance(p) \/ Timeout(p) \/ Crash(p)
    BY <1>8 DEF Advance
  <2> QED
    BY <1>t, <2>1, <2>2, <2>3, SerialFrame DEF Serial!Fail, Serial!NoRequest, NothingSeen
<1>9. CASE UNCHANGED vars
  BY <1>9 DEF vars, SerialStatus, SerialRequest, Status, RequestOf
<1> QED
  BY <1>1, <1>2, <1>3, <1>4, <1>5, <1>6, <1>7, <1>8, <1>9
     DEF Next, Start, Advance, Serial!Next

LEMMA SerialInit == Init => Serial!Init
<1> SUFFICES ASSUME Init
             PROVE  Serial!Init
  OBVIOUS
<1>1. \A p \in Proc : Status(p) = "idle" /\ RequestOf(p) = NothingSeen
  BY DEF Init, Status, RequestOf, MergePhase, TxPhase
<1> QED
  BY <1>1 DEF Init, Serial!Init, SerialStatus, SerialRequest, Serial!NoRequest,
              NothingSeen, Serial!EmptyTables, EmptyTables

(* Every ingest and every merge, interrupted or not, is a single atomic    *)
(* step of the serial database, or leaves it as it was.                    *)
THEOREM ImplementsSerialDb == Spec => SerialSpec
<1>1. IInv /\ IInv' /\ [Next]_vars => [Serial!Next]_(Serial!vars)
  BY SerialStep
<1> QED
  BY <1>1, SerialInit, Invariance, PTL DEF Spec, SerialSpec, Serial!Spec
=============================================================================
