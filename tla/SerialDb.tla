------------------------------- MODULE SerialDb -------------------------------
(***************************************************************************)
(* What `zfmt ingest` and `zfmt db merge` promise, whatever SQLite, the    *)
(* operating system and the other zfmt processes do meanwhile: a request   *)
(* either adds its whole batch in one step or adds nothing, and it is      *)
(* rejected as a collision only when the batch really conflicts with what  *)
(* the database holds.  (db.rs:84-88, SPEC.md sections 3.5 and 9.)         *)
(***************************************************************************)
EXTENDS EventTables

CONSTANTS Proc, Db

VARIABLES db, status, target, request

vars == <<db, status, target, request>>

NoRequest == [events |-> {}, strings |-> {}]

TypeOK ==
  /\ db \in [Db -> Tables]
  /\ status \in [Proc -> {"idle", "running", "ok", "collision", "failed"}]
  /\ target \in [Proc -> Db]
  /\ request \in [Proc -> Batch \cup {NoRequest}]

Init ==
  /\ db = [d \in Db |-> EmptyTables]
  /\ status = [p \in Proc |-> "idle"]
  /\ target \in [Proc -> Db]
  /\ request = [p \in Proc |-> NoRequest]

(* A process forgets its last command, or turns to another database.       *)
Prepare(p) ==
  /\ status[p] # "running"
  /\ status' = [status EXCEPT ![p] = "idle"]
  /\ target' = [target EXCEPT ![p] = target'[p]]
  /\ target'[p] \in Db
  /\ UNCHANGED <<db, request>>

Submit(p) ==
  /\ status[p] # "running"
  /\ status' = [status EXCEPT ![p] = "running"]
  /\ target' = [target EXCEPT ![p] = target'[p]]
  /\ target'[p] \in Db
  /\ request' = [request EXCEPT ![p] = request'[p]]
  /\ request'[p] \in Batch
  /\ UNCHANGED db

Finish(p, outcome) ==
  /\ status' = [status EXCEPT ![p] = outcome]
  /\ request' = [request EXCEPT ![p] = NoRequest]
  /\ UNCHANGED target

Accept(p) ==
  LET d == target[p] IN
  /\ status[p] = "running"
  /\ db' = [db EXCEPT ![d] = db'[d]]
  /\ Ingested(db[d], request[p], db'[d])
  /\ Finish(p, "ok")

Reject(p) ==
  /\ status[p] = "running"
  /\ Conflict(db[target[p]], request[p])
  /\ Finish(p, "collision")
  /\ UNCHANGED db

(* The process was killed, could not read its input, or gave up waiting.   *)
Fail(p) ==
  /\ status' = [status EXCEPT ![p] = "failed"]
  /\ request' = [request EXCEPT ![p] = NoRequest]
  /\ UNCHANGED <<db, target>>

Next ==
  \E p \in Proc :
    Prepare(p) \/ Submit(p) \/ Accept(p) \/ Reject(p) \/ Fail(p)

Spec == Init /\ [][Next]_vars
=============================================================================
