----------------------------- MODULE EventStream -----------------------------
(***************************************************************************)
(* The event log of one work item and the dashboard that follows it: the   *)
(* transactions that emit events (service.emit_event) on PostgreSQL, and   *)
(* the stream that reads the log by its ids (main.stream_events).          *)
(*                                                                         *)
(* An event gets its id from the table's sequence when it is inserted and  *)
(* is seen when its transaction commits.  The insert then checks the       *)
(* foreign key, which waits for a transaction that holds the work row FOR  *)
(* UPDATE: the requests of people take that lock first (authorized_work),  *)
(* while a run that reports an event locks its worker and its lease only   *)
(* (validate_lease), so those wait for each other.                         *)
(***************************************************************************)
EXTENDS Integers, FiniteSets

CONSTANTS
  People, Reports,  \* requests of people and reports of the run (disjoint), each with one event
  Batch             \* events of one read, at least one

Requests == People \cup Reports

VARIABLES
  tx,        \* where a request's transaction is
  id,        \* the id of its event, 0 while it has none
  sequence,  \* the last id given out
  cursor,    \* the stream's, and the page's lastEvent
  shown      \* events on the dashboard

vars == <<tx, id, sequence, cursor, shown>>

Init ==
  /\ tx = [r \in Requests |-> "new"]
  /\ id = [r \in Requests |-> 0]
  /\ sequence = 0
  /\ cursor = 0
  /\ shown = {}

WorkLocked == \E r \in People : tx[r] \in { "begun", "inserted" }
KeyShared == \E r \in Reports : tx[r] = "inserted"
LeaseLocked == \E r \in Reports : tx[r] \in { "begun", "waiting", "inserted" }

\* authorized_work with its lock, or validate_lease
Begin(r) ==
  /\ tx[r] = "new"
  /\ IF r \in People THEN ~WorkLocked /\ ~KeyShared ELSE ~LeaseLocked
  /\ tx' = [tx EXCEPT ![r] = "begun"]
  /\ UNCHANGED <<id, sequence, cursor, shown>>

\* emit_event: the flush inserts the row, whose reference to the work a report has yet to
\* have checked.
Insert(r) ==
  /\ tx[r] = "begun"
  /\ sequence' = sequence + 1
  /\ id' = [id EXCEPT ![r] = sequence + 1]
  /\ tx' = [tx EXCEPT ![r] = IF r \in People THEN "inserted" ELSE "waiting"]
  /\ UNCHANGED <<cursor, shown>>

CheckReference(r) ==
  /\ tx[r] = "waiting"
  /\ ~WorkLocked
  /\ tx' = [tx EXCEPT ![r] = "inserted"]
  /\ UNCHANGED <<id, sequence, cursor, shown>>

Commit(r) ==
  /\ tx[r] = "inserted"
  /\ tx' = [tx EXCEPT ![r] = "committed"]
  /\ UNCHANGED <<id, sequence, cursor, shown>>

\* A refusal, a timeout or a crash; the sequence does not go back.
Rollback(r) ==
  /\ tx[r] \in { "begun", "waiting", "inserted" }
  /\ tx' = [tx EXCEPT ![r] = "aborted"]
  /\ UNCHANGED <<id, sequence, cursor, shown>>

Seen == { r \in Requests : tx[r] = "committed" }

\* stream_events: the next batch beyond the cursor.  The page keeps the highest id it was
\* sent and asks to go on from there when it connects again.
Read ==
  LET beyond == { r \in Seen : id[r] > cursor }
      batch == { r \in beyond : Cardinality({ s \in beyond : id[s] < id[r] }) < Batch }
  IN /\ batch # {}
     /\ shown' = shown \cup batch
     /\ cursor' \in { id[r] : r \in batch }
     /\ \A r \in batch : id[r] <= cursor'
     /\ UNCHANGED <<tx, id, sequence>>

Next ==
  \/ \E r \in Requests : Begin(r) \/ Insert(r) \/ CheckReference(r) \/ Commit(r) \/ Rollback(r)
  \/ Read

Spec == Init /\ [][Next]_vars

-----------------------------------------------------------------------------
\* An event that is in the log is on the dashboard or still ahead of its cursor
\* (README.en.md:5: "streams every action to a dashboard").
EveryEventReachable == \A r \in Seen : r \in shown \/ id[r] > cursor
=============================================================================
