------------------------------ MODULE Ingress ------------------------------
(***************************************************************************)
(* The way into a service: its queue on the bus and the Lambda that takes  *)
(* messages from it in batches (the SQS adapter, the IngestionEngine and   *)
(* the IntentExecutor).  A message that has been received too often is     *)
(* skipped; one that cannot be parsed fails the invocation; the others are *)
(* handled side by side, the intents of each one after another, and those  *)
(* that fail are returned to the queue.                                    *)
(*                                                                         *)
(* The handler is a typical one: it waits for an earlier event's row       *)
(* (updateOrRetry), records its event (record), adds to a total            *)
(* (accumulate) and projects a version (projectVersioned).  Markers do not *)
(* expire.  Reserved concurrency 1: one invocation at a time.              *)
(***************************************************************************)
EXTENDS Integers, FiniteSets

CONSTANTS
  Events,           \* a number each, which is also the version it carries
  Malformed,        \* events without a context field the parser asks for
  Awaits,           \* the event whose row an event waits for, or itself
  MaxCopies,        \* bound on the publications of one event
  QueueBatch,       \* most messages in one batch
  PoisonMax,        \* poisonPillMaxReceiveCount
  MaxReceiveCount   \* of the queue's redrive policy

ASSUME IngressAssumption ==
  /\ Events \subseteq Nat /\ Malformed \subseteq Events
  /\ Awaits \in [Events -> Events]
  /\ {MaxCopies, QueueBatch, PoisonMax, MaxReceiveCount} \subseteq Nat

VARIABLES
  msg,        \* the messages, one for each publication of an event
  batch,      \* the messages of the running invocation
  recorded,   \* events with a row of their own
  marked,     \* events with a ProcessedEvent marker
  total,      \* how often each event was added
  row         \* the version of the projected row

ingressVars == <<msg, batch, recorded, marked, total, row>>

Messages == Events \X (1 .. MaxCopies)

Message == [pc : {"none", "queued", "taken", "handled", "failed", "dropped",
                  "skipped", "dead"},
            receives : 0 .. MaxReceiveCount,
            intent : {"update", "record", "accumulate", "project"}]

NoMessage == [pc |-> "none", receives |-> 0, intent |-> "update"]

IngressInit ==
  /\ msg = [m \in Messages |-> NoMessage]
  /\ batch = {}
  /\ recorded = {} /\ marked = {}
  /\ total = [e \in Events |-> 0]
  /\ row = 0

tableVars == <<recorded, marked, total, row>>

-----------------------------------------------------------------------------
(* The queue.                                                              *)

Deliver(m) ==
  /\ msg[m].pc = "none"
  /\ msg' = [msg EXCEPT ![m].pc = "queued"]
  /\ UNCHANGED <<batch, tableVars>>

DeadLetter(m) ==
  /\ msg[m].pc = "queued" /\ msg[m].receives = MaxReceiveCount
  /\ msg' = [msg EXCEPT ![m].pc = "dead"]
  /\ UNCHANGED <<batch, tableVars>>

Received(m, pc) == [pc |-> pc, receives |-> msg[m].receives + 1, intent |-> "update"]

(* toRecords: what was received too often is passed over; the first record *)
(* that cannot be parsed throws, and nothing of the batch is handled.      *)
IsPoison(m) == msg[m].receives + 1 > PoisonMax

Invoke(S) ==
  /\ batch = {} /\ S # {} /\ Cardinality(S) <= QueueBatch
  /\ \A m \in S : msg[m].pc = "queued" /\ msg[m].receives < MaxReceiveCount
  /\ IF \E m \in S : m[1] \in Malformed /\ ~IsPoison(m)
     THEN /\ msg' = [m \in Messages |->
                       IF m \in S THEN Received(m, "queued") ELSE msg[m]]
          /\ UNCHANGED batch
     ELSE /\ msg' = [m \in Messages |->
                       IF m \notin S THEN msg[m]
                       ELSE Received(m, IF IsPoison(m) THEN "skipped" ELSE "taken")]
          /\ batch' = S
  /\ UNCHANGED tableVars

-----------------------------------------------------------------------------
(* The intents of a message.                                               *)

At(m, intent) == m \in batch /\ msg[m].pc = "taken" /\ msg[m].intent = intent

Goto(m, intent) == msg' = [msg EXCEPT ![m].intent = intent]

Become(m, pc) == msg' = [msg EXCEPT ![m].pc = pc]

(* Mutant: update() instead of updateOrRetry(): a row that is not there    *)
(* yet is passed over.                                                     *)
ExecuteUpdateAnyway(m) ==
  /\ At(m, "update")
  /\ Goto(m, "record")
  /\ UNCHANGED <<batch, tableVars>>

(* updateOrRetry: the condition fails, and the message is to come back.    *)
ExecuteUpdate(m) ==
  /\ At(m, "update")
  /\ IF Awaits[m[1]] \in recorded \union {m[1]}
     THEN Goto(m, "record")
     ELSE Become(m, "failed")
  /\ UNCHANGED <<batch, tableVars>>

(* Mutant: the rest of the intents is skipped once one is deduplicated.    *)
ExecuteRecordOnce(m) ==
  /\ At(m, "record")
  /\ IF m[1] \in recorded THEN Become(m, "handled") ELSE Goto(m, "accumulate")
  /\ recorded' = recorded \union {m[1]}
  /\ UNCHANGED <<batch, marked, total, row>>

ExecuteRecord(m) ==
  /\ At(m, "record")
  /\ recorded' = recorded \union {m[1]}
  /\ Goto(m, "accumulate")
  /\ UNCHANGED <<batch, marked, total, row>>

(* guardedWrite: the marker and the addition in one transaction.           *)
ExecuteAccumulate(m) ==
  /\ At(m, "accumulate")
  /\ IF m[1] \in marked
     THEN UNCHANGED <<marked, total>>
     ELSE /\ marked' = marked \union {m[1]}
          /\ total' = [total EXCEPT ![m[1]] = @ + 1]
  /\ Goto(m, "project")
  /\ UNCHANGED <<batch, recorded, row>>

ExecuteProjectVersioned(m) ==
  /\ At(m, "project")
  /\ row' = IF row < m[1] THEN m[1] ELSE row
  /\ Become(m, "handled")
  /\ UNCHANGED <<batch, recorded, marked, total>>

(* A write fails: an error of the server is retried, a client fault is not *)
(* and drops the message with an error event.                              *)
IntentFails(m) ==
  /\ m \in batch /\ msg[m].pc = "taken"
  /\ \E pc \in {"failed", "dropped"} : Become(m, pc)
  /\ UNCHANGED <<batch, tableVars>>

(* Mutant: no reportBatchItemFailures.                                     *)
ReturnsNothing(m) == FALSE

(* batchItemFailures: what returns to the queue when the others are        *)
(* acknowledged.                                                           *)
Returns(m) == msg[m].pc = "failed"

EndInvocation ==
  /\ batch # {} /\ \A m \in batch : msg[m].pc # "taken"
  /\ msg' = [m \in Messages |->
               IF m \in batch /\ Returns(m) THEN [msg[m] EXCEPT !.pc = "queued"]
               ELSE msg[m]]
  /\ batch' = {}
  /\ UNCHANGED tableVars

(* The invocation dies or times out: all of its messages come back.        *)
CrashIngress ==
  /\ batch # {}
  /\ msg' = [m \in Messages |->
               IF m \in batch THEN [msg[m] EXCEPT !.pc = "queued"] ELSE msg[m]]
  /\ batch' = {}
  /\ UNCHANGED tableVars

IngressStep ==
  \/ \E S \in SUBSET Messages : Invoke(S)
  \/ EndInvocation
  \/ \E m \in Messages :
       \/ DeadLetter(m) \/ ExecuteUpdate(m) \/ ExecuteRecord(m)
       \/ ExecuteAccumulate(m) \/ ExecuteProjectVersioned(m)
=============================================================================
