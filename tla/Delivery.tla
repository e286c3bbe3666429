------------------------------ MODULE Delivery ------------------------------
(***************************************************************************)
(* event-processor from one service's table to another's: Egress publishes *)
(* the changes of the first, EventBridge delivers each publication at some *)
(* time to the queue of the second, Ingress handles it.  Other producers   *)
(* put events on the bus themselves, among them the fetch triggers of the  *)
(* market data adapters, whose events lack userId and region.              *)
(***************************************************************************)
EXTENDS Egress, Ingress

ASSUME DeliveryAssumption == Changes \subseteq Events

vars == <<egressVars, ingressVars, faults>>

Init == EgressInit /\ IngressInit /\ faults = 0

(* An event of a change is delivered once for each time it was put; an     *)
(* event of another producer is put once.                                  *)
Deliverable(m) ==
  m[2] <= IF m[1] \in Changes THEN published[m[1]] ELSE 1

Progress ==
  \/ EgressProgress /\ UNCHANGED ingressVars
  \/ IngressStep /\ UNCHANGED <<egressVars, faults>>
  \/ \E m \in Messages :
       Deliverable(m) /\ Deliver(m) /\ UNCHANGED <<egressVars, faults>>

Faults ==
  \/ EgressFault /\ UNCHANGED ingressVars
  \/ /\ CrashIngress \/ \E m \in Messages : IntentFails(m)
     /\ Fault /\ UNCHANGED egressVars

Next == Progress \/ Faults

Spec == Init /\ [][Next]_vars

(* Lambda polls the stream and the queue for as long as there is anything  *)
(* in them; no step repeats for ever.                                      *)
FairSpec == Spec /\ WF_vars(Progress)

-----------------------------------------------------------------------------

TypeOK ==
  /\ tail \in 0 .. Last /\ image \in [Changes -> Images]
  /\ first \in 1 .. tail + 1
  /\ ends \in Seq(first .. tail)
  /\ tries \in 0 .. RetryAttempts
  /\ out \in [Changes -> Outcomes]
  /\ published \in [Changes -> Nat]
  /\ refused \subseteq Changes /\ given \subseteq Changes
  /\ msg \in [Messages -> Message]
  /\ batch \subseteq Messages
  /\ \A m \in Messages \ batch : msg[m].pc # "taken"
  /\ recorded \subseteq Events /\ marked \subseteq Events
  /\ total \in [Events -> Nat]
  /\ row \in Nat
  /\ faults \in 0 .. MaxFaults

(* What the stream has passed was published, or is in the dead-letter      *)
(* queue, or was refused: a batch that fails in part, is split, and dies   *)
(* between the calls, loses nothing.                                       *)
PassedIsPublished ==
  \A c \in 1 .. first - 1 : published[c] > 0 \/ c \in given \union refused

(* A message that is acknowledged as handled has left all of its writes    *)
(* behind, the addition exactly once, and the projected row is no older    *)
(* than its version: whatever was redelivered after half of the writes,    *)
(* published twice or overtaken.                                           *)
AcknowledgedIsWritten ==
  \A m \in Messages :
    /\ total[m[1]] <= 1
    /\ msg[m].pc = "handled" =>
         m[1] \in recorded /\ total[m[1]] = 1 /\ row >= m[1]

(* Every change comes to be written at the consumer, or an end of it is    *)
(* on record: refused or given up at the egress, dropped with an error     *)
(* event, dead or skipped at the ingress.                                  *)
EveryChangeSettles ==
  \A c \in Changes :
    <>[](\/ c \in recorded /\ total[c] = 1 /\ row >= c
         \/ c \in refused \union given
         \/ \E m \in Messages :
              m[1] = c /\ m \notin batch
                /\ msg[m].pc \in {"dropped", "skipped", "dead"})

(* The consumer's table is a replica: whatever is published twice, split,  *)
(* redelivered, overtaken or cut off half-way, its writes are those of     *)
(* events that have happened, each once, in the handler's order, and after *)
(* the row they wait for.                                                  *)
Happened == {e \in Events : e \in Changes => e <= tail}

Table == INSTANCE Replica WITH happened <- Happened, added <- total

ImplementsReplica == Table!Spec

-----------------------------------------------------------------------------
(* update-or-retry.ts: "SQS will redrive the message until the             *)
(* precondition holds (or maxReceiveCount is exhausted -> DLQ)".  A        *)
(* message leaves the queue handled, dropped with an error event, or for   *)
(* the dead-letter queue.                                                  *)
FailureIsKept ==
  \A m \in Messages \ batch :
    msg[m].pc \in {"none", "queued", "handled", "dropped", "dead"}
=============================================================================
