------------------------------- MODULE Egress -------------------------------
(***************************************************************************)
(* The way out of a service: the changes of its table, in the order of the *)
(* stream, and the Lambda that publishes an event for each of them         *)
(* (changeDataCapture on the EgestionEngine).  The stream hands out a      *)
(* batch at a time, splits a batch that fails and retries a single change  *)
(* a number of times before it gives the change to the dead-letter queue.  *)
(*                                                                         *)
(* One shard, every record processed by itself (no groupBy).  The error    *)
(* event of a refused record is left out: it carries no context, no        *)
(* handler takes it, and a failure to publish it is swallowed.             *)
(***************************************************************************)
EXTENDS Integers, Sequences

CONSTANTS
  Last,           \* changes the table sees, numbered from 1 in its stream
  StreamBatch,    \* most changes in one batch
  RetryAttempts,  \* of a batch of one change
  MaxFaults       \* bound on failing calls and dying invocations

Changes == 1 .. Last

ASSUME EgressAssumption ==
  /\ Last \in Nat /\ StreamBatch \in Nat \ {0} /\ RetryAttempts \in Nat
  /\ MaxFaults \in Nat

VARIABLES
  tail,       \* the newest change
  image,      \* what each change is good for
  first,      \* the oldest change the stream has not passed
  ends,       \* the last change of each batch to be processed, in order
  tries,      \* retries of the batch at the head, once it is a single change
  out,        \* what became of each change in the current invocation
  published,  \* how often an event was put for each change
  refused,    \* changes dropped with a NotRetryableError
  given,      \* changes given to the dead-letter queue of the egress
  faults

egressVars == <<tail, image, first, ends, tries, out, published, refused, given>>

(* A good image, one that violates the contract of its subject, one whose  *)
(* event name the mapping cannot resolve.                                  *)
Images == {"good", "broken", "unresolved"}

Outcomes == {"todo", "sent", "failed", "refused"}

Untouched == [c \in Changes |-> "todo"]

EgressInit ==
  /\ tail = 0 /\ image = [c \in Changes |-> "good"]
  /\ first = 1 /\ ends = <<>> /\ tries = 0
  /\ out = Untouched
  /\ published = [c \in Changes |-> 0]
  /\ refused = {} /\ given = {}

Fault == faults < MaxFaults /\ faults' = faults + 1

-----------------------------------------------------------------------------

HeadEnd == ends[1]

Batch == first .. HeadEnd

Commit ==
  /\ tail < Last
  /\ tail' = tail + 1
  /\ \E i \in Images : image' = [image EXCEPT ![tail'] = i]
  /\ UNCHANGED <<first, ends, tries, out, published, refused, given, faults>>

Poll ==
  /\ ends = <<>>
  /\ \E e \in first .. tail :
       /\ e < first + StreamBatch
       /\ ends' = <<e>>
  /\ UNCHANGED <<tail, image, first, tries, out, published, refused, given, faults>>

Processed(c, outcome) ==
  /\ ends # <<>> /\ c \in Batch /\ out[c] = "todo"
  /\ out' = [out EXCEPT ![c] = outcome]
  /\ UNCHANGED <<tail, image, first, ends, tries, refused, given>>

Put(c, n) == published' = [published EXCEPT ![c] = @ + n]

Publish(c) ==
  /\ image[c] = "good"
  /\ Processed(c, "sent")
  /\ Put(c, 1)
  /\ UNCHANGED faults

(* buildSubject's NotRetryableError; resolveEmissions' Error.              *)
CannotPublish(c) ==
  /\ \/ image[c] = "broken" /\ Processed(c, "refused")
     \/ image[c] = "unresolved" /\ Processed(c, "failed")
  /\ UNCHANGED <<published, faults>>

(* PutEvents is throttled to the end, or fails for good.  Of several       *)
(* entries some may have been taken, and the answer may be what was lost.  *)
PublishFails(c) ==
  /\ image[c] = "good"
  /\ Fault
  /\ \E outcome \in {"failed", "refused"} : Processed(c, outcome)
  /\ \E n \in {0, 1} : Put(c, n)

Pass ==
  /\ first' = HeadEnd + 1
  /\ ends' = Tail(ends)
  /\ tries' = 0

(* Mutant: one retry too many.                                             *)
MayRetryMore == tries <= RetryAttempts

MayRetry == tries < RetryAttempts

(* The stream's answer to a failed invocation.  Splitting a batch does not *)
(* count as a retry.                                                       *)
Retry ==
  /\ out' = Untouched
  /\ \/ /\ first < HeadEnd
        /\ ends' = <<(first + HeadEnd) \div 2>> \o ends
        /\ UNCHANGED <<first, tries, given>>
     \/ /\ first = HeadEnd /\ MayRetry
        /\ tries' = tries + 1
        /\ UNCHANGED <<first, ends, given>>
     \/ /\ first = HeadEnd /\ ~MayRetry
        /\ given' = given \union {first}
        /\ Pass
  /\ UNCHANGED <<tail, image, published, refused>>

(* Mutant: the batch fails only if nothing of it was sent.                 *)
FailsAltogether == \A c \in Batch : out[c] = "failed"

(* One record that can be retried fails the batch, also for the others.    *)
Fails == \E c \in Batch : out[c] = "failed"

EndBatch ==
  /\ ends # <<>> /\ \A c \in Batch : out[c] # "todo"
  /\ IF Fails
     THEN Retry
     ELSE /\ Pass
          /\ out' = Untouched
          /\ refused' = refused \union {c \in Batch : out[c] = "refused"}
          /\ UNCHANGED <<tail, image, published, given>>
  /\ UNCHANGED faults

(* The invocation dies.                                                    *)
CrashEgress == ends # <<>> /\ Fault /\ Retry

EgressProgress ==
  \/ Commit \/ Poll \/ EndBatch
  \/ \E c \in Changes : Publish(c) \/ CannotPublish(c)

EgressFault == CrashEgress \/ \E c \in Changes : PublishFails(c)
=============================================================================
