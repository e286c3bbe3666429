--------------------------- MODULE Delivery_proofs ---------------------------
(***************************************************************************)
(* Proofs about Delivery, for any number of changes, events, copies and    *)
(* retries.  The two halves only meet in what has been published, so each  *)
(* has an invariant of its own.  Egress: the batches that are still to be  *)
(* processed follow one another, so that passing one passes nothing of the *)
(* next.  Ingress: how far a message is in its intents says what has been  *)
(* written for its event, and the marker says how often it was added.      *)
(* That the consumer's table implements Replica.tla needs in addition what *)
(* a message stems from and what it has waited for (Causes).  The last     *)
(* part is what EveryChangeSettles rests on: nothing is lost on the way.   *)
(***************************************************************************)
EXTENDS Delivery, SequenceTheorems, TLAPS

EgressTypes ==
  /\ tail \in 0 .. Last /\ image \in [Changes -> Images]
  /\ first \in 1 .. tail + 1
  /\ ends \in Seq(first .. tail)
  /\ tries \in 0 .. RetryAttempts
  /\ out \in [Changes -> Outcomes]
  /\ published \in [Changes -> Nat]
  /\ refused \subseteq Changes /\ given \subseteq Changes
  /\ faults \in 0 .. MaxFaults

IngressTypes ==
  /\ msg \in [Messages -> Message]
  /\ batch \subseteq Messages
  /\ \A m \in Messages \ batch : msg[m].pc # "taken"
  /\ recorded \subseteq Events /\ marked \subseteq Events
  /\ total \in [Events -> Nat]
  /\ row \in Nat

(* The batches follow one another.                                         *)
InOrder == \A i, j \in 1 .. Len(ends) : i < j => ends[i] < ends[j]

SentIsPublished == \A c \in Changes : out[c] = "sent" => published[c] > 0

EgressInv == EgressTypes /\ InOrder /\ SentIsPublished /\ PassedIsPublished

(* What the intents before the one a message is at have written.           *)
WrittenSoFar ==
  \A m \in Messages :
    /\ msg[m].pc = "taken" /\ msg[m].intent \in {"accumulate", "project"}
         => m[1] \in recorded
    /\ msg[m].pc = "taken" /\ msg[m].intent = "project" => m[1] \in marked
    /\ msg[m].pc = "handled" =>
         m[1] \in recorded /\ m[1] \in marked /\ row >= m[1]

MarkedIsAdded ==
  \A e \in Events : total[e] = IF e \in marked THEN 1 ELSE 0

IngressInv == IngressTypes /\ WrittenSoFar /\ MarkedIsAdded

(* The type invariant, half by half.                                       *)
LEMMA Halves == TypeOK <=> EgressTypes /\ IngressTypes
  BY DEF TypeOK, EgressTypes, IngressTypes

(* The batch at the head consists of changes the table has seen.           *)
LEMMA BatchIsChanges ==
  ASSUME EgressTypes, ends # <<>>
  PROVE  /\ HeadEnd \in first .. tail
         /\ Batch \subseteq Changes
         /\ first \in Changes
  BY EgressAssumption DEF EgressTypes, HeadEnd, Batch, Changes

-----------------------------------------------------------------------------
(* The way out.                                                            *)

(* At the start there are no changes.                                      *)
LEMMA EgressInitially == Init => EgressInv
<1> SUFFICES ASSUME Init PROVE EgressInv
  OBVIOUS
<1> USE EgressAssumption DEF Init, EgressInit
<1>1. EgressTypes
  BY DEF EgressTypes, Images, Outcomes, Untouched
<1>2. InOrder
  BY DEF InOrder
<1>3. SentIsPublished /\ PassedIsPublished
  BY DEF SentIsPublished, PassedIsPublished, Untouched
<1>4. QED
  BY <1>1, <1>2, <1>3 DEF EgressInv

(* A change is looked at: what has been passed is as it was.               *)
LEMMA ProcessedKeeps ==
  ASSUME EgressInv, NEW c \in Changes, NEW outcome \in Outcomes \ {"todo"},
         Processed(c, outcome), NEW n \in Nat, Put(c, n),
         outcome = "sent" => n > 0,
         faults' \in 0 .. MaxFaults
  PROVE  EgressInv'
<1> USE DEF EgressInv, EgressTypes, Processed, Put
<1>1. out' \in [Changes -> Outcomes] /\ published' \in [Changes -> Nat]
  OBVIOUS
<1>2. \A d \in Changes : published'[d] >= published[d]
  OBVIOUS
<1>3. EgressTypes'
  BY <1>1
<1>4. InOrder'
  BY DEF InOrder
<1>5. SentIsPublished'
  BY <1>2 DEF SentIsPublished
<1>6. PassedIsPublished'
  <2> SUFFICES ASSUME NEW d \in 1 .. first - 1
      PROVE  published'[d] > 0 \/ d \in given \union refused
    BY DEF PassedIsPublished
  <2>1. d \in Changes
    BY EgressAssumption DEF Changes
  <2>2. QED
    BY <1>2, <2>1 DEF PassedIsPublished
<1>7. QED
  BY <1>3, <1>4, <1>5, <1>6

(* Passing the head of the batches, once each change in it has an end.     *)
LEMMA PassKeeps ==
  ASSUME EgressInv, ends # <<>>, Pass, out' = Untouched,
         UNCHANGED <<tail, image, published>>,
         refused \subseteq refused', refused' \subseteq Changes,
         given \subseteq given', given' \subseteq Changes,
         \A c \in Batch : published[c] > 0 \/ c \in given' \union refused',
         faults' \in 0 .. MaxFaults
  PROVE  EgressInv'
<1> USE EgressAssumption DEF EgressInv
<1>1. first' \in 1 .. tail' + 1 /\ first' = ends[1] + 1
  BY BatchIsChanges DEF EgressTypes, Pass, HeadEnd
<1>2. /\ ends \in Seq(first .. tail) /\ ends' = Tail(ends) /\ tail' = tail
      /\ first \in Int /\ tail \in Int
  BY DEF EgressTypes, Pass
<1>3. /\ Len(ends) \in Nat \ {0} /\ Len(ends') = Len(ends) - 1
      /\ ends' \in Seq(first .. tail)
      /\ \A i \in 1 .. Len(ends') : ends'[i] = ends[i + 1]
  BY <1>2, EmptySeq, HeadTailProperties
<1>4. ends' \in Seq(first' .. tail')
  <2>1. \A i \in 1 .. Len(ends') : ends'[i] \in first' .. tail'
    <3> SUFFICES ASSUME NEW i \in 1 .. Len(ends') PROVE ends'[i] \in first' .. tail'
      OBVIOUS
    <3>1. i + 1 \in 1 .. Len(ends) /\ 1 \in 1 .. Len(ends)
      BY <1>3
    <3>2. ends[1] < ends[i + 1]
      BY <1>3, <3>1 DEF InOrder
    <3>3. ends[i + 1] \in first .. tail /\ ends[1] \in first .. tail
      BY <1>2, <3>1, ElementOfSeq
    <3>4. QED
      BY <1>1, <1>2, <1>3, <3>2, <3>3
  <2>2. Len(ends') \in Nat /\ ends' \in [1 .. Len(ends') -> first .. tail]
    BY <1>3, LenProperties
  <2>3. ends' \in [1 .. Len(ends') -> first' .. tail']
    BY <2>1, <2>2
  <2>4. ends' \in UNION {[1 .. n -> first' .. tail'] : n \in Nat}
    BY <2>2, <2>3
  <2>5. QED
    BY <2>4, SeqDef
<1>5. EgressTypes'
  <2>1. out' \in [Changes -> Outcomes]
    BY DEF Untouched, Outcomes
  <2>2. tries' \in 0 .. RetryAttempts
    BY DEF Pass
  <2>3. QED
    BY <1>1, <1>4, <2>1, <2>2 DEF EgressTypes
<1>6. InOrder'
  <2> SUFFICES ASSUME NEW i \in 1 .. Len(ends'), NEW j \in 1 .. Len(ends'), i < j
      PROVE  ends'[i] < ends'[j]
    BY DEF InOrder
  <2>1. i + 1 \in 1 .. Len(ends) /\ j + 1 \in 1 .. Len(ends)
    BY <1>3
  <2>2. QED
    BY <1>3, <2>1 DEF InOrder
<1>7. SentIsPublished'
  BY DEF SentIsPublished, Untouched
<1>8. PassedIsPublished'
  <2> SUFFICES ASSUME NEW c \in 1 .. first' - 1
      PROVE  published'[c] > 0 \/ c \in given' \union refused'
    BY DEF PassedIsPublished
  <2>1. CASE c < first
    BY <2>1 DEF PassedIsPublished, EgressTypes
  <2>2. CASE c >= first
    BY <1>1, <2>2 DEF Batch, HeadEnd, EgressTypes
  <2>3. QED
    BY <2>1, <2>2 DEF EgressTypes
<1>9. QED
  BY <1>5, <1>6, <1>7, <1>8

(* A failed batch is split, retried or given up: its changes stay in       *)
(* order.                                                                  *)
LEMMA RetryKeeps ==
  ASSUME EgressInv, ends # <<>>, Retry, faults' \in 0 .. MaxFaults
  PROVE  EgressInv'
<1> USE EgressAssumption DEF EgressInv
<1>0. /\ HeadEnd \in first .. tail /\ first \in Changes
      /\ UNCHANGED <<tail, image, published, refused>> /\ out' = Untouched
  BY BatchIsChanges DEF Retry
<1>1. CASE first < HeadEnd /\ ends' = <<(first + HeadEnd) \div 2>> \o ends
           /\ UNCHANGED <<first, tries, given>>
  <2> DEFINE middle == (first + HeadEnd) \div 2
  <2>1. middle \in first .. tail /\ middle < HeadEnd
    BY <1>0, <1>1 DEF EgressTypes
  <2>2. /\ Len(ends') = Len(ends) + 1 /\ ends'[1] = middle
        /\ \A i \in 2 .. Len(ends') : ends'[i] = ends[i - 1]
        /\ ends' \in Seq(first .. tail)
    BY <1>1, <2>1 DEF EgressTypes
  <2> HIDE DEF middle
  <2>3. \A i \in 1 .. Len(ends) : ends[i] >= HeadEnd /\ ends[i] \in first .. tail
    <3> SUFFICES ASSUME NEW i \in 1 .. Len(ends)
        PROVE  ends[i] >= HeadEnd /\ ends[i] \in first .. tail
      OBVIOUS
    <3>1. ends[i] \in first .. tail
      BY ElementOfSeq DEF EgressTypes
    <3>2. Len(ends) \in Nat /\ 1 \in 1 .. Len(ends)
      BY EmptySeq DEF EgressTypes
    <3>3. i = 1 \/ ends[1] < ends[i]
      BY <3>2 DEF InOrder
    <3>4. QED
      BY <1>0, <3>1, <3>3 DEF HeadEnd, EgressTypes
  <2>4. InOrder'
    <3> SUFFICES ASSUME NEW i \in 1 .. Len(ends'), NEW j \in 1 .. Len(ends'), i < j
        PROVE  ends'[i] < ends'[j]
      BY DEF InOrder
    <3>0. Len(ends) \in Nat
      BY DEF EgressTypes
    <3>1. j \in 2 .. Len(ends') /\ j - 1 \in 1 .. Len(ends) /\ ends'[j] = ends[j - 1]
      BY <2>2, <3>0
    <3>2. CASE i = 1
      BY <1>0, <2>1, <2>2, <2>3, <3>1, <3>2
    <3>3. CASE i # 1
      <4>1. i - 1 \in 1 .. Len(ends) /\ ends'[i] = ends[i - 1] /\ i - 1 < j - 1
        BY <2>2, <3>0, <3>3
      <4>2. QED
        BY <3>1, <4>1 DEF InOrder
    <3>4. QED
      BY <3>2, <3>3
  <2>5. EgressTypes'
    BY <1>0, <1>1, <2>2 DEF EgressTypes, Untouched, Outcomes
  <2>6. QED
    BY <1>0, <1>1, <2>4, <2>5 DEF SentIsPublished, PassedIsPublished, Untouched
<1>2. CASE first = HeadEnd /\ MayRetry /\ tries' = tries + 1
           /\ UNCHANGED <<first, ends, given>>
  <2>1. EgressTypes'
    BY <1>0, <1>2 DEF EgressTypes, Untouched, Outcomes, MayRetry
  <2>2. QED
    BY <1>0, <1>2, <2>1 DEF InOrder, SentIsPublished, PassedIsPublished, Untouched
<1>3. CASE first = HeadEnd /\ given' = given \union {first} /\ Pass
  <2>1. Batch = {first}
    BY <1>0, <1>3 DEF Batch, EgressTypes
  <2>2. refused \subseteq Changes /\ given' \subseteq Changes
    BY <1>0, <1>3 DEF EgressTypes
  <2>3. QED
    BY <1>0, <1>3, <2>1, <2>2, PassKeeps
<1>4. QED
  BY <1>1, <1>2, <1>3 DEF Retry

(* The way out keeps its invariant.                                        *)
LEMMA EgressStep ==
  ASSUME EgressInv, EgressProgress \/ EgressFault
  PROVE  EgressInv'
<1> USE EgressAssumption DEF EgressInv
<1>0. faults \in 0 .. MaxFaults /\ published \in [Changes -> Nat]
  BY DEF EgressTypes
<1>f. Fault => faults' \in 0 .. MaxFaults
  BY <1>0 DEF Fault
<1>1. CASE Commit
  <2>1. EgressTypes'
    <3>1. PICK i \in Images : image' = [image EXCEPT ![tail'] = i]
      BY <1>1 DEF Commit
    <3>2. ends \in Seq(first .. tail')
      BY <1>1 DEF Commit, EgressTypes
    <3>3. tail' = tail + 1 /\ tail' \in 0 .. Last /\ tail' \in Changes
      BY <1>1 DEF Commit, EgressTypes, Changes
    <3>4. image' \in [Changes -> Images]
      BY <3>1 DEF EgressTypes
    <3>5. first' \in 1 .. tail' + 1
      BY <1>1, <3>3 DEF Commit, EgressTypes
    <3>6. QED
      BY <1>1, <3>2, <3>3, <3>4, <3>5 DEF Commit, EgressTypes
  <2>2. QED
    BY <1>1, <2>1 DEF Commit, InOrder, SentIsPublished, PassedIsPublished
<1>2. CASE Poll
  <2>1. PICK e \in first .. tail : ends' = <<e>>
    BY <1>2 DEF Poll
  <2>2. EgressTypes'
    BY <1>2, <2>1 DEF Poll, EgressTypes
  <2>3. InOrder'
    BY <2>1 DEF InOrder
  <2>4. QED
    BY <1>2, <2>2, <2>3 DEF Poll, SentIsPublished, PassedIsPublished
<1>3. CASE EndBatch
  <2>1. CASE Fails
    BY <1>0, <1>3, <2>1, RetryKeeps DEF EndBatch
  <2>2. CASE ~Fails
    <3>1. \A c \in Batch : out[c] \in {"sent", "refused"}
      BY <1>3, <2>2, BatchIsChanges DEF EndBatch, Fails, EgressTypes, Outcomes
    <3>2. \A c \in Batch : published[c] > 0 \/ c \in given' \union refused'
      BY <1>3, <2>2, <3>1, BatchIsChanges DEF EndBatch, SentIsPublished
    <3>3. refused' \subseteq Changes /\ given' \subseteq Changes
      BY <1>3, <2>2, BatchIsChanges DEF EndBatch, EgressTypes
    <3>4. QED
      BY <1>0, <1>3, <2>2, <3>2, <3>3, PassKeeps DEF EndBatch
  <2>3. QED
    BY <2>1, <2>2
<1>4. ASSUME NEW c \in Changes, Publish(c) PROVE EgressInv'
  BY <1>0, <1>4, ProcessedKeeps DEF Publish, Outcomes
<1>5. ASSUME NEW c \in Changes, CannotPublish(c) PROVE EgressInv'
  <2>1. Put(c, 0)
    BY <1>0, <1>5 DEF CannotPublish, Put
  <2>2. QED
    BY <1>0, <1>5, <2>1, ProcessedKeeps DEF CannotPublish, Outcomes
<1>6. ASSUME NEW c \in Changes, PublishFails(c) PROVE EgressInv'
  BY <1>f, <1>6, ProcessedKeeps DEF PublishFails, Outcomes
<1>7. CASE CrashEgress
  BY <1>f, <1>7, RetryKeeps DEF CrashEgress
<1>8. QED
  BY <1>1, <1>2, <1>3, <1>4, <1>5, <1>6, <1>7 DEF EgressProgress, EgressFault

(* A step of the other half, which may be a fault.                         *)
LEMMA EgressApart ==
  ASSUME EgressInv, UNCHANGED egressVars, faults' \in 0 .. MaxFaults
  PROVE  EgressInv'
  BY DEF EgressInv, egressVars, EgressTypes, InOrder, SentIsPublished, PassedIsPublished

-----------------------------------------------------------------------------
(* The way in.                                                             *)

(* A message carries an event, which is a number.                          *)
LEMMA MessageFacts ==
  /\ \A m \in Messages : m[1] \in Events /\ m[1] \in Nat
  /\ \A m \in Messages, S \in SUBSET Events : m[1] \in S \/ m[1] \notin S
  BY IngressAssumption DEF Messages

(* At the start there are no messages and no rows.                         *)
LEMMA IngressInitially == Init => IngressInv
<1> SUFFICES ASSUME Init PROVE IngressInv
  OBVIOUS
<1>1. \A m \in Messages : msg[m] = NoMessage
  BY DEF Init, IngressInit
<1>2. NoMessage \in Message /\ NoMessage.pc = "none"
  BY IngressAssumption DEF NoMessage, Message
<1>3. IngressTypes
  BY <1>2 DEF Init, IngressInit, IngressTypes
<1>4. WrittenSoFar /\ MarkedIsAdded
  BY <1>1, <1>2 DEF Init, IngressInit, WrittenSoFar, MarkedIsAdded
<1>5. QED
  BY <1>3, <1>4 DEF IngressInv

(* Messages change and no row does: no message is handled or gets further  *)
(* in its intents than it was.                                             *)
LEMMA OnlyMessages ==
  ASSUME IngressInv, UNCHANGED tableVars,
         msg' \in [Messages -> Message], batch' \subseteq Messages,
         \A m \in Messages \ batch' : msg'[m].pc # "taken",
         \A m \in Messages :
           \/ msg'[m].pc \notin {"taken", "handled"}
           \/ msg'[m].pc = "taken" /\ msg'[m].intent \in {"update", "record"}
           \/ msg'[m] = msg[m]
  PROVE  IngressInv'
  BY DEF IngressInv, IngressTypes, WrittenSoFar, MarkedIsAdded, tableVars

RowsGrow ==
  /\ recorded \subseteq recorded' /\ recorded' \subseteq Events
  /\ marked \subseteq marked' /\ marked' \subseteq Events
  /\ row' \in Nat /\ row' >= row

(* A message of the batch takes a step, and rows only grow.                *)
LEMMA OneMessage ==
  ASSUME IngressInv, NEW m \in Messages, m \in batch, batch' = batch,
         NEW new \in Message, msg' = [msg EXCEPT ![m] = new],
         RowsGrow, total' \in [Events -> Nat], MarkedIsAdded',
         /\ new.pc = "taken" /\ new.intent \in {"accumulate", "project"}
              => m[1] \in recorded'
         /\ new.pc = "taken" /\ new.intent = "project" => m[1] \in marked'
         /\ new.pc = "handled" =>
              m[1] \in recorded' /\ m[1] \in marked' /\ row' >= m[1]
  PROVE  IngressInv'
<1> USE DEF IngressInv, IngressTypes, RowsGrow
<1>1. IngressTypes'
  OBVIOUS
<1>2. WrittenSoFar'
  <2> SUFFICES ASSUME NEW n \in Messages
      PROVE  /\ msg'[n].pc = "taken" /\ msg'[n].intent \in {"accumulate", "project"}
                  => n[1] \in recorded'
             /\ msg'[n].pc = "taken" /\ msg'[n].intent = "project" => n[1] \in marked'
             /\ msg'[n].pc = "handled" =>
                  n[1] \in recorded' /\ n[1] \in marked' /\ row' >= n[1]
    BY DEF WrittenSoFar
  <2>1. CASE n = m
    BY <2>1
  <2>2. CASE n # m
    BY <2>2, MessageFacts DEF WrittenSoFar
  <2>3. QED
    BY <2>1, <2>2
<1>3. QED
  BY <1>1, <1>2

(* What becomes of a message that is at an intent.                         *)
LEMMA Moves ==
  ASSUME IngressInv, NEW m \in Messages
  PROVE  /\ \A intent \in {"update", "record", "accumulate", "project"} :
              Goto(m, intent) =>
                \E new \in Message :
                  /\ msg' = [msg EXCEPT ![m] = new]
                  /\ new.pc = msg[m].pc /\ new.intent = intent
         /\ \A pc \in {"queued", "taken", "handled", "failed", "dropped", "skipped", "dead"} :
              Become(m, pc) =>
                \E new \in Message :
                  /\ msg' = [msg EXCEPT ![m] = new]
                  /\ new.pc = pc /\ new.intent = msg[m].intent
<1>1. msg[m] \in Message
  BY DEF IngressInv, IngressTypes
<1>2. ASSUME NEW intent \in {"update", "record", "accumulate", "project"},
             Goto(m, intent)
      PROVE  \E new \in Message :
               /\ msg' = [msg EXCEPT ![m] = new]
               /\ new.pc = msg[m].pc /\ new.intent = intent
  <2> DEFINE new == [msg[m] EXCEPT !.intent = intent]
  <2>1. new \in Message /\ new.pc = msg[m].pc /\ new.intent = intent
    BY <1>1 DEF Message
  <2>2. msg' = [msg EXCEPT ![m] = new]
    BY <1>2 DEF Goto, IngressInv, IngressTypes
  <2>3. QED
    BY <2>1, <2>2
<1>3. ASSUME NEW pc \in {"queued", "taken", "handled", "failed", "dropped", "skipped", "dead"},
             Become(m, pc)
      PROVE  \E new \in Message :
               /\ msg' = [msg EXCEPT ![m] = new]
               /\ new.pc = pc /\ new.intent = msg[m].intent
  <2> DEFINE new == [msg[m] EXCEPT !.pc = pc]
  <2>1. new \in Message /\ new.pc = pc /\ new.intent = msg[m].intent
    BY <1>1 DEF Message
  <2>2. msg' = [msg EXCEPT ![m] = new]
    BY <1>3 DEF Become, IngressInv, IngressTypes
  <2>3. QED
    BY <2>1, <2>2
<1>4. QED
  BY <1>2, <1>3

(* A message that is taken begins with its first intent.                   *)
LEMMA InvokeKeeps ==
  ASSUME IngressInv, NEW S \in SUBSET Messages, Invoke(S)
  PROVE  IngressInv'
<1> USE IngressAssumption
<1>0. msg \in [Messages -> Message] /\ batch = {} /\ UNCHANGED tableVars
  BY DEF IngressInv, IngressTypes, Invoke
<1>1. \A m \in S, pc \in {"queued", "skipped", "taken"} :
        /\ Received(m, pc) \in Message
        /\ Received(m, pc).pc = pc /\ Received(m, pc).intent = "update"
  BY <1>0 DEF Received, Invoke, Message
<1>2. CASE \E m \in S : m[1] \in Malformed /\ ~IsPoison(m)
  <2>1. msg' = [m \in Messages |-> IF m \in S THEN Received(m, "queued") ELSE msg[m]]
        /\ UNCHANGED batch
    BY <1>2 DEF Invoke
  <2>2. msg' \in [Messages -> Message]
    BY <1>0, <1>1, <2>1
  <2>3. \A m \in Messages : msg'[m].pc = "queued" \/ msg'[m] = msg[m]
    BY <1>1, <2>1
  <2>4. \A m \in Messages : msg[m].pc # "taken"
    BY <1>0 DEF IngressInv, IngressTypes
  <2>5. \A m \in Messages \ batch' : msg'[m].pc # "taken"
    BY <2>3, <2>4
  <2>6. QED
    BY <1>0, <2>1, <2>2, <2>3, <2>5, OnlyMessages
<1>3. CASE ~\E m \in S : m[1] \in Malformed /\ ~IsPoison(m)
  <2>1. /\ msg' = [m \in Messages |->
                     IF m \notin S THEN msg[m]
                     ELSE Received(m, IF IsPoison(m) THEN "skipped" ELSE "taken")]
        /\ batch' = S
    BY <1>3 DEF Invoke
  <2>2. \A m \in Messages :
          \/ m \notin S /\ msg'[m] = msg[m]
          \/ m \in S /\ msg'[m] \in Message /\ msg'[m].pc = "skipped"
          \/ m \in S /\ msg'[m] \in Message /\ msg'[m].pc = "taken" /\ msg'[m].intent = "update"
    BY <1>1, <2>1
  <2>3. msg' \in [Messages -> Message]
    <3>1. \A m \in Messages : msg'[m] \in Message
      BY <1>0, <2>2
    <3>2. QED
      BY <2>1, <3>1
  <2>4. \A m \in Messages \ batch' : msg'[m].pc # "taken"
    BY <1>0, <2>1, <2>2 DEF IngressInv, IngressTypes
  <2>5. QED
    BY <1>0, <2>1, <2>2, <2>3, <2>4, OnlyMessages
<1>4. QED
  BY <1>2, <1>3

(* The end of an invocation, however it comes: some of its messages are    *)
(* put back, among them all that are still being handled.                  *)
LEMMA EndKeeps ==
  ASSUME IngressInv, batch' = {}, UNCHANGED tableVars,
         NEW S \in SUBSET batch,
         \A m \in batch \ S : msg[m].pc # "taken",
         msg' = [m \in Messages |->
                   IF m \in S THEN [msg[m] EXCEPT !.pc = "queued"] ELSE msg[m]]
  PROVE  IngressInv'
<1>0. msg \in [Messages -> Message] /\ batch \subseteq Messages
  BY DEF IngressInv, IngressTypes
<1>1. \A m \in Messages :
        /\ [msg[m] EXCEPT !.pc = "queued"] \in Message
        /\ [msg[m] EXCEPT !.pc = "queued"].pc = "queued"
  BY <1>0 DEF Message
<1>2. msg' \in [Messages -> Message]
  BY <1>0, <1>1
<1>3. \A m \in Messages :
        \/ m \in S /\ msg'[m].pc = "queued"
        \/ m \notin S /\ msg'[m] = msg[m]
  BY <1>1
<1>4. \A m \in Messages \ batch' : msg'[m].pc # "taken"
  BY <1>3 DEF IngressInv, IngressTypes
<1>5. QED
  BY <1>2, <1>3, <1>4, OnlyMessages

(* The way in keeps its invariant, intent by intent.                       *)
LEMMA IngressStepKeeps ==
  ASSUME IngressInv, IngressStep
  PROVE  IngressInv'
<1> USE MessageFacts
<1>0. /\ msg \in [Messages -> Message] /\ batch \subseteq Messages
      /\ recorded \subseteq Events /\ marked \subseteq Events
      /\ total \in [Events -> Nat] /\ row \in Nat /\ MarkedIsAdded
  BY DEF IngressInv, IngressTypes
<1>1. ASSUME NEW S \in SUBSET Messages, Invoke(S) PROVE IngressInv'
  BY <1>1, InvokeKeeps
<1>2. CASE EndInvocation
  <2> DEFINE S == {m \in batch : Returns(m)}
  <2>1. msg' = [m \in Messages |->
                  IF m \in S THEN [msg[m] EXCEPT !.pc = "queued"] ELSE msg[m]]
    BY <1>2 DEF EndInvocation
  <2>2. QED
    BY <1>2, <2>1, EndKeeps DEF EndInvocation
<1>3. ASSUME NEW m \in Messages, DeadLetter(m) PROVE IngressInv'
  <2>1. [msg[m] EXCEPT !.pc = "dead"] \in Message
    BY <1>0 DEF Message
  <2>2. msg' \in [Messages -> Message]
    BY <1>0, <1>3, <2>1 DEF DeadLetter
  <2>3. \A n \in Messages :
          \/ n = m /\ msg'[n].pc = "dead"
          \/ n # m /\ msg'[n] = msg[n]
    BY <1>0, <1>3, <2>1 DEF DeadLetter, Message
  <2>4. \A n \in Messages \ batch' : msg'[n].pc # "taken"
    BY <1>3, <2>3 DEF DeadLetter, IngressInv, IngressTypes
  <2>5. QED
    BY <1>0, <1>3, <2>2, <2>3, <2>4, OnlyMessages DEF DeadLetter
<1>4. ASSUME NEW m \in Messages, ExecuteUpdate(m) PROVE IngressInv'
  <2>1. PICK new \in Message :
          /\ msg' = [msg EXCEPT ![m] = new]
          /\ \/ new.pc = "taken" /\ new.intent = "record"
             \/ new.pc = "failed"
    BY <1>4, Moves DEF ExecuteUpdate, At
  <2>2. /\ m \in batch /\ batch' = batch /\ MarkedIsAdded' /\ total' \in [Events -> Nat]
        /\ recorded' = recorded /\ marked' = marked /\ row' = row
    BY <1>0, <1>4 DEF ExecuteUpdate, At, tableVars, MarkedIsAdded
  <2>3. RowsGrow
    BY <1>0, <2>2 DEF RowsGrow
  <2>4. QED
    BY <2>1, <2>2, <2>3, OneMessage
<1>5. ASSUME NEW m \in Messages, ExecuteRecord(m) PROVE IngressInv'
  <2>1. PICK new \in Message :
          /\ msg' = [msg EXCEPT ![m] = new]
          /\ new.pc = "taken" /\ new.intent = "accumulate"
    BY <1>5, Moves DEF ExecuteRecord, At
  <2>2. /\ m \in batch /\ batch' = batch /\ MarkedIsAdded' /\ total' \in [Events -> Nat]
        /\ recorded' = recorded \union {m[1]}
        /\ marked' = marked /\ row' = row
    BY <1>0, <1>5 DEF ExecuteRecord, At, MarkedIsAdded
  <2>3. RowsGrow
    BY <1>0, <2>2 DEF RowsGrow
  <2>4. QED
    BY <2>1, <2>2, <2>3, OneMessage
<1>6. ASSUME NEW m \in Messages, ExecuteAccumulate(m) PROVE IngressInv'
  <2>1. PICK new \in Message :
          /\ msg' = [msg EXCEPT ![m] = new]
          /\ new.pc = "taken" /\ new.intent = "project"
    BY <1>6, Moves DEF ExecuteAccumulate, At
  <2>2. m \in batch /\ m[1] \in recorded /\ UNCHANGED <<batch, recorded, row>>
    BY <1>6 DEF ExecuteAccumulate, At, IngressInv, WrittenSoFar
  <2>3. marked' = marked \union {m[1]} /\ total' \in [Events -> Nat] /\ MarkedIsAdded'
    <3>1. CASE m[1] \in marked
      BY <1>0, <1>6, <3>1 DEF ExecuteAccumulate, MarkedIsAdded
    <3>2. CASE m[1] \notin marked
      <4>1. marked' = marked \union {m[1]} /\ total' = [total EXCEPT ![m[1]] = @ + 1]
        BY <1>6, <3>2 DEF ExecuteAccumulate
      <4>2. total[m[1]] = 0
        BY <1>0, <3>2 DEF MarkedIsAdded
      <4>3. QED
        BY <1>0, <4>1, <4>2 DEF MarkedIsAdded
    <3>3. QED
      BY <3>1, <3>2
  <2>4. RowsGrow
    BY <1>0, <2>2, <2>3 DEF RowsGrow
  <2>5. QED
    BY <2>1, <2>2, <2>3, <2>4, OneMessage
<1>7. ASSUME NEW m \in Messages, ExecuteProjectVersioned(m) PROVE IngressInv'
  <2>1. PICK new \in Message : msg' = [msg EXCEPT ![m] = new] /\ new.pc = "handled"
    BY <1>7, Moves DEF ExecuteProjectVersioned, At
  <2>2. /\ m \in batch /\ m[1] \in recorded /\ m[1] \in marked
        /\ batch' = batch /\ recorded' = recorded
        /\ marked' = marked /\ total' \in [Events -> Nat]
    BY <1>0, <1>7 DEF ExecuteProjectVersioned, At, IngressInv, WrittenSoFar
  <2>3. row' \in Nat /\ row' >= row /\ row' >= m[1] /\ MarkedIsAdded'
    BY <1>0, <1>7, <2>2 DEF ExecuteProjectVersioned, MarkedIsAdded
  <2>4. RowsGrow
    BY <1>0, <2>2, <2>3 DEF RowsGrow
  <2>5. QED
    BY <2>1, <2>2, <2>3, <2>4, OneMessage
<1>8. QED
  BY <1>1, <1>2, <1>3, <1>4, <1>5, <1>6, <1>7 DEF IngressStep

(* A crash or a failing write leaves what was written.                     *)
LEMMA IngressFaultKeeps ==
  ASSUME IngressInv, CrashIngress \/ \E m \in Messages : IntentFails(m)
  PROVE  IngressInv'
<1>0. /\ msg \in [Messages -> Message] /\ batch \subseteq Messages
      /\ recorded \subseteq Events /\ marked \subseteq Events
      /\ total \in [Events -> Nat] /\ row \in Nat /\ MarkedIsAdded
  BY DEF IngressInv, IngressTypes
<1>1. CASE CrashIngress
  BY <1>1, EndKeeps DEF CrashIngress
<1>2. ASSUME NEW m \in Messages, IntentFails(m) PROVE IngressInv'
  <2>1. PICK new \in Message :
          msg' = [msg EXCEPT ![m] = new] /\ new.pc \in {"failed", "dropped"}
    BY <1>2, Moves DEF IntentFails
  <2>2. /\ m \in batch /\ batch' = batch /\ MarkedIsAdded' /\ total' \in [Events -> Nat]
        /\ recorded' = recorded /\ marked' = marked /\ row' = row
    BY <1>0, <1>2 DEF IntentFails, tableVars, MarkedIsAdded
  <2>3. RowsGrow
    BY <1>0, <2>2 DEF RowsGrow
  <2>4. QED
    BY <2>1, <2>2, <2>3, OneMessage
<1>3. QED
  BY <1>1, <1>2

(* A delivered message has written nothing.                                *)
LEMMA DeliverKeeps ==
  ASSUME IngressInv, NEW m \in Messages, Deliver(m)
  PROVE  IngressInv'
<1>0. msg \in [Messages -> Message]
  BY DEF IngressInv, IngressTypes
<1>1. [msg[m] EXCEPT !.pc = "queued"] \in Message
      /\ [msg[m] EXCEPT !.pc = "queued"].pc = "queued"
  BY <1>0 DEF Message
<1>2. msg' \in [Messages -> Message]
  BY <1>0, <1>1 DEF Deliver
<1>3. \A n \in Messages :
        \/ n = m /\ msg'[n].pc = "queued"
        \/ n # m /\ msg'[n] = msg[n]
  BY <1>0, <1>1 DEF Deliver
<1>4. \A n \in Messages \ batch' : msg'[n].pc # "taken"
  BY <1>3 DEF Deliver, IngressInv, IngressTypes
<1>5. QED
  BY <1>2, <1>3, <1>4, OnlyMessages DEF Deliver, IngressInv, IngressTypes

(* The way in is not disturbed by the other half.                          *)
LEMMA IngressApart ==
  ASSUME IngressInv, UNCHANGED ingressVars
  PROVE  IngressInv'
  BY DEF IngressInv, ingressVars, IngressTypes, WrittenSoFar, MarkedIsAdded

-----------------------------------------------------------------------------
(* The two together.                                                       *)

IInv == EgressInv /\ IngressInv

(* Each half keeps its invariant while the other moves.                    *)
LEMMA IInvStep == IInv /\ [Next]_vars => IInv'
<1> SUFFICES ASSUME IInv, [Next]_vars PROVE IInv'
  OBVIOUS
<1>0. EgressInv /\ IngressInv /\ faults \in 0 .. MaxFaults
  BY DEF IInv, EgressInv, EgressTypes
<1>f. Fault => faults' \in 0 .. MaxFaults
  BY <1>0, EgressAssumption DEF Fault
<1>1. CASE (EgressProgress \/ EgressFault) /\ UNCHANGED ingressVars
  BY <1>0, <1>1, EgressStep, IngressApart DEF IInv
<1>2. CASE IngressStep /\ UNCHANGED <<egressVars, faults>>
  BY <1>0, <1>2, IngressStepKeeps, EgressApart DEF IInv
<1>3. ASSUME NEW m \in Messages, Deliver(m), UNCHANGED <<egressVars, faults>>
      PROVE  IInv'
  BY <1>0, <1>3, DeliverKeeps, EgressApart DEF IInv
<1>4. CASE /\ CrashIngress \/ \E m \in Messages : IntentFails(m)
           /\ Fault /\ UNCHANGED egressVars
  BY <1>0, <1>f, <1>4, IngressFaultKeeps, EgressApart DEF IInv
<1>5. CASE UNCHANGED vars
  BY <1>0, <1>5, EgressApart, IngressApart DEF IInv, vars
<1>6. QED
  BY <1>1, <1>2, <1>3, <1>4, <1>5 DEF Next, Progress, Faults

(* Both invariants hold for good.                                          *)
LEMMA IInvAlways == Spec => []IInv
<1>1. Init => IInv
  BY EgressInitially, IngressInitially DEF IInv
<1>2. QED
  BY <1>1, IInvStep, PTL DEF Spec

(* Every variable of the two halves keeps its type; in particular nothing  *)
(* is handled that is not in the batch, and no batch reaches beyond the    *)
(* stream (egestion-engine.ts, ingestion-engine.ts).                       *)
THEOREM DeliveryTypeCorrect == Spec => []TypeOK
<1>1. IInv => TypeOK
  BY Halves DEF IInv, EgressInv, IngressInv
<1>2. QED
  BY <1>1, IInvAlways, PTL

(* Nothing the stream has passed is lost: it was published, refused, or    *)
(* given to the dead-letter queue (egestion-engine.ts, egress.ts).         *)
THEOREM DeliveryPassedIsPublished == Spec => []PassedIsPublished
<1>1. IInv => PassedIsPublished
  BY DEF IInv, EgressInv
<1>2. QED
  BY <1>1, IInvAlways, PTL

(* A message that is acknowledged as handled has all of its writes, the    *)
(* addition exactly once (ingestion-engine.ts, intent-executor.ts).        *)
THEOREM DeliveryAcknowledgedIsWritten == Spec => []AcknowledgedIsWritten
<1>1. IInv => AcknowledgedIsWritten
  <2> SUFFICES ASSUME IngressInv, NEW m \in Messages
      PROVE  /\ total[m[1]] <= 1
             /\ msg[m].pc = "handled" =>
                  m[1] \in recorded /\ total[m[1]] = 1 /\ row >= m[1]
    BY DEF IInv, AcknowledgedIsWritten
  <2>1. m[1] \in Events /\ total[m[1]] = IF m[1] \in marked THEN 1 ELSE 0
    BY MessageFacts DEF IngressInv, MarkedIsAdded
  <2>2. QED
    BY <2>1 DEF IngressInv, WrittenSoFar
<1>2. QED
  BY <1>1, IInvAlways, PTL

-----------------------------------------------------------------------------
(* The consumer's table is a replica.                                      *)

(* What is published has happened, what is delivered has been published,   *)
(* and a message that is past its update has found the row it waits for.   *)
Causes ==
  /\ \A c \in Changes : published[c] > 0 => c <= tail
  /\ \A m \in Messages : msg[m].pc # "none" => m[1] \in Happened
  /\ \A m \in Messages :
       msg[m].pc = "taken" /\ msg[m].intent # "update"
         => Awaits[m[1]] \in recorded \union {m[1]}
  /\ \A m \in batch : msg[m].pc # "none"

(* At the start nothing is published, delivered or handled.                *)
LEMMA CausesInitially == Init => Causes
<1> SUFFICES ASSUME Init PROVE Causes
  OBVIOUS
<1>1. \A m \in Messages : msg[m] = NoMessage
  BY DEF Init, IngressInit
<1>2. \A m \in Messages : msg[m].pc = "none"
  BY <1>1 DEF NoMessage
<1>3. \A c \in Changes : published[c] = 0
  BY DEF Init, EgressInit
<1>4. batch = {}
  BY DEF Init, IngressInit
<1> QED
  BY <1>2, <1>3, <1>4 DEF Causes

(* The table of the producer grows by a change at a time, and only what is *)
(* in it is published.                                                     *)
LEMMA EgressHappens ==
  ASSUME EgressInv, EgressProgress \/ EgressFault,
         \A c \in Changes : published[c] > 0 => c <= tail
  PROVE  /\ \A c \in Changes : published'[c] > 0 => c <= tail'
         /\ \/ Happened' = Happened
            \/ \E e \in Events : Happened' = Happened \union {e}
<1> USE EgressAssumption
<1>0. EgressTypes /\ tail \in Nat
  BY DEF EgressInv, EgressTypes
<1>1. CASE Commit
  <2>1. /\ tail' = tail + 1 /\ tail' \in Changes /\ published' = published
    BY <1>0, <1>1 DEF Commit, Changes
  <2>2. tail' \in Events
    BY <2>1, DeliveryAssumption
  <2>3. Happened' = Happened \union {tail'}
    <3>1. \A e \in Events : (e \in Changes => e <= tail + 1) <=>
                            (e \in Changes => e <= tail) \/ e = tail + 1
      BY <1>0, <2>1 DEF Changes
    <3> QED
      BY <2>1, <2>2, <3>1 DEF Happened
  <2> QED
    BY <1>0, <2>1, <2>2, <2>3 DEF Changes
<1>2. ASSUME NEW c \in Changes, NEW outcome, NEW n, Processed(c, outcome), Put(c, n)
      PROVE  /\ \A d \in Changes : published'[d] > 0 => d <= tail'
             /\ Happened' = Happened
  <2>1. c <= tail /\ tail' = tail
    BY <1>0, <1>2, BatchIsChanges DEF Processed, Batch, Changes
  <2>2. \A d \in Changes : d # c => published'[d] = published[d]
    BY <1>0, <1>2 DEF Put, EgressTypes
  <2> QED
    BY <2>1, <2>2 DEF Happened
<1>3. CASE Poll \/ EndBatch \/ CrashEgress \/ \E c \in Changes : CannotPublish(c)
  <2>1. UNCHANGED <<tail, published>>
    BY <1>3 DEF Poll, EndBatch, CrashEgress, CannotPublish, Processed, Retry, Pass
  <2> QED
    BY <2>1 DEF Happened
<1> QED
  BY <1>1, <1>2, <1>3 DEF EgressProgress, EgressFault, Publish, PublishFails

(* A message enters the queue when it is delivered, and gets past its      *)
(* update when the row it waits for is there.                              *)
LEMMA MessagesAdvance ==
  ASSUME IngressInv, \A m \in batch : msg[m].pc # "none",
         IngressStep \/ CrashIngress \/ \E m \in Messages : IntentFails(m)
  PROVE  /\ recorded \subseteq recorded'
         /\ \A m \in batch' : msg'[m].pc # "none"
         /\ \A m \in Messages :
              /\ msg'[m].pc # "none" => msg[m].pc # "none"
              /\ msg'[m].pc = "taken" /\ msg'[m].intent # "update" =>
                   /\ msg[m].pc = "taken"
                   /\ \/ msg[m].intent # "update"
                      \/ Awaits[m[1]] \in recorded \union {m[1]}
<1> DEFINE Advances(m) ==
      /\ msg'[m].pc # "none" => msg[m].pc # "none"
      /\ msg'[m].pc = "taken" /\ msg'[m].intent # "update" =>
           /\ msg[m].pc = "taken"
           /\ \/ msg[m].intent # "update"
              \/ Awaits[m[1]] \in recorded \union {m[1]}
<1>0. msg \in [Messages -> Message] /\ batch \subseteq Messages
  BY DEF IngressInv, IngressTypes
<1>m. ASSUME NEW m \in Messages, NEW new \in Message, msg' = [msg EXCEPT ![m] = new],
             Advances(m)
      PROVE  \A n \in Messages : Advances(n)
  BY <1>0, <1>m
<1>1. ASSUME NEW S \in SUBSET Messages, Invoke(S)
      PROVE  \A m \in Messages : Advances(m)
  <2>1. \A m \in Messages :
          \/ msg'[m] = msg[m]
          \/ m \in S /\ \E pc \in {"queued", "taken", "skipped"} : msg'[m] = Received(m, pc)
    BY <1>1 DEF Invoke
  <2>2. \A m \in S : msg[m].pc = "queued"
    BY <1>1 DEF Invoke
  <2>3. \A m \in Messages, pc \in {"queued", "taken", "skipped"} :
          Received(m, pc).pc = pc /\ Received(m, pc).intent = "update"
    BY DEF Received
  <2> HIDE DEF Advances
  <2> SUFFICES ASSUME NEW m \in Messages PROVE Advances(m)
    OBVIOUS
  <2>4. CASE msg'[m] = msg[m]
    BY <2>4 DEF Advances
  <2>5. CASE m \in S /\ \E pc \in {"queued", "taken", "skipped"} : msg'[m] = Received(m, pc)
    BY <2>2, <2>3, <2>5 DEF Advances
  <2> QED
    BY <2>1, <2>4, <2>5
<1>2. ASSUME EndInvocation \/ CrashIngress
      PROVE  \A m \in Messages : Advances(m)
  <2>1. PICK S \in SUBSET batch :
          /\ \A m \in batch : m \in S => msg[m].pc \in {"failed", "taken"} \/ CrashIngress
          /\ msg' = [m \in Messages |->
                       IF m \in S THEN [msg[m] EXCEPT !.pc = "queued"] ELSE msg[m]]
    <3>1. CASE EndInvocation
      <4> DEFINE S == {m \in batch : Returns(m)}
      <4>1. /\ \A m \in S : msg[m].pc = "failed"
            /\ msg' = [m \in Messages |->
                         IF m \in S THEN [msg[m] EXCEPT !.pc = "queued"] ELSE msg[m]]
        BY <3>1 DEF EndInvocation, Returns
      <4> QED
        BY <4>1
    <3>2. CASE CrashIngress
      BY <3>2 DEF CrashIngress
    <3> QED
      BY <1>2, <3>1, <3>2
  <2>2. \A m \in Messages : [msg[m] EXCEPT !.pc = "queued"].pc = "queued"
    BY <1>0 DEF Message
  <2>3. \A m \in S : msg[m].pc # "none"
    BY <2>1
  <2> SUFFICES ASSUME NEW m \in Messages PROVE Advances(m)
    OBVIOUS
  <2>4. CASE m \in S
    <3>1. msg'[m].pc = "queued"
      BY <2>1, <2>2, <2>4
    <3> QED
      BY <2>3, <2>4, <3>1
  <2>5. CASE m \notin S
    <3>1. msg'[m] = msg[m]
      BY <2>1, <2>5
    <3> QED
      BY <3>1
  <2> QED
    BY <2>4, <2>5
<1>3. ASSUME NEW m \in Messages,
             DeadLetter(m) \/ ExecuteProjectVersioned(m) \/ IntentFails(m)
      PROVE  \A n \in Messages : Advances(n)
  <2>1. msg[m].pc \in {"queued", "taken"}
    BY <1>3 DEF DeadLetter, ExecuteProjectVersioned, IntentFails, At
  <2>2. PICK pc \in {"dead", "handled", "failed", "dropped"} :
          msg' = [msg EXCEPT ![m].pc = pc]
    BY <1>3 DEF DeadLetter, ExecuteProjectVersioned, IntentFails, Become
  <2>3. /\ \A n \in Messages : n # m => msg'[n] = msg[n]
        /\ msg'[m].pc = pc
    BY <1>0, <2>2 DEF Message
  <2> QED
    BY <2>1, <2>3
<1>4. ASSUME NEW m \in Messages, ExecuteUpdate(m) \/ ExecuteRecord(m) \/ ExecuteAccumulate(m)
      PROVE  \A n \in Messages : Advances(n)
  <2>1. msg[m].pc = "taken"
    BY <1>4 DEF ExecuteUpdate, ExecuteRecord, ExecuteAccumulate, At
  <2>2. \/ msg' = [msg EXCEPT ![m].pc = "failed"]
        \/ \E intent \in {"record", "accumulate", "project"} :
             /\ msg' = [msg EXCEPT ![m].intent = intent]
             /\ msg[m].intent # "update" \/ Awaits[m[1]] \in recorded \union {m[1]}
    BY <1>4 DEF ExecuteUpdate, ExecuteRecord, ExecuteAccumulate, At, Become, Goto
  <2>3. \A n \in Messages : n # m => msg'[n] = msg[n]
    BY <1>0, <2>2
  <2>4. CASE msg' = [msg EXCEPT ![m].pc = "failed"]
    <3>1. msg'[m].pc = "failed"
      BY <1>0, <2>4 DEF Message
    <3> QED
      BY <2>1, <2>3, <3>1
  <2>5. ASSUME NEW intent \in {"record", "accumulate", "project"},
               msg' = [msg EXCEPT ![m].intent = intent],
               msg[m].intent # "update" \/ Awaits[m[1]] \in recorded \union {m[1]}
        PROVE  \A n \in Messages : Advances(n)
    <3>1. msg'[m].pc = msg[m].pc
      BY <1>0, <2>5 DEF Message
    <3>2. Advances(m)
      BY <2>1, <2>5, <3>1
    <3> QED
      BY <2>3, <3>2
  <2> QED
    BY <2>2, <2>4, <2>5
<1>5. recorded \subseteq recorded'
  BY DEF IngressStep, Invoke, EndInvocation, DeadLetter, ExecuteUpdate, ExecuteRecord,
    ExecuteAccumulate, ExecuteProjectVersioned, CrashIngress, IntentFails, tableVars
<1>6. \A m \in batch' : msg'[m].pc # "none"
  <2>1. ASSUME NEW S \in SUBSET Messages, Invoke(S), NEW m \in batch'
        PROVE  msg'[m].pc # "none"
    BY <1>0, <2>1 DEF Invoke, Received, IngressInv, IngressTypes
  <2>2. CASE EndInvocation \/ CrashIngress
    BY <2>2 DEF EndInvocation, CrashIngress
  <2>3. ASSUME NEW m \in Messages, NEW n \in batch',
               \/ DeadLetter(m) \/ ExecuteUpdate(m) \/ ExecuteRecord(m)
               \/ ExecuteAccumulate(m) \/ ExecuteProjectVersioned(m) \/ IntentFails(m)
        PROVE  msg'[n].pc # "none"
    <3>1. n \in batch /\ msg[n].pc # "none"
      BY <2>3 DEF DeadLetter, ExecuteUpdate, ExecuteRecord, ExecuteAccumulate,
        ExecuteProjectVersioned, IntentFails
    <3>2. \/ \E pc \in {"dead", "handled", "failed", "dropped"} :
               msg' = [msg EXCEPT ![m].pc = pc]
          \/ \E intent \in {"record", "accumulate", "project"} :
               msg' = [msg EXCEPT ![m].intent = intent]
      BY <2>3 DEF DeadLetter, ExecuteUpdate, ExecuteRecord, ExecuteAccumulate,
        ExecuteProjectVersioned, IntentFails, Become, Goto
    <3> QED
      BY <1>0, <3>1, <3>2 DEF Message
  <2> QED
    BY <2>1, <2>2, <2>3 DEF IngressStep
<1> QED
  BY <1>1, <1>2, <1>3, <1>4, <1>5, <1>6 DEF IngressStep

(* A delivery follows a publication, and that a change; rows stay.         *)
LEMMA CausesPreserved == IInv /\ Causes /\ [Next]_vars => Causes'
<1> SUFFICES ASSUME IInv, Causes, [Next]_vars PROVE Causes'
  OBVIOUS
<1>0. EgressInv /\ IngressInv
  BY DEF IInv
<1>1. CASE (EgressProgress \/ EgressFault) /\ UNCHANGED ingressVars
  BY <1>0, <1>1, EgressHappens DEF Causes, ingressVars
<1>2. CASE /\ IngressStep \/ CrashIngress \/ \E m \in Messages : IntentFails(m)
           /\ UNCHANGED egressVars
  <2>1. UNCHANGED <<tail, published>> /\ Happened' = Happened
    BY <1>2 DEF egressVars, Happened
  <2> QED
    BY <1>0, <1>2, <2>1, MessagesAdvance DEF Causes
<1>3. ASSUME NEW m \in Messages, Deliverable(m), Deliver(m), UNCHANGED <<egressVars, faults>>
      PROVE  Causes'
  <2>1. UNCHANGED <<tail, published, recorded>> /\ Happened' = Happened
    BY <1>3 DEF egressVars, Happened, Deliver, tableVars
  <2>2. msg' = [msg EXCEPT ![m].pc = "queued"] /\ msg \in [Messages -> Message]
    BY <1>0, <1>3 DEF Deliver, IngressInv, IngressTypes
  <2>3. m[1] \in Events /\ m[2] \in Nat /\ m[2] >= 1
    BY IngressAssumption DEF Messages
  <2>4. m[1] \in Happened
    <3>1. m[1] \in Changes => published[m[1]] > 0
      BY <1>0, <1>3, <2>3 DEF Deliverable, EgressInv, EgressTypes
    <3> QED
      BY <2>3, <3>1 DEF Happened, Causes
  <2>5. /\ \A n \in Messages : n # m => msg'[n] = msg[n]
        /\ msg'[m].pc = "queued"
    BY <1>0, <2>2 DEF IngressInv, IngressTypes, Message
  <2>6. \A n \in Messages : msg'[n].pc # "none" => n[1] \in Happened
    BY <2>4, <2>5 DEF Causes
  <2>7. \A n \in Messages :
          msg'[n].pc = "taken" /\ msg'[n].intent # "update"
            => Awaits[n[1]] \in recorded \union {n[1]}
    BY <2>5 DEF Causes
  <2>8. batch' = batch /\ \A n \in batch' : msg'[n].pc # "none"
    BY <1>0, <1>3, <2>5 DEF Causes, Deliver, IngressInv, IngressTypes
  <2> QED
    BY <2>1, <2>6, <2>7, <2>8 DEF Causes
<1>4. CASE UNCHANGED vars
  BY <1>4 DEF Causes, Happened, vars, egressVars, ingressVars
<1> QED
  BY <1>1, <1>2, <1>3, <1>4 DEF Next, Progress, Faults

(* The steps of the two services, as steps of the table.                   *)
LEMMA TableStep == IInv /\ Causes /\ [Next]_vars => [Table!Next]_(Table!rvars)
<1> SUFFICES ASSUME IInv, Causes, [Next]_vars PROVE [Table!Next]_(Table!rvars)
  OBVIOUS
<1>0. EgressInv /\ IngressInv /\ IngressTypes /\ MarkedIsAdded /\ WrittenSoFar
  BY DEF IInv, IngressInv
<1>1. CASE (EgressProgress \/ EgressFault) /\ UNCHANGED ingressVars
  <2>1. UNCHANGED <<recorded, total, row>>
    BY <1>1 DEF ingressVars
  <2> QED
    BY <1>0, <1>1, <2>1, EgressHappens
    DEF Causes, Table!Next, Table!Happen, Table!rvars
<1>2. CASE UNCHANGED tail /\ UNCHANGED <<recorded, total, row>>
  BY <1>2 DEF Table!rvars, Happened
<1>3. ASSUME NEW m \in Messages, UNCHANGED tail,
             ExecuteRecord(m) \/ ExecuteAccumulate(m) \/ ExecuteProjectVersioned(m)
      PROVE  [Table!Next]_(Table!rvars)
  <2>0. m[1] \in Events /\ m[1] \in Nat /\ m[1] \in Happened /\ Happened' = Happened
    BY <1>3, MessageFacts
    DEF Causes, Happened, ExecuteRecord, ExecuteAccumulate, ExecuteProjectVersioned, At
  <2>1. CASE ExecuteRecord(m)
    <3>1. Awaits[m[1]] = m[1] \/ Awaits[m[1]] \in recorded
      BY <2>1 DEF Causes, ExecuteRecord, At
    <3>2. recorded' = recorded \union {m[1]} /\ UNCHANGED <<total, row>>
      BY <2>1 DEF ExecuteRecord
    <3> QED
      BY <2>0, <3>1, <3>2 DEF Table!Next, Table!Record
  <2>2. CASE ExecuteAccumulate(m)
    <3>1. m[1] \in recorded /\ UNCHANGED <<recorded, row>>
      BY <1>0, <2>2 DEF WrittenSoFar, ExecuteAccumulate, At
    <3>2. CASE m[1] \in marked
      BY <2>0, <2>2, <3>1, <3>2 DEF ExecuteAccumulate, Table!rvars
    <3>3. CASE m[1] \notin marked
      <4>1. total' = [total EXCEPT ![m[1]] = @ + 1] /\ total[m[1]] = 0
        BY <1>0, <2>0, <2>2, <3>3 DEF ExecuteAccumulate, MarkedIsAdded
      <4>2. total' = [total EXCEPT ![m[1]] = 1]
        BY <1>0, <4>1 DEF IngressTypes
      <4> QED
        BY <2>0, <3>1, <4>1, <4>2 DEF Table!Next, Table!Add
    <3> QED
      BY <3>2, <3>3
  <2>3. CASE ExecuteProjectVersioned(m)
    <3>1. m[1] \in recorded /\ m[1] \in marked /\ UNCHANGED <<recorded, total>>
      BY <1>0, <2>3 DEF WrittenSoFar, ExecuteProjectVersioned, At
    <3>2. total[m[1]] = 1
      BY <1>0, <2>0, <3>1 DEF MarkedIsAdded
    <3>3. row' = row \/ (row < m[1] /\ row' = m[1])
      BY <1>0, <2>0, <2>3 DEF ExecuteProjectVersioned, IngressTypes
    <3> QED
      BY <2>0, <3>1, <3>2, <3>3 DEF Table!Next, Table!Project, Table!rvars
  <2> QED
    BY <1>3, <2>1, <2>2, <2>3
<1>4. ASSUME IngressStep \/ CrashIngress \/ (\E m \in Messages : IntentFails(m) \/ Deliver(m)),
             UNCHANGED egressVars
      PROVE  [Table!Next]_(Table!rvars)
  <2>1. UNCHANGED tail
    BY <1>4 DEF egressVars
  <2>2. \/ UNCHANGED <<recorded, total, row>>
        \/ \E m \in Messages :
             ExecuteRecord(m) \/ ExecuteAccumulate(m) \/ ExecuteProjectVersioned(m)
    BY <1>4 DEF IngressStep, Invoke, EndInvocation, DeadLetter, ExecuteUpdate,
      CrashIngress, IntentFails, Deliver, tableVars
  <2> QED
    BY <1>2, <1>3, <2>1, <2>2
<1>5. CASE UNCHANGED vars
  BY <1>2, <1>5 DEF vars, egressVars, ingressVars
<1> QED
  BY <1>1, <1>4, <1>5 DEF Next, Progress, Faults

(* The consumer's table only ever takes the steps of a replica: its writes *)
(* are those of events that have happened, each once and in their order,   *)
(* however the publications were repeated, split, overtaken or cut off     *)
(* (egestion-engine.ts, ingestion-engine.ts, intent-executor.ts).          *)
THEOREM DeliveryImplementsReplica == Spec => ImplementsReplica
<1>1. Init => Table!Init
  <2> SUFFICES ASSUME Init PROVE Table!Init
    OBVIOUS
  <2> QED
    BY DEF Init, IngressInit, Table!Init, Happened
<1> QED
  BY <1>1, TableStep, CausesInitially, CausesPreserved, IInvAlways, PTL
  DEF Spec, ImplementsReplica, Table!Spec

-----------------------------------------------------------------------------
(* What EveryChangeSettles rests on.                                       *)

(* Only the running invocation holds messages that have failed.            *)
FailedIsHeld == \A m \in Messages \ batch : msg[m].pc # "failed"

(* Written at the consumer, or with an end on record.                      *)
Settled(c) ==
  \/ c \in recorded /\ total[c] = 1 /\ row >= c
  \/ c \in refused \union given
  \/ \E m \in Messages : m[1] = c /\ msg[m].pc \in {"dropped", "skipped", "dead"}

(* Still to be passed by the stream, or with a message that is to be       *)
(* delivered, waits in the queue, or is held by the running invocation.    *)
Underway(c) ==
  \/ c >= first
  \/ \E m \in Messages :
       /\ m[1] = c
       /\ \/ msg[m].pc = "none" /\ Deliverable(m)
          \/ msg[m].pc = "queued"
          \/ msg[m].pc \in {"taken", "failed"} /\ m \in batch

ChangeKept == \A c \in Changes : Settled(c) \/ Underway(c)

(* At the start no message has failed.                                     *)
LEMMA HeldInitially == Init => FailedIsHeld
  BY DEF Init, IngressInit, NoMessage, FailedIsHeld

(* A message fails in an invocation, and leaves it for the queue.          *)
LEMMA HeldPreserved == IInv /\ FailedIsHeld /\ [Next]_vars => FailedIsHeld'
<1> SUFFICES ASSUME IInv, FailedIsHeld, [Next]_vars PROVE FailedIsHeld'
  OBVIOUS
<1>0. msg \in [Messages -> Message] /\ batch \subseteq Messages
  BY DEF IInv, IngressInv, IngressTypes
<1>1. ASSUME NEW S \in SUBSET Messages, Invoke(S) PROVE FailedIsHeld'
  <2> SUFFICES ASSUME NEW n \in Messages PROVE msg'[n].pc # "failed"
    BY DEF FailedIsHeld
  <2>1. msg[n].pc # "failed"
    BY <1>1 DEF Invoke, FailedIsHeld
  <2>2. \/ n \notin S /\ msg'[n] = msg[n]
        \/ \E pc \in {"queued", "skipped", "taken"} : msg'[n] = Received(n, pc)
    BY <1>1 DEF Invoke
  <2> QED
    BY <2>1, <2>2 DEF Received
<1>2. CASE EndInvocation \/ CrashIngress
  <2> SUFFICES ASSUME NEW n \in Messages PROVE msg'[n].pc # "failed"
    BY DEF FailedIsHeld
  <2>1. CASE n \notin batch
    BY <1>2, <2>1 DEF EndInvocation, CrashIngress, FailedIsHeld
  <2>2. CASE n \in batch /\ msg[n].pc = "failed"
    BY <1>0, <1>2, <2>2 DEF EndInvocation, CrashIngress, Returns, Message
  <2>3. CASE n \in batch /\ msg[n].pc # "failed"
    BY <1>0, <1>2, <2>3 DEF EndInvocation, CrashIngress, Returns, Message
  <2> QED
    BY <2>1, <2>2, <2>3
<1>3. ASSUME NEW m \in Messages, DeadLetter(m) \/ Deliver(m) PROVE FailedIsHeld'
  <2>1. /\ batch' = batch
        /\ \E pc \in {"queued", "dead"} : msg' = [msg EXCEPT ![m].pc = pc]
    BY <1>3 DEF DeadLetter, Deliver
  <2> QED
    BY <1>0, <2>1 DEF FailedIsHeld, Message
<1>4. ASSUME NEW m \in Messages,
             \/ ExecuteUpdate(m) \/ ExecuteRecord(m) \/ ExecuteAccumulate(m)
             \/ ExecuteProjectVersioned(m) \/ IntentFails(m)
      PROVE  FailedIsHeld'
  <2>1. m \in batch /\ batch' = batch
    BY <1>4 DEF ExecuteUpdate, ExecuteRecord, ExecuteAccumulate,
      ExecuteProjectVersioned, IntentFails, At, tableVars
  <2>2. \A n \in Messages \ {m} : msg'[n] = msg[n]
    BY <1>0, <1>4 DEF ExecuteUpdate, ExecuteRecord, ExecuteAccumulate,
      ExecuteProjectVersioned, IntentFails, Goto, Become
  <2> QED
    BY <1>0, <2>1, <2>2 DEF FailedIsHeld
<1>5. CASE UNCHANGED ingressVars
  BY <1>5 DEF ingressVars, FailedIsHeld
<1> QED
  BY <1>1, <1>2, <1>3, <1>4, <1>5
  DEF Next, Progress, Faults, IngressStep, vars, ingressVars

(* No change is lost between the two tables: it has been written, or its   *)
(* end is on record, or the stream, the bus, the queue or the invocation   *)
(* still has it, and so a step of the fair part of the specification is    *)
(* to come for it (egestion-engine.ts, ingestion-engine.ts).               *)
THEOREM DeliveryChangeKept ==
  ASSUME MaxCopies > 0
  PROVE  Spec => []ChangeKept
<1>1. IInv /\ FailedIsHeld => ChangeKept
  <2> SUFFICES ASSUME IInv, FailedIsHeld, NEW c \in Changes, ~Settled(c), ~(c >= first)
               PROVE  Underway(c)
    BY DEF ChangeKept, Underway
  <2>0. c \in Events /\ published[c] \in Nat
    BY DeliveryAssumption DEF IInv, EgressInv, EgressTypes
  <2>1. published[c] > 0
    <3>1. c \in 1 .. first - 1
      BY EgressAssumption DEF IInv, EgressInv, EgressTypes, Changes
    <3> QED
      BY <3>1 DEF IInv, EgressInv, PassedIsPublished, Settled
  <2> DEFINE m == <<c, 1>>
  <2>2. m \in Messages /\ m[1] = c /\ m[2] = 1
    BY <2>0, IngressAssumption DEF Messages
  <2>3. Deliverable(m)
    BY <2>0, <2>1, <2>2 DEF Deliverable
  <2>4. msg[m] \in Message
    BY <2>2 DEF IInv, IngressInv, IngressTypes
  <2>5. msg[m].pc \notin {"dropped", "skipped", "dead"}
    BY <2>2 DEF Settled
  <2>6. msg[m].pc # "handled"
    <3> SUFFICES ASSUME msg[m].pc = "handled" PROVE FALSE
      OBVIOUS
    <3>1. c \in recorded /\ c \in marked /\ row >= c
      BY <2>2 DEF IInv, IngressInv, WrittenSoFar
    <3>2. total[c] = 1
      BY <2>0, <3>1 DEF IInv, IngressInv, MarkedIsAdded
    <3> QED
      BY <3>1, <3>2 DEF Settled
  <2>7. msg[m].pc \in {"taken", "failed"} => m \in batch
    BY <2>2 DEF IInv, IngressInv, IngressTypes, FailedIsHeld
  <2>8. msg[m].pc \in {"none", "queued", "taken", "failed"}
    BY <2>4, <2>5, <2>6 DEF Message
  <2> QED
    BY <2>2, <2>3, <2>7, <2>8 DEF Underway
<1> QED
  BY <1>1, HeldInitially, HeldPreserved, IInvAlways, PTL DEF Spec
=============================================================================
