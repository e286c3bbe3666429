------------------------------- MODULE Ledger -------------------------------
(***************************************************************************)
(* ledger-ctrl: one account stream, pk = Account#<tenant>#<stream>.        *)
(*                                                                         *)
(* Ingress executions record entries: for every entry they take a sequence *)
(* number from an atomic counter, then put the entry if its event id is    *)
(* new.  These are two requests; executions of different messages, and of  *)
(* one message delivered twice, interleave between them.                   *)
(*                                                                         *)
(* The reducer consumes the table's stream of inserted entries, one        *)
(* invocation at a time.  It reads the latest snapshot, queries the        *)
(* entries above the snapshot's lastEventSequence, reduces them and puts   *)
(* the next version of the snapshot under a condition on the version.      *)
(* Reads are eventually consistent; an invocation that is killed may have  *)
(* its put still under way while the retry is running.                     *)
(***************************************************************************)
EXTENDS Integers, Sequences, FiniteSets

CONSTANTS
  Messages,      \* ingress messages for this account stream
  Entries,       \* ledger entry ids (sk = Event#<eventId>)
  EntriesOf,     \* the entries each message makes, in the order it makes them
  SkOrder,       \* rank of an entry's sort key in the item collection
  PageSize,      \* entries one page of a Query evaluates (1 MB in DynamoDB)
  MaxReceives,   \* times a message is handed to an execution
  MaxRetries,    \* retryAttempts of the reducer's stream subscription
  MaxLag,        \* entries an eventually consistent read may miss
  MaxFaults      \* bound on crashes and timeouts in one behaviour

ASSUME LedgerAssumption ==
  /\ EntriesOf \in [Messages -> Seq(Entries)]
  /\ SkOrder \in [Entries -> Int]
  /\ PageSize \in Nat \ {0}
  /\ MaxReceives \in Nat \ {0}
  /\ MaxRetries \in Nat
  /\ MaxLag \in Nat
  /\ MaxFaults \in Nat

VARIABLES
  exec,        \* the handler execution of each delivery of each message
  counter,     \* Sequence#...Counter.lastSequence
  seqOf,       \* sequenceNo of a recorded entry, 0 when it is not recorded
  lagging,     \* recorded entries a read may still miss
  pending,     \* entries whose stream record the reducer has not consumed
  attempts,    \* failed attempts at the current stream batch
  red,         \* the running reducer invocation
  snap,        \* Snapshot#latest
  replica,     \* the snapshot an eventually consistent read may still return
  lateSave,    \* {} or the put a killed invocation left under way
  faults

ingress == <<exec, counter>>
entries == <<seqOf, lagging>>
reducer == <<pending, attempts, red, lateSave>>
snapshots == <<snap, replica>>
vars == <<ingress, entries, reducer, snapshots, faults>>

(* <<m, k>> is the k-th time SQS hands out message m.                      *)
Deliveries == Messages \X (1 .. MaxReceives)

Earlier(d) == exec[<<d[1], d[2] - 1>>]

Recorded == {e \in Entries : seqOf[e] # 0}

(* Version 0 stands for the absent item: INITIAL_ACCOUNT_STATE, nothing    *)
(* applied.  The account state is abstracted to how often each entry's     *)
(* effect is in it.                                                        *)
NoSnapshot == [version |-> 0, last |-> 0, applied |-> [e \in Entries |-> 0]]

Idle == [pc |-> "idle", batch |-> {}, base |-> NoSnapshot, cand |-> NoSnapshot]

Init ==
  /\ exec = [d \in Deliveries |-> [pc |-> "idle", i |-> 1, seq |-> 0]]
  /\ counter = 0
  /\ seqOf = [e \in Entries |-> 0]
  /\ lagging = {}
  /\ pending = {}
  /\ attempts = 0
  /\ red = Idle
  /\ snap = NoSnapshot
  /\ replica = NoSnapshot
  /\ lateSave = {}
  /\ faults = 0

-----------------------------------------------------------------------------
(* Ingress: event-listener.ts                                              *)

(* SQS hands a message out again when an earlier execution failed, when    *)
(* its visibility timeout passes, or because delivery is at-least-once: an *)
(* earlier execution may have failed, finished or still be running.        *)
Receive(d) ==
  /\ exec[d].pc = "idle"
  /\ d[2] > 1 => Earlier(d).pc # "idle"
  /\ exec' = [exec EXCEPT ![d].pc =
                IF EntriesOf[d[1]] = <<>> THEN "done" ELSE "alloc"]
  /\ UNCHANGED <<counter, entries, reducer, snapshots, faults>>

NextSequence(d) ==
  /\ exec[d].pc = "alloc"
  /\ counter' = counter + 1
  /\ exec' = [exec EXCEPT ![d].pc = "put", ![d].seq = counter + 1]
  /\ UNCHANGED <<entries, reducer, snapshots, faults>>

(* Mutants: the entry is put without a sequenceNo; the put is not          *)
(* conditional on the event id.                                            *)
StoreEntryUnnumbered(e, seq) ==
  /\ pending' = pending \union {e}
  /\ UNCHANGED <<seqOf, lagging>>

StoreEntryOverwriting(e, seq) ==
  /\ seqOf' = [seqOf EXCEPT ![e] = seq]
  /\ pending' = pending \union {e}
  /\ UNCHANGED lagging

(* putIfNotExists: the entry, unless its event id is already there; either *)
(* way the handler goes on to its next entry.  The insert puts a record on *)
(* the stream.                                                             *)
StoreEntry(e, seq) ==
  IF seqOf[e] = 0
  THEN /\ seqOf' = [seqOf EXCEPT ![e] = seq]
       /\ pending' = pending \union {e}
       /\ \/ lagging' = lagging
          \/ Cardinality(lagging) < MaxLag /\ lagging' = lagging \union {e}
  ELSE UNCHANGED <<seqOf, pending, lagging>>

PutLedgerEntry(d) ==
  /\ exec[d].pc = "put"
  /\ LET i == exec[d].i IN
       /\ StoreEntry(EntriesOf[d[1]][i], exec[d].seq)
       /\ exec' = [exec EXCEPT ![d] =
                     IF i < Len(EntriesOf[d[1]])
                     THEN [pc |-> "alloc", i |-> i + 1, seq |-> 0]
                     ELSE [pc |-> "done", i |-> i, seq |-> 0]]
  /\ UNCHANGED <<counter, attempts, red, lateSave, snapshots, faults>>

FailExecution(d) ==
  /\ exec[d].pc \in {"alloc", "put"}
  /\ faults < MaxFaults
  /\ faults' = faults + 1
  /\ exec' = [exec EXCEPT ![d].pc = "failed", ![d].seq = 0]
  /\ UNCHANGED <<counter, entries, reducer, snapshots>>

-----------------------------------------------------------------------------
(* DynamoDB: a write reaches every replica some time after it is accepted. *)

ReplicateEntry(e) ==
  /\ e \in lagging
  /\ lagging' = lagging \ {e}
  /\ UNCHANGED <<ingress, seqOf, reducer, snapshots, faults>>

ReplicateSnapshot ==
  /\ replica # snap
  /\ replica' = snap
  /\ UNCHANGED <<ingress, entries, reducer, snap, faults>>

-----------------------------------------------------------------------------
(* The reducer: reducer.ts over replay-and-reduce.ts                       *)

(* A batch of the stream's records for this account, and step 1: the       *)
(* current snapshot, read without ConsistentRead.                          *)
LoadSnapshot ==
  /\ red.pc = "idle"
  /\ \E batch \in (SUBSET pending) \ {{}}, base \in {snap, replica} :
       red' = [pc |-> "query", batch |-> batch, base |-> base,
               cand |-> NoSnapshot]
  /\ UNCHANGED <<ingress, entries, pending, attempts, lateSave, snapshots,
                 faults>>

(* queryEntriesSince sends one Query: entries in sort-key order, as many   *)
(* as a page evaluates, those above the watermark kept by the filter.      *)
FirstPage(present) ==
  {e \in present :
     Cardinality({f \in present : SkOrder[f] < SkOrder[e]}) < PageSize}

EntriesSince(last, present) == {e \in FirstPage(present) : seqOf[e] > last}

(* Steps 3 to 5 up to the put: the state with each of the events reduced   *)
(* into it, the sequence number of the newest as the new watermark.        *)
Reduced(base, events, newest) ==
  [version |-> base.version + 1,
   last    |-> seqOf[newest],
   applied |-> [e \in Entries |->
                  base.applied[e] + (IF e \in events THEN 1 ELSE 0)]]

(* Step 2; with no entries the invocation succeeds and the stream goes on. *)
QueryEntries ==
  /\ red.pc = "query"
  /\ \E missed \in SUBSET lagging :
       LET events == EntriesSince(red.base.last, Recorded \ missed) IN
       IF events = {}
       THEN /\ red' = Idle
            /\ pending' = pending \ red.batch
            /\ attempts' = 0
       ELSE /\ \E newest \in events :
                 /\ \A e \in events : seqOf[e] <= seqOf[newest]
                 /\ red' = [red EXCEPT
                              !.pc = "save",
                              !.cand = Reduced(red.base, events, newest)]
            /\ UNCHANGED <<pending, attempts>>
  /\ UNCHANGED <<ingress, entries, lateSave, snapshots, faults>>

(* saveSnapshot's condition: attribute_not_exists(pk) OR version = v - 1.  *)
MayReplace(cand) == snap.version = 0 \/ snap.version = cand.version - 1

WriteSnapshot(cand) ==
  /\ snap' = cand
  /\ replica' \in IF MaxLag = 0 THEN {cand} ELSE {replica, snap, cand}

(* Mutant: the stream goes on after the first failure.                     *)
BatchDropped ==
  /\ red' = Idle
  /\ attempts' = 0
  /\ pending' = pending \ red.batch

(* The stream retries a failed batch until retryAttempts is used up, then  *)
(* goes on without it.                                                     *)
BatchFailed ==
  /\ red' = Idle
  /\ IF attempts < MaxRetries
     THEN attempts' = attempts + 1 /\ UNCHANGED pending
     ELSE attempts' = 0 /\ pending' = pending \ red.batch

SaveSnapshot ==
  /\ red.pc = "save"
  /\ MayReplace(red.cand)
  /\ WriteSnapshot(red.cand)
  /\ red' = Idle
  /\ pending' = pending \ red.batch
  /\ attempts' = 0
  /\ UNCHANGED <<ingress, entries, lateSave, faults>>

SnapshotConflict ==
  /\ red.pc = "save"
  /\ ~MayReplace(red.cand)
  /\ BatchFailed
  /\ UNCHANGED <<ingress, entries, lateSave, snapshots, faults>>

(* The invocation dies: before its put, with the put written but not       *)
(* acknowledged to the stream, or with the put still under way.            *)
ReducerFault ==
  /\ red.pc # "idle"
  /\ faults < MaxFaults
  /\ faults' = faults + 1
  /\ BatchFailed
  /\ \/ UNCHANGED <<lateSave, snapshots>>
     \/ /\ red.pc = "save" /\ MayReplace(red.cand)
        /\ WriteSnapshot(red.cand)
        /\ UNCHANGED lateSave
     \/ /\ red.pc = "save" /\ lateSave = {}
        /\ lateSave' = {red.cand}
        /\ UNCHANGED snapshots
  /\ UNCHANGED <<ingress, entries>>

LateSaveArrives ==
  /\ \E cand \in lateSave :
       IF MayReplace(cand) THEN WriteSnapshot(cand) ELSE UNCHANGED snapshots
  /\ lateSave' = {}
  /\ UNCHANGED <<ingress, entries, pending, attempts, red, faults>>

-----------------------------------------------------------------------------

IngressStep ==
  \E d \in Deliveries :
    \/ Receive(d)
    \/ NextSequence(d)
    \/ PutLedgerEntry(d)
    \/ FailExecution(d)

ReducerStep == LoadSnapshot \/ QueryEntries \/ SaveSnapshot \/ SnapshotConflict

Next ==
  \/ IngressStep
  \/ \E e \in Entries : ReplicateEntry(e)
  \/ ReplicateSnapshot
  \/ ReducerStep
  \/ ReducerFault
  \/ LateSaveArrives

Spec == Init /\ [][Next]_vars

(* SQS delivers every message and Lambda runs an execution to its end; the *)
(* stream keeps invoking the reducer; replicas catch up.  Faults are not   *)
(* fair, nor is a second delivery of a message that has not failed.        *)
Fairness ==
  /\ \A d \in Deliveries :
       /\ WF_vars((d[2] > 1 => Earlier(d).pc = "failed") /\ Receive(d))
       /\ WF_vars(NextSequence(d))
       /\ WF_vars(PutLedgerEntry(d))
  /\ \A e \in Entries : WF_vars(ReplicateEntry(e))
  /\ WF_vars(ReplicateSnapshot)
  /\ WF_vars(ReducerStep)
  /\ WF_vars(LateSaveArrives)

FairSpec == Spec /\ Fairness

-----------------------------------------------------------------------------
(* Properties                                                              *)

Snapshot == [version : Nat, last : Nat, applied : [Entries -> Nat]]

Execution == [pc  : {"idle", "alloc", "put", "done", "failed"},
              i   : Nat \ {0},
              seq : Nat]

Invocation == [pc    : {"idle", "query", "save"},
               batch : SUBSET Entries,
               base  : Snapshot,
               cand  : Snapshot]

(* Types of the whole state of an account stream in ledger-ctrl's table    *)
(* and of its running handlers.                                            *)
TypeOK ==
  /\ exec \in [Deliveries -> Execution]
  /\ counter \in Nat
  /\ seqOf \in [Entries -> Nat]
  /\ lagging \subseteq Recorded
  /\ pending \subseteq Recorded
  /\ attempts \in Nat
  /\ red \in Invocation
  /\ snap \in Snapshot
  /\ replica \in Snapshot
  /\ lateSave \subseteq Snapshot
  /\ faults \in Nat

(* No two recorded entries share a sequence number, whatever executions    *)
(* interleave between nextSequence and putLedgerEntry: the reducer's sort  *)
(* by sequenceNo is a total order.                                         *)
SequenceUnique ==
  \A e, f \in Recorded : seqOf[e] = seqOf[f] => e = f

(* However often the reducer is retried and from however stale a snapshot  *)
(* it starts, the saved account holds each entry at most once, only        *)
(* recorded entries, and none above its own lastEventSequence.             *)
AppliedOnce ==
  \A e \in Entries :
    /\ snap.applied[e] <= 1
    /\ snap.applied[e] = 1 => e \in Recorded /\ seqOf[e] <= snap.last

(* A save never undoes an earlier one: every entry in the account stays in *)
(* it, the version goes up by one and lastEventSequence goes up, although  *)
(* the invocation may have read an old snapshot or been given up long ago. *)
SnapshotAdvances ==
  [][/\ \A e \in Entries : snap'.applied[e] >= snap.applied[e]
     /\ snap'.version = snap.version + 1
     /\ snap'.last > snap.last]_snap

(* The ledger implements the abstract account.                             *)
Account == INSTANCE LedgerAccount WITH recorded <- Recorded,
                                       applied <- snap.applied

ImplementsAccount == Account!Spec

(* Where no read lags and a page holds all entries, the snapshot catches   *)
(* up with the newest entry: once deliveries cease no entry of the ledger  *)
(* is above its lastEventSequence.                                         *)
CatchesUp ==
  [](lagging = {} /\ replica = snap) =>
    <>[](\A e \in Recorded : seqOf[e] <= snap.last)

(* order-ledger.md: every ORDER_FILLED event produces a LedgerEntry, which *)
(* triggers the reducer to update the AccountSnapshot.                     *)
EveryEntryReduced ==
  \A e \in Entries : e \in Recorded ~> snap.applied[e] = 1

=============================================================================
