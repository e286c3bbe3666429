--------------------------- MODULE Ledger_proofs ---------------------------
(* The safety of the ledger for every set of messages and entries, and     *)
(* every bound.  The last part is what CatchesUp rests on: where queries   *)
(* are current and no batch is given up, no entry is forgotten.            *)
EXTENDS Ledger, FiniteSetTheorems, TLAPS

(* The entry an execution is at exists.                                    *)
ExecAtEntry ==
  \A d \in Deliveries :
    /\ exec[d].pc = "idle" => exec[d].i = 1
    /\ exec[d].pc \in {"alloc", "put"} => exec[d].i \in 1 .. Len(EntriesOf[d[1]])

TypeInv == TypeOK /\ ExecAtEntry

USE LedgerAssumption

(* The initial state is well typed.                                        *)
LEMMA InitTypeInv == Init => TypeInv
<1> SUFFICES ASSUME Init PROVE TypeInv
  OBVIOUS
<1> USE DEF Init
<1>1. NoSnapshot \in Snapshot
  BY DEF NoSnapshot, Snapshot
<1>2. Idle \in Invocation
  BY <1>1 DEF Idle, Invocation
<1>3. exec \in [Deliveries -> Execution]
  BY DEF Execution
<1> QED
  BY <1>1, <1>2, <1>3 DEF TypeInv, TypeOK, ExecAtEntry, Recorded

(* An entry's first put keeps the types and changes no other entry.        *)
LEMMA StoreEntryType ==
  ASSUME TypeInv, NEW e \in Entries, NEW seq \in Nat \ {0}, StoreEntry(e, seq)
  PROVE  /\ seqOf' \in [Entries -> Nat]
         /\ Recorded \subseteq Recorded'
         /\ \A f \in Recorded : seqOf'[f] = seqOf[f]
         /\ lagging' \subseteq Recorded'
         /\ pending' \subseteq Recorded'
BY DEF StoreEntry, TypeInv, TypeOK, Recorded

(* What an execution holds while it is between its two requests.           *)
HeldSequence ==
  \A d \in Deliveries :
    exec[d].pc = "put" =>
      /\ exec[d].seq \in 1 .. counter
      /\ \A e \in Recorded : seqOf[e] # exec[d].seq
      /\ \A c \in Deliveries \ {d} :
           exec[c].pc = "put" => exec[c].seq # exec[d].seq

SequenceInv ==
  /\ HeldSequence
  /\ SequenceUnique
  /\ \A e \in Entries : seqOf[e] <= counter

IngressInv == TypeInv /\ SequenceInv

(* At the start no number is taken.                                        *)
LEMMA InitIngressInv == Init => IngressInv
BY InitTypeInv DEF IngressInv, SequenceInv, HeldSequence, SequenceUnique, Recorded, Init

(* A new execution has taken no number.                                    *)
LEMMA ReceiveKeepsIngressInv ==
  ASSUME IngressInv, NEW d \in Deliveries, Receive(d)
  PROVE  IngressInv'
<1> USE DEF IngressInv, TypeInv, TypeOK, Receive, entries, reducer, snapshots
<1>1. exec[d] \in Execution /\ EntriesOf[d[1]] \in Seq(Entries)
  BY DEF Deliveries
<1>2. exec' \in [Deliveries -> Execution]
  BY <1>1 DEF Execution
<1>3. \A c \in Deliveries \ {d} : exec'[c] = exec[c]
  OBVIOUS
<1>4. /\ exec'[d].pc \in {"done", "alloc"}
      /\ exec'[d].i = exec[d].i
      /\ exec'[d].pc = "alloc" => EntriesOf[d[1]] # <<>>
  BY <1>1 DEF Execution
<1>5. ExecAtEntry'
  <2>1. exec[d].i = 1
    BY DEF ExecAtEntry
  <2>2. EntriesOf[d[1]] # <<>> => Len(EntriesOf[d[1]]) \in Nat \ {0}
    BY <1>1
  <2>3. exec'[d].pc = "alloc" => exec'[d].i \in 1 .. Len(EntriesOf[d[1]])
    BY <1>4, <2>1, <2>2
  <2>4. QED
    BY <1>3, <1>4, <2>1, <2>3 DEF ExecAtEntry
<1>6. TypeInv'
  BY <1>2, <1>5 DEF Recorded
<1>7. SequenceInv'
  BY <1>3, <1>4 DEF SequenceInv, HeldSequence, SequenceUnique, Recorded
<1> QED
  BY <1>6, <1>7

(* The counter gives a number nobody holds.                                *)
LEMMA NextSequenceKeepsIngressInv ==
  ASSUME IngressInv, NEW d \in Deliveries, NextSequence(d)
  PROVE  IngressInv'
<1> USE DEF IngressInv, TypeInv, TypeOK, NextSequence, entries, reducer, snapshots
<1>1. exec[d] \in Execution /\ counter + 1 \in Nat
  OBVIOUS
<1>2. exec'[d] = [pc |-> "put", i |-> exec[d].i, seq |-> counter + 1]
  BY <1>1 DEF Execution
<1>3. \A c \in Deliveries \ {d} : exec'[c] = exec[c]
  OBVIOUS
<1>4. exec' \in [Deliveries -> Execution]
  BY <1>1, <1>2, <1>3 DEF Execution
<1>5. ExecAtEntry'
  BY <1>2, <1>3 DEF ExecAtEntry
<1>6. TypeInv'
  BY <1>4, <1>5 DEF Recorded
<1>7. HeldSequence'
  <2> SUFFICES ASSUME NEW c \in Deliveries, exec'[c].pc = "put"
               PROVE  /\ exec'[c].seq \in 1 .. counter'
                      /\ \A e \in Recorded : seqOf[e] # exec'[c].seq
                      /\ \A b \in Deliveries \ {c} :
                           exec'[b].pc = "put" => exec'[b].seq # exec'[c].seq
    BY DEF HeldSequence, Recorded
  <2>1. CASE c = d
    BY <2>1, <1>2, <1>3 DEF SequenceInv, HeldSequence, Recorded
  <2>2. CASE c # d
    BY <2>2, <1>2, <1>3 DEF SequenceInv, HeldSequence, Recorded
  <2> QED
    BY <2>1, <2>2
<1>8. SequenceInv'
  BY <1>7 DEF SequenceInv, SequenceUnique, Recorded
<1> QED
  BY <1>6, <1>8

(* An entry is put with the number its execution holds.                    *)
LEMMA PutLedgerEntryKeepsIngressInv ==
  ASSUME IngressInv, NEW d \in Deliveries, PutLedgerEntry(d)
  PROVE  /\ IngressInv'
         /\ Recorded \subseteq Recorded'
         /\ \A f \in Recorded : seqOf'[f] = seqOf[f]
<1> USE DEF IngressInv, PutLedgerEntry
<1> DEFINE i == exec[d].i
           e == EntriesOf[d[1]][i]
           s == exec[d].seq
<1>1. /\ exec[d] \in Execution
      /\ EntriesOf[d[1]] \in Seq(Entries)
      /\ i \in 1 .. Len(EntriesOf[d[1]])
  BY DEF Deliveries, TypeInv, TypeOK, ExecAtEntry
<1>2. e \in Entries /\ s \in Nat \ {0} /\ StoreEntry(e, s)
  BY <1>1 DEF Execution, SequenceInv, HeldSequence
<1>3. /\ seqOf' \in [Entries -> Nat]
      /\ Recorded \subseteq Recorded'
      /\ \A f \in Recorded : seqOf'[f] = seqOf[f]
      /\ lagging' \subseteq Recorded'
      /\ pending' \subseteq Recorded'
  <2> HIDE DEF e, s
  <2> QED BY <1>2, StoreEntryType
<1>4. \A c \in Deliveries \ {d} : exec'[c] = exec[c]
  BY DEF TypeInv, TypeOK
<1>5. /\ exec'[d] \in Execution
      /\ exec'[d].pc \in {"alloc", "done"}
      /\ exec'[d].pc = "alloc" => exec'[d].i \in 1 .. Len(EntriesOf[d[1]])
  BY <1>1 DEF Execution, TypeInv, TypeOK
<1>6. exec' \in [Deliveries -> Execution]
  BY <1>4, <1>5 DEF TypeInv, TypeOK
<1>7. TypeInv'
  BY <1>3, <1>4, <1>5, <1>6 DEF TypeInv, TypeOK, ExecAtEntry, snapshots
<1>8. \A f \in Entries : seqOf'[f] = seqOf[f] \/ (f = e /\ seqOf[f] = 0 /\ seqOf'[f] = s)
  BY <1>2 DEF StoreEntry, TypeInv, TypeOK
<1>9. s \in 1 .. counter /\ counter' = counter
  BY DEF SequenceInv, HeldSequence
<1>10. \A f \in Recorded : seqOf[f] # s
  BY DEF SequenceInv, HeldSequence
<1>11. SequenceUnique'
  BY <1>8, <1>10 DEF SequenceInv, SequenceUnique, Recorded
<1>12. HeldSequence'
  <2> SUFFICES ASSUME NEW c \in Deliveries, exec'[c].pc = "put"
               PROVE  /\ exec'[c].seq \in 1 .. counter
                      /\ \A f \in Recorded' : seqOf'[f] # exec'[c].seq
                      /\ \A b \in Deliveries \ {c} :
                           exec'[b].pc = "put" => exec'[b].seq # exec'[c].seq
    BY <1>9 DEF HeldSequence
  <2>1. c # d /\ exec'[c] = exec[c]
    BY <1>4, <1>5
  <2>2. exec[c].seq # s
    BY <2>1 DEF SequenceInv, HeldSequence
  <2>3. exec[c].seq \in 1 .. counter
    BY <2>1 DEF SequenceInv, HeldSequence
  <2>4. \A f \in Recorded' : seqOf'[f] # exec[c].seq
    BY <2>1, <2>2, <1>8 DEF SequenceInv, HeldSequence, Recorded
  <2>5. ASSUME NEW b \in Deliveries \ {c}, exec'[b].pc = "put"
        PROVE  exec'[b].seq # exec[c].seq
    BY <2>1, <2>5, <1>4, <1>5 DEF SequenceInv, HeldSequence
  <2> QED
    BY <2>1, <2>3, <2>4, <2>5
<1>13. \A f \in Entries : seqOf'[f] <= counter'
  BY <1>8, <1>9 DEF SequenceInv
<1> QED
  BY <1>3, <1>7, <1>11, <1>12, <1>13 DEF SequenceInv

(* An execution that fails gives nothing back.                             *)
LEMMA FailExecutionKeepsIngressInv ==
  ASSUME IngressInv, NEW d \in Deliveries, FailExecution(d)
  PROVE  IngressInv'
<1> USE DEF IngressInv, TypeInv, TypeOK, FailExecution, entries, reducer, snapshots
<1>1. exec[d] \in Execution
  OBVIOUS
<1>2. exec' \in [Deliveries -> Execution]
  BY <1>1 DEF Execution
<1>3. \A c \in Deliveries \ {d} : exec'[c] = exec[c]
  OBVIOUS
<1>4. exec'[d].pc = "failed"
  BY <1>1 DEF Execution
<1>5. ExecAtEntry'
  BY <1>3, <1>4 DEF ExecAtEntry
<1>6. TypeInv'
  BY <1>2, <1>5 DEF Recorded
<1>7. SequenceInv'
  BY <1>3, <1>4 DEF SequenceInv, HeldSequence, SequenceUnique, Recorded
<1> QED
  BY <1>6, <1>7

-----------------------------------------------------------------------------
(* Steps that leave the ingress side and the recorded entries alone.       *)

(* Numbers change hands in an execution only.                              *)
LEMMA OthersKeepSequenceInv ==
  ASSUME SequenceInv, UNCHANGED <<exec, counter, seqOf>>
  PROVE  SequenceInv'
BY DEF SequenceInv, HeldSequence, SequenceUnique, Recorded

-----------------------------------------------------------------------------
(* The snapshots in play.  A snapshot that was read is no newer than the   *)
(* saved one, and is the saved one when the versions agree.  A snapshot    *)
(* about to be saved builds on what was read: if its version is the next   *)
(* one, it extends the saved one.                                          *)

Sound(s) ==
  \A e \in Entries :
    /\ s.applied[e] <= 1
    /\ s.applied[e] = 1 => e \in Recorded /\ seqOf[e] <= s.last

WasRead(s) ==
  /\ Sound(s)
  /\ s.version <= snap.version
  /\ s.version = snap.version => s = snap

Extends(c, s) ==
  /\ \A e \in Entries : c.applied[e] >= s.applied[e]
  /\ \E e \in Entries : c.applied[e] = 1 /\ s.applied[e] = 0
  /\ c.last > s.last

WillBeSaved(c) ==
  /\ Sound(c)
  /\ c.version \in 1 .. snap.version + 1
  /\ c.version = snap.version + 1 => Extends(c, snap)

SnapshotInv ==
  /\ Sound(snap)
  /\ WasRead(replica)
  /\ red.pc # "idle" => WasRead(red.base)
  /\ red.pc = "save" => WillBeSaved(red.cand)
  /\ \A c \in lateSave : WillBeSaved(c)

IInv == IngressInv /\ SnapshotInv

(* At the start nothing has been recorded or saved.                        *)
LEMMA InitIInv == Init => IInv
<1> SUFFICES ASSUME Init PROVE IInv
  OBVIOUS
<1>1. Sound(NoSnapshot)
  BY DEF Sound, NoSnapshot
<1>2. snap = NoSnapshot /\ replica = NoSnapshot /\ red.pc = "idle" /\ lateSave = {}
  BY DEF Init, Idle
<1>3. NoSnapshot.version <= NoSnapshot.version
  BY DEF NoSnapshot
<1>4. Sound(snap) /\ WasRead(replica)
  BY <1>1, <1>2, <1>3 DEF WasRead
<1>5. SnapshotInv
  BY <1>2, <1>4 DEF SnapshotInv
<1> QED
  BY <1>5, InitIngressInv DEF IInv

(* Recording entries and replicating them keeps every snapshot as good as  *)
(* it was.                                                                 *)
LEMMA RecordingKeepsSnapshotInv ==
  ASSUME TypeOK, SnapshotInv, UNCHANGED <<red, lateSave, snap>>,
         replica' \in {replica, snap},
         Recorded \subseteq Recorded', \A e \in Recorded : seqOf'[e] = seqOf[e]
  PROVE  SnapshotInv'
<1>1. ASSUME NEW s \in Snapshot, Sound(s) PROVE Sound(s)'
  BY <1>1 DEF Sound, Recorded
<1>2. ASSUME NEW s \in Snapshot, WasRead(s) PROVE WasRead(s)'
  BY <1>1, <1>2 DEF WasRead
<1>3. ASSUME NEW s \in Snapshot, WillBeSaved(s) PROVE WillBeSaved(s)'
  BY <1>1, <1>3 DEF WillBeSaved, Extends
<1>4. WasRead(snap)
  BY DEF SnapshotInv, WasRead, TypeOK, Snapshot
<1>5. WasRead(replica)'
  BY <1>2, <1>4 DEF SnapshotInv, TypeOK
<1>6. (red.pc # "idle" => WasRead(red.base))'
  BY <1>2 DEF SnapshotInv, TypeOK, Invocation
<1>7. (red.pc = "save" => WillBeSaved(red.cand))'
  BY <1>3 DEF SnapshotInv, TypeOK, Invocation
<1>8. (\A c \in lateSave : WillBeSaved(c))'
  BY <1>3 DEF SnapshotInv, TypeOK
<1> QED
  BY <1>1, <1>5, <1>6, <1>7, <1>8 DEF SnapshotInv, TypeOK

(* A put of the next version: whatever was read is now older, and whatever *)
(* else is about to be saved will meet the condition no more.              *)
LEMMA WriteKeepsSnapshots ==
  ASSUME TypeOK, SnapshotInv, UNCHANGED seqOf,
         NEW c \in Snapshot, WillBeSaved(c), MayReplace(c), WriteSnapshot(c)
  PROVE  /\ snap' \in Snapshot /\ replica' \in Snapshot
         /\ Extends(snap', snap) /\ snap'.version = snap.version + 1
         /\ Sound(snap)' /\ WasRead(replica)'
         /\ \A s \in Snapshot : WasRead(s) => WasRead(s)'
         /\ \A s \in Snapshot : WillBeSaved(s) => WillBeSaved(s)'
<1> USE DEF WriteSnapshot
<1>1. c.version = snap.version + 1
  BY DEF MayReplace, WillBeSaved, TypeOK, Snapshot
<1>2. Extends(c, snap) /\ snap' = c
  BY <1>1 DEF WillBeSaved
<1>3. \A s \in Snapshot : Sound(s) => Sound(s)'
  BY DEF Sound, Recorded
<1>4. Sound(c)'
  BY <1>3 DEF WillBeSaved
<1>5. \A s \in Snapshot : WasRead(s) => WasRead(s)'
  BY <1>1, <1>2, <1>3 DEF WasRead, TypeOK, Snapshot
<1>6. \A s \in Snapshot : WillBeSaved(s) => WillBeSaved(s)'
  BY <1>1, <1>2, <1>3 DEF WillBeSaved, TypeOK, Snapshot
<1>7. WasRead(snap)
  BY DEF SnapshotInv, WasRead, TypeOK, Snapshot
<1>8. replica' \in {replica, snap, c}
  OBVIOUS
<1>9. WasRead(replica)'
  <2>1. CASE replica' = c
    BY <2>1, <1>2, <1>4 DEF WasRead, Snapshot
  <2>2. CASE replica' \in {replica, snap}
    BY <2>2, <1>5, <1>7 DEF TypeOK, SnapshotInv
  <2> QED
    BY <1>8, <2>1, <2>2
<1> QED
  BY <1>1, <1>2, <1>4, <1>5, <1>6, <1>8, <1>9 DEF TypeOK

(* What the reducer computes from a snapshot it read.                      *)
LEMMA ReducedWillBeSaved ==
  ASSUME TypeOK, NEW base \in Snapshot, WasRead(base),
         NEW events \in SUBSET Recorded, NEW newest \in events,
         \A e \in events : seqOf[e] > base.last /\ seqOf[e] <= seqOf[newest]
  PROVE  /\ Reduced(base, events, newest) \in Snapshot
         /\ WillBeSaved(Reduced(base, events, newest))
<1> DEFINE c == Reduced(base, events, newest)
<1> USE DEF TypeOK
<1>1. /\ seqOf[newest] \in Nat /\ newest \in Entries
      /\ base.version \in Nat /\ base.last \in Nat /\ base.applied \in [Entries -> Nat]
  BY DEF Snapshot, Recorded
<1>2. c.version = base.version + 1 /\ c.last = seqOf[newest]
  BY DEF Reduced
<1>3. \A e \in Entries :
        c.applied[e] = base.applied[e] + (IF e \in events THEN 1 ELSE 0)
  BY DEF Reduced
<1>4. c \in Snapshot
  BY <1>1 DEF Reduced, Snapshot
<1> HIDE DEF c
<1>5. \A e \in events : base.applied[e] = 0
  BY <1>1 DEF WasRead, Sound, Recorded
<1>6. Sound(c)
  <2> SUFFICES ASSUME NEW e \in Entries
               PROVE  /\ c.applied[e] <= 1
                      /\ c.applied[e] = 1 => e \in Recorded /\ seqOf[e] <= c.last
    BY DEF Sound
  <2>1. CASE e \in events
    BY <2>1, <1>1, <1>2, <1>3, <1>5
  <2>2. CASE e \notin events
    <3>1. c.applied[e] = base.applied[e]
      BY <2>2, <1>1, <1>3
    <3>2. base.applied[e] <= 1
      BY DEF WasRead, Sound
    <3>3. base.applied[e] = 1 => e \in Recorded /\ seqOf[e] <= base.last
      BY DEF WasRead, Sound
    <3>4. base.last < c.last
      BY <1>1, <1>2
    <3> QED
      BY <3>1, <3>2, <3>3, <3>4, <1>1, <1>2
  <2> QED
    BY <2>1, <2>2
<1>7. Extends(c, base)
  <2>1. \A e \in Entries : c.applied[e] >= base.applied[e]
    BY <1>1, <1>3
  <2>2. c.applied[newest] = 1 /\ base.applied[newest] = 0
    BY <1>1, <1>3, <1>5
  <2>3. c.last > base.last
    BY <1>1, <1>2
  <2> QED
    BY <1>1, <2>1, <2>2, <2>3 DEF Extends
<1>8. WillBeSaved(c)
  BY <1>1, <1>2, <1>6, <1>7 DEF WillBeSaved, WasRead, Snapshot
<1> QED
  BY <1>4, <1>8 DEF c

-----------------------------------------------------------------------------
(* The inductive invariant, action by action.                              *)

(* Recording an entry does not touch the saved account.                    *)
LEMMA IngressStepKeepsIInv ==
  ASSUME IInv, IngressStep
  PROVE  IInv' /\ UNCHANGED snap
<1> PICK d \in Deliveries :
      Receive(d) \/ NextSequence(d) \/ PutLedgerEntry(d) \/ FailExecution(d)
  BY DEF IngressStep
<1> USE DEF IInv
<1>0. TypeOK /\ SnapshotInv
  BY DEF IngressInv, TypeInv
<1>1. CASE Receive(d) \/ NextSequence(d) \/ FailExecution(d)
  <2>1. IngressInv'
    BY <1>1, ReceiveKeepsIngressInv, NextSequenceKeepsIngressInv,
       FailExecutionKeepsIngressInv
  <2>2. UNCHANGED <<seqOf, red, lateSave, snap, replica>>
    BY <1>1 DEF Receive, NextSequence, FailExecution, entries, reducer, snapshots
  <2>3. SnapshotInv'
    BY <1>0, <2>2, RecordingKeepsSnapshotInv DEF Recorded
  <2> QED
    BY <2>1, <2>2, <2>3
<1>2. CASE PutLedgerEntry(d)
  <2>1. /\ IngressInv'
        /\ Recorded \subseteq Recorded'
        /\ \A f \in Recorded : seqOf'[f] = seqOf[f]
    BY <1>2, PutLedgerEntryKeepsIngressInv
  <2>2. UNCHANGED <<red, lateSave, snap, replica>>
    BY <1>2 DEF PutLedgerEntry, snapshots
  <2>3. SnapshotInv'
    BY <1>0, <2>1, <2>2, RecordingKeepsSnapshotInv
  <2> QED
    BY <2>1, <2>2, <2>3
<1> QED
  BY <1>1, <1>2

(* Everything else leaves the ingress side alone.                          *)
LEMMA OtherStepsKeepIngressInv ==
  ASSUME IngressInv, UNCHANGED <<exec, counter, seqOf>>,
         lagging' \subseteq lagging, pending' \subseteq pending,
         attempts' \in Nat, faults' \in Nat,
         red' \in Invocation, snap' \in Snapshot, replica' \in Snapshot,
         lateSave' \subseteq Snapshot
  PROVE  IngressInv'
<1>1. SequenceInv'
  BY OthersKeepSequenceInv DEF IngressInv
<1>2. TypeInv'
  BY DEF IngressInv, TypeInv, TypeOK, ExecAtEntry, Recorded
<1> QED
  BY <1>1, <1>2 DEF IngressInv

(* A replica that catches up sees what was written before.                 *)
LEMMA ReplicationKeepsIInv ==
  ASSUME IInv, ReplicateSnapshot \/ \E e \in Entries : ReplicateEntry(e)
  PROVE  IInv' /\ UNCHANGED snap
<1> USE DEF IInv
<1>0. TypeOK /\ SnapshotInv
  BY DEF IngressInv, TypeInv
<1>1. /\ UNCHANGED <<exec, counter, seqOf, pending, attempts, red, lateSave, snap, faults>>
      /\ lagging' \subseteq lagging
      /\ replica' \in {replica, snap}
  BY DEF ReplicateSnapshot, ReplicateEntry, ingress, entries, reducer, snapshots
<1>2. SnapshotInv'
  BY <1>0, <1>1, RecordingKeepsSnapshotInv DEF Recorded
<1>3. IngressInv'
  BY <1>0, <1>1, OtherStepsKeepIngressInv DEF TypeOK
<1> QED
  BY <1>1, <1>2, <1>3

(* An idle invocation is an invocation.                                    *)
LEMMA IdleType == TypeOK => Idle \in Invocation
BY DEF Idle, NoSnapshot, Invocation, Snapshot

(* A snapshot that is loaded was saved.                                    *)
LEMMA LoadSnapshotKeepsIInv ==
  ASSUME IInv, LoadSnapshot
  PROVE  IInv' /\ UNCHANGED snap
<1> USE DEF IInv
<1>0. TypeOK /\ SnapshotInv /\ NoSnapshot \in Snapshot
  BY DEF IngressInv, TypeInv, NoSnapshot, Snapshot
<1>1. PICK batch \in SUBSET pending, base \in {snap, replica} :
        red' = [pc |-> "query", batch |-> batch, base |-> base, cand |-> NoSnapshot]
  BY DEF LoadSnapshot
<1>2. UNCHANGED <<exec, counter, seqOf, lagging, pending, attempts, lateSave, snap, replica, faults>>
  BY DEF LoadSnapshot, ingress, entries, snapshots
<1>3. base \in Snapshot /\ WasRead(base)
  BY <1>0 DEF TypeOK, SnapshotInv, WasRead, Snapshot
<1>4. red' \in Invocation
  BY <1>0, <1>1, <1>3 DEF Invocation, TypeOK, Recorded
<1>5. SnapshotInv'
  <2>1. WasRead(base)'
    BY <1>2, <1>3 DEF WasRead, Sound, Recorded
  <2> QED
    BY <1>0, <1>1, <1>2, <2>1
    DEF SnapshotInv, WasRead, WillBeSaved, Extends, Sound, Recorded
<1>6. IngressInv'
  BY <1>0, <1>2, <1>4, OtherStepsKeepIngressInv DEF TypeOK
<1> QED
  BY <1>2, <1>5, <1>6

(* What is reduced was recorded and is above the snapshot's watermark.     *)
LEMMA QueryEntriesKeepsIInv ==
  ASSUME IInv, QueryEntries
  PROVE  IInv' /\ UNCHANGED snap
<1> USE DEF IInv
<1>0. TypeOK /\ SnapshotInv
  BY DEF IngressInv, TypeInv
<1>1. UNCHANGED <<exec, counter, seqOf, lagging, lateSave, snap, replica, faults>>
  BY DEF QueryEntries, ingress, entries, snapshots
<1>2. red.base \in Snapshot /\ WasRead(red.base)
  BY <1>0 DEF QueryEntries, SnapshotInv, TypeOK, Invocation
<1>3. /\ \A s \in Snapshot : WasRead(s) => WasRead(s)'
      /\ \A s \in Snapshot : WillBeSaved(s) => WillBeSaved(s)'
  BY <1>1 DEF WasRead, WillBeSaved, Extends, Sound, Recorded
<1>4. Sound(snap)' /\ WasRead(replica)' /\ \A c \in lateSave' : WillBeSaved(c)'
  BY <1>0, <1>1, <1>3 DEF SnapshotInv, TypeOK, Sound, Recorded
<1>5. PICK missed \in SUBSET lagging :
        LET events == EntriesSince(red.base.last, Recorded \ missed) IN
        \/ red' = Idle /\ pending' = pending \ red.batch /\ attempts' = 0
        \/ /\ \E newest \in events :
                /\ \A e \in events : seqOf[e] <= seqOf[newest]
                /\ red' = [red EXCEPT !.pc = "save",
                                      !.cand = Reduced(red.base, events, newest)]
           /\ UNCHANGED <<pending, attempts>>
  BY DEF QueryEntries
<1> DEFINE events == EntriesSince(red.base.last, Recorded \ missed)
<1>6. events \in SUBSET Recorded /\ \A e \in events : seqOf[e] > red.base.last
  BY DEF EntriesSince, FirstPage
<1> HIDE DEF events
<1>7. CASE red' = Idle /\ pending' = pending \ red.batch /\ attempts' = 0
  <2>1. IngressInv'
    BY <1>0, <1>1, <1>7, IdleType, OtherStepsKeepIngressInv DEF TypeOK
  <2>2. SnapshotInv'
    BY <1>4, <1>7 DEF SnapshotInv, Idle
  <2> QED
    BY <1>1, <2>1, <2>2
<1>8. CASE /\ \E newest \in events :
                /\ \A e \in events : seqOf[e] <= seqOf[newest]
                /\ red' = [red EXCEPT !.pc = "save",
                                      !.cand = Reduced(red.base, events, newest)]
           /\ UNCHANGED <<pending, attempts>>
  <2>1. PICK newest \in events :
          /\ \A e \in events : seqOf[e] <= seqOf[newest]
          /\ red' = [red EXCEPT !.pc = "save",
                                !.cand = Reduced(red.base, events, newest)]
    BY <1>8
  <2> DEFINE c == Reduced(red.base, events, newest)
  <2>2. c \in Snapshot /\ WillBeSaved(c)
    BY <1>0, <1>2, <1>6, <2>1, ReducedWillBeSaved
  <2> HIDE DEF c
  <2>3. red' = [red EXCEPT !.pc = "save", !.cand = c]
    BY <2>1 DEF c
  <2>4. red' \in Invocation /\ red'.pc = "save" /\ red'.base = red.base /\ red'.cand = c
    BY <1>0, <2>2, <2>3 DEF TypeOK, Invocation
  <2>5. IngressInv'
    BY <1>0, <1>1, <1>8, <2>4, OtherStepsKeepIngressInv DEF TypeOK
  <2>6. WasRead(red.base)' /\ WillBeSaved(red.cand)'
    BY <1>2, <1>3, <2>2, <2>4, <1>1 DEF WasRead, WillBeSaved, Extends, Sound, Recorded
  <2>7. SnapshotInv'
    BY <1>4, <2>6 DEF SnapshotInv
  <2> QED
    BY <1>1, <2>5, <2>7
<1> QED
  BY <1>5, <1>7, <1>8 DEF events

(* A snapshot condition met: the write extends the saved snapshot.         *)
Advances ==
  /\ \A e \in Entries : snap'.applied[e] >= snap.applied[e]
  /\ snap'.version = snap.version + 1
  /\ snap'.last > snap.last

(* What Apply of the abstract account asks of the entries that enter.      *)
EntersOnce ==
  /\ \A e \in Entries : snap.applied[e] <= 1 /\ snap'.applied[e] <= 1
  /\ \A e \in Entries : snap'.applied[e] = 1 => e \in Recorded
  /\ \E e \in Entries : snap'.applied[e] = 1 /\ snap.applied[e] = 0

Grows == Advances /\ EntersOnce

(* A put that its condition lets through extends the account it replaces.  *)
LEMMA WriteGrows ==
  ASSUME TypeOK, SnapshotInv, UNCHANGED seqOf,
         NEW c \in Snapshot, WillBeSaved(c), MayReplace(c), WriteSnapshot(c)
  PROVE  Grows
<1>1. Extends(snap', snap) /\ snap'.version = snap.version + 1 /\ snap' = c
  BY WriteKeepsSnapshots DEF WriteSnapshot
<1>2. Sound(c) /\ Sound(snap)
  BY DEF WillBeSaved, SnapshotInv
<1> QED
  BY <1>1, <1>2 DEF Extends, Grows, Advances, EntersOnce, Sound

(* Steps of the reducer after its query, by what they do to the snapshot:  *)
(* nothing, or put a candidate that was about to be saved.                 *)
LEMMA AfterQueryKeepsIInv ==
  ASSUME IInv, UNCHANGED <<exec, counter, seqOf, lagging>>,
         pending' \subseteq pending, attempts' \in Nat, faults' \in Nat,
         red' \in {red, Idle},
         \A c \in lateSave' : c \in Snapshot /\ WillBeSaved(c),
         \/ UNCHANGED <<snap, replica>>
         \/ \E c \in Snapshot : WillBeSaved(c) /\ MayReplace(c) /\ WriteSnapshot(c)
  PROVE  IInv' /\ (UNCHANGED snap \/ Grows)
<1> USE DEF IInv
<1>0. TypeOK /\ SnapshotInv
  BY DEF IngressInv, TypeInv
<1>1. red' \in Invocation
  BY <1>0, IdleType DEF TypeOK
<1>2. /\ red'.pc # "idle" => red'.base \in Snapshot /\ WasRead(red'.base)
      /\ red'.pc = "save" => red'.cand \in Snapshot /\ WillBeSaved(red'.cand)
  BY <1>0, <1>1 DEF SnapshotInv, Idle, Invocation
<1>3. CASE UNCHANGED <<snap, replica>>
  <2>1. /\ \A s \in Snapshot : WasRead(s) => WasRead(s)'
        /\ \A s \in Snapshot : WillBeSaved(s) => WillBeSaved(s)'
    BY <1>3 DEF WasRead, WillBeSaved, Extends, Sound, Recorded
  <2>2. Sound(snap)' /\ WasRead(replica)'
    BY <1>0, <1>3, <2>1 DEF SnapshotInv, TypeOK, Sound, Recorded
  <2>3. SnapshotInv'
    BY <1>2, <2>1, <2>2 DEF SnapshotInv
  <2>4. IngressInv'
    BY <1>0, <1>1, <1>3, OtherStepsKeepIngressInv DEF TypeOK
  <2> QED
    BY <1>3, <2>3, <2>4
<1>4. ASSUME NEW c \in Snapshot, WillBeSaved(c), MayReplace(c), WriteSnapshot(c)
      PROVE  IInv' /\ Grows
  <2>1. /\ snap' \in Snapshot /\ replica' \in Snapshot
        /\ Sound(snap)' /\ WasRead(replica)'
        /\ \A s \in Snapshot : WasRead(s) => WasRead(s)'
        /\ \A s \in Snapshot : WillBeSaved(s) => WillBeSaved(s)'
    BY <1>0, <1>4, WriteKeepsSnapshots
  <2>2. SnapshotInv'
    BY <1>2, <2>1 DEF SnapshotInv
  <2>3. IngressInv'
    BY <1>0, <1>1, <2>1, OtherStepsKeepIngressInv
  <2>4. Grows
    BY <1>0, <1>4, WriteGrows
  <2> QED
    BY <2>2, <2>3, <2>4
<1> QED
  BY <1>3, <1>4

(* A failed batch leaves the types as they are.                            *)
LEMMA BatchFailedType ==
  ASSUME TypeOK, BatchFailed
  PROVE  /\ red' = Idle /\ pending' \subseteq pending /\ attempts' \in Nat
BY DEF BatchFailed, TypeOK

(* A save keeps the invariant and extends the account.                     *)
LEMMA SaveSnapshotKeepsIInv ==
  ASSUME IInv, SaveSnapshot
  PROVE  IInv' /\ Grows
<1>0. TypeOK /\ SnapshotInv
  BY DEF IInv, IngressInv, TypeInv
<1>1. /\ red.cand \in Snapshot /\ WillBeSaved(red.cand)
      /\ MayReplace(red.cand) /\ WriteSnapshot(red.cand)
  BY <1>0 DEF SaveSnapshot, SnapshotInv, TypeOK, Invocation
<1>2. /\ UNCHANGED <<exec, counter, seqOf, lagging, lateSave, faults>>
      /\ pending' \subseteq pending /\ attempts' = 0 /\ red' = Idle
  BY DEF SaveSnapshot, ingress, entries
<1>3. \A c \in lateSave' : c \in Snapshot /\ WillBeSaved(c)
  BY <1>0, <1>2 DEF SnapshotInv, TypeOK
<1>4. IInv' /\ (UNCHANGED snap \/ Grows)
  BY <1>0, <1>1, <1>2, <1>3, AfterQueryKeepsIInv DEF TypeOK
<1>5. Grows
  BY <1>0, <1>1, <1>2, WriteGrows
<1> QED
  BY <1>4, <1>5

(* A conflict, a crash and a late put keep it too.                         *)
LEMMA FailuresKeepIInv ==
  ASSUME IInv, SnapshotConflict \/ ReducerFault \/ LateSaveArrives
  PROVE  IInv' /\ (UNCHANGED snap \/ Grows)
<1>0. TypeOK /\ SnapshotInv
  BY DEF IInv, IngressInv, TypeInv
<1>1. \A c \in lateSave : c \in Snapshot /\ WillBeSaved(c)
  BY <1>0 DEF SnapshotInv, TypeOK
<1>2. red.pc = "save" => red.cand \in Snapshot /\ WillBeSaved(red.cand)
  BY <1>0 DEF SnapshotInv, TypeOK, Invocation
<1>3. CASE SnapshotConflict
  <2>1. /\ UNCHANGED <<exec, counter, seqOf, lagging, lateSave, snap, replica, faults>>
        /\ red' = Idle /\ pending' \subseteq pending /\ attempts' \in Nat
    BY <1>0, <1>3, BatchFailedType DEF SnapshotConflict, ingress, entries, snapshots
  <2> QED
    BY <1>0, <1>1, <2>1, AfterQueryKeepsIInv DEF TypeOK
<1>4. CASE ReducerFault
  <2>1. /\ UNCHANGED <<exec, counter, seqOf, lagging>>
        /\ red' = Idle /\ pending' \subseteq pending /\ attempts' \in Nat
        /\ faults' \in Nat
    BY <1>0, <1>4, BatchFailedType DEF ReducerFault, ingress, entries, TypeOK
  <2>2. /\ \A c \in lateSave' : c \in Snapshot /\ WillBeSaved(c)
        /\ \/ UNCHANGED <<snap, replica>>
           \/ \E c \in Snapshot : WillBeSaved(c) /\ MayReplace(c) /\ WriteSnapshot(c)
    BY <1>1, <1>2, <1>4 DEF ReducerFault, snapshots
  <2> QED
    BY <2>1, <2>2, AfterQueryKeepsIInv
<1>5. CASE LateSaveArrives
  <2>1. /\ UNCHANGED <<exec, counter, seqOf, lagging, pending, attempts, red, faults>>
        /\ lateSave' = {}
    BY <1>5 DEF LateSaveArrives, ingress, entries
  <2>2. \/ UNCHANGED <<snap, replica>>
        \/ \E c \in Snapshot : WillBeSaved(c) /\ MayReplace(c) /\ WriteSnapshot(c)
    BY <1>1, <1>5 DEF LateSaveArrives, snapshots
  <2> QED
    BY <1>0, <2>1, <2>2, AfterQueryKeepsIInv DEF TypeOK
<1> QED
  BY <1>3, <1>4, <1>5

(* One step of the ledger.                                                 *)
LEMMA NextKeepsIInv ==
  ASSUME IInv, [Next]_vars
  PROVE  IInv' /\ (UNCHANGED snap \/ Grows)
<1>1. CASE IngressStep
  BY <1>1, IngressStepKeepsIInv
<1>2. CASE ReplicateSnapshot \/ \E e \in Entries : ReplicateEntry(e)
  BY <1>2, ReplicationKeepsIInv
<1>3. CASE ReducerStep
  BY <1>3, LoadSnapshotKeepsIInv, QueryEntriesKeepsIInv, SaveSnapshotKeepsIInv,
     FailuresKeepIInv DEF ReducerStep
<1>4. CASE ReducerFault \/ LateSaveArrives
  BY <1>4, FailuresKeepIInv
<1>5. CASE UNCHANGED vars
  <2>1. UNCHANGED <<exec, counter, seqOf, lagging, pending, attempts, red, lateSave,
                    snap, replica, faults>>
    BY <1>5 DEF vars, ingress, entries, reducer, snapshots
  <2>2. \A c \in lateSave' : c \in Snapshot /\ WillBeSaved(c)
    BY <2>1 DEF IInv, IngressInv, TypeInv, TypeOK, SnapshotInv
  <2> QED
    BY <2>1, <2>2, AfterQueryKeepsIInv DEF IInv, IngressInv, TypeInv, TypeOK
<1> QED
  BY <1>1, <1>2, <1>3, <1>4, <1>5 DEF Next

(* The invariant holds for good.                                           *)
LEMMA InvariantHolds == Spec => []IInv
<1>1. IInv /\ [Next]_vars => IInv'
  BY NextKeepsIInv
<1> QED
  BY InitIInv, <1>1, PTL DEF Spec

-----------------------------------------------------------------------------
(* The results.                                                            *)

(* Types of ledger-ctrl's state, for all messages, entries and bounds.     *)
THEOREM LedgerTypeCorrect == Spec => []TypeOK
<1>1. IInv => TypeOK
  BY DEF IInv, IngressInv, TypeInv
<1> QED
  BY InvariantHolds, <1>1, PTL

(* nextSequence and putLedgerEntry, however interleaved and repeated,      *)
(* never give two entries one sequence number.                             *)
THEOREM LedgerSequenceUnique == Spec => []SequenceUnique
<1>1. IInv => SequenceUnique
  BY DEF IInv, IngressInv, SequenceInv
<1> QED
  BY InvariantHolds, <1>1, PTL

(* The saved account has every entry at most once.                         *)
THEOREM LedgerAppliedOnce == Spec => []AppliedOnce
<1>1. IInv => AppliedOnce
  BY DEF IInv, SnapshotInv, Sound, AppliedOnce
<1> QED
  BY InvariantHolds, <1>1, PTL

(* saveSnapshot's condition never lets a save undo an earlier one.         *)
THEOREM LedgerSnapshotAdvances == Spec => SnapshotAdvances
<1>1. IInv /\ [Next]_vars => [Advances]_snap
  BY NextKeepsIInv DEF Grows
<1> QED
  BY InvariantHolds, <1>1, PTL DEF Spec, SnapshotAdvances, Advances

-----------------------------------------------------------------------------
(* The ledger implements the abstract account: recording an entry is the   *)
(* first put of its id, applying a group is a save, all else stutters.     *)

(* Only a put records an entry.                                            *)
LEMMA OnlyPutsRecord ==
  ASSUME [Next]_vars
  PROVE  UNCHANGED seqOf \/ \E d \in Deliveries : PutLedgerEntry(d)
<1>1. CASE IngressStep
  BY <1>1 DEF IngressStep, Receive, NextSequence, FailExecution, entries
<1>2. CASE ReducerStep
  BY <1>2 DEF ReducerStep, LoadSnapshot, QueryEntries, SaveSnapshot,
              SnapshotConflict, entries
<1>3. CASE ReducerFault \/ LateSaveArrives \/ ReplicateSnapshot
  BY <1>3 DEF ReducerFault, LateSaveArrives, ReplicateSnapshot, entries
<1>4. CASE \E e \in Entries : ReplicateEntry(e)
  BY <1>4 DEF ReplicateEntry
<1>5. CASE UNCHANGED vars
  BY <1>5 DEF vars, entries
<1> QED
  BY <1>1, <1>2, <1>3, <1>4, <1>5 DEF Next

(* A put is a step Record of the account, or none.                         *)
LEMMA PutRefinesRecord ==
  ASSUME IInv, NEW d \in Deliveries, PutLedgerEntry(d)
  PROVE  [Account!Next]_(Account!avars)
<1> DEFINE e == EntriesOf[d[1]][exec[d].i]
<1>1. /\ exec[d] \in Execution
      /\ EntriesOf[d[1]] \in Seq(Entries)
      /\ exec[d].i \in 1 .. Len(EntriesOf[d[1]])
  BY DEF Deliveries, IInv, IngressInv, TypeInv, TypeOK, ExecAtEntry, PutLedgerEntry
<1>2. e \in Entries /\ exec[d].seq \in Nat \ {0} /\ UNCHANGED snap
  BY <1>1 DEF Execution, IInv, IngressInv, SequenceInv, HeldSequence, PutLedgerEntry, snapshots
<1>3. StoreEntry(e, exec[d].seq)
  BY DEF PutLedgerEntry
<1> HIDE DEF e
<1>4. CASE seqOf[e] = 0
  <2>1. seqOf' = [seqOf EXCEPT ![e] = exec[d].seq]
    BY <1>3, <1>4 DEF StoreEntry
  <2>2. e \notin Recorded /\ Recorded' = Recorded \union {e}
    BY <1>2, <1>4, <2>1 DEF Recorded, IInv, IngressInv, TypeInv, TypeOK
  <2>3. Account!Record(e)
    BY <1>2, <2>2 DEF Account!Record
  <2> QED
    BY <1>2, <2>3 DEF Account!Next
<1>5. CASE seqOf[e] # 0
  <2>1. UNCHANGED seqOf
    BY <1>3, <1>5 DEF StoreEntry
  <2> QED
    BY <1>2, <2>1 DEF Account!avars, Recorded
<1> QED
  BY <1>4, <1>5

(* A save that extends the account is a step Apply.                        *)
LEMMA SaveRefinesApply ==
  ASSUME IInv, Grows, UNCHANGED seqOf, snap' \in Snapshot
  PROVE  Account!Next
<1> DEFINE group == {e \in Entries : snap'.applied[e] = 1 /\ snap.applied[e] = 0}
<1>1. snap \in Snapshot
  BY DEF IInv, IngressInv, TypeInv, TypeOK
<1>2. group \in SUBSET Recorded /\ group # {} /\ \A e \in group : snap.applied[e] = 0
  BY DEF Grows, EntersOnce
<1>3. ASSUME NEW e \in Entries
      PROVE  snap'.applied[e] = IF e \in group THEN 1 ELSE snap.applied[e]
  BY <1>1 DEF Grows, Advances, EntersOnce, Snapshot
<1>4. snap'.applied = [e \in Entries |-> IF e \in group THEN 1 ELSE snap.applied[e]]
  BY <1>3 DEF Snapshot
<1>5. Recorded' = Recorded
  BY DEF Recorded
<1> HIDE DEF group
<1>6. Account!Apply(group)
  BY <1>2, <1>4, <1>5 DEF Account!Apply
<1> QED
  BY <1>2, <1>6 DEF Account!Next

(* Every behaviour of ledger-ctrl's table is one of the abstract account.  *)
THEOREM LedgerImplementsAccount == Spec => ImplementsAccount
<1>1. Init => Account!Init
  BY DEF Init, Account!Init, Recorded, NoSnapshot
<1>2. IInv /\ [Next]_vars => [Account!Next]_(Account!avars)
  <2> SUFFICES ASSUME IInv, [Next]_vars PROVE [Account!Next]_(Account!avars)
    OBVIOUS
  <2>1. CASE \E d \in Deliveries : PutLedgerEntry(d)
    BY <2>1, PutRefinesRecord
  <2>2. CASE UNCHANGED seqOf
    <3>1. IInv' /\ (UNCHANGED snap \/ Grows)
      BY NextKeepsIInv
    <3>2. snap' \in Snapshot
      BY <3>1 DEF IInv, IngressInv, TypeInv, TypeOK
    <3>3. CASE UNCHANGED snap
      BY <2>2, <3>3 DEF Account!avars, Recorded
    <3>4. CASE Grows
      BY <2>2, <3>2, <3>4, SaveRefinesApply
    <3> QED
      BY <3>1, <3>3, <3>4
  <2> QED
    BY <2>1, <2>2, OnlyPutsRecord
<1> QED
  BY <1>1, <1>2, InvariantHolds, PTL DEF Spec, ImplementsAccount, Account!Spec


-----------------------------------------------------------------------------
(* What CatchesUp rests on.                                                *)

(* What the reducer and its stream do not have by themselves: queries that *)
(* see every entry, and a batch that is not given up.                      *)
QueriesAreCurrent == lagging = {}

BatchIsRetried == attempts < MaxRetries

(* Every entry is below the watermark or still to come from the stream.    *)
NoneForgotten == \A e \in Recorded : seqOf[e] <= snap.last \/ e \in pending

(* No snapshot that is or was read is ahead of the latest, and what the    *)
(* running invocation will put is not behind the entries that woke it.     *)
InvocationCovers ==
  /\ replica.last <= snap.last
  /\ red.pc # "idle" => red.base.last <= snap.last /\ red.batch \subseteq Recorded
  /\ red.pc = "save" => \A e \in red.batch : seqOf[e] <= red.cand.last

CatchInv == NoneForgotten /\ InvocationCovers

(* Where one page holds all entries, a query sees each of them.            *)
LEMMA PageHoldsAll ==
  ASSUME IsFiniteSet(Entries), Cardinality(Entries) <= PageSize,
         NEW present \in SUBSET Entries
  PROVE  FirstPage(present) = present
<1> SUFFICES ASSUME NEW e \in present
             PROVE  Cardinality({f \in present : SkOrder[f] < SkOrder[e]}) < PageSize
  BY DEF FirstPage
<1> DEFINE below == {f \in present : SkOrder[f] < SkOrder[e]}
<1>1. below \subseteq Entries \ {e}
  BY LedgerAssumption
<1>2. /\ IsFiniteSet(Entries \ {e})
      /\ Cardinality(Entries \ {e}) = Cardinality(Entries) - 1
  BY FS_RemoveElement
<1>3. Cardinality(below) <= Cardinality(Entries \ {e})
  BY <1>1, <1>2, FS_Subset
<1>4. Cardinality(Entries) \in Nat /\ Cardinality(below) \in Nat
  BY <1>1, <1>2, FS_Subset, FS_CardinalityType
<1> QED
  BY <1>2, <1>3, <1>4, LedgerAssumption

(* Recording an entry puts it on the stream.                               *)
LEMMA PutKeepsCatchInv ==
  ASSUME IInv, CatchInv, NEW d \in Deliveries, PutLedgerEntry(d)
  PROVE  CatchInv'
<1>0. TypeOK
  BY DEF IInv, IngressInv, TypeInv
<1>1. /\ Recorded \subseteq Recorded'
      /\ \A f \in Recorded : seqOf'[f] = seqOf[f]
  BY PutLedgerEntryKeepsIngressInv DEF IInv
<1>2. UNCHANGED <<red, snap, replica>>
  BY DEF PutLedgerEntry, snapshots
<1>3. /\ pending \subseteq pending'
      /\ \A e \in Recorded' \ Recorded : e \in pending'
  BY <1>0 DEF PutLedgerEntry, StoreEntry, Recorded, TypeOK
<1>4. NoneForgotten'
  BY <1>1, <1>2, <1>3 DEF CatchInv, NoneForgotten
<1>5. InvocationCovers'
  BY <1>1, <1>2 DEF CatchInv, InvocationCovers
<1> QED
  BY <1>4, <1>5 DEF CatchInv

(* Steps that leave the stream and the invocation alone.                   *)
LEMMA OthersKeepCatchInv ==
  ASSUME TypeOK, TypeOK', CatchInv, UNCHANGED <<seqOf, pending, red>>,
         snap'.last >= snap.last, replica' \in {replica, snap, snap'}
  PROVE  CatchInv'
<1>1. /\ snap.last \in Nat /\ snap'.last \in Nat /\ red.base.last \in Nat
      /\ replica.last \in Nat /\ replica'.last \in Nat
      /\ \A e \in Recorded : seqOf[e] \in Nat
  BY DEF TypeOK, Invocation, Snapshot, Recorded
<1>2. Recorded' = Recorded
  BY DEF Recorded
<1> QED
  BY <1>1, <1>2 DEF CatchInv, NoneForgotten, InvocationCovers

(* An invocation that ends without having consumed its batch.              *)
LEMMA FailureKeepsCatchInv ==
  ASSUME TypeOK, TypeOK', CatchInv, BatchIsRetried, BatchFailed, UNCHANGED seqOf,
         snap'.last >= snap.last, replica' \in {replica, snap, snap'}
  PROVE  CatchInv'
<1>1. /\ snap.last \in Nat /\ snap'.last \in Nat
      /\ replica.last \in Nat /\ replica'.last \in Nat
      /\ \A e \in Recorded : seqOf[e] \in Nat
  BY DEF TypeOK, Snapshot, Recorded
<1>2. Recorded' = Recorded
  BY DEF Recorded
<1>3. red'.pc = "idle" /\ pending' = pending
  BY DEF BatchFailed, BatchIsRetried, Idle
<1> QED
  BY <1>1, <1>2, <1>3 DEF CatchInv, NoneForgotten, InvocationCovers

(* An invocation begins from the latest snapshot or an older one.          *)
LEMMA LoadKeepsCatchInv ==
  ASSUME TypeOK, CatchInv, LoadSnapshot
  PROVE  CatchInv'
<1>1. UNCHANGED <<seqOf, pending, snap, replica>> /\ Recorded' = Recorded
  BY DEF LoadSnapshot, entries, snapshots, Recorded
<1>2. /\ red'.pc = "query" /\ red'.base \in {snap, replica}
      /\ red'.batch \subseteq Recorded
  BY DEF LoadSnapshot, TypeOK
<1>3. red'.base.last <= snap.last
  BY <1>2 DEF TypeOK, Snapshot, CatchInv, InvocationCovers
<1> QED
  BY <1>1, <1>2, <1>3 DEF CatchInv, NoneForgotten, InvocationCovers

(* A query finds every entry above the watermark: with none, the batch was *)
(* in the snapshot before; otherwise the newest is the new watermark.      *)
LEMMA QueryKeepsCatchInv ==
  ASSUME IsFiniteSet(Entries), Cardinality(Entries) <= PageSize,
         TypeOK, CatchInv, QueriesAreCurrent, QueryEntries
  PROVE  CatchInv'
<1> DEFINE last == red.base.last
           events == EntriesSince(last, Recorded)
<1>0. /\ snap.last \in Nat /\ last \in Nat /\ last <= snap.last
      /\ \A e \in Recorded : e \in Entries /\ seqOf[e] \in Nat
      /\ red.batch \subseteq Recorded
  BY DEF TypeOK, Invocation, Snapshot, Recorded, CatchInv, InvocationCovers, QueryEntries
<1>1. UNCHANGED <<seqOf, snap, replica>> /\ Recorded' = Recorded
  BY DEF QueryEntries, entries, snapshots, Recorded
<1>2. PICK missed \in SUBSET lagging :
        LET found == EntriesSince(last, Recorded \ missed) IN
        IF found = {}
        THEN red' = Idle /\ pending' = pending \ red.batch
        ELSE /\ \E newest \in found :
                  /\ \A e \in found : seqOf[e] <= seqOf[newest]
                  /\ red' = [red EXCEPT !.pc = "save",
                                        !.cand = Reduced(red.base, found, newest)]
             /\ pending' = pending
  BY DEF QueryEntries
<1>3. EntriesSince(last, Recorded \ missed) = events
  <2>1. Recorded \ missed = Recorded
    BY DEF QueriesAreCurrent
  <2> QED
    BY <2>1
<1>4. events = {e \in Recorded : seqOf[e] > last}
  BY PageHoldsAll DEF EntriesSince, Recorded
<1>5. CASE events = {}
  <2>1. red'.pc = "idle" /\ pending' = pending \ red.batch
    BY <1>2, <1>3, <1>5 DEF Idle
  <2>2. \A e \in Recorded : seqOf[e] <= snap.last
    BY <1>0, <1>4, <1>5
  <2> QED
    BY <1>1, <2>1, <2>2 DEF CatchInv, NoneForgotten, InvocationCovers
<1>6. CASE events # {}
  <2>1. PICK newest \in events :
          /\ \A e \in events : seqOf[e] <= seqOf[newest]
          /\ red' = [red EXCEPT !.pc = "save",
                                !.cand = Reduced(red.base, events, newest)]
          /\ pending' = pending
    BY <1>2, <1>6, <1>3
  <2>2. /\ red'.pc = "save" /\ red'.base = red.base /\ red'.batch = red.batch
        /\ red'.cand.last = seqOf[newest]
    BY <2>1 DEF TypeOK, Invocation, Reduced
  <2>3. \A e \in Recorded : seqOf[e] <= seqOf[newest]
    BY <1>0, <1>4, <2>1
  <2> QED
    BY <1>0, <1>1, <2>1, <2>2, <2>3 DEF CatchInv, NoneForgotten, InvocationCovers
<1> QED
  BY <1>5, <1>6

(* A save takes the watermark over the batch that woke the invocation.     *)
LEMMA SaveKeepsCatchInv ==
  ASSUME TypeOK, TypeOK', CatchInv, SaveSnapshot,
         snap'.last >= snap.last, replica' \in {replica, snap, snap'}
  PROVE  CatchInv'
<1>0. /\ snap.last \in Nat /\ snap'.last \in Nat
      /\ replica.last \in Nat /\ replica'.last \in Nat
      /\ \A e \in Recorded : seqOf[e] \in Nat
  BY DEF TypeOK, Snapshot, Recorded
<1>1. /\ UNCHANGED seqOf /\ Recorded' = Recorded
      /\ red'.pc = "idle" /\ pending' = pending \ red.batch
      /\ snap' = red.cand
  BY DEF SaveSnapshot, WriteSnapshot, entries, Recorded, Idle
<1>2. \A e \in red.batch : seqOf[e] <= snap'.last
  BY <1>1 DEF SaveSnapshot, CatchInv, InvocationCovers
<1> QED
  BY <1>0, <1>1, <1>2 DEF CatchInv, NoneForgotten, InvocationCovers

(* An old copy only ever gives way to a newer one.                         *)
LEMMA ReplicaFollows == [Next]_vars => replica' \in {replica, snap, snap'}
<1>1. \A c : WriteSnapshot(c) => replica' \in {replica, snap, snap'}
  BY DEF WriteSnapshot
<1>2. ASSUME IngressStep \/ \E e \in Entries : ReplicateEntry(e)
      PROVE  replica' = replica
  BY <1>2 DEF IngressStep, Receive, NextSequence, PutLedgerEntry, FailExecution,
    ReplicateEntry, snapshots
<1>3. CASE ReplicateSnapshot
  BY <1>3 DEF ReplicateSnapshot
<1>4. CASE ReducerStep
  BY <1>1, <1>4 DEF ReducerStep, LoadSnapshot, QueryEntries, SaveSnapshot,
    SnapshotConflict, snapshots
<1>5. CASE ReducerFault
  BY <1>1, <1>5 DEF ReducerFault, snapshots
<1>6. CASE LateSaveArrives
  BY <1>1, <1>6 DEF LateSaveArrives, snapshots
<1>7. CASE UNCHANGED vars
  BY <1>7 DEF vars, snapshots
<1> QED
  BY <1>2, <1>3, <1>4, <1>5, <1>6, <1>7 DEF Next

(* One step of the ledger.                                                 *)
LEMMA NextKeepsCatchInv ==
  ASSUME IsFiniteSet(Entries), Cardinality(Entries) <= PageSize,
         IInv, CatchInv, QueriesAreCurrent, BatchIsRetried, [Next]_vars
  PROVE  CatchInv'
<1>1. /\ TypeOK /\ TypeOK' /\ snap'.last >= snap.last
      /\ replica' \in {replica, snap, snap'}
  <2>1. IInv' /\ (UNCHANGED snap \/ Grows)
    BY NextKeepsIInv
  <2>2. TypeOK /\ TypeOK'
    BY <2>1 DEF IInv, IngressInv, TypeInv
  <2>3. snap.last \in Nat /\ snap'.last \in Nat
    BY <2>2 DEF TypeOK, Snapshot
  <2>4. snap'.last = snap.last \/ snap'.last > snap.last
    BY <2>1 DEF Grows, Advances
  <2> QED
    BY <2>2, <2>3, <2>4, ReplicaFollows
<1>2. CASE IngressStep
  <2>1. ASSUME NEW d \in Deliveries, PutLedgerEntry(d) PROVE CatchInv'
    BY <2>1, PutKeepsCatchInv
  <2>2. ASSUME NEW d \in Deliveries, Receive(d) \/ NextSequence(d) \/ FailExecution(d)
        PROVE  CatchInv'
    <3>1. UNCHANGED <<seqOf, pending, red>>
      BY <2>2 DEF Receive, NextSequence, FailExecution, entries, reducer
    <3> QED
      BY <1>1, <3>1, OthersKeepCatchInv
  <2> QED
    BY <1>2, <2>1, <2>2 DEF IngressStep
<1>3. CASE ReplicateSnapshot \/ LateSaveArrives \/ \E e \in Entries : ReplicateEntry(e)
  <2>1. UNCHANGED <<seqOf, pending, red>>
    BY <1>3 DEF ReplicateSnapshot, LateSaveArrives, ReplicateEntry, entries, reducer
  <2> QED
    BY <1>1, <2>1, OthersKeepCatchInv
<1>4. CASE SnapshotConflict \/ ReducerFault
  <2>1. BatchFailed /\ UNCHANGED seqOf
    BY <1>4 DEF SnapshotConflict, ReducerFault, entries
  <2> QED
    BY <1>1, <2>1, FailureKeepsCatchInv
<1>5. CASE LoadSnapshot \/ QueryEntries \/ SaveSnapshot
  BY <1>1, <1>5, LoadKeepsCatchInv, QueryKeepsCatchInv, SaveKeepsCatchInv
<1>6. CASE UNCHANGED vars
  <2>1. UNCHANGED <<seqOf, pending, red>>
    BY <1>6 DEF vars, entries, reducer
  <2> QED
    BY <1>1, <2>1, OthersKeepCatchInv
<1> QED
  BY <1>2, <1>3, <1>4, <1>5, <1>6 DEF Next, ReducerStep

(* What CatchesUp rests on: where no query lags, a page holds all entries  *)
(* and the stream does not give a batch up, no entry gets lost between the *)
(* ledger and the account.  An entry above lastEventSequence still has its *)
(* record on the stream, and the reducer is to run for it, whatever        *)
(* invocations died, met a newer version or left their put under way       *)
(* (reducer.ts, replay-and-reduce.ts).                                     *)
THEOREM LedgerNoneForgotten ==
  ASSUME IsFiniteSet(Entries), Cardinality(Entries) <= PageSize
  PROVE  Spec /\ []QueriesAreCurrent /\ []BatchIsRetried => []NoneForgotten
<1>1. Init => CatchInv
  BY DEF Init, Idle, NoSnapshot, Recorded, CatchInv, NoneForgotten, InvocationCovers
<1>2. IInv /\ CatchInv /\ QueriesAreCurrent /\ BatchIsRetried /\ [Next]_vars => CatchInv'
  BY NextKeepsCatchInv
<1>3. CatchInv => NoneForgotten
  BY DEF CatchInv
<1> QED
  BY <1>1, <1>2, <1>3, InvariantHolds, PTL DEF Spec
=============================================================================
