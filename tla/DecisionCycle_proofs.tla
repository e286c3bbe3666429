------------------------ MODULE DecisionCycle_proofs ------------------------
(***************************************************************************)
(* Proofs about DecisionCycle, for any number of clicks and faults.        *)
(*                                                                         *)
(* The properties speak of orders, of the packet and of the read model;    *)
(* what makes them inductive is where the execution is when somebody       *)
(* writes.  Until WaitForCompliance there is no verdict and no packet      *)
(* beyond the first version (Phase); an answer of the user implies that    *)
(* the execution has asked (Asks); every image but the two signals is a    *)
(* version of the packet, and decided versions come last (Images).  The    *)
(* last part shows that nothing is lost between two services: what was     *)
(* said, asked or written is recorded, or still has a step to come; that   *)
(* the cycle implements the decision of Decision.tla; and that a           *)
(* generation that is shown is not given up in silence.                    *)
(***************************************************************************)
EXTENDS DecisionCycle, TLAPS

NoPacket == Row("NONE", 0, FALSE)
Started == Row("GENERATING", 0, FALSE)
Failed == Row("FAILED", 1, FALSE)
Proposal == Row("PENDING", 1, FALSE)

(* The states of the execution before its packet is put, and before the    *)
(* proposal is checked or after it was given up.                           *)
Unassembled == Agents \union {"started", "projections", "assemble"}
Unproposed == Unassembled \union {"propose", "emitFailed", "failed"}

Phase ==
  /\ sf \in Unproposed => check = "none"
  /\ sf \in Unassembled => packet = NoPacket
  /\ sf = "propose" => packet = Proposal
  /\ sf = "requestUser" => check = "L2"
  /\ check # "none" => packet.version >= 1
  /\ packet.status \notin {"GENERATING", "FAILED"}

(* RequestUserConfirmation has run.                                        *)
Asked == \E r \in images : r.status = "AWAITING_CONFIRMATION"

Asks ==
  /\ Asked => check = "L2" /\ sf \in {"user", "endUser", "taskFailed", "timedOut"}
  /\ offered => Asked
  /\ \A e \in events :
       /\ e.task = "compliance" => check = e.says
       /\ e.task = "user" => Asked

(* An image is a signal of the execution or a version of the packet.       *)
Versions == images \ {Started, Failed}

Images ==
  /\ Failed \in images => sf = "failed"
  /\ packet.version >= 1 => packet \in images
  /\ model.status # "NONE" => model \in images
  /\ \A r \in Versions :
       /\ r.version \in 1 .. packet.version
       /\ r.version = 1 => r = Proposal
       /\ r.status \in Decided => packet.status \in Decided
  /\ \A r, s \in Versions :
       /\ r.version = s.version => r = s
       /\ r.status \in Decided /\ r.version < s.version => s.status \in Decided

IInv ==
  TypeOK /\ Phase /\ Asks /\ Images /\ StatusJustified /\ OrdersAuthorised

-----------------------------------------------------------------------------
(* What the parts of an answer can be.                                     *)
LEMMA EventFacts ==
  ASSUME NEW e \in AllEvents
  PROVE  /\ e.token \in BOOLEAN
         /\ \/ e.task = "user" /\ e.says \in Answers
            \/ e.task = "compliance" /\ e.says \in Verdicts
            \/ e.task \in Agents /\ e.says \in {"completed", "failed"}
<1>1. CASE e \in UserEvents
  <2>1. PICK says \in Answers, c \in Clicks, token \in BOOLEAN :
          e = Event("user", says, c, token)
    BY <1>1 DEF UserEvents
  <2>2. QED
    BY <2>1 DEF Event
<1>2. CASE e \in CheckEvents
  <2>1. PICK v \in Verdicts : e = Event("compliance", v, "check", TRUE)
    BY <1>2 DEF CheckEvents
  <2>2. QED
    BY <2>1 DEF Event
<1>3. CASE e \in AgentEvents
  <2>1. PICK a \in Agents, says \in {"completed", "failed"} :
          e = Event(a, says, a, TRUE)
    BY <1>3 DEF AgentEvents, Event
  <2>2. QED
    BY <2>1 DEF Event
<1>4. QED
  BY <1>1, <1>2, <1>3 DEF AllEvents

(* The rows of the packet and the images made of them.                     *)
Rows == [status : Statuses, version : Nat, token : BOOLEAN]

(* A version of the packet is a row.                                       *)
LEMMA RowType ==
  ASSUME NEW status \in Statuses, NEW version \in Nat, NEW token \in BOOLEAN
  PROVE  Row(status, version, token) \in Rows
BY DEF Row, Rows

(* The rows that the proofs name are rows.                                 *)
LEMMA RowConstants ==
  /\ Started \in Rows /\ Failed \in Rows /\ Proposal \in Rows
  /\ NoPacket \in Rows
BY DEF Started, Failed, Proposal, NoPacket, Row, Rows, Statuses

(* What an agent records is an answer.                                     *)
LEMMA AgentAnswers ==
  ASSUME NEW a \in Agents, NEW says \in {"completed", "failed"}
  PROVE  Event(a, says, a, TRUE) \in AllEvents
<1>1. Event(a, says, a, TRUE) \in AgentEvents
  BY DEF AgentEvents
<1>2. QED
  BY <1>1 DEF AllEvents

(* At the start nothing has been asked, judged or written.                 *)
LEMMA InitInductive == Init => IInv
<1> SUFFICES ASSUME Init PROVE IInv
  OBVIOUS
<1> USE DEF Init, Row
<1>1. TypeOK
  <2>1. model \in [status : Statuses, version : Nat \union {-1}, token : BOOLEAN]
    BY DEF Statuses
  <2>2. packet \in Rows
    BY RowConstants DEF NoPacket
  <2>3. agent \in [Agents -> [message : {"none", "queued", "acked"},
                              locked : BOOLEAN]]
    OBVIOUS
  <2>4. /\ sf \in SfStates
        /\ faults \in 0 .. MaxFaults
    BY DecisionCycleAssumption DEF SfStates
  <2>5. QED
    BY <2>1, <2>2, <2>3, <2>4 DEF TypeOK, Rows
<1>2. Phase
  BY DEF Phase, NoPacket, Unproposed, Unassembled
<1>3. Asks
  BY DEF Asks, Asked
<1>4. Images
  BY DEF Images, Versions
<1>5. StatusJustified
  BY DEF StatusJustified, Answers
<1>6. OrdersAuthorised
  BY DEF OrdersAuthorised
<1>7. QED
  BY <1>1, <1>2, <1>3, <1>4, <1>5, <1>6 DEF IInv

(* Every step keeps the types.                                             *)
LEMMA TypePreserved == TypeOK /\ [Next]_vars => TypeOK'
<1> SUFFICES ASSUME TypeOK, [Next]_vars PROVE TypeOK'
  OBVIOUS
<1> USE DecisionCycleAssumption DEF TypeOK
<1>1. ASSUME Execution PROVE TypeOK'
  <2> USE DEF SfStates, Agents
  <2>1. CASE EmitCycleStarted \/ EmitCycleFailed
    BY <2>1, RowConstants
    DEF EmitCycleStarted, EmitCycleFailed, Started, Failed, Rows
  <2>2. CASE ResolveProjections \/ ProjectionsFail
    BY <2>2 DEF ResolveProjections, ProjectionsFail, Invoke
  <2>3. ASSUME NEW a \in Agents, StageTimeout(a) PROVE TypeOK'
    BY <2>3 DEF StageTimeout
  <2>4. CASE AssemblePacket \/ AssembleFails
    <3>1. packet' \in Rows
      BY <2>4, RowConstants
      DEF AssemblePacket, AssembleFails, PutPacket, Proposal, Rows
    <3>2. images' \subseteq images \union {packet'}
      BY <2>4 DEF AssemblePacket, AssembleFails, PutPacket
    <3>3. QED
      BY <2>4, <3>1, <3>2 DEF AssemblePacket, AssembleFails, Rows
  <2>5. CASE ProposeRecommendation \/ CycleTimeout
    BY <2>5 DEF ProposeRecommendation, CycleTimeout
  <2>6. CASE RequestUserConfirmation
    <3>1. packet' \in Rows
      <4>1. /\ "AWAITING_CONFIRMATION" \in Statuses
            /\ packet.version + 1 \in Nat
        BY DEF Statuses
      <4>2. QED
        BY <2>6, <4>1, RowType DEF RequestUserConfirmation
    <3>2. QED
      BY <2>6, <3>1 DEF RequestUserConfirmation, Rows
  <2>7. CASE StateFails
    BY <2>7 DEF StateFails, Fault
  <2>8. QED
    BY <1>1, <2>1, <2>2, <2>3, <2>4, <2>5, <2>6, <2>7 DEF Execution
<1>2. ASSUME NEW e \in events, ExecuteIntents(e) PROVE TypeOK'
  <2>1. StatusAfter(e) \in Statuses \/ e.task \in Agents
    BY EventFacts DEF StatusAfter, Statuses, Decided, Answers, Verdicts
  <2>2. packet' \in Rows
    <3>1. CASE e.task \in Agents
      BY <1>2, <3>1 DEF ExecuteIntents, Rows
    <3>2. CASE e.task \notin Agents
      <4>1. (packet.token /\ e.task # "user") \in BOOLEAN
        OBVIOUS
      <4>2. packet.version + 1 \in Nat
        OBVIOUS
      <4>3. Updated(e) \in Rows
        BY <2>1, <3>2, <4>1, <4>2, RowType DEF Updated
      <4>4. QED
        BY <1>2, <3>2, <4>3 DEF ExecuteIntents
    <3>3. QED
      BY <3>1, <3>2
  <2>3. images' \subseteq images \union {packet'}
    BY <1>2 DEF ExecuteIntents
  <2>4. QED
    BY <1>2, <2>2, <2>3 DEF ExecuteIntents, Rows
<1>3. ASSUME NEW e \in events,
             DropWithoutToken(e) \/ CallbackCrash(e) \/ Redeliver(e)
      PROVE  TypeOK'
  BY <1>3 DEF DropWithoutToken, CallbackCrash, Redeliver, Fault
<1>4. ASSUME NEW e \in events, FailTask(e) \/ ResumeFails(e) PROVE TypeOK'
  BY <1>4 DEF FailTask, ResumeFails, FailState, Fault, SfStates
<1>5. ASSUME NEW e \in events, ResumeTask(e) PROVE TypeOK'
  <2>1. NextState(e) \in SfStates
    BY EventFacts DEF NextState, SfStates, Agents, Verdicts, Answers
  <2>2. agent' \in [Agents -> [message : {"none", "queued", "acked"},
                               locked : BOOLEAN]]
    BY <1>5 DEF ResumeTask, Invoke
  <2>3. QED
    BY <1>5, <2>1, <2>2 DEF ResumeTask
<1>6. ASSUME NEW a \in Agents, RunAgent(a) PROVE TypeOK'
  <2>1. agent' \in [Agents -> [message : {"none", "queued", "acked"},
                               locked : BOOLEAN]]
    <3>1. CASE agent' = [agent EXCEPT ![a] = [message |-> "acked", locked |-> TRUE]]
      BY <3>1
    <3>2. CASE agent' = [agent EXCEPT ![a].locked = TRUE]
      BY <3>2
    <3>3. QED
      BY <1>6, <3>1, <3>2 DEF RunAgent
  <2>2. events \subseteq events' /\ events' \subseteq AllEvents
    <3>1. CASE UNCHANGED events
      BY <3>1
    <3>2. ASSUME NEW says \in {"completed", "failed"}, Answer(Event(a, says, a, TRUE))
          PROVE  events \subseteq events' /\ events' \subseteq AllEvents
      BY <3>2, AgentAnswers DEF Answer
    <3>3. QED
      BY <1>6, <3>1, <3>2 DEF RunAgent
  <2>3. faults' \in 0 .. MaxFaults
    <3>1. CASE UNCHANGED faults
      BY <3>1
    <3>2. CASE Fault
      BY <3>2 DEF Fault
    <3>3. QED
      BY <1>6, <3>1, <3>2 DEF RunAgent
  <2>4. QED
    BY <1>6, <2>1, <2>2, <2>3 DEF RunAgent
<1>7. ASSUME NEW a \in Agents, SkipDuplicateInvocation(a) PROVE TypeOK'
  <2>1. agent' \in [Agents -> [message : {"none", "queued", "acked"},
                               locked : BOOLEAN]]
    BY <1>7 DEF SkipDuplicateInvocation
  <2>2. QED
    BY <1>7, <2>1 DEF SkipDuplicateInvocation
<1>8. ASSUME NEW v \in Verdicts, EvaluateCompliance(v) PROVE TypeOK'
  <2>1. Event("compliance", v, "check", TRUE) \in AllEvents
    BY DEF AllEvents, CheckEvents
  <2>2. QED
    BY <1>8, <2>1 DEF EvaluateCompliance, Answer
<1>9. ASSUME NEW row \in images, Project(row) PROVE TypeOK'
  BY <1>9 DEF Project
<1>10. CASE ShowDecision
  BY <1>10 DEF ShowDecision
<1>11. ASSUME NEW c \in Clicks, NEW answer \in Answers, Click(c, answer)
       PROVE  TypeOK'
  <2>1. Event("user", answer, c, model.token) \in AllEvents
    BY DEF AllEvents, UserEvents
  <2>2. QED
    BY <1>11, <2>1 DEF Click, Answer
<1>12. ASSUME NEW e \in events, PlaceOrders(e) PROVE TypeOK'
  BY <1>12 DEF PlaceOrders
<1>13. CASE UNCHANGED vars
  BY <1>13 DEF vars
<1>14. QED
  BY <1>1, <1>2, <1>3, <1>4, <1>5, <1>6, <1>7, <1>8, <1>9, <1>10, <1>11, <1>12,
     <1>13
  DEF Next, Callback

-----------------------------------------------------------------------------
(* A verdict stands, and answers and images stay on the bus.               *)
LEMMA Kept ==
  ASSUME TypeOK, Phase, [Next]_vars
  PROVE  /\ check \in Verdicts => check' = check
         /\ check # "none" => check' # "none"
         /\ events \subseteq events'
         /\ images \subseteq images'
BY DEF Next, Execution, Callback, vars, Phase, Unproposed, Verdicts, Answer,
  PutPacket, EmitCycleStarted, ResolveProjections, ProjectionsFail,
  StageTimeout, EmitCycleFailed, AssemblePacket, AssembleFails,
  ProposeRecommendation, RequestUserConfirmation, StateFails, CycleTimeout,
  RunAgent, SkipDuplicateInvocation, EvaluateCompliance, DropWithoutToken,
  FailTask, ResumeTask, ResumeFails, ExecuteIntents, CallbackCrash, Redeliver,
  Project, ShowDecision, Click, PlaceOrders

(* Verdict or answer of the user: there is a verdict and a packet, and the *)
(* execution is past the proposal.                                         *)
LEMMA Judged ==
  ASSUME IInv, NEW e \in events, e.task \notin Agents
  PROVE  /\ check \in Verdicts
         /\ e.task = "user" => check = "L2" /\ e.says \in Answers
         /\ e.task = "compliance" => check = e.says
         /\ sf \notin Unproposed
         /\ packet.version >= 1
         /\ packet \in Versions
<1>1. e.task = "user" \/ e.task = "compliance"
  BY EventFacts DEF IInv, TypeOK
<1>2. /\ e.task = "user" => check = "L2" /\ e.says \in Answers
      /\ e.task = "compliance" => check = e.says /\ e.says \in Verdicts
  BY EventFacts DEF IInv, TypeOK, Asks, Agents
<1>3. check \in Verdicts
  BY <1>1, <1>2 DEF Verdicts
<1>4. sf \notin Unproposed /\ packet.version >= 1
  BY <1>3 DEF IInv, Phase, Verdicts
<1>5. packet \in images
  BY <1>4 DEF IInv, Images
<1>6. packet \in Versions
  BY <1>5 DEF IInv, Phase, Versions, Started, Failed, Row
<1>7. QED
  BY <1>2, <1>3, <1>4, <1>6

(* Who writes the packet, or puts an image on the bus.                     *)
LEMMA Writers ==
  ASSUME IInv, [Next]_vars
  PROVE  \/ UNCHANGED <<packet, images>>
         \/ EmitCycleStarted
         \/ EmitCycleFailed
         \/ sf = "assemble" /\ sf' # "failed" /\ PutPacket /\ UNCHANGED <<check, model>>
         \/ RequestUserConfirmation
         \/ \E e \in handling :
              /\ e.task \notin Agents
              /\ packet' = Updated(e)
              /\ images' = images \union {packet'}
              /\ UNCHANGED <<sf, check, events, model>>
BY DEF Next, Execution, Callback, vars, ResolveProjections,
    ProjectionsFail, StageTimeout, AssemblePacket,
    AssembleFails, ProposeRecommendation, StateFails,
    CycleTimeout, RunAgent, SkipDuplicateInvocation, EvaluateCompliance,
    DropWithoutToken, FailTask, ResumeTask, ResumeFails, ExecuteIntents,
    CallbackCrash, Redeliver, Project, ShowDecision, Click, PlaceOrders

(* How the execution moves.                                                *)
LEMMA Moves ==
  ASSUME IInv, [Next]_vars
  PROVE  \/ UNCHANGED sf
         \/ Execution
         \/ \E e \in events :
              sf = e.task /\ sf' \in {NextState(e), FailState(e)}
                /\ UNCHANGED <<check, packet, images>>
BY DEF Next, Callback, vars,
    RunAgent, SkipDuplicateInvocation, EvaluateCompliance,
    DropWithoutToken, FailTask, ResumeTask, ResumeFails, ExecuteIntents,
    CallbackCrash, Redeliver, Project, ShowDecision, Click, PlaceOrders

(* The execution moves on and the packet is written in step.               *)
LEMMA PhasePreserved == IInv /\ [Next]_vars => Phase'
<1> SUFFICES ASSUME IInv, [Next]_vars PROVE Phase'
  OBVIOUS
<1> USE DEF Unproposed, Unassembled, Agents
<1>1. TypeOK /\ Phase
  BY DEF IInv
<1>2. CASE Execution
  <2>1. CASE EmitCycleStarted \/ ResolveProjections \/ ProjectionsFail
    BY <1>1, <2>1
    DEF Phase, EmitCycleStarted, ResolveProjections, ProjectionsFail
  <2>2. ASSUME NEW a \in Agents, StageTimeout(a) PROVE Phase'
    BY <1>1, <2>2 DEF Phase, StageTimeout
  <2>3. CASE AssemblePacket \/ AssembleFails
    BY <1>1, <2>3
    DEF Phase, AssemblePacket, AssembleFails, PutPacket, Proposal, Row
  <2>4. CASE EmitCycleFailed \/ StateFails \/ CycleTimeout
    BY <1>1, <2>4 DEF Phase, EmitCycleFailed, StateFails, CycleTimeout
  <2>5. CASE ProposeRecommendation
    BY <1>1, <2>5 DEF Phase, ProposeRecommendation, Proposal, Row
  <2>6. CASE RequestUserConfirmation
    BY <1>1, <2>6 DEF TypeOK, Phase, RequestUserConfirmation, Row
  <2>7. QED
    BY <1>2, <2>1, <2>2, <2>3, <2>4, <2>5, <2>6 DEF Execution
<1>3. ASSUME NEW e \in events, sf = e.task, sf' \in {NextState(e), FailState(e)},
             UNCHANGED <<check, packet, images>>
      PROVE  Phase'
  <2>1. CASE e.task \in Agents
    <3>1. sf' \in {"narrative", "assemble", "emitFailed"}
      <4>1. e.says \in {"completed", "failed"}
        BY <1>1, <2>1, EventFacts DEF TypeOK
      <4>2. QED
        BY <1>3, <2>1, <4>1 DEF NextState, FailState
    <3>2. QED
      BY <1>1, <1>3, <2>1, <3>1 DEF Phase
  <2>2. CASE e.task \notin Agents
    <3>1. /\ sf' \in {"endBlocked", "endL1", "requestUser", "endUser", "taskFailed"}
          /\ sf' = "requestUser" => e.says = "L2"
      BY <1>3, <2>2 DEF NextState, FailState
    <3>2. sf' = "requestUser" => check = "L2"
      BY <2>2, <3>1, Judged, EventFacts DEF Answers, IInv, TypeOK
    <3>3. QED
      BY <1>1, <1>3, <3>1, <3>2 DEF Phase
  <2>3. QED
    BY <2>1, <2>2
<1>4. ASSUME NEW v \in Verdicts, EvaluateCompliance(v) PROVE Phase'
  BY <1>1, <1>4 DEF Phase, EvaluateCompliance
<1>5. ASSUME NEW e \in events, ExecuteIntents(e) PROVE Phase'
  <2>1. CASE e.task \in Agents
    BY <1>1, <1>5, <2>1 DEF Phase, ExecuteIntents
  <2>2. CASE e.task \notin Agents
    <3>1. /\ packet'.version = packet.version + 1
          /\ packet'.status = StatusAfter(e)
      BY <1>5, <2>2 DEF ExecuteIntents, Updated, Row
    <3>2. StatusAfter(e) \notin {"GENERATING", "FAILED"}
      BY <1>1, <2>2, EventFacts DEF StatusAfter, TypeOK, Phase, Verdicts, Answers
    <3>3. QED
      BY <1>1, <1>5, <2>2, <3>1, <3>2, Judged DEF Phase, ExecuteIntents, TypeOK
  <2>3. QED
    BY <2>1, <2>2
<1>6. CASE UNCHANGED <<sf, check, packet>>
  BY <1>1, <1>6 DEF Phase
<1>7. QED
  BY <1>2, <1>3, <1>4, <1>5, <1>6
  DEF Next, Callback, vars,
    RunAgent, SkipDuplicateInvocation,
    DropWithoutToken, FailTask, ResumeTask, ResumeFails,
    CallbackCrash, Redeliver, Project, ShowDecision, Click, PlaceOrders

(* The user is asked once, at L2, and answers only then.                   *)
LEMMA AsksPreserved == IInv /\ [Next]_vars => Asks'
<1> SUFFICES ASSUME IInv, [Next]_vars PROVE Asks'
  OBVIOUS
<1>1. TypeOK /\ Phase /\ Asks /\ Images /\ StatusJustified
  BY DEF IInv
<1>2. Asked => Asked' /\ check' = "L2"
                 /\ sf' \in {"user", "endUser", "taskFailed", "timedOut"}
  <2> SUFFICES ASSUME Asked PROVE Asked' /\ check' = "L2"
                 /\ sf' \in {"user", "endUser", "taskFailed", "timedOut"}
    OBVIOUS
  <2>1. Asked'
    BY <1>1, Kept DEF Asked
  <2>2. check = "L2" /\ sf \in {"user", "endUser", "taskFailed", "timedOut"}
    BY <1>1 DEF Asks
  <2>3. check' = "L2"
    BY <1>1, <2>2, Kept DEF Verdicts
  <2>4. Execution => sf' \in {"user", "endUser", "taskFailed", "timedOut"}
    BY <2>2 DEF Execution, EmitCycleStarted, ResolveProjections, ProjectionsFail,
      StageTimeout, EmitCycleFailed, AssemblePacket, AssembleFails, Agents,
      ProposeRecommendation, RequestUserConfirmation, StateFails, CycleTimeout
  <2>5. ASSUME NEW e \in events, sf = e.task, sf' \in {NextState(e), FailState(e)}
        PROVE  sf' \in {"user", "endUser", "taskFailed", "timedOut"}
    <3>1. e.task = "user" /\ e.says \in Answers
      BY <1>1, <2>2, <2>5, EventFacts DEF TypeOK, Agents
    <3>2. QED
      BY <2>5, <3>1 DEF NextState, FailState, Agents, Answers
  <2>6. QED
    BY <2>1, <2>2, <2>3, <2>4, <2>5, Moves
<1>3. Asked' /\ ~Asked => check' = "L2" /\ sf' = "user"
  <2> SUFFICES ASSUME Asked', ~Asked PROVE check' = "L2" /\ sf' = "user"
    OBVIOUS
  <2>1. CASE RequestUserConfirmation
    BY <1>1, <2>1 DEF RequestUserConfirmation, Phase
  <2>2. ASSUME NEW e \in handling, e.task \notin Agents, packet' = Updated(e),
               images' = images \union {packet'}
        PROVE  FALSE
    <3>1. packet'.status = "AWAITING_CONFIRMATION"
      BY <2>2 DEF Asked
    <3>2. StatusAfter(e) = "AWAITING_CONFIRMATION"
      BY <2>2, <3>1 DEF Updated, Row
    <3>3. packet.status = "AWAITING_CONFIRMATION"
      BY <1>1, <3>2, <2>2, EventFacts DEF StatusAfter, Answers, Verdicts, TypeOK
    <3>4. QED
      BY <1>1, <2>2, <3>3, Judged DEF Versions, Asked, TypeOK
  <2>3. CASE UNCHANGED images
    BY <2>3 DEF Asked
  <2>4. CASE EmitCycleStarted \/ EmitCycleFailed \/ PutPacket
    BY <2>4 DEF EmitCycleStarted, EmitCycleFailed, PutPacket, Row, Asked
  <2>5. QED
    BY <2>1, <2>2, <2>3, <2>4, Writers
<1>4. offered' => Asked'
  <2>1. offered' => offered \/ model.status = "AWAITING_CONFIRMATION"
    BY DEF Next, Execution, Callback, vars, EmitCycleStarted,
      ResolveProjections, ProjectionsFail, StageTimeout, EmitCycleFailed,
      AssemblePacket, AssembleFails, ProposeRecommendation,
      RequestUserConfirmation, StateFails, CycleTimeout, RunAgent,
      SkipDuplicateInvocation, EvaluateCompliance, DropWithoutToken, FailTask,
      ResumeTask, ResumeFails, ExecuteIntents, CallbackCrash, Redeliver,
      Project, ShowDecision, Click, PlaceOrders
  <2>2. model.status = "AWAITING_CONFIRMATION" => Asked
    BY <1>1 DEF Images, Asked
  <2>3. QED
    BY <1>1, <1>2, <2>1, <2>2 DEF Asks
<1>5. ASSUME NEW e \in events'
      PROVE  /\ e.task = "compliance" => check' = e.says
             /\ e.task = "user" => Asked'
  <2>1. CASE e \in events
    <3>1. e.task = "compliance" => check' = e.says
      BY <1>1, <2>1, Judged, Kept DEF Agents
    <3>2. e.task = "user" => Asked'
      BY <1>1, <1>2, <2>1 DEF Asks
    <3>3. QED
      BY <3>1, <3>2
  <2>2. ASSUME NEW v \in Verdicts, EvaluateCompliance(v), e \notin events
        PROVE  e.task = "compliance" /\ check' = e.says
    BY <2>2 DEF EvaluateCompliance, Answer, Event
  <2>3. ASSUME NEW c \in Clicks, NEW answer \in Answers, Click(c, answer), e \notin events
        PROVE  e.task = "user" /\ Asked'
    BY <1>1, <1>2, <2>3 DEF Click, Answer, Event, Asks
  <2>4. ASSUME NEW a \in Agents, RunAgent(a), e \notin events
        PROVE  e.task \in Agents
    BY <2>4 DEF RunAgent, Answer, Event
  <2>5. CASE UNCHANGED events
    BY <2>1, <2>5
  <2>6. QED
    BY <2>1, <2>2, <2>3, <2>4, <2>5
    DEF Next, Execution, Callback, vars, Agents, EmitCycleStarted,
      ResolveProjections, ProjectionsFail, StageTimeout, EmitCycleFailed,
      AssemblePacket, AssembleFails, ProposeRecommendation,
      RequestUserConfirmation, StateFails, CycleTimeout,
      SkipDuplicateInvocation, DropWithoutToken, FailTask,
      ResumeTask, ResumeFails, ExecuteIntents, CallbackCrash, Redeliver,
      Project, ShowDecision, PlaceOrders
<1>6. QED
  BY <1>2, <1>3, <1>4, <1>5 DEF Asks

(* A new image is newer than every version so far, and decided if any is.  *)
LEMMA ImagesPreserved == IInv /\ [Next]_vars => Images'
<1> SUFFICES ASSUME IInv, [Next]_vars PROVE Images'
  OBVIOUS
<1>1. TypeOK /\ Phase /\ Asks /\ Images /\ StatusJustified
  BY DEF IInv
<1>2. sf = "failed" => sf' = "failed"
  <2>1. sf = "failed" => ~Execution
    BY DEF Execution, EmitCycleStarted, ResolveProjections, ProjectionsFail,
      StageTimeout, EmitCycleFailed, AssemblePacket, AssembleFails, Agents,
      ProposeRecommendation, RequestUserConfirmation, StateFails, CycleTimeout
  <2>2. \A e \in events : e.task # "failed"
    BY <1>1, EventFacts DEF TypeOK, Agents
  <2>3. QED
    BY <2>1, <2>2, Moves
<1>3. model'.status # "NONE" => model' \in images'
  <2>1. UNCHANGED model \/ model' \in images
    BY DEF Next, Execution, Callback, vars, EmitCycleStarted,
      ResolveProjections, ProjectionsFail, StageTimeout, EmitCycleFailed,
      AssemblePacket, AssembleFails, ProposeRecommendation,
      RequestUserConfirmation, StateFails, CycleTimeout, RunAgent,
      SkipDuplicateInvocation, EvaluateCompliance, DropWithoutToken, FailTask,
      ResumeTask, ResumeFails, ExecuteIntents, CallbackCrash, Redeliver,
      Project, ShowDecision, Click, PlaceOrders
  <2>2. QED
    BY <1>1, <2>1, Kept DEF Images
<1>4. ASSUME UNCHANGED packet, Versions' = Versions,
             Failed \in images' => sf' = "failed"
      PROVE  Images'
  BY <1>1, <1>3, <1>4, Kept DEF Images
<1>5. ASSUME packet' \notin {Started, Failed}, packet'.version >= 1,
             images' = images \union {packet'}, packet'.version \in Nat,
             Failed \in images => sf' = "failed",
             \A r \in Versions : r.version < packet'.version,
             packet'.version = 1 => packet' = Proposal,
             \A r \in Versions : r.status \in Decided => packet'.status \in Decided
      PROVE  Images'
  <2>1. Versions' = Versions \union {packet'}
    BY <1>5 DEF Versions
  <2>2. ASSUME NEW r \in Versions'
        PROVE  /\ r.version \in 1 .. packet'.version
               /\ r.version = 1 => r = Proposal
               /\ r.status \in Decided => packet'.status \in Decided
    BY <1>1, <1>5, <2>1 DEF Images
  <2>3. ASSUME NEW r \in Versions', NEW s \in Versions'
        PROVE  /\ r.version = s.version => r = s
               /\ r.status \in Decided /\ r.version < s.version => s.status \in Decided
    <3>1. \A t \in Versions : t.version \in Nat
      BY <1>1 DEF Images, TypeOK, Versions
    <3>2. CASE r \in Versions /\ s \in Versions
      BY <1>1, <3>2 DEF Images
    <3>3. CASE r = packet' /\ s = packet'
      BY <1>5, <3>3
    <3>4. CASE r = packet' /\ s \in Versions
      BY <1>5, <3>1, <3>4
    <3>5. CASE r \in Versions /\ s = packet'
      BY <1>5, <3>1, <3>5
    <3>6. QED
      BY <2>1, <3>2, <3>3, <3>4, <3>5
  <2>4. packet' \in images' /\ (Failed \in images' => sf' = "failed")
    BY <1>5
  <2>5. QED
    BY <1>3, <2>2, <2>3, <2>4 DEF Images
<1>6. CASE UNCHANGED <<packet, images>>
  BY <1>1, <1>2, <1>4, <1>6 DEF Images, Versions
<1>7. CASE EmitCycleStarted
  BY <1>1, <1>4, <1>7 DEF EmitCycleStarted, Versions, Started, Failed, Row, Images
<1>8. CASE EmitCycleFailed
  BY <1>1, <1>4, <1>8 DEF EmitCycleFailed, Versions, Failed
<1>9. CASE sf = "assemble" /\ PutPacket
  <2>1. packet.version = 0
    BY <1>1, <1>9 DEF Phase, Unassembled, NoPacket, Row
  <2>2. Versions = {}
    BY <1>1, <2>1 DEF Images
  <2>3. Failed \notin images
    BY <1>1, <1>9 DEF Images
  <2>4. QED
    BY <1>5, <1>9, <2>2, <2>3 DEF PutPacket, Proposal, Started, Failed, Row
<1>10. CASE RequestUserConfirmation
  <2>1. check = "L2" /\ packet.version >= 1
    BY <1>1, <1>10 DEF RequestUserConfirmation, Phase
  <2>2. /\ packet' = Row("AWAITING_CONFIRMATION", packet.version + 1, TRUE)
        /\ images' = images \union {packet'}
    BY <1>10 DEF RequestUserConfirmation
  <2>3. /\ packet'.version = packet.version + 1
        /\ packet' \notin {Started, Failed}
        /\ packet.version \in Nat
    BY <1>1, <2>2 DEF Row, Started, Failed, TypeOK
  <2>4. \A r \in Versions : r.version \in 1 .. packet.version
    BY <1>1 DEF Images
  <2>5. \A r \in Versions : r.status \notin Decided
    <3>1. packet \in images /\ sf = "requestUser"
      BY <1>1, <1>10, <2>1 DEF Images, RequestUserConfirmation
    <3>2. packet.status \notin Decided
      <4>1. \A e \in events : e.task # "user"
        BY <1>1, <3>1 DEF Asks
      <4>2. QED
        BY <1>1, <2>1, <4>1 DEF StatusJustified, Decided
    <3>3. QED
      BY <1>1, <3>2 DEF Images
  <2>6. Failed \notin images
    BY <1>1, <1>10 DEF Images, RequestUserConfirmation
  <2>7. /\ packet'.version \in Nat /\ packet'.version >= 2
        /\ \A r \in Versions : r.version < packet'.version
    BY <2>1, <2>3, <2>4
  <2>8. images' = images \union {packet'}
    BY <2>2
  <2>9. QED
    BY <1>5, <2>8, <2>3, <2>5, <2>6, <2>7
<1>11. ASSUME NEW e \in handling, e.task \notin Agents, packet' = Updated(e),
              images' = images \union {packet'}
       PROVE  Images'
  <2>1. /\ sf \notin Unproposed
        /\ packet.version >= 1 /\ packet.version \in Nat
    BY <1>1, <1>11, Judged DEF TypeOK
  <2>2. /\ packet'.version = packet.version + 1
        /\ packet'.status = StatusAfter(e)
    BY <1>11 DEF Updated, Row
  <2>3. packet.status \in Decided => packet'.status \in Decided
    BY <1>1, <1>11, <2>2, EventFacts
    DEF StatusAfter, Decided, TypeOK, Verdicts, Answers
  <2>4. packet' \notin {Started, Failed}
    BY <2>1, <2>2 DEF Started, Failed, Row
  <2>5. Failed \notin images
    BY <1>1, <2>1 DEF Images, Unproposed
  <2>6. \A r \in Versions :
          /\ r.version \in 1 .. packet.version
          /\ r.status \in Decided => packet'.status \in Decided
    BY <1>1, <2>3 DEF Images
  <2>7. QED
    BY <1>5, <1>11, <2>1, <2>2, <2>4, <2>5, <2>6
<1>12. QED
  BY <1>6, <1>7, <1>8, <1>9, <1>10, <1>11, Writers

(* A status is written by whoever has its reason, and the reason stays.    *)
LEMMA StatusPreserved == IInv /\ [Next]_vars => StatusJustified'
<1> SUFFICES ASSUME IInv, [Next]_vars PROVE StatusJustified'
  OBVIOUS
<1>1. TypeOK /\ Phase /\ Asks /\ Images /\ StatusJustified
  BY DEF IInv
<1>2. check \in Verdicts => check' = check
  BY <1>1, Kept
<1>3. CASE UNCHANGED packet
  BY <1>1, <1>2, <1>3, Kept DEF StatusJustified, Verdicts
<1>4. CASE PutPacket
  BY <1>4 DEF PutPacket, Row, StatusJustified, Answers
<1>5. CASE RequestUserConfirmation
  BY <1>1, <1>5 DEF RequestUserConfirmation, Phase, Row, StatusJustified, Answers
<1>6. ASSUME NEW e \in handling, e.task \notin Agents, packet' = Updated(e),
             UNCHANGED check
      PROVE  StatusJustified'
  <2>1. /\ packet'.status = StatusAfter(e)
        /\ packet'.token = (packet.token /\ e.task # "user")
    BY <1>6 DEF Updated, Row
  <2>2. e \in events /\ e \in events'
    BY <1>1, <1>6, Kept DEF TypeOK
  <2>3. CASE e.task = "user"
    <3>1. check = "L2" /\ e.says \in Answers
      BY <1>6, <2>2, <2>3, Judged
    <3>2. packet'.status = e.says /\ ~packet'.token
      BY <2>1, <2>3, <3>1 DEF StatusAfter, Answers
    <3>3. QED
      BY <1>6, <2>2, <2>3, <3>1, <3>2 DEF StatusJustified, Answers
  <2>4. CASE e.task = "compliance"
    <3>1. check = e.says /\ check \in Verdicts
      BY <1>6, <2>2, <2>4, Judged
    <3>2. CASE e.says = "L2"
      <4>1. packet'.status = packet.status /\ packet'.token = packet.token
        BY <1>1, <2>1, <2>4, <3>2 DEF StatusAfter, TypeOK
      <4>2. QED
        BY <1>1, <1>6, <4>1, Kept DEF StatusJustified
    <3>3. CASE e.says # "L2"
      BY <1>6, <2>1, <3>1, <3>3 DEF StatusAfter, StatusJustified, Verdicts, Answers
    <3>4. QED
      BY <3>2, <3>3
  <2>5. QED
    BY <1>1, <1>6, <2>2, <2>3, <2>4, EventFacts DEF TypeOK
<1>7. QED
  BY <1>3, <1>4, <1>5, <1>6, Writers DEF EmitCycleStarted, EmitCycleFailed

(* An order is placed for an event that exists, and the verdict stands.    *)
LEMMA OrdersPreserved == IInv /\ [Next]_vars => OrdersAuthorised'
<1> SUFFICES ASSUME IInv, [Next]_vars PROVE OrdersAuthorised'
  OBVIOUS
<1>1. TypeOK /\ Phase /\ OrdersAuthorised
  BY DEF IInv
<1>2. CASE UNCHANGED orders
  BY <1>1, <1>2, Kept DEF OrdersAuthorised, Verdicts
<1>3. ASSUME NEW e \in events, PlaceOrders(e) PROVE OrdersAuthorised'
  <2>1. /\ e.says \in {"L1", "L2", "CONFIRMED"}
        /\ orders' = orders \union {e}
        /\ check' = check
    BY <1>3 DEF PlaceOrders, Authorizes
  <2>2. e.task \notin Agents
    BY <1>1, <2>1, EventFacts DEF TypeOK, Agents
  <2>3. /\ check \in {"L1", "L2"}
        /\ e.task = "user" => check = "L2" /\ e.says = "CONFIRMED"
    BY <1>1, <2>1, <2>2, Judged, EventFacts DEF TypeOK, Answers, Verdicts
  <2>4. QED
    BY <1>1, <2>1, <2>3 DEF OrdersAuthorised
<1>4. QED
  BY <1>2, <1>3
  DEF Next, Execution, Callback, vars, EmitCycleStarted,
    ResolveProjections, ProjectionsFail, StageTimeout, EmitCycleFailed,
    AssemblePacket, AssembleFails, ProposeRecommendation,
    RequestUserConfirmation, StateFails, CycleTimeout, RunAgent,
    SkipDuplicateInvocation, EvaluateCompliance, DropWithoutToken, FailTask,
    ResumeTask, ResumeFails, ExecuteIntents, CallbackCrash, Redeliver,
    Project, ShowDecision, Click

(* The parts together are inductive.                                       *)
LEMMA DecisionInductive == Spec => []IInv
<1>1. IInv /\ [Next]_vars => IInv'
  BY TypePreserved, PhasePreserved, AsksPreserved, ImagesPreserved,
     StatusPreserved, OrdersPreserved DEF IInv
<1>2. QED
  BY <1>1, InitInductive, PTL DEF Spec

-----------------------------------------------------------------------------
(* Every reachable state of a decision cycle is well typed.                *)
THEOREM DecisionTypeCorrect == Spec => []TypeOK
<1>1. IInv => TypeOK
  BY DEF IInv
<1>2. QED
  BY <1>1, DecisionInductive, PTL

(* No order without a verdict that lets it through, and none on the user's *)
(* word where the verdict did not ask for it.                              *)
THEOREM DecisionOrdersAuthorised == Spec => []OrdersAuthorised
<1>1. IInv => OrdersAuthorised
  BY DEF IInv
<1>2. QED
  BY <1>1, DecisionInductive, PTL

(* The status of the DecisionPacket has its reason, whoever wrote last.    *)
THEOREM DecisionStatusJustified == Spec => []StatusJustified
<1>1. IInv => StatusJustified
  BY DEF IInv
<1>2. QED
  BY <1>1, DecisionInductive, PTL

(* Different images of one version are the failure signal of an execution  *)
(* that died in AssemblePacket and the packet it had put.                  *)
THEOREM DecisionOneImagePerVersion == Spec => []OneImagePerVersion
<1>1. IInv => OneImagePerVersion
  <2> SUFFICES ASSUME IInv, NEW r \in images, NEW s \in images,
                      r.version = s.version, r # s
               PROVE  /\ r.version = 1
                      /\ {r.status, s.status} = {"FAILED", "PENDING"}
                      /\ sf = "failed"
    BY DEF OneImagePerVersion
  <2>1. Images
    BY DEF IInv
  <2>2. \A t \in Versions : t.version >= 1 /\ (t.version = 1 => t = Proposal)
    BY <2>1 DEF Images, IInv, TypeOK, Versions
  <2>3. ~(r \in Versions /\ s \in Versions)
    BY <2>1 DEF Images
  <2>4. Started.version = 0 /\ Failed.version = 1
    BY DEF Started, Failed, Row
  <2>5. \/ r = Failed /\ s \in Versions
        \/ s = Failed /\ r \in Versions
    BY <2>2, <2>3, <2>4 DEF Versions
  <2>6. \/ r = Failed /\ s = Proposal
        \/ s = Failed /\ r = Proposal
    BY <2>2, <2>4, <2>5
  <2>7. Failed \in images /\ sf = "failed"
    BY <2>1, <2>6 DEF Images
  <2>8. Failed.status = "FAILED" /\ Proposal.status = "PENDING"
    BY DEF Failed, Proposal, Row
  <2>9. {r.status, s.status} = {"FAILED", "PENDING"}
    BY <2>6, <2>8
  <2>10. QED
    BY <2>4, <2>6, <2>7, <2>9
<1>2. QED
  BY <1>1, DecisionInductive, PTL

(* No writer reopens a decided packet: PENDING is put before any verdict,  *)
(* and the user is asked before any of his answers exists.                 *)
THEOREM DecisionPacketNotReopened == Spec => PacketNotReopened
<1>1. ASSUME IInv, [Next]_vars, packet.status \in Decided
      PROVE  packet'.status \in Decided
  <2>1. TypeOK /\ Phase /\ Asks /\ StatusJustified
    BY <1>1 DEF IInv
  <2>2. check \in Verdicts /\ (check = "L2" => \E e \in events : e.task = "user")
    BY <1>1, <2>1 DEF StatusJustified, Decided, Verdicts, Answers
  <2>3. sf \notin Unproposed /\ sf # "requestUser"
    BY <2>1, <2>2 DEF Phase, Verdicts, Asks
  <2>4. ASSUME NEW e \in handling, e.task \notin Agents, packet' = Updated(e)
        PROVE  packet'.status \in Decided
    <3>1. packet'.status = StatusAfter(e)
      BY <2>4 DEF Updated, Row
    <3>2. QED
      BY <1>1, <2>1, <2>4, <3>1, EventFacts
      DEF StatusAfter, Decided, TypeOK, Verdicts, Answers
  <2>5. QED
    BY <1>1, <2>3, <2>4, Writers
    DEF EmitCycleStarted, EmitCycleFailed, RequestUserConfirmation, Unproposed,
        Unassembled
<1>2. IInv /\ [Next]_vars =>
        [packet.status \in Decided => packet'.status \in Decided]_vars
  BY <1>1
<1>3. QED
  BY <1>2, DecisionInductive, PTL DEF Spec, PacketNotReopened

(* A decision shown as decided is never shown otherwise again: every       *)
(* higher version is decided too.                                          *)
THEOREM DecisionDecidedStaysDecided == Spec => DecidedStaysDecided
<1>1. ASSUME IInv, [Next]_vars, model.status \in Decided
      PROVE  model'.status \in Decided
  <2>1. CASE UNCHANGED model
    BY <1>1, <2>1
  <2>2. ASSUME NEW row \in images, Project(row) PROVE model'.status \in Decided
    <3>1. model.version < row.version /\ model' = row
      BY <2>2 DEF Project
    <3>2. Images /\ TypeOK
      BY <1>1 DEF IInv
    <3>3. model \in Versions
      BY <1>1, <3>2
      DEF Images, Versions, Decided, Answers, Started, Failed, Row
    <3>4. model.version >= 1
      BY <3>2, <3>3 DEF Images, TypeOK
    <3>5. row \in Versions
      BY <3>1, <3>2, <3>4 DEF Versions, Started, Failed, Row, TypeOK
    <3>6. QED
      BY <1>1, <3>1, <3>2, <3>3, <3>5 DEF Images
  <2>3. QED
    BY <1>1, <2>1, <2>2
    DEF Next, Execution, Callback, vars, EmitCycleStarted,
      ResolveProjections, ProjectionsFail, StageTimeout, EmitCycleFailed,
      AssemblePacket, AssembleFails, ProposeRecommendation,
      RequestUserConfirmation, StateFails, CycleTimeout, RunAgent,
      SkipDuplicateInvocation, EvaluateCompliance, DropWithoutToken, FailTask,
      ResumeTask, ResumeFails, ExecuteIntents, CallbackCrash, Redeliver,
      ShowDecision, Click, PlaceOrders
<1>2. IInv /\ [Next]_vars =>
        [model.status \in Decided => model'.status \in Decided]_vars
  BY <1>1
<1>3. QED
  BY <1>2, DecisionInductive, PTL DEF Spec, DecidedStaysDecided

-----------------------------------------------------------------------------
(* Nothing of a decision is lost on its way.                               *)

(* The answers that decide the packet.                                     *)
Final(e) == e.token /\ e.says \in {"L1", "BLOCKED"} \union Answers

(* What has been acknowledged is recorded: no callback message is deleted  *)
(* before the packet says what it said, or something else that decides.    *)
AnswersKept ==
  \A e \in handled : Final(e) => packet.status \in Decided

(* An L2 verdict is on its way to the user as long as the packet is as it  *)
(* was proposed, unless the execution has ended.                           *)
QuestionKept ==
  check = "L2" /\ packet.status = "PENDING" =>
    \/ sf \in {"requestUser", "timedOut", "aborted", "taskFailed"}
    \/ sf = "compliance" /\ \E e \in events : e.task = "compliance" /\ Waiting(e)

(* The read model shows the packet, or the failure that beat its first     *)
(* version, or the packet's image is one that it will take.                *)
PacketShown ==
  packet.version > 0 =>
    \/ model = packet
    \/ model.status = "FAILED" /\ packet.version = 1
    \/ packet \in images /\ model.version < packet.version

(* Where the execution is when the verdict comes, and that nobody has      *)
(* resumed it while it waits.                                              *)
VerdictWaits ==
  /\ check \in Verdicts => \E e \in events : e.task = "compliance"
  /\ sf = "compliance" => \A e \in handling \union handled : e.task # "compliance"
  /\ check = "requested" => sf \in {"compliance", "timedOut"}
  /\ check = "L2" /\ packet.status = "PENDING" =>
       sf \in {"compliance", "requestUser", "timedOut", "aborted", "taskFailed"}

(* A decided packet stays decided.                                         *)
LEMMA DecidedKept ==
  ASSUME IInv, [Next]_vars, packet.status \in Decided
  PROVE  packet'.status \in Decided
<1>1. TypeOK /\ Phase /\ Asks /\ StatusJustified
  BY DEF IInv
<1>2. check \in Verdicts /\ (check = "L2" => \E e \in events : e.task = "user")
  BY <1>1 DEF StatusJustified, Decided, Verdicts, Answers
<1>3. sf \notin Unproposed /\ sf # "requestUser"
  BY <1>1, <1>2 DEF Phase, Verdicts, Asks
<1>4. ASSUME NEW e \in handling, e.task \notin Agents, packet' = Updated(e)
      PROVE  packet'.status \in Decided
  <2>1. packet'.status = StatusAfter(e)
    BY <1>4 DEF Updated, Row
  <2>2. QED
    BY <1>1, <1>4, <2>1, EventFacts
    DEF StatusAfter, Decided, TypeOK, Verdicts, Answers
<1>5. QED
  BY <1>3, <1>4, Writers
  DEF EmitCycleStarted, EmitCycleFailed, RequestUserConfirmation, Unproposed,
      Unassembled

(* What becomes acknowledged.                                              *)
LEMMA Acknowledged ==
  ASSUME IInv, [Next]_vars, NEW e \in handled', e \notin handled
  PROVE  \/ DropWithoutToken(e) \/ FailTask(e) \/ ExecuteIntents(e)
BY DEF Next, Execution, Callback, vars, EmitCycleStarted, ResolveProjections,
    ProjectionsFail, StageTimeout, EmitCycleFailed, AssemblePacket,
    AssembleFails, ProposeRecommendation, RequestUserConfirmation, StateFails,
    CycleTimeout, RunAgent, SkipDuplicateInvocation, EvaluateCompliance,
    DropWithoutToken, FailTask, ResumeTask, ResumeFails, ExecuteIntents,
    CallbackCrash, Redeliver, Project, ShowDecision, Click, PlaceOrders

(* A message is acknowledged in the step that records its answer, or once  *)
(* the packet is decided.                                                  *)
LEMMA AnswersPreserved == IInv /\ AnswersKept /\ [Next]_vars => AnswersKept'
<1> SUFFICES ASSUME IInv, AnswersKept, [Next]_vars, NEW e \in handled', Final(e)
             PROVE  packet'.status \in Decided
  BY DEF AnswersKept, Final
<1>1. CASE e \in handled
  BY <1>1, DecidedKept DEF AnswersKept
<1>2. CASE e \notin handled
  <2>1. ~DropWithoutToken(e) /\ ~FailTask(e)
    BY DEF DropWithoutToken, FailTask, Final, Answers
  <2>2. ExecuteIntents(e)
    BY <1>2, <2>1, Acknowledged
  <2>3. e \in AllEvents
    BY <2>2 DEF ExecuteIntents, IInv, TypeOK
  <2>4. e.task \notin Agents
    BY <2>3, EventFacts DEF Final, Answers, Agents
  <2>5. packet'.status = StatusAfter(e)
    BY <2>2, <2>4 DEF ExecuteIntents, Updated, Row
  <2> QED
    BY <2>5 DEF Final, StatusAfter, Decided, Answers
<1> QED
  BY <1>1, <1>2

(* No answer is acknowledged before the packet is decided, also when the   *)
(* callback died after it had used the token up.                           *)
THEOREM DecisionAnswersKept == Spec => []AnswersKept
<1>1. Init => AnswersKept
  BY DEF Init, AnswersKept
<1> QED
  BY <1>1, AnswersPreserved, DecisionInductive, PTL DEF Spec

(* A verdict is announced with its token.                                  *)
LEMMA VerdictFacts ==
  ASSUME TypeOK, NEW e \in events, e.task = "compliance"
  PROVE  e.token /\ e.says \in Verdicts
<1>1. e \in AllEvents /\ e.task # "user" /\ e.task \notin Agents
  BY DEF TypeOK, Agents
<1>2. e \notin UserEvents /\ e \notin AgentEvents
  BY <1>1 DEF UserEvents, AgentEvents, Event
<1>3. e \in CheckEvents
  BY <1>1, <1>2 DEF AllEvents
<1> QED
  BY <1>3 DEF CheckEvents, Event

(* Who gives the verdict.                                                  *)
LEMMA CheckMoves ==
  ASSUME [Next]_vars
  PROVE  \/ UNCHANGED check
         \/ ProposeRecommendation
         \/ \E v \in Verdicts : EvaluateCompliance(v)
BY DEF Next, Execution, Callback, vars, EmitCycleStarted, ResolveProjections,
  ProjectionsFail, StageTimeout, EmitCycleFailed, AssemblePacket,
  AssembleFails, RequestUserConfirmation, StateFails,
  CycleTimeout, RunAgent, SkipDuplicateInvocation,
  DropWithoutToken, FailTask, ResumeTask, ResumeFails, ExecuteIntents,
  CallbackCrash, Redeliver, Project, ShowDecision, Click, PlaceOrders

(* Who takes a callback message up.                                        *)
LEMMA Taken ==
  ASSUME [Next]_vars, NEW e \in handling' \union handled', e \notin handling \union handled
  PROVE  DropWithoutToken(e) \/ FailTask(e) \/ ResumeTask(e)
BY DEF Next, Execution, Callback, vars, EmitCycleStarted, ResolveProjections,
    ProjectionsFail, StageTimeout, EmitCycleFailed, AssemblePacket,
    AssembleFails, ProposeRecommendation, RequestUserConfirmation, StateFails,
    CycleTimeout, RunAgent, SkipDuplicateInvocation, EvaluateCompliance,
    DropWithoutToken, FailTask, ResumeTask, ResumeFails, ExecuteIntents,
    CallbackCrash, Redeliver, Project, ShowDecision, Click, PlaceOrders

(* Where the execution goes from the check.                                *)
LEMMA CheckedMoves ==
  ASSUME IInv, [Next]_vars
  PROVE  /\ sf = "compliance" /\ sf' # sf =>
              \/ sf' = "timedOut"
              \/ check = "L2" /\ sf' \in {"requestUser", "taskFailed"}
              \/ check \in {"L1", "BLOCKED"}
         /\ sf = "requestUser" /\ sf' # sf =>
              sf' = "aborted" \/ packet'.status = "AWAITING_CONFIRMATION"
         /\ sf \in {"timedOut", "aborted", "taskFailed"} => sf' = sf
         /\ sf' = "compliance" /\ sf' # sf => ProposeRecommendation
<1>1. \A e \in events :
        /\ e.task \in {"portfolio", "narrative", "user", "compliance"}
        /\ e.task = "compliance" => check = e.says /\ e.says \in Verdicts
        /\ NextState(e) # "compliance" /\ FailState(e) # "compliance"
  BY EventFacts DEF IInv, TypeOK, Asks, Agents, NextState, FailState
<1>2. \A e \in events : e.task = "compliance" =>
        /\ FailState(e) = "taskFailed"
        /\ e.says = "L2" => NextState(e) = "requestUser"
  BY DEF NextState, FailState, Agents
<1>3. CASE UNCHANGED sf
  BY <1>3
<1>4. CASE Execution
  BY <1>4 DEF Execution, EmitCycleStarted, ResolveProjections, ProjectionsFail,
      StageTimeout, EmitCycleFailed, AssemblePacket, AssembleFails, Agents,
      ProposeRecommendation, RequestUserConfirmation, StateFails, CycleTimeout, Row
<1>5. ASSUME NEW e \in events, sf = e.task, sf' \in {NextState(e), FailState(e)}
      PROVE  /\ sf = "compliance" /\ sf' # sf =>
                  \/ check = "L2" /\ sf' \in {"requestUser", "taskFailed"}
                  \/ check \in {"L1", "BLOCKED"}
             /\ sf \notin {"requestUser", "timedOut", "aborted", "taskFailed"}
             /\ sf' # "compliance"
  BY <1>1, <1>2, <1>5 DEF Verdicts
<1> QED
  BY <1>3, <1>4, <1>5, Moves

(* Who makes the packet pending.                                           *)
LEMMA PendingMoves ==
  ASSUME IInv, [Next]_vars, packet'.status = "PENDING", check' = "L2"
  PROVE  packet.status = "PENDING"
<1>1. ASSUME NEW e \in handling, e.task \notin Agents, packet' = Updated(e)
      PROVE  packet.status = "PENDING"
  <2>1. packet'.status = StatusAfter(e)
    BY <1>1 DEF Updated, Row
  <2> QED
    BY <1>1, <2>1, EventFacts DEF StatusAfter, IInv, TypeOK, Answers, Verdicts
<1>2. sf # "assemble"
  <2>1. sf = "assemble" => check = "none"
    BY DEF IInv, Phase, Unproposed, Unassembled
  <2>2. sf = "assemble" => ~EvaluateCompliance("L2")
    BY <2>1 DEF EvaluateCompliance
  <2> QED
    BY <2>1, CheckMoves DEF ProposeRecommendation, EvaluateCompliance
<1> QED
  BY <1>1, <1>2, Writers DEF EmitCycleStarted, EmitCycleFailed, RequestUserConfirmation, Row

(* The decisions wait for the callback: taking it moves the execution to   *)
(* the branch that the packet it then reads belongs to.                    *)
LEMMA VerdictPreserved == IInv /\ VerdictWaits /\ [Next]_vars => VerdictWaits'
<1> SUFFICES ASSUME IInv, VerdictWaits, [Next]_vars PROVE VerdictWaits'
  OBVIOUS
<1>0. TypeOK /\ Phase /\ Asks
  BY DEF IInv
<1>1. ASSUME check' \in Verdicts PROVE \E e \in events' : e.task = "compliance"
  <2>1. CASE check \in Verdicts
    BY <2>1, <1>0, Kept DEF VerdictWaits
  <2>2. ASSUME NEW v \in Verdicts, EvaluateCompliance(v)
        PROVE  \E e \in events' : e.task = "compliance"
    <3>1. Event("compliance", v, "check", TRUE) \in events'
      BY <2>2 DEF EvaluateCompliance, Answer
    <3>2. Event("compliance", v, "check", TRUE).task = "compliance"
      BY DEF Event
    <3> QED
      BY <3>1, <3>2
  <2> QED
    BY <1>1, <2>1, <2>2, CheckMoves DEF Verdicts, ProposeRecommendation
<1>2. ASSUME sf' = "compliance", NEW e \in handling' \union handled', e.task = "compliance"
      PROVE  FALSE
  <2>1. CASE ProposeRecommendation
    <3>1. e \in events /\ sf = "propose"
      BY <1>0, <1>2, <2>1 DEF ProposeRecommendation, TypeOK
    <3> QED
      BY <1>0, <1>2, <3>1, VerdictFacts DEF Asks, Phase, Unproposed, Verdicts
  <2>2. CASE sf = "compliance"
    <3>1. e \notin handling \union handled
      BY <1>2, <2>2 DEF VerdictWaits
    <3>2. e \in events
      BY <1>2, <3>1, Taken DEF DropWithoutToken, FailTask, ResumeTask, Waiting
    <3>3. e.token /\ e.says \in Verdicts
      BY <1>0, <1>2, <3>2, VerdictFacts
    <3>4. ResumeTask(e)
      BY <1>2, <3>1, <3>3, Taken DEF DropWithoutToken, FailTask, Verdicts
    <3> QED
      BY <1>2, <2>2, <3>3, <3>4 DEF ResumeTask, NextState, Verdicts
  <2> QED
    BY <1>2, <2>1, <2>2, CheckedMoves
<1>3. check' = "requested" => sf' \in {"compliance", "timedOut"}
  BY CheckedMoves, CheckMoves DEF VerdictWaits, ProposeRecommendation, EvaluateCompliance, Verdicts
<1>4. check' = "L2" /\ packet'.status = "PENDING" =>
        sf' \in {"compliance", "requestUser", "timedOut", "aborted", "taskFailed"}
  <2> SUFFICES ASSUME check' = "L2", packet'.status = "PENDING"
               PROVE  sf' \in {"compliance", "requestUser", "timedOut", "aborted", "taskFailed"}
    OBVIOUS
  <2>1. packet.status = "PENDING"
    BY PendingMoves
  <2>2. CASE check = "L2"
    BY <2>1, <2>2, CheckedMoves DEF VerdictWaits
  <2>3. CASE check # "L2"
    BY <2>3, CheckMoves DEF VerdictWaits, ProposeRecommendation, EvaluateCompliance
  <2> QED
    BY <2>2, <2>3
<1> QED
  BY <1>1, <1>2, <1>3, <1>4 DEF VerdictWaits

(* No L2 verdict fails to reach the user but by the end of the execution.  *)
THEOREM DecisionQuestionKept == Spec => []QuestionKept
<1>1. Init => VerdictWaits
  BY DEF Init, VerdictWaits, Verdicts, Row
<1>2. IInv /\ VerdictWaits => QuestionKept
  <2> SUFFICES ASSUME IInv, VerdictWaits, check = "L2", sf = "compliance"
               PROVE  \E e \in events : e.task = "compliance" /\ Waiting(e)
    BY DEF QuestionKept, VerdictWaits
  <2> QED
    BY DEF VerdictWaits, Verdicts, Waiting
<1> QED
  BY <1>1, <1>2, VerdictPreserved, DecisionInductive, PTL DEF Spec

(* The read model is blank or one of the images.                           *)
ModelIsImage == model = Row("NONE", -1, FALSE) \/ model \in images

(* The read model never misses the packet: whatever order the images come  *)
(* in, it shows the packet or will take the packet's image.                *)
THEOREM DecisionPacketShown == Spec => []PacketShown
<1>1. Init => ModelIsImage
  BY DEF Init, ModelIsImage
<1>2. IInv /\ ModelIsImage /\ [Next]_vars => ModelIsImage'
  <2> SUFFICES ASSUME IInv, ModelIsImage, [Next]_vars PROVE ModelIsImage'
    OBVIOUS
  <2>1. UNCHANGED model \/ model' \in images
    BY DEF Next, Execution, Callback, vars, EmitCycleStarted,
      ResolveProjections, ProjectionsFail, StageTimeout, EmitCycleFailed,
      AssemblePacket, AssembleFails, ProposeRecommendation,
      RequestUserConfirmation, StateFails, CycleTimeout, RunAgent,
      SkipDuplicateInvocation, EvaluateCompliance, DropWithoutToken, FailTask,
      ResumeTask, ResumeFails, ExecuteIntents, CallbackCrash, Redeliver,
      Project, ShowDecision, Click, PlaceOrders
  <2> QED
    BY <2>1, Kept DEF IInv, ModelIsImage
<1>3. IInv /\ ModelIsImage => PacketShown
  <2> SUFFICES ASSUME IInv, ModelIsImage, packet.version > 0, model # packet,
                      ~(model.status = "FAILED" /\ packet.version = 1)
               PROVE  packet \in images /\ model.version < packet.version
    BY DEF PacketShown
  <2>1. packet \in Versions
    BY DEF IInv, TypeOK, Images, Phase, Versions, Started, Failed, Row
  <2>2. packet.version \in Nat
    BY DEF IInv, TypeOK
  <2>3. CASE model = Row("NONE", -1, FALSE)
    BY <2>1, <2>2, <2>3 DEF Row, Versions
  <2>4. CASE model = Started
    BY <2>1, <2>2, <2>4 DEF Row, Started, Versions
  <2>5. CASE model = Failed
    BY <2>1, <2>2, <2>5 DEF Row, Failed, Versions
  <2>6. CASE model \in Versions
    BY <2>1, <2>2, <2>6 DEF IInv, Images, Versions
  <2> QED
    BY <2>3, <2>4, <2>5, <2>6 DEF ModelIsImage, Versions
<1> QED
  BY <1>1, <1>2, <1>3, DecisionInductive, PTL DEF Spec

-----------------------------------------------------------------------------
(* The cycle implements the abstract decision.                             *)

(* What the packet can say once the user has been asked.                   *)
AskedOn == {"AWAITING_CONFIRMATION"} \union Answers

(* The question is not taken back, in the packet or in a later image.      *)
AskedStays ==
  /\ Asked => packet.status \in AskedOn
  /\ \A r, s \in Versions :
       r.status \in AskedOn /\ r.version < s.version => s.status \in AskedOn

(* The parts of a step that the decision consists of.                      *)
LEMMA Parts ==
  ASSUME [Next]_vars
  PROVE  \/ UNCHANGED <<check, model, orders>>
         \/ /\ ProposeRecommendation \/ \E v \in Verdicts : EvaluateCompliance(v)
            /\ UNCHANGED <<packet, images, model, orders>>
         \/ /\ \E row \in images : Project(row)
            /\ UNCHANGED <<check, packet, images, orders>>
         \/ /\ \E e \in events : PlaceOrders(e)
            /\ UNCHANGED <<check, packet, images, model>>
BY DEF Next, Execution, Callback, vars, EmitCycleStarted, ResolveProjections,
  ProjectionsFail, StageTimeout, EmitCycleFailed, AssemblePacket,
  AssembleFails, ProposeRecommendation, RequestUserConfirmation, StateFails,
  CycleTimeout, RunAgent, SkipDuplicateInvocation, EvaluateCompliance,
  DropWithoutToken, FailTask, ResumeTask, ResumeFails, ExecuteIntents,
  CallbackCrash, Redeliver, Project, ShowDecision, Click, PlaceOrders

(* An answer is recorded only after the question, and a verdict without    *)
(* one settles the matter.                                                 *)
LEMMA UpdateFacts ==
  ASSUME IInv, AskedStays, NEW e \in handling, e.task \notin Agents, packet' = Updated(e)
  PROVE  /\ packet \in Versions /\ packet'.version = packet.version + 1
         /\ \/ check = "L1" /\ packet'.status = "APPROVED"
            \/ check = "BLOCKED" /\ packet'.status = "BLOCKED"
            \/ check = "L2" /\ packet'.status = packet.status
            \/ check = "L2" /\ packet'.status \in Answers /\ packet.status \in AskedOn
<1>0. TypeOK /\ Asks /\ e \in events /\ e \in AllEvents
  BY DEF IInv, TypeOK
<1>1. /\ packet'.version = packet.version + 1
      /\ packet'.status = StatusAfter(e)
  BY DEF Updated, Row
<1>2. /\ packet \in Versions /\ check \in Verdicts
      /\ e.task = "user" => check = "L2" /\ e.says \in Answers
      /\ e.task = "compliance" => check = e.says
      /\ e.task \in {"user", "compliance"}
  BY <1>0, Judged, EventFacts
<1>3. CASE e.task = "user"
  <2>1. packet.status \in AskedOn
    BY <1>0, <1>3 DEF Asks, AskedStays
  <2>2. packet'.status = e.says
    BY <1>1, <1>2, <1>3 DEF StatusAfter, Answers
  <2> QED
    BY <1>1, <1>2, <1>3, <2>1, <2>2
<1>4. CASE e.task = "compliance"
  BY <1>1, <1>2, <1>4 DEF StatusAfter, Verdicts
<1> QED
  BY <1>2, <1>3, <1>4

(* No packet asks anything before RequestUserConfirmation.                 *)
LEMMA NotAsked ==
  ASSUME IInv, RequestUserConfirmation
  PROVE  /\ check = "L2" /\ ~Asked /\ packet.version >= 1 /\ packet \in Versions
         /\ packet.status \notin AskedOn \union Decided
<1>0. Phase /\ Asks /\ Images /\ StatusJustified /\ sf = "requestUser"
  BY DEF IInv, RequestUserConfirmation
<1>1. check = "L2" /\ ~Asked /\ packet.version >= 1 /\ packet \in images
  BY <1>0 DEF Phase, Asks, Images
<1>2. packet.status # "AWAITING_CONFIRMATION"
  BY <1>1 DEF Asked
<1>3. packet.status \notin Decided
  BY <1>0, <1>1 DEF StatusJustified, Asks, Decided, Answers
<1>4. packet \in Versions
  BY <1>0, <1>1 DEF Phase, Versions, Started, Failed, Row
<1> QED
  BY <1>1, <1>2, <1>3, <1>4 DEF AskedOn, Decided

(* A new version of the packet is the newest.                              *)
LEMMA AskedPreserved == IInv /\ AskedStays /\ [Next]_vars => AskedStays'
<1> SUFFICES ASSUME IInv, AskedStays, [Next]_vars PROVE AskedStays'
  OBVIOUS
<1>0. TypeOK /\ Phase /\ Asks /\ Images
  BY DEF IInv
<1>1. ASSUME images' \subseteq images \union {Started, Failed}, images \subseteq images',
             UNCHANGED packet
      PROVE  AskedStays'
  <2>1. Versions' = Versions /\ (Asked' <=> Asked)
    BY <1>1 DEF Versions, Asked, Started, Failed, Row
  <2> QED
    BY <1>1, <2>1 DEF AskedStays
<1>2. ASSUME images' = images \union {packet'}, packet' \notin {Started, Failed},
             \A r \in Versions : r.version < packet'.version,
             Asked => packet'.status \in AskedOn,
             (\E r \in Versions : r.status \in AskedOn) => packet'.status \in AskedOn
      PROVE  AskedStays'
  <2>1. Versions' = Versions \union {packet'}
    BY <1>2 DEF Versions
  <2>2. Asked' => packet'.status \in AskedOn
    BY <1>2 DEF Asked, AskedOn
  <2>3. ASSUME NEW r \in Versions', NEW s \in Versions',
               r.status \in AskedOn, r.version < s.version
        PROVE  s.status \in AskedOn
    <3>1. packet'.version \in Nat /\ \A t \in Versions : t.version \in Nat
      BY <1>0, TypePreserved DEF TypeOK, Versions
    <3>2. r \in Versions
      <4>1. r = packet' => s \in Versions
        BY <2>1, <2>3, <3>1
      <4> QED
        BY <1>2, <2>1, <2>3, <3>1, <4>1
    <3>3. CASE s \in Versions
      BY <2>3, <3>2, <3>3 DEF AskedStays
    <3>4. CASE s = packet'
      BY <1>2, <2>3, <3>2, <3>4
    <3> QED
      BY <2>1, <3>3, <3>4
  <2> QED
    BY <2>2, <2>3 DEF AskedStays
<1>3. CASE UNCHANGED <<packet, images>>
  BY <1>1, <1>3
<1>4. CASE EmitCycleStarted \/ EmitCycleFailed
  BY <1>1, <1>4 DEF EmitCycleStarted, EmitCycleFailed, Started, Failed
<1>5. CASE sf = "assemble" /\ PutPacket
  <2>1. Versions = {} /\ ~Asked
    BY <1>0, <1>5 DEF Phase, Unassembled, NoPacket, Row, Images, Asks
  <2>2. packet' = Proposal /\ images' = images \union {packet'}
    BY <1>5 DEF PutPacket, Proposal
  <2>3. packet' \notin {Started, Failed} /\ packet'.status # "AWAITING_CONFIRMATION"
    BY <2>2 DEF Proposal, Started, Failed, Row
  <2> QED
    BY <1>2, <2>1, <2>2, <2>3
<1>6. CASE RequestUserConfirmation
  <2>1. /\ packet' = Row("AWAITING_CONFIRMATION", packet.version + 1, TRUE)
        /\ images' = images \union {packet'}
    BY <1>6 DEF RequestUserConfirmation
  <2>2. /\ packet'.version = packet.version + 1 /\ packet.version \in Nat
        /\ packet'.status \in AskedOn /\ packet' \notin {Started, Failed}
    BY <1>0, <2>1 DEF Row, Started, Failed, TypeOK, AskedOn
  <2>3. \A r \in Versions : r.version \in 1 .. packet.version
    BY <1>0 DEF Images
  <2>4. \A r \in Versions : r.version < packet'.version
    BY <2>2, <2>3
  <2> QED
    BY <1>2, <2>1, <2>2, <2>4
<1>7. ASSUME NEW e \in handling, e.task \notin Agents, packet' = Updated(e),
             images' = images \union {packet'}
      PROVE  AskedStays'
  <2>1. /\ packet \in Versions /\ packet'.version = packet.version + 1
        /\ packet.status \in AskedOn => packet'.status \in AskedOn
        /\ packet'.status = "AWAITING_CONFIRMATION" => packet.status \in AskedOn
    <3>1. packet.status \in AskedOn => check = "L2"
      BY DEF AskedOn, IInv, StatusJustified
    <3> QED
      BY <1>7, <3>1, UpdateFacts DEF AskedOn, Answers
  <2>2. /\ \A r \in Versions : r.version \in 1 .. packet.version
        /\ packet.version \in Nat
    BY <1>0 DEF Images, TypeOK
  <2>3. \A r \in Versions : r.status \in AskedOn => packet'.status \in AskedOn
    <3> SUFFICES ASSUME NEW r \in Versions, r.status \in AskedOn
                 PROVE  packet'.status \in AskedOn
      OBVIOUS
    <3>1. r = packet \/ r.version < packet.version
      BY <1>0, <2>1, <2>2 DEF Images
    <3> QED
      BY <2>1, <3>1 DEF AskedStays
  <2>4. packet' \notin {Started, Failed}
    <3>1. packet'.version >= 2
      BY <2>1, <2>2
    <3> QED
      BY <3>1 DEF Started, Failed, Row
  <2>5. Asked => packet'.status \in AskedOn
    BY <2>1 DEF AskedStays
  <2>6. \A r \in Versions : r.version < packet'.version
    BY <2>1, <2>2
  <2> QED
    BY <1>2, <1>7, <2>1, <2>3, <2>4, <2>5, <2>6 DEF AskedOn
<1> QED
  BY <1>3, <1>4, <1>5, <1>6, <1>7, Writers

Been == {"none"} \union {Stage(r.status) : r \in images}

(* The writes of the packet, and the signals of the execution.             *)
LEMMA WriteImplements ==
  ASSUME IInv, AskedStays, [Next]_vars, UNCHANGED <<check, model, orders>>
  PROVE  [Contract!Next]_(Contract!dvars)
<1>0. TypeOK /\ Phase /\ Asks /\ Images
  BY DEF IInv
<1>v. Verdict' = Verdict /\ Stage(model.status)' = Stage(model.status)
      /\ (orders # {})' = (orders # {})
  BY DEF Verdict, Stage
<1>1. ASSUME Stage(packet'.status) = Stage(packet.status), Been' = Been
      PROVE  [Contract!Next]_(Contract!dvars)
  BY <1>1, <1>v DEF Contract!dvars, Been
<1>2. ASSUME NEW d, Stage(packet'.status) = d, Been' = Been \union {d}
      PROVE  Contract!Become(d)
  BY <1>2, <1>v DEF Contract!Become, Been
<1>3. CASE UNCHANGED <<packet, images>>
  BY <1>1, <1>3 DEF Been
<1>4. CASE EmitCycleStarted \/ EmitCycleFailed
  <2>1. UNCHANGED packet /\ \E r \in {Started, Failed} : images' = images \union {r}
    BY <1>4 DEF EmitCycleStarted, EmitCycleFailed, Started, Failed
  <2>2. \A r \in {Started, Failed} : Stage(r.status) = "none"
    BY DEF Started, Failed, Row, Stage, Decided, Answers
  <2>3. Been' = Been
    BY <2>1, <2>2 DEF Been
  <2> QED
    BY <1>1, <2>1, <2>3
<1>5. CASE sf = "assemble" /\ PutPacket
  <2>1. packet = NoPacket /\ packet' = Proposal /\ images' = images \union {Proposal}
    BY <1>0, <1>5 DEF Phase, Unassembled, PutPacket, Proposal
  <2>2. Stage(NoPacket.status) = "none" /\ Stage(Proposal.status) = "none"
    BY DEF NoPacket, Proposal, Row, Stage, Decided, Answers
  <2>3. Been' = Been
    BY <2>1, <2>2 DEF Been
  <2> QED
    BY <1>1, <2>1, <2>2, <2>3
<1>6. CASE RequestUserConfirmation
  <2>1. /\ packet'.status = "AWAITING_CONFIRMATION"
        /\ images' = images \union {packet'}
    BY <1>6 DEF RequestUserConfirmation, Row
  <2>2. Stage(packet'.status) = "asked" /\ Stage(packet.status) = "none" /\ Verdict = "L2"
    BY <1>6, <2>1, NotAsked DEF Stage, AskedOn, Verdict, Verdicts
  <2>3. Been' = Been \union {"asked"}
    BY <2>1, <2>2 DEF Been
  <2>4. Contract!Ask
    BY <1>2, <2>2, <2>3 DEF Contract!Ask
  <2> QED
    BY <2>4 DEF Contract!Next
<1>7. ASSUME NEW e \in handling, e.task \notin Agents, packet' = Updated(e),
             images' = images \union {packet'}
      PROVE  [Contract!Next]_(Contract!dvars)
  <2>0. packet \in Versions
    BY <1>7, UpdateFacts
  <2>1. Been' = Been \union {Stage(packet'.status)} /\ Stage(packet.status) \in Been
    BY <1>7, <2>0 DEF Been, Versions
  <2>2. CASE packet'.status = packet.status
    BY <1>1, <2>1, <2>2
  <2>3. ASSUME NEW v \in {"L1", "L2", "BLOCKED"}, check = v,
               packet'.status \in Contract!Outcomes[v], packet'.status \in Decided,
               v = "L2" => packet.status \in AskedOn
        PROVE  Contract!Decide
    <3>1. Verdict = v /\ v # "none" /\ Stage(packet'.status) = packet'.status
      BY <2>3 DEF Verdict, Verdicts, Stage, Decided, Answers
    <3>2. v = "L2" => Stage(packet.status) # "none"
      BY <2>3 DEF Stage, AskedOn, Decided, Answers
    <3>3. Contract!Become(packet'.status)
      BY <1>2, <2>1, <3>1
    <3> QED
      BY <2>3, <3>1, <3>2, <3>3 DEF Contract!Decide
  <2>4. /\ Contract!Outcomes["L1"] = {"APPROVED"}
        /\ Contract!Outcomes["BLOCKED"] = {"BLOCKED"}
        /\ Contract!Outcomes["L2"] = {"CONFIRMED", "REJECTED"}
    BY DEF Contract!Outcomes
  <2>5. packet'.status = packet.status \/ Contract!Decide
    BY <1>7, <2>3, <2>4, UpdateFacts DEF Decided, Answers
  <2> QED
    BY <2>2, <2>5 DEF Contract!Next
<1> QED
  BY <1>3, <1>4, <1>5, <1>6, <1>7, Writers

(* Compliance, the projector and execution-ctrl.                           *)
LEMMA VerdictImplements ==
  ASSUME IInv, ProposeRecommendation \/ (\E v \in Verdicts : EvaluateCompliance(v)),
         UNCHANGED <<packet, images, model, orders>>
  PROVE  [Contract!Next]_(Contract!dvars)
<1>1. /\ Verdict = "none"
      /\ Verdict' \in Verdicts \union {"none"}
  <2>1. check \notin Verdicts
    BY DEF IInv, Phase, Unproposed, ProposeRecommendation, EvaluateCompliance, Verdicts
  <2> QED
    BY <2>1 DEF Verdict
<1>2. /\ Stage(packet.status)' = Stage(packet.status)
      /\ Stage(model.status)' = Stage(model.status)
      /\ Been' = Been /\ (orders # {})' = (orders # {})
  BY DEF Stage, Been
<1>3. DOMAIN Contract!Outcomes = Verdicts
  BY DEF Contract!Outcomes, Verdicts
<1> QED
  BY <1>1, <1>2, <1>3 DEF Contract!Next, Contract!Judge, Contract!dvars, Been

(* The read model takes a newer image only, and newer images do not take a *)
(* question or a decision back.                                            *)
LEMMA ShowImplements ==
  ASSUME IInv, AskedStays, NEW row \in images, Project(row),
         UNCHANGED <<check, packet, images, orders>>
  PROVE  Contract!Show
<1>0. TypeOK /\ Images /\ model.version < row.version /\ model' = row
  BY DEF IInv, Project
<1>1. Stage(row.status) \in Been
  BY DEF Been
<1>2. ASSUME model.status \in AskedOn \union Decided
      PROVE  model \in Versions /\ row \in Versions
  <2>1. model \in Versions
    BY <1>0, <1>2
    DEF Images, Versions, Decided, Answers, AskedOn, Started, Failed, Row
  <2>2. model.version >= 1 /\ model.version \in Nat
    BY <1>0, <2>1 DEF Images, TypeOK
  <2>3. row.version >= 2
    BY <1>0, <2>2 DEF TypeOK
  <2>4. row \in Versions
    BY <2>3 DEF Versions, Started, Failed, Row
  <2> QED
    BY <2>1, <2>4
<1>3. model.status \in Decided => row.status \in Decided
  BY <1>0, <1>2 DEF Images
<1>4. model.status \in AskedOn => row.status \in AskedOn
  BY <1>0, <1>2 DEF AskedStays
<1>5. Contract!Rank(Stage(model.status)) <= Contract!Rank(Stage(row.status))
  <2>1. CASE model.status \in Decided
    <3>1. Stage(model.status) \in Decided /\ Stage(row.status) \in Decided
      BY <1>3, <2>1 DEF Stage, Decided, Answers
    <3> QED
      BY <3>1 DEF Contract!Rank, Decided, Answers
  <2>2. CASE model.status = "AWAITING_CONFIRMATION"
    BY <1>4, <2>2 DEF Stage, AskedOn, Contract!Rank, Decided, Answers
  <2>3. CASE model.status \notin Decided \union {"AWAITING_CONFIRMATION"}
    BY <2>3 DEF Stage, Contract!Rank
  <2> QED
    BY <2>1, <2>2, <2>3
<1>6. Verdict' = Verdict /\ Stage(packet.status)' = Stage(packet.status)
      /\ Been' = Been /\ (orders # {})' = (orders # {})
  BY DEF Verdict, Stage, Been
<1> QED
  BY <1>0, <1>1, <1>5, <1>6 DEF Contract!Show, Been

(* An order has a verdict that allows it.                                  *)
LEMMA OrderImplements ==
  ASSUME IInv, [Next]_vars, NEW e \in events, PlaceOrders(e),
         UNCHANGED <<check, packet, images, model>>
  PROVE  Contract!Order
<1>1. orders' = orders \union {e}
  BY DEF PlaceOrders
<1>2. check \in {"L1", "L2"}
  BY <1>1, OrdersPreserved DEF OrdersAuthorised
<1>3. Verdict = check /\ Verdict' = Verdict /\ (orders # {})' = TRUE
  BY <1>1, <1>2 DEF Verdict, Verdicts
<1>4. Stage(packet.status)' = Stage(packet.status) /\ Been' = Been
      /\ Stage(model.status)' = Stage(model.status)
  BY DEF Stage, Been
<1> QED
  BY <1>2, <1>3, <1>4 DEF Contract!Order, Been

(* Every behaviour of a decision cycle, with its crashes, timeouts, late   *)
(* and repeated answers, is one of the abstract decision.                  *)
THEOREM DecisionImplements == Spec => ImplementsDecision
<1>1. Init => Contract!Init /\ AskedStays
  BY DEF Init, Contract!Init, AskedStays, Asked, Versions, Verdict, Verdicts, Stage,
     Decided, Answers, Row
<1>2. IInv /\ AskedStays /\ [Next]_vars => [Contract!Next]_(Contract!dvars)
  <2> SUFFICES ASSUME IInv, AskedStays, [Next]_vars
               PROVE  [Contract!Next]_(Contract!dvars)
    OBVIOUS
  <2> QED
    BY Parts, WriteImplements, VerdictImplements, ShowImplements, OrderImplements
    DEF Contract!Next
<1> QED
  BY <1>1, <1>2, AskedPreserved, DecisionInductive, PTL
  DEF Spec, ImplementsDecision, Contract!Spec

-----------------------------------------------------------------------------
(* What GenerationEnds rests on.                                           *)

(* The execution has a packet to put or a failure to signal.               *)
Untold == Unassembled \union {"emitFailed"}

(* A cycle that is shown as being generated is one: its execution has not  *)
(* come to the packet or to the failure yet, or has been aborted, or there *)
(* is an image of either that the read model will take.                    *)
GenerationFollowed ==
  model.status = "GENERATING" =>
    \/ sf \in Untold \union {"aborted"}
    \/ \E r \in images : r.status # "GENERATING" /\ model.version < r.version

(* An execution that is past both has put one of them, and the only signal *)
(* of a generation is the one it began with.                               *)
EndTold ==
  /\ sf \notin Untold \union {"aborted"} => packet.version >= 1 \/ Failed \in images
  /\ \A r \in images : r.status = "GENERATING" => r = Started

(* Versions only go up.                                                    *)
LEMMA PacketGrows ==
  ASSUME IInv, [Next]_vars
  PROVE  packet'.version >= packet.version
<1>1. packet.version \in Nat
  BY DEF IInv, TypeOK
<1>2. sf = "assemble" /\ PutPacket => packet'.version >= packet.version
  BY DEF IInv, Phase, Unassembled, NoPacket, PutPacket, Row
<1> QED
  BY <1>1, <1>2, Writers
  DEF EmitCycleStarted, EmitCycleFailed, RequestUserConfirmation, Updated, Row

(* Each way out of an execution's first part tells of it.                  *)
LEMMA EndToldPreserved == IInv /\ EndTold /\ [Next]_vars => EndTold'
<1> SUFFICES ASSUME IInv, EndTold, [Next]_vars PROVE EndTold'
  OBVIOUS
<1>1. /\ packet.version \in Nat /\ packet'.version \in Nat
      /\ packet'.version >= packet.version /\ images \subseteq images'
  BY PacketGrows, TypePreserved, Kept DEF IInv, TypeOK
<1>2. sf' \notin Untold \union {"aborted"} => packet'.version >= 1 \/ Failed \in images'
  <2>1. CASE sf' = sf
    BY <1>1, <2>1 DEF EndTold
  <2>2. CASE Execution
    <3>1. CASE AssemblePacket
      BY <3>1 DEF AssemblePacket, PutPacket, Row
    <3>2. CASE EmitCycleFailed
      BY <3>2 DEF EmitCycleFailed, Failed
    <3>3. CASE EmitCycleStarted \/ ResolveProjections \/ ProjectionsFail \/ StateFails
               \/ AssembleFails \/ \E a \in Agents : StageTimeout(a)
      BY <3>3 DEF EmitCycleStarted, ResolveProjections, ProjectionsFail, StateFails,
        AssembleFails, StageTimeout, Untold, Unassembled, Agents
    <3>4. CASE ProposeRecommendation \/ RequestUserConfirmation \/ CycleTimeout
      <4>1. sf \notin Untold \union {"aborted"}
        BY <3>4 DEF ProposeRecommendation, RequestUserConfirmation, CycleTimeout,
          Untold, Unassembled, Agents
      <4> QED
        BY <1>1, <4>1 DEF EndTold
    <3> QED
      BY <2>2, <3>1, <3>2, <3>3, <3>4 DEF Execution
  <2>3. ASSUME NEW e \in events, sf = e.task, sf' \in {NextState(e), FailState(e)}
        PROVE  sf' \in Untold \/ sf \notin Untold \union {"aborted"}
    <3>1. CASE e.task \in Agents
      <4>1. e.says \in {"completed", "failed"}
        BY <3>1, EventFacts DEF IInv, TypeOK, Agents
      <4> QED
        BY <2>3, <3>1, <4>1 DEF NextState, FailState, Untold, Unassembled, Agents
    <3>2. CASE e.task \in {"user", "compliance"}
      BY <2>3, <3>2 DEF Untold, Unassembled, Agents
    <3> QED
      BY <3>1, <3>2, EventFacts DEF IInv, TypeOK
  <2> QED
    BY <1>1, <2>1, <2>2, <2>3, Moves DEF EndTold
<1>3. \A r \in images' : r.status = "GENERATING" => r = Started
  <2>1. packet'.status # "GENERATING"
    BY PhasePreserved DEF Phase
  <2>2. images' \subseteq images \union {Started, Failed, packet'}
    BY Writers DEF EmitCycleStarted, EmitCycleFailed, RequestUserConfirmation,
      PutPacket, Started, Failed
  <2>3. Failed.status # "GENERATING"
    BY DEF Failed, Row
  <2> QED
    BY <2>1, <2>2, <2>3 DEF EndTold
<1> QED
  BY <1>2, <1>3 DEF EndTold

(* The user is not left with a cycle that nobody is generating, unless its *)
(* execution was aborted where no Catch is: every other way out puts a     *)
(* packet or a failure on the bus, and the read model takes either in      *)
(* place of the signal (decision-state-machine.ts, decision-snapshot.ts,   *)
(* decision-cycle-status.ts).                                              *)
THEOREM DecisionGenerationFollowed == Spec => []GenerationFollowed
<1>1. Init => EndTold
  BY DEF Init, EndTold, Untold, Unassembled
<1>2. IInv /\ EndTold => GenerationFollowed
  <2> SUFFICES ASSUME IInv, EndTold, model.status = "GENERATING",
                      sf \notin Untold \union {"aborted"}
               PROVE  \E r \in images : r.status # "GENERATING" /\ model.version < r.version
    BY DEF GenerationFollowed
  <2>1. model.version = 0
    BY DEF IInv, Images, EndTold, Started, Row
  <2>2. CASE Failed \in images
    BY <2>1, <2>2 DEF Failed, Row
  <2>3. CASE packet.version >= 1
    <3>1. packet \in images /\ packet.status # "GENERATING" /\ packet.version \in Nat
      BY <2>3 DEF IInv, TypeOK, Images, Phase
    <3> QED
      BY <2>1, <2>3, <3>1
  <2> QED
    BY <2>2, <2>3 DEF EndTold
<1> QED
  BY <1>1, <1>2, EndToldPreserved, DecisionInductive, PTL DEF Spec
=============================================================================
