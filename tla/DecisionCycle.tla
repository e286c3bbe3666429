--------------------------- MODULE DecisionCycle ---------------------------
(***************************************************************************)
(* One advisory decision cycle: the Step Functions execution of            *)
(* decision-workflow-ctrl, the two agent services it invokes, the          *)
(* compliance check, the user's answer through advisory-bff, and the order *)
(* expansion of execution-ctrl.                                            *)
(*                                                                         *)
(* The execution waits on task tokens.  Answers reach it as events: they   *)
(* stay in flight for good, so a handler may see them late, again and in   *)
(* any order.  A callback resumes the execution first and updates the      *)
(* DecisionPacket afterwards; it may die in between.  Every write of the   *)
(* packet puts an image on the bus, which advisory-bff projects into the   *)
(* DecisionReadModel under a version guard.                                *)
(*                                                                         *)
(* A decision is assumed to propose at least one trade: without trades     *)
(* execution-ctrl has nothing to order.  Task tokens are unique per task,  *)
(* so a token is named by its task.                                        *)
(***************************************************************************)
EXTENDS Integers, FiniteSets

CONSTANTS
  Clicks,      \* confirmDecision / rejectDecision mutations the user may send
  MaxFaults    \* bound on crashes, redeliveries and failed service calls

ASSUME DecisionCycleAssumption == MaxFaults \in Nat

VARIABLES
  sf,        \* the state the execution is in
  agent,     \* per agent: its invocation message and its invocation lock
  check,     \* the ComplianceCheck of this cycle
  packet,    \* the DecisionPacket row; version 0 is the absent row
  images,    \* row images put on the bus for advisory-bff
  model,     \* the DecisionReadModel row; version -1 is the absent row
  offered,   \* some device shows the confirm and reject buttons
  events,    \* answers to the execution put on the bus
  handling,  \* answers whose callback has called Step Functions, not DynamoDB
  handled,   \* answers whose callback message is deleted from the queue
  orders,    \* the events execution-ctrl has expanded into orders
  faults

vars == <<sf, agent, check, packet, images, model, offered, events, handling,
          handled, orders, faults>>

Agents == {"portfolio", "narrative"}
Verdicts == {"L1", "L2", "BLOCKED"}
Answers == {"CONFIRMED", "REJECTED"}
Decided == {"APPROVED", "BLOCKED"} \union Answers

SfStates == Agents \union
  {"started", "projections", "assemble", "propose", "compliance",
   "requestUser", "user", "endL1", "endBlocked", "endUser",
   "emitFailed", "failed", "aborted", "taskFailed", "timedOut"}

(* A row as advisory-bff sees it: status, __version, taskToken present.    *)
Row(status, version, token) ==
  [status |-> status, version |-> version, token |-> token]

Event(task, says, by, token) ==
  [task |-> task, says |-> says, by |-> by, token |-> token]

Answered(task) == {e \in events : e.task = task}

Init ==
  /\ sf = "started"
  /\ agent = [a \in Agents |-> [message |-> "none", locked |-> FALSE]]
  /\ check = "none"
  /\ packet = Row("NONE", 0, FALSE)
  /\ images = {}
  /\ model = Row("NONE", -1, FALSE)
  /\ offered = FALSE
  /\ events = {}
  /\ handling = {}
  /\ handled = {}
  /\ orders = {}
  /\ faults = 0

Fault == faults < MaxFaults /\ faults' = faults + 1

-----------------------------------------------------------------------------
(* The execution: decision-state-machine.ts                                *)

(* EmitDecisionCycleStarted                                                *)
EmitCycleStarted ==
  /\ sf = "started"
  /\ sf' = "projections"
  /\ images' = images \union {Row("GENERATING", 0, FALSE)}
  /\ UNCHANGED <<agent, check, packet, model, offered, events, handling,
                 handled, orders, faults>>

Invoke(a) == agent' = [agent EXCEPT ![a].message = "queued"]

(* ParallelProjections, MergeProjections, ResolveMandateSnapshot.          *)
ResolveProjections ==
  /\ sf = "projections"
  /\ sf' = "portfolio"
  /\ Invoke("portfolio")
  /\ UNCHANGED <<check, packet, images, model, offered, events, handling,
                 handled, orders, faults>>

(* The lookups are caught, but not the missing MandateSnapshot row.        *)
ProjectionsFail ==
  /\ sf = "projections"
  /\ sf' \in {"emitFailed", "aborted"}
  /\ UNCHANGED <<agent, check, packet, images, model, offered, events,
                 handling, handled, orders, faults>>

(* Mutant: an agent state without its Catch.                               *)
StageTimeoutUncaught(a) ==
  /\ sf = a
  /\ sf' = "failed"
  /\ UNCHANGED <<agent, check, packet, images, model, offered, events,
                 handling, handled, orders, faults>>

StageTimeout(a) ==
  /\ sf = a
  /\ sf' = "emitFailed"
  /\ UNCHANGED <<agent, check, packet, images, model, offered, events,
                 handling, handled, orders, faults>>

EmitCycleFailed ==
  /\ sf = "emitFailed"
  /\ sf' = "failed"
  /\ images' = images \union {Row("FAILED", 1, FALSE)}
  /\ UNCHANGED <<agent, check, packet, model, offered, events, handling,
                 handled, orders, faults>>

(* AssembleDecisionPacket, assemble-packet.ts: the packet is put if it is  *)
(* not there; the Lambda may fail before the put or after it.              *)
PutPacket ==
  /\ packet' = Row("PENDING", 1, FALSE)
  /\ images' = images \union {packet'}

AssemblePacket ==
  /\ sf = "assemble"
  /\ PutPacket
  /\ sf' = "propose"
  /\ UNCHANGED <<agent, check, model, offered, events, handling, handled,
                 orders, faults>>

AssembleFails ==
  /\ sf = "assemble"
  /\ PutPacket \/ UNCHANGED <<packet, images>>
  /\ sf' = "emitFailed"
  /\ UNCHANGED <<agent, check, model, offered, events, handling, handled,
                 orders, faults>>

(* WaitForCompliance emits RECOMMENDATION_PROPOSED and waits.              *)
ProposeRecommendation ==
  /\ sf = "propose"
  /\ sf' = "compliance"
  /\ check' = "requested"
  /\ UNCHANGED <<agent, packet, images, model, offered, events, handling,
                 handled, orders, faults>>

(* RequestUserConfirmation: one UpdateItem writes the token and the status *)
(* and the execution waits.                                                *)
RequestUserConfirmation ==
  /\ sf = "requestUser"
  /\ sf' = "user"
  /\ packet' = Row("AWAITING_CONFIRMATION", packet.version + 1, TRUE)
  /\ images' = images \union {packet'}
  /\ UNCHANGED <<agent, check, model, offered, events, handling, handled,
                 orders, faults>>

(* A service call of a state without a Catch fails.                        *)
StateFails ==
  /\ Fault
  /\ sf \in {"started", "emitFailed", "propose", "requestUser"}
  /\ sf' = "aborted"
  /\ UNCHANGED <<agent, check, packet, images, model, offered, events,
                 handling, handled, orders>>

(* 24 hours without a verdict, or 72 hours since the execution started.    *)
CycleTimeout ==
  /\ sf \in {"compliance", "user"}
  /\ sf' = "timedOut"
  /\ UNCHANGED <<agent, check, packet, images, model, offered, events,
                 handling, handled, orders, faults>>

-----------------------------------------------------------------------------
(* The agents: event-listener.ts and agent-service.ts of                   *)
(* portfolio-engine-ctrl and advisory-narrative-ctrl.                      *)

Answer(e) == events' = events \union {e}

(* Takes the lock and runs.  The completion or the failure is recorded and *)
(* put on the bus; a transient error or a crash leaves the lock taken and  *)
(* the message in the queue.                                               *)
RunAgent(a) ==
  /\ agent[a].message = "queued"
  /\ ~agent[a].locked
  /\ \/ /\ \E says \in {"completed", "failed"} : Answer(Event(a, says, a, TRUE))
        /\ agent' = [agent EXCEPT ![a] = [message |-> "acked", locked |-> TRUE]]
        /\ UNCHANGED faults
     \/ /\ Fault
        /\ agent' = [agent EXCEPT ![a].locked = TRUE]
        /\ UNCHANGED events
  /\ UNCHANGED <<sf, check, packet, images, model, offered, handling, handled,
                 orders>>

(* DuplicateInvocationError: the handler returns no intents.               *)
SkipDuplicateInvocation(a) ==
  /\ agent[a].message = "queued"
  /\ agent[a].locked
  /\ agent' = [agent EXCEPT ![a].message = "acked"]
  /\ UNCHANGED <<sf, check, packet, images, model, offered, events, handling,
                 handled, orders, faults>>

-----------------------------------------------------------------------------
(* compliance-ctrl: the verdict of the first delivery is recorded and      *)
(* emitted as DECISION_APPROVED (L1, L2) or DECISION_BLOCKED.              *)
EvaluateCompliance(verdict) ==
  /\ check = "requested"
  /\ check' = verdict
  /\ Answer(Event("compliance", verdict, "check", TRUE))
  /\ UNCHANGED <<sf, agent, packet, images, model, offered, handling, handled,
                 orders, faults>>

-----------------------------------------------------------------------------
(* The callback: resume-state-machine.ts and sfn-callback.ts               *)

(* Mutant: ComplianceChoice does not look at the authority level.          *)
NextStateAnyLevel(e) ==
  CASE e.task = "portfolio" -> "narrative"
    [] e.task = "narrative" -> "assemble"
    [] e.says = "BLOCKED" -> "endBlocked"
    [] e.says \in {"L1", "L2"} -> "requestUser"
    [] OTHER -> "endUser"

(* Where the execution goes when e's task succeeds.                        *)
NextState(e) ==
  CASE e.task = "portfolio" -> "narrative"
    [] e.task = "narrative" -> "assemble"
    [] e.says = "BLOCKED" -> "endBlocked"
    [] e.says = "L1" -> "endL1"
    [] e.says = "L2" -> "requestUser"
    [] OTHER -> "endUser"

(* Mutant: a Catch that names a state the machine does not have.           *)
FailStateNowhere(e) == IF e.task \in Agents THEN "emitFailed" ELSE "recover"

(* Where it goes when e's task fails: only the agent states have a Catch.  *)
FailState(e) == IF e.task \in Agents THEN "emitFailed" ELSE "taskFailed"

Waiting(e) == e \in events /\ e \notin handled /\ e \notin handling

(* NotRetryableError: an answer without a token is dropped.                *)
DropWithoutToken(e) ==
  /\ Waiting(e)
  /\ ~e.token
  /\ handled' = handled \union {e}
  /\ UNCHANGED <<sf, agent, check, packet, images, model, offered, events,
                 handling, orders, faults>>

(* PORTFOLIO_FAILED, NARRATIVE_FAILED: SendTaskFailure.                    *)
FailTask(e) ==
  /\ Waiting(e)
  /\ e.says = "failed"
  /\ sf' = IF sf = e.task THEN FailState(e) ELSE sf
  /\ handled' = handled \union {e}
  /\ UNCHANGED <<agent, check, packet, images, model, offered, events,
                 handling, orders, faults>>

(* Mutant: a genuine duplicate is skipped together with its intents.       *)
ResumeTaskOnce(e) ==
  /\ Waiting(e)
  /\ e.token
  /\ e.says # "failed"
  /\ IF sf = e.task
     THEN /\ sf' = NextState(e)
          /\ IF sf = "portfolio" THEN Invoke("narrative") ELSE UNCHANGED agent
          /\ handling' = handling \union {e}
          /\ UNCHANGED handled
     ELSE /\ handled' = handled \union {e}
          /\ UNCHANGED <<sf, agent, handling>>
  /\ UNCHANGED <<check, packet, images, model, offered, events, orders, faults>>

(* SendTaskSuccess.  A dead token (TaskDoesNotExist, TaskTimedOut) is      *)
(* logged and the intents are executed all the same.                       *)
ResumeTask(e) ==
  /\ Waiting(e)
  /\ e.token
  /\ e.says # "failed"
  /\ sf' = IF sf = e.task THEN NextState(e) ELSE sf
  /\ IF sf = "portfolio" /\ e.task = "portfolio"
     THEN Invoke("narrative")
     ELSE UNCHANGED agent
  /\ handling' = handling \union {e}
  /\ UNCHANGED <<check, packet, images, model, offered, events, handled,
                 orders, faults>>

(* SendTaskSuccess fails with another error: the wrapper fails the task    *)
(* (this call may fail too) and the message is redelivered.                *)
ResumeFails(e) ==
  /\ Waiting(e)
  /\ e.token
  /\ e.says # "failed"
  /\ Fault
  /\ sf' \in {sf, IF sf = e.task THEN FailState(e) ELSE sf}
  /\ UNCHANGED <<agent, check, packet, images, model, offered, events,
                 handling, handled, orders>>

StatusAfter(e) ==
  CASE e.says = "L1" -> "APPROVED"
    [] e.says = "L2" -> packet.status
    [] OTHER -> e.says

(* Mutant: no ADD of __version.                                            *)
UpdatedUnversioned(e) ==
  Row(StatusAfter(e), packet.version, packet.token /\ e.task # "user")

(* The update of a verdict or of the user's answer, who removes the token. *)
Updated(e) ==
  Row(StatusAfter(e), packet.version + 1, packet.token /\ e.task # "user")

(* An agent's intent records an AgentOutput row nobody reads here.         *)
ExecuteIntents(e) ==
  /\ e \in handling
  /\ IF e.task \in Agents
     THEN UNCHANGED <<packet, images>>
     ELSE /\ packet' = Updated(e)
          /\ images' = images \union {packet'}
  /\ handling' = handling \ {e}
  /\ handled' = handled \union {e}
  /\ UNCHANGED <<sf, agent, check, model, offered, events, orders, faults>>

(* The callback dies before its intents; the message is handed out again.  *)
CallbackCrash(e) ==
  /\ e \in handling
  /\ Fault
  /\ handling' = handling \ {e}
  /\ UNCHANGED <<sf, agent, check, packet, images, model, offered, events,
                 handled, orders>>

(* At-least-once delivery: a handled answer arrives again.                 *)
Redeliver(e) ==
  /\ e \in handled
  /\ Fault
  /\ handled' = handled \ {e}
  /\ UNCHANGED <<sf, agent, check, packet, images, model, offered, events,
                 handling, orders>>

-----------------------------------------------------------------------------
(* advisory-bff and its web client                                         *)

(* Mutant: project() instead of projectVersioned().                        *)
ProjectAnyway(row) ==
  /\ row \in images
  /\ model' = row
  /\ UNCHANGED <<sf, agent, check, packet, images, offered, events, handling,
                 handled, orders, faults>>

(* decision-snapshot.ts, decision-cycle-status.ts: older and equal         *)
(* versions are dropped.                                                   *)
Project(row) ==
  /\ row \in images
  /\ model.version < row.version
  /\ model' = row
  /\ UNCHANGED <<sf, agent, check, packet, images, offered, events, handling,
                 handled, orders, faults>>

(* A device loads the decision and shows the buttons; it may show them     *)
(* long after the row has moved on.                                        *)
ShowDecision ==
  /\ model.status = "AWAITING_CONFIRMATION"
  /\ ~offered
  /\ offered' = TRUE
  /\ UNCHANGED <<sf, agent, check, packet, images, model, events, handling,
                 handled, orders, faults>>

(* confirm-decision.fn.js, reject-decision.fn.js: the answer is recorded   *)
(* with the task token the read model has at that moment.                  *)
Click(c, answer) ==
  /\ offered
  /\ \A e \in events : e.by # c
  /\ Answer(Event("user", answer, c, model.token))
  /\ UNCHANGED <<sf, agent, check, packet, images, model, offered, handling,
                 handled, orders, faults>>

-----------------------------------------------------------------------------
(* execution-ctrl: processApprovedDecision                                 *)

(* Mutant: DECISION_BLOCKED is forwarded too.                              *)
AuthorizesAnyVerdict(e) == e.says \in Verdicts \union {"CONFIRMED"}

(* execution-adpt forwards DECISION_APPROVED and USER_CONFIRMED.           *)
Authorizes(e) == e.says \in {"L1", "L2", "CONFIRMED"}

(* Orders are keyed by the authorizing event, so a redelivery adds none.   *)
PlaceOrders(e) ==
  /\ e \in events
  /\ Authorizes(e)
  /\ e \notin orders
  /\ orders' = orders \union {e}
  /\ UNCHANGED <<sf, agent, check, packet, images, model, offered, events,
                 handling, handled, faults>>

-----------------------------------------------------------------------------
Execution ==
  \/ EmitCycleStarted \/ ResolveProjections \/ ProjectionsFail
  \/ \E a \in Agents : StageTimeout(a)
  \/ EmitCycleFailed \/ AssemblePacket \/ AssembleFails
  \/ ProposeRecommendation \/ RequestUserConfirmation
  \/ StateFails \/ CycleTimeout

Callback ==
  \E e \in events : \/ DropWithoutToken(e) \/ FailTask(e) \/ ResumeTask(e)
                    \/ ResumeFails(e) \/ ExecuteIntents(e) \/ CallbackCrash(e)
                    \/ Redeliver(e)

Next ==
  \/ Execution
  \/ Callback
  \/ \E a \in Agents : RunAgent(a) \/ SkipDuplicateInvocation(a)
  \/ \E v \in Verdicts : EvaluateCompliance(v)
  \/ \E row \in images : Project(row)
  \/ ShowDecision
  \/ \E c \in Clicks, answer \in Answers : Click(c, answer)
  \/ \E e \in events : PlaceOrders(e)

Spec == Init /\ [][Next]_vars

UserEvents == {Event("user", says, c, token) :
                 says \in Answers, c \in Clicks, token \in BOOLEAN}
CheckEvents == {Event("compliance", v, "check", TRUE) : v \in Verdicts}
AgentEvents == {Event(a, "completed", a, TRUE) : a \in Agents}
                 \union {Event(a, "failed", a, TRUE) : a \in Agents}
AllEvents == UserEvents \union CheckEvents \union AgentEvents

(* Step Functions runs the states and its timers, SQS hands messages out   *)
(* until they are deleted, streams are read to their end.  The user, the   *)
(* 24 h and 72 h timers and execution-ctrl are left unconstrained.         *)
Fairness ==
  /\ WF_vars(EmitCycleStarted)
  /\ WF_vars(ResolveProjections \/ ProjectionsFail)
  /\ \A a \in Agents : WF_vars(StageTimeout(a))
  /\ WF_vars(EmitCycleFailed)
  /\ WF_vars(AssemblePacket \/ AssembleFails)
  /\ WF_vars(ProposeRecommendation)
  /\ WF_vars(RequestUserConfirmation)
  /\ WF_vars(\E v \in Verdicts : EvaluateCompliance(v))
  /\ \A e \in AllEvents :
       WF_vars(DropWithoutToken(e) \/ FailTask(e) \/ ResumeTask(e)
               \/ ExecuteIntents(e))
  /\ WF_vars(\E row \in images : Project(row))

FairSpec == Spec /\ Fairness

-----------------------------------------------------------------------------
(* Properties                                                              *)

Statuses == {"NONE", "GENERATING", "FAILED", "PENDING",
             "AWAITING_CONFIRMATION"} \union Decided

(* Every variable stays in its type.                                       *)
TypeOK ==
  /\ sf \in SfStates
  /\ agent \in [Agents -> [message : {"none", "queued", "acked"},
                           locked : BOOLEAN]]
  /\ check \in {"none", "requested"} \union Verdicts
  /\ packet \in [status : Statuses, version : Nat, token : BOOLEAN]
  /\ images \subseteq [status : Statuses, version : Nat, token : BOOLEAN]
  /\ model \in [status : Statuses, version : Nat \union {-1}, token : BOOLEAN]
  /\ offered \in BOOLEAN
  /\ events \subseteq AllEvents
  /\ handling \subseteq events
  /\ handled \subseteq events
  /\ orders \subseteq events
  /\ faults \in 0 .. MaxFaults

(* What execution-ctrl has ordered was let through by compliance: no order *)
(* of a blocked decision, and an order on the user's word only where the   *)
(* verdict asked for it, however answers are delayed or repeated.          *)
OrdersAuthorised ==
  \A e \in orders :
    /\ check \in {"L1", "L2"}
    /\ e.task = "user" => check = "L2" /\ e.says = "CONFIRMED"

(* The status of the DecisionPacket always has its reason, whichever       *)
(* writer came last: the verdict, the execution or the user's answer.      *)
StatusJustified ==
  /\ packet.status = "APPROVED" => check = "L1"
  /\ packet.status = "BLOCKED" => check = "BLOCKED"
  /\ packet.status = "AWAITING_CONFIRMATION" => check = "L2" /\ packet.token
  /\ packet.status \in Answers =>
       /\ check = "L2"
       /\ ~packet.token
       /\ \E e \in events : e.task = "user" /\ e.says = packet.status

(* Two writers of the packet never make different images of one version;   *)
(* only the failure signal of an execution that died in AssemblePacket may *)
(* share version 1 with the packet.  The projector's guard rests on this.  *)
OneImagePerVersion ==
  \A r, s \in images :
    r.version = s.version /\ r # s =>
      /\ r.version = 1
      /\ {r.status, s.status} = {"FAILED", "PENDING"}
      /\ sf = "failed"

(* A decision the user has seen decided is never shown as pending or       *)
(* awaiting again by a late image.                                         *)
DecidedStaysDecided ==
  [][model.status \in Decided => model'.status \in Decided]_vars

(* The same of the packet itself: no late verdict, redelivered callback or *)
(* slow execution reopens a decided packet.                                *)
PacketNotReopened ==
  [][packet.status \in Decided => packet'.status \in Decided]_vars

(* In the end the read model shows the packet as it is, or the failure     *)
(* that beat the packet's first version.                                   *)
ReadModelSettles ==
  <>[](\/ packet.version = 0
       \/ model = packet
       \/ model.status = "FAILED" /\ packet.version = 1)

(* An answer of the user that carried a token, and a final verdict, are    *)
(* recorded in the packet, also when the callback died after it had used   *)
(* the token up; and an L2 verdict is put to the user, unless the          *)
(* execution timed out, was aborted, or its waiting task was failed by the *)
(* callback that should have resumed it.                                   *)
AnswerRecorded ==
  /\ \A e \in AllEvents :
       (e \in events /\ e.token /\ e.says \in {"L1", "BLOCKED"} \union Answers)
         ~> packet.status \in Decided
  /\ (check = "L2")
       ~> (packet.status # "PENDING" \/ sf \in {"timedOut", "aborted", "taskFailed"})

(* The user does not watch a cycle being generated for ever, unless the    *)
(* execution was aborted where no Catch is or timed out later.             *)
GenerationEnds ==
  (model.status = "GENERATING")
    ~> (model.status # "GENERATING" \/ sf = "aborted")

(* The cycle implements the abstract decision: the verdict, the status of  *)
(* the packet, the images it has had, the status the user is shown and     *)
(* whether there are orders, with what does not concern the decision left  *)
(* out.                                                                    *)
Verdict == IF check \in Verdicts THEN check ELSE "none"

Stage(status) ==
  IF status = "AWAITING_CONFIRMATION" THEN "asked"
  ELSE IF status \in Decided THEN status ELSE "none"

Contract == INSTANCE Decision WITH
  verdict <- Verdict,
  decision <- Stage(packet.status),
  been <- {"none"} \union {Stage(r.status) : r \in images},
  shown <- Stage(model.status),
  ordered <- orders # {}

ImplementsDecision == Contract!Spec

-----------------------------------------------------------------------------
(* A statement of the documentation that the code does not keep.           *)

(* SYSTEM-ARCHITECTURE.md: at L2 the user must confirm before execution.   *)
L2OrdersConfirmed ==
  check = "L2" /\ orders # {} =>
    \E e \in events : e.task = "user" /\ e.says = "CONFIRMED"
=============================================================================
