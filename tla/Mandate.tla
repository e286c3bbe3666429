------------------------------- MODULE Mandate -------------------------------
(***************************************************************************)
(* An investor's profile and mandate, rows of investor-bff that carry a    *)
(* version each, and the copies others keep: compliance-ctrl and           *)
(* decision-workflow-ctrl of the mandate, dashboard-bff of the profile,    *)
(* broker-ctrl of the execution mode.                                      *)
(*                                                                         *)
(* Every write of a row is announced with the row's image.  An image       *)
(* reaches each subscriber at some time, in any order and perhaps again;   *)
(* a projection takes it only if its version is higher than the copy's.    *)
(***************************************************************************)
EXTENDS Integers

CONSTANTS
  Modes,          \* operating modes
  FirstMode,      \* the mode chosen in the onboarding
  MaxVersion,     \* bound on the investor's changes
  MaxOnboardings  \* deliveries of ONBOARDING_COMPLETED

ASSUME MandateAssumption ==
  FirstMode \in Modes /\ MaxVersion \in Nat \ {0} /\ MaxOnboardings \in Nat \ {0}

VARIABLES
  profile,      \* the InvestorProfile row, version 0 while it is absent
  mandate,      \* the Mandate row
  announced,    \* events on the InvestorBus, with their images
  compliance,   \* MandateSnapshot of compliance-ctrl
  workflow,     \* MandateSnapshot of decision-workflow-ctrl
  dashboard,    \* InvestorSnapshot of dashboard-bff
  brokerMode,   \* ExecutionMode row of broker-ctrl
  onboardings   \* times ONBOARDING_COMPLETED was handled

rowVars == <<profile, mandate, announced, onboardings>>
copyVars == <<compliance, workflow, dashboard, brokerMode>>
vars == <<rowVars, copyVars>>

NoMandate == [version |-> 0, status |-> "none", mode |-> FirstMode]
NoProfile == [version |-> 0, executionMode |-> "none"]

Init ==
  /\ profile = NoProfile /\ mandate = NoMandate
  /\ announced = {} /\ onboardings = 0
  /\ compliance = NoMandate /\ workflow = NoMandate
  /\ dashboard = NoProfile
  /\ brokerMode = "none"

-----------------------------------------------------------------------------
(* The events of a write of each row; one write may change several fields. *)
MandateEvents(old, new, reaffirmed) ==
  LET types == IF old.version = 0 THEN {"MANDATE_ISSUED"}
               ELSE (IF old.status # new.status THEN {"MANDATE_REVOKED"} ELSE {})
                 \union (IF old.mode # new.mode THEN {"OPERATING_MODE_CHANGED"} ELSE {})
                 \union (IF reaffirmed THEN {"MANDATE_REAFFIRMED"} ELSE {})
  IN {[type |-> type, image |-> new] : type \in types}

ProfileEvent(new) == [type |-> "INVESTOR_PROFILE_UPDATED", image |-> new]

SetMandate(new, reaffirmed, others) ==
  /\ mandate' = new
  /\ announced' = announced \union MandateEvents(mandate, new, reaffirmed) \union others

(* onboarding-completed.ts: one transaction of unconditional puts, which   *)
(* starts both rows over when the event is handled again.                  *)
OnboardingCompleted ==
  /\ onboardings < MaxOnboardings
  /\ onboardings' = onboardings + 1
  /\ profile' = [version |-> 1, executionMode |-> "simulation"]
  /\ SetMandate([version |-> 1, status |-> "ACTIVE", mode |-> FirstMode],
                TRUE, {ProfileEvent(profile')})
  /\ UNCHANGED copyVars

(* What the investor does bumps the versions of the rows it writes.        *)
Bump(row) == [row EXCEPT !.version = @ + 1]
MayChange == profile.version \in 1 .. MaxVersion - 1
IsActive == mandate.version > 0 /\ mandate.status = "ACTIVE"

(* Mutant: the condition asks for a mandate only.                          *)
RevokeAnyway ==
  /\ mandate.version > 0
  /\ SetMandate([Bump(mandate) EXCEPT !.status = "REVOKED"], FALSE, {})
  /\ UNCHANGED <<profile, onboardings, copyVars>>

RevokeMandate ==
  /\ IsActive
  /\ SetMandate([Bump(mandate) EXCEPT !.status = "REVOKED"], FALSE, {})
  /\ UNCHANGED <<profile, onboardings, copyVars>>

(* A mode that is set to what it was bumps the version without an event.   *)
UpdateOperatingMode(mode) ==
  /\ MayChange /\ IsActive
  /\ profile' = Bump(profile)
  /\ SetMandate([Bump(mandate) EXCEPT !.mode = mode], FALSE, {ProfileEvent(profile')})
  /\ UNCHANGED <<onboardings, copyVars>>

ConfirmGoLive ==
  /\ MayChange /\ IsActive
  /\ profile.executionMode = "simulation"
  /\ profile' = [Bump(profile) EXCEPT !.executionMode = "live"]
  /\ SetMandate(Bump(mandate), TRUE,
       {ProfileEvent(profile'),
        [type |-> "EXECUTION_MODE_CHANGED", from |-> "simulation", to |-> "live"]})
  /\ UNCHANGED <<onboardings, copyVars>>

(* updateGoal, updateRiskProfile.                                          *)
UpdateProfile ==
  /\ MayChange
  /\ profile' = Bump(profile)
  /\ announced' = announced \union {ProfileEvent(profile')}
  /\ UNCHANGED <<mandate, onboardings, copyVars>>

-----------------------------------------------------------------------------
(* Mutant: project instead of projectVersioned.                            *)
OverwritesAlways(copy, image) == image # copy

(* projectVersioned.                                                       *)
Overwrites(copy, image) == copy.version < image.version

(* Mutant: the subscription of the workflow.                               *)
ComplianceTypesOfWorkflow == {"MANDATE_ISSUED", "OPERATING_MODE_CHANGED"}

ComplianceTypes ==
  {"MANDATE_ISSUED", "OPERATING_MODE_CHANGED", "MANDATE_REVOKED", "MANDATE_REAFFIRMED"}

ProjectCompliance(e) ==
  /\ e \in announced /\ e.type \in ComplianceTypes
  /\ Overwrites(compliance, e.image)
  /\ compliance' = e.image
  /\ UNCHANGED <<rowVars, workflow, dashboard, brokerMode>>

(* The workflow does not hear of revocations; it has no need to, since     *)
(* compliance-ctrl blocks what it proposes.                                *)
ProjectWorkflow(e) ==
  /\ e \in announced /\ e.type \in {"MANDATE_ISSUED", "OPERATING_MODE_CHANGED"}
  /\ Overwrites(workflow, e.image)
  /\ workflow' = e.image
  /\ UNCHANGED <<rowVars, compliance, dashboard, brokerMode>>

ProjectDashboard(e) ==
  /\ e \in announced /\ e.type = "INVESTOR_PROFILE_UPDATED"
  /\ Overwrites(dashboard, e.image)
  /\ dashboard' = e.image
  /\ UNCHANGED <<rowVars, compliance, workflow, brokerMode>>

(* Mutant: the mode before the change is cached.                           *)
CacheModeBefore(e) ==
  /\ e \in announced /\ e.type = "EXECUTION_MODE_CHANGED"
  /\ brokerMode = "none"
  /\ brokerMode' = e.from
  /\ UNCHANGED <<rowVars, compliance, workflow, dashboard>>

(* mode-listener.ts: record never overwrites.                              *)
CacheMode(e) ==
  /\ e \in announced /\ e.type = "EXECUTION_MODE_CHANGED"
  /\ brokerMode = "none"
  /\ brokerMode' = e.to
  /\ UNCHANGED <<rowVars, compliance, workflow, dashboard>>

-----------------------------------------------------------------------------
Deliver(e) ==
  \/ ProjectCompliance(e) \/ ProjectWorkflow(e) \/ ProjectDashboard(e) \/ CacheMode(e)

Next ==
  \/ OnboardingCompleted
  \/ RevokeMandate
  \/ \E mode \in Modes : UpdateOperatingMode(mode)
  \/ ConfirmGoLive
  \/ UpdateProfile
  \/ \E e \in announced : Deliver(e)

Spec == Init /\ [][Next]_vars

(* The streams and queues deliver.  No step repeats for ever, since a copy *)
(* only takes higher versions; what the investor does is not promised.     *)
FairSpec == Spec /\ WF_vars(\E e \in announced : Deliver(e))

-----------------------------------------------------------------------------
(* Properties                                                              *)

Versions == 0 .. MaxVersion + 1
MandateRow == [version : Versions, status : {"none", "ACTIVE", "REVOKED"}, mode : Modes]
ProfileRow == [version : Versions, executionMode : {"none", "simulation", "live"}]

(* Every variable stays in its type; a mandate is at most one version, that*)
(* of its revocation, beyond the investor's bounded changes.               *)
TypeOK ==
  /\ profile \in ProfileRow /\ dashboard \in ProfileRow
  /\ mandate \in MandateRow /\ compliance \in MandateRow /\ workflow \in MandateRow
  /\ brokerMode \in {"none", "live"}
  /\ onboardings \in 0 .. MaxOnboardings

(* What compliance-ctrl knows to be revoked it never again takes for       *)
(* active, whatever overtakes the revocation, unless the onboarding was    *)
(* handled twice.                                                          *)
RevocationHolds ==
  [][onboardings <= 1 /\ compliance.status = "REVOKED"
       => compliance'.status = "REVOKED"]_compliance

(* The copies of the mandate come to agree with it: compliance-ctrl on all *)
(* of it, the workflow on the operating mode, although a mode set to what  *)
(* it was leaves a gap in the versions.                                    *)
MandateSettles ==
  <>[](onboardings = 1 =>
         /\ compliance.status = mandate.status /\ compliance.mode = mandate.mode
         /\ workflow.mode = mandate.mode)

(* Profile, dashboard and broker-ctrl come to agree on the execution mode. *)
ModesAgree ==
  <>[](onboardings = 1 =>
         /\ dashboard.executionMode = profile.executionMode
         /\ profile.executionMode = (IF brokerMode = "none" THEN "simulation" ELSE brokerMode))
=============================================================================
