---------------------------- MODULE Mandate_proofs ----------------------------
(***************************************************************************)
(* Proofs about Mandate, for any modes and bounds.  A mandate's version is *)
(* at most its profile's, plus one for its revocation, which gives the     *)
(* types their bound.  While the onboarding is handled once, a revoked     *)
(* mandate is final and its image has the highest version, so that no      *)
(* copy of the revocation can be overwritten.  And the newest image of a   *)
(* row agrees with the row, so that a copy that has none left to take does *)
(* as well.                                                                *)
(***************************************************************************)
EXTENDS Mandate, TLAPS

MandateEventTypes == ComplianceTypes

Images ==
  \A e \in announced :
    /\ e.type \in MandateEventTypes => e.image \in MandateRow
    /\ e.type = "INVESTOR_PROFILE_UPDATED" => e.image \in ProfileRow
    /\ e.type = "EXECUTION_MODE_CHANGED" => e.to = "live"

Bounded ==
  /\ profile.version <= MaxVersion
  /\ mandate.version <= profile.version + 1
  /\ mandate.status # "REVOKED" => mandate.version <= profile.version

(* The revocation, once made, is the last word about the mandate.          *)
LastWord ==
  onboardings <= 1 =>
    /\ onboardings = 0 => mandate = NoMandate /\ profile = NoProfile
    /\ \A e \in announced : e.type \in MandateEventTypes =>
         /\ e.image.version <= mandate.version
         /\ e.image.status = "REVOKED" =>
              e.image.version = mandate.version /\ mandate.status = "REVOKED"
    /\ compliance.version <= mandate.version
    /\ compliance.status = "REVOKED" =>
         compliance.version = mandate.version /\ mandate.status = "REVOKED"

TypeInv == TypeOK /\ Images /\ Bounded
IInv == TypeInv /\ LastWord

(* What a write of the mandate announces: an image of the new row under a  *)
(* type of the mandate, and what else was written with it.                 *)
MayAnnounce(new, others) ==
  \A e \in announced' :
    \/ e \in announced \/ e \in others
    \/ e.type \in MandateEventTypes /\ e.image = new

(* The events of a change of the mandate carry its new image.              *)
LEMMA MandateEventsFacts ==
  ASSUME NEW old, NEW new, NEW reaffirmed, NEW e \in MandateEvents(old, new, reaffirmed)
  PROVE  e.type \in MandateEventTypes /\ e.image = new
  BY DEF MandateEvents, MandateEventTypes, ComplianceTypes

(* A write of the mandate announces what it may announce.                  *)
LEMMA SetMandateFacts ==
  ASSUME NEW new, NEW reaffirmed, NEW others, SetMandate(new, reaffirmed, others)
  PROVE  mandate' = new /\ MayAnnounce(new, others)
<1> SUFFICES ASSUME NEW e \in announced', e \notin announced, e \notin others
    PROVE  e.type \in MandateEventTypes /\ e.image = new
  BY DEF MayAnnounce, SetMandate
<1>1. e \in MandateEvents(mandate, new, reaffirmed)
  BY DEF SetMandate
<1>2. QED
  BY <1>1, MandateEventsFacts

(* The next version of each row, field by field.                           *)
LEMMA BumpMandate ==
  ASSUME mandate \in MandateRow
  PROVE  /\ Bump(mandate) = [version |-> mandate.version + 1,
                             status |-> mandate.status, mode |-> mandate.mode]
         /\ [Bump(mandate) EXCEPT !.status = "REVOKED"]
              = [version |-> mandate.version + 1, status |-> "REVOKED",
                 mode |-> mandate.mode]
         /\ \A mode \in Modes : [Bump(mandate) EXCEPT !.mode = mode]
              = [version |-> mandate.version + 1, status |-> mandate.status,
                 mode |-> mode]
<1>1. mandate = [version |-> mandate.version, status |-> mandate.status,
                 mode |-> mandate.mode]
  BY DEF MandateRow
<1>2. Bump(mandate) = [version |-> mandate.version + 1,
                       status |-> mandate.status, mode |-> mandate.mode]
  BY <1>1 DEF Bump
<1>3. QED
  BY <1>2

(* The events of the profile and of the mode are not the mandate's.        *)
LEMMA OtherTypes ==
  /\ "INVESTOR_PROFILE_UPDATED" \notin MandateEventTypes
  /\ "EXECUTION_MODE_CHANGED" \notin MandateEventTypes
  BY DEF MandateEventTypes, ComplianceTypes

(* A write of the mandate keeps the images well typed.                     *)
LEMMA ImagesKept ==
  ASSUME Images, NEW new \in MandateRow, NEW others, MayAnnounce(new, others),
         \A e \in others :
           \/ e.type = "INVESTOR_PROFILE_UPDATED" /\ e.image \in ProfileRow
           \/ e.type = "EXECUTION_MODE_CHANGED" /\ e.to = "live"
  PROVE  Images'
<1> SUFFICES ASSUME NEW e \in announced'
    PROVE  /\ e.type \in MandateEventTypes => e.image \in MandateRow
           /\ e.type = "INVESTOR_PROFILE_UPDATED" => e.image \in ProfileRow
           /\ e.type = "EXECUTION_MODE_CHANGED" => e.to = "live"
  BY DEF Images
<1>1. CASE e \in announced
  BY <1>1 DEF Images
<1>2. CASE e \in others
  BY <1>2, OtherTypes
<1>3. CASE e.type \in MandateEventTypes /\ e.image = new
  BY <1>3, OtherTypes
<1>4. QED
  BY <1>1, <1>2, <1>3 DEF MayAnnounce

-----------------------------------------------------------------------------
(* The initial state is well typed.                                        *)
LEMMA TypeInit == Init => TypeInv
  BY MandateAssumption
  DEF Init, TypeInv, TypeOK, Images, Bounded, NoMandate, NoProfile, MandateRow,
      ProfileRow, Versions

(* An image that is taken for a copy has the copy's type.                  *)
LEMMA CopiesTyped ==
  ASSUME TypeInv, NEW e \in announced, Deliver(e)
  PROVE  TypeInv'
<1> USE DEF TypeInv, TypeOK, Images, Bounded
<1>1. CASE ProjectCompliance(e)
  BY <1>1 DEF ProjectCompliance, rowVars, MandateEventTypes
<1>2. CASE ProjectWorkflow(e)
  BY <1>2 DEF ProjectWorkflow, rowVars, MandateEventTypes, ComplianceTypes
<1>3. CASE ProjectDashboard(e)
  BY <1>3 DEF ProjectDashboard, rowVars
<1>4. CASE CacheMode(e)
  BY <1>4 DEF CacheMode, rowVars
<1>5. QED
  BY <1>1, <1>2, <1>3, <1>4 DEF Deliver

(* Every step keeps the types.                                             *)
LEMMA TypePreserved == TypeInv /\ [Next]_vars => TypeInv'
<1> SUFFICES ASSUME TypeInv, [Next]_vars PROVE TypeInv'
  OBVIOUS
<1> USE MandateAssumption
<1>0. /\ mandate \in MandateRow /\ profile \in ProfileRow
      /\ Images /\ Bounded /\ TypeOK
  BY DEF TypeInv, TypeOK
<1>1. CASE OnboardingCompleted
  <2>1. profile' \in ProfileRow
    BY <1>1 DEF OnboardingCompleted, ProfileRow, Versions
  <2>2. [version |-> 1, status |-> "ACTIVE", mode |-> FirstMode] \in MandateRow
    BY DEF MandateRow, Versions
  <2> DEFINE new == [version |-> 1, status |-> "ACTIVE", mode |-> FirstMode]
  <2>3. /\ mandate' = new
        /\ MayAnnounce(new, {ProfileEvent(profile')})
    <3>1. SetMandate(new, TRUE, {ProfileEvent(profile')})
      BY <1>1 DEF OnboardingCompleted
    <3>2. QED
      BY <3>1, SetMandateFacts
  <2>3a. Images'
    BY <1>0, <2>1, <2>2, <2>3, ImagesKept DEF ProfileEvent
  <2>4. TypeOK'
    BY <1>0, <1>1, <2>1, <2>2 DEF OnboardingCompleted, SetMandate, TypeOK, copyVars
  <2>5. Bounded'
    BY <1>1 DEF OnboardingCompleted, SetMandate, Bounded
  <2>6. QED
    BY <2>3a, <2>4, <2>5 DEF TypeInv
<1>2. CASE RevokeMandate
  <2> DEFINE new == [Bump(mandate) EXCEPT !.status = "REVOKED"]
  <2>1. new = [version |-> mandate.version + 1, status |-> "REVOKED", mode |-> mandate.mode]
    BY <1>0, BumpMandate
  <2>2. new \in MandateRow
    BY <1>0, <1>2, <2>1 DEF RevokeMandate, IsActive, Bounded, MandateRow, ProfileRow, Versions
  <2>3. mandate' = new /\ MayAnnounce(new, {})
    <3>1. SetMandate(new, FALSE, {})
      BY <1>2 DEF RevokeMandate
    <3>2. QED
      BY <3>1, SetMandateFacts
  <2>4. Images'
    BY <1>0, <2>2, <2>3, ImagesKept
  <2>5. TypeOK'
    BY <1>0, <1>2, <2>2, <2>3 DEF RevokeMandate, TypeOK, copyVars
  <2>6. Bounded'
    BY <1>0, <1>2, <2>1, <2>3
    DEF RevokeMandate, IsActive, Bounded, MandateRow, ProfileRow, Versions
  <2>7. QED
    BY <2>4, <2>5, <2>6 DEF TypeInv
<1>3. ASSUME NEW mode \in Modes, UpdateOperatingMode(mode) PROVE TypeInv'
  <2> DEFINE new == [Bump(mandate) EXCEPT !.mode = mode]
  <2>1. new = [version |-> mandate.version + 1, status |-> mandate.status, mode |-> mode]
    BY <1>0, BumpMandate
  <2>2. profile' = [version |-> profile.version + 1,
                    executionMode |-> profile.executionMode]
    BY <1>0, <1>3 DEF UpdateOperatingMode, Bump, ProfileRow
  <2>3. new \in MandateRow /\ profile' \in ProfileRow
    BY <1>0, <1>3, <2>1, <2>2
    DEF UpdateOperatingMode, MayChange, IsActive, Bounded, MandateRow, ProfileRow, Versions
  <2>4. mandate' = new /\ MayAnnounce(new, {ProfileEvent(profile')})
    <3>1. SetMandate(new, FALSE, {ProfileEvent(profile')})
      BY <1>3 DEF UpdateOperatingMode
    <3>2. QED
      BY <3>1, SetMandateFacts
  <2>5. Images'
    BY <1>0, <2>3, <2>4, ImagesKept DEF ProfileEvent
  <2>6. TypeOK'
    BY <1>0, <1>3, <2>3, <2>4 DEF UpdateOperatingMode, TypeOK, copyVars
  <2>7. Bounded'
    BY <1>0, <1>3, <2>1, <2>2, <2>4
    DEF UpdateOperatingMode, MayChange, IsActive, Bounded, MandateRow, ProfileRow, Versions
  <2>8. QED
    BY <2>5, <2>6, <2>7 DEF TypeInv
<1>4. CASE ConfirmGoLive
  <2> DEFINE new == Bump(mandate)
             change == [type |-> "EXECUTION_MODE_CHANGED", from |-> "simulation", to |-> "live"]
  <2>1. new = [version |-> mandate.version + 1, status |-> mandate.status,
               mode |-> mandate.mode]
    BY <1>0, BumpMandate
  <2>2. profile' = [version |-> profile.version + 1, executionMode |-> "live"]
    BY <1>0, <1>4 DEF ConfirmGoLive, Bump, ProfileRow
  <2>3. new \in MandateRow /\ profile' \in ProfileRow
    <3>1. profile.version + 1 \in Versions
      BY <1>0, <1>4 DEF ConfirmGoLive, MayChange, ProfileRow, Versions
    <3>2. mandate.version + 1 \in Versions
      BY <1>0, <1>4
      DEF ConfirmGoLive, MayChange, IsActive, Bounded, MandateRow, ProfileRow, Versions
    <3>3. QED
      BY <1>0, <2>1, <2>2, <3>1, <3>2 DEF MandateRow, ProfileRow
  <2>4. mandate' = new /\ MayAnnounce(new, {ProfileEvent(profile'), change})
    <3>1. SetMandate(new, TRUE, {ProfileEvent(profile'), change})
      BY <1>4 DEF ConfirmGoLive
    <3>2. QED
      BY <3>1, SetMandateFacts
  <2>5. Images'
    BY <1>0, <2>3, <2>4, ImagesKept DEF ProfileEvent
  <2>6. TypeOK'
    BY <1>0, <1>4, <2>3, <2>4 DEF ConfirmGoLive, TypeOK, copyVars
  <2>7. Bounded'
    BY <1>0, <1>4, <2>1, <2>2, <2>4
    DEF ConfirmGoLive, MayChange, IsActive, Bounded, MandateRow, ProfileRow, Versions
  <2>8. QED
    BY <2>5, <2>6, <2>7 DEF TypeInv
<1>5. CASE UpdateProfile
  <2>1. profile' = [version |-> profile.version + 1,
                    executionMode |-> profile.executionMode]
    BY <1>0, <1>5 DEF UpdateProfile, Bump, ProfileRow
  <2>2. profile' \in ProfileRow
    BY <1>0, <1>5, <2>1 DEF UpdateProfile, MayChange, ProfileRow, Versions
  <2>3. Images'
    BY <1>0, <1>5, <2>2, OtherTypes DEF UpdateProfile, Images, ProfileEvent
  <2>4. TypeOK' /\ Bounded'
    BY <1>0, <1>5, <2>1, <2>2
    DEF UpdateProfile, TypeOK, Bounded, MayChange, copyVars, MandateRow, ProfileRow, Versions
  <2>5. QED
    BY <2>3, <2>4 DEF TypeInv
<1>6. ASSUME NEW e \in announced, Deliver(e) PROVE TypeInv'
  BY <1>6, CopiesTyped
<1>7. CASE UNCHANGED vars
  BY <1>7 DEF vars, rowVars, copyVars, TypeInv, TypeOK, Images, Bounded
<1>8. QED
  BY <1>1, <1>2, <1>3, <1>4, <1>5, <1>6, <1>7 DEF Next

(* Every variable of the mandate, its profile and their copies stays in    *)
(* its type.                                                               *)
THEOREM MandateTypeCorrect == Spec => []TypeOK
<1>1. TypeInv => TypeOK
  BY DEF TypeInv
<1>2. QED
  BY <1>1, TypeInit, TypePreserved, PTL DEF Spec

-----------------------------------------------------------------------------
(* What the investor changes of an active mandate keeps the last word: no  *)
(* image, and no copy, was revoked before, and the new image is the latest.*)
LEMMA WriteKeepsLastWord ==
  ASSUME TypeInv, LastWord, IsActive, NEW new \in MandateRow, NEW others,
         new.version = mandate.version + 1, mandate' = new, MayAnnounce(new, others),
         \A e \in others : e.type \notin MandateEventTypes,
         UNCHANGED <<onboardings, compliance>>
  PROVE  LastWord'
<1> SUFFICES ASSUME onboardings <= 1
    PROVE  /\ onboardings # 0
           /\ \A e \in announced' : e.type \in MandateEventTypes =>
                /\ e.image.version <= new.version
                /\ e.image.status = "REVOKED" =>
                     e.image.version = new.version /\ new.status = "REVOKED"
           /\ compliance.version <= new.version
           /\ compliance.status # "REVOKED"
  BY DEF LastWord
<1>1. onboardings # 0
  BY DEF LastWord, IsActive, NoMandate
<1>2. mandate.version \in Int /\ compliance.version \in Int /\ mandate.status = "ACTIVE"
  BY DEF TypeInv, TypeOK, MandateRow, Versions, IsActive
<1>3. compliance.version <= new.version /\ compliance.status # "REVOKED"
  BY <1>2 DEF LastWord
<1>4. ASSUME NEW e \in announced', e.type \in MandateEventTypes
      PROVE  /\ e.image.version <= new.version
             /\ e.image.status = "REVOKED" =>
                  e.image.version = new.version /\ new.status = "REVOKED"
  <2>1. CASE e \in announced
    <3>1. e.image.version \in Int
      BY <1>4, <2>1 DEF TypeInv, Images, MandateRow, Versions
    <3>2. e.image.version <= mandate.version /\ e.image.status # "REVOKED"
      BY <1>2, <1>4, <2>1 DEF LastWord
    <3>3. QED
      BY <1>2, <3>1, <3>2
  <2>2. CASE e.image = new
    BY <2>2 DEF MandateRow, Versions
  <2>3. QED
    BY <1>4, <2>1, <2>2 DEF MayAnnounce
<1>5. QED
  BY <1>1, <1>3, <1>4

(* No image, and no copy, is newer than the row, and a revocation is the   *)
(* last image.                                                             *)
LEMMA LastWordPreserved == IInv /\ [Next]_vars => LastWord'
<1> SUFFICES ASSUME IInv, [Next]_vars PROVE LastWord'
  OBVIOUS
<1> USE MandateAssumption
<1>0. TypeInv /\ TypeInv' /\ LastWord /\ mandate \in MandateRow /\ mandate' \in MandateRow
  BY TypePreserved DEF IInv, TypeInv, TypeOK
<1>1. CASE OnboardingCompleted
  <2> SUFFICES ASSUME onboardings' <= 1 PROVE LastWord'
    BY DEF LastWord
  <2>1. onboardings = 0 /\ onboardings' = 1
    BY <1>0, <1>1 DEF OnboardingCompleted, TypeInv, TypeOK
  <2>2. mandate = NoMandate /\ compliance' = compliance
    BY <1>0, <1>1, <2>1 DEF OnboardingCompleted, LastWord, copyVars
  <2> DEFINE new == [version |-> 1, status |-> "ACTIVE", mode |-> FirstMode]
  <2>3. SetMandate(new, TRUE, {ProfileEvent(profile')})
    BY <1>1 DEF OnboardingCompleted
  <2>4. mandate' = new /\ MayAnnounce(new, {ProfileEvent(profile')})
    BY <2>3, SetMandateFacts
  <2>5. compliance.version = 0 /\ compliance.status # "REVOKED"
    BY <1>0, <2>1, <2>2
    DEF LastWord, NoMandate, TypeInv, TypeOK, MandateRow, Versions
  <2>6. ASSUME NEW e \in announced', e.type \in MandateEventTypes
        PROVE  e.image.version <= 1 /\ e.image.status # "REVOKED"
    <3>1. CASE e \in announced
      BY <1>0, <2>1, <2>2, <2>6, <3>1
      DEF LastWord, NoMandate, TypeInv, Images, MandateRow, Versions
    <3>2. CASE e.image = new
      BY <3>2
    <3>3. e \notin {ProfileEvent(profile')}
      BY <2>6, OtherTypes DEF ProfileEvent
    <3>4. QED
      BY <2>4, <3>1, <3>2, <3>3 DEF MayAnnounce
  <2>7. QED
    BY <2>1, <2>2, <2>4, <2>5, <2>6 DEF LastWord
<1>2. CASE RevokeMandate
  <2> DEFINE new == [Bump(mandate) EXCEPT !.status = "REVOKED"]
  <2>1. SetMandate(new, FALSE, {}) /\ IsActive /\ UNCHANGED <<onboardings, compliance>>
    BY <1>2 DEF RevokeMandate, copyVars
  <2>2. mandate' = new /\ MayAnnounce(new, {})
    BY <2>1, SetMandateFacts
  <2>3. new.version = mandate.version + 1
    BY <1>0, BumpMandate
  <2> HIDE DEF new
  <2>4. QED
    BY <1>0, <2>1, <2>2, <2>3, WriteKeepsLastWord
<1>3. ASSUME NEW mode \in Modes, UpdateOperatingMode(mode) PROVE LastWord'
  <2> DEFINE new == [Bump(mandate) EXCEPT !.mode = mode]
             others == {ProfileEvent(profile')}
  <2>1. SetMandate(new, FALSE, others) /\ IsActive /\ UNCHANGED <<onboardings, compliance>>
    BY <1>3 DEF UpdateOperatingMode, copyVars
  <2>2. mandate' = new /\ MayAnnounce(new, others)
    BY <2>1, SetMandateFacts
  <2>3. new.version = mandate.version + 1
    BY <1>0, BumpMandate
  <2>4. \A e \in others : e.type \notin MandateEventTypes
    BY OtherTypes DEF ProfileEvent
  <2> HIDE DEF new, others
  <2>5. QED
    BY <1>0, <2>1, <2>2, <2>3, <2>4, WriteKeepsLastWord
<1>4. CASE ConfirmGoLive
  <2> DEFINE new == Bump(mandate)
             change == [type |-> "EXECUTION_MODE_CHANGED", from |-> "simulation", to |-> "live"]
             others == {ProfileEvent(profile'), change}
  <2>1. SetMandate(new, TRUE, others) /\ IsActive /\ UNCHANGED <<onboardings, compliance>>
    BY <1>4 DEF ConfirmGoLive, copyVars
  <2>2. mandate' = new /\ MayAnnounce(new, others)
    BY <2>1, SetMandateFacts
  <2>3. new.version = mandate.version + 1
    BY <1>0, BumpMandate
  <2>4. \A e \in others : e.type \notin MandateEventTypes
    BY OtherTypes DEF ProfileEvent
  <2> HIDE DEF new, others
  <2>5. QED
    BY <1>0, <2>1, <2>2, <2>3, <2>4, WriteKeepsLastWord
<1>5. CASE UpdateProfile
  <2>1. \A e \in announced' : e \in announced \/ e.type \notin MandateEventTypes
    BY <1>5, OtherTypes DEF UpdateProfile, ProfileEvent
  <2>2. onboardings # 0 \/ ~(onboardings <= 1)
    BY <1>0, <1>5 DEF UpdateProfile, MayChange, LastWord, NoProfile
  <2>3. QED
    BY <1>0, <1>5, <2>1, <2>2 DEF UpdateProfile, LastWord, copyVars
<1>6. ASSUME NEW e \in announced, ProjectCompliance(e) PROVE LastWord'
  BY <1>0, <1>6 DEF ProjectCompliance, LastWord, MandateEventTypes, rowVars
<1>7. ASSUME NEW e \in announced,
             ProjectWorkflow(e) \/ ProjectDashboard(e) \/ CacheMode(e)
      PROVE  LastWord'
  BY <1>0, <1>7 DEF ProjectWorkflow, ProjectDashboard, CacheMode, LastWord, rowVars
<1>8. CASE UNCHANGED vars
  BY <1>0, <1>8 DEF vars, rowVars, copyVars, LastWord
<1>9. QED
  BY <1>1, <1>2, <1>3, <1>4, <1>5, <1>6, <1>7, <1>8 DEF Next, Deliver

(* At the start there is no mandate and nothing is announced.              *)
LEMMA InitInductive == Init => IInv
  BY TypeInit, MandateAssumption
  DEF Init, IInv, LastWord, TypeInv, NoMandate, NoProfile

(* While the onboarding was handled once, compliance-ctrl never takes a    *)
(* mandate it knows to be revoked for active again.                        *)
THEOREM MandateRevocationHolds == Spec => RevocationHolds
<1>1. ASSUME IInv, [Next]_vars
      PROVE  [onboardings <= 1 /\ compliance.status = "REVOKED"
                => compliance'.status = "REVOKED"]_compliance
  <2> SUFFICES ASSUME onboardings <= 1, compliance.status = "REVOKED",
                      compliance' # compliance
      PROVE  FALSE
    OBVIOUS
  <2>1. PICK e \in announced : ProjectCompliance(e)
    BY <1>1
    DEF Next, Deliver, OnboardingCompleted, RevokeMandate, UpdateOperatingMode,
        ConfirmGoLive, UpdateProfile, ProjectWorkflow, ProjectDashboard, CacheMode,
        copyVars, vars
  <2>2. /\ e.image.version <= mandate.version
        /\ compliance.version = mandate.version
    BY <1>1, <2>1 DEF IInv, LastWord, ProjectCompliance, MandateEventTypes
  <2>3. e.image.version \in Int /\ compliance.version \in Int
    BY <1>1, <2>1 DEF IInv, TypeInv, TypeOK, Images, ProjectCompliance,
       MandateEventTypes, MandateRow, Versions
  <2>4. QED
    BY <2>1, <2>2, <2>3 DEF ProjectCompliance, Overwrites
<1>2. IInv /\ [Next]_vars => IInv'
  BY TypePreserved, LastWordPreserved DEF IInv
<1>3. QED
  BY <1>1, <1>2, InitInductive, PTL DEF Spec, RevocationHolds

-----------------------------------------------------------------------------
(* Copies follow their rows.                                               *)

(* The events of some types.                                               *)
Of(events, types) == {e \in events : e.type \in types}

(* An image is a version of the row, and a version has one image.          *)
Numbered(events, types, r) ==
  /\ \A e \in Of(events, types) :
       /\ e.image.version \in Int
       /\ 1 <= e.image.version /\ e.image.version <= r.version
  /\ \A d, e \in Of(events, types) :
       d.image.version = e.image.version => d.image = e.image

(* Two rows agree in some fields.                                          *)
Agrees(fields, a, b) == \A f \in fields : a[f] = b[f]

(* The newest image that a copy hears of agrees with the row in the fields *)
(* that count, and the copy is one of the images or still blank.           *)
CopyOK(events, types, fields, r, copy) ==
  /\ r.version > 0 =>
       \E e \in Of(events, types) :
         /\ Agrees(fields, e.image, r)
         /\ \A d \in Of(events, types) : d.image.version <= e.image.version
  /\ copy.version = 0 \/ \E e \in Of(events, types) : copy = e.image

(* The events that each copy is made of.                                   *)
WorkflowTypes == {"MANDATE_ISSUED", "OPERATING_MODE_CHANGED"}
ProfileTypes == {"INVESTOR_PROFILE_UPDATED"}
ModeTypes == {"EXECUTION_MODE_CHANGED"}

(* The profile is live once the switch is announced, and broker-ctrl hears *)
(* of no other mode.                                                       *)
ModeOK ==
  /\ profile.executionMode = "live" <=> Of(announced, ModeTypes) # {}
  /\ brokerMode # "none" => Of(announced, ModeTypes) # {}
  /\ onboardings = 1 => profile.executionMode # "none"

(* While the onboarding was handled once at most.                          *)
FollowInv ==
  onboardings <= 1 =>
    /\ onboardings = 1 => mandate.version > 0 /\ profile.version > 0
    /\ Numbered(announced, MandateEventTypes, mandate)
    /\ Numbered(announced, ProfileTypes, profile)
    /\ CopyOK(announced, MandateEventTypes, {"status", "mode"}, mandate, compliance)
    /\ CopyOK(announced, WorkflowTypes, {"mode"}, mandate, workflow)
    /\ CopyOK(announced, ProfileTypes, {"executionMode"}, profile, dashboard)
    /\ ModeOK

(* A copy agrees with its row, or an image is on its way that it will take.*)
CopiesFollow ==
  onboardings = 1 =>
    /\ \/ compliance.status = mandate.status /\ compliance.mode = mandate.mode
       \/ \E e \in announced : e.type \in ComplianceTypes /\ Overwrites(compliance, e.image)
    /\ \/ workflow.mode = mandate.mode
       \/ \E e \in announced : e.type \in WorkflowTypes /\ Overwrites(workflow, e.image)
    /\ \/ dashboard.executionMode = profile.executionMode
       \/ \E e \in announced : e.type \in ProfileTypes /\ Overwrites(dashboard, e.image)
    /\ \/ profile.executionMode = IF brokerMode = "none" THEN "simulation" ELSE brokerMode
       \/ brokerMode = "none" /\ \E e \in announced : e.type \in ModeTypes

(* A write announces the new row, or changes nothing a copy is to know.    *)
LEMMA WriteNumbered ==
  ASSUME NEW old, NEW events, NEW types, NEW r, NEW new, NEW N,
         r.version \in Int, new.version \in Int, r.version >= 0,
         r.version < new.version,
         Numbered(old, types, r),
         Of(events, types) = Of(old, types) \union N, \A e \in N : e.image = new
  PROVE  Numbered(events, types, new)
BY DEF Numbered

(* And a copy keeps hearing of the newest image that agrees.               *)
LEMMA WriteFollows ==
  ASSUME NEW old, NEW events, NEW types, NEW fields, NEW r, NEW new, NEW copy, NEW N,
         r.version \in Int, new.version \in Int, r.version >= 0,
         r.version < new.version,
         \A e \in Of(old, types) : e.image.version \in Int /\ e.image.version <= r.version,
         Of(events, types) = Of(old, types) \union N, \A e \in N : e.image = new,
         N # {} \/ (r.version > 0 /\ Agrees(fields, r, new)),
         CopyOK(old, types, fields, r, copy)
  PROVE  CopyOK(events, types, fields, new, copy)
<1>1. copy.version = 0 \/ \E e \in Of(events, types) : copy = e.image
  BY DEF CopyOK
<1>2. CASE N # {}
  <2>1. PICK e \in N : e.image = new
    BY <1>2
  <2>2. e \in Of(events, types) /\ Agrees(fields, e.image, new)
    BY <2>1 DEF Agrees
  <2>3. \A d \in Of(events, types) : d.image.version <= e.image.version
    BY <2>1
  <2> QED
    BY <1>1, <2>2, <2>3 DEF CopyOK
<1>3. CASE N = {}
  <2>1. PICK e \in Of(old, types) :
          /\ Agrees(fields, e.image, r)
          /\ \A d \in Of(old, types) : d.image.version <= e.image.version
    BY <1>3 DEF CopyOK
  <2>2. Agrees(fields, e.image, new) /\ Of(events, types) = Of(old, types)
    BY <1>3, <2>1 DEF Agrees
  <2> QED
    BY <1>1, <2>1, <2>2 DEF CopyOK
<1> QED
  BY <1>2, <1>3

(* The image of an event is taken.                                         *)
LEMMA TakenFollows ==
  ASSUME NEW events, NEW types, NEW fields, NEW r, NEW copy,
         NEW e \in Of(events, types), CopyOK(events, types, fields, r, copy)
  PROVE  CopyOK(events, types, fields, r, e.image)
BY DEF CopyOK

(* A copy that no image would overwrite agrees.                            *)
LEMMA CopyAgrees ==
  ASSUME NEW events, NEW types, NEW fields, NEW r, NEW copy,
         r.version > 0, CopyOK(events, types, fields, r, copy),
         \A e \in Of(events, types) : e.image.version \in Int /\ 1 <= e.image.version,
         \A d, e \in Of(events, types) :
           d.image.version = e.image.version => d.image = e.image,
         \A e \in Of(events, types) : ~(copy.version < e.image.version)
  PROVE  Agrees(fields, copy, r)
<1>1. PICK e \in Of(events, types) :
         /\ Agrees(fields, e.image, r)
         /\ \A d \in Of(events, types) : d.image.version <= e.image.version
  BY DEF CopyOK
<1>2. PICK d \in Of(events, types) : copy = d.image
  BY <1>1 DEF CopyOK
<1>3. copy = e.image
  BY <1>1, <1>2
<1> QED
  BY <1>1, <1>3

(* What each write announces, by types.                                    *)
LEMMA MandateAnnounced ==
  ASSUME NEW new, NEW reaffirmed, NEW others, SetMandate(new, reaffirmed, others),
         \A e \in others : e.type \notin MandateEventTypes,
         NEW types, types \subseteq MandateEventTypes
  PROVE  \E N : /\ Of(announced', types) = Of(announced, types) \union N
                /\ \A e \in N : e.image = new
                /\ N = {e \in MandateEvents(mandate, new, reaffirmed) : e.type \in types}
<1> DEFINE N == {e \in MandateEvents(mandate, new, reaffirmed) : e.type \in types}
<1>1. \A e \in N : e.image = new
  BY MandateEventsFacts
<1>2. Of(announced', types) = Of(announced, types) \union N
  BY DEF Of, SetMandate
<1> QED
  BY <1>1, <1>2

(* What is announced beside the mandate.                                   *)
LEMMA OtherAnnounced ==
  ASSUME NEW new, NEW reaffirmed, NEW others, SetMandate(new, reaffirmed, others),
         NEW types, types \cap MandateEventTypes = {}
  PROVE  Of(announced', types) = Of(announced, types) \union Of(others, types)
BY MandateEventsFacts DEF Of, SetMandate

(* At the start nothing is announced, and the copies are blank.            *)
LEMMA InitFollow == Init => FollowInv
BY DEF Init, FollowInv, Numbered, CopyOK, ModeOK, Of, NoMandate, NoProfile

(* A write of the mandate keeps what there is of its copies.               *)
LEMMA MandateWritten ==
  ASSUME mandate \in MandateRow, FollowInv, onboardings <= 1,
         NEW new \in MandateRow, NEW reaffirmed, NEW others,
         SetMandate(new, reaffirmed, others),
         \A e \in others : e.type \notin MandateEventTypes,
         mandate.version < new.version,
         UNCHANGED <<compliance, workflow>>
  PROVE  /\ Numbered(announced', MandateEventTypes, mandate')
         /\ CopyOK(announced', MandateEventTypes, {"status", "mode"}, mandate', compliance')
         /\ CopyOK(announced', WorkflowTypes, {"mode"}, mandate', workflow')
<1>1. /\ mandate' = new /\ mandate.version \in Int /\ new.version \in Int
      /\ mandate.version >= 0
  BY DEF SetMandate, MandateRow, Versions
<1>2. WorkflowTypes \subseteq MandateEventTypes
  BY DEF WorkflowTypes, MandateEventTypes, ComplianceTypes
<1> DEFINE events == MandateEvents(mandate, new, reaffirmed)
           C == {e \in events : e.type \in MandateEventTypes}
           W == {e \in events : e.type \in WorkflowTypes}
<1>3. /\ Of(announced', MandateEventTypes) = Of(announced, MandateEventTypes) \union C
      /\ \A e \in C : e.image = new
  BY MandateAnnounced
<1>4. /\ Of(announced', WorkflowTypes) = Of(announced, WorkflowTypes) \union W
      /\ \A e \in W : e.image = new
  BY <1>2, MandateAnnounced
<1>5. /\ Numbered(announced, MandateEventTypes, mandate)
      /\ CopyOK(announced, MandateEventTypes, {"status", "mode"}, mandate, compliance)
      /\ CopyOK(announced, WorkflowTypes, {"mode"}, mandate, workflow)
  BY DEF FollowInv
<1>6. C # {} \/ (mandate.version > 0 /\ Agrees({"status", "mode"}, mandate, new))
  <2>1. CASE mandate.version = 0
    <3>1. [type |-> "MANDATE_ISSUED", image |-> new] \in C
      BY <2>1 DEF MandateEvents, MandateEventTypes, ComplianceTypes
    <3> QED
      BY <3>1
  <2>2. CASE mandate.version > 0 /\ mandate.status # new.status
    <3>1. [type |-> "MANDATE_REVOKED", image |-> new] \in C
      BY <2>2 DEF MandateEvents, MandateEventTypes, ComplianceTypes
    <3> QED
      BY <3>1
  <2>3. CASE mandate.version > 0 /\ mandate.mode # new.mode
    <3>1. [type |-> "OPERATING_MODE_CHANGED", image |-> new] \in C
      BY <2>3 DEF MandateEvents, MandateEventTypes, ComplianceTypes
    <3> QED
      BY <3>1
  <2>4. CASE mandate.version > 0 /\ mandate.status = new.status /\ mandate.mode = new.mode
    BY <2>4 DEF Agrees
  <2> QED
    BY <1>1, <2>1, <2>2, <2>3, <2>4
<1>7. W # {} \/ (mandate.version > 0 /\ Agrees({"mode"}, mandate, new))
  <2>1. CASE mandate.version = 0
    <3>1. [type |-> "MANDATE_ISSUED", image |-> new] \in W
      BY <2>1 DEF MandateEvents, WorkflowTypes
    <3> QED
      BY <3>1
  <2>2. CASE mandate.version > 0 /\ mandate.mode # new.mode
    <3>1. [type |-> "OPERATING_MODE_CHANGED", image |-> new] \in W
      BY <2>2 DEF MandateEvents, WorkflowTypes
    <3> QED
      BY <3>1
  <2>3. CASE mandate.version > 0 /\ mandate.mode = new.mode
    BY <2>3 DEF Agrees
  <2> QED
    BY <1>1, <2>1, <2>2, <2>3
<1>8. \A types : types \subseteq MandateEventTypes =>
        \A e \in Of(announced, types) :
          e.image.version \in Int /\ e.image.version <= mandate.version
  BY <1>5 DEF Numbered, Of
<1> HIDE DEF C, W
<1>9. Numbered(announced', MandateEventTypes, new)
  BY <1>1, <1>3, <1>5, WriteNumbered
<1>10. CopyOK(announced', MandateEventTypes, {"status", "mode"}, new, compliance)
  <2>1. \A e \in Of(announced, MandateEventTypes) :
          e.image.version \in Int /\ e.image.version <= mandate.version
    BY <1>8
  <2> QED
    BY <1>1, <1>3, <1>5, <1>6, <2>1, WriteFollows
<1>11. CopyOK(announced', WorkflowTypes, {"mode"}, new, workflow)
  <2>1. \A e \in Of(announced, WorkflowTypes) :
          e.image.version \in Int /\ e.image.version <= mandate.version
    BY <1>2, <1>8
  <2> QED
    BY <1>1, <1>4, <1>5, <1>7, <2>1, WriteFollows
<1> QED
  BY <1>1, <1>9, <1>10, <1>11

(* A write of the profile announces the new row.                           *)
LEMMA ProfileWritten ==
  ASSUME profile \in ProfileRow, profile' \in ProfileRow, FollowInv, onboardings <= 1,
         profile.version < profile'.version,
         Of(announced', ProfileTypes)
           = Of(announced, ProfileTypes) \union {ProfileEvent(profile')},
         UNCHANGED dashboard
  PROVE  /\ Numbered(announced', ProfileTypes, profile')
         /\ CopyOK(announced', ProfileTypes, {"executionMode"}, profile', dashboard')
<1> DEFINE N == {ProfileEvent(profile')}
           events == announced'
           new == profile'
<1>1. /\ profile.version \in Int /\ new.version \in Int /\ profile.version >= 0
      /\ \A e \in N : e.image = new
      /\ N # {} /\ profile.version < new.version
  BY DEF ProfileRow, Versions, ProfileEvent
<1>2. /\ Numbered(announced, ProfileTypes, profile)
      /\ CopyOK(announced, ProfileTypes, {"executionMode"}, profile, dashboard)
      /\ Of(events, ProfileTypes) = Of(announced, ProfileTypes) \union N
  BY DEF FollowInv
<1> HIDE DEF N, events, new
<1>3. Numbered(events, ProfileTypes, new)
  BY <1>1, <1>2, WriteNumbered
<1>4. \A e \in Of(announced, ProfileTypes) :
        e.image.version \in Int /\ e.image.version <= profile.version
  BY <1>2 DEF Numbered
<1>5. CopyOK(events, ProfileTypes, {"executionMode"}, new, dashboard)
  BY <1>1, <1>2, <1>4, WriteFollows
<1> QED
  BY <1>3, <1>5 DEF events, new

(* The announcement of another write is none of these types.               *)
LEMMA Disjoint ==
  /\ ProfileTypes \cap MandateEventTypes = {}
  /\ ModeTypes \cap MandateEventTypes = {}
  /\ WorkflowTypes \subseteq MandateEventTypes
BY DEF ProfileTypes, ModeTypes, WorkflowTypes, MandateEventTypes, ComplianceTypes

(* Every step keeps it: a write by the lemmas above, a delivery by taking  *)
(* an image.                                                               *)
LEMMA FollowStep == TypeInv /\ LastWord /\ FollowInv /\ [Next]_vars => FollowInv'
<1> SUFFICES ASSUME TypeInv, LastWord, FollowInv, [Next]_vars, onboardings' <= 1
             PROVE  FollowInv'
  BY DEF FollowInv
<1> USE MandateAssumption
<1>0. /\ mandate \in MandateRow /\ mandate' \in MandateRow
      /\ profile \in ProfileRow /\ profile' \in ProfileRow
      /\ mandate.version \in Int /\ mandate.version >= 0
      /\ profile.version \in Int /\ profile.version >= 0
      /\ onboardings \in Nat
  BY TypePreserved DEF TypeInv, TypeOK, MandateRow, ProfileRow, Versions
<1>1. CASE OnboardingCompleted
  <2>1. onboardings = 0 /\ onboardings' = 1
    BY <1>0, <1>1 DEF OnboardingCompleted
  <2>2. mandate = NoMandate /\ profile = NoProfile
    BY <2>1 DEF LastWord
  <2> DEFINE new == [version |-> 1, status |-> "ACTIVE", mode |-> FirstMode]
             others == {ProfileEvent(profile')}
  <2>3. SetMandate(new, TRUE, others) /\ UNCHANGED copyVars
    BY <1>1 DEF OnboardingCompleted
  <2>4. profile' = [version |-> 1, executionMode |-> "simulation"]
    BY <1>1 DEF OnboardingCompleted
  <2>5. \A e \in others : e.type \notin MandateEventTypes
    BY OtherTypes DEF ProfileEvent
  <2>6. /\ Of(others, ProfileTypes) = {ProfileEvent(profile')}
        /\ Of(others, ModeTypes) = {}
    BY DEF Of, ProfileEvent, ProfileTypes, ModeTypes
  <2>7. new \in MandateRow /\ mandate.version = 0 /\ new.version = 1 /\ mandate' = new
    BY <1>0, <2>2, <2>3 DEF SetMandate, NoMandate
  <2> HIDE DEF new, others
  <2>8. /\ Numbered(announced', MandateEventTypes, mandate')
        /\ CopyOK(announced', MandateEventTypes, {"status", "mode"}, mandate', compliance')
        /\ CopyOK(announced', WorkflowTypes, {"mode"}, mandate', workflow')
    <3>1. onboardings <= 1 /\ mandate.version < new.version /\ UNCHANGED <<compliance, workflow>>
      BY <2>1, <2>3, <2>7 DEF copyVars
    <3>2. PICK reaffirmed : SetMandate(new, reaffirmed, others)
      BY <2>3
    <3> QED
      BY <1>0, <2>5, <2>7, <3>1, <3>2, MandateWritten
  <2>9. /\ Of(announced', ProfileTypes) = Of(announced, ProfileTypes) \union {ProfileEvent(profile')}
        /\ Of(announced', ModeTypes) = Of(announced, ModeTypes)
    <3>1. PICK reaffirmed : SetMandate(new, reaffirmed, others)
      BY <2>3
    <3>2. /\ Of(announced', ProfileTypes) = Of(announced, ProfileTypes) \union Of(others, ProfileTypes)
          /\ Of(announced', ModeTypes) = Of(announced, ModeTypes) \union Of(others, ModeTypes)
      BY <3>1, OtherAnnounced, Disjoint
    <3> QED
      BY <2>6, <3>2
  <2>10. /\ Numbered(announced', ProfileTypes, profile')
         /\ CopyOK(announced', ProfileTypes, {"executionMode"}, profile', dashboard')
    BY <1>0, <2>1, <2>2, <2>3, <2>4, <2>9, ProfileWritten DEF NoProfile, copyVars
  <2>11. ModeOK'
    BY <2>1, <2>2, <2>3, <2>4, <2>9 DEF FollowInv, ModeOK, NoProfile, copyVars
  <2> QED
    BY <2>4, <2>7, <2>8, <2>10, <2>11 DEF FollowInv
<1>2. ASSUME NEW new \in MandateRow, NEW reaffirmed, NEW others,
             SetMandate(new, reaffirmed, others), UNCHANGED <<onboardings, copyVars>>,
             IsActive, new.version = mandate.version + 1,
             \A e \in others : e.type \notin MandateEventTypes,
             \/ profile' = profile /\ Of(others, ProfileTypes) = {}
             \/ /\ profile'.version = profile.version + 1
                /\ Of(others, ProfileTypes) = {ProfileEvent(profile')},
             \/ profile'.executionMode = profile.executionMode /\ Of(others, ModeTypes) = {}
             \/ profile'.executionMode = "live" /\ Of(others, ModeTypes) # {}
      PROVE  FollowInv'
  <2>1. /\ Numbered(announced', MandateEventTypes, mandate')
        /\ CopyOK(announced', MandateEventTypes, {"status", "mode"}, mandate', compliance')
        /\ CopyOK(announced', WorkflowTypes, {"mode"}, mandate', workflow')
    BY <1>0, <1>2, MandateWritten DEF copyVars
  <2>2. /\ Of(announced', ProfileTypes) = Of(announced, ProfileTypes) \union Of(others, ProfileTypes)
        /\ Of(announced', ModeTypes) = Of(announced, ModeTypes) \union Of(others, ModeTypes)
    BY <1>2, OtherAnnounced, Disjoint
  <2>3. /\ Numbered(announced', ProfileTypes, profile')
        /\ CopyOK(announced', ProfileTypes, {"executionMode"}, profile', dashboard')
    <3>1. CASE profile' = profile /\ Of(others, ProfileTypes) = {}
      BY <1>2, <2>2, <3>1 DEF FollowInv, Numbered, CopyOK, copyVars
    <3>2. CASE /\ profile'.version = profile.version + 1
               /\ Of(others, ProfileTypes) = {ProfileEvent(profile')}
      BY <1>0, <1>2, <2>2, <3>2, ProfileWritten DEF copyVars
    <3> QED
      BY <1>2, <3>1, <3>2
  <2>4. ModeOK'
    BY <1>2, <2>2 DEF FollowInv, ModeOK, copyVars
  <2>5. mandate' = new /\ new.version > 0 /\ (profile.version > 0 => profile'.version > 0)
    BY <1>0, <1>2 DEF SetMandate
  <2> QED
    BY <1>2, <2>1, <2>3, <2>4, <2>5 DEF FollowInv
<1>3. CASE RevokeMandate
  <2> DEFINE new == [Bump(mandate) EXCEPT !.status = "REVOKED"]
  <2>1. /\ SetMandate(new, FALSE, {}) /\ IsActive /\ UNCHANGED <<onboardings, copyVars>>
        /\ profile' = profile
    BY <1>3 DEF RevokeMandate
  <2>2. new = [version |-> mandate.version + 1, status |-> "REVOKED", mode |-> mandate.mode]
    BY <1>0, BumpMandate
  <2>3. new \in MandateRow /\ new.version = mandate.version + 1
    BY <1>0, <2>1, <2>2 DEF SetMandate
  <2>4. Of({}, ProfileTypes) = {} /\ Of({}, ModeTypes) = {}
    BY DEF Of
  <2> HIDE DEF new
  <2> QED
    BY <1>2, <2>1, <2>3, <2>4
<1>4. ASSUME NEW mode \in Modes, UpdateOperatingMode(mode) PROVE FollowInv'
  <2> DEFINE new == [Bump(mandate) EXCEPT !.mode = mode]
             others == {ProfileEvent(profile')}
  <2>1. /\ SetMandate(new, FALSE, others) /\ IsActive /\ UNCHANGED <<onboardings, copyVars>>
        /\ profile' = Bump(profile)
    BY <1>4 DEF UpdateOperatingMode
  <2>2. new = [version |-> mandate.version + 1, status |-> mandate.status, mode |-> mode]
    BY <1>0, BumpMandate
  <2>3. new \in MandateRow /\ new.version = mandate.version + 1
    BY <1>0, <2>1, <2>2 DEF SetMandate
  <2>4. /\ profile'.version = profile.version + 1
        /\ profile'.executionMode = profile.executionMode
    BY <1>0, <2>1 DEF Bump, ProfileRow
  <2>5. /\ \A e \in others : e.type \notin MandateEventTypes
        /\ Of(others, ProfileTypes) = {ProfileEvent(profile')}
        /\ Of(others, ModeTypes) = {}
    BY OtherTypes DEF ProfileEvent, Of, ProfileTypes, ModeTypes
  <2> HIDE DEF new, others
  <2> QED
    BY <1>2, <2>1, <2>3, <2>4, <2>5
<1>5. CASE ConfirmGoLive
  <2> DEFINE new == Bump(mandate)
             change == [type |-> "EXECUTION_MODE_CHANGED", from |-> "simulation", to |-> "live"]
             others == {ProfileEvent(profile'), change}
  <2>1. /\ SetMandate(new, TRUE, others) /\ IsActive /\ UNCHANGED <<onboardings, copyVars>>
        /\ profile' = [Bump(profile) EXCEPT !.executionMode = "live"]
    BY <1>5 DEF ConfirmGoLive
  <2>2. new = [version |-> mandate.version + 1, status |-> mandate.status,
               mode |-> mandate.mode]
    BY <1>0, BumpMandate
  <2>3. new \in MandateRow /\ new.version = mandate.version + 1
    BY <1>0, <2>1, <2>2 DEF SetMandate
  <2>4. profile'.version = profile.version + 1 /\ profile'.executionMode = "live"
    BY <1>0, <2>1 DEF Bump, ProfileRow
  <2>5. /\ \A e \in others : e.type \notin MandateEventTypes
        /\ Of(others, ProfileTypes) = {ProfileEvent(profile')}
        /\ change \in Of(others, ModeTypes)
    BY OtherTypes DEF ProfileEvent, Of, ProfileTypes, ModeTypes
  <2>6. Of(others, ModeTypes) # {}
    BY <2>5
  <2> HIDE DEF new, others
  <2> QED
    BY <1>2, <2>1, <2>3, <2>4, <2>5, <2>6
<1>6. CASE UpdateProfile
  <2>1. /\ announced' = announced \union {ProfileEvent(profile')}
        /\ UNCHANGED <<mandate, onboardings, copyVars>>
        /\ profile' = Bump(profile)
    BY <1>6 DEF UpdateProfile
  <2>2. /\ profile'.version = profile.version + 1
        /\ profile'.executionMode = profile.executionMode
    BY <1>0, <2>1 DEF Bump, ProfileRow
  <2>3. ProfileEvent(profile').type = "INVESTOR_PROFILE_UPDATED"
    BY DEF ProfileEvent
  <2>4. /\ Of(announced', ProfileTypes) = Of(announced, ProfileTypes) \union {ProfileEvent(profile')}
        /\ Of(announced', ModeTypes) = Of(announced, ModeTypes)
        /\ Of(announced', MandateEventTypes) = Of(announced, MandateEventTypes)
        /\ Of(announced', WorkflowTypes) = Of(announced, WorkflowTypes)
    BY <2>1, <2>3 DEF Of, ProfileTypes, ModeTypes, MandateEventTypes, ComplianceTypes,
       WorkflowTypes
  <2>5. /\ Numbered(announced', ProfileTypes, profile')
        /\ CopyOK(announced', ProfileTypes, {"executionMode"}, profile', dashboard')
    <3>1. /\ onboardings <= 1 /\ dashboard' = dashboard
          /\ profile.version < profile'.version
      BY <1>0, <2>1, <2>2 DEF copyVars
    <3> QED
      BY <1>0, <2>4, <3>1, ProfileWritten
  <2>6. /\ Numbered(announced', MandateEventTypes, mandate')
        /\ CopyOK(announced', MandateEventTypes, {"status", "mode"}, mandate', compliance')
        /\ CopyOK(announced', WorkflowTypes, {"mode"}, mandate', workflow')
    <3>1. /\ mandate' = mandate /\ compliance' = compliance /\ workflow' = workflow
          /\ onboardings <= 1
      BY <2>1 DEF copyVars
    <3>2. \A types, r, fields, c :
            Of(announced', types) = Of(announced, types) =>
              /\ Numbered(announced, types, r) => Numbered(announced', types, r)
              /\ CopyOK(announced, types, fields, r, c) => CopyOK(announced', types, fields, r, c)
      BY DEF Numbered, CopyOK
    <3> QED
      BY <2>4, <3>1, <3>2 DEF FollowInv
  <2>7. ModeOK'
    BY <2>1, <2>2, <2>4 DEF FollowInv, ModeOK, copyVars
  <2> QED
    BY <1>0, <2>1, <2>2, <2>5, <2>6, <2>7 DEF FollowInv
<1>7. ASSUME NEW e \in announced, Deliver(e) PROVE FollowInv'
  <2>1. /\ UNCHANGED rowVars
        /\ mandate' = mandate /\ profile' = profile /\ announced' = announced
        /\ onboardings' = onboardings
    BY <1>7 DEF Deliver, ProjectCompliance, ProjectWorkflow, ProjectDashboard, CacheMode,
       rowVars
  <2>2. CopyOK(announced', MandateEventTypes, {"status", "mode"}, mandate', compliance')
    <3>1. CASE compliance' = compliance
      BY <2>1, <3>1 DEF FollowInv
    <3>2. CASE e \in Of(announced, MandateEventTypes) /\ compliance' = e.image
      BY <2>1, <3>2, TakenFollows DEF FollowInv
    <3> QED
      BY <1>7, <3>1, <3>2 DEF Deliver, ProjectCompliance, ProjectWorkflow,
         ProjectDashboard, CacheMode, MandateEventTypes, Of
  <2>3. CopyOK(announced', WorkflowTypes, {"mode"}, mandate', workflow')
    <3>1. CASE workflow' = workflow
      BY <2>1, <3>1 DEF FollowInv
    <3>2. CASE e \in Of(announced, WorkflowTypes) /\ workflow' = e.image
      BY <2>1, <3>2, TakenFollows DEF FollowInv
    <3> QED
      BY <1>7, <3>1, <3>2 DEF Deliver, ProjectCompliance, ProjectWorkflow,
         ProjectDashboard, CacheMode, WorkflowTypes, Of
  <2>4. CopyOK(announced', ProfileTypes, {"executionMode"}, profile', dashboard')
    <3>1. CASE dashboard' = dashboard
      BY <2>1, <3>1 DEF FollowInv
    <3>2. CASE e \in Of(announced, ProfileTypes) /\ dashboard' = e.image
      BY <2>1, <3>2, TakenFollows DEF FollowInv
    <3> QED
      BY <1>7, <3>1, <3>2 DEF Deliver, ProjectCompliance, ProjectWorkflow,
         ProjectDashboard, CacheMode, ProfileTypes, Of
  <2>5. ModeOK'
    <3>1. brokerMode' = brokerMode \/ e \in Of(announced, ModeTypes)
      BY <1>7 DEF Deliver, ProjectCompliance, ProjectWorkflow, ProjectDashboard,
         CacheMode, ModeTypes, Of
    <3> QED
      BY <2>1, <3>1 DEF FollowInv, ModeOK
  <2> QED
    BY <2>1, <2>2, <2>3, <2>4, <2>5 DEF FollowInv
<1>8. CASE UNCHANGED vars
  BY <1>8 DEF vars, rowVars, copyVars, FollowInv, Numbered, CopyOK, ModeOK, Of
<1> QED
  BY <1>1, <1>3, <1>4, <1>5, <1>6, <1>7, <1>8 DEF Next

(* A copy that no image would overwrite has the newest one, which agrees   *)
(* with the row.                                                           *)
LEMMA FollowImplies == TypeInv /\ FollowInv => CopiesFollow
<1> SUFFICES ASSUME TypeInv, FollowInv, onboardings = 1 PROVE CopiesFollow
  BY DEF CopiesFollow
<1>1. \/ compliance.status = mandate.status /\ compliance.mode = mandate.mode
      \/ \E e \in announced : e.type \in ComplianceTypes /\ Overwrites(compliance, e.image)
  <2> SUFFICES ASSUME \A e \in Of(announced, MandateEventTypes) :
                        ~(compliance.version < e.image.version)
               PROVE  compliance.status = mandate.status /\ compliance.mode = mandate.mode
    BY DEF Of, Overwrites, MandateEventTypes
  <2>1. Agrees({"status", "mode"}, compliance, mandate)
    BY CopyAgrees DEF FollowInv, Numbered
  <2> QED
    BY <2>1 DEF Agrees
<1>2. \/ workflow.mode = mandate.mode
      \/ \E e \in announced : e.type \in WorkflowTypes /\ Overwrites(workflow, e.image)
  <2> SUFFICES ASSUME \A e \in Of(announced, WorkflowTypes) :
                        ~(workflow.version < e.image.version)
               PROVE  workflow.mode = mandate.mode
    BY DEF Of, Overwrites
  <2>1. Of(announced, WorkflowTypes) \subseteq Of(announced, MandateEventTypes)
    BY Disjoint DEF Of
  <2>2. Agrees({"mode"}, workflow, mandate)
    BY <2>1, CopyAgrees DEF FollowInv, Numbered
  <2> QED
    BY <2>2 DEF Agrees
<1>3. \/ dashboard.executionMode = profile.executionMode
      \/ \E e \in announced : e.type \in ProfileTypes /\ Overwrites(dashboard, e.image)
  <2> SUFFICES ASSUME \A e \in Of(announced, ProfileTypes) :
                        ~(dashboard.version < e.image.version)
               PROVE  dashboard.executionMode = profile.executionMode
    BY DEF Of, Overwrites
  <2>1. Agrees({"executionMode"}, dashboard, profile)
    BY CopyAgrees DEF FollowInv, Numbered
  <2> QED
    BY <2>1 DEF Agrees
<1>4. \/ profile.executionMode = IF brokerMode = "none" THEN "simulation" ELSE brokerMode
      \/ brokerMode = "none" /\ \E e \in announced : e.type \in ModeTypes
  BY DEF FollowInv, ModeOK, Of, TypeInv, TypeOK, ProfileRow
<1> QED
  BY <1>1, <1>2, <1>3, <1>4 DEF CopiesFollow

(* No change of a mandate, an operating mode or an execution mode is lost  *)
(* to a service that keeps a copy of it: after one onboarding each copy    *)
(* agrees with its row, or an image is on its way that its version guard   *)
(* lets in. This is what MandateSettles and ModesAgree need beyond the     *)
(* fairness of the deliveries.                                             *)
THEOREM MandateCopiesFollow == Spec => []CopiesFollow
<1>1. Init => FollowInv
  BY InitFollow
<1>2. IInv /\ FollowInv /\ [Next]_vars => FollowInv'
  BY FollowStep DEF IInv
<1>3. IInv /\ FollowInv => CopiesFollow
  BY FollowImplies DEF IInv
<1>4. IInv /\ [Next]_vars => IInv'
  BY TypePreserved, LastWordPreserved DEF IInv
<1> QED
  BY <1>1, <1>2, <1>3, <1>4, InitInductive, PTL DEF Spec
=============================================================================
