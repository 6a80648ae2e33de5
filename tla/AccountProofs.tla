---------------------------- MODULE AccountProofs ----------------------------
(***************************************************************************)
(* Proofs about the account: about Onboarding for any number of concurrent *)
(* calls, any drafts, any state of the answers to begin with and any       *)
(* quotas, and about Access for any number of concurrent requests, codes   *)
(* and tokens, and any bounds on what may happen.                          *)
(***************************************************************************)
EXTENDS Onboarding, Access, FiniteSetTheorems, TLAPS

-------------------------------------------------------------------------------
(* What every save does, whichever the screen.                             *)

Saves(overwritten, given) ==
    /\ facts' = (facts \ overwritten) \cup given
    /\ filled' = (filled \ overwritten) \cup (given \cap Lists)
    /\ kyc' = TRUE
    /\ quota' = quota \/ Spend("save")
    /\ UNCHANGED <<row, draft, submittedAt, rejection, call, decided, crashed>>

SaveStep == \E overwritten, given \in SUBSET Fact : Saves(overwritten, given)

LEMMA SaveSaves ==
    \A screens : \A overwritten, given \in SUBSET Fact : Save(screens, overwritten, given) => SaveStep
<1> SUFFICES ASSUME NEW screens, NEW overwritten \in SUBSET Fact, NEW given \in SUBSET Fact,
                    Save(screens, overwritten, given)
             PROVE  Saves(overwritten, given)
  BY DEF SaveStep
<1>1. quota' = quota \/ Spend("save")
  BY DEF Save
<1> QED
  BY <1>1 DEF Save, Saves

LEMMA ReplaceSaves ==
    \A screens : \A always, optional \in SUBSET Fact : Replace(screens, always, optional) => SaveStep
<1> SUFFICES ASSUME NEW screens, NEW always \in SUBSET Fact, NEW optional \in SUBSET Fact,
                    Replace(screens, always, optional)
             PROVE  SaveStep
  OBVIOUS
<1>1. PICK extra \in SUBSET optional :
         \E given \in SUBSET (always \cup extra) : Save(screens, always \cup extra, given)
  BY DEF Replace
<1>2. PICK given \in SUBSET (always \cup extra) : Save(screens, always \cup extra, given)
  BY <1>1
<1>3. always \cup extra \in SUBSET Fact /\ given \in SUBSET Fact
  OBVIOUS
<1> QED
  BY <1>2, <1>3, SaveSaves

LEMMA AddSaves ==
    \A screens : \A always, optional \in SUBSET Fact : Add(screens, always, optional) => SaveStep
<1> SUFFICES ASSUME NEW screens, NEW always \in SUBSET Fact, NEW optional \in SUBSET Fact,
                    Add(screens, always, optional)
             PROVE  SaveStep
  OBVIOUS
<1>1. PICK given \in SUBSET optional : Save(screens, {}, always \cup given)
  BY DEF Add
<1>2. always \cup given \in SUBSET Fact
  BY <1>1
<1> QED
  BY <1>1, <1>2, SaveSaves

LEMMA AnswerSaves == Answer => SaveStep
<1> USE DEF Fact, Lists
<1>1. AcceptTerms => SaveStep
  BY AddSaves DEF AcceptTerms
<1>2. SaveBasicDetails => SaveStep
  BY AddSaves DEF SaveBasicDetails
<1>3. UpdateBasic => SaveStep
  BY ReplaceSaves DEF UpdateBasic
<1>4. UpdateBio => SaveStep
  BY ReplaceSaves DEF UpdateBio
<1>5. UpdateInterests => SaveStep
  BY ReplaceSaves DEF UpdateInterests
<1>6. UpdateCategories => SaveStep
  BY AddSaves DEF UpdateCategories
<1>7. UpdateLanguages => SaveStep
  BY ReplaceSaves DEF UpdateLanguages
<1>8. UpdatePhoto => SaveStep
  BY ReplaceSaves DEF UpdatePhoto
<1>9. UpdatePhotos => SaveStep
  BY ReplaceSaves DEF UpdatePhotos
<1>10. UpdateWorkPreference => SaveStep
  BY ReplaceSaves DEF UpdateWorkPreference
<1>11. UpdateServiceAreas => SaveStep
  BY ReplaceSaves DEF UpdateServiceAreas
<1>12. UpdateCommActivity => SaveStep
  BY ReplaceSaves DEF UpdateCommActivity
<1>13. UpdateVenues => SaveStep
  BY ReplaceSaves DEF UpdateVenues
<1>14. UpdateBoundaries => SaveStep
  BY ReplaceSaves DEF UpdateBoundaries
<1>15. UpdateGovernmentIdType => SaveStep
  BY AddSaves DEF UpdateGovernmentIdType
<1>16. SubmitGovernmentId => SaveStep
  BY AddSaves DEF SubmitGovernmentId
<1>17. SubmitSelfie => SaveStep
  BY AddSaves DEF SubmitSelfie
<1>18. SaveAddress => SaveStep
  BY AddSaves DEF SaveAddress
<1>19. SavePan => SaveStep
  BY ReplaceSaves DEF SavePan
<1>20. SaveUpi \/ SaveEmergencyContact => SaveStep
  BY SaveSaves DEF SaveUpi, SaveEmergencyContact
<1>21. SaveBank \/ UpdateBankDetails => SaveStep
  BY SaveSaves DEF SaveBank, UpdateBankDetails
<1>22. SetupBulk => SaveStep
  BY ReplaceSaves DEF SetupBulk
<1>23. SaveDeclaration => SaveStep
  <2> SUFFICES ASSUME NEW given \in SUBSET {"consents", "eligible"},
                      Save({"eligibility", "declaration"}, {"consents", "eligible"}, {"agreed"} \cup given)
               PROVE  SaveStep
    BY DEF SaveDeclaration
  <2>1. {"agreed"} \cup given \in SUBSET Fact /\ {"consents", "eligible"} \in SUBSET Fact
    OBVIOUS
  <2> QED
    BY <2>1, SaveSaves
<1>24. UpdatePricing => SaveStep
  BY SaveSaves DEF UpdatePricing
<1>25. VerifyBank => SaveStep
  BY SaveSaves DEF VerifyBank
<1> QED
  BY <1>1, <1>2, <1>3, <1>4, <1>5, <1>6, <1>7, <1>8, <1>9, <1>10, <1>11, <1>12, <1>13, <1>14, <1>15,
     <1>16, <1>17, <1>18, <1>19, <1>20, <1>21, <1>22, <1>23, <1>24, <1>25
  DEF Answer

-------------------------------------------------------------------------------
(* The types *)

(* A call's row when it moves on.                                          *)
LEMMA CallTyped ==
    /\ Idle \in CallRow
    /\ \A c \in CallRow, pc \in Step :
          /\ [c EXCEPT !.pc = pc] \in CallRow
          /\ \A lists \in SUBSET Lists : [c EXCEPT !.pc = pc, !.todo = lists] \in CallRow
    /\ \A pc \in Step :
          /\ \A d \in Drafts \cup {{}} : [Idle EXCEPT !.pc = pc, !.draft = d] \in CallRow
          /\ \A b \in BOOLEAN : [Idle EXCEPT !.pc = pc, !.approve = b] \in CallRow
<1>1. Idle \in CallRow
  BY DEF Idle, CallRow, Step
<1>2. ASSUME NEW c \in CallRow, NEW pc \in Step PROVE [c EXCEPT !.pc = pc] \in CallRow
  BY DEF CallRow
<1>3. ASSUME NEW c \in CallRow, NEW pc \in Step, NEW lists \in SUBSET Lists
      PROVE  [c EXCEPT !.pc = pc, !.todo = lists] \in CallRow
  BY DEF CallRow
<1>4. ASSUME NEW pc \in Step, NEW d \in Drafts \cup {{}} PROVE [Idle EXCEPT !.pc = pc, !.draft = d] \in CallRow
  BY <1>1 DEF CallRow
<1>5. ASSUME NEW pc \in Step, NEW b \in BOOLEAN PROVE [Idle EXCEPT !.pc = pc, !.approve = b] \in CallRow
  BY <1>1 DEF CallRow
<1> QED
  BY <1>1, <1>2, <1>3, <1>4, <1>5

(* Each call's own step.                                                   *)
CallActs(c) ==
    \/ SaveDraft(c) \/ StoreDraft(c)
    \/ SubmitRead(c) \/ SubmitStamp(c) \/ SubmitClear(c) \/ SubmitFill(c) \/ SubmitFinish(c)
    \/ ResubmitKyc(c) \/ ResubmitFinish(c)
    \/ SubmitForReview(c) \/ ReviewStatus(c) \/ ReviewDate(c)
    \/ UpdateVerificationDecision(c) \/ DecisionReason(c)
    \/ OnboardingFail(c) \/ SwallowError(c)

LEMMA OnboardingSteps == OnboardingNext => GetOnboardingStatus \/ SaveStep \/ \E c \in Call : CallActs(c)
BY AnswerSaves DEF OnboardingNext, CallActs

LEMMA OnboardingTypeInit == OnboardingInit => OnboardingTypeOK
<1> SUFFICES ASSUME OnboardingInit PROVE OnboardingTypeOK
  OBVIOUS
<1>1. facts \in SUBSET Fact /\ quota \in [Activity -> Nat]
  BY OnboardingAssumption DEF OnboardingInit
<1>2. kyc \in BOOLEAN /\ submittedAt \in BOOLEAN /\ rejection \in BOOLEAN /\ crashed \in BOOLEAN
  BY DEF OnboardingInit
<1>3. call \in [Call -> CallRow]
  BY CallTyped DEF OnboardingInit
<1> QED
  BY <1>1, <1>2, <1>3 DEF OnboardingInit, OnboardingTypeOK, ProfileStatus, VerificationStatus

LEMMA Spent ==
    ASSUME OnboardingTypeOK, NEW activity \in Activity, Spend(activity)
    PROVE  quota' \in [Activity -> Nat]
BY DEF OnboardingTypeOK, Spend

LEMMA CallsTyped ==
    ASSUME OnboardingTypeOK, NEW c \in Call
    PROVE  /\ End(c) => call' \in [Call -> CallRow]
           /\ \A pc \in Step : Goto(c, pc) => call' \in [Call -> CallRow]
           /\ \A new \in CallRow : call' = [call EXCEPT ![c] = new] => call' \in [Call -> CallRow]
           /\ \A pc \in Step, lists \in SUBSET Lists :
                 call' = [call EXCEPT ![c].pc = pc, ![c].todo = lists] => call' \in [Call -> CallRow]
<1>1. call \in [Call -> CallRow] /\ call[c] \in CallRow
  BY DEF OnboardingTypeOK
<1>2. ASSUME NEW new \in CallRow, call' = [call EXCEPT ![c] = new] PROVE call' \in [Call -> CallRow]
  BY <1>1, <1>2
<1>3. End(c) => call' \in [Call -> CallRow]
  BY <1>2, CallTyped DEF End
<1>4. ASSUME NEW pc \in Step, Goto(c, pc) PROVE call' \in [Call -> CallRow]
  <2>1. [call[c] EXCEPT !.pc = pc] \in CallRow
    BY <1>1, CallTyped
  <2>2. call' = [call EXCEPT ![c] = [call[c] EXCEPT !.pc = pc]]
    BY <1>4 DEF Goto
  <2> QED
    BY <1>2, <2>1, <2>2
<1>5. ASSUME NEW pc \in Step, NEW lists \in SUBSET Lists, call' = [call EXCEPT ![c].pc = pc, ![c].todo = lists]
      PROVE  call' \in [Call -> CallRow]
  <2>1. [call[c] EXCEPT !.pc = pc, !.todo = lists] \in CallRow
    BY <1>1, CallTyped
  <2>2. call' = [call EXCEPT ![c] = [call[c] EXCEPT !.pc = pc, !.todo = lists]]
    BY <1>1, <1>5
  <2> QED
    BY <1>2, <2>1, <2>2
<1> QED
  BY <1>2, <1>3, <1>4, <1>5

(* The lists a call still has to replace.                                  *)
LEMMA NextListKnown == \A lists \in SUBSET Lists : lists # {} => NextList(lists) \in lists
BY DEF NextList, Lists

LEMMA OnboardingTypeNext == OnboardingTypeOK /\ [OnboardingNext]_onboardingVars => OnboardingTypeOK'
<1> SUFFICES ASSUME OnboardingTypeOK, [OnboardingNext]_onboardingVars PROVE OnboardingTypeOK'
  OBVIOUS
<1> USE DEF row, kycRow, history
<1>0. CASE UNCHANGED onboardingVars
  BY <1>0 DEF onboardingVars, OnboardingTypeOK
<1>1. CASE GetOnboardingStatus
  BY <1>1 DEF GetOnboardingStatus, OnboardingTypeOK
<1>2. CASE SaveStep
  <2>1. PICK overwritten \in SUBSET Fact, given \in SUBSET Fact : Saves(overwritten, given)
    BY <1>2 DEF SaveStep
  <2>2. quota' \in [Activity -> Nat]
    BY <2>1, Spent DEF Saves, Activity, OnboardingTypeOK
  <2>3. facts' \in SUBSET Fact /\ filled' \in SUBSET Lists
    BY <2>1 DEF Saves, OnboardingTypeOK
  <2> QED
    BY <2>1, <2>2, <2>3 DEF Saves, OnboardingTypeOK
<1>3. ASSUME NEW c \in Call, CallActs(c) PROVE OnboardingTypeOK'
  <2> USE DEF OnboardingTypeOK, Activity
  <2>a. call[c] \in CallRow /\ call[c].draft \in Drafts \cup {{}} /\ call[c].todo \in SUBSET Lists
    BY DEF CallRow
  <2>1. CASE SaveDraft(c)
    <3>1. PICK d \in Drafts : call' = [call EXCEPT ![c] = [Idle EXCEPT !.pc = "store", !.draft = d]]
      BY <2>1 DEF SaveDraft
    <3>2. [Idle EXCEPT !.pc = "store", !.draft = d] \in CallRow
      BY CallTyped DEF Step
    <3>3. call' \in [Call -> CallRow]
      BY <3>1, <3>2, CallsTyped
    <3> QED
      BY <2>1, <3>3, Spent DEF SaveDraft, ProfileStatus
  <2>2. CASE StoreDraft(c)
    <3>1. call' \in [Call -> CallRow]
      BY <2>2, CallsTyped DEF StoreDraft
    <3>2. draft' \in Drafts \cup {{}}
      BY <2>2, <2>a DEF StoreDraft
    <3> QED
      BY <2>2, <3>1, <3>2 DEF StoreDraft
  <2>3. CASE SubmitRead(c)
    <3>1. [Idle EXCEPT !.pc = "stamp", !.draft = draft] \in CallRow
      BY CallTyped DEF Step
    <3>2. call' \in [Call -> CallRow]
      BY <2>3, <3>1, CallsTyped DEF SubmitRead
    <3> QED
      BY <2>3, <3>2, Spent DEF SubmitRead
  <2>4. CASE SubmitStamp(c)
    <3> DEFINE lists == call[c].draft \cap Lists
               next == IF lists = {} THEN "finish" ELSE "clear"
    <3>1. lists \in SUBSET Lists /\ next \in Step
      BY DEF Step
    <3>2. call' = [call EXCEPT ![c].pc = next, ![c].todo = lists]
      BY <2>4 DEF SubmitStamp
    <3> HIDE DEF lists, next
    <3>3. call' \in [Call -> CallRow]
      BY <3>1, <3>2, CallsTyped
    <3> QED
      BY <2>4, <3>3 DEF SubmitStamp
  <2>5. CASE SubmitClear(c)
    <3>1. call' \in [Call -> CallRow]
      BY <2>5, CallsTyped DEF SubmitClear, Step
    <3> QED
      BY <2>5, <3>1 DEF SubmitClear
  <2>6. CASE SubmitFill(c)
    <3> DEFINE list == NextList(call[c].todo)
               rest == IF Unwritable(list, call[c].draft) THEN {} ELSE call[c].todo \ {list}
               next == IF rest = {} THEN "finish" ELSE "clear"
    <3>1. rest \in SUBSET Lists /\ next \in Step
      BY <2>a DEF Step
    <3>2. call' = [call EXCEPT ![c].pc = next, ![c].todo = rest]
      BY <2>6 DEF SubmitFill
    <3>3. list \in Fact
      BY DEF NextList, Fact, Lists
    <3>4. facts' \in SUBSET Fact
      BY <2>6, <3>3 DEF SubmitFill
    <3> HIDE DEF list, rest, next
    <3>5. call' \in [Call -> CallRow]
      BY <3>1, <3>2, CallsTyped
    <3> QED
      BY <2>6, <3>4, <3>5 DEF SubmitFill
  <2>7. CASE SubmitFinish(c)
    <3>1. call' \in [Call -> CallRow]
      BY <2>7, CallsTyped DEF SubmitFinish
    <3>2. facts' \in SUBSET Fact
      BY <2>7 DEF SubmitFinish, Fact
    <3> QED
      BY <2>7, <3>1, <3>2 DEF SubmitFinish, ProfileStatus, VerificationStatus
  <2>8. CASE ResubmitKyc(c)
    <3>1. call' \in [Call -> CallRow]
      BY <2>8, CallsTyped DEF ResubmitKyc, Step
    <3> QED
      BY <2>8, <3>1, Spent DEF ResubmitKyc
  <2>9. CASE ResubmitFinish(c)
    BY <2>9, CallsTyped DEF ResubmitFinish, ProfileStatus, VerificationStatus
  <2>10. CASE SubmitForReview(c)
    <3>1. call' \in [Call -> CallRow]
      BY <2>10, CallsTyped DEF SubmitForReview, Step
    <3> QED
      BY <2>10, <3>1, Spent DEF SubmitForReview
  <2>11. CASE ReviewStatus(c)
    <3>1. call' \in [Call -> CallRow]
      BY <2>11, CallsTyped DEF ReviewStatus, Step
    <3> QED
      BY <2>11, <3>1 DEF ReviewStatus, ProfileStatus, VerificationStatus
  <2>12. CASE ReviewDate(c)
    BY <2>12, CallsTyped DEF ReviewDate
  <2>13. CASE UpdateVerificationDecision(c)
    <3>1. PICK d \in Decision :
             /\ verificationStatus' = d
             /\ profileStatus' = IF d = "approved" THEN "published" ELSE "draft"
             /\ call' = [call EXCEPT ![c] = [Idle EXCEPT !.pc = "reason", !.approve = (d = "approved")]]
             /\ decided' = IF \E o \in Call : call[o].pc \in Submitting THEN "open" ELSE d
      BY <2>13 DEF UpdateVerificationDecision
    <3>2. [Idle EXCEPT !.pc = "reason", !.approve = (d = "approved")] \in CallRow
      <4>1. (d = "approved") \in BOOLEAN
        OBVIOUS
      <4> QED
        BY <4>1, CallTyped DEF Step
    <3>3. call' \in [Call -> CallRow]
      BY <3>1, <3>2, CallsTyped
    <3>4. decided' \in Decision \cup {"open"}
      BY <3>1
    <3>5. verificationStatus' \in VerificationStatus /\ profileStatus' \in ProfileStatus
      BY <3>1 DEF Decision, VerificationStatus, ProfileStatus
    <3> QED
      BY <2>13, <3>3, <3>4, <3>5, Spent DEF UpdateVerificationDecision
  <2>14. CASE DecisionReason(c)
    <3>1. rejection' \in BOOLEAN
      BY <2>14 DEF DecisionReason
    <3> QED
      BY <2>14, <3>1, CallsTyped DEF DecisionReason
  <2>15. CASE OnboardingFail(c)
    <3>1. call' \in [Call -> CallRow]
      BY <2>15, CallsTyped DEF OnboardingFail
    <3> QED
      BY <2>15, <3>1, Spent DEF OnboardingFail
  <2>16. CASE SwallowError(c)
    <3>1. call' \in [Call -> CallRow]
      BY <2>16, CallsTyped DEF SwallowError, Step
    <3> QED
      BY <2>16, <3>1, Spent DEF SwallowError
  <2> HIDE DEF OnboardingTypeOK
  <2> QED
    BY <1>3, <2>1, <2>2, <2>3, <2>4, <2>5, <2>6, <2>7, <2>8, <2>9, <2>10, <2>11, <2>12, <2>13, <2>14,
       <2>15, <2>16 DEF CallActs
<1> QED
  BY <1>0, <1>1, <1>2, <1>3, OnboardingSteps

(* The rows and the calls have the types the handlers give them.           *)
THEOREM OnboardingTyped == OnboardingSpec => []OnboardingTypeOK
BY OnboardingTypeInit, OnboardingTypeNext, PTL DEF OnboardingSpec

-------------------------------------------------------------------------------
(* Decisions *)

(* The rows of the calls after one has moved.                              *)
LEMMA CallMoves ==
    ASSUME OnboardingTypeOK, NEW c \in Call
    PROVE  /\ \A new : call' = [call EXCEPT ![c] = new] =>
                 call'[c] = new /\ \A o \in Call \ {c} : call'[o] = call[o]
           /\ End(c) => call'[c].pc = "idle" /\ \A o \in Call \ {c} : call'[o] = call[o]
           /\ \A pc \in Step : Goto(c, pc) =>
                 /\ call'[c].pc = pc /\ call'[c].draft = call[c].draft /\ call'[c].todo = call[c].todo
                 /\ \A o \in Call \ {c} : call'[o] = call[o]
<1>1. call \in [Call -> CallRow] /\ call[c] \in CallRow
  BY DEF OnboardingTypeOK
<1>2. ASSUME NEW new, call' = [call EXCEPT ![c] = new]
      PROVE  call'[c] = new /\ \A o \in Call \ {c} : call'[o] = call[o]
  BY <1>1, <1>2
<1>3. ASSUME End(c) PROVE call'[c].pc = "idle" /\ \A o \in Call \ {c} : call'[o] = call[o]
  <2>1. call'[c] = Idle /\ \A o \in Call \ {c} : call'[o] = call[o]
    BY <1>2, <1>3 DEF End
  <2> QED
    BY <2>1 DEF Idle
<1>4. ASSUME NEW pc \in Step, Goto(c, pc)
      PROVE  /\ call'[c].pc = pc /\ call'[c].draft = call[c].draft /\ call'[c].todo = call[c].todo
             /\ \A o \in Call \ {c} : call'[o] = call[o]
  <2>1. call' = [call EXCEPT ![c] = [call[c] EXCEPT !.pc = pc]]
    BY <1>4 DEF Goto
  <2>2. call'[c] = [call[c] EXCEPT !.pc = pc] /\ \A o \in Call \ {c} : call'[o] = call[o]
    BY <1>2, <2>1
  <2> QED
    BY <1>1, <2>2 DEF CallRow
<1> QED
  BY <1>2, <1>3, <1>4

LEMMA CallReplaces ==
    ASSUME OnboardingTypeOK, NEW c \in Call, NEW pc \in Step, NEW lists \in SUBSET Lists,
           call' = [call EXCEPT ![c].pc = pc, ![c].todo = lists]
    PROVE  call'[c].pc = pc /\ call'[c].todo = lists /\ \A o \in Call \ {c} : call'[o] = call[o]
<1>1. call \in [Call -> CallRow] /\ call[c] \in CallRow
  BY DEF OnboardingTypeOK
<1>2. call' = [call EXCEPT ![c] = [call[c] EXCEPT !.pc = pc, !.todo = lists]]
  BY <1>1
<1>3. call'[c] = [call[c] EXCEPT !.pc = pc, !.todo = lists] /\ \A o \in Call \ {c} : call'[o] = call[o]
  BY <1>1, <1>2
<1> QED
  BY <1>1, <1>3 DEF CallRow

(* Where the handlers that give the call's row more than a step go.        *)
LEMMA CallGoes ==
    ASSUME OnboardingTypeOK, NEW c \in Call
    PROVE  /\ SaveDraft(c) => call'[c].pc = "store" /\ \A o \in Call \ {c} : call'[o] = call[o]
           /\ SubmitRead(c) => call'[c].pc = "stamp" /\ \A o \in Call \ {c} : call'[o] = call[o]
           /\ UpdateVerificationDecision(c) => call'[c].pc = "reason" /\ \A o \in Call \ {c} : call'[o] = call[o]
<1>1. ASSUME SaveDraft(c) PROVE call'[c].pc = "store" /\ \A o \in Call \ {c} : call'[o] = call[o]
  <2>1. PICK d \in Drafts : call' = [call EXCEPT ![c] = [Idle EXCEPT !.pc = "store", !.draft = d]]
    BY <1>1 DEF SaveDraft
  <2>2. [Idle EXCEPT !.pc = "store", !.draft = d].pc = "store"
    BY DEF Idle
  <2> QED
    BY <2>1, <2>2, CallMoves
<1>2. ASSUME SubmitRead(c) PROVE call'[c].pc = "stamp" /\ \A o \in Call \ {c} : call'[o] = call[o]
  <2>1. [Idle EXCEPT !.pc = "stamp", !.draft = draft].pc = "stamp"
    BY DEF Idle
  <2> QED
    BY <1>2, <2>1, CallMoves DEF SubmitRead
<1>3. ASSUME UpdateVerificationDecision(c)
      PROVE  call'[c].pc = "reason" /\ \A o \in Call \ {c} : call'[o] = call[o]
  <2>1. PICK d \in Decision :
           call' = [call EXCEPT ![c] = [Idle EXCEPT !.pc = "reason", !.approve = (d = "approved")]]
    BY <1>3 DEF UpdateVerificationDecision
  <2>2. [Idle EXCEPT !.pc = "reason", !.approve = (d = "approved")].pc = "reason"
    BY DEF Idle
  <2> QED
    BY <2>1, <2>2, CallMoves
<1> QED
  BY <1>1, <1>2, <1>3

LEMMA StampGoes ==
    ASSUME OnboardingTypeOK, NEW c \in Call, SubmitStamp(c)
    PROVE  /\ call'[c].pc \in {"clear", "finish"}
           /\ call'[c].pc = "clear" => call'[c].todo # {}
           /\ \A o \in Call \ {c} : call'[o] = call[o]
<1> DEFINE lists == call[c].draft \cap Lists
           next == IF lists = {} THEN "finish" ELSE "clear"
<1>1. lists \in SUBSET Lists /\ next \in Step
  BY DEF Step
<1>2. next \in {"clear", "finish"} /\ (next = "clear" => lists # {})
  <2>1. CASE lists = {}
    BY <2>1
  <2>2. CASE lists # {}
    BY <2>2
  <2> QED
    BY <2>1, <2>2
<1>3. call' = [call EXCEPT ![c].pc = next, ![c].todo = lists]
  BY DEF SubmitStamp
<1>4. ASSUME NEW l \in SUBSET Lists, NEW n \in Step, call' = [call EXCEPT ![c].pc = n, ![c].todo = l]
      PROVE  call'[c].pc = n /\ call'[c].todo = l /\ \A o \in Call \ {c} : call'[o] = call[o]
  BY <1>4, CallReplaces
<1> HIDE DEF lists, next
<1> QED
  BY <1>1, <1>2, <1>3, <1>4

(* What a step makes of the statuses: it writes none, or only takes the    *)
(* profile off; it begins a submission, goes on with one, or brings one to *)
(* the admin backend; or it is the decision.                               *)
Leaves(c) ==
    /\ call[c].pc \notin Submitting \/ crashed'
    /\ call'[c].pc \notin Submitting
    /\ UNCHANGED <<verificationStatus, decided>>
    /\ profileStatus' \in {profileStatus, "draft"}
    /\ crashed => crashed'

Begins(c) ==
    /\ call'[c].pc \in Submitting
    /\ decided' = "open"
    /\ UNCHANGED <<row, crashed>>

GoesOn(c) ==
    /\ call[c].pc \in Submitting
    /\ call'[c].pc \in Submitting
    /\ UNCHANGED <<row, decided>>

Arrives(c) ==
    /\ call[c].pc \in Submitting
    /\ verificationStatus' = "pending_review"
    /\ UNCHANGED decided

Decides(c) ==
    /\ call[c].pc = "idle"
    /\ call'[c].pc = "reason"
    /\ \E d \in Decision :
          /\ verificationStatus' = d
          /\ profileStatus' = IF d = "approved" THEN "published" ELSE "draft"
          /\ decided' = IF \E o \in Call : call[o].pc \in Submitting THEN "open" ELSE d

LEMMA CallKinds ==
    ASSUME OnboardingTypeOK, NEW c \in Call, CallActs(c)
    PROVE  /\ \A o \in Call \ {c} : call'[o] = call[o]
           /\ Leaves(c) \/ Begins(c) \/ GoesOn(c) \/ Arrives(c) \/ Decides(c)
<1> DEFINE Others == \A o \in Call \ {c} : call'[o] = call[o]
<1> USE DEF row, history, Submitting
<1>a. call[c] \in CallRow
  BY DEF OnboardingTypeOK
<1>1. ASSUME SaveDraft(c) PROVE Others /\ Leaves(c)
  BY <1>1, CallGoes DEF SaveDraft, Leaves
<1>2. ASSUME StoreDraft(c) \/ ReviewDate(c) \/ DecisionReason(c) \/ OnboardingFail(c) PROVE Others /\ Leaves(c)
  <2>1. Others /\ call'[c].pc = "idle"
    BY <1>2, CallMoves DEF StoreDraft, ReviewDate, DecisionReason, OnboardingFail
  <2> QED
    BY <1>2, <2>1 DEF StoreDraft, ReviewDate, DecisionReason, OnboardingFail, Leaves
<1>3. ASSUME SubmitRead(c) PROVE Others /\ Begins(c)
  BY <1>3, CallGoes DEF SubmitRead, Begins
<1>4. ASSUME ResubmitKyc(c) PROVE Others /\ Begins(c)
  <2>1. Others /\ call'[c].pc = "resubmit"
    BY <1>4, CallMoves DEF ResubmitKyc, Step
  <2> QED
    BY <1>4, <2>1 DEF ResubmitKyc, Begins
<1>5. ASSUME SubmitForReview(c) PROVE Others /\ Begins(c)
  <2>1. Others /\ call'[c].pc = "review"
    BY <1>5, CallMoves DEF SubmitForReview, Step
  <2> QED
    BY <1>5, <2>1 DEF SubmitForReview, Begins
<1>6. ASSUME SubmitStamp(c) PROVE Others /\ GoesOn(c)
  BY <1>6, StampGoes DEF SubmitStamp, GoesOn
<1>7. ASSUME SubmitClear(c) PROVE Others /\ GoesOn(c)
  <2>1. Others /\ call'[c].pc = "fill"
    BY <1>7, CallMoves DEF SubmitClear, Step
  <2> QED
    BY <1>7, <2>1 DEF SubmitClear, GoesOn
<1>8. ASSUME SubmitFill(c) PROVE Others /\ GoesOn(c)
  <2> DEFINE list == NextList(call[c].todo)
             rest == IF Unwritable(list, call[c].draft) THEN {} ELSE call[c].todo \ {list}
             next == IF rest = {} THEN "finish" ELSE "clear"
  <2>1. rest \in SUBSET Lists /\ next \in Step /\ next \in Submitting
    BY <1>a DEF Step, CallRow
  <2>2. call' = [call EXCEPT ![c].pc = next, ![c].todo = rest]
    BY <1>8 DEF SubmitFill
  <2> HIDE DEF list, rest, next
  <2>3. Others /\ call'[c].pc = next
    BY <2>1, <2>2, CallReplaces
  <2> QED
    BY <1>8, <2>1, <2>3 DEF SubmitFill, GoesOn
<1>9. ASSUME SwallowError(c) PROVE Others /\ GoesOn(c)
  <2>1. call' = [call EXCEPT ![c].pc = "finish", ![c].todo = {}]
    BY <1>9 DEF SwallowError
  <2>2. "finish" \in Step /\ {} \in SUBSET Lists
    BY DEF Step
  <2>3. Others /\ call'[c].pc = "finish"
    BY <2>1, <2>2, CallReplaces
  <2> QED
    BY <1>9, <2>3 DEF SwallowError, GoesOn
<1>10. ASSUME SubmitFinish(c) \/ ResubmitFinish(c) PROVE Others /\ Arrives(c)
  <2>1. Others
    BY <1>10, CallMoves DEF SubmitFinish, ResubmitFinish
  <2> QED
    BY <1>10, <2>1 DEF SubmitFinish, ResubmitFinish, Arrives
<1>11. ASSUME ReviewStatus(c) PROVE Others /\ Arrives(c)
  <2>1. Others
    BY <1>11, CallMoves DEF ReviewStatus, Step
  <2> QED
    BY <1>11, <2>1 DEF ReviewStatus, Arrives
<1>12. ASSUME UpdateVerificationDecision(c) PROVE Others /\ Decides(c)
  BY <1>12, CallGoes DEF UpdateVerificationDecision, Decides
<1> QED
  BY <1>1, <1>2, <1>3, <1>4, <1>5, <1>6, <1>7, <1>8, <1>9, <1>10, <1>11, <1>12 DEF CallActs

Waiting == \E c \in Call : call[c].pc \in Submitting

(* A decision is on record only while no submission is under way.          *)
DecisionKnown ==
    decided # "open" =>
        /\ ~Waiting
        /\ verificationStatus = decided
        /\ profileStatus \in IF decided = "approved" THEN {"published", "draft"} ELSE {"draft"}

(* An approval that is not on record any more is about to be overwritten.  *)
ApprovalKnown == verificationStatus = "approved" => decided = "approved" \/ crashed \/ Waiting

(* While an approval stands, the profile is published or drafted anew.     *)
ApprovalShown == verificationStatus = "approved" => profileStatus \in {"published", "draft"}

DecisionInv == OnboardingTypeOK /\ DecisionKnown /\ ApprovalKnown /\ ApprovalShown

LEMMA DecisionInvInit == OnboardingInit => DecisionInv
BY OnboardingTypeInit DEF OnboardingInit, DecisionInv, DecisionKnown, ApprovalKnown, ApprovalShown

LEMMA DecisionInvNext == DecisionInv /\ [OnboardingNext]_onboardingVars => DecisionInv'
<1> SUFFICES ASSUME DecisionInv, [OnboardingNext]_onboardingVars PROVE DecisionKnown' /\ ApprovalKnown' /\ ApprovalShown'
  BY OnboardingTypeNext DEF DecisionInv
<1> USE DEF DecisionInv, DecisionKnown, ApprovalKnown, ApprovalShown, row
<1>1. CASE UNCHANGED <<row, call, decided, crashed>>
  BY <1>1 DEF Waiting
<1>2. UNCHANGED onboardingVars \/ GetOnboardingStatus \/ SaveStep => UNCHANGED <<row, call, decided, crashed>>
  BY DEF onboardingVars, history, GetOnboardingStatus, SaveStep, Saves
<1>3. ASSUME NEW c \in Call, CallActs(c) PROVE DecisionKnown' /\ ApprovalKnown' /\ ApprovalShown'
  <2>0. OnboardingTypeOK /\ \A o \in Call \ {c} : call'[o] = call[o]
    BY <1>3, CallKinds
  <2>1. CASE Leaves(c)
    <3>1. Waiting' => Waiting
      BY <2>0, <2>1 DEF Waiting, Leaves
    <3>2. Waiting => Waiting' \/ crashed'
      BY <2>0, <2>1 DEF Waiting, Leaves
    <3> QED
      BY <2>1, <3>1, <3>2 DEF Leaves
  <2>2. CASE Begins(c)
    <3>1. Waiting'
      BY <2>2 DEF Waiting, Begins
    <3> QED
      BY <2>2, <3>1 DEF Begins
  <2>3. CASE GoesOn(c)
    <3>1. Waiting /\ Waiting'
      BY <2>3 DEF Waiting, GoesOn
    <3> QED
      BY <2>3, <3>1 DEF GoesOn
  <2>4. CASE Arrives(c)
    <3>1. Waiting
      BY <2>4 DEF Waiting, Arrives
    <3> QED
      BY <2>4, <3>1 DEF Arrives
  <2>5. CASE Decides(c)
    <3>1. Waiting' <=> Waiting
      BY <2>0, <2>5 DEF Waiting, Decides, Submitting
    <3>2. PICK d \in Decision :
             /\ verificationStatus' = d
             /\ profileStatus' = IF d = "approved" THEN "published" ELSE "draft"
             /\ decided' = IF Waiting THEN "open" ELSE d
      BY <2>5 DEF Decides, Waiting
    <3> QED
      BY <3>1, <3>2 DEF Decision
  <2> QED
    BY <1>3, CallKinds, <2>1, <2>2, <2>3, <2>4, <2>5
<1> QED
  BY <1>1, <1>2, <1>3, OnboardingSteps

(* Submissions under way account for every approval that is not the admin  *)
(* backend's last word, and for every decision not on record, through all  *)
(* steps of the submission and decision handlers.                          *)
THEOREM DecisionInvariant == OnboardingSpec => []DecisionInv
BY DecisionInvInit, DecisionInvNext, PTL DEF OnboardingSpec

(* What the admin backend decided stands until the next submission.        *)
THEOREM DecisionsStand == OnboardingSpec => []DecisionStands
<1>1. DecisionInv => DecisionStands
  BY DEF DecisionInv, DecisionKnown, DecisionStands
<1> QED
  BY <1>1, DecisionInvariant, PTL

-------------------------------------------------------------------------------
(* Lists lost *)

(* A call that replaces lists still has one to replace.                    *)
ReplacingKnown == \A c \in Call : call[c].pc \in {"clear", "fill"} => call[c].todo # {}

LossInv == OnboardingTypeOK /\ ReplacingKnown /\ LossNeedsUnwritable

LEMMA LossInvInit == OnboardingInit => LossInv
BY OnboardingTypeInit DEF OnboardingInit, LossInv, ReplacingKnown, LossNeedsUnwritable, Idle

(* A step that loses no list, and ends no filling.                         *)
LEMMA NothingLost ==
    ASSUME LossInv, NEW c \in Call, filled' \ facts' \subseteq filled \ facts, crashed => crashed',
           call[c].pc # "fill", \A o \in Call \ {c} : call'[o] = call[o],
           call'[c].pc \in {"clear", "fill"} => call'[c].todo # {}
    PROVE  ReplacingKnown' /\ LossNeedsUnwritable'
<1>1. ReplacingKnown'
  BY DEF LossInv, ReplacingKnown
<1>2. LossNeedsUnwritable'
  <2> SUFFICES ASSUME NEW list \in filled' \ facts',
                      ~crashed', list # "languages",
                      ~(list = "categories" /\ \E d \in Drafts : "unknown_category" \in d)
               PROVE  \E o \in Call : call'[o].pc = "fill" /\ NextList(call'[o].todo) = list
    BY DEF LossNeedsUnwritable
  <2>1. PICK o \in Call : call[o].pc = "fill" /\ NextList(call[o].todo) = list
    BY DEF LossInv, LossNeedsUnwritable
  <2> QED
    BY <2>1
<1> QED
  BY <1>1, <1>2

LEMMA LossInvNext == LossInv /\ [OnboardingNext]_onboardingVars => LossInv'
<1> SUFFICES ASSUME LossInv, [OnboardingNext]_onboardingVars PROVE ReplacingKnown' /\ LossNeedsUnwritable'
  BY OnboardingTypeNext DEF LossInv
<1> USE DEF row, kycRow, history
<1>1. CASE UNCHANGED <<facts, filled, call, crashed>>
  BY <1>1 DEF LossInv, ReplacingKnown, LossNeedsUnwritable
<1>2. CASE SaveStep
  <2>1. PICK overwritten \in SUBSET Fact, given \in SUBSET Fact : Saves(overwritten, given)
    BY <1>2 DEF SaveStep
  <2>2. filled' \ facts' \subseteq filled \ facts
    BY <2>1 DEF Saves
  <2> QED
    BY <2>1, <2>2 DEF Saves, LossInv, ReplacingKnown, LossNeedsUnwritable
<1>3. UNCHANGED onboardingVars \/ GetOnboardingStatus => UNCHANGED <<facts, filled, call, crashed>>
  BY DEF onboardingVars, GetOnboardingStatus
<1>4. ASSUME NEW c \in Call, CallActs(c) PROVE ReplacingKnown' /\ LossNeedsUnwritable'
  <2>0. OnboardingTypeOK /\ call[c] \in CallRow /\ call[c].todo \in SUBSET Lists
        /\ call[c].draft \in Drafts \cup {{}}
    BY DEF LossInv, OnboardingTypeOK, CallRow
  <2>a. \A o \in Call \ {c} : call'[o] = call[o]
    BY <1>4, <2>0, CallKinds
  <2>1. CASE SaveDraft(c) \/ StoreDraft(c) \/ SubmitRead(c) \/ SubmitStamp(c) \/ SubmitFinish(c) \/ ResubmitKyc(c)
             \/ ResubmitFinish(c) \/ SubmitForReview(c) \/ ReviewStatus(c) \/ ReviewDate(c)
             \/ UpdateVerificationDecision(c) \/ DecisionReason(c)
    <3>1. call[c].pc # "fill" /\ crashed' = crashed
      BY <2>1 DEF SaveDraft, StoreDraft, SubmitRead, SubmitStamp, SubmitFinish, ResubmitKyc, ResubmitFinish,
                  SubmitForReview, ReviewStatus, ReviewDate, UpdateVerificationDecision, DecisionReason
    <3>2. filled' \ facts' \subseteq filled \ facts
      <4>1. CASE SubmitFinish(c)
        <5>1. "bio" \notin filled
          BY <2>0 DEF OnboardingTypeOK, Lists
        <5> QED
          BY <4>1, <5>1 DEF SubmitFinish
      <4>2. CASE UNCHANGED <<facts, filled>>
        BY <4>2
      <4> QED
        BY <2>1, <4>1, <4>2
        DEF SaveDraft, StoreDraft, SubmitRead, SubmitStamp, ResubmitKyc, ResubmitFinish,
            SubmitForReview, ReviewStatus, ReviewDate, UpdateVerificationDecision, DecisionReason
    <3>3. call'[c].pc \in {"clear", "fill"} => call'[c].todo # {}
      <4>1. CASE SubmitStamp(c)
        BY <2>0, <4>1, StampGoes
      <4>2. CASE SaveDraft(c) \/ SubmitRead(c) \/ UpdateVerificationDecision(c)
        BY <2>0, <4>2, CallGoes
      <4>3. CASE StoreDraft(c) \/ SubmitFinish(c) \/ ResubmitFinish(c) \/ ReviewDate(c) \/ DecisionReason(c)
        <5>1. call'[c].pc = "idle"
          BY <2>0, <4>3, CallMoves DEF StoreDraft, SubmitFinish, ResubmitFinish, ReviewDate, DecisionReason
        <5> QED
          BY <5>1
      <4>4. CASE ResubmitKyc(c) \/ SubmitForReview(c) \/ ReviewStatus(c)
        <5>1. call'[c].pc \in {"resubmit", "review", "date"}
          BY <2>0, <4>4, CallMoves DEF ResubmitKyc, SubmitForReview, ReviewStatus, Step
        <5> QED
          BY <5>1
      <4> QED
        BY <2>1, <4>1, <4>2, <4>3, <4>4
    <3> QED
      BY <2>a, <3>1, <3>2, <3>3, NothingLost
  <2>2. CASE SubmitClear(c)
    <3>1. call[c].todo # {} /\ NextList(call[c].todo) \in Lists
      BY <2>0, <2>2, NextListKnown DEF SubmitClear, LossInv, ReplacingKnown
    <3>2. call'[c].pc = "fill" /\ call'[c].todo = call[c].todo
      BY <2>0, <2>2, CallMoves DEF SubmitClear, Step
    <3>3. /\ facts' = facts \ {NextList(call[c].todo)}
          /\ filled' = filled /\ crashed' = crashed
          /\ call[c].pc = "clear"
      BY <2>2 DEF SubmitClear
    <3>4. ReplacingKnown'
      BY <2>a, <3>1, <3>2 DEF LossInv, ReplacingKnown
    <3>5. LossNeedsUnwritable'
      BY <2>a, <3>2, <3>3 DEF LossInv, LossNeedsUnwritable
    <3> QED
      BY <3>4, <3>5
  <2>3. CASE SubmitFill(c)
    <3> DEFINE list == NextList(call[c].todo)
               rest == IF Unwritable(list, call[c].draft) THEN {} ELSE call[c].todo \ {list}
               next == IF rest = {} THEN "finish" ELSE "clear"
    <3>1. rest \in SUBSET Lists /\ next \in Step /\ next # "fill" /\ (rest = {} => next = "finish")
      BY <2>0 DEF Step
    <3>2. call' = [call EXCEPT ![c].pc = next, ![c].todo = rest]
      BY <2>3 DEF SubmitFill
    <3>3. /\ facts' = IF Unwritable(list, call[c].draft) THEN facts ELSE facts \cup {list}
          /\ filled' = filled /\ crashed' = crashed
      BY <2>3 DEF SubmitFill
    <3>4. Unwritable(list, call[c].draft) =>
             list = "languages" \/ (list = "categories" /\ \E d \in Drafts : "unknown_category" \in d)
      BY <2>0 DEF Unwritable
    <3> HIDE DEF rest, next
    <3>5. call'[c].pc = next /\ call'[c].todo = rest
      BY <2>0, <3>1, <3>2, CallReplaces
    <3>6. ReplacingKnown'
      BY <2>a, <3>1, <3>5 DEF LossInv, ReplacingKnown
    <3>7. LossNeedsUnwritable'
      BY <2>a, <3>3, <3>4 DEF LossInv, LossNeedsUnwritable
    <3> QED
      BY <3>6, <3>7
  <2>4. CASE OnboardingFail(c)
    <3>1. call'[c].pc = "idle" /\ crashed'
      BY <2>0, <2>4, CallMoves DEF OnboardingFail
    <3> QED
      BY <2>a, <3>1 DEF LossInv, ReplacingKnown, LossNeedsUnwritable
  <2>5. CASE SwallowError(c)
    <3>1. call' = [call EXCEPT ![c].pc = "finish", ![c].todo = {}] /\ crashed'
      BY <2>5 DEF SwallowError
    <3>2. "finish" \in Step /\ {} \in SUBSET Lists
      BY DEF Step
    <3>3. call'[c].pc = "finish"
      BY <2>0, <3>1, <3>2, CallReplaces
    <3> QED
      BY <2>a, <3>1, <3>3 DEF LossInv, ReplacingKnown, LossNeedsUnwritable
  <2> QED
    BY <1>4, <2>1, <2>2, <2>3, <2>4, <2>5 DEF CallActs
<1> QED
  BY <1>1, <1>2, <1>3, <1>4, OnboardingSteps

(* A list is lost only to a failure or to a draft that cannot be written.  *)
THEOREM ListsAreKept == OnboardingSpec => []LossNeedsUnwritable
<1>1. LossInv => LossNeedsUnwritable
  BY DEF LossInv
<1> QED
  BY <1>1, LossInvInit, LossInvNext, PTL DEF OnboardingSpec

-------------------------------------------------------------------------------
(* Access                                                                  *)

(* A counter of a table goes up.                                           *)
LEMMA Counted ==
    ASSUME NEW S, NEW f \in [S -> Nat], NEW x
    PROVE  [f EXCEPT ![x] = @ + 1] \in [S -> Nat]
<1>1. CASE x \in S
  BY <1>1
<1>2. CASE x \notin S
  BY <1>2
<1> QED
  BY <1>1, <1>2

USE AccessAssumption DEF Code, Token

-------------------------------------------------------------------------------
(* The types *)

(* What a request becomes is a row of its kind.                            *)
LEMMA RequestTyped ==
    /\ NoRequest \in RequestRow
    /\ \A was \in RequestRow, pc \in RequestStep :
          /\ [was EXCEPT !.pc = pc] \in RequestRow
          /\ \A o \in Code : [was EXCEPT !.pc = pc, !.code = o] \in RequestRow
          /\ \A t \in Token : [was EXCEPT !.pc = pc, !.token = t] \in RequestRow
    /\ \A was \in RequestRow : [was EXCEPT !.early = @ \/ was.pc # "idle"] \in RequestRow
<1>1. NoRequest \in RequestRow
  BY DEF NoRequest, RequestRow, RequestStep
<1>2. ASSUME NEW was \in RequestRow, NEW pc \in RequestStep
      PROVE  /\ [was EXCEPT !.pc = pc] \in RequestRow
             /\ \A o \in Code : [was EXCEPT !.pc = pc, !.code = o] \in RequestRow
             /\ \A t \in Token : [was EXCEPT !.pc = pc, !.token = t] \in RequestRow
  <2>1. [was EXCEPT !.pc = pc] \in RequestRow
    BY DEF RequestRow
  <2>2. ASSUME NEW o \in Code PROVE [was EXCEPT !.pc = pc, !.code = o] \in RequestRow
    <3>1. o \in 0 .. MaxCode
      OBVIOUS
    <3> QED
      BY <3>1 DEF RequestRow
  <2>3. ASSUME NEW t \in Token PROVE [was EXCEPT !.pc = pc, !.token = t] \in RequestRow
    <3>1. t \in 0 .. MaxToken
      OBVIOUS
    <3> QED
      BY <3>1 DEF RequestRow
  <2> QED
    BY <2>1, <2>2, <2>3
<1>3. ASSUME NEW was \in RequestRow PROVE [was EXCEPT !.early = @ \/ was.pc # "idle"] \in RequestRow
  <2> DEFINE b == was.early \/ was.pc # "idle"
  <2>1. b \in BOOLEAN
    OBVIOUS
  <2>2. ASSUME NEW e \in BOOLEAN PROVE [was EXCEPT !.early = e] \in RequestRow
    BY DEF RequestRow
  <2> HIDE DEF b
  <2>3. [was EXCEPT !.early = b] \in RequestRow
    BY <2>1, <2>2
  <2> QED
    BY <2>3 DEF b
<1> QED
  BY <1>1, <1>2, <1>3

LEMMA AccessTypeInit == AccessInit => AccessTypeOK
<1> SUFFICES ASSUME AccessInit PROVE AccessTypeOK
  OBVIOUS
<1>1. deletedAt \in BOOLEAN /\ closed \in BOOLEAN /\ cut \in BOOLEAN
  BY DEF AccessInit
<1>2. req \in [Request -> RequestRow]
  BY RequestTyped DEF AccessInit
<1>3. attempts \in [Code -> Nat] /\ heirs \in [Token -> Nat] /\ late \in SUBSET Token
  BY DEF AccessInit
<1>4. token \in [Token -> {"unused", "live", "revoked"}]
  BY DEF AccessInit
<1>5. allowance \in [AccessActivity -> Nat]
  BY DEF AccessInit
<1> QED
  BY <1>1, <1>2, <1>3, <1>4, <1>5 DEF AccessInit, AccessTypeOK

LEMMA CloseTypes ==
    ASSUME AccessTypeOK, NEW status \in {"suspended", "deleted", "gone"}, NEW r \in Request,
           NEW pc \in {"idle", "revoke"}, Close(status, r, pc)
    PROVE  /\ account' \in {"active", "suspended", "deleted", "gone"}
           /\ closed' \in BOOLEAN
           /\ req' \in [Request -> RequestRow]
<1>1. [NoRequest EXCEPT !.pc = pc] \in RequestRow
  BY RequestTyped DEF RequestStep
<1>2. \A o \in Request : [req[o] EXCEPT !.early = @ \/ req[o].pc # "idle"] \in RequestRow
  BY RequestTyped DEF AccessTypeOK
<1> QED
  BY <1>1, <1>2 DEF Close

(* The steps an authenticated request begins with.                         *)
Admitted == {"logout", "deactivate", "reactivate", "delete", "erase", "set_pin", "change_pin", "issue"}

(* Each request's own step.                                                *)
RequestActs(r) ==
    \/ SendOtp(r) \/ StoreCode(r) \/ VerifyOtp(r) \/ WrongGuess(r) \/ RightGuess(r) \/ GenerateTokens(r)
    \/ RefreshToken(r) \/ ConsumeToken(r)
    \/ \E activity \in {"account", "pin"}, pc \in Admitted : Authenticate(r, activity, pc)
    \/ Logout(r) \/ SetPin(r) \/ ChangePin(r)
    \/ DeactivateAccount(r) \/ ReactivateAccount(r) \/ DeleteAccount(r) \/ RevokeTokens(r) \/ EraseAccount(r)
    \/ Ban(r) \/ Unban(r) \/ AccessFault(r)

LEMMA AccessSteps == AccessNext => \/ \E o \in Code : CodeExpires(o)
                                   \/ \E r \in Request : RequestActs(r)
BY DEF AccessNext, RequestActs, VerifyPin, Admitted

LEMMA AccessTypeNext == AccessTypeOK /\ [AccessNext]_accessVars => AccessTypeOK'
<1> SUFFICES ASSUME AccessTypeOK, [AccessNext]_accessVars PROVE AccessTypeOK'
  OBVIOUS
<1> USE DEF AccessTypeOK
<1>0. CASE UNCHANGED accessVars
  BY <1>0 DEF accessVars, accountVars, codeVars, accessHistory
<1>1. ASSUME NEW o \in Code, CodeExpires(o) PROVE AccessTypeOK'
  BY <1>1 DEF CodeExpires, accountVars, codeVars, accessHistory
<1>a. ASSUME NEW r \in Request, RequestActs(r) PROVE AccessTypeOK'
  <2> USE DEF accountVars, codeVars, accessHistory
  <2>1. ASSUME NEW activity \in AccessActivity, Allow(activity) PROVE allowance' \in [AccessActivity -> Nat]
    BY <2>1 DEF Allow
  <2>2. ASSUME NEW pc \in RequestStep, Begin(r, pc) PROVE req' \in [Request -> RequestRow]
    BY <2>2, RequestTyped DEF Begin
  <2>3. Leave(r) => req' \in [Request -> RequestRow]
    BY RequestTyped DEF Leave
  <2>4. \A pc \in RequestStep : [req[r] EXCEPT !.pc = pc] \in RequestRow
    BY RequestTyped
  <2>5. CASE SendOtp(r)
    BY <2>5, <2>1, <2>2 DEF SendOtp, AccessActivity, RequestStep
  <2>6. CASE StoreCode(r)
    BY <2>6, <2>3 DEF StoreCode
  <2>7. CASE VerifyOtp(r)
    <3>1. \A o \in Code : [req[r] EXCEPT !.pc = "guess", !.code = o] \in RequestRow
      BY RequestTyped DEF RequestStep
    <3>2. PICK o \in Code : req' = [req EXCEPT ![r].pc = "guess", ![r].code = o]
      BY <2>7, Zenon DEF VerifyOtp
    <3>3. req' = [req EXCEPT ![r] = [req[r] EXCEPT !.pc = "guess", !.code = o]]
      BY <3>2
    <3>4. req' \in [Request -> RequestRow]
      BY <3>1, <3>3
    <3> QED
      BY <2>7, <2>1, <3>4 DEF VerifyOtp, AccessActivity
  <2>8. CASE WrongGuess(r)
    <3>1. attempts' \in [Code -> Nat]
      BY <2>8, Counted DEF WrongGuess
    <3> QED
      BY <2>8, <2>3, <3>1 DEF WrongGuess
  <2>9. CASE RightGuess(r)
    <3>1. req' \in [Request -> RequestRow]
      BY <2>9, <2>3, <2>4 DEF RightGuess, RequestStep
    <3> QED
      BY <2>9, <3>1 DEF RightGuess
  <2>10. CASE GenerateTokens(r)
    <3>1. heirs' \in [Token -> Nat]
      BY <2>10, Counted DEF GenerateTokens
    <3>2. late' \in SUBSET Token /\ token' \in [Token -> {"unused", "live", "revoked"}]
      BY <2>10 DEF GenerateTokens
    <3> QED
      BY <2>10, <2>3, <3>1, <3>2 DEF GenerateTokens
  <2>11. CASE RefreshToken(r)
    <3>1. \A t \in Token : [req[r] EXCEPT !.pc = "consume", !.token = t] \in RequestRow
      BY RequestTyped DEF RequestStep
    <3>2. PICK t \in Token : req' = [req EXCEPT ![r].pc = "consume", ![r].token = t]
      BY <2>11, Zenon DEF RefreshToken
    <3>3. req' = [req EXCEPT ![r] = [req[r] EXCEPT !.pc = "consume", !.token = t]]
      BY <3>2
    <3>4. req' \in [Request -> RequestRow]
      BY <3>1, <3>3
    <3> QED
      BY <2>11, <2>1, <3>4 DEF RefreshToken, AccessActivity
  <2>12. CASE ConsumeToken(r)
    <3>1. req' \in [Request -> RequestRow]
      BY <2>12, <2>3, <2>4 DEF ConsumeToken, RequestStep
    <3> QED
      BY <2>12, <3>1 DEF ConsumeToken
  <2>13. ASSUME NEW activity \in {"account", "pin"}, NEW pc \in Admitted, Authenticate(r, activity, pc)
         PROVE  AccessTypeOK'
    BY <2>13, <2>1, <2>2 DEF Authenticate, AccessActivity, Admitted, RequestStep
  <2>14. CASE Logout(r)
    BY <2>14, <2>3 DEF Logout, Revoked
  <2>15. CASE SetPin(r) \/ ChangePin(r)
    BY <2>15, <2>3 DEF SetPin, ChangePin
  <2>16. CASE DeactivateAccount(r)
    BY <2>16, CloseTypes DEF DeactivateAccount
  <2>17. CASE ReactivateAccount(r)
    <3>1. closed' \in BOOLEAN /\ cut' \in BOOLEAN
      BY <2>17 DEF ReactivateAccount
    <3> QED
      BY <2>17, <2>3, <3>1 DEF ReactivateAccount
  <2>18. CASE DeleteAccount(r)
    BY <2>18, CloseTypes DEF DeleteAccount
  <2>19. CASE RevokeTokens(r)
    BY <2>19, <2>3 DEF RevokeTokens, Revoked
  <2>20. CASE EraseAccount(r)
    BY <2>20, CloseTypes DEF EraseAccount, Revoked
  <2>21. CASE Ban(r)
    BY <2>21, <2>1, CloseTypes DEF Ban, AccessActivity
  <2>22. CASE Unban(r)
    BY <2>22, <2>1 DEF Unban, AccessActivity
  <2>23. CASE AccessFault(r)
    BY <2>23, <2>1, <2>3 DEF AccessFault, AccessActivity
  <2> QED
    BY <1>a, <2>5, <2>6, <2>7, <2>8, <2>9, <2>10, <2>11, <2>12, <2>13, <2>14, <2>15, <2>16, <2>17, <2>18,
       <2>19, <2>20, <2>21, <2>22, <2>23 DEF RequestActs
<1> QED
  BY <1>0, <1>1, <1>a, AccessSteps

(* The rows and the requests have the types the handlers give them.        *)
THEOREM AccessTyped == AccessSpec => []AccessTypeOK
BY AccessTypeInit, AccessTypeNext, PTL DEF AccessSpec

-------------------------------------------------------------------------------
(* The inductive invariant, in parts *)

(* What a request carries from one statement to the next.                  *)
RequestsKnown ==
    \A r \in Request :
        /\ req[r].pc \notin {"consume", "issue"} => req[r].token = 0
        /\ req[r].pc = "guess" => req[r].code # 0

(* While the account is closed, a reactivation, or a request that will     *)
(* issue a token, was under way when it was closed, or is a sign-in.       *)
ClosedKnown ==
    closed =>
        /\ account # "active"
        /\ \A r \in Request :
              /\ req[r].pc = "reactivate" => req[r].early
              /\ req[r].pc \in {"consume", "issue"} => req[r].early \/ req[r].code # 0

CutKnown ==
    cut => closed /\ \A t \in Token : token[t] = "live" => t \in late

(* A token is exchanged by the request that revoked it.                    *)
ExchangesKnown ==
    \A t \in Token :
        /\ heirs[t] \in {0, 1}
        /\ token[t] # "revoked" => heirs[t] = 0
        /\ \A r \in Request : req[r].pc = "issue" /\ req[r].token = t =>
              /\ token[t] = "revoked"
              /\ heirs[t] = 0
              /\ \A q \in Request : req[q].pc = "issue" /\ req[q].token = t => q = r

AccessInv == AccessTypeOK /\ RequestsKnown /\ ClosedKnown /\ CutKnown /\ ExchangesKnown

LEMMA AccessInvInit == AccessInit => AccessInv
<1> SUFFICES ASSUME AccessInit PROVE AccessInv
  OBVIOUS
<1>1. AccessTypeOK
  BY AccessTypeInit
<1>2. RequestsKnown
  BY DEF AccessInit, RequestsKnown, NoRequest
<1>3. ClosedKnown /\ CutKnown
  BY DEF AccessInit, ClosedKnown, CutKnown
<1>4. ExchangesKnown
  BY DEF AccessInit, ExchangesKnown, NoRequest
<1> QED
  BY <1>1, <1>2, <1>3, <1>4 DEF AccessInv

(* How a row changes when some of its fields do.                           *)
LEMMA RowFields ==
    /\ \A was \in RequestRow, pc \in RequestStep :
          /\ [was EXCEPT !.pc = pc].pc = pc
          /\ [was EXCEPT !.pc = pc].code = was.code
          /\ [was EXCEPT !.pc = pc].token = was.token
          /\ [was EXCEPT !.pc = pc].early = was.early
    /\ \A was \in RequestRow, pc \in RequestStep, o \in Code :
          /\ [was EXCEPT !.pc = pc, !.code = o].pc = pc
          /\ [was EXCEPT !.pc = pc, !.code = o].code = o
          /\ [was EXCEPT !.pc = pc, !.code = o].token = was.token
    /\ \A was \in RequestRow, pc \in RequestStep, t \in Token :
          /\ [was EXCEPT !.pc = pc, !.token = t].pc = pc
          /\ [was EXCEPT !.pc = pc, !.token = t].code = was.code
          /\ [was EXCEPT !.pc = pc, !.token = t].token = t
<1>1. ASSUME NEW was \in RequestRow, NEW pc \in RequestStep
      PROVE  /\ [was EXCEPT !.pc = pc].pc = pc
             /\ [was EXCEPT !.pc = pc].code = was.code
             /\ [was EXCEPT !.pc = pc].token = was.token
             /\ [was EXCEPT !.pc = pc].early = was.early
  BY DEF RequestRow
<1>2. ASSUME NEW was \in RequestRow, NEW pc \in RequestStep, NEW o \in Code
      PROVE  /\ [was EXCEPT !.pc = pc, !.code = o].pc = pc
             /\ [was EXCEPT !.pc = pc, !.code = o].code = o
             /\ [was EXCEPT !.pc = pc, !.code = o].token = was.token
  BY DEF RequestRow
<1>3. ASSUME NEW was \in RequestRow, NEW pc \in RequestStep, NEW t \in Token
      PROVE  /\ [was EXCEPT !.pc = pc, !.token = t].pc = pc
             /\ [was EXCEPT !.pc = pc, !.token = t].code = was.code
             /\ [was EXCEPT !.pc = pc, !.token = t].token = t
  BY DEF RequestRow
<1> QED
  BY <1>1, <1>2, <1>3

LEMMA EarlyFields ==
    ASSUME NEW was \in RequestRow
    PROVE  LET e == was.early \/ was.pc # "idle"
               new == [was EXCEPT !.early = @ \/ was.pc # "idle"]
           IN  new.pc = was.pc /\ new.code = was.code /\ new.token = was.token /\ (new.early <=> e)
<1> DEFINE e == was.early \/ was.pc # "idle"
<1>1. e \in BOOLEAN
  OBVIOUS
<1>2. ASSUME NEW b \in BOOLEAN
      PROVE  LET new == [was EXCEPT !.early = b]
             IN  new.pc = was.pc /\ new.code = was.code /\ new.token = was.token /\ (new.early <=> b)
  BY DEF RequestRow
<1> HIDE DEF e
<1>3. LET new == [was EXCEPT !.early = e]
      IN  new.pc = was.pc /\ new.code = was.code /\ new.token = was.token /\ (new.early <=> e)
  BY <1>1, <1>2
<1> QED
  BY <1>3 DEF e

(* The step of a request leaves the others where they are.                 *)
Keeps(q) ==
    /\ req'[q].pc = req[q].pc
    /\ req'[q].code = req[q].code
    /\ req'[q].token = req[q].token
    /\ req[q].early => req'[q].early

LEMMA ClosesAll ==
    ASSUME AccessTypeOK, NEW status \in {"suspended", "deleted", "gone"}, NEW r \in Request,
           NEW pc \in {"idle", "revoke"}, Close(status, r, pc)
    PROVE  /\ \A q \in Request \ {r} : Keeps(q) /\ (req[q].pc # "idle" => req'[q].early)
           /\ req'[r].pc = pc
           /\ req'[r].token = 0
<1>1. ASSUME NEW q \in Request \ {r} PROVE Keeps(q) /\ (req[q].pc # "idle" => req'[q].early)
  <2>1. req[q] \in RequestRow
    BY DEF AccessTypeOK
  <2>2. req'[q] = [req[q] EXCEPT !.early = @ \/ req[q].pc # "idle"]
    BY DEF Close
  <2> QED
    BY <2>1, <2>2, EarlyFields DEF Keeps
<1>2. req'[r] = [NoRequest EXCEPT !.pc = pc]
  BY DEF Close
<1>3. [NoRequest EXCEPT !.pc = pc].pc = pc /\ [NoRequest EXCEPT !.pc = pc].token = NoRequest.token
  <2>1. NoRequest \in RequestRow /\ pc \in RequestStep
    BY RequestTyped DEF RequestStep
  <2> QED
    BY <2>1, RowFields
<1>4. NoRequest.token = 0
  BY DEF NoRequest
<1> QED
  BY <1>1, <1>2, <1>3, <1>4

LEMMA OthersKeep ==
    ASSUME AccessTypeOK, NEW r \in Request, RequestActs(r)
    PROVE  \A q \in Request \ {r} : Keeps(q)
<1> USE DEF Keeps
<1>1. ASSUME NEW was, req' = [req EXCEPT ![r] = was] PROVE \A q \in Request \ {r} : Keeps(q)
  BY <1>1 DEF AccessTypeOK
<1>2. ASSUME NEW pc, Begin(r, pc) PROVE \A q \in Request \ {r} : Keeps(q)
  BY <1>2, <1>1 DEF Begin
<1>3. CASE Leave(r)
  BY <1>3, <1>1 DEF Leave
<1>4. CASE req' = req
  BY <1>4
<1>5. CASE VerifyOtp(r)
  BY <1>5 DEF VerifyOtp, AccessTypeOK
<1>6. CASE RightGuess(r)
  BY <1>6, <1>3 DEF RightGuess, AccessTypeOK
<1>7. CASE RefreshToken(r)
  BY <1>7 DEF RefreshToken, AccessTypeOK
<1>8. CASE ConsumeToken(r)
  BY <1>8, <1>3 DEF ConsumeToken, AccessTypeOK
<1>9. CASE DeactivateAccount(r) \/ DeleteAccount(r) \/ EraseAccount(r) \/ Ban(r)
  BY <1>9, ClosesAll DEF DeactivateAccount, DeleteAccount, EraseAccount, Ban
<1>10. CASE SendOtp(r) \/ \E activity \in {"account", "pin"}, pc \in Admitted : Authenticate(r, activity, pc)
  BY <1>10, <1>2 DEF SendOtp, Authenticate
<1>11. CASE StoreCode(r) \/ WrongGuess(r) \/ GenerateTokens(r) \/ Logout(r) \/ SetPin(r) \/ ChangePin(r)
            \/ ReactivateAccount(r) \/ RevokeTokens(r) \/ AccessFault(r)
  BY <1>11, <1>3 DEF StoreCode, WrongGuess, GenerateTokens, Logout, SetPin, ChangePin, ReactivateAccount, RevokeTokens, AccessFault
<1>12. CASE Unban(r)
  BY <1>12, <1>4 DEF Unban
<1> QED
  BY <1>5, <1>6, <1>7, <1>8, <1>9, <1>10, <1>11, <1>12 DEF RequestActs

(* What the step of a request makes of its own row.                        *)
LEMMA OwnRow ==
    ASSUME AccessTypeOK, NEW r \in Request
    PROVE  /\ \A pc \in RequestStep : req' = [req EXCEPT ![r].pc = pc] =>
                 /\ req'[r].pc = pc
                 /\ req'[r].code = req[r].code
                 /\ req'[r].token = req[r].token
                 /\ req'[r].early = req[r].early
           /\ \A o \in Code : req' = [req EXCEPT ![r].pc = "guess", ![r].code = o] =>
                 /\ req'[r].pc = "guess"
                 /\ req'[r].code = o
                 /\ req'[r].token = req[r].token
           /\ \A t \in Token : req' = [req EXCEPT ![r].pc = "consume", ![r].token = t] =>
                 /\ req'[r].pc = "consume"
                 /\ req'[r].token = t
           /\ Leave(r) => req'[r].pc = "idle" /\ req'[r].token = 0
<1>0. req[r] \in RequestRow /\ "guess" \in RequestStep /\ "consume" \in RequestStep
  BY DEF AccessTypeOK, RequestStep
<1>1. ASSUME NEW pc \in RequestStep, req' = [req EXCEPT ![r].pc = pc]
      PROVE  /\ req'[r].pc = pc
             /\ req'[r].code = req[r].code
             /\ req'[r].token = req[r].token
             /\ req'[r].early = req[r].early
  <2>1. req'[r] = [req[r] EXCEPT !.pc = pc]
    BY <1>1 DEF AccessTypeOK
  <2> QED
    BY <1>0, <2>1, RowFields
<1>2. ASSUME NEW o \in Code, req' = [req EXCEPT ![r].pc = "guess", ![r].code = o]
      PROVE  req'[r].pc = "guess" /\ req'[r].code = o /\ req'[r].token = req[r].token
  <2>1. req'[r] = [req[r] EXCEPT !.pc = "guess", !.code = o]
    BY <1>2 DEF AccessTypeOK
  <2> QED
    BY <1>0, <2>1, RowFields
<1>3. ASSUME NEW t \in Token, req' = [req EXCEPT ![r].pc = "consume", ![r].token = t]
      PROVE  req'[r].pc = "consume" /\ req'[r].token = t
  <2>1. req'[r] = [req[r] EXCEPT !.pc = "consume", !.token = t]
    BY <1>3 DEF AccessTypeOK
  <2> QED
    BY <1>0, <2>1, RowFields
<1>4. ASSUME Leave(r) PROVE req'[r].pc = "idle" /\ req'[r].token = 0
  BY <1>4 DEF Leave, NoRequest, AccessTypeOK
<1> QED
  BY <1>1, <1>2, <1>3, <1>4

(* Every handler ends, closes the account, or moves to a named step.       *)
LEMMA OwnSteps ==
    ASSUME AccessTypeOK, RequestsKnown, NEW r \in Request, RequestActs(r)
    PROVE  /\ req'[r].pc \notin {"consume", "issue"} => req'[r].token = 0
           /\ req'[r].pc = "guess" => req'[r].code # 0
<1>0. /\ req[r].pc \notin {"consume", "issue"} => req[r].token = 0
      /\ req[r].pc = "guess" => req[r].code # 0
  BY DEF RequestsKnown
<1>1. ASSUME NEW pc \in RequestStep, pc # "guess", Begin(r, pc)
      PROVE  /\ req'[r].pc \notin {"consume", "issue"} => req'[r].token = 0
             /\ req'[r].pc = "guess" => req'[r].code # 0
  BY <1>0, <1>1, OwnRow DEF Begin
<1>2. CASE Leave(r)
  BY <1>2, OwnRow
<1>3. CASE req' = req
  BY <1>0, <1>3
<1>4. CASE VerifyOtp(r)
  <2>1. PICK o \in Code : req[r].pc = "idle" /\ req' = [req EXCEPT ![r].pc = "guess", ![r].code = o]
    BY <1>4 DEF VerifyOtp
  <2>2. req'[r].code = o /\ req'[r].token = req[r].token
    BY <2>1, OwnRow
  <2> QED
    BY <1>0, <2>1, <2>2
<1>5. CASE req' = [req EXCEPT ![r].pc = "issue"]
  BY <1>5, OwnRow DEF RequestStep
<1>6. CASE RefreshToken(r)
  BY <1>6, OwnRow DEF RefreshToken
<1>7. CASE DeactivateAccount(r) \/ DeleteAccount(r) \/ EraseAccount(r) \/ Ban(r)
  BY <1>7, ClosesAll DEF DeactivateAccount, DeleteAccount, EraseAccount, Ban
<1>8. CASE SendOtp(r)
  BY <1>8, <1>1 DEF SendOtp, RequestStep
<1>9. CASE StoreCode(r) \/ WrongGuess(r) \/ GenerateTokens(r) \/ Logout(r) \/ SetPin(r) \/ ChangePin(r)
           \/ ReactivateAccount(r) \/ RevokeTokens(r) \/ AccessFault(r)
  BY <1>9, <1>2 DEF StoreCode, WrongGuess, GenerateTokens, Logout, SetPin, ChangePin, ReactivateAccount, RevokeTokens, AccessFault
<1>10. CASE RightGuess(r) \/ ConsumeToken(r)
  BY <1>10, <1>2, <1>5 DEF RightGuess, ConsumeToken
<1>11. CASE Unban(r)
  BY <1>11, <1>3 DEF Unban
<1>12. ASSUME NEW activity \in {"account", "pin"}, NEW pc \in Admitted, Authenticate(r, activity, pc)
       PROVE  /\ req'[r].pc \notin {"consume", "issue"} => req'[r].token = 0
              /\ req'[r].pc = "guess" => req'[r].code # 0
  BY <1>12, <1>1 DEF Authenticate, Admitted, RequestStep
<1> QED
  BY <1>4, <1>6, <1>7, <1>8, <1>9, <1>10, <1>11, <1>12 DEF RequestActs

LEMMA RequestsKnownNext ==
    ASSUME AccessTypeOK, RequestsKnown, NEW r \in Request, RequestActs(r)
    PROVE  RequestsKnown'
BY OthersKeep, OwnSteps DEF RequestsKnown, Keeps

-------------------------------------------------------------------------------
(* What a closed account holds *)

LEMMA ClosedKnownNext ==
    ASSUME AccessTypeOK, RequestsKnown, ClosedKnown, NEW r \in Request, RequestActs(r)
    PROVE  ClosedKnown'
<1>0. \A q \in Request \ {r} : Keeps(q)
  BY OthersKeep
<1> DEFINE Fine(q) ==
             /\ req'[q].pc = "reactivate" => req'[q].early
             /\ req'[q].pc \in {"consume", "issue"} => req'[q].early \/ req'[q].code # 0
<1>1. CASE DeactivateAccount(r) \/ DeleteAccount(r) \/ EraseAccount(r) \/ Ban(r)
  <2>1. /\ account' # "active"
        /\ \A q \in Request \ {r} : Keeps(q) /\ (req[q].pc # "idle" => req'[q].early)
        /\ req'[r].pc \in {"idle", "revoke"}
    BY <1>1, ClosesAll DEF DeactivateAccount, DeleteAccount, EraseAccount, Ban, Close
  <2> QED
    BY <2>1 DEF ClosedKnown, Keeps
<1>2. CASE ReactivateAccount(r)
  BY <1>2 DEF ReactivateAccount, ClosedKnown
<1>3. CASE Unban(r)
  BY <1>3 DEF Unban, ClosedKnown
<1>4. ASSUME closed' = closed, account' = account, closed => Fine(r) PROVE ClosedKnown'
  BY <1>0, <1>4 DEF ClosedKnown, Keeps
<1>5. CASE StoreCode(r) \/ WrongGuess(r) \/ GenerateTokens(r) \/ Logout(r) \/ SetPin(r) \/ ChangePin(r)
           \/ RevokeTokens(r) \/ AccessFault(r)
  <2>1. Leave(r) /\ closed' = closed /\ account' = account
    BY <1>5 DEF StoreCode, WrongGuess, GenerateTokens, Logout, SetPin, ChangePin, RevokeTokens, AccessFault,
                accountVars, accessHistory
  <2>2. req'[r].pc = "idle"
    BY <2>1, OwnRow
  <2> QED
    BY <1>4, <2>1, <2>2
<1>6. CASE SendOtp(r)
  <2>1. req'[r].pc = "send"
    BY <1>6, OwnRow DEF SendOtp, Begin, RequestStep
  <2> QED
    BY <1>4, <1>6, <2>1 DEF SendOtp, accountVars, accessHistory
<1>7. CASE VerifyOtp(r)
  <2>1. req'[r].pc = "guess"
    BY <1>7, OwnRow DEF VerifyOtp
  <2> QED
    BY <1>4, <1>7, <2>1 DEF VerifyOtp, accountVars, accessHistory
<1>8. CASE RightGuess(r)
  <2>1. req[r].code # 0
    BY <1>8 DEF RightGuess, RequestsKnown
  <2>2. CASE Leave(r)
    BY <1>4, <1>8, <2>2, OwnRow DEF RightGuess, accountVars, accessHistory
  <2>3. CASE req' = [req EXCEPT ![r].pc = "issue"]
    <3>1. req'[r].pc = "issue" /\ req'[r].code = req[r].code
      BY <2>3, OwnRow DEF RequestStep
    <3> QED
      BY <1>4, <1>8, <2>1, <3>1 DEF RightGuess, accountVars, accessHistory
  <2> QED
    BY <1>8, <2>2, <2>3 DEF RightGuess
<1>9. CASE ConsumeToken(r)
  <2>1. closed => req[r].early \/ req[r].code # 0
    BY <1>9 DEF ConsumeToken, ClosedKnown
  <2>2. CASE Leave(r)
    BY <1>4, <1>9, <2>2, OwnRow DEF ConsumeToken, accountVars, accessHistory
  <2>3. CASE req' = [req EXCEPT ![r].pc = "issue"]
    <3>1. req'[r].pc = "issue" /\ req'[r].code = req[r].code /\ req'[r].early = req[r].early
      BY <2>3, OwnRow DEF RequestStep
    <3> QED
      BY <1>4, <1>9, <2>1, <3>1 DEF ConsumeToken, accountVars, accessHistory
  <2> QED
    BY <1>9, <2>2, <2>3 DEF ConsumeToken
<1>10. ASSUME Open, closed' = closed PROVE ClosedKnown'
  BY <1>10 DEF Open, ClosedKnown
<1>11. CASE RefreshToken(r)
  BY <1>10, <1>11 DEF RefreshToken, accessHistory
<1>12. ASSUME NEW activity \in {"account", "pin"}, NEW pc \in Admitted, Authenticate(r, activity, pc)
       PROVE  ClosedKnown'
  BY <1>10, <1>12 DEF Authenticate, accessHistory
<1> QED
  BY <1>1, <1>2, <1>3, <1>5, <1>6, <1>7, <1>8, <1>9, <1>11, <1>12 DEF RequestActs

LEMMA CutKnownNext ==
    ASSUME AccessTypeOK, ClosedKnown, CutKnown, NEW r \in Request, RequestActs(r)
    PROVE  CutKnown'
<1> USE DEF CutKnown
<1>1. CASE DeactivateAccount(r) \/ DeleteAccount(r) \/ EraseAccount(r) \/ Ban(r)
  <2>1. /\ closed' /\ cut' = cut /\ late' = late
        /\ \A t \in Token : token'[t] = "live" => token[t] = "live"
    BY <1>1 DEF DeactivateAccount, DeleteAccount, EraseAccount, Ban, Close, Revoked
  <2> QED
    BY <2>1
<1>2. CASE ReactivateAccount(r)
  BY <1>2 DEF ReactivateAccount
<1>3. CASE Unban(r)
  BY <1>3 DEF Unban
<1>4. CASE RevokeTokens(r)
  BY <1>4 DEF RevokeTokens, Revoked
<1>5. CASE GenerateTokens(r)
  <2>1. closed' = closed /\ cut' = cut
    BY <1>5 DEF GenerateTokens
  <2>2. cut => req[r].early \/ req[r].code # 0
    BY <1>5 DEF GenerateTokens, ClosedKnown
  <2>3. PICK t \in Token :
           /\ token' = [token EXCEPT ![t] = "live"]
           /\ late' = IF req[r].early \/ req[r].code # 0 THEN late \cup {t} ELSE late
    BY <1>5 DEF GenerateTokens
  <2> QED
    BY <2>1, <2>2, <2>3 DEF AccessTypeOK
<1>6. CASE Logout(r)
  <2>1. \A t \in Token : token'[t] = "live" => token[t] = "live"
    BY <1>6 DEF Logout, Revoked
  <2> QED
    BY <1>6, <2>1 DEF Logout, accessHistory
<1>7. CASE ConsumeToken(r)
  <2>1. \A t \in Token : token'[t] = "live" => token[t] = "live"
    BY <1>7 DEF ConsumeToken, AccessTypeOK
  <2> QED
    BY <1>7, <2>1 DEF ConsumeToken, accessHistory
<1>8. CASE UNCHANGED <<closed, cut, late, token>>
  BY <1>8
<1>9. CASE SendOtp(r) \/ StoreCode(r) \/ VerifyOtp(r) \/ WrongGuess(r) \/ RightGuess(r) \/ RefreshToken(r)
           \/ SetPin(r) \/ ChangePin(r) \/ AccessFault(r)
  BY <1>8, <1>9 DEF SendOtp, StoreCode, VerifyOtp, WrongGuess, RightGuess, RefreshToken, SetPin, ChangePin,
                    AccessFault, accessHistory
<1>10. ASSUME NEW activity \in {"account", "pin"}, NEW pc \in Admitted, Authenticate(r, activity, pc)
       PROVE  CutKnown'
  BY <1>8, <1>10 DEF Authenticate, accessHistory
<1> QED
  BY <1>1, <1>2, <1>3, <1>4, <1>5, <1>6, <1>7, <1>9, <1>10 DEF RequestActs

-------------------------------------------------------------------------------
(* What a token is exchanged for *)

LEMMA ExchangesKnownNext ==
    ASSUME AccessTypeOK, RequestsKnown, ExchangesKnown, NEW r \in Request, RequestActs(r)
    PROVE  ExchangesKnown'
<1>0. \A q \in Request \ {r} : Keeps(q)
  BY OthersKeep
<1> DEFINE Grows == /\ heirs' = heirs
                    /\ \A t \in Token : token'[t] # token[t] => token'[t] = "revoked"
<1>1. ASSUME Grows, req'[r].pc = "issue" => req'[r].token = 0 PROVE ExchangesKnown'
  <2>1. ASSUME NEW t \in Token
        PROVE  /\ heirs'[t] \in {0, 1}
               /\ token'[t] # "revoked" => heirs'[t] = 0
    BY <1>1 DEF ExchangesKnown
  <2>2. ASSUME NEW t \in Token, NEW q \in Request, req'[q].pc = "issue", req'[q].token = t
        PROVE  /\ q # r /\ req[q].pc = "issue" /\ req[q].token = t
               /\ token'[t] = "revoked"
               /\ heirs'[t] = 0
    <3>1. q # r
      BY <1>1, <2>2
    <3>2. req[q].pc = "issue" /\ req[q].token = t
      BY <1>0, <2>2, <3>1 DEF Keeps
    <3> QED
      BY <1>1, <3>1, <3>2 DEF ExchangesKnown
  <2> QED
    BY <2>1, <2>2 DEF ExchangesKnown
<1>2. CASE Leave(r) /\ Grows
  BY <1>1, <1>2, OwnRow
<1>3. CASE GenerateTokens(r)
  <2>1. PICK n \in Token : token[n] = "unused" /\ token' = [token EXCEPT ![n] = "live"]
    BY <1>3 DEF GenerateTokens
  <2>2. /\ req[r].pc = "issue"
        /\ heirs' = IF req[r].token = 0 THEN heirs ELSE [heirs EXCEPT ![req[r].token] = @ + 1]
        /\ req'[r].pc = "idle"
    BY <1>3, OwnRow DEF GenerateTokens
  <2>3. ASSUME NEW t \in Token
        PROVE  /\ heirs'[t] \in {0, 1}
               /\ token'[t] # "revoked" => heirs'[t] = 0
    <3>1. CASE t = req[r].token
      <4>1. token[t] = "revoked" /\ heirs[t] = 0
        BY <2>2, <3>1 DEF ExchangesKnown
      <4>2. t # n /\ t # 0
        BY <2>1, <4>1
      <4> QED
        BY <2>1, <2>2, <3>1, <4>1, <4>2 DEF AccessTypeOK
    <3>2. CASE t # req[r].token
      <4>1. heirs'[t] = heirs[t]
        BY <2>2, <3>2 DEF AccessTypeOK
      <4>2. token'[t] # "revoked" => token[t] # "revoked"
        BY <2>1 DEF AccessTypeOK
      <4> QED
        BY <4>1, <4>2 DEF ExchangesKnown
    <3> QED
      BY <3>1, <3>2
  <2>4. ASSUME NEW t \in Token, NEW q \in Request, req'[q].pc = "issue", req'[q].token = t
        PROVE  /\ q # r /\ req[q].pc = "issue" /\ req[q].token = t
               /\ token'[t] = "revoked"
               /\ heirs'[t] = 0
    <3>1. q # r
      BY <2>2, <2>4
    <3>2. req[q].pc = "issue" /\ req[q].token = t
      BY <1>0, <2>4, <3>1 DEF Keeps
    <3>3. token[t] = "revoked" /\ heirs[t] = 0 /\ req[r].token # t
      BY <2>2, <3>1, <3>2 DEF ExchangesKnown
    <3>4. heirs'[t] = heirs[t]
      BY <2>2, <3>3 DEF AccessTypeOK
    <3>5. token'[t] = token[t]
      BY <2>1, <3>3 DEF AccessTypeOK
    <3> QED
      BY <3>1, <3>2, <3>3, <3>4, <3>5
  <2> QED
    BY <2>3, <2>4 DEF ExchangesKnown
<1>4. CASE ConsumeToken(r)
  <2>1. /\ heirs' = heirs
        /\ token' = [token EXCEPT ![req[r].token] = "revoked"]
    BY <1>4 DEF ConsumeToken, accessHistory
  <2>2. Grows
    BY <2>1 DEF AccessTypeOK
  <2>3. CASE Leave(r)
    BY <1>2, <2>2, <2>3
  <2>4. CASE token[req[r].token] = "live" /\ req' = [req EXCEPT ![r].pc = "issue"]
    <3>1. req'[r].pc = "issue" /\ req'[r].token = req[r].token
      BY <2>4, OwnRow DEF RequestStep
    <3>2. ASSUME NEW t \in Token
          PROVE  /\ heirs'[t] \in {0, 1}
                 /\ token'[t] # "revoked" => heirs'[t] = 0
      BY <2>2 DEF ExchangesKnown
    <3>3. ASSUME NEW t \in Token, NEW q \in Request, req'[q].pc = "issue", req'[q].token = t
          PROVE  /\ token'[t] = "revoked"
                 /\ heirs'[t] = 0
                 /\ t = req[r].token => q = r
                 /\ t # req[r].token => q # r /\ req[q].pc = "issue" /\ req[q].token = t
      <4>1. CASE q = r
        BY <2>1, <2>4, <3>1, <3>3, <4>1 DEF ExchangesKnown, AccessTypeOK
      <4>2. CASE q # r
        <5>1. req[q].pc = "issue" /\ req[q].token = t
          BY <1>0, <3>3, <4>2 DEF Keeps
        <5>2. token[t] = "revoked" /\ heirs[t] = 0
          BY <5>1 DEF ExchangesKnown
        <5> QED
          BY <2>2, <2>4, <4>2, <5>1, <5>2
      <4> QED
        BY <4>1, <4>2
    <3> QED
      BY <3>2, <3>3 DEF ExchangesKnown
  <2> QED
    BY <1>4, <2>3, <2>4 DEF ConsumeToken
<1>5. CASE DeactivateAccount(r) \/ DeleteAccount(r) \/ EraseAccount(r) \/ Ban(r)
  <2>1. Grows
    BY <1>5 DEF DeactivateAccount, DeleteAccount, EraseAccount, Ban, Revoked, AccessTypeOK
  <2>2. req'[r].pc # "issue"
    BY <1>5, ClosesAll DEF DeactivateAccount, DeleteAccount, EraseAccount, Ban
  <2> QED
    BY <1>1, <2>1, <2>2
<1>6. CASE Logout(r) \/ RevokeTokens(r)
  <2>1. Grows
    BY <1>6 DEF Logout, RevokeTokens, Revoked, accessHistory
  <2> QED
    BY <1>2, <1>6, <2>1 DEF Logout, RevokeTokens
<1>7. CASE StoreCode(r) \/ WrongGuess(r) \/ SetPin(r) \/ ChangePin(r) \/ ReactivateAccount(r) \/ AccessFault(r)
  BY <1>2, <1>7 DEF StoreCode, WrongGuess, SetPin, ChangePin, ReactivateAccount, AccessFault, accessHistory
<1>8. ASSUME heirs' = heirs, token' = token, NEW pc \in RequestStep, req' = [req EXCEPT ![r].pc = pc],
             req[r].token = 0
      PROVE  ExchangesKnown'
  BY <1>1, <1>8, OwnRow
<1>9. CASE SendOtp(r)
  BY <1>1, <1>9, OwnRow DEF SendOtp, Begin, RequestStep, accessHistory
<1>10. CASE RightGuess(r)
  <2>1. req[r].token = 0
    BY <1>10 DEF RightGuess, RequestsKnown
  <2>2. heirs' = heirs /\ token' = token
    BY <1>10 DEF RightGuess, accessHistory
  <2>3. CASE Leave(r)
    BY <1>2, <2>2, <2>3
  <2>4. CASE req' = [req EXCEPT ![r].pc = "issue"]
    BY <1>8, <2>1, <2>2, <2>4 DEF RequestStep
  <2> QED
    BY <1>10, <2>3, <2>4 DEF RightGuess
<1>11. CASE VerifyOtp(r) \/ RefreshToken(r)
  <2>1. heirs' = heirs /\ token' = token
    BY <1>11 DEF VerifyOtp, RefreshToken, accessHistory
  <2>2. req'[r].pc # "issue"
    BY <1>11, OwnRow DEF VerifyOtp, RefreshToken
  <2> QED
    BY <1>1, <2>1, <2>2
<1>12. CASE Unban(r)
  <2>1. req[r].pc = "idle" /\ req' = req /\ heirs' = heirs /\ token' = token
    BY <1>12 DEF Unban
  <2> QED
    BY <1>1, <2>1
<1>13. ASSUME NEW activity \in {"account", "pin"}, NEW pc \in Admitted, Authenticate(r, activity, pc)
       PROVE  ExchangesKnown'
  <2>1. req[r].token = 0
    BY <1>13 DEF Authenticate, Begin, RequestsKnown
  <2> QED
    BY <1>8, <1>13, <2>1 DEF Authenticate, Begin, Admitted, RequestStep, accessHistory
<1> QED
  BY <1>3, <1>4, <1>5, <1>6, <1>7, <1>9, <1>10, <1>11, <1>12, <1>13 DEF RequestActs

LEMMA AccessInvNext == AccessInv /\ [AccessNext]_accessVars => AccessInv'
<1> SUFFICES ASSUME AccessInv, [AccessNext]_accessVars PROVE AccessInv'
  OBVIOUS
<1>0. AccessTypeOK'
  BY AccessTypeNext DEF AccessInv
<1>1. CASE UNCHANGED <<account, token, req, accessHistory>>
  BY <1>0, <1>1 DEF AccessInv, RequestsKnown, ClosedKnown, CutKnown, ExchangesKnown, accessHistory
<1>2. CASE \E r \in Request : RequestActs(r)
  BY <1>0, <1>2, RequestsKnownNext, ClosedKnownNext, CutKnownNext, ExchangesKnownNext DEF AccessInv
<1>3. UNCHANGED accessVars \/ (\E o \in Code : CodeExpires(o)) => UNCHANGED <<account, token, req, accessHistory>>
  BY DEF accessVars, accountVars, CodeExpires
<1> QED
  BY <1>1, <1>2, <1>3, AccessSteps

(* What each request under way knows of the account and of the token it    *)
(* holds stays true through every step of another request, a ban and a     *)
(* deletion among them.                                                    *)
THEOREM AccessInvariant == AccessSpec => []AccessInv
BY AccessInvInit, AccessInvNext, PTL DEF AccessSpec

(* An account stays closed until an unban or an early reactivation.        *)
THEOREM ClosedStays == AccessSpec => []ClosedHolds
<1>1. AccessInv => ClosedHolds
  BY DEF AccessInv, ClosedKnown, ClosedHolds
<1> QED
  BY <1>1, AccessInvariant, PTL

(* A closed account whose tokens were revoked gets no others.              *)
THEOREM ClosedAccountCut == AccessSpec => []TokensOfClosedAccount
<1>1. AccessInv => TokensOfClosedAccount
  BY DEF AccessInv, CutKnown, TokensOfClosedAccount
<1> QED
  BY <1>1, AccessInvariant, PTL

(* No token is exchanged twice.                                            *)
THEOREM ExchangedOnce == AccessSpec => []TokenExchangedOnce
<1>1. AccessInv => TokenExchangedOnce
  BY DEF AccessInv, ExchangesKnown, TokenExchangedOnce
<1> QED
  BY <1>1, AccessInvariant, PTL

-------------------------------------------------------------------------------
(* Guesses at a code *)

Guessing(o) == {r \in Request : req[r].pc = "guess" /\ req[r].code = o}

(* The guesses counted and those let in together stay within the bound:    *)
(* the last to be let in found fewer than the maximum counted.             *)
GuessesKnown == \A o \in Code : attempts[o] + Cardinality(Guessing(o)) <= MaxAttempts + Cardinality(Request) - 1

LEMMA GuessingFinite ==
    \A o : /\ IsFiniteSet(Guessing(o)) /\ Cardinality(Guessing(o)) \in Nat
            /\ Cardinality(Request) \in Nat
            /\ Cardinality(Guessing(o)) <= Cardinality(Request)
BY FS_Subset, FS_CardinalityType DEF Guessing

LEMMA GuessesKnownNext ==
    ASSUME AccessTypeOK, AccessTypeOK', GuessesKnown, NEW r \in Request, RequestActs(r)
    PROVE  GuessesKnown'
<1>0. \A q \in Request \ {r} : Keeps(q)
  BY OthersKeep
<1>t. \A o \in Code : attempts[o] \in Nat /\ attempts'[o] \in Nat
  BY DEF AccessTypeOK
<1>f. \A o : /\ IsFiniteSet(Guessing(o)') /\ Cardinality(Guessing(o)') \in Nat
              /\ Cardinality(Guessing(o)') <= Cardinality(Request)
  BY FS_Subset, FS_CardinalityType DEF Guessing
<1>1. ASSUME attempts' = attempts, req'[r].pc # "guess" \/ req' = req PROVE GuessesKnown'
  <2>1. ASSUME NEW o \in Code PROVE Guessing(o)' \subseteq Guessing(o)
    BY <1>0, <1>1 DEF Guessing, Keeps
  <2>2. ASSUME NEW o \in Code PROVE Cardinality(Guessing(o)') <= Cardinality(Guessing(o))
    BY <2>1, GuessingFinite, FS_Subset
  <2> QED
    BY <1>1, <1>t, <1>f, <2>2, GuessingFinite DEF GuessesKnown
<1>2. CASE VerifyOtp(r)
  <2>1. PICK n \in Code : /\ attempts[n] < MaxAttempts
                           /\ req' = [req EXCEPT ![r].pc = "guess", ![r].code = n]
    BY <1>2 DEF VerifyOtp
  <2>2. attempts' = attempts /\ req'[r].code = n
    BY <1>2, <2>1, OwnRow DEF VerifyOtp, codeVars
  <2>3. ASSUME NEW o \in Code
        PROVE  attempts'[o] + Cardinality(Guessing(o)') <= MaxAttempts + Cardinality(Request) - 1
    <3>1. CASE o = n
      BY <1>t, <1>f, <2>1, <2>2, <3>1, GuessingFinite
    <3>2. CASE o # n
      <4>1. Guessing(o)' \subseteq Guessing(o)
        BY <1>0, <2>2, <3>2 DEF Guessing, Keeps
      <4>2. Cardinality(Guessing(o)') <= Cardinality(Guessing(o))
        BY <4>1, GuessingFinite, FS_Subset
      <4> QED
        BY <1>t, <1>f, <2>2, <4>2, GuessingFinite DEF GuessesKnown
    <3> QED
      BY <3>1, <3>2
  <2> QED
    BY <2>3 DEF GuessesKnown
<1>3. CASE WrongGuess(r)
  <2>1. /\ req[r].pc = "guess"
        /\ attempts' = IF code[req[r].code] = "removed" THEN attempts
                       ELSE [attempts EXCEPT ![req[r].code] = @ + 1]
        /\ req'[r].pc = "idle"
    BY <1>3, OwnRow DEF WrongGuess
  <2>2. ASSUME NEW o \in Code
        PROVE  attempts'[o] + Cardinality(Guessing(o)') <= MaxAttempts + Cardinality(Request) - 1
    <3>1. Guessing(o)' \subseteq Guessing(o) \ {r}
      BY <1>0, <2>1 DEF Guessing, Keeps
    <3>2. CASE o = req[r].code
      <4>1. r \in Guessing(o)
        BY <2>1, <3>2 DEF Guessing
      <4>2. IsFiniteSet(Guessing(o) \ {r}) /\ Cardinality(Guessing(o) \ {r}) = Cardinality(Guessing(o)) - 1
        BY <4>1, GuessingFinite, FS_RemoveElement
      <4>3. Cardinality(Guessing(o)') <= Cardinality(Guessing(o)) - 1
        BY <3>1, <4>2, FS_Subset
      <4>4. attempts'[o] <= attempts[o] + 1
        BY <1>t, <2>1, <3>2 DEF AccessTypeOK
      <4> QED
        BY <1>t, <1>f, <4>3, <4>4, GuessingFinite DEF GuessesKnown
    <3>3. CASE o # req[r].code
      <4>1. attempts'[o] = attempts[o]
        BY <2>1, <3>3 DEF AccessTypeOK
      <4>2. Cardinality(Guessing(o)') <= Cardinality(Guessing(o))
        BY <3>1, GuessingFinite, FS_Subset
      <4> QED
        BY <1>t, <1>f, <4>1, <4>2, GuessingFinite DEF GuessesKnown
    <3> QED
      BY <3>2, <3>3
  <2> QED
    BY <2>2 DEF GuessesKnown
<1>4. CASE DeactivateAccount(r) \/ DeleteAccount(r) \/ EraseAccount(r) \/ Ban(r)
  BY <1>1, <1>4, ClosesAll DEF DeactivateAccount, DeleteAccount, EraseAccount, Ban, codeVars
<1>5. CASE StoreCode(r) \/ GenerateTokens(r) \/ Logout(r) \/ SetPin(r) \/ ChangePin(r) \/ ReactivateAccount(r)
           \/ RevokeTokens(r) \/ AccessFault(r)
  <2>1. Leave(r) /\ attempts' = attempts
    BY <1>5 DEF StoreCode, GenerateTokens, Logout, SetPin, ChangePin, ReactivateAccount, RevokeTokens, AccessFault, codeVars
  <2> QED
    BY <1>1, <2>1, OwnRow
<1>6. CASE RightGuess(r)
  <2>1. req'[r].pc # "guess"
    BY <1>6, OwnRow DEF RightGuess, RequestStep
  <2> QED
    BY <1>1, <1>6, <2>1 DEF RightGuess
<1>7. CASE ConsumeToken(r)
  <2>1. req'[r].pc # "guess"
    BY <1>7, OwnRow DEF ConsumeToken, RequestStep
  <2> QED
    BY <1>1, <1>7, <2>1 DEF ConsumeToken, codeVars
<1>8. CASE RefreshToken(r)
  <2>1. req'[r].pc # "guess"
    BY <1>8, OwnRow DEF RefreshToken
  <2> QED
    BY <1>1, <1>8, <2>1 DEF RefreshToken, codeVars
<1>9. CASE SendOtp(r)
  <2>1. req'[r].pc # "guess"
    BY <1>9, OwnRow DEF SendOtp, Begin, RequestStep
  <2> QED
    BY <1>1, <1>9, <2>1 DEF SendOtp
<1>10. CASE Unban(r)
  BY <1>1, <1>10 DEF Unban, codeVars
<1>11. ASSUME NEW activity \in {"account", "pin"}, NEW pc \in Admitted, Authenticate(r, activity, pc)
       PROVE  GuessesKnown'
  <2>1. req'[r].pc # "guess"
    BY <1>11, OwnRow DEF Authenticate, Begin, Admitted, RequestStep
  <2> QED
    BY <1>1, <1>11, <2>1 DEF Authenticate, codeVars
<1> QED
  BY <1>2, <1>3, <1>4, <1>5, <1>6, <1>7, <1>8, <1>9, <1>10, <1>11 DEF RequestActs

LEMMA GuessesKnownInit == AccessInit => GuessesKnown
<1> SUFFICES ASSUME AccessInit, NEW o \in Code
             PROVE  attempts[o] + Cardinality(Guessing(o)) <= MaxAttempts + Cardinality(Request) - 1
  BY DEF GuessesKnown
<1>1. attempts[o] = 0 /\ Guessing(o) = {}
  BY DEF AccessInit, Guessing, NoRequest
<1>2. Cardinality(Guessing(o)) = 0
  BY <1>1, FS_EmptySet
<1> QED
  BY <1>1, <1>2, GuessingFinite

(* Guesses exceed the maximum only by those let in together.               *)
THEOREM GuessesStayBounded == AccessSpec => []GuessesBounded
<1>1. AccessTypeOK /\ AccessTypeOK' /\ GuessesKnown /\ [AccessNext]_accessVars => GuessesKnown'
  <2> SUFFICES ASSUME AccessTypeOK, AccessTypeOK', GuessesKnown, [AccessNext]_accessVars PROVE GuessesKnown'
    OBVIOUS
  <2>1. CASE UNCHANGED <<attempts, req>>
    BY <2>1 DEF GuessesKnown, Guessing
  <2>2. CASE \E r \in Request : RequestActs(r)
    BY <2>2, GuessesKnownNext
  <2>3. UNCHANGED accessVars \/ (\E o \in Code : CodeExpires(o)) => UNCHANGED <<attempts, req>>
    BY DEF accessVars, codeVars, CodeExpires
  <2> QED
    BY <2>1, <2>2, <2>3, AccessSteps
<1>2. AccessTypeOK /\ GuessesKnown => GuessesBounded
  <2> SUFFICES ASSUME AccessTypeOK, GuessesKnown, NEW o \in Code
               PROVE  attempts[o] <= MaxAttempts + Cardinality(Request) - 1
    BY DEF GuessesBounded
  <2> QED
    BY GuessingFinite DEF GuessesKnown, AccessTypeOK
<1> QED
  BY <1>1, <1>2, AccessTyped, GuessesKnownInit, PTL DEF AccessSpec
=============================================================================
