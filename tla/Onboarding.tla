----------------------------- MODULE Onboarding -----------------------------
(***************************************************************************)
(* A companion's way onto the marketplace: the answers of the onboarding   *)
(* screens (kyc.service.ts, profile.service.ts, settings.service.ts), the  *)
(* progress engine that derives the next screen from them                  *)
(* (progress-engine.service.ts), drafts, submissions, and the decisions of *)
(* the admin backend (internal.service.ts).                                *)
(*                                                                         *)
(* One companion: only the e-mail address relates two, through a unique    *)
(* index.  facts is the set of columns and lists of the companion and KYC  *)
(* rows that hold a usable value.  A save is one statement; the handlers   *)
(* that write statuses or lists in several statements are calls.           *)
(***************************************************************************)
EXTENDS Naturals, Sequences, FiniteSets

CONSTANTS
    Call,       \* status handlers that may be in progress at once
    Drafts,     \* what a companion may put into a draft
    Start       \* where a history begins: facts given so far, and its quota

-------------------------------------------------------------------------------
(* Answers *)

Lists == {"languages", "service_area", "categories"}

Fact == Lists \cup
    { "terms", "boundaries", "eligible", "birth", "gender", "name", "bio", "interests", "photo",
      "agreed", "consents", "work", "style", "venues", "id_type", "id_front", "selfie", "liveness",
      "address", "priced", "rate", "pan", "account", "verified" }

(* Facts: priced, an hourly rate is stored; rate, it is positive.  Drafts: *)
(* bio, fifty characters or more; short_bio, fewer; unknown_category, a    *)
(* label that is no member of the Category enumeration, or is named twice. *)
DraftItem == Lists \cup {"bio", "short_bio", "rate", "unknown_category"}

Activity == {"save", "draft", "submit", "decide", "fail"}

ASSUME OnboardingAssumption ==
    /\ Drafts \subseteq SUBSET DraftItem
    /\ Start \subseteq [facts : SUBSET Fact, quota : [Activity -> Nat]]

-------------------------------------------------------------------------------
(* The progress engine *)

Modules == << "eligibility", "basic_details", "bio", "interests", "categories", "languages", "photo",
              "declaration", "work_preference", "service_area", "service_style", "public_venue",
              "boundaries", "government_id", "selfie", "address", "pricing", "pan", "bank", "upi" >>

(* Sets of facts any one of which completes the module.                    *)
Completes ==
    [ eligibility     |-> {{"eligible"}, {"terms"}, {"boundaries"}},
      basic_details   |-> {{"birth", "gender", "name"}},
      bio             |-> {{"bio"}},
      interests       |-> {{"interests"}},
      categories      |-> {{"categories"}},
      languages       |-> {{"languages"}},
      photo           |-> {{"photo"}},
      declaration     |-> {{"agreed", "consents"}},
      work_preference |-> {{"work"}},
      service_area    |-> {{"service_area"}},
      service_style   |-> {{"style"}},
      public_venue    |-> {{"venues"}},
      boundaries      |-> {{"boundaries"}},
      government_id   |-> {{"id_front"}},
      selfie          |-> {{"selfie", "liveness"}},
      address         |-> {{"address"}},
      pricing         |-> {{"rate"}},
      pan             |-> {{"pan"}},
      bank            |-> {{"account", "verified"}},
      upi             |-> {{}} ]

Module == DOMAIN Completes

Pending(f) == {m \in Module : \A needed \in Completes[m] : ~(needed \subseteq f)}

Mandatory == Module \ {"upi"}

(* Percentage of mandatory modules, rounded to the nearest integer. *)
ProfileCompletion(f) ==
    LET done == Cardinality(Mandatory \ Pending(f))
        all  == Cardinality(Mandatory)
    IN (200 * done + all) \div (2 * all)

(* The first of Modules that is pending.                                   *)
FirstPending(f) ==
    LET pending == Pending(f) IN SelectSeq(Modules, LAMBDA m : m \in pending)[1]

(* Faulty: the liveness check is left to the selfie screen. *)
ResumeScreenNoBankCheck(f) ==
    IF Pending(f) = {} THEN "review"
    ELSE LET m == FirstPending(f) IN
         IF m = "bank" /\ "account" \in f THEN "address" ELSE m

(* The screen the app resumes at: the first pending module's, or the       *)
(* second screen of a module whose first is answered.                      *)
ResumeScreen(f) ==
    IF Pending(f) = {} THEN "review"
    ELSE LET m == FirstPending(f) IN
         CASE m = "government_id" /\ "id_type" \in f -> "id_upload"
           [] m = "selfie" /\ "selfie" \in f         -> "liveness"
           [] m = "bank" /\ "account" \in f          -> "bank_verification"
           [] OTHER                                  -> m

-------------------------------------------------------------------------------
VARIABLES
    facts,                  \* columns and lists with a usable value
    kyc,                    \* the companion_kyc row exists
    draft,                  \* companion_kyc.draftData
    profileStatus,          \* companions.profileStatus
    verificationStatus,     \* companions.verificationStatus
    submittedAt,            \* companion_kyc.submittedAt is set
    rejection,              \* companion_kyc.rejectionReason is set
    call,                   \* calls in progress
    quota,                  \* bound: what may still happen
    decided,                \* history: the decision that nothing has been submitted after
    filled,                 \* history: lists the companion filled and did not empty
    crashed                 \* history: a call died or a statement failed

row == <<profileStatus, verificationStatus>>
kycRow == <<kyc, draft, submittedAt, rejection>>
history == <<decided, filled, crashed>>
onboardingVars == <<facts, kycRow, row, call, quota, history>>

ProfileStatus == {"draft", "submitted", "under_review", "approved", "published", "edit_rejected"}
VerificationStatus ==
    {"not_started", "in_progress", "pending_review", "approved", "rejected", "resubmit_required"}
Decision == {"approved", "rejected"}

(* What is left to do: store the draft; stamp the submission, replace its  *)
(* lists, finish it; write the statuses of a resubmission or of a profile  *)
(* submitted for review, date the latter; record a decision's reason.      *)
Step == {"idle", "store", "stamp", "clear", "fill", "finish", "resubmit", "review", "date", "reason"}

(* Calls that will still write that the companion is waiting for review. *)
Submitting == {"stamp", "clear", "fill", "finish", "resubmit", "review"}

CallRow == [ pc : Step, draft : Drafts \cup {{}}, todo : SUBSET Lists, approve : BOOLEAN ]

Idle == [pc |-> "idle", draft |-> {}, todo |-> {}, approve |-> FALSE]

OnboardingTypeOK ==
    /\ facts \in SUBSET Fact
    /\ kyc \in BOOLEAN
    /\ draft \in Drafts \cup {{}}
    /\ profileStatus \in ProfileStatus
    /\ verificationStatus \in VerificationStatus
    /\ submittedAt \in BOOLEAN
    /\ rejection \in BOOLEAN
    /\ call \in [Call -> CallRow]
    /\ quota \in [Activity -> Nat]
    /\ decided \in Decision \cup {"open"}
    /\ filled \in SUBSET Lists
    /\ crashed \in BOOLEAN

OnboardingInit ==
    /\ \E s \in Start : facts = s.facts /\ quota = s.quota
    /\ kyc = (facts # {})
    /\ draft = {}
    /\ profileStatus = "draft"
    /\ verificationStatus = "not_started"
    /\ submittedAt = FALSE
    /\ rejection = FALSE
    /\ call = [c \in Call |-> Idle]
    /\ decided = "open"
    /\ filled = facts \cap Lists
    /\ crashed = FALSE

Spend(activity) ==
    /\ quota[activity] > 0
    /\ quota' = [quota EXCEPT ![activity] = @ - 1]

Goto(c, pc) == call' = [call EXCEPT ![c].pc = pc]
End(c) == call' = [call EXCEPT ![c] = Idle]

-------------------------------------------------------------------------------
(* Saves.  A save overwrites some facts and gives others; every one ends   *)
(* by reading the status, which creates the KYC row.  A companion may give *)
(* the screen it is shown something new at any time (a new bank account    *)
(* is to be verified again); anything else is bounded by quota.            *)

Save(screens, overwritten, given) ==
    /\ facts' = (facts \ overwritten) \cup given
    /\ filled' = (filled \ overwritten) \cup (given \cap Lists)
    /\ kyc' = TRUE
    /\ IF ResumeScreen(facts) \in screens /\ facts' \ facts # {} /\ facts \ facts' \subseteq {"verified"}
       THEN UNCHANGED quota
       ELSE Spend("save")
    /\ UNCHANGED <<row, draft, submittedAt, rejection, call, decided, crashed>>

(* The values named replace what was stored and may be unusable.           *)
Replace(screens, always, optional) ==
    \E extra \in SUBSET optional :
        \E given \in SUBSET (always \cup extra) : Save(screens, always \cup extra, given)

(* What is left out or empty keeps what was stored.                        *)
Add(screens, always, optional) ==
    \E given \in SUBSET optional : Save(screens, {}, always \cup given)

GetOnboardingStatus ==
    /\ kyc' = TRUE
    /\ UNCHANGED <<facts, draft, submittedAt, rejection, row, call, quota, history>>

AcceptTerms == Add({"eligibility", "boundaries"}, {"terms", "boundaries"}, {})
SaveBasicDetails == Add({"basic_details"}, {}, {"birth", "gender", "name"})
UpdateBasic == Replace({"basic_details", "bio"}, {}, {"name", "gender", "bio"})
UpdateBio == Replace({"bio"}, {}, {"bio"})
UpdateInterests == Replace({"interests"}, {"interests"}, {})
UpdateCategories == Add({"categories"}, {"categories"}, {})
UpdateLanguages == Replace({"languages"}, {"languages"}, {})
UpdatePhoto == Replace({"photo"}, {"photo"}, {})
UpdatePhotos == Replace({"photo"}, {}, {"photo"})
UpdateWorkPreference == Replace({"work_preference"}, {"work"}, {"venues"})
UpdateServiceAreas == Replace({"service_area"}, {}, {"service_area"})
UpdateCommActivity == Replace({"service_style"}, {"style"}, {"interests"})
UpdateVenues == Replace({"public_venue"}, {"venues"}, {})
UpdateBoundaries == Replace({"boundaries"}, {"boundaries"}, {})
UpdateGovernmentIdType == Add({"government_id"}, {"id_type"}, {})
SubmitGovernmentId == Add({"government_id", "id_upload"}, {"id_type", "id_front"}, {})
SubmitSelfie == Add({"selfie", "liveness"}, {"selfie"}, {"liveness"})
SaveAddress == Add({"address"}, {"address"}, {})
SavePan == Replace({"pan"}, {"pan"}, {})
SaveUpi == Save({}, {}, {})
SaveEmergencyContact == Save({}, {}, {})
SaveBank == Save({"bank"}, {"verified"}, {"account"})
UpdateBankDetails == Save({}, {"verified"}, {"account"})

(* Categories, languages, bio and interests in one transaction.            *)
SetupBulk ==
    LET shown == {"bio", "interests", "categories", "languages"} IN Replace(shown, {}, shown)

SaveDeclaration ==
    \E given \in SUBSET {"consents", "eligible"} :
        Save({"eligibility", "declaration"}, {"consents", "eligible"}, {"agreed"} \cup given)

UpdatePricing ==
    \/ Save({"pricing"}, {}, {"priced", "rate"})
    \/ Save({"pricing"}, {"rate"}, {"priced"})

VerifyBank == kyc /\ Save({"bank_verification"}, {}, {"verified"})

Answer ==
    \/ AcceptTerms \/ SaveBasicDetails \/ UpdateBasic \/ UpdateBio \/ UpdateInterests \/ UpdateCategories
    \/ UpdateLanguages \/ UpdatePhoto \/ UpdatePhotos \/ UpdateWorkPreference \/ UpdateServiceAreas
    \/ UpdateCommActivity \/ UpdateVenues \/ UpdateBoundaries \/ UpdateGovernmentIdType
    \/ SubmitGovernmentId \/ SubmitSelfie \/ SaveAddress \/ SavePan \/ SaveUpi \/ SaveEmergencyContact
    \/ SaveBank \/ UpdateBankDetails \/ SetupBulk \/ SaveDeclaration \/ UpdatePricing \/ VerifyBank

-------------------------------------------------------------------------------
(* Drafts *)

SaveDraft(c) ==
    /\ call[c].pc = "idle"
    /\ Spend("draft")
    /\ \E d \in Drafts : call' = [call EXCEPT ![c] = [Idle EXCEPT !.pc = "store", !.draft = d]]
    /\ profileStatus' = "draft"
    /\ UNCHANGED <<facts, kycRow, verificationStatus, history>>

(* Faulty: the verification starts over with the draft.                    *)
StoreDraftRestarting(c) ==
    /\ call[c].pc = "store"
    /\ draft' = IF kyc THEN call[c].draft ELSE draft
    /\ kyc' = TRUE
    /\ verificationStatus' = "in_progress"
    /\ End(c)
    /\ UNCHANGED <<facts, submittedAt, rejection, profileStatus, quota, history>>

(* A row created here gets the stage and not the data.                     *)
StoreDraft(c) ==
    /\ call[c].pc = "store"
    /\ draft' = IF kyc THEN call[c].draft ELSE draft
    /\ kyc' = TRUE
    /\ End(c)
    /\ UNCHANGED <<facts, submittedAt, rejection, row, quota, history>>

-------------------------------------------------------------------------------
(* Submissions *)

SubmitRead(c) ==
    /\ call[c].pc = "idle"
    /\ kyc
    /\ Spend("submit")
    /\ call' = [call EXCEPT ![c] = [Idle EXCEPT !.pc = "stamp", !.draft = draft]]
    /\ decided' = "open"
    /\ UNCHANGED <<facts, kycRow, row, filled, crashed>>

SubmitStamp(c) ==
    /\ call[c].pc = "stamp"
    /\ submittedAt' = TRUE
    /\ LET lists == call[c].draft \cap Lists IN
       call' = [call EXCEPT ![c].pc = IF lists = {} THEN "finish" ELSE "clear", ![c].todo = lists]
    /\ UNCHANGED <<facts, kyc, draft, rejection, row, quota, history>>

(* The draft's lists, in the order in which they are replaced.             *)
NextList(lists) ==
    IF "languages" \in lists THEN "languages"
    ELSE IF "service_area" \in lists THEN "service_area" ELSE "categories"

(* Rows for the list cannot be created: a language with a column the table *)
(* does not have, a category outside the enumeration.                      *)
Unwritable(list, d) == list = "languages" \/ (list = "categories" /\ "unknown_category" \in d)

(* Faulty: all lists are deleted before the first is filled.               *)
SubmitClearAll(c) ==
    /\ call[c].pc = "clear"
    /\ facts' = facts \ call[c].todo
    /\ Goto(c, "fill")
    /\ UNCHANGED <<kycRow, row, quota, history>>

SubmitClear(c) ==
    /\ call[c].pc = "clear"
    /\ facts' = facts \ {NextList(call[c].todo)}
    /\ Goto(c, "fill")
    /\ UNCHANGED <<kycRow, row, quota, history>>

(* A list that cannot be written ends the replacing: the error is caught.  *)
SubmitFill(c) ==
    /\ call[c].pc = "fill"
    /\ LET list == NextList(call[c].todo)
           rest == IF Unwritable(list, call[c].draft) THEN {} ELSE call[c].todo \ {list}
       IN /\ facts' = IF Unwritable(list, call[c].draft) THEN facts ELSE facts \cup {list}
          /\ call' = [call EXCEPT ![c].pc = IF rest = {} THEN "finish" ELSE "clear", ![c].todo = rest]
    /\ UNCHANGED <<kycRow, row, quota, history>>

SubmitFinish(c) ==
    /\ call[c].pc = "finish"
    /\ LET d == call[c].draft IN
       facts' = (facts \ IF "short_bio" \in d THEN {"bio"} ELSE {})
                    \cup (d \cap {"bio"}) \cup (IF "rate" \in d THEN {"priced", "rate"} ELSE {})
    /\ verificationStatus' = "pending_review"
    /\ profileStatus' = "submitted"
    /\ kyc' = TRUE
    /\ End(c)
    /\ UNCHANGED <<draft, submittedAt, rejection, quota, history>>

ResubmitKyc(c) ==
    /\ call[c].pc = "idle"
    /\ kyc
    /\ Spend("submit")
    /\ submittedAt' = TRUE
    /\ rejection' = FALSE
    /\ Goto(c, "resubmit")
    /\ decided' = "open"
    /\ UNCHANGED <<facts, kyc, draft, row, filled, crashed>>

ResubmitFinish(c) ==
    /\ call[c].pc = "resubmit"
    /\ verificationStatus' = "pending_review"
    /\ profileStatus' = "submitted"
    /\ End(c)
    /\ UNCHANGED <<facts, kycRow, quota, history>>

(* A rate of zero passes: the column is not null.                          *)
SubmitForReview(c) ==
    /\ call[c].pc = "idle"
    /\ {"categories", "languages", "priced"} \subseteq facts
    /\ Spend("submit")
    /\ Goto(c, "review")
    /\ decided' = "open"
    /\ UNCHANGED <<facts, kycRow, row, filled, crashed>>

ReviewStatus(c) ==
    /\ call[c].pc = "review"
    /\ verificationStatus' = "pending_review"
    /\ profileStatus' = "submitted"
    /\ Goto(c, "date")
    /\ UNCHANGED <<facts, kycRow, quota, history>>

ReviewDate(c) ==
    /\ call[c].pc = "date"
    /\ submittedAt' = TRUE
    /\ kyc' = TRUE
    /\ End(c)
    /\ UNCHANGED <<facts, draft, rejection, row, quota, history>>

-------------------------------------------------------------------------------
(* Decisions of the admin backend, whatever the state of the profile.      *)

UpdateVerificationDecision(c) ==
    /\ call[c].pc = "idle"
    /\ Spend("decide")
    /\ \E d \in Decision :
          /\ verificationStatus' = d
          /\ profileStatus' = IF d = "approved" THEN "published" ELSE "draft"
          /\ call' = [call EXCEPT ![c] = [Idle EXCEPT !.pc = "reason", !.approve = (d = "approved")]]
          /\ decided' = IF \E o \in Call : call[o].pc \in Submitting THEN "open" ELSE d
    /\ UNCHANGED <<facts, kycRow, filled, crashed>>

DecisionReason(c) ==
    /\ call[c].pc = "reason"
    /\ rejection' = IF kyc THEN ~call[c].approve ELSE rejection
    /\ End(c)
    /\ UNCHANGED <<facts, kyc, draft, submittedAt, row, quota, history>>

-------------------------------------------------------------------------------
(* Failures: a call dies or a statement throws; the error of the reason is *)
(* swallowed, which ends the call all the same.                            *)
OnboardingFail(c) ==
    /\ call[c].pc # "idle"
    /\ Spend("fail")
    /\ End(c)
    /\ crashed' = TRUE
    /\ UNCHANGED <<facts, kycRow, row, decided, filled>>

(* An error while the lists are replaced is caught; the submission goes on. *)
SwallowError(c) ==
    /\ call[c].pc \in {"clear", "fill"}
    /\ Spend("fail")
    /\ call' = [call EXCEPT ![c].pc = "finish", ![c].todo = {}]
    /\ crashed' = TRUE
    /\ UNCHANGED <<facts, kycRow, row, decided, filled>>

OnboardingNext ==
    \/ GetOnboardingStatus
    \/ Answer
    \/ \E c \in Call :
          \/ SaveDraft(c) \/ StoreDraft(c)
          \/ SubmitRead(c) \/ SubmitStamp(c) \/ SubmitClear(c) \/ SubmitFill(c) \/ SubmitFinish(c)
          \/ ResubmitKyc(c) \/ ResubmitFinish(c)
          \/ SubmitForReview(c) \/ ReviewStatus(c) \/ ReviewDate(c)
          \/ UpdateVerificationDecision(c) \/ DecisionReason(c)
          \/ OnboardingFail(c) \/ SwallowError(c)

OnboardingSpec == OnboardingInit /\ [][OnboardingNext]_onboardingVars

-------------------------------------------------------------------------------
(* Properties *)

Finished == ResumeScreen(facts) = "review" /\ ProfileCompletion(facts) = 100

(* A companion who keeps answering reaches the review screen, with one     *)
(* hundred percent shown, and stays there, whatever else it saves in       *)
(* between and whatever its submissions delete: no screen is a dead end    *)
(* (resumeRoute and completionPercentage of the progress engine and the    *)
(* save each screen calls).                                                *)
FinishesOnboarding == WF_onboardingVars(Answer) => <>[]Finished

(* What the admin backend decided while no submission was under way stands *)
(* until the companion submits again: a draft saved meanwhile takes the    *)
(* profile off the directory and leaves the verification alone             *)
(* (updateVerificationDecision, saveDraft).                                *)
DecisionStands ==
    decided # "open" =>
        /\ verificationStatus = decided
        /\ profileStatus \in IF decided = "approved" THEN {"published", "draft"} ELSE {"draft"}

(* A list the companion filled and did not empty is gone only while a      *)
(* submission replaces it, after a failure, or because its draft cannot    *)
(* be written: languages never can, categories only with a label that the  *)
(* enumeration lacks (submitKyc).                                          *)
LossNeedsUnwritable ==
    \A list \in filled \ facts :
        \/ crashed
        \/ list = "languages"
        \/ list = "categories" /\ \E d \in Drafts : "unknown_category" \in d
        \/ \E c \in Call : call[c].pc = "fill" /\ NextList(call[c].todo) = list
=============================================================================
