------------------------------ MODULE Services ------------------------------
(***************************************************************************)
(* The services around a companion's account, and the directory that       *)
(* depends on two of them: whom the public directory lists                 *)
(* (profile.service.ts) and whom the customer backend may book             *)
(* (createInternalRequest of requests.service.ts), by the status rows that *)
(* Onboarding and Access write.                                            *)
(*                                                                         *)
(* Access and Onboarding run together in the part "directory".  The other  *)
(* components share no variable with each other, and no property speaks of *)
(* two of them: a behaviour of all is an interleaving of behaviours of     *)
(* each, so a history of this module lets one component take steps, chosen *)
(* at its beginning.                                                       *)
(***************************************************************************)
EXTENDS Onboarding, Access, Payments, Standing, Gallery, Desk, Chat, Ticket

CONSTANT DirectoryAllowance     \* Access's bounds where it runs with Onboarding

ASSUME DirectoryAssumption == DirectoryAllowance \in Allowance

VARIABLE part                   \* the component that takes steps

servicesVars ==
    <<onboardingVars, accessVars, paymentVars, standingVars, galleryVars, deskVars,
      chatVars, ticketVars, part>>

Part == {"access", "directory", "payments", "standing", "gallery", "desk", "chat", "ticket"}

ServicesTypeOK ==
    /\ OnboardingTypeOK
    /\ AccessTypeOK
    /\ PaymentTypeOK
    /\ StandingTypeOK
    /\ GalleryTypeOK
    /\ DeskTypeOK
    /\ ChatTypeOK
    /\ TicketTypeOK
    /\ part \in Part

ServicesInit ==
    /\ part \in Part
    /\ OnboardingInit
    /\ AccessInit
    /\ part = "access" <=> allowance # DirectoryAllowance
    /\ PaymentInit
    /\ StandingInit
    /\ GalleryInit
    /\ DeskInit
    /\ ChatInit
    /\ TicketInit

ServicesNext ==
    /\ UNCHANGED part
    /\ \/ /\ part \in {"access", "directory"}
          /\ AccessNext
          /\ UNCHANGED <<onboardingVars, paymentVars, standingVars, galleryVars, deskVars,
                         chatVars, ticketVars>>
       \/ /\ part = "directory"
          /\ OnboardingNext
          /\ UNCHANGED <<accessVars, paymentVars, standingVars, galleryVars, deskVars,
                         chatVars, ticketVars>>
       \/ /\ part = "payments"
          /\ PaymentNext
          /\ UNCHANGED <<onboardingVars, accessVars, standingVars, galleryVars, deskVars,
                         chatVars, ticketVars>>
       \/ /\ part = "standing"
          /\ StandingNext
          /\ UNCHANGED <<onboardingVars, accessVars, paymentVars, galleryVars, deskVars,
                         chatVars, ticketVars>>
       \/ /\ part = "gallery"
          /\ GalleryNext
          /\ UNCHANGED <<onboardingVars, accessVars, paymentVars, standingVars, deskVars,
                         chatVars, ticketVars>>
       \/ /\ part = "desk"
          /\ DeskNext
          /\ UNCHANGED <<onboardingVars, accessVars, paymentVars, standingVars, galleryVars,
                         chatVars, ticketVars>>
       \/ /\ part = "chat"
          /\ ChatNext
          /\ UNCHANGED <<onboardingVars, accessVars, paymentVars, standingVars, galleryVars,
                         deskVars, ticketVars>>
       \/ /\ part = "ticket"
          /\ TicketNext
          /\ UNCHANGED <<onboardingVars, accessVars, paymentVars, standingVars, galleryVars,
                         deskVars, chatVars>>

ServicesSpec == ServicesInit /\ [][ServicesNext]_servicesVars

-------------------------------------------------------------------------------
(* The directory *)

(* Faulty: the status of the account is not asked for.                     *)
ListedAnyAccount ==
    /\ profileStatus \in {"approved", "published"}
    /\ verificationStatus = "approved"
    /\ ~deletedAt

(* getApprovedCompanions.                                                  *)
Listed ==
    /\ profileStatus \in {"approved", "published"}
    /\ verificationStatus = "approved"
    /\ account = "active"
    /\ ~deletedAt

(* getPublicCompanionDetail; the status of the profile is not asked for.   *)
Detailed ==
    /\ verificationStatus = "approved"
    /\ account = "active"
    /\ ~deletedAt

(* getCompanions, for the customer backend; deletedAt is not asked for.    *)
Offered ==
    /\ account = "active"
    /\ verificationStatus = "approved"
    /\ profileStatus \in {"approved", "published"}

(* getCompanionById, likewise.                                             *)
OfferedById ==
    /\ account = "active"
    /\ verificationStatus = "approved"
    /\ profileStatus = "published"

(* createInternalRequest, likewise.                                        *)
Bookable == OfferedById /\ "rate" \in facts

(* Whoever a directory shows or a customer can book has an open account    *)
(* and was approved by the admin backend, with nothing submitted since,    *)
(* except that a submission under way has not written its status yet or    *)
(* has died.  Who is shown by one is listed by the public directory, but   *)
(* for a deleted account that was opened again, which the customer backend *)
(* goes on being offered, and for a companion that has saved a draft,      *)
(* whose details stay public (getApprovedCompanions,                       *)
(* getPublicCompanionDetail, getCompanions, getCompanionById and           *)
(* createInternalRequest against every handler that writes the rows they   *)
(* read).                                                                  *)
ListedIsApproved ==
    Listed \/ Detailed \/ Offered \/ OfferedById \/ Bookable =>
        /\ ~closed
        /\ decided = "approved" \/ crashed \/ \E c \in Call : call[c].pc \in Submitting
        /\ Listed \/ deletedAt \/ (Detailed /\ ~Offered /\ profileStatus = "draft")
=============================================================================
