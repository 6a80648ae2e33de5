---------------------------- MODULE ServicesProofs ----------------------------
(***************************************************************************)
(* Proofs about Services: a history of the services is a history of each   *)
(* component, so what is proved of a component holds of it there, and the  *)
(* directory lists nobody it should not.  The theorems about tickets, the  *)
(* chat, the gallery, payments, edits and a companion's standing are here, *)
(* those about accounts in AccountProofs.                                  *)
(***************************************************************************)
EXTENDS Services, AccountProofs, SumLemmas

(* A history of the services is one of the account, of the onboarding, of  *)
(* the payments, of the standing, of the gallery, of the desk, of the chat *)
(* and of the ticket.                                                      *)
THEOREM ComponentsRun ==
    ServicesSpec =>
        /\ OnboardingSpec /\ AccessSpec /\ PaymentSpec /\ StandingSpec
        /\ GallerySpec /\ DeskSpec /\ ChatSpec /\ TicketSpec
<1>1. ServicesInit =>
         /\ OnboardingInit /\ AccessInit /\ PaymentInit /\ StandingInit
         /\ GalleryInit /\ DeskInit /\ ChatInit /\ TicketInit
  BY DEF ServicesInit
<1>2. [ServicesNext]_servicesVars =>
         /\ [OnboardingNext]_onboardingVars /\ [AccessNext]_accessVars
         /\ [PaymentNext]_paymentVars /\ [StandingNext]_standingVars
         /\ [GalleryNext]_galleryVars /\ [DeskNext]_deskVars
         /\ [ChatNext]_chatVars /\ [TicketNext]_ticketVars
  BY DEF ServicesNext, servicesVars
<1> QED
  BY <1>1, <1>2, PTL
     DEF ServicesSpec, OnboardingSpec, AccessSpec, PaymentSpec, StandingSpec,
         GallerySpec, DeskSpec, ChatSpec, TicketSpec

(* Who is listed or can be booked was approved and has an open account.    *)
THEOREM DirectoryIsApproved == ServicesSpec => []ListedIsApproved
<1>1. DecisionInv /\ ClosedHolds => ListedIsApproved
  BY DEF DecisionInv, ApprovalKnown, ApprovalShown, Waiting, ClosedHolds, ListedIsApproved,
         Listed, Detailed, Offered, OfferedById, Bookable
<1> QED
  BY <1>1, ComponentsRun, DecisionInvariant, ClosedStays, PTL

-------------------------------------------------------------------------------
(* The ticket *)

LEMMA WorkRows ==
    /\ Work("resting") \in DeskerRow /\ Work("describe") \in DeskerRow /\ Work("file") \in DeskerRow
    /\ \A pc \in {"store", "tell"}, t \in Reply, b \in BOOLEAN :
          [pc |-> pc, reply |-> t, socket |-> b] \in DeskerRow
BY DEF Work, DeskerRow

(* A call that stores or tells carries a reply.                            *)
LEMMA ReplyCarried ==
    ASSUME TicketTypeOK, NEW c \in Desker, desker[c].pc \in {"store", "tell"}
    PROVE  desker[c].reply \in Reply /\ desker[c].socket \in BOOLEAN
<1>1. desker[c] \in DeskerRow
  BY DEF TicketTypeOK
<1> QED
  BY <1>1 DEF DeskerRow

LEMMA WorkGoesOn ==
    ASSUME TicketTypeOK, NEW c \in Desker, NEW from, NEW work \in DeskerRow, Works(c, from, work)
    PROVE  /\ desker' \in [Desker -> DeskerRow]
           /\ desker[c].pc = from /\ desker'[c] = work
           /\ \A o \in Desker \ {c} : desker'[o] = desker[o]
BY DEF TicketTypeOK, Works

LEMMA RoomTyped ==
    ASSUME NEW g \in [Line -> SUBSET Reply], NEW t \in Reply
    PROVE  InRoom(g, t) \in [Line -> SUBSET Reply]
BY DEF InRoom

LEMMA TicketTypeInit == TicketInit => TicketTypeOK
<1> SUFFICES ASSUME TicketInit PROVE TicketTypeOK
  OBVIOUS
<1>1. desker \in [Desker -> DeskerRow]
  BY WorkRows DEF TicketInit, NoWork
<1>2. heard \in [Line -> SUBSET Reply] /\ due \in [Line -> SUBSET Reply]
  BY DEF TicketInit
<1>3. refusals \in 0 .. MaxRefusal
  BY TicketAssumption DEF TicketInit
<1> QED
  BY <1>1, <1>2, <1>3 DEF TicketInit, TicketTypeOK

LEMMA TicketTypeNext == TicketTypeOK /\ [TicketNext]_ticketVars => TicketTypeOK'
<1> SUFFICES ASSUME TicketTypeOK, [TicketNext]_ticketVars PROVE TicketTypeOK'
  OBVIOUS
<1> USE TicketAssumption, WorkRows DEF TicketTypeOK, Written, NoWork, Refusal
<1>1. CASE UNCHANGED ticketVars
  BY <1>1 DEF ticketVars
<1>2. CASE TicketRestart
  <2>1. \A d \in Desker : desker[d].pc = "tell" => desker[d].reply \in Reply
    BY ReplyCarried
  <2> QED
    BY <1>2, <2>1 DEF TicketRestart
<1>3. ASSUME NEW a \in Advice, AddSupportTicketMessage(a) PROVE TicketTypeOK'
  BY <1>3 DEF AddSupportTicketMessage
<1>4. ASSUME NEW s \in Line, JoinTicket(s) \/ LeaveTicket(s) PROVE TicketTypeOK'
  BY <1>4 DEF JoinTicket, LeaveTicket
<1>5. ASSUME NEW p \in Written \cup {"ticket"}, PostArrives(p) \/ PostFails(p) PROVE TicketTypeOK'
  <2>1. CASE PostArrives(p)
    <3>1. UNCHANGED <<filed, rows, advice, ticketRoom, heard, desker, due, refusals>>
      BY <2>1 DEF PostArrives
    <3>2. adminTicket' \in BOOLEAN
      BY <2>1 DEF PostArrives
    <3>3. adminRows' \subseteq Written /\ outbox' \cup dropped' \subseteq Written \cup {"ticket"}
      BY <2>1 DEF PostArrives
    <3> QED
      BY <3>1, <3>2, <3>3
  <2>2. CASE PostFails(p)
    BY <2>2 DEF PostFails
  <2> QED
    BY <1>5, <2>1, <2>2
<1>6. ASSUME NEW c \in Desker, NEW t \in Reply, NEW socket \in BOOLEAN, AddTicketMessage(c, t, socket)
      PROVE TicketTypeOK'
  BY <1>6, WorkGoesOn DEF AddTicketMessage
<1>7. ASSUME NEW c \in Desker, CreateTicket(c) PROVE TicketTypeOK'
  BY <1>7, WorkGoesOn DEF CreateTicket
<1>8. ASSUME NEW c \in Desker, DescribeTicket(c) PROVE TicketTypeOK'
  BY <1>8, WorkGoesOn DEF DescribeTicket
<1>9. ASSUME NEW c \in Desker, FileTicket(c) PROVE TicketTypeOK'
  BY <1>9, WorkGoesOn DEF FileTicket
<1>10. ASSUME NEW c \in Desker, StoreReply(c) PROVE TicketTypeOK'
  <2>1. desker[c].reply \in Reply /\ desker[c].socket \in BOOLEAN
    BY <1>10, ReplyCarried DEF StoreReply, Works
  <2>2. desker' \in [Desker -> DeskerRow]
    BY <1>10, <2>1, WorkGoesOn DEF StoreReply
  <2>3. due' \in [Line -> SUBSET Reply]
    BY <1>10, <2>1, RoomTyped DEF StoreReply
  <2> QED
    BY <1>10, <2>1, <2>2, <2>3 DEF StoreReply
<1>11. ASSUME NEW c \in Desker, TellReply(c) PROVE TicketTypeOK'
  <2>1. desker[c].reply \in Reply /\ desker[c].socket \in BOOLEAN
    BY <1>11, ReplyCarried DEF TellReply, Works
  <2>2. desker' \in [Desker -> DeskerRow]
    BY <1>11, WorkGoesOn DEF TellReply
  <2>3. heard' \in [Line -> SUBSET Reply]
    BY <1>11, <2>1, RoomTyped DEF TellReply
  <2> QED
    BY <1>11, <2>1, <2>2, <2>3 DEF TellReply
<1> QED
  BY <1>1, <1>2, <1>3, <1>4, <1>5, <1>6, <1>7, <1>8, <1>9, <1>10, <1>11 DEF TicketNext

(* A ticket is at the admin backend, on its way, or about to be sent.      *)
FilingKnown ==
    /\ "ticket" \in outbox \/ adminTicket \/ Filing => filed
    /\ adminTicket => Complaint \in adminRows
    /\ filed => adminTicket \/ Filing \/ "ticket" \in outbox \cup dropped

(* Replies are stored before they are told.                                *)
RepliesKnown ==
    /\ Complaint \notin outbox
    /\ outbox \ {"ticket"} \subseteq rows
    /\ adminRows \ {Complaint} \subseteq rows
    /\ \A c \in Desker : desker[c].pc = "tell" => desker[c].reply \in rows
    /\ \A t \in rows : t \in adminRows \cup outbox \cup dropped \/ Telling(t) \/ (t = Complaint /\ ~adminTicket)

(* What a socket is due, a call is about to show in its room.              *)
RoomKnown ==
    /\ ticketRoom \subseteq OwnLine
    /\ \A s \in Line :
          /\ heard[s] \subseteq rows
          /\ s \notin OwnLine => heard[s] = {}
          /\ \A t \in due[s] :
                /\ s \in ticketRoom
                /\ \/ t \in heard[s]
                   \/ \E c \in Desker : desker[c].pc = "tell" /\ desker[c].reply = t /\ desker[c].socket

TicketInv == TicketTypeOK /\ FilingKnown /\ RepliesKnown /\ RoomKnown

(* How the handlers of a ticket leave the calls in progress.               *)
LEMMA DeskerSteps ==
    ASSUME TicketTypeOK, NEW c \in Desker
    PROVE  /\ CreateTicket(c) =>
                 /\ desker'[c] = Work("describe")
                 /\ desker[c].pc = "resting" /\ \A o \in Desker \ {c} : desker'[o] = desker[o]
           /\ DescribeTicket(c) =>
                 /\ desker'[c] = Work("file")
                 /\ desker[c].pc = "describe" /\ \A o \in Desker \ {c} : desker'[o] = desker[o]
           /\ FileTicket(c) =>
                 /\ desker'[c] = NoWork
                 /\ desker[c].pc = "file" /\ \A o \in Desker \ {c} : desker'[o] = desker[o]
           /\ TellReply(c) =>
                 /\ desker'[c] = NoWork
                 /\ desker[c].pc = "tell" /\ \A o \in Desker \ {c} : desker'[o] = desker[o]
           /\ StoreReply(c) =>
                 /\ desker'[c] = [pc |-> "tell", reply |-> desker[c].reply, socket |-> desker[c].socket]
                 /\ desker[c].pc = "store" /\ \A o \in Desker \ {c} : desker'[o] = desker[o]
           /\ \A t \in Reply, b \in BOOLEAN : AddTicketMessage(c, t, b) =>
                 /\ desker'[c].pc = "store"
                 /\ desker[c].pc = "resting" /\ \A o \in Desker \ {c} : desker'[o] = desker[o]
BY DEF TicketTypeOK, Works, CreateTicket, DescribeTicket, FileTicket, TellReply, StoreReply, AddTicketMessage

LEMMA WorkPc == \A pc : Work(pc).pc = pc
BY DEF Work

(* Steps of the calls that neither store nor tell a reply.                 *)
FilingStep(c) == CreateTicket(c) \/ DescribeTicket(c) \/ FileTicket(c)

LEMMA FilingSteps ==
    ASSUME TicketInv, NEW c \in Desker, FilingStep(c)
    PROVE  FilingKnown' /\ RepliesKnown' /\ RoomKnown'
<1>1. TicketTypeOK
  BY DEF TicketInv
<1>2. /\ \A o \in Desker \ {c} : desker'[o] = desker[o]
      /\ desker[c].pc # "tell" /\ desker'[c].pc # "tell"
  BY <1>1, DeskerSteps, WorkPc DEF FilingStep, NoWork
<1>3. \A o \in Desker : desker[o].pc = "tell" \/ desker'[o].pc = "tell" => desker'[o] = desker[o]
  BY <1>2
<1>4. UNCHANGED <<ticketRoom, heard, due, adminRows, adminTicket, dropped>>
  BY DEF FilingStep, CreateTicket, DescribeTicket, FileTicket
<1>5. RoomKnown'
  <2>1. rows \subseteq rows'
    BY DEF FilingStep, CreateTicket, DescribeTicket, FileTicket
  <2> QED
    BY <1>3, <1>4, <2>1 DEF TicketInv, RoomKnown
<1>6. FilingKnown'
  <2>1. CASE CreateTicket(c)
    <3>0. desker'[c] = Work("describe")
      BY <1>1, <2>1, DeskerSteps
    <3>1. desker'[c].pc = "describe" /\ filed' /\ UNCHANGED outbox
      BY <2>1, <3>0 DEF CreateTicket, Work
    <3> QED
      BY <1>4, <3>1 DEF TicketInv, FilingKnown, Filing
  <2>2. CASE DescribeTicket(c)
    <3>0. desker[c].pc = "describe" /\ desker'[c] = Work("file")
      BY <1>1, <2>2, DeskerSteps
    <3>1. desker[c].pc = "describe" /\ desker'[c].pc = "file" /\ UNCHANGED <<outbox, filed>>
      BY <2>2, <3>0 DEF DescribeTicket, Work
    <3> QED
      BY <1>2, <1>4, <3>1 DEF TicketInv, FilingKnown, Filing
  <2>3. CASE FileTicket(c)
    <3>1. desker[c].pc = "file" /\ outbox' = outbox \cup {"ticket"} /\ UNCHANGED filed
      BY <1>1, <2>3, DeskerSteps DEF FileTicket
    <3> QED
      BY <1>2, <1>4, <3>1 DEF TicketInv, FilingKnown, Filing
  <2> QED
    BY <2>1, <2>2, <2>3 DEF FilingStep
<1>7. RepliesKnown'
  <2>1. \A t : Telling(t) => Telling(t)'
    BY <1>3 DEF Telling
  <2>2. Complaint # "ticket"
    BY TicketAssumption
  <2>3. outbox \subseteq outbox' /\ outbox' \subseteq outbox \cup {"ticket"}
    BY DEF FilingStep, CreateTicket, DescribeTicket, FileTicket
  <2>4. rows \subseteq rows' /\ rows' \subseteq rows \cup {Complaint}
    BY DEF FilingStep, CreateTicket, DescribeTicket, FileTicket
  <2>5. adminTicket => Complaint \in adminRows
    BY DEF TicketInv, FilingKnown
  <2>6. /\ Complaint \notin outbox /\ outbox \ {"ticket"} \subseteq rows
        /\ adminRows \ {Complaint} \subseteq rows
        /\ \A o \in Desker : desker[o].pc = "tell" => desker[o].reply \in rows
        /\ \A t \in rows : t \in adminRows \cup outbox \cup dropped \/ Telling(t) \/ (t = Complaint /\ ~adminTicket)
    BY DEF TicketInv, RepliesKnown
  <2>7. \A t \in rows' : t \in adminRows \cup outbox' \cup dropped \/ Telling(t)' \/ (t = Complaint /\ ~adminTicket)
    BY <2>1, <2>3, <2>4, <2>5, <2>6
  <2>8. \A o \in Desker : desker'[o].pc = "tell" => desker'[o].reply \in rows'
    BY <1>3, <2>4, <2>6
  <2> QED
    BY <1>4, <2>2, <2>3, <2>4, <2>6, <2>7, <2>8 DEF RepliesKnown
<1> QED
  BY <1>5, <1>6, <1>7

LEMMA ReplyStored ==
    ASSUME TicketInv, NEW c \in Desker, StoreReply(c)
    PROVE  FilingKnown' /\ RepliesKnown' /\ RoomKnown'
<1>1. TicketTypeOK
  BY DEF TicketInv
<1> DEFINE t == desker[c].reply
<1>2. /\ desker[c].pc = "store" /\ desker'[c].pc = "tell" /\ desker'[c].reply = t
      /\ desker'[c].socket = desker[c].socket
      /\ \A o \in Desker \ {c} : desker'[o] = desker[o]
  <2>1. /\ desker'[c] = [pc |-> "tell", reply |-> t, socket |-> desker[c].socket]
        /\ desker[c].pc = "store" /\ \A o \in Desker \ {c} : desker'[o] = desker[o]
    BY <1>1, DeskerSteps
  <2> QED
    BY <2>1
<1>3. t \in Reply /\ desker[c].socket \in BOOLEAN
  BY <1>1, <1>2, ReplyCarried
<1>4. \A o \in Desker : desker[o].pc # "store" => desker'[o] = desker[o]
  BY <1>2
<1>5. /\ rows' = rows \cup {t}
      /\ UNCHANGED <<filed, ticketRoom, heard, outbox, adminTicket, adminRows, dropped>>
  BY DEF StoreReply
<1>6. FilingKnown'
  <2>1. Filing' <=> Filing
    BY <1>2 DEF Filing
  <2> QED
    BY <1>5, <2>1 DEF TicketInv, FilingKnown
<1>7. RepliesKnown'
  <2>1. \A u : Telling(u) => Telling(u)'
    BY <1>4 DEF Telling
  <2>3. \A o \in Desker : desker'[o].pc = "tell" => desker'[o].reply \in rows'
    BY <1>2, <1>5 DEF TicketInv, RepliesKnown
  <2>4. /\ Complaint \notin outbox /\ outbox \ {"ticket"} \subseteq rows
        /\ adminRows \ {Complaint} \subseteq rows
        /\ \A u \in rows : u \in adminRows \cup outbox \cup dropped \/ Telling(u) \/ (u = Complaint /\ ~adminTicket)
    BY DEF TicketInv, RepliesKnown
  <2>5. ASSUME NEW u \in rows'
        PROVE  u \in adminRows \cup outbox \cup dropped \/ Telling(u)' \/ (u = Complaint /\ ~adminTicket)
    <3>1. CASE u \in rows
      BY <3>1, <2>1, <2>4
    <3>2. CASE u = t
      BY <3>2, <1>2 DEF Telling
    <3> QED
      BY <2>5, <1>5, <3>1, <3>2
  <2>6. outbox \ {"ticket"} \subseteq rows' /\ adminRows \ {Complaint} \subseteq rows'
    BY <1>5, <2>4
  <2> QED
    BY <1>5, <2>3, <2>4, <2>5, <2>6 DEF RepliesKnown
<1>8. RoomKnown'
  <2>1. \A s \in Line : \A u \in due'[s] : u \in due[s] \/ (u = t /\ desker[c].socket /\ s \in ticketRoom)
    BY <1>1, <1>3 DEF StoreReply, InRoom, TicketTypeOK
  <2>2. \A s \in Line : heard'[s] \subseteq rows' /\ (s \notin OwnLine => heard'[s] = {})
    BY <1>5 DEF TicketInv, RoomKnown
  <2>3. ASSUME NEW s \in Line, NEW u \in due'[s]
        PROVE  /\ s \in ticketRoom'
               /\ u \in heard'[s] \/ \E o \in Desker : desker'[o].pc = "tell" /\ desker'[o].reply = u /\ desker'[o].socket
    <3>1. CASE u \in due[s]
      BY <3>1, <1>4, <1>5 DEF TicketInv, RoomKnown
    <3>2. CASE u = t /\ desker[c].socket /\ s \in ticketRoom
      BY <3>2, <1>2, <1>5
    <3> QED
      BY <2>1, <2>3, <3>1, <3>2
  <2>4. ticketRoom' \subseteq OwnLine
    BY <1>5 DEF TicketInv, RoomKnown
  <2> QED
    BY <2>2, <2>3, <2>4 DEF RoomKnown
<1> QED
  BY <1>6, <1>7, <1>8

LEMMA ReplyTold ==
    ASSUME TicketInv, NEW c \in Desker, TellReply(c)
    PROVE  FilingKnown' /\ RepliesKnown' /\ RoomKnown'
<1>1. TicketTypeOK
  BY DEF TicketInv
<1> DEFINE t == desker[c].reply
<1>2. /\ desker[c].pc = "tell" /\ desker'[c].pc = "resting"
      /\ \A o \in Desker \ {c} : desker'[o] = desker[o]
  <2>1. /\ desker'[c] = Work("resting")
        /\ desker[c].pc = "tell" /\ \A o \in Desker \ {c} : desker'[o] = desker[o]
    BY <1>1, DeskerSteps DEF NoWork
  <2> QED
    BY <2>1 DEF Work
<1>3. t \in Reply /\ desker[c].socket \in BOOLEAN /\ t \in rows
  BY <1>1, <1>2, ReplyCarried DEF TicketInv, RepliesKnown
<1>4. /\ outbox' = outbox \cup {t}
      /\ UNCHANGED <<filed, rows, ticketRoom, adminTicket, adminRows, dropped, due>>
  BY DEF TellReply
<1>5. t # "ticket" /\ t # Complaint /\ Complaint # "ticket"
  BY <1>3, TicketAssumption
<1>6. FilingKnown'
  <2>1. Filing' <=> Filing
    BY <1>2 DEF Filing
  <2> QED
    BY <1>4, <1>5, <2>1 DEF TicketInv, FilingKnown
<1>7. RepliesKnown'
  <2>1. \A u : Telling(u) => Telling(u)' \/ u = t
    BY <1>2 DEF Telling
  <2>2. \A o \in Desker : desker'[o].pc = "tell" => desker'[o].reply \in rows'
    BY <1>2, <1>4 DEF TicketInv, RepliesKnown
  <2> QED
    BY <1>3, <1>4, <1>5, <2>1, <2>2 DEF TicketInv, RepliesKnown
<1>8. RoomKnown'
  <2>1. \A s \in Line :
           /\ heard[s] \subseteq heard'[s] /\ heard'[s] \subseteq heard[s] \cup {t}
           /\ s \notin ticketRoom => heard'[s] = heard[s]
           /\ desker[c].socket /\ s \in ticketRoom => t \in heard'[s]
    BY <1>1, <1>3 DEF TellReply, InRoom, TicketTypeOK
  <2>2. ticketRoom' \subseteq OwnLine
    BY <1>4 DEF TicketInv, RoomKnown
  <2>3. \A s \in Line : heard'[s] \subseteq rows' /\ (s \notin OwnLine => heard'[s] = {})
    BY <1>3, <1>4, <2>1 DEF TicketInv, RoomKnown
  <2>4. ASSUME NEW s \in Line, NEW u \in due'[s]
        PROVE  /\ s \in ticketRoom'
               /\ u \in heard'[s] \/ \E o \in Desker : desker'[o].pc = "tell" /\ desker'[o].reply = u /\ desker'[o].socket
    <3>1. s \in ticketRoom /\ s \in ticketRoom'
      BY <2>4, <1>4 DEF TicketInv, RoomKnown
    <3>2. CASE u \in heard[s]
      BY <3>1, <3>2, <2>1
    <3>3. CASE \E o \in Desker : desker[o].pc = "tell" /\ desker[o].reply = u /\ desker[o].socket
      <4>1. PICK o \in Desker : desker[o].pc = "tell" /\ desker[o].reply = u /\ desker[o].socket
        BY <3>3
      <4>2. CASE o = c
        BY <4>1, <4>2, <3>1, <2>1
      <4>3. CASE o # c
        BY <4>1, <4>3, <3>1, <1>2
      <4> QED
        BY <4>2, <4>3
    <3> QED
      BY <2>4, <1>4, <3>2, <3>3 DEF TicketInv, RoomKnown
  <2> QED
    BY <2>2, <2>3, <2>4 DEF RoomKnown
<1> QED
  BY <1>6, <1>7, <1>8

LEMMA TicketInvNext == TicketInv /\ [TicketNext]_ticketVars => TicketInv'
<1> SUFFICES ASSUME TicketInv, [TicketNext]_ticketVars PROVE FilingKnown' /\ RepliesKnown' /\ RoomKnown'
  BY TicketTypeNext DEF TicketInv
<1>0. TicketTypeOK /\ Complaint # "ticket"
  BY TicketAssumption DEF TicketInv
<1>t. "ticket" \notin rows
  BY TicketAssumption DEF TicketInv, TicketTypeOK, Written
<1> DEFINE Rest == UNCHANGED <<filed, rows, ticketRoom, heard, desker, outbox, adminTicket, adminRows, dropped, due>>
<1>1. CASE Rest
  BY <1>1 DEF TicketInv, FilingKnown, RepliesKnown, RoomKnown, Filing, Telling
<1>2. UNCHANGED ticketVars \/ (\E a \in Advice : AddSupportTicketMessage(a)) => Rest
  BY DEF ticketVars, AddSupportTicketMessage
<1> HIDE DEF Rest
<1>3. CASE TicketRestart
  <2>1. \A o \in Desker : desker'[o].pc = "resting"
    BY <1>3, WorkPc DEF TicketRestart, NoWork
  <2>2. ~Filing' /\ \A t : ~Telling(t)'
    BY <2>1 DEF Filing, Telling
  <2>3. /\ outbox' = {} /\ ticketRoom' = {} /\ heard' = [s \in Line |-> {}] /\ due' = [s \in Line |-> {}]
        /\ UNCHANGED <<filed, rows, adminTicket, adminRows>>
    BY <1>3 DEF TicketRestart
  <2>4. /\ dropped \cup outbox \subseteq dropped'
        /\ \A t : Telling(t) => t \in dropped'
        /\ Filing => "ticket" \in dropped'
    BY <1>3 DEF TicketRestart, Telling, Filing
  <2>5. FilingKnown'
    BY <2>2, <2>3, <2>4 DEF TicketInv, FilingKnown
  <2>6. RepliesKnown'
    BY <2>1, <2>2, <2>3, <2>4 DEF TicketInv, RepliesKnown
  <2>7. RoomKnown'
    BY <2>3 DEF TicketInv, RoomKnown
  <2> QED
    BY <2>5, <2>6, <2>7
<1>4. ASSUME NEW s \in Line, JoinTicket(s) \/ LeaveTicket(s)
      PROVE  FilingKnown' /\ RepliesKnown' /\ RoomKnown'
  <2>1. UNCHANGED <<filed, rows, desker, outbox, adminTicket, adminRows, dropped>>
    BY <1>4 DEF JoinTicket, LeaveTicket
  <2>2. FilingKnown' /\ RepliesKnown'
    BY <2>1 DEF TicketInv, FilingKnown, RepliesKnown, Filing, Telling
  <2>3. RoomKnown'
    <3>1. CASE JoinTicket(s)
      BY <3>1, <2>1 DEF JoinTicket, TicketInv, RoomKnown
    <3>2. CASE LeaveTicket(s)
      BY <1>0, <3>2, <2>1 DEF LeaveTicket, TicketInv, RoomKnown, TicketTypeOK
    <3> QED
      BY <1>4, <3>1, <3>2
  <2> QED
    BY <2>2, <2>3
<1>5. ASSUME NEW p \in Written \cup {"ticket"}, PostArrives(p) \/ PostFails(p)
      PROVE  FilingKnown' /\ RepliesKnown' /\ RoomKnown'
  <2>1. p \in outbox /\ outbox' = outbox \ {p} /\ UNCHANGED <<filed, rows, ticketRoom, heard, desker, due>>
    BY <1>5 DEF PostArrives, PostFails
  <2>2. RoomKnown'
    BY <2>1 DEF TicketInv, RoomKnown
  <2>3. CASE PostArrives(p) /\ p = "ticket"
    <3>1. adminTicket' /\ adminRows' = adminRows \cup {Complaint} /\ UNCHANGED dropped
      BY <2>3 DEF PostArrives
    <3>2. FilingKnown'
      BY <2>1, <2>3, <3>1 DEF TicketInv, FilingKnown, Filing
    <3>3. RepliesKnown'
      <4>1. /\ Complaint \notin outbox /\ outbox \ {"ticket"} \subseteq rows
              /\ adminRows \ {Complaint} \subseteq rows
              /\ \A u \in rows : u \in adminRows \cup outbox \cup dropped \/ Telling(u) \/ (u = Complaint /\ ~adminTicket)
        BY DEF TicketInv, RepliesKnown
      <4>2. \A u : Telling(u)' <=> Telling(u)
        BY <2>1 DEF Telling
      <4>3. ASSUME NEW u \in rows' PROVE u \in adminRows' \cup outbox' \cup dropped' \/ Telling(u)'
        <5>1. u \in rows /\ (Telling(u) => Telling(u)')
          BY <2>1, <4>2
        <5>2. u \in adminRows \cup outbox \cup dropped \/ u = Complaint => u \in adminRows' \cup outbox' \cup dropped' \cup {p}
          BY <2>1, <3>1
        <5>3. u # p
          BY <5>1, <1>0, <2>3, <1>t
        <5> QED
          BY <4>1, <5>1, <5>2, <5>3
      <4>4. \A o \in Desker : desker'[o].pc = "tell" => desker'[o].reply \in rows'
        BY <2>1 DEF TicketInv, RepliesKnown
      <4>5. /\ Complaint \notin outbox' /\ outbox' \ {"ticket"} \subseteq rows'
            /\ adminRows' \ {Complaint} \subseteq rows'
        BY <2>1, <3>1, <4>1
      <4> QED
        BY <4>3, <4>4, <4>5 DEF RepliesKnown
    <3> QED
      BY <2>2, <3>2, <3>3
  <2>4. CASE (PostArrives(p) /\ p # "ticket") \/ PostFails(p)
    <3>1. /\ UNCHANGED adminTicket
          /\ dropped \subseteq dropped' /\ dropped' \subseteq dropped \cup {p}
          /\ adminRows \subseteq adminRows' /\ adminRows' \subseteq adminRows \cup {p}
          /\ p \in dropped' \cup adminRows'
          /\ adminRows' # adminRows => p # "ticket"
          /\ p = "ticket" => p \in dropped'
      BY <2>4 DEF PostArrives, PostFails
    <3>2. FilingKnown'
      BY <2>1, <3>1 DEF TicketInv, FilingKnown, Filing
    <3>3. RepliesKnown'
      BY <1>0, <2>1, <3>1 DEF TicketInv, RepliesKnown, Telling
    <3> QED
      BY <2>2, <3>2, <3>3
  <2> QED
    BY <1>5, <2>3, <2>4
<1>6. ASSUME NEW c \in Desker, NEW t \in Reply, NEW socket \in BOOLEAN, AddTicketMessage(c, t, socket)
      PROVE  FilingKnown' /\ RepliesKnown' /\ RoomKnown'
  <2>1. /\ desker[c].pc = "resting" /\ desker'[c].pc = "store"
        /\ \A o \in Desker \ {c} : desker'[o] = desker[o]
    BY <1>0, <1>6, DeskerSteps
  <2>2. UNCHANGED <<filed, rows, ticketRoom, heard, outbox, adminTicket, adminRows, dropped, due>>
    BY <1>6 DEF AddTicketMessage
  <2>3. \A o \in Desker : desker[o].pc \in {"describe", "file", "tell"} \/ desker'[o].pc \in {"describe", "file", "tell"}
                             => desker'[o] = desker[o]
    BY <2>1
  <2>4. (Filing' <=> Filing) /\ \A u : Telling(u)' <=> Telling(u)
    BY <2>3 DEF Filing, Telling
  <2>5. FilingKnown'
    BY <2>2, <2>4 DEF TicketInv, FilingKnown
  <2>6. RepliesKnown'
    BY <2>2, <2>3, <2>4 DEF TicketInv, RepliesKnown
  <2>7. RoomKnown'
    BY <2>2, <2>3 DEF TicketInv, RoomKnown
  <2> QED
    BY <2>5, <2>6, <2>7
<1> QED
  BY <1>1, <1>2, <1>3, <1>4, <1>5, <1>6, FilingSteps, ReplyStored, ReplyTold DEF TicketNext, FilingStep

(* Whatever is stored of a ticket reaches the admin backend, is on its way *)
(* or had its one post fail; and its room hears what was said in it.       *)
THEOREM TicketsReachAdmin == TicketSpec => [](TicketTypeOK /\ TicketReachesAdmin)
<1>1. TicketInit => TicketInv
  <2> SUFFICES ASSUME TicketInit PROVE TicketInv
    OBVIOUS
  <2>1. \A c \in Desker : desker[c].pc = "resting"
    BY WorkPc DEF TicketInit, NoWork
  <2> QED
    BY <2>1, TicketTypeInit DEF TicketInit, TicketInv, FilingKnown, RepliesKnown, RoomKnown, Filing
<1>2. TicketInv => TicketTypeOK /\ TicketReachesAdmin
  BY DEF TicketInv, FilingKnown, RepliesKnown, RoomKnown, TicketReachesAdmin, Telling
<1> QED
  BY <1>1, <1>2, TicketInvNext, PTL DEF TicketSpec

-------------------------------------------------------------------------------
(* The chat *)

BeforeStored == {"check", "establish", "persist"}

LEMMA SenderRows ==
    /\ NoSend \in SenderRow
    /\ \A pc \in BeforeStored \cup {"announce"}, t \in Text, b \in BOOLEAN :
          [pc |-> pc, text |-> t, socket |-> b] \in SenderRow
    /\ \A pc \in {"resting", "find", "fetch"} : [pc |-> pc, text |-> "none", socket |-> FALSE] \in SenderRow
BY DEF NoSend, SenderRow, BeforeStored

(* A call carries a message of the companion until it has shown it.        *)
LEMMA TextCarried ==
    ASSUME ChatTypeOK, NEW c \in Sender
    PROVE  /\ sender[c].pc \in BeforeStored \cup {"announce"} => sender[c].text \in Text /\ sender[c].socket \in BOOLEAN
           /\ sender[c].pc \notin BeforeStored \cup {"announce"} => sender[c].text = "none" /\ sender[c].socket = FALSE
           /\ sender[c].text \in Text => sender[c].pc \in BeforeStored \cup {"announce"}
<1>1. sender[c] \in SenderRow
  BY DEF ChatTypeOK
<1> QED
  BY <1>1, ChatAssumption DEF SenderRow, BeforeStored

(* What a step makes of the call c: a message sets out, ...                *)
SetsOut(c) ==
    \E t \in pending, b \in BOOLEAN :
        /\ sender[c] = NoSend
        /\ sender' = [sender EXCEPT ![c] = [pc |-> "check", text |-> t, socket |-> b]]
        /\ pending' = pending \ {t}
        /\ UNCHANGED <<phase, sessionRoom, store, shown, loaded, orphaned, awaited, overtime>>

(* ... passes the check, ...                                               *)
Passes(c) ==
    /\ sender[c].pc = "check"
    /\ phase = "messaging"
    /\ sender' = [sender EXCEPT ![c] = [pc |-> "establish", text |-> sender[c].text, socket |-> sender[c].socket]]
    /\ UNCHANGED <<phase, pending, sessionRoom, store, shown, loaded, orphaned, awaited, overtime>>

(* ... or the conversation's post, ...                                     *)
FindsOpen(c) ==
    /\ sender[c].pc = "establish"
    /\ sender' = [sender EXCEPT ![c] = [pc |-> "persist", text |-> sender[c].text, socket |-> sender[c].socket]]
    /\ UNCHANGED <<phase, pending, sessionRoom, store, shown, loaded, orphaned, awaited, overtime>>

(* ... is refused without being stored, ...                                *)
GivesUp(c) ==
    /\ sender[c].pc \in BeforeStored
    /\ Refuses(c)
    /\ UNCHANGED <<phase, sessionRoom, store, shown, loaded, orphaned, awaited, overtime>>

Counts == overtime' = IF phase = "over" THEN overtime + 1 ELSE overtime

(* ... is stored, ...                                                      *)
IsStored(c) ==
    /\ sender[c].pc = "persist"
    /\ sender' = [sender EXCEPT ![c] = [pc |-> "announce", text |-> sender[c].text, socket |-> sender[c].socket]]
    /\ store' = [store EXCEPT ![sender[c].text] = @ + 1]
    /\ Counts
    /\ awaited' = [s \in Socket |-> IF s \in sessionRoom THEN awaited[s] \cup {sender[c].text} ELSE awaited[s]]
    /\ UNCHANGED <<phase, pending, sessionRoom, shown, loaded, orphaned>>

(* ... is stored and refused, ...                                          *)
IsOrphaned(c) ==
    /\ sender[c].pc = "persist"
    /\ Refuses(c)
    /\ store' = [store EXCEPT ![sender[c].text] = @ + 1]
    /\ Counts
    /\ orphaned' = [orphaned EXCEPT ![sender[c].text] = @ + 1]
    /\ UNCHANGED <<phase, sessionRoom, shown, loaded, awaited>>

(* ... is shown, its answer arriving or not;                               *)
IsShown(c) ==
    /\ AnnounceMessage(c)
    /\ UNCHANGED <<phase, sessionRoom, store, loaded, awaited, overtime>>

(* or the call loads the history.                                          *)
Loads(c) ==
    /\ sender[c].text = "none"
    /\ \E pc \in {"resting", "find", "fetch"} :
          sender' = [sender EXCEPT ![c] = [pc |-> pc, text |-> "none", socket |-> FALSE]]
    /\ loaded' \subseteq {m \in Message : store[m] > 0} \/ UNCHANGED loaded
    /\ loaded' \in SUBSET Message
    /\ UNCHANGED <<phase, pending, sessionRoom, store, shown, orphaned, awaited, overtime>>

SenderActs(c) ==
    \/ \E t \in Text, socket \in BOOLEAN : SendChat(c, t, socket)
    \/ CheckSession(c) \/ EstablishConversation(c) \/ PersistMessage(c) \/ AnnounceMessage(c)
    \/ LoadHistory(c) \/ FindConversation(c) \/ FetchMessages(c)

LEMMA SenderKinds ==
    ASSUME ChatTypeOK, NEW c \in Sender, SenderActs(c)
    PROVE  \/ SetsOut(c) \/ Passes(c) \/ FindsOpen(c) \/ GivesUp(c)
           \/ IsStored(c) \/ IsOrphaned(c) \/ IsShown(c) \/ Loads(c)
<1>1. ASSUME NEW t \in Text, NEW socket \in BOOLEAN, SendChat(c, t, socket) PROVE SetsOut(c)
  <2>1. t \in pending /\ pending' = pending \ {t}
    BY <1>1 DEF SendChat
  <2>2. sender[c] = NoSend /\ sender' = [sender EXCEPT ![c] = [pc |-> "check", text |-> t, socket |-> socket]]
    BY <1>1 DEF SendChat, StartsCall
  <2>3. UNCHANGED <<phase, sessionRoom, store, shown, loaded, orphaned, awaited, overtime>>
    BY <1>1 DEF SendChat
  <2> QED
    BY <2>1, <2>2, <2>3 DEF SetsOut
<1>2. CASE CheckSession(c)
  <2>1. CASE phase = "messaging"
    BY <1>2, <2>1 DEF CheckSession, Goes, Passes
  <2>2. CASE phase # "messaging"
    BY <1>2, <2>2 DEF CheckSession, GivesUp, BeforeStored
  <2> QED
    BY <2>1, <2>2
<1>3. CASE EstablishConversation(c)
  BY <1>3 DEF EstablishConversation, Goes, FindsOpen, GivesUp, BeforeStored
<1>4. CASE PersistMessage(c)
  BY <1>4 DEF PersistMessage, Goes, IsStored, IsOrphaned, GivesUp, BeforeStored, Counts
<1>5. CASE AnnounceMessage(c)
  BY <1>5 DEF AnnounceMessage, IsShown
<1>6. CASE LoadHistory(c)
  <2>1. sender[c].text = "none"
    BY <1>6 DEF LoadHistory, StartsCall, NoSend
  <2>2. sender' = [sender EXCEPT ![c] = [pc |-> "find", text |-> "none", socket |-> FALSE]]
    BY <1>6 DEF LoadHistory, StartsCall
  <2>3. UNCHANGED <<phase, pending, sessionRoom, store, shown, loaded, orphaned, awaited, overtime>>
    BY <1>6 DEF LoadHistory
  <2> QED
    BY <2>1, <2>2, <2>3 DEF Loads, ChatTypeOK
<1>7. CASE FindConversation(c)
  <2>1. sender[c].text = "none" /\ sender[c].socket = FALSE
    BY <1>7, TextCarried DEF FindConversation, BeforeStored
  <2> QED
    BY <1>7, <2>1 DEF FindConversation, Goes, Loads, ChatTypeOK
<1>8. CASE FetchMessages(c)
  <2>1. sender[c].text = "none" /\ sender[c].socket = FALSE
    BY <1>8, TextCarried DEF FetchMessages, BeforeStored
  <2> QED
    BY <1>8, <2>1 DEF FetchMessages, Goes, Loads
<1> QED
  BY <1>1, <1>2, <1>3, <1>4, <1>5, <1>6, <1>7, <1>8 DEF SenderActs

LEMMA ChatTypeInit == ChatInit => ChatTypeOK
<1> SUFFICES ASSUME ChatInit PROVE ChatTypeOK
  OBVIOUS
<1>1. sender \in [Sender -> SenderRow]
  BY SenderRows DEF ChatInit
<1>2. store \in [Message -> Nat] /\ shown \in [Socket -> [Message -> Nat]]
  BY DEF ChatInit, Unheard
<1>3. orphaned \in [Text -> Nat] /\ awaited \in [Socket -> SUBSET Text]
  BY DEF ChatInit
<1>4. {sends, relays, faults} \subseteq Nat /\ overtime \in Nat
  BY DEF ChatInit
<1>5. /\ phase \in {"messaging", "between", "over"} /\ sessionRoom \subseteq Socket /\ conversation \in BOOLEAN
      /\ loaded \subseteq Message /\ pending \subseteq Text
  BY DEF ChatInit
<1> QED
  BY <1>1, <1>2, <1>3, <1>4, <1>5 DEF ChatTypeOK

LEMMA Counting ==
    ASSUME NEW S, NEW g \in [S -> Nat], NEW m \in S, NEW k \in Nat
    PROVE  [g EXCEPT ![m] = @ + k] \in [S -> Nat]
OBVIOUS

LEMMA Broadcasting ==
    ASSUME ChatTypeOK, NEW m \in Message, NEW k \in Nat, Broadcasts(m, k)
    PROVE  /\ shown' \in [Socket -> [Message -> Nat]]
           /\ \A s \in Socket, n \in Message :
                 shown'[s][n] = IF s \in sessionRoom /\ n = m THEN shown[s][n] + k ELSE shown[s][n]
<1>1. \A s \in Socket : shown[s] \in [Message -> Nat]
  BY DEF ChatTypeOK
<1>2. \A s \in Socket : [shown[s] EXCEPT ![m] = @ + k] \in [Message -> Nat]
  BY <1>1, Counting
<1>3. shown' = [s \in Socket |-> IF s \in sessionRoom THEN [shown[s] EXCEPT ![m] = @ + k] ELSE shown[s]]
  BY DEF Broadcasts
<1>4. shown' \in [Socket -> [Message -> Nat]]
  BY <1>1, <1>2, <1>3
<1>5. ASSUME NEW s \in Socket, NEW n \in Message
      PROVE  shown'[s][n] = IF s \in sessionRoom /\ n = m THEN shown[s][n] + k ELSE shown[s][n]
  BY <1>1, <1>3
<1> QED
  BY <1>4, <1>5

(* Where the call c is after its step.                                     *)
LEMMA SenderGoes ==
    ASSUME ChatTypeOK, NEW c \in Sender, NEW pc, NEW t, NEW b, [pc |-> pc, text |-> t, socket |-> b] \in SenderRow,
           sender' = [sender EXCEPT ![c] = [pc |-> pc, text |-> t, socket |-> b]]
    PROVE  /\ sender' \in [Sender -> SenderRow]
           /\ sender'[c].pc = pc /\ sender'[c].text = t
           /\ \A o \in Sender \ {c} : sender'[o] = sender[o]
<1>1. /\ sender' \in [Sender -> SenderRow]
      /\ sender'[c] = [pc |-> pc, text |-> t, socket |-> b]
      /\ \A o \in Sender \ {c} : sender'[o] = sender[o]
  BY DEF ChatTypeOK
<1> QED
  BY <1>1

LEMMA RefusalGoes ==
    ASSUME ChatTypeOK, NEW c \in Sender, sender' = [sender EXCEPT ![c] = NoSend]
    PROVE  /\ sender' \in [Sender -> SenderRow]
           /\ sender'[c].pc = "resting" /\ sender'[c].text = "none"
           /\ \A o \in Sender \ {c} : sender'[o] = sender[o]
BY SenderRows, SenderGoes DEF NoSend

SenderKind(c) ==
    \/ SetsOut(c) \/ Passes(c) \/ FindsOpen(c) \/ GivesUp(c)
    \/ IsStored(c) \/ IsOrphaned(c) \/ IsShown(c) \/ Loads(c)

(* The calls after a step of c.                                            *)
LEMMA SenderStep ==
    ASSUME ChatTypeOK, NEW c \in Sender
    PROVE  /\ SenderKind(c) =>
                 /\ sender' \in [Sender -> SenderRow]
                 /\ \A o \in Sender \ {c} : sender'[o] = sender[o]
           /\ SetsOut(c) => sender[c].pc = "resting" /\ sender'[c].pc = "check" /\ sender'[c].text \in pending
                                /\ pending' = pending \ {sender'[c].text}
           /\ Passes(c) => sender'[c].pc = "establish" /\ sender'[c].text = sender[c].text
           /\ FindsOpen(c) => sender'[c].pc = "persist" /\ sender'[c].text = sender[c].text
           /\ GivesUp(c) \/ IsOrphaned(c) \/ IsShown(c) => sender'[c].pc = "resting" /\ sender'[c].text = "none"
           /\ IsStored(c) => sender'[c].pc = "announce" /\ sender'[c].text = sender[c].text
           /\ Loads(c) => sender'[c].pc \in {"resting", "find", "fetch"} /\ sender'[c].text = "none"
                             /\ sender[c].text = "none"
<1> DEFINE Others == sender' \in [Sender -> SenderRow] /\ \A o \in Sender \ {c} : sender'[o] = sender[o]
<1>1. ASSUME SetsOut(c)
      PROVE  /\ Others
             /\ sender[c].pc = "resting" /\ sender'[c].pc = "check" /\ sender'[c].text \in pending
             /\ pending' = pending \ {sender'[c].text}
  <2>1. PICK t \in pending, b \in BOOLEAN :
           /\ sender[c] = NoSend /\ pending' = pending \ {t}
           /\ sender' = [sender EXCEPT ![c] = [pc |-> "check", text |-> t, socket |-> b]]
    BY <1>1 DEF SetsOut
  <2>2. [pc |-> "check", text |-> t, socket |-> b] \in SenderRow
    BY SenderRows DEF ChatTypeOK, BeforeStored
  <2>3. Others /\ sender'[c].pc = "check" /\ sender'[c].text = t
    BY <2>1, <2>2, SenderGoes
  <2>4. sender[c].pc = "resting"
    BY <2>1 DEF NoSend
  <2> QED
    BY <2>1, <2>3, <2>4
<1>2. ASSUME NEW from \in BeforeStored, NEW pc \in {"establish", "persist", "announce"}, sender[c].pc = from,
             sender' = [sender EXCEPT ![c] = [pc |-> pc, text |-> sender[c].text, socket |-> sender[c].socket]]
      PROVE  Others /\ sender'[c].pc = pc /\ sender'[c].text = sender[c].text
  <2>1. sender[c].text \in Text /\ sender[c].socket \in BOOLEAN
    BY <1>2, TextCarried
  <2>2. [pc |-> pc, text |-> sender[c].text, socket |-> sender[c].socket] \in SenderRow
    BY <2>1, SenderRows DEF BeforeStored
  <2> QED
    BY <1>2, <2>2, SenderGoes
<1>3. ASSUME Passes(c) PROVE Others /\ sender'[c].pc = "establish" /\ sender'[c].text = sender[c].text
  BY <1>3, <1>2 DEF Passes, BeforeStored
<1>4. ASSUME FindsOpen(c) PROVE Others /\ sender'[c].pc = "persist" /\ sender'[c].text = sender[c].text
  BY <1>4, <1>2 DEF FindsOpen, BeforeStored
<1>5. ASSUME IsStored(c) PROVE Others /\ sender'[c].pc = "announce" /\ sender'[c].text = sender[c].text
  BY <1>5, <1>2 DEF IsStored, BeforeStored
<1>6. ASSUME GivesUp(c) \/ IsOrphaned(c) \/ IsShown(c)
      PROVE  Others /\ sender'[c].pc = "resting" /\ sender'[c].text = "none"
  <2>1. sender' = [sender EXCEPT ![c] = NoSend]
    BY <1>6 DEF GivesUp, IsOrphaned, IsShown, AnnounceMessage, Refuses
  <2> QED
    BY <2>1, RefusalGoes
<1>7. ASSUME Loads(c)
      PROVE  /\ Others
             /\ sender'[c].pc \in {"resting", "find", "fetch"} /\ sender'[c].text = "none"
             /\ sender[c].text = "none"
  <2>1. PICK pc \in {"resting", "find", "fetch"} :
           sender' = [sender EXCEPT ![c] = [pc |-> pc, text |-> "none", socket |-> FALSE]]
    BY <1>7 DEF Loads
  <2>2. [pc |-> pc, text |-> "none", socket |-> FALSE] \in SenderRow
    BY SenderRows
  <2>3. Others /\ sender'[c].pc = pc /\ sender'[c].text = "none"
    BY <2>1, <2>2, SenderGoes
  <2> QED
    BY <1>7, <2>3 DEF Loads
<1> HIDE DEF Others
<1>8. SenderKind(c) => Others
  BY <1>1, <1>3, <1>4, <1>5, <1>6, <1>7 DEF SenderKind
<1> QED
  BY <1>1, <1>3, <1>4, <1>5, <1>6, <1>7, <1>8 DEF Others

(* The store, the history of orphans and the sockets after a step of c.    *)
LEMMA SenderWrites ==
    ASSUME ChatTypeOK, NEW c \in Sender
    PROVE  /\ IsStored(c) \/ IsOrphaned(c) =>
                 /\ sender[c].pc = "persist" /\ sender[c].text \in Text /\ Counts
                 /\ store' \in [Message -> Nat]
                 /\ \A m \in Message : store'[m] = IF m = sender[c].text THEN store[m] + 1 ELSE store[m]
           /\ IsOrphaned(c) \/ (IsShown(c) /\ orphaned' # orphaned) =>
                 /\ orphaned' \in [Text -> Nat]
                 /\ \A t \in Text : orphaned'[t] = IF t = sender[c].text THEN orphaned[t] + 1 ELSE orphaned[t]
                 /\ pending' = pending \cup {sender[c].text}
           /\ IsShown(c) =>
                 /\ sender[c].pc = "announce" /\ sender[c].text \in Text
                 /\ shown' \in [Socket -> [Message -> Nat]]
                 /\ \E k \in {1, 2} : \A s \in Socket, m \in Message :
                       shown'[s][m] = IF s \in sessionRoom /\ m = sender[c].text THEN shown[s][m] + k ELSE shown[s][m]
<1>1. ASSUME sender[c].pc \in {"persist", "announce"}
      PROVE  sender[c].text \in Text /\ sender[c].text \in Message
  BY <1>1, TextCarried DEF BeforeStored, Message
<1>2. ASSUME IsStored(c) \/ IsOrphaned(c)
      PROVE  /\ sender[c].pc = "persist" /\ sender[c].text \in Text /\ Counts
             /\ store' \in [Message -> Nat]
             /\ \A m \in Message : store'[m] = IF m = sender[c].text THEN store[m] + 1 ELSE store[m]
  <2>1. /\ sender[c].pc = "persist" /\ Counts
        /\ store' = [store EXCEPT ![sender[c].text] = @ + 1]
    BY <1>2 DEF IsStored, IsOrphaned
  <2> QED
    BY <1>1, <2>1, Counting DEF ChatTypeOK
<1>3. ASSUME IsOrphaned(c) \/ (IsShown(c) /\ orphaned' # orphaned)
      PROVE  /\ orphaned' \in [Text -> Nat]
             /\ \A t \in Text : orphaned'[t] = IF t = sender[c].text THEN orphaned[t] + 1 ELSE orphaned[t]
             /\ pending' = pending \cup {sender[c].text}
  <2>1. /\ sender[c].pc \in {"persist", "announce"}
        /\ orphaned' = [orphaned EXCEPT ![sender[c].text] = @ + 1]
        /\ pending' = pending \cup {sender[c].text}
    BY <1>3 DEF IsOrphaned, IsShown, AnnounceMessage, Refuses
  <2> QED
    BY <1>1, <2>1, Counting DEF ChatTypeOK
<1>4. ASSUME IsShown(c)
      PROVE  /\ sender[c].pc = "announce" /\ sender[c].text \in Text
             /\ shown' \in [Socket -> [Message -> Nat]]
             /\ \E k \in {1, 2} : \A s \in Socket, m \in Message :
                   shown'[s][m] = IF s \in sessionRoom /\ m = sender[c].text THEN shown[s][m] + k ELSE shown[s][m]
  <2> DEFINE k == IF sender[c].socket THEN 2 ELSE 1
  <2>1. sender[c].pc = "announce" /\ Broadcasts(sender[c].text, k)
    BY <1>4 DEF IsShown, AnnounceMessage
  <2>2. k \in {1, 2} /\ k \in Nat
    OBVIOUS
  <2> HIDE DEF k
  <2> QED
    BY <1>1, <2>1, <2>2, Broadcasting
<1> QED
  BY <1>2, <1>3, <1>4

(* The app has a message to send, or one call carries it; and a copy that  *)
(* nobody was told had failed is there only once the call has stored it.   *)
CallsKnown ==
    /\ \A c, d \in Sender : sender[c].text \in Text /\ sender[d].text = sender[c].text => c = d
    /\ \A c \in Sender : sender[c].text \notin pending
    /\ \A t \in Text : store[t] <= orphaned[t] + 1
    /\ \A t \in pending : store[t] <= orphaned[t]
    /\ \A c \in Sender : sender[c].pc \in BeforeStored => store[sender[c].text] <= orphaned[sender[c].text]

(* What was sent to the sockets, and is about to be, is stored.            *)
ShownKnown ==
    /\ sessionRoom \subseteq OwnSocket
    /\ \A s \in Socket, m \in Message : shown[s][m] > 0 => s \in OwnSocket /\ store[m] > 0
    /\ \A s \in Socket, t \in Text : shown[s][t] <= 2 * store[t]
    /\ \A s \in Socket, c \in Sender :
          sender[c].pc = "announce" => shown[s][sender[c].text] + 2 <= 2 * store[sender[c].text]
    /\ \A s \in Socket : \A t \in awaited[s] : s \in sessionRoom /\ (shown[s][t] > 0 \/ Announcing(t))
    /\ \A m \in loaded : store[m] > 0

Passed == {c \in Sender : sender[c].pc \in {"establish", "persist"}}

(* Of the calls that found the session open, each stores one message.      *)
OvertimeKnown ==
    /\ overtime <= Cardinality(Sender)
    /\ phase = "over" => overtime + Cardinality(Passed) <= Cardinality(Sender)

ChatInv == ChatTypeOK /\ CallsKnown /\ ShownKnown /\ OvertimeKnown

LEMMA CallsKnownStep ==
    ASSUME ChatTypeOK, CallsKnown, NEW c \in Sender, SenderKind(c)
    PROVE  CallsKnown'
<1> DEFINE t == sender[c].text
<1>0. /\ store \in [Message -> Nat] /\ orphaned \in [Text -> Nat] /\ Text \subseteq Message
      /\ pending \subseteq Text /\ "none" \notin Text
  BY ChatAssumption DEF ChatTypeOK, Message
<1>1. \A o \in Sender : /\ sender[o].pc \in BeforeStored \cup {"announce"} => sender[o].text \in Text
                        /\ sender[o].pc \notin BeforeStored \cup {"announce"} => sender[o].text = "none"
  BY TextCarried
<1>2. \A o \in Sender \ {c} : sender'[o] = sender[o]
  BY SenderStep
<1>3. "resting" \notin BeforeStored /\ "announce" \notin BeforeStored
      /\ "find" \notin BeforeStored /\ "fetch" \notin BeforeStored
  BY DEF BeforeStored
<1>4. CASE SetsOut(c)
  <2>1. /\ sender'[c].pc = "check" /\ sender'[c].text \in pending /\ pending' = pending \ {sender'[c].text}
        /\ UNCHANGED <<store, orphaned>>
    BY <1>4, SenderStep DEF SetsOut
  <2> QED
    BY <1>0, <1>1, <1>2, <2>1 DEF CallsKnown
<1>5. CASE Passes(c) \/ FindsOpen(c)
  <2>1. /\ sender'[c].text = t /\ sender[c].pc \in BeforeStored /\ UNCHANGED <<pending, store, orphaned>>
    BY <1>5, SenderStep DEF Passes, FindsOpen, BeforeStored
  <2> QED
    BY <1>0, <1>1, <1>2, <2>1 DEF CallsKnown
<1>6. CASE GivesUp(c)
  <2>1. /\ sender'[c].pc = "resting" /\ sender'[c].text = "none" /\ sender[c].pc \in BeforeStored
        /\ pending' = pending \cup {t} /\ UNCHANGED <<store, orphaned>>
    BY <1>6, SenderStep DEF GivesUp, Refuses
  <2> QED
    BY <1>0, <1>1, <1>2, <1>3, <2>1 DEF CallsKnown
<1>7. CASE IsStored(c)
  <2>1. /\ sender'[c].pc = "announce" /\ sender'[c].text = t /\ sender[c].pc \in BeforeStored
        /\ t \in Text /\ UNCHANGED <<pending, orphaned>>
        /\ \A m \in Message : store'[m] = IF m = t THEN store[m] + 1 ELSE store[m]
    BY <1>7, SenderStep, SenderWrites DEF IsStored, BeforeStored
  <2> QED
    BY <1>0, <1>1, <1>2, <1>3, <2>1 DEF CallsKnown
<1>8. CASE IsOrphaned(c)
  <2>1. /\ sender'[c].pc = "resting" /\ sender'[c].text = "none" /\ sender[c].pc \in BeforeStored
        /\ t \in Text /\ pending' = pending \cup {t}
        /\ \A m \in Message : store'[m] = IF m = t THEN store[m] + 1 ELSE store[m]
        /\ \A u \in Text : orphaned'[u] = IF u = t THEN orphaned[u] + 1 ELSE orphaned[u]
    BY <1>8, SenderStep, SenderWrites DEF IsOrphaned, BeforeStored
  <2> QED
    BY <1>0, <1>1, <1>2, <1>3, <2>1 DEF CallsKnown
<1>9. CASE IsShown(c)
  <2>1. /\ sender'[c].pc = "resting" /\ sender'[c].text = "none" /\ sender[c].pc = "announce"
        /\ t \in Text /\ UNCHANGED store
    BY <1>9, SenderStep, SenderWrites DEF IsShown
  <2>2. CASE orphaned' # orphaned
    <3>1. /\ pending' = pending \cup {t}
          /\ \A u \in Text : orphaned'[u] = IF u = t THEN orphaned[u] + 1 ELSE orphaned[u]
      BY <1>9, <2>2, SenderWrites
    <3> QED
      BY <1>0, <1>1, <1>2, <1>3, <2>1, <3>1 DEF CallsKnown
  <2>3. CASE orphaned' = orphaned
    <3>1. pending' = pending
      <4>1. orphaned[t] + 1 # orphaned[t]
        BY <1>0, <2>1
      <4>2. orphaned' # [orphaned EXCEPT ![t] = @ + 1]
        BY <1>0, <2>1, <2>3, <4>1
      <4> QED
        BY <1>9, <4>2 DEF IsShown, AnnounceMessage
    <3> QED
      BY <1>0, <1>1, <1>2, <1>3, <2>1, <2>3, <3>1 DEF CallsKnown
  <2> QED
    BY <2>2, <2>3
<1>10. CASE Loads(c)
  <2>1. /\ sender'[c].pc \in {"resting", "find", "fetch"} /\ sender'[c].text = "none"
        /\ UNCHANGED <<pending, store, orphaned>>
    BY <1>10, SenderStep DEF Loads
  <2> QED
    BY <1>0, <1>1, <1>2, <1>3, <2>1 DEF CallsKnown
<1> QED
  BY <1>4, <1>5, <1>6, <1>7, <1>8, <1>9, <1>10 DEF SenderKind

LEMMA ShownKnownStep ==
    ASSUME ChatTypeOK, CallsKnown, ShownKnown, NEW c \in Sender, SenderKind(c)
    PROVE  ShownKnown'
<1> DEFINE t == sender[c].text
<1>0. /\ store \in [Message -> Nat] /\ shown \in [Socket -> [Message -> Nat]] /\ Text \subseteq Message
      /\ awaited \in [Socket -> SUBSET Text]
  BY DEF ChatTypeOK, Message
<1>1. \A o \in Sender : sender[o].pc = "announce" => sender[o].text \in Text
  BY TextCarried
<1>2. \A o \in Sender \ {c} : sender'[o] = sender[o]
  BY SenderStep
<1>3. CASE SetsOut(c) \/ Passes(c) \/ FindsOpen(c) \/ GivesUp(c) \/ Loads(c)
  <2>1. /\ sender[c].pc # "announce" /\ sender'[c].pc # "announce"
        /\ UNCHANGED <<sessionRoom, store, shown, awaited>>
        /\ loaded' \subseteq {m \in Message : store[m] > 0} \/ UNCHANGED loaded
    <3>1. sender[c].pc = "announce" => sender[c].text # "none"
      BY <1>1, ChatAssumption
    <3> QED
      BY <1>3, <3>1, SenderStep DEF SetsOut, Passes, FindsOpen, GivesUp, Loads, BeforeStored
  <2>2. \A u : Announcing(u) => Announcing(u)'
    BY <1>2, <2>1 DEF Announcing
  <2> QED
    BY <1>2, <2>1, <2>2 DEF ShownKnown
<1>4. CASE IsStored(c) \/ IsOrphaned(c)
  <2>1. /\ sender[c].pc = "persist" /\ t \in Text
        /\ store' \in [Message -> Nat]
        /\ \A m \in Message : store'[m] = IF m = t THEN store[m] + 1 ELSE store[m]
        /\ UNCHANGED <<sessionRoom, shown, loaded>>
    BY <1>4, SenderWrites DEF IsStored, IsOrphaned
  <2>2. \/ sender'[c].pc = "announce" /\ sender'[c].text = t
        \/ sender'[c].pc = "resting" /\ UNCHANGED awaited
    BY <1>4, SenderStep DEF IsOrphaned
  <2>3. \A u : Announcing(u) => Announcing(u)'
    BY <1>2, <2>1 DEF Announcing
  <2>4. \A s \in Socket : \A u \in awaited'[s] :
           u \in awaited[s] \/ (s \in sessionRoom /\ u = t /\ sender'[c].pc = "announce" /\ sender'[c].text = u)
    <3>1. CASE IsStored(c)
      <4>1. awaited' = [s \in Socket |-> IF s \in sessionRoom THEN awaited[s] \cup {t} ELSE awaited[s]]
        BY <3>1 DEF IsStored
      <4>2. sender'[c].pc = "announce" /\ sender'[c].text = t
        BY <3>1, SenderStep
      <4> QED
        BY <4>1, <4>2
    <3>2. CASE IsOrphaned(c)
      BY <3>2 DEF IsOrphaned
    <3> QED
      BY <1>4, <3>1, <3>2
  <2>5. ASSUME NEW s \in Socket, NEW u \in awaited'[s]
        PROVE  s \in sessionRoom' /\ (shown'[s][u] > 0 \/ Announcing(u)')
    <3>1. CASE u \in awaited[s]
      BY <3>1, <2>1, <2>3 DEF ShownKnown
    <3>2. CASE s \in sessionRoom /\ sender'[c].pc = "announce" /\ sender'[c].text = u
      BY <3>2, <2>1 DEF Announcing
    <3> QED
      BY <2>4, <2>5, <3>1, <3>2
  <2>6. ASSUME NEW s \in Socket, NEW o \in Sender, sender'[o].pc = "announce"
        PROVE  shown'[s][sender'[o].text] + 2 <= 2 * store'[sender'[o].text]
    <3>1. CASE o = c
      BY <3>1, <2>6, <1>0, <2>1, <2>2 DEF ShownKnown
    <3>2. CASE o # c
      <4>1. sender'[o] = sender[o] /\ sender[o].text \in Message
        BY <3>2, <2>6, <1>0, <1>1, <1>2
      <4> QED
        BY <4>1, <2>6, <1>0, <2>1 DEF ShownKnown
    <3> QED
      BY <3>1, <3>2
  <2>7. \A m \in Message : store[m] <= store'[m]
    BY <1>0, <2>1
  <2>8. \A s \in Socket, u \in Text : shown'[s][u] <= 2 * store'[u]
    BY <1>0, <2>1, <2>7 DEF ShownKnown
  <2>9. \A m \in Message : store[m] > 0 => store'[m] > 0
    BY <1>0, <2>1
  <2> QED
    BY <2>1, <2>5, <2>6, <2>8, <2>9 DEF ShownKnown, ChatTypeOK
<1>5. CASE IsShown(c)
  <2>1. /\ sender[c].pc = "announce" /\ t \in Text
        /\ UNCHANGED <<sessionRoom, store, awaited, loaded>>
        /\ sender'[c].pc = "resting" /\ sender'[c].text = "none"
    BY <1>5, SenderStep, SenderWrites DEF IsShown
  <2>2. PICK k \in {1, 2} : \A s \in Socket, m \in Message :
           shown'[s][m] = IF s \in sessionRoom /\ m = t THEN shown[s][m] + k ELSE shown[s][m]
    BY <1>5, SenderWrites
  <2>3. \A o \in Sender : sender'[o].pc = "announce" => /\ sender'[o] = sender[o]
                                                      /\ sender[o].text # t /\ sender[o].text \in Message
    BY <1>0, <1>1, <1>2, <2>1 DEF CallsKnown
  <2>4. \A s \in Socket, m \in Message : shown[s][m] \in Nat /\ store[m] \in Nat
    BY <1>0
  <2>5. \A s \in Socket : shown[s][t] + 2 <= 2 * store[t]
    BY <2>1 DEF ShownKnown
  <2>6. \A s \in Socket, m \in Message : shown'[s][m] > 0 => s \in OwnSocket /\ store'[m] > 0
    BY <1>0, <2>1, <2>2, <2>4, <2>5 DEF ShownKnown
  <2>7. \A s \in Socket, u \in Text : shown'[s][u] <= 2 * store'[u]
    BY <1>0, <2>1, <2>2, <2>4, <2>5 DEF ShownKnown
  <2>8. \A s \in Socket, o \in Sender :
           sender'[o].pc = "announce" => shown'[s][sender'[o].text] + 2 <= 2 * store'[sender'[o].text]
    BY <2>1, <2>2, <2>3 DEF ShownKnown
  <2>9. ASSUME NEW s \in Socket, NEW u \in awaited'[s]
        PROVE  s \in sessionRoom' /\ (shown'[s][u] > 0 \/ Announcing(u)')
    <3>1. /\ u \in awaited[s] /\ s \in sessionRoom /\ s \in sessionRoom' /\ u \in Message
          /\ shown[s][u] > 0 \/ Announcing(u)
      BY <1>0, <2>1, <2>9 DEF ShownKnown
    <3>2. CASE u = t \/ shown[s][u] > 0
      BY <3>1, <3>2, <2>2, <2>4
    <3>3. CASE u # t /\ Announcing(u)
      <4>1. PICK o \in Sender : sender[o].pc = "announce" /\ sender[o].text = u
        BY <3>3 DEF Announcing
      <4>2. sender'[o] = sender[o]
        BY <3>3, <4>1, <1>2
      <4> QED
        BY <3>1, <4>1, <4>2 DEF Announcing
    <3> QED
      BY <3>1, <3>2, <3>3
  <2> QED
    BY <2>1, <2>6, <2>7, <2>8, <2>9 DEF ShownKnown
<1> QED
  BY <1>3, <1>4, <1>5 DEF SenderKind

LEMMA PassedFinite ==
    /\ IsFiniteSet(Passed) /\ Cardinality(Passed) \in Nat /\ Cardinality(Passed) <= Cardinality(Sender)
    /\ IsFiniteSet(Passed') /\ Cardinality(Passed') \in Nat /\ Cardinality(Passed') <= Cardinality(Sender)
    /\ Cardinality(Sender) \in Nat
<1>1. Passed \in SUBSET Sender /\ Passed' \in SUBSET Sender
  BY DEF Passed
<1> QED
  BY <1>1, ChatAssumption, FS_Subset, FS_CardinalityType

LEMMA OvertimeKnownStep ==
    ASSUME ChatTypeOK, OvertimeKnown, NEW c \in Sender, SenderKind(c)
    PROVE  OvertimeKnown'
<1>0. overtime \in Nat /\ phase \in {"messaging", "between", "over"} /\ UNCHANGED phase
  BY DEF ChatTypeOK, SenderKind, SetsOut, Passes, FindsOpen, GivesUp, IsStored, IsOrphaned, IsShown, Loads
<1>1. \A o \in Sender \ {c} : sender'[o] = sender[o]
  BY SenderStep
<1>2. CASE phase # "over"
  <2>1. overtime' = overtime
    BY <1>2, SenderWrites DEF SenderKind, SetsOut, Passes, FindsOpen, GivesUp, IsStored, IsOrphaned, IsShown, Loads, Counts
  <2> QED
    BY <1>0, <1>2, <2>1 DEF OvertimeKnown
<1>3. CASE phase = "over" /\ (IsStored(c) \/ IsOrphaned(c))
  <2>1. sender[c].pc = "persist" /\ sender'[c].pc \notin {"establish", "persist"} /\ overtime' = overtime + 1
    BY <1>3, SenderStep, SenderWrites DEF Counts
  <2>2. Passed' = Passed \ {c} /\ c \in Passed
    BY <1>1, <2>1 DEF Passed
  <2>3. Cardinality(Passed') = Cardinality(Passed) - 1
    BY <2>2, PassedFinite, FS_RemoveElement
  <2> QED
    BY <1>0, <1>3, <2>1, <2>3, PassedFinite DEF OvertimeKnown
<1>4. CASE phase = "over" /\ ~(IsStored(c) \/ IsOrphaned(c))
  <2>1. overtime' = overtime
    BY <1>4 DEF SenderKind, SetsOut, Passes, FindsOpen, GivesUp, IsShown, Loads
  <2>2. sender'[c].pc \in {"establish", "persist"} => sender[c].pc \in {"establish", "persist"}
    BY <1>4, SenderStep DEF SenderKind, Passes, FindsOpen
  <2>3. Passed' \subseteq Passed
    BY <1>1, <2>2 DEF Passed
  <2>4. Cardinality(Passed') <= Cardinality(Passed)
    BY <2>3, PassedFinite, FS_Subset
  <2> QED
    BY <1>0, <1>4, <2>1, <2>4, PassedFinite DEF OvertimeKnown
<1> QED
  BY <1>2, <1>3, <1>4

LEMMA ChatTypeStep ==
    ASSUME ChatTypeOK, CallsKnown, NEW c \in Sender, SenderActs(c)
    PROVE  ChatTypeOK'
<1>1. SenderKind(c)
  BY SenderKinds DEF SenderKind
<1>2. sender' \in [Sender -> SenderRow]
  BY <1>1, SenderStep
<1>3. /\ store' \in [Message -> Nat]
      /\ orphaned' \in [Text -> Nat]
      /\ shown' \in [Socket -> [Message -> Nat]]
  <2>1. UNCHANGED store \/ IsStored(c) \/ IsOrphaned(c)
    BY <1>1 DEF SenderKind, SetsOut, Passes, FindsOpen, GivesUp, IsShown, Loads
  <2>2. UNCHANGED orphaned \/ IsOrphaned(c) \/ (IsShown(c) /\ orphaned' # orphaned)
    BY <1>1 DEF SenderKind, SetsOut, Passes, FindsOpen, GivesUp, IsStored, Loads
  <2>3. UNCHANGED shown \/ IsShown(c)
    BY <1>1 DEF SenderKind, SetsOut, Passes, FindsOpen, GivesUp, IsStored, IsOrphaned, Loads
  <2> QED
    BY <2>1, <2>2, <2>3, SenderWrites DEF ChatTypeOK
<1>4. \A o \in Sender : sender[o].pc \in BeforeStored \cup {"announce"} => sender[o].text \in Text
  BY TextCarried
<1>5. /\ sender[c].pc \in BeforeStored \cup {"announce"} => pending' \subseteq pending \cup {sender[c].text}
      /\ sender[c].pc \notin BeforeStored \cup {"announce"} => pending' \subseteq pending
  BY DEF SenderActs, SendChat, CheckSession, EstablishConversation, PersistMessage, AnnounceMessage,
         LoadHistory, FindConversation, FetchMessages, Refuses, BeforeStored
<1>6. pending' \subseteq Text
  BY <1>4, <1>5 DEF ChatTypeOK
<1>7. awaited' \in [Socket -> SUBSET Text]
  <2>1. CASE IsStored(c)
    <3>1. sender[c].text \in Text
      BY <2>1, SenderWrites
    <3>2. awaited' = [s \in Socket |-> IF s \in sessionRoom THEN awaited[s] \cup {sender[c].text} ELSE awaited[s]]
      BY <2>1 DEF IsStored
    <3> QED
      BY <3>1, <3>2 DEF ChatTypeOK
  <2>2. CASE UNCHANGED awaited
    BY <2>2 DEF ChatTypeOK
  <2> QED
    BY <1>1, <2>1, <2>2 DEF SenderKind, SetsOut, Passes, FindsOpen, GivesUp, IsOrphaned, IsShown, Loads
<1>8. overtime' \in Nat
  BY <1>1, SenderWrites DEF ChatTypeOK, SenderKind, SetsOut, Passes, FindsOpen, GivesUp, IsShown, Loads, Counts
<1>9. UNCHANGED <<phase, sessionRoom>> /\ conversation' \in BOOLEAN /\ loaded' \subseteq Message
  BY DEF ChatTypeOK, SenderActs, SendChat, CheckSession, EstablishConversation, PersistMessage, AnnounceMessage,
         LoadHistory, FindConversation, FetchMessages
<1>10. sends' \in Nat /\ relays' \in Nat /\ faults' \in Nat
  <2>1. sends \in Nat /\ relays \in Nat /\ faults \in Nat
    BY DEF ChatTypeOK
  <2>2. sends' = sends \/ sends' = sends + 1
    BY DEF SenderActs, SendChat, CheckSession, EstablishConversation, PersistMessage, AnnounceMessage,
           LoadHistory, FindConversation, FetchMessages, StartsCall
  <2>3. faults' = faults \/ faults' = faults + 1
    BY DEF SenderActs, SendChat, CheckSession, EstablishConversation, PersistMessage, AnnounceMessage,
           LoadHistory, FindConversation, FetchMessages, Faults
  <2>4. relays' = relays
    BY DEF SenderActs, SendChat, CheckSession, EstablishConversation, PersistMessage, AnnounceMessage,
           LoadHistory, FindConversation, FetchMessages
  <2> QED
    BY <2>1, <2>2, <2>3, <2>4
<1> QED
  BY <1>2, <1>3, <1>6, <1>7, <1>8, <1>9, <1>10 DEF ChatTypeOK

LEMMA RestartStep == ChatInv /\ ChatRestart => ChatInv'
<1> SUFFICES ASSUME ChatInv, ChatRestart PROVE ChatInv'
  OBVIOUS
<1>0. ChatTypeOK /\ "none" \notin Text /\ Text \subseteq Message
  BY ChatAssumption DEF ChatInv, Message
<1>1. \A c \in Sender : sender'[c].pc = "resting" /\ sender'[c].text = "none"
  BY DEF ChatRestart, NoSend
<1>2. /\ sessionRoom' = {} /\ shown' = [s \in Socket |-> Unheard] /\ awaited' = [s \in Socket |-> {}]
      /\ pending' = pending \cup {t \in Text : \E c \in Sender : sender[c].text = t}
      /\ orphaned' = [t \in Text |-> IF Announcing(t) THEN orphaned[t] + 1 ELSE orphaned[t]]
      /\ UNCHANGED <<phase, conversation, store, loaded, overtime, sends, relays>>
      /\ sender' = [c \in Sender |-> NoSend] /\ faults' = faults + 1
  BY DEF ChatRestart, Faults
<1>3. ChatTypeOK'
  <2>1. sender' \in [Sender -> SenderRow]
    BY <1>2, SenderRows
  <2>2. shown' \in [Socket -> [Message -> Nat]] /\ awaited' \in [Socket -> SUBSET Text]
    BY <1>2 DEF Unheard
  <2>3. orphaned' \in [Text -> Nat] /\ pending' \subseteq Text
    BY <1>0, <1>2 DEF ChatTypeOK
  <2>4. sends' \in Nat /\ relays' \in Nat /\ faults' \in Nat
    BY <1>0, <1>2 DEF ChatTypeOK
  <2> QED
    BY <1>0, <1>2, <2>1, <2>2, <2>3, <2>4 DEF ChatTypeOK
<1>4. CallsKnown'
  <2>1. \A t \in Text : store[t] \in Nat /\ orphaned[t] \in Nat
    BY <1>0 DEF ChatTypeOK
  <2>2. \A t \in Text : orphaned'[t] = (IF Announcing(t) THEN orphaned[t] + 1 ELSE orphaned[t])
    BY <1>2
  <2>3. \A t \in Text : store'[t] <= orphaned'[t] + 1
    BY <1>2, <2>1, <2>2 DEF ChatInv, CallsKnown
  <2>4. ASSUME NEW t \in pending' PROVE store'[t] <= orphaned'[t]
    <3>0. t \in Text /\ store[t] <= orphaned[t] + 1
      BY <1>0, <1>2 DEF ChatInv, CallsKnown, ChatTypeOK
    <3>1. CASE Announcing(t)
      BY <3>0, <3>1, <1>2, <2>2
    <3>2. CASE t \in pending /\ ~Announcing(t)
      BY <3>0, <3>2, <1>2, <2>2 DEF ChatInv, CallsKnown
    <3>3. CASE (\E c \in Sender : sender[c].text = t) /\ ~Announcing(t)
      <4>1. PICK c \in Sender : sender[c].text = t
        BY <3>3
      <4>2. sender[c].pc \in BeforeStored
        BY <1>0, <3>0, <3>3, <4>1, TextCarried DEF Announcing
      <4> QED
        BY <3>0, <3>3, <4>1, <4>2, <1>2, <2>2 DEF ChatInv, CallsKnown
    <3> QED
      BY <1>2, <2>4, <3>1, <3>2, <3>3
  <2>5. \A c \in Sender : sender'[c].text \notin pending'
    BY <1>0, <1>1, <1>3 DEF ChatTypeOK
  <2>6. "resting" \notin BeforeStored
    BY DEF BeforeStored
  <2> QED
    BY <1>0, <1>1, <2>3, <2>4, <2>5, <2>6 DEF CallsKnown
<1>5. ShownKnown'
  <2>1. \A s \in Socket, m \in Message : shown'[s][m] = 0
    BY <1>2 DEF Unheard
  <2>2. \A m \in Message : store'[m] \in Nat
    BY <1>3 DEF ChatTypeOK
  <2>3. \A m \in loaded' : store'[m] > 0
    BY <1>2 DEF ChatInv, ShownKnown
  <2> QED
    BY <1>0, <1>1, <1>2, <2>1, <2>2, <2>3 DEF ShownKnown
<1>6. OvertimeKnown'
  <2>1. Passed' = {}
    BY <1>1 DEF Passed
  <2>2. Cardinality(Passed') = 0
    BY <2>1, FS_EmptySet
  <2> QED
    BY <1>0, <1>2, <2>2, PassedFinite DEF ChatInv, OvertimeKnown, ChatTypeOK
<1> QED
  BY <1>3, <1>4, <1>5, <1>6 DEF ChatInv

(* The room, the session and the customer.                                 *)
LEMMA AroundStep ==
    ASSUME ChatInv,
           \/ \E s \in Socket : JoinSession(s) \/ Disconnect(s)
           \/ \E p \in {"messaging", "between", "over"} : MoveSession(p)
           \/ \E w \in Word : CustomerSays(w) \/ HandleChatRelay(w)
    PROVE  ChatInv'
<1>0. /\ store \in [Message -> Nat] /\ shown \in [Socket -> [Message -> Nat]] /\ Text \subseteq Message
      /\ Word \subseteq Message /\ Text \cap Word = {} /\ awaited \in [Socket -> SUBSET Text] /\ ChatTypeOK
  BY ChatAssumption DEF ChatInv, ChatTypeOK, Message
<1>1. ASSUME NEW s \in Socket, JoinSession(s) PROVE ChatInv'
  <2>1. ChatTypeOK'
    BY <1>0, <1>1 DEF JoinSession, ChatTypeOK
  <2>2. CallsKnown' /\ OvertimeKnown'
    BY <1>1 DEF JoinSession, ChatInv, CallsKnown, OvertimeKnown, Passed
  <2>3. ShownKnown'
    BY <1>1 DEF JoinSession, ChatInv, ShownKnown, Announcing
  <2> QED
    BY <2>1, <2>2, <2>3 DEF ChatInv
<1>2. ASSUME NEW s \in Socket, Disconnect(s) PROVE ChatInv'
  <2>1. /\ shown' = [shown EXCEPT ![s] = Unheard] /\ awaited' = [awaited EXCEPT ![s] = {}]
        /\ sessionRoom' = sessionRoom \ {s}
        /\ UNCHANGED <<phase, conversation, store, sender, loaded, pending, orphaned, overtime, sends, relays, faults>>
    BY <1>2 DEF Disconnect
  <2>2. Unheard \in [Message -> Nat] /\ \A m \in Message : Unheard[m] = 0
    BY DEF Unheard
  <2>3. ChatTypeOK'
    BY <1>0, <2>1, <2>2 DEF ChatTypeOK
  <2>4. CallsKnown' /\ OvertimeKnown'
    BY <2>1 DEF ChatInv, CallsKnown, OvertimeKnown, Passed
  <2>5. \A r \in Socket, m \in Message : shown'[r][m] = shown[r][m] \/ shown'[r][m] = 0
    BY <1>0, <2>1, <2>2
  <2>6. \A r \in Socket : r # s => shown'[r] = shown[r] /\ awaited'[r] = awaited[r]
    BY <1>0, <2>1
  <2>7. \A c \in Sender : sender[c].pc = "announce" => sender[c].text \in Message
    BY <1>0, TextCarried
  <2>8. \A m \in Message, r \in Socket : store[m] \in Nat /\ shown[r][m] \in Nat
    BY <1>0
  <2>9. \A r \in Socket, m \in Message : shown'[r][m] > 0 => r \in OwnSocket /\ store'[m] > 0
    BY <2>1, <2>5, <2>8 DEF ChatInv, ShownKnown
  <2>10. \A r \in Socket, t \in Text : shown'[r][t] <= 2 * store'[t]
    BY <1>0, <2>1, <2>5, <2>8 DEF ChatInv, ShownKnown
  <2>11. ASSUME NEW r \in Socket, NEW c \in Sender, sender'[c].pc = "announce"
         PROVE  shown'[r][sender'[c].text] + 2 <= 2 * store'[sender'[c].text]
    <3>1. /\ sender'[c] = sender[c] /\ store' = store /\ sender[c].text \in Message
          /\ shown[r][sender[c].text] + 2 <= 2 * store[sender[c].text]
      BY <2>1, <2>7, <2>11 DEF ChatInv, ShownKnown
    <3>2. \/ shown'[r][sender[c].text] = shown[r][sender[c].text]
          \/ shown'[r][sender[c].text] = 0
      BY <2>5, <3>1
    <3>3. shown[r][sender[c].text] \in Nat /\ store[sender[c].text] \in Nat
      BY <2>8, <3>1
    <3>4. shown'[r][sender[c].text] + 2 <= 2 * store[sender[c].text]
      <4> DEFINE t == sender[c].text
      <4>1. CASE shown'[r][t] = shown[r][t]
        BY <3>1, <4>1
      <4>2. CASE shown'[r][t] = 0
        BY <3>1, <3>3, <4>2
      <4> QED
        BY <3>2, <4>1, <4>2
    <3> QED
      BY <3>1, <3>4
  <2>12. \A r \in Socket : \A t \in awaited'[r] : r \in sessionRoom' /\ (shown'[r][t] > 0 \/ Announcing(t)')
    <3>1. awaited'[s] = {}
      BY <1>0, <2>1
    <3> QED
      BY <2>1, <2>6, <3>1 DEF ChatInv, ShownKnown, Announcing
  <2>13. ShownKnown'
    BY <2>1, <2>9, <2>10, <2>11, <2>12 DEF ChatInv, ShownKnown
  <2> QED
    BY <2>3, <2>4, <2>13 DEF ChatInv
<1>3. ASSUME NEW p \in {"messaging", "between", "over"}, MoveSession(p) PROVE ChatInv'
  <2>1. /\ phase # p /\ phase' = p /\ overtime' = IF p = "over" THEN 0 ELSE overtime
        /\ UNCHANGED <<sessionRoom, conversation, store, sender, shown, loaded, pending, orphaned,
                       awaited, sends, relays, faults>>
    BY <1>3 DEF MoveSession
  <2>2. ChatTypeOK' /\ CallsKnown' /\ ShownKnown'
    BY <1>0, <2>1 DEF ChatInv, ChatTypeOK, CallsKnown, ShownKnown, Announcing
  <2>3. Passed' = Passed
    BY <2>1 DEF Passed
  <2>4. OvertimeKnown'
    BY <1>0, <2>1, <2>3, PassedFinite DEF ChatInv, OvertimeKnown, ChatTypeOK
  <2> QED
    BY <2>2, <2>4 DEF ChatInv
<1>4. ASSUME NEW w \in Word, CustomerSays(w) PROVE ChatInv'
  <2>1. /\ store[w] = 0 /\ store' = [store EXCEPT ![w] = 1] /\ conversation' = TRUE
        /\ UNCHANGED <<phase, sessionRoom, sender, shown, loaded, pending, orphaned, awaited, overtime,
                       sends, relays, faults>>
    BY <1>4 DEF CustomerSays
  <2>2. /\ store' \in [Message -> Nat] /\ \A t \in Text : store'[t] = store[t]
        /\ \A m \in Message : store[m] > 0 => store'[m] > 0
    BY <1>0, <2>1
  <2>3. ChatTypeOK'
    BY <1>0, <2>1, <2>2 DEF ChatTypeOK
  <2>4. \A c \in Sender : sender[c].pc \in BeforeStored \cup {"announce"} => sender[c].text \in Text
    BY <1>0, TextCarried
  <2>5. CallsKnown'
    BY <1>0, <2>1, <2>2, <2>4 DEF ChatInv, CallsKnown, ChatTypeOK
  <2>6. ShownKnown'
    BY <1>0, <2>1, <2>2, <2>4 DEF ChatInv, ShownKnown, Announcing, ChatTypeOK
  <2>7. OvertimeKnown'
    BY <2>1 DEF ChatInv, OvertimeKnown, Passed
  <2> QED
    BY <2>3, <2>5, <2>6, <2>7 DEF ChatInv
<1>5. ASSUME NEW w \in Word, HandleChatRelay(w) PROVE ChatInv'
  <2>1. /\ store[w] > 0 /\ Broadcasts(w, 1) /\ relays' = relays + 1
        /\ UNCHANGED <<phase, sessionRoom, conversation, store, sender, loaded, pending, orphaned,
                       awaited, overtime, sends, faults>>
    BY <1>5 DEF HandleChatRelay
  <2>2. /\ shown' \in [Socket -> [Message -> Nat]]
        /\ \A s \in Socket, m \in Message :
              shown'[s][m] = IF s \in sessionRoom /\ m = w THEN shown[s][m] + 1 ELSE shown[s][m]
    BY <1>0, <2>1, Broadcasting
  <2>3. ChatTypeOK'
    BY <1>0, <2>1, <2>2 DEF ChatTypeOK
  <2>4. CallsKnown' /\ OvertimeKnown'
    BY <2>1 DEF ChatInv, CallsKnown, OvertimeKnown, Passed
  <2>5. \A s \in Socket, t \in Text : shown'[s][t] = shown[s][t]
    BY <1>0, <2>2
  <2>6. \A c \in Sender : sender[c].pc = "announce" => sender[c].text \in Text
    BY <1>0, TextCarried
  <2>7. \A s \in Socket, m \in Message : shown'[s][m] > 0 => s \in OwnSocket /\ store'[m] > 0
    BY <2>1, <2>2 DEF ChatInv, ShownKnown
  <2>8. ShownKnown'
    BY <1>0, <2>1, <2>5, <2>6, <2>7 DEF ChatInv, ShownKnown, Announcing
  <2> QED
    BY <2>3, <2>4, <2>8 DEF ChatInv
<1> QED
  BY <1>1, <1>2, <1>3, <1>4, <1>5

(* The room follows the store, for any number of sockets, calls, messages  *)
(* and restarts.                                                           *)
THEOREM RoomsFollowStore == ChatSpec => [](ChatTypeOK /\ ChatFollowsStore)
<1>1. ChatInit => ChatInv
  <2> SUFFICES ASSUME ChatInit PROVE ChatInv
    OBVIOUS
  <2>1. \A c \in Sender : sender[c].pc = "resting" /\ sender[c].text = "none"
    BY DEF ChatInit, NoSend
  <2>2. \A m \in Message : store[m] = 0 /\ \A s \in Socket : shown[s][m] = 0
    BY DEF ChatInit, Unheard
  <2>3. "none" \notin Text /\ Text \subseteq Message /\ "resting" \notin BeforeStored
    BY ChatAssumption DEF Message, BeforeStored
  <2>4. CallsKnown
    BY <2>1, <2>2, <2>3 DEF ChatInit, CallsKnown
  <2>5. ShownKnown
    BY <2>1, <2>2, <2>3 DEF ChatInit, ShownKnown
  <2>6. OvertimeKnown
    BY PassedFinite DEF ChatInit, OvertimeKnown
  <2> QED
    BY <2>4, <2>5, <2>6, ChatTypeInit DEF ChatInv
<1>2. ChatInv /\ [ChatNext]_chatVars => ChatInv'
  <2> SUFFICES ASSUME ChatInv, [ChatNext]_chatVars PROVE ChatInv'
    OBVIOUS
  <2>1. CASE UNCHANGED chatVars
    BY <2>1 DEF chatVars, ChatInv, ChatTypeOK, CallsKnown, ShownKnown, OvertimeKnown, Passed, Announcing
  <2>2. ASSUME NEW c \in Sender, SenderActs(c) PROVE ChatInv'
    BY <2>2, SenderKinds, ChatTypeStep, CallsKnownStep, ShownKnownStep, OvertimeKnownStep DEF ChatInv, SenderKind
  <2> QED
    BY <2>1, <2>2, RestartStep, AroundStep DEF ChatNext, SenderActs
<1>3. ChatInv => ChatTypeOK /\ ChatFollowsStore
  BY PassedFinite DEF ChatInv, ChatTypeOK, CallsKnown, ShownKnown, OvertimeKnown, ChatFollowsStore
<1> QED
  BY <1>1, <1>2, <1>3, PTL DEF ChatSpec

-------------------------------------------------------------------------------
(* The gallery *)

LEMMA InsertingFinite ==
    ASSUME NEW S \in SUBSET Uploader
    PROVE  IsFiniteSet(S) /\ Cardinality(S) \in Nat /\ Cardinality(S) <= Cardinality(Uploader)
           /\ Cardinality(Uploader) \in Nat
BY GalleryAssumption, FS_Subset, FS_CardinalityType

LEMMA GalleryTypeNext == GalleryTypeOK /\ [GalleryNext]_galleryVars => GalleryTypeOK'
<1> SUFFICES ASSUME GalleryTypeOK, [GalleryNext]_galleryVars PROVE GalleryTypeOK'
  OBVIOUS
<1> USE GalleryAssumption DEF GalleryTypeOK, Moves
<1>1. CASE UNCHANGED galleryVars
  BY <1>1 DEF galleryVars
<1>2. CASE DeleteGalleryPhoto
  BY <1>2 DEF DeleteGalleryPhoto
<1>3. ASSUME NEW n \in 0 .. MaxBulk, ReplaceGallery(n) PROVE GalleryTypeOK'
  BY <1>3 DEF ReplaceGallery
<1>4. ASSUME NEW u \in Uploader, UploadFile(u) PROVE GalleryTypeOK'
  BY <1>4 DEF UploadFile
<1>5. ASSUME NEW u \in Uploader, TrackFile(u) PROVE GalleryTypeOK'
  BY <1>5 DEF TrackFile
<1>6. ASSUME NEW u \in Uploader, CountPhotos(u) PROVE GalleryTypeOK'
  BY <1>6 DEF CountPhotos
<1>7. ASSUME NEW u \in Uploader, AddGalleryPhoto(u) PROVE GalleryTypeOK'
  BY <1>7 DEF AddGalleryPhoto
<1>8. ASSUME NEW u \in Uploader, UploadDies(u) PROVE GalleryTypeOK'
  BY <1>8 DEF UploadDies
<1> QED
  BY <1>1, <1>2, <1>3, <1>4, <1>5, <1>6, <1>7, <1>8 DEF GalleryNext

Tracking == {u \in Uploader : uploader[u] \in {"track", "track_photo"}}

(* How many uploads are at a step, when one of them moves.                 *)
LEMMA UploaderMoves ==
    ASSUME GalleryTypeOK, NEW u \in Uploader, NEW to, uploader' = [uploader EXCEPT ![u] = to]
    PROVE  /\ to # "insert" => Inserting' = Inserting \ {u}
           /\ to \notin {"track", "track_photo"} => Tracking' = Tracking \ {u}
           /\ to \in {"track", "track_photo"} => Tracking' = Tracking \cup {u}
BY DEF GalleryTypeOK, Inserting, Tracking

LEMMA SetLosesOne ==
    ASSUME NEW S \in SUBSET Uploader, NEW u \in Uploader
    PROVE  /\ Cardinality(S \ {u}) <= Cardinality(S)
           /\ Cardinality(S) <= Cardinality(S \ {u}) + 1
           /\ u \in S => Cardinality(S \ {u}) = Cardinality(S) - 1
           /\ u \notin S => Cardinality(S \cup {u}) = Cardinality(S) + 1
<1>1. IsFiniteSet(S) /\ Cardinality(S) \in Nat
  BY InsertingFinite
<1>2. u \in S => Cardinality(S \ {u}) = Cardinality(S) - 1
  BY <1>1, FS_RemoveElement
<1>3. u \notin S => S \ {u} = S
  OBVIOUS
<1>4. u \notin S => Cardinality(S \cup {u}) = Cardinality(S) + 1
  BY <1>1, FS_AddElement
<1> QED
  BY <1>1, <1>2, <1>3, <1>4

GalleryWithin ==
    \/ gallery + Cardinality(Inserting) <= GalleryLimit + Cardinality(Uploader) - 1
    \/ gallery + Cardinality(Inserting) <= bulk + Cardinality(Uploader)

FilesKnown == stored <= tracked + Cardinality(Tracking) + mishaps

LEMMA GalleryInv ==
    ASSUME GalleryTypeOK, GalleryTypeOK', GalleryWithin, FilesKnown, [GalleryNext]_galleryVars
    PROVE  GalleryWithin' /\ FilesKnown'
<1>1. /\ Inserting \in SUBSET Uploader /\ Inserting' \in SUBSET Uploader
      /\ Tracking \in SUBSET Uploader /\ Tracking' \in SUBSET Uploader
  BY DEF Inserting, Tracking
<1>2. /\ Cardinality(Inserting) \in Nat /\ Cardinality(Inserting') \in Nat
      /\ Cardinality(Inserting') <= Cardinality(Uploader)
      /\ Cardinality(Tracking) \in Nat /\ Cardinality(Tracking') \in Nat
      /\ Cardinality(Uploader) \in Nat
  BY <1>1, InsertingFinite
<1>3. /\ gallery \in Nat /\ stored \in Nat /\ tracked \in Nat /\ mishaps \in Nat /\ bulk \in Nat
      /\ gallery' \in Nat /\ stored' \in Nat /\ tracked' \in Nat /\ mishaps' \in Nat /\ bulk' \in Nat
      /\ GalleryLimit \in Nat
  BY GalleryAssumption DEF GalleryTypeOK
<1>i. Inserting' = {u \in Uploader : uploader'[u] = "insert"}
  BY DEF Inserting
<1> USE DEF GalleryWithin, FilesKnown
<1>4. CASE uploader' = uploader /\ UNCHANGED <<gallery, bulk, stored, tracked, mishaps>>
  BY <1>4 DEF Inserting, Tracking
<1>5. CASE DeleteGalleryPhoto
  <2>1. Inserting' = Inserting /\ Tracking' = Tracking
    BY <1>5 DEF DeleteGalleryPhoto, Inserting, Tracking
  <2> QED
    BY <1>5, <1>2, <1>3, <2>1 DEF DeleteGalleryPhoto
<1>6. ASSUME NEW n \in 0 .. MaxBulk, ReplaceGallery(n) PROVE GalleryWithin' /\ FilesKnown'
  <2>1. Inserting' = Inserting /\ Tracking' = Tracking
    BY <1>6 DEF ReplaceGallery, Inserting, Tracking
  <2>2. gallery' <= bulk'
    BY <1>6, <1>3, GalleryAssumption DEF ReplaceGallery
  <2> QED
    BY <1>6, <1>2, <1>3, <2>1, <2>2 DEF ReplaceGallery
<1>7. ASSUME NEW u \in Uploader, UploadFile(u) PROVE GalleryWithin' /\ FilesKnown'
  <2>1. PICK to \in {"track", "track_photo"} :
           uploader[u] = "resting" /\ uploader' = [uploader EXCEPT ![u] = to]
    BY <1>7 DEF UploadFile, Moves
  <2>2. Inserting' = Inserting \ {u} /\ Tracking' = Tracking \cup {u} /\ u \notin Tracking
    BY <2>1, UploaderMoves DEF Tracking
  <2>3. Cardinality(Inserting') <= Cardinality(Inserting) /\ Cardinality(Tracking') = Cardinality(Tracking) + 1
    BY <1>1, <2>2, SetLosesOne
  <2> QED
    BY <1>7, <1>2, <1>3, <2>3 DEF UploadFile
<1>8. ASSUME NEW u \in Uploader, TrackFile(u) PROVE GalleryWithin' /\ FilesKnown'
  <2>1. PICK to \in {"resting", "count"} :
           uploader[u] \in {"track", "track_photo"} /\ uploader' = [uploader EXCEPT ![u] = to]
    BY <1>8 DEF TrackFile, Moves
  <2>2. Inserting' = Inserting \ {u} /\ Tracking' = Tracking \ {u} /\ u \in Tracking
    BY <2>1, UploaderMoves DEF Tracking
  <2>3. Cardinality(Inserting') <= Cardinality(Inserting) /\ Cardinality(Tracking') = Cardinality(Tracking) - 1
    BY <1>1, <2>2, SetLosesOne
  <2> QED
    BY <1>8, <1>2, <1>3, <2>3 DEF TrackFile
<1>9. ASSUME NEW u \in Uploader, CountPhotos(u) PROVE GalleryWithin' /\ FilesKnown'
  <2> DEFINE to == IF gallery >= GalleryLimit THEN "resting" ELSE "insert"
  <2>1. uploader[u] = "count" /\ uploader' = [uploader EXCEPT ![u] = to]
    BY <1>9 DEF CountPhotos, Moves
  <2>2. UNCHANGED <<gallery, bulk, stored, tracked, mishaps>>
    BY <1>9 DEF CountPhotos
  <2>3. Tracking' = Tracking \ {u} /\ u \notin Tracking
    BY <2>1, UploaderMoves DEF Tracking
  <2>4. Tracking' = Tracking
    BY <2>3
  <2>5. CASE gallery >= GalleryLimit
    <3>1. Inserting' = Inserting \ {u}
      BY <2>1, <2>5, UploaderMoves
    <3>2. Cardinality(Inserting') <= Cardinality(Inserting)
      BY <1>1, <3>1, SetLosesOne
    <3> QED
      BY <1>2, <1>3, <2>2, <2>4, <3>2
  <2>6. CASE gallery < GalleryLimit
    BY <1>2, <1>3, <2>2, <2>4, <2>6
  <2> QED
    BY <1>3, <2>5, <2>6
<1>10. ASSUME NEW u \in Uploader, AddGalleryPhoto(u) PROVE GalleryWithin' /\ FilesKnown'
  <2>1. uploader[u] = "insert" /\ uploader' = [uploader EXCEPT ![u] = "resting"]
    BY <1>10 DEF AddGalleryPhoto, Moves
  <2>2. Inserting' = Inserting \ {u} /\ u \in Inserting
    <3>1. "resting" # "insert"
      OBVIOUS
    <3> QED
      BY <2>1, <3>1, UploaderMoves DEF Inserting
  <2>3. Cardinality(Inserting') = Cardinality(Inserting) - 1
    BY <1>1, <2>2, SetLosesOne
  <2>4. Cardinality(Tracking') = Cardinality(Tracking)
    <3>1. Tracking' = Tracking \ {u} /\ u \notin Tracking
      BY <2>1, UploaderMoves DEF Tracking
    <3>2. Tracking' = Tracking
      BY <3>1
    <3> QED
      BY <3>2
  <2> QED
    BY <1>10, <1>2, <1>3, <2>3, <2>4 DEF AddGalleryPhoto
<1>11. ASSUME NEW u \in Uploader, UploadDies(u) PROVE GalleryWithin' /\ FilesKnown'
  <2>1. uploader' = [uploader EXCEPT ![u] = "resting"]
    BY <1>11 DEF UploadDies
  <2>2. Inserting' = Inserting \ {u} /\ Tracking' = Tracking \ {u}
    <3>1. "resting" # "insert" /\ "resting" \notin {"track", "track_photo"}
      OBVIOUS
    <3>2. Inserting' = Inserting \ {u}
      BY <2>1, <3>1, UploaderMoves
    <3>3. Tracking' = Tracking \ {u}
      BY <2>1, <3>1, UploaderMoves
    <3> QED
      BY <3>2, <3>3
  <2>3. Cardinality(Inserting') <= Cardinality(Inserting)
    BY <1>1, <2>2, SetLosesOne
  <2>4. Cardinality(Tracking) <= Cardinality(Tracking') + 1
    BY <1>1, <2>2, SetLosesOne
  <2> QED
    BY <1>11, <1>2, <1>3, <2>3, <2>4 DEF UploadDies
<1>12. CASE UNCHANGED galleryVars
  BY <1>4, <1>12 DEF galleryVars
<1> QED
  BY <1>5, <1>6, <1>7, <1>8, <1>9, <1>10, <1>11, <1>12 DEF GalleryNext

(* The gallery exceeds its limit by no more than the uploads that counted  *)
(* it together, whatever their number and the limit.                       *)
THEOREM GalleryStaysBounded == GallerySpec => [](GalleryTypeOK /\ GalleryBounded)
<1> DEFINE Inv == GalleryTypeOK /\ GalleryWithin /\ FilesKnown
<1>1. GalleryInit => Inv
  <2> SUFFICES ASSUME GalleryInit PROVE Inv
    OBVIOUS
  <2>1. GalleryTypeOK
    BY GalleryAssumption DEF GalleryInit, GalleryTypeOK
  <2>2. Inserting = {} /\ Tracking = {}
    BY DEF GalleryInit, Inserting, Tracking
  <2>3. Cardinality(Inserting) = 0 /\ Cardinality(Tracking) = 0 /\ Cardinality(Uploader) \in Nat
    BY <2>2, FS_EmptySet, InsertingFinite
  <2> QED
    BY <2>1, <2>3 DEF GalleryInit, GalleryWithin, FilesKnown
<1>2. Inv /\ [GalleryNext]_galleryVars => Inv'
  BY GalleryTypeNext, GalleryInv
<1>3. Inv => GalleryTypeOK /\ GalleryBounded
  BY DEF GalleryBounded, GalleryWithin, FilesKnown, Tracking
<1> QED
  BY <1>1, <1>2, <1>3, PTL DEF GallerySpec

-------------------------------------------------------------------------------
(* Payments                                                                *)

LEMMA PaymentTypeInit == PaymentInit => PaymentTypeOK
<1> SUFFICES ASSUME PaymentInit PROVE PaymentTypeOK
  OBVIOUS
<1>1. crossed \in BOOLEAN
  BY DEF PaymentInit
<1>2. verifications \in 0 .. MaxVerify /\ deaths \in 0 .. MaxDeath
  BY PaymentsAssumption DEF PaymentInit
<1>3. /\ orderRow \in [Order -> {"none", "created"} \cup Outcome]
      /\ charge \in [Order -> {"none", "open", "captured"}]
      /\ handler \in [Handler -> HandlerRow \cup {Resting}]
  BY DEF PaymentInit
<1> QED
  BY <1>1, <1>2, <1>3 DEF PaymentInit, PaymentTypeOK

(* The two handlers that start with a write.                               *)
LEMMA StartsTyped ==
    ASSUME PaymentTypeOK, NEW h \in Handler, NEW new \in HandlerRow, Starts(h, new)
    PROVE  handler' \in [Handler -> HandlerRow \cup {Resting}] /\ crossed' \in BOOLEAN
<1>1. handler' \in [Handler -> HandlerRow \cup {Resting}]
  BY DEF PaymentTypeOK, Starts
<1>2. crossed' \in BOOLEAN
  BY DEF Starts
<1> QED
  BY <1>1, <1>2

LEMMA HandlerAt ==
    ASSUME PaymentTypeOK, NEW h \in Handler, NEW pc, At(h, pc)
    PROVE  handler[h].order \in Order /\ handler[h].outcome \in Outcome
BY DEF PaymentTypeOK, At, HandlerRow

LEMMA PaymentTypeNext == PaymentTypeOK /\ [PaymentNext]_paymentVars => PaymentTypeOK'
<1> SUFFICES ASSUME PaymentTypeOK, [PaymentNext]_paymentVars PROVE PaymentTypeOK'
  OBVIOUS
<1> USE DEF PaymentTypeOK, paymentRows, providerVars
<1>0. CASE UNCHANGED paymentVars
  BY <1>0 DEF paymentVars
<1>1. ASSUME NEW h \in Handler, Rests(h) PROVE handler' \in [Handler -> HandlerRow \cup {Resting}]
  BY <1>1 DEF Rests
<1>2. ASSUME NEW o \in Order, AttemptFails(o) \/ AmountCaptured(o) PROVE PaymentTypeOK'
  BY <1>2 DEF AttemptFails, AmountCaptured, Event, Outcome
<1>3. ASSUME NEW h \in Handler, NEW o \in Order, CreateOrder(h, o) PROVE PaymentTypeOK'
  <2>1. [pc |-> "store", order |-> o, outcome |-> "failed"] \in HandlerRow
    BY DEF HandlerRow, Outcome
  <2>2. handler' \in [Handler -> HandlerRow \cup {Resting}]
    BY <1>3, <2>1 DEF CreateOrder
  <2> QED
    BY <1>3, <2>2 DEF CreateOrder
<1>4. ASSUME NEW h \in Handler, NEW o \in Order, VerifyPayment(h, o) PROVE PaymentTypeOK'
  <2>1. [pc |-> "request", order |-> o, outcome |-> "paid"] \in HandlerRow
    BY DEF HandlerRow, Outcome
  <2>2. handler' \in [Handler -> HandlerRow \cup {Resting}] /\ crossed' \in BOOLEAN
    BY <1>4, <2>1, StartsTyped DEF VerifyPayment
  <2>3. verifications' \in 0 .. MaxVerify
    BY <1>4, PaymentsAssumption DEF VerifyPayment
  <2>4. orderRow' \in [Order -> {"none", "created"} \cup Outcome] /\ overwritten' \in SUBSET Order
    BY <1>4 DEF VerifyPayment, WriteOrder, Outcome
  <2> QED
    BY <1>4, <2>2, <2>3, <2>4 DEF VerifyPayment
<1>5. ASSUME NEW h \in Handler, NEW e \in Event, HandleWebhook(h, e) PROVE PaymentTypeOK'
  <2>1. [pc |-> "order", order |-> e.order, outcome |-> e.outcome] \in HandlerRow
    BY DEF HandlerRow, Event
  <2>2. handler' \in [Handler -> HandlerRow \cup {Resting}] /\ crossed' \in BOOLEAN
    BY <1>5, <2>1, StartsTyped DEF HandleWebhook
  <2>3. paymentStatus' \in {"pending"} \cup Outcome /\ events' \in SUBSET Event
    BY <1>5 DEF HandleWebhook, Event
  <2> QED
    BY <1>5, <2>2, <2>3 DEF HandleWebhook
<1>6. ASSUME NEW h \in Handler, StoreOrder(h) PROVE PaymentTypeOK'
  BY <1>6, <1>1 DEF StoreOrder
<1>7. ASSUME NEW h \in Handler, VerifyRequest(h) PROVE PaymentTypeOK'
  BY <1>7, <1>1 DEF VerifyRequest, Outcome
<1>8. ASSUME NEW h \in Handler, WebhookOrder(h) PROVE PaymentTypeOK'
  <2>1. handler[h].order \in Order /\ handler[h].outcome \in Outcome
    BY <1>8, HandlerAt DEF WebhookOrder
  <2>2. orderRow' \in [Order -> {"none", "created"} \cup Outcome] /\ overwritten' \in SUBSET Order
    BY <1>8, <2>1 DEF WebhookOrder, WriteOrder
  <2> QED
    BY <1>8, <1>1, <2>2 DEF WebhookOrder
<1>9. ASSUME NEW h \in Handler, HandlerDies(h) PROVE PaymentTypeOK'
  <2>1. deaths' \in 0 .. MaxDeath
    BY <1>9, PaymentsAssumption DEF HandlerDies
  <2> QED
    BY <1>9, <1>1, <2>1 DEF HandlerDies
<1> QED
  BY <1>0, <1>2, <1>3, <1>4, <1>5, <1>6, <1>7, <1>8, <1>9 DEF PaymentNext

(* The rows and the handlers have the types the handlers give them.        *)
THEOREM PaymentTyped == PaymentSpec => []PaymentTypeOK
BY PaymentTypeInit, PaymentTypeNext, PTL DEF PaymentSpec

-------------------------------------------------------------------------------
WorkingAt(h) == handler[h] # Resting /\ handler[h].pc # "store"

(* An order is stored once, before anybody can pay it.                     *)
OrdersStored ==
    /\ \A o \in Order : charge[o] = "none" => orderRow[o] = "none"
    /\ \A h \in Handler :
          /\ At(h, "store") =>
                /\ charge[handler[h].order] # "none" /\ orderRow[handler[h].order] = "none"
                /\ \A g \in Handler \ {h} : At(g, "store") => handler[g].order # handler[h].order
          /\ WorkingAt(h) => orderRow[handler[h].order] # "none"

(* Handlers that write at the same time write the same outcome: what the   *)
(* first of their two writes said is still there at the second.            *)
OutcomesAgree ==
    \A h \in Handler :
        /\ WorkingAt(h) => \A g \in Handler : WorkingAt(g) => handler[g].outcome = handler[h].outcome
        /\ At(h, "request") => handler[h].outcome = "paid" /\ orderRow[handler[h].order] = "paid"
        /\ At(h, "order") => paymentStatus = handler[h].outcome

RequestTold ==
    \/ paymentStatus = "pending"
    \/ \E h \in Handler : WorkingAt(h)
    \/ \E o \in Order : orderRow[o] = paymentStatus

AgreementInv ==
    /\ PaymentTypeOK
    /\ OrdersStored
    /\ deaths > 0 \/ crossed \/ (OutcomesAgree /\ RequestTold)

LEMMA AgreementInvInit == PaymentInit => AgreementInv
<1> SUFFICES ASSUME PaymentInit PROVE AgreementInv
  OBVIOUS
<1>1. \A h \in Handler : ~At(h, "store") /\ ~WorkingAt(h) /\ ~At(h, "request") /\ ~At(h, "order")
  BY DEF PaymentInit, At, WorkingAt
<1> QED
  BY <1>1, PaymentTypeInit DEF PaymentInit, AgreementInv, OrdersStored, OutcomesAgree, RequestTold

(* Where the handlers are once one of them has rested.                     *)
LEMMA RestingIs ==
    ASSUME PaymentTypeOK, NEW h \in Handler, Rests(h)
    PROVE  /\ \A pc : ~At(h, pc)'
           /\ ~WorkingAt(h)'
           /\ \A g \in Handler \ {h} :
                 handler'[g] = handler[g] /\ (WorkingAt(g)' <=> WorkingAt(g)) /\ \A pc : At(g, pc)' <=> At(g, pc)
<1>1. handler'[h] = Resting /\ \A g \in Handler \ {h} : handler'[g] = handler[g]
  BY DEF PaymentTypeOK, Rests
<1> QED
  BY <1>1 DEF At, WorkingAt

(* Where they are once one of them has started.                            *)
Started(h, new) == handler[h] = Resting /\ handler' = [handler EXCEPT ![h] = new]

StartedAt(h, new, pc) ==
    /\ handler'[h] = new /\ ~WorkingAt(h) /\ (WorkingAt(h)' <=> pc # "store")
    /\ \A step : At(h, step)' <=> pc = step
    /\ \A g \in Handler \ {h} :
          handler'[g] = handler[g] /\ (WorkingAt(g)' <=> WorkingAt(g)) /\ \A step : At(g, step)' <=> At(g, step)

LEMMA StartedIs ==
    ASSUME PaymentTypeOK, NEW h \in Handler, NEW new \in HandlerRow, Started(h, new)
    PROVE  StartedAt(h, new, new.pc)
<1>1. handler'[h] = new /\ \A g \in Handler \ {h} : handler'[g] = handler[g]
  BY DEF PaymentTypeOK, Started
<1>2. new # Resting
  BY DEF HandlerRow, Resting
<1> QED
  BY <1>1, <1>2 DEF Started, StartedAt, At, WorkingAt

(* Where a handler works.                                                  *)
LEMMA WorkingIs ==
    ASSUME PaymentTypeOK, NEW h \in Handler
    PROVE  /\ WorkingAt(h) <=> At(h, "request") \/ At(h, "order")
           /\ ~(At(h, "request") /\ At(h, "order")) /\ ~(At(h, "store") /\ WorkingAt(h))
BY DEF PaymentTypeOK, At, WorkingAt, HandlerRow

(* What the steps do to the rows, as far as agreement goes.                *)
LEMMA AgreementInvNext == AgreementInv /\ [PaymentNext]_paymentVars => AgreementInv'
<1> SUFFICES ASSUME AgreementInv, [PaymentNext]_paymentVars
             PROVE  /\ OrdersStored'
                    /\ deaths' > 0 \/ crossed' \/ (OutcomesAgree' /\ RequestTold')
  BY PaymentTypeNext DEF AgreementInv
<1>0. PaymentTypeOK /\ OrdersStored /\ (deaths > 0 \/ crossed \/ (OutcomesAgree /\ RequestTold))
  BY DEF AgreementInv
<1>d. deaths \in Nat
  BY <1>0, PaymentsAssumption DEF PaymentTypeOK
<1> DEFINE Goal == /\ OrdersStored'
                   /\ deaths' > 0 \/ crossed' \/ (OutcomesAgree' /\ RequestTold')
<1> USE DEF paymentRows, providerVars
<1>1. CASE UNCHANGED paymentVars
  BY <1>0, <1>1 DEF paymentVars, OrdersStored, OutcomesAgree, RequestTold, At, WorkingAt
<1>2. ASSUME NEW o \in Order, AttemptFails(o) \/ AmountCaptured(o) PROVE Goal
  <2>1. /\ UNCHANGED <<paymentStatus, orderRow, handler, deaths, crossed>>
        /\ \A p \in Order : charge'[p] = "none" => charge[p] = "none"
        /\ \A p \in Order : charge[p] # "none" => charge'[p] # "none"
    BY <1>0, <1>2 DEF AttemptFails, AmountCaptured, PaymentTypeOK
  <2>2. \A h \in Handler : (WorkingAt(h)' <=> WorkingAt(h)) /\ \A pc : At(h, pc)' <=> At(h, pc)
    BY <2>1 DEF At, WorkingAt
  <2>3. \A h \in Handler : At(h, "store") => handler[h].order \in Order
    BY <1>0, HandlerAt
  <2>4. OrdersStored'
    BY <1>0, <2>1, <2>2, <2>3 DEF OrdersStored
  <2>5. OutcomesAgree /\ RequestTold => OutcomesAgree' /\ RequestTold'
    BY <2>1, <2>2 DEF OutcomesAgree, RequestTold
  <2> QED
    BY <1>0, <2>1, <2>4, <2>5
<1>3. ASSUME NEW h \in Handler, NEW o \in Order, CreateOrder(h, o) PROVE Goal
  <2> DEFINE new == [pc |-> "store", order |-> o, outcome |-> "failed"]
  <2>1. new \in HandlerRow /\ new.pc = "store" /\ new.order = o
    BY DEF HandlerRow, Outcome
  <2>2. /\ charge[o] = "none" /\ charge' = [charge EXCEPT ![o] = "open"]
        /\ handler[h] = Resting /\ handler' = [handler EXCEPT ![h] = new]
        /\ UNCHANGED <<paymentStatus, orderRow, deaths, crossed>>
    BY <1>3 DEF CreateOrder
  <2> HIDE DEF new
  <2>3. /\ handler'[h] = new /\ ~WorkingAt(h)' /\ ~WorkingAt(h) /\ \A pc : At(h, pc)' <=> pc = "store"
        /\ \A g \in Handler \ {h} :
              handler'[g] = handler[g] /\ (WorkingAt(g)' <=> WorkingAt(g)) /\ \A pc : At(g, pc)' <=> At(g, pc)
    <3>1. PaymentTypeOK /\ Started(h, new) /\ new \in HandlerRow
      BY <1>0, <2>1, <2>2 DEF Started
    <3>2. StartedAt(h, new, new.pc)
      BY <3>1, StartedIs
    <3>3. StartedAt(h, new, "store")
      BY <2>1, <3>2
    <3> QED
      BY <3>3 DEF StartedAt
  <2>4. /\ charge'[o] = "open" /\ \A p \in Order \ {o} : charge'[p] = charge[p]
        /\ orderRow[o] = "none" /\ \A g \in Handler : At(g, "store") => handler[g].order # o
    BY <1>0, <2>2 DEF PaymentTypeOK, OrdersStored
  <2>5. \A g \in Handler : At(g, "store") => handler[g].order \in Order
    BY <1>0, HandlerAt
  <2>6. \A p \in Order : charge'[p] = "none" => orderRow'[p] = "none"
    BY <1>0, <2>2, <2>4 DEF OrdersStored
  <2>7. \A g \in Handler : At(g, "store")' =>
              /\ charge'[handler'[g].order] # "none" /\ orderRow'[handler'[g].order] = "none"
              /\ \A k \in Handler \ {g} : At(k, "store")' => handler'[k].order # handler'[g].order
    BY <1>0, <2>1, <2>2, <2>3, <2>4, <2>5 DEF OrdersStored
  <2>8. \A g \in Handler : WorkingAt(g)' => orderRow'[handler'[g].order] # "none"
    BY <1>0, <2>2, <2>3 DEF OrdersStored
  <2>9. OutcomesAgree /\ RequestTold => OutcomesAgree' /\ RequestTold'
    BY <2>2, <2>3 DEF OutcomesAgree, RequestTold
  <2> QED
    BY <1>0, <2>2, <2>6, <2>7, <2>8, <2>9 DEF OrdersStored
<1>4. ASSUME NEW h \in Handler, StoreOrder(h) PROVE Goal
  <2> DEFINE o == handler[h].order
  <2>1. /\ At(h, "store") /\ o \in Order
        /\ orderRow' = [orderRow EXCEPT ![o] = "created"] /\ Rests(h)
        /\ UNCHANGED <<paymentStatus, charge, deaths, crossed>>
    BY <1>0, <1>4, HandlerAt DEF StoreOrder
  <2>2. charge[o] # "none" /\ orderRow[o] = "none" /\ \A g \in Handler \ {h} : At(g, "store") => handler[g].order # o
    BY <1>0, <2>1 DEF OrdersStored
  <2> HIDE DEF o
  <2>3. orderRow'[o] = "created" /\ \A p \in Order \ {o} : orderRow'[p] = orderRow[p]
    BY <1>0, <2>1 DEF PaymentTypeOK
  <2>4. /\ \A pc : ~At(h, pc)'
        /\ ~WorkingAt(h)'
        /\ \A g \in Handler \ {h} :
              handler'[g] = handler[g] /\ (WorkingAt(g)' <=> WorkingAt(g)) /\ \A pc : At(g, pc)' <=> At(g, pc)
    BY <1>0, <2>1, RestingIs
  <2>5. \A g \in Handler : At(g, "store") \/ WorkingAt(g) => handler[g].order \in Order
    BY <1>0, HandlerAt, WorkingIs
  <2>6. \A g \in Handler : WorkingAt(g) => handler[g].order # o
    BY <1>0, <2>2 DEF OrdersStored
  <2>7. OrdersStored'
    BY <1>0, <2>1, <2>2, <2>3, <2>4, <2>5, <2>6 DEF OrdersStored
  <2>8. ~WorkingAt(h) /\ "none" \notin {"pending"} \cup Outcome /\ paymentStatus \in {"pending"} \cup Outcome
    BY <1>0, <2>1, WorkingIs DEF PaymentTypeOK, Outcome
  <2>9. OutcomesAgree => OutcomesAgree'
    BY <2>1, <2>3, <2>4, <2>5, <2>6, <2>8 DEF OutcomesAgree, WorkingAt, At
  <2>10. RequestTold => RequestTold'
    <3>1. CASE \E g \in Handler : WorkingAt(g)
      BY <2>4, <2>8, <3>1 DEF RequestTold
    <3>2. CASE paymentStatus = "pending"
      BY <2>1, <3>2 DEF RequestTold
    <3>3. ASSUME NEW p \in Order, orderRow[p] = paymentStatus PROVE RequestTold'
      <4>1. p # o
        BY <2>2, <2>8, <3>3
      <4> QED
        BY <2>1, <2>3, <3>3, <4>1 DEF RequestTold
    <3> QED
      BY <3>1, <3>2, <3>3 DEF RequestTold
  <2> QED
    BY <1>0, <2>1, <2>7, <2>9, <2>10
<1>5. ASSUME NEW h \in Handler, NEW o \in Order, VerifyPayment(h, o) PROVE Goal
  <2> DEFINE new == [pc |-> "request", order |-> o, outcome |-> "paid"]
  <2>1. new \in HandlerRow /\ new.pc = "request" /\ new.order = o /\ new.outcome = "paid"
    BY DEF HandlerRow, Outcome
  <2>2. /\ orderRow[o] # "none" /\ orderRow' = [orderRow EXCEPT ![o] = "paid"] /\ Starts(h, new)
        /\ UNCHANGED <<paymentStatus, charge, deaths>>
    BY <1>5 DEF VerifyPayment, WriteOrder
  <2>3. \/ crossed'
        \/ ~crossed /\ \A g \in Handler \ {h} : WorkingAt(g) => handler[g].outcome = "paid"
    <3> HIDE DEF new
    <3> QED
      BY <2>1, <2>2, Zenon DEF Starts, WorkingAt
  <2>4. handler[h] = Resting /\ handler' = [handler EXCEPT ![h] = new]
    BY <2>2 DEF Starts
  <2> HIDE DEF new
  <2>5. /\ handler'[h] = new /\ WorkingAt(h)' /\ ~WorkingAt(h) /\ \A pc : At(h, pc)' <=> pc = "request"
        /\ \A g \in Handler \ {h} :
              handler'[g] = handler[g] /\ (WorkingAt(g)' <=> WorkingAt(g)) /\ \A pc : At(g, pc)' <=> At(g, pc)
    <3>1. PaymentTypeOK /\ Started(h, new) /\ new \in HandlerRow
      BY <1>0, <2>1, <2>4 DEF Started
    <3>2. StartedAt(h, new, new.pc)
      BY <3>1, StartedIs
    <3>3. StartedAt(h, new, "request")
      BY <2>1, <3>2
    <3> QED
      BY <3>3 DEF StartedAt
  <2>6. orderRow'[o] = "paid" /\ \A p \in Order \ {o} : orderRow'[p] = orderRow[p]
    BY <1>0, <2>2 DEF PaymentTypeOK
  <2>7. \A g \in Handler : At(g, "store") \/ WorkingAt(g) => handler[g].order \in Order
    BY <1>0, HandlerAt, WorkingIs
  <2>8. OrdersStored'
    BY <1>0, <2>1, <2>2, <2>5, <2>6, <2>7 DEF OrdersStored
  <2>9. RequestTold'
    BY <2>5 DEF RequestTold
  <2>10. ASSUME ~crossed', OutcomesAgree PROVE OutcomesAgree'
    <3>1. \A g \in Handler : WorkingAt(g)' => handler'[g].outcome = "paid"
      BY <2>1, <2>3, <2>5, <2>10
    <3>2. \A g \in Handler : At(g, "request")' => orderRow'[handler'[g].order] = "paid"
      BY <2>1, <2>5, <2>6, <2>7, <2>10, <1>0, WorkingIs DEF OutcomesAgree
    <3>3. \A g \in Handler : At(g, "order")' => paymentStatus' = handler'[g].outcome
      BY <2>2, <2>5, <2>10 DEF OutcomesAgree
    <3>4. \A g \in Handler : At(g, "request")' => WorkingAt(g)'
      BY DEF At, WorkingAt
    <3> QED
      BY <3>1, <3>2, <3>3, <3>4 DEF OutcomesAgree
  <2> QED
    BY <1>0, <2>2, <2>3, <2>8, <2>9, <2>10
<1>6. ASSUME NEW h \in Handler, VerifyRequest(h) PROVE Goal
  <2>1. /\ At(h, "request") /\ paymentStatus' = "paid" /\ Rests(h)
        /\ UNCHANGED <<orderRow, charge, deaths, crossed>>
    BY <1>6 DEF VerifyRequest
  <2>2. /\ \A pc : ~At(h, pc)'
        /\ ~WorkingAt(h)'
        /\ \A g \in Handler \ {h} :
              handler'[g] = handler[g] /\ (WorkingAt(g)' <=> WorkingAt(g)) /\ \A pc : At(g, pc)' <=> At(g, pc)
    BY <1>0, <2>1, RestingIs
  <2>3. OrdersStored'
    BY <1>0, <2>1, <2>2 DEF OrdersStored
  <2>4. ASSUME OutcomesAgree PROVE OutcomesAgree' /\ RequestTold'
    <3>1. WorkingAt(h) /\ handler[h].outcome = "paid" /\ orderRow[handler[h].order] = "paid" /\ handler[h].order \in Order
      BY <1>0, <2>1, <2>4, WorkingIs, HandlerAt DEF OutcomesAgree
    <3>2. RequestTold'
      BY <2>1, <3>1 DEF RequestTold
    <3>3. \A g \in Handler : WorkingAt(g)' => handler'[g].outcome = "paid"
      BY <2>2, <2>4, <3>1 DEF OutcomesAgree
    <3>4. \A g \in Handler : At(g, "order")' => WorkingAt(g)'
      BY DEF At, WorkingAt
    <3>5. \A g \in Handler : At(g, "request")' => handler'[g].outcome = "paid" /\ orderRow'[handler'[g].order] = "paid"
      BY <2>1, <2>2, <2>4 DEF OutcomesAgree
    <3> QED
      BY <2>1, <3>2, <3>3, <3>4, <3>5 DEF OutcomesAgree
  <2> QED
    BY <1>0, <2>1, <2>3, <2>4
<1>7. ASSUME NEW h \in Handler, NEW e \in Event, HandleWebhook(h, e) PROVE Goal
  <2>1. CASE orderRow[e.order] = "none"
    <3>1. UNCHANGED <<paymentStatus, orderRow, charge, handler, deaths, crossed>>
      BY <1>7, <2>1 DEF HandleWebhook
    <3> QED
      BY <1>0, <3>1 DEF OrdersStored, OutcomesAgree, RequestTold, At, WorkingAt
  <2>2. CASE orderRow[e.order] # "none"
    <3> DEFINE new == [pc |-> "order", order |-> e.order, outcome |-> e.outcome]
    <3>1. new \in HandlerRow /\ new.pc = "order" /\ new.order = e.order /\ new.outcome = e.outcome
      BY DEF HandlerRow, Event
    <3>2. Starts(h, new) /\ paymentStatus' = e.outcome /\ UNCHANGED <<orderRow, charge, deaths>>
      BY <1>7, <2>2 DEF HandleWebhook
    <3>3. \/ crossed'
          \/ ~crossed /\ \A g \in Handler \ {h} : WorkingAt(g) => handler[g].outcome = e.outcome
      <4> HIDE DEF new
      <4> QED
        BY <3>1, <3>2, Zenon DEF Starts, WorkingAt
    <3>4. handler[h] = Resting /\ handler' = [handler EXCEPT ![h] = new]
      BY <3>2 DEF Starts
    <3> HIDE DEF new
    <3>5. /\ handler'[h] = new /\ WorkingAt(h)' /\ ~WorkingAt(h) /\ \A pc : At(h, pc)' <=> pc = "order"
          /\ \A g \in Handler \ {h} :
                handler'[g] = handler[g] /\ (WorkingAt(g)' <=> WorkingAt(g)) /\ \A pc : At(g, pc)' <=> At(g, pc)
      <4>1. PaymentTypeOK /\ Started(h, new) /\ new \in HandlerRow
        BY <1>0, <3>1, <3>4 DEF Started
      <4>2. StartedAt(h, new, new.pc)
        BY <4>1, StartedIs
      <4>3. StartedAt(h, new, "order")
        BY <3>1, <4>2
      <4> QED
        BY <4>3 DEF StartedAt
    <3>6. OrdersStored'
      BY <1>0, <2>2, <3>1, <3>2, <3>5 DEF OrdersStored
    <3>7. RequestTold'
      BY <3>5 DEF RequestTold
    <3>8. ASSUME ~crossed', OutcomesAgree PROVE OutcomesAgree'
      <4>1. \A g \in Handler : WorkingAt(g)' => handler'[g].outcome = e.outcome
        BY <3>1, <3>3, <3>5, <3>8
      <4>2. \A g \in Handler : At(g, "request")' => handler'[g].outcome = "paid" /\ orderRow'[handler'[g].order] = "paid"
        BY <3>2, <3>5, <3>8 DEF OutcomesAgree
      <4>3. \A g \in Handler : At(g, "order")' => WorkingAt(g)'
        BY DEF At, WorkingAt
      <4> QED
        BY <3>2, <4>1, <4>2, <4>3 DEF OutcomesAgree
    <3> QED
      BY <1>0, <3>2, <3>3, <3>6, <3>7, <3>8
  <2> QED
    BY <2>1, <2>2
<1>8. ASSUME NEW h \in Handler, WebhookOrder(h) PROVE Goal
  <2> DEFINE o == handler[h].order
             outcome == handler[h].outcome
  <2>1. At(h, "order") /\ o \in Order /\ outcome \in Outcome
    BY <1>0, <1>8, HandlerAt DEF WebhookOrder
  <2>2. /\ orderRow' = [orderRow EXCEPT ![o] = outcome] /\ Rests(h)
        /\ UNCHANGED <<paymentStatus, charge, deaths, crossed>>
    BY <1>8 DEF WebhookOrder, WriteOrder
  <2>3. WorkingAt(h) /\ orderRow[o] # "none" /\ outcome # "none"
    BY <1>0, <2>1, WorkingIs DEF OrdersStored, Outcome
  <2>4. OutcomesAgree => \A g \in Handler : (WorkingAt(g) => handler[g].outcome = outcome) /\ paymentStatus = outcome
    BY <2>1, <2>3 DEF OutcomesAgree
  <2>5. charge[o] # "none" /\ \A g \in Handler : At(g, "store") => handler[g].order # o
    BY <1>0, <2>1, <2>3 DEF OrdersStored
  <2> HIDE DEF o, outcome
  <2>6. orderRow'[o] = outcome /\ \A p \in Order \ {o} : orderRow'[p] = orderRow[p]
    BY <1>0, <2>1, <2>2 DEF PaymentTypeOK
  <2>7. /\ \A pc : ~At(h, pc)'
        /\ ~WorkingAt(h)'
        /\ \A g \in Handler \ {h} :
              handler'[g] = handler[g] /\ (WorkingAt(g)' <=> WorkingAt(g)) /\ \A pc : At(g, pc)' <=> At(g, pc)
    BY <1>0, <2>2, RestingIs
  <2>8. \A g \in Handler : At(g, "store") \/ WorkingAt(g) => handler[g].order \in Order
    BY <1>0, HandlerAt, WorkingIs
  <2>9. OrdersStored'
    BY <1>0, <2>2, <2>3, <2>5, <2>6, <2>7, <2>8 DEF OrdersStored
  <2>10. ASSUME OutcomesAgree PROVE OutcomesAgree' /\ RequestTold'
    <3>1. RequestTold'
      BY <2>1, <2>2, <2>4, <2>6, <2>10 DEF RequestTold
    <3>2. \A g \in Handler : WorkingAt(g)' => handler'[g].outcome = outcome
      BY <2>4, <2>7, <2>10
    <3>3. \A g \in Handler : (At(g, "order")' \/ At(g, "request")') => WorkingAt(g)'
      BY DEF At, WorkingAt
    <3>4. \A g \in Handler : At(g, "request")' => handler'[g].outcome = "paid" /\ orderRow'[handler'[g].order] = "paid"
      BY <2>6, <2>7, <2>8, <2>10, <3>2, <3>3 DEF OutcomesAgree
    <3>5. paymentStatus' = outcome
      BY <2>1, <2>2, <2>4, <2>10
    <3> QED
      BY <3>1, <3>2, <3>3, <3>4, <3>5 DEF OutcomesAgree
  <2> QED
    BY <1>0, <2>2, <2>9, <2>10
<1>9. ASSUME NEW h \in Handler, HandlerDies(h) PROVE Goal
  <2>1. deaths' > 0 /\ Rests(h) /\ UNCHANGED <<orderRow, charge>>
    BY <1>9, <1>d DEF HandlerDies
  <2>2. /\ \A pc : ~At(h, pc)'
        /\ ~WorkingAt(h)'
        /\ \A g \in Handler \ {h} :
              handler'[g] = handler[g] /\ (WorkingAt(g)' <=> WorkingAt(g)) /\ \A pc : At(g, pc)' <=> At(g, pc)
    BY <1>0, <2>1, RestingIs
  <2>3. OrdersStored'
    BY <1>0, <2>1, <2>2 DEF OrdersStored
  <2> QED
    BY <2>1, <2>3
<1> QED
  BY <1>1, <1>2, <1>3, <1>4, <1>5, <1>6, <1>7, <1>8, <1>9 DEF PaymentNext

(* The request says what an order says, for any orders and handlers.       *)
THEOREM RequestAgrees == PaymentSpec => []RequestAgreesWithOrder
<1>1. AgreementInv => RequestAgreesWithOrder
  BY DEF AgreementInv, RequestTold, RequestAgreesWithOrder, WorkingAt
<1> QED
  BY <1>1, AgreementInvInit, AgreementInvNext, PTL DEF PaymentSpec

-------------------------------------------------------------------------------
(* An order is attempted once its row exists, so its event finds the row.  *)
CaptureStored == \A o \in Order : charge[o] = "captured" => orderRow[o] # "none"

(* The row of an order tells of its capture, or did so.                    *)
Told(o) == orderRow[o] = "paid" \/ (orderRow[o] = "failed" /\ o \in overwritten)

CaptureInv == PaymentTypeOK /\ OrdersStored /\ CaptureStored /\ CaptureNotForgotten

LEMMA CaptureInit == PaymentInit => CaptureStored /\ CaptureNotForgotten
BY DEF PaymentInit, CaptureStored, CaptureNotForgotten

(* An order's row is never removed, and goes on telling of a capture.      *)
LEMMA OrderWritten ==
    ASSUME PaymentTypeOK, NEW o \in Order, NEW outcome \in Outcome, WriteOrder(o, outcome)
    PROVE  /\ \A p \in Order : orderRow[p] # "none" => orderRow'[p] # "none"
           /\ \A p \in Order : Told(p) => Told(p)'
           /\ outcome = "paid" => Told(o)'
<1>1. /\ orderRow'[o] = outcome /\ \A p \in Order \ {o} : orderRow'[p] = orderRow[p]
      /\ outcome \in {"paid", "failed"}
  BY DEF PaymentTypeOK, WriteOrder, Outcome
<1>2. /\ \A p \in Order \ {o} : p \in overwritten => p \in overwritten'
      /\ outcome = "failed" => (Told(o) => o \in overwritten')
  BY DEF WriteOrder, Told
<1> QED
  BY <1>1, <1>2 DEF Told

LEMMA CaptureInvNext == CaptureInv /\ [PaymentNext]_paymentVars => CaptureStored' /\ CaptureNotForgotten'
<1> SUFFICES ASSUME CaptureInv, [PaymentNext]_paymentVars PROVE CaptureStored' /\ CaptureNotForgotten'
  OBVIOUS
<1> DEFINE Announced(o) == [order |-> o, outcome |-> "paid"] \in events
<1>0. /\ PaymentTypeOK /\ OrdersStored
      /\ \A o \in Order : charge[o] = "captured" => orderRow[o] # "none" /\ (Told(o) \/ Announced(o))
  BY DEF CaptureInv, CaptureStored, CaptureNotForgotten, Told
<1>g. ASSUME \A o \in Order : charge'[o] = "captured" => orderRow'[o] # "none" /\ (Told(o)' \/ Announced(o)')
      PROVE  CaptureStored' /\ CaptureNotForgotten'
  BY <1>g DEF CaptureStored, CaptureNotForgotten, Told
<1> USE DEF paymentRows, providerVars
<1>1. ASSUME UNCHANGED <<charge, events>>,
             \A o \in Order : orderRow[o] # "none" => orderRow'[o] # "none",
             \A o \in Order : Told(o) => Told(o)'
      PROVE  CaptureStored' /\ CaptureNotForgotten'
  BY <1>0, <1>1, <1>g
<1>2. ASSUME UNCHANGED <<orderRow, overwritten>> PROVE \A o \in Order : Told(o)' <=> Told(o)
  BY <1>2 DEF Told
<1>3. CASE UNCHANGED paymentVars
  BY <1>1, <1>2, <1>3 DEF paymentVars
<1>4. ASSUME NEW o \in Order, AttemptFails(o) PROVE CaptureStored' /\ CaptureNotForgotten'
  <2>1. UNCHANGED <<orderRow, overwritten, charge>> /\ events \subseteq events'
    BY <1>4 DEF AttemptFails
  <2> QED
    BY <1>0, <1>2, <1>g, <2>1
<1>5. ASSUME NEW o \in Order, AmountCaptured(o) PROVE CaptureStored' /\ CaptureNotForgotten'
  <2>1. /\ UNCHANGED <<orderRow, overwritten>> /\ orderRow[o] # "none"
        /\ events \subseteq events' /\ Announced(o)'
        /\ \A p \in Order \ {o} : charge'[p] = charge[p]
    BY <1>0, <1>5 DEF AmountCaptured, PaymentTypeOK
  <2> QED
    BY <1>0, <1>2, <1>g, <2>1
<1>6. ASSUME NEW h \in Handler, NEW o \in Order, CreateOrder(h, o) PROVE CaptureStored' /\ CaptureNotForgotten'
  <2>1. /\ UNCHANGED <<orderRow, overwritten, events>>
        /\ \A p \in Order : charge'[p] = "captured" => charge[p] = "captured"
    BY <1>0, <1>6 DEF CreateOrder, PaymentTypeOK
  <2> QED
    BY <1>0, <1>2, <1>g, <2>1
<1>7. ASSUME NEW h \in Handler, NEW o \in Order, VerifyPayment(h, o) PROVE CaptureStored' /\ CaptureNotForgotten'
  BY <1>0, <1>1, <1>7, OrderWritten DEF VerifyPayment, Outcome
<1>8. ASSUME NEW h \in Handler, NEW e \in Event, HandleWebhook(h, e) PROVE CaptureStored' /\ CaptureNotForgotten'
  <2>1. UNCHANGED <<orderRow, overwritten, charge>>
    BY <1>8 DEF HandleWebhook
  <2>2. CASE orderRow[e.order] = "none"
    <3>1. \A o \in Order : charge[o] = "captured" => [order |-> o, outcome |-> "paid"] # e
      BY <1>0, <2>2
    <3>2. events' = events \ {e}
      BY <1>8, <2>2 DEF HandleWebhook
    <3> QED
      BY <1>0, <1>2, <1>g, <2>1, <3>1, <3>2
  <2>3. CASE orderRow[e.order] # "none"
    <3>1. events' = events
      BY <1>8, <2>3 DEF HandleWebhook
    <3> QED
      BY <1>1, <1>2, <2>1, <3>1
  <2> QED
    BY <2>2, <2>3
<1>9. ASSUME NEW h \in Handler, StoreOrder(h) PROVE CaptureStored' /\ CaptureNotForgotten'
  <2> DEFINE o == handler[h].order
  <2>1. o \in Order /\ orderRow[o] = "none"
    BY <1>0, <1>9, HandlerAt DEF StoreOrder, OrdersStored
  <2>2. /\ orderRow'[o] = "created" /\ \A p \in Order \ {o} : orderRow'[p] = orderRow[p]
        /\ UNCHANGED <<charge, events, overwritten>>
    BY <1>0, <1>9, <2>1 DEF StoreOrder, PaymentTypeOK
  <2> HIDE DEF o
  <2>3. \A p \in Order : (orderRow[p] # "none" => orderRow'[p] # "none") /\ (Told(p) => Told(p)')
    BY <2>1, <2>2 DEF Told
  <2> QED
    BY <1>1, <2>2, <2>3
<1>10. ASSUME NEW h \in Handler, VerifyRequest(h) \/ HandlerDies(h) PROVE CaptureStored' /\ CaptureNotForgotten'
  BY <1>1, <1>2, <1>10 DEF VerifyRequest, HandlerDies
<1>11. ASSUME NEW h \in Handler, WebhookOrder(h) PROVE CaptureStored' /\ CaptureNotForgotten'
  <2> DEFINE own == handler[h]
  <2>1. own.order \in Order /\ own.outcome \in Outcome
    BY <1>0, <1>11, HandlerAt DEF WebhookOrder
  <2>2. /\ \A p \in Order : orderRow[p] # "none" => orderRow'[p] # "none"
        /\ \A p \in Order : Told(p) => Told(p)'
        /\ \A p \in Order : p = own.order /\ own.outcome = "paid" => Told(p)'
    <3>1. WriteOrder(own.order, own.outcome)
      BY <1>11 DEF WebhookOrder
    <3> QED
      BY <1>0, <2>1, <3>1, OrderWritten
  <2>3. charge' = charge /\ events' = events \ {[order |-> own.order, outcome |-> own.outcome]}
    BY <1>11 DEF WebhookOrder
  <2>4. ASSUME NEW o \in Order, charge'[o] = "captured"
        PROVE  orderRow'[o] # "none" /\ (Told(o)' \/ Announced(o)')
    <3>1. CASE o = own.order /\ own.outcome = "paid"
      BY <1>0, <2>2, <2>3, <2>4, <3>1
    <3>2. CASE ~(o = own.order /\ own.outcome = "paid")
      <4>1. [order |-> o, outcome |-> "paid"] # [order |-> own.order, outcome |-> own.outcome]
        BY <3>2
      <4> QED
        BY <1>0, <2>2, <2>3, <2>4, <4>1
    <3> QED
      BY <3>1, <3>2
  <2> QED
    BY <1>g, <2>4
<1> QED
  BY <1>3, <1>4, <1>5, <1>6, <1>7, <1>8, <1>9, <1>10, <1>11 DEF PaymentNext

(* What the provider captured is on the order's row, will be told again,   *)
(* or was written over by the late event of an earlier failed attempt.     *)
THEOREM CaptureIsKnown == PaymentSpec => []CaptureNotForgotten
<1>1. AgreementInv => PaymentTypeOK /\ OrdersStored
  BY DEF AgreementInv
<1>2. PaymentInit => CaptureStored /\ CaptureNotForgotten
  BY CaptureInit
<1>3. AgreementInv /\ CaptureStored /\ CaptureNotForgotten /\ [PaymentNext]_paymentVars
        => CaptureStored' /\ CaptureNotForgotten'
  BY <1>1, CaptureInvNext DEF CaptureInv
<1> QED
  BY <1>2, <1>3, AgreementInvInit, AgreementInvNext, PTL DEF PaymentSpec

-------------------------------------------------------------------------------
(* The desk *)

(* What an edit has read is what is stored, unless it is marked.           *)
EditsKnown ==
    \A e \in Editor : ~editor[e].stale =>
        /\ editor[e].pc = "prefs" => editor[e].prefs = prefs
        /\ editor[e].pc = "appeals" => editor[e].appeals = appeals
        /\ editor[e].pc = "toggle" => editor[e].day = day

DeskInv == DeskTypeOK /\ EditsKnown /\ EditsKept

EditorSet == EditorRow \cup {NoEdit}

(* A call in progress is at a step; one that is not has read nothing.      *)
LEMMA EditorRows ==
    /\ NoEdit.pc = "resting" /\ NoEdit.stale = FALSE
    /\ \A r \in EditorRow :
          /\ r.pc \in {"prefs", "appeals", "toggle", "times", "away"}
          /\ r.prefs \in SUBSET Preference /\ r.change \in Change
          /\ r.appeals \in SUBSET Appeal /\ r.appeal \in SUBSET Appeal
          /\ r.day \in DayState /\ r.stale \in BOOLEAN
BY DEF NoEdit, EditorRow

(* What an edit that needs nothing else is made of.                       *)
LEMMA EmptyEdit ==
    /\ {} \in SUBSET Preference /\ {} \in SUBSET Appeal /\ "none" \in DayState /\ FALSE \in BOOLEAN
    /\ [on |-> {}, off |-> {}] \in Change
<1>1. [on |-> {}, off |-> {}] \in Change
  BY DEF Change
<1> QED
  BY <1>1 DEF DayState

(* A write marks the edits that have read the row and touches no other.    *)
LEMMA Overtaken ==
    ASSUME DeskTypeOK, NEW pcs \in SUBSET {"prefs", "appeals", "toggle", "times", "away"}
    PROVE  /\ Overtakes(pcs) \in [Editor -> EditorSet]
           /\ \A o \in Editor :
                 /\ editor[o].pc \in pcs => Overtakes(pcs)[o].stale
                 /\ editor[o].pc \notin pcs => Overtakes(pcs)[o] = editor[o]
                 /\ Overtakes(pcs)[o].pc = editor[o].pc
<1> SUFFICES ASSUME NEW o \in Editor
             PROVE  /\ Overtakes(pcs)[o] \in EditorSet
                    /\ editor[o].pc \in pcs => Overtakes(pcs)[o].stale
                    /\ editor[o].pc \notin pcs => Overtakes(pcs)[o] = editor[o]
                    /\ Overtakes(pcs)[o].pc = editor[o].pc
  BY DEF Overtakes
<1>1. Overtakes(pcs)[o] = IF editor[o].pc \in pcs THEN [editor[o] EXCEPT !.stale = TRUE] ELSE editor[o]
  BY DEF Overtakes
<1>2. editor[o] \in EditorRow \/ editor[o] = NoEdit
  BY DEF DeskTypeOK
<1>3. CASE editor[o].pc \in pcs
  <2>1. editor[o] \in EditorRow
    BY <1>2, <1>3, EditorRows
  <2>2. [editor[o] EXCEPT !.stale = TRUE] \in EditorRow
    BY <2>1 DEF EditorRow
  <2>3. [editor[o] EXCEPT !.stale = TRUE].stale /\ [editor[o] EXCEPT !.stale = TRUE].pc = editor[o].pc
    BY <2>1 DEF EditorRow
  <2> QED
    BY <1>1, <1>3, <2>2, <2>3 DEF EditorSet
<1>4. CASE editor[o].pc \notin pcs
  BY <1>1, <1>2, <1>4 DEF EditorSet
<1> QED
  BY <1>3, <1>4

(* An edit that began, and one that ended without a write or with one.     *)
LEMMA EditorsAfter ==
    ASSUME DeskTypeOK, NEW e \in Editor
    PROVE  /\ \A r \in EditorSet : editor' = [editor EXCEPT ![e] = r] =>
                 /\ editor' \in [Editor -> EditorSet]
                 /\ editor'[e] = r /\ \A o \in Editor \ {e} : editor'[o] = editor[o]
           /\ \A pcs \in SUBSET {"prefs", "appeals", "toggle", "times", "away"} : Finishes(e, pcs) =>
                 /\ editor' \in [Editor -> EditorSet]
                 /\ editor'[e] = NoEdit
                 /\ \A o \in Editor \ {e} :
                       /\ editor[o].pc \in pcs => editor'[o].stale
                       /\ editor[o].pc \notin pcs => editor'[o] = editor[o]
                       /\ editor'[o].pc = editor[o].pc
<1>1. ASSUME NEW r \in EditorSet, editor' = [editor EXCEPT ![e] = r]
      PROVE  /\ editor' \in [Editor -> EditorSet]
             /\ editor'[e] = r /\ \A o \in Editor \ {e} : editor'[o] = editor[o]
  BY <1>1 DEF DeskTypeOK, EditorSet
<1>2. ASSUME NEW pcs \in SUBSET {"prefs", "appeals", "toggle", "times", "away"}, Finishes(e, pcs)
      PROVE  /\ editor' \in [Editor -> EditorSet]
             /\ editor'[e] = NoEdit
             /\ \A o \in Editor \ {e} :
                   /\ editor[o].pc \in pcs => editor'[o].stale
                   /\ editor[o].pc \notin pcs => editor'[o] = editor[o]
                   /\ editor'[o].pc = editor[o].pc
  <2> DEFINE f == Overtakes(pcs)
  <2>1. /\ f \in [Editor -> EditorSet]
        /\ \A o \in Editor :
              /\ editor[o].pc \in pcs => f[o].stale
              /\ editor[o].pc \notin pcs => f[o] = editor[o]
              /\ f[o].pc = editor[o].pc
    BY Overtaken
  <2>2. editor' = [f EXCEPT ![e] = NoEdit]
    BY <1>2 DEF Finishes
  <2> HIDE DEF f
  <2>3. NoEdit \in EditorSet
    BY DEF EditorSet
  <2> QED
    BY <2>1, <2>2, <2>3
<1> QED
  BY <1>1, <1>2

LEMMA EditBounds ==
    ASSUME DeskTypeOK
    PROVE  /\ edits < MaxEdit /\ edits' = edits + 1 => edits' \in 0 .. MaxEdit
           /\ breaks < MaxBreak /\ breaks' = breaks + 1 => breaks' \in 0 .. MaxBreak
BY DeskAssumption DEF DeskTypeOK

SaidTyped(s) == s \in [prefs : SUBSET Preference, search : BOOLEAN, appeals : SUBSET Appeal, day : DayState]

LEMMA SaidChanges ==
    \A s : SaidTyped(s) =>
        /\ \A p \in SUBSET Preference : SaidTyped([s EXCEPT !.prefs = p]) /\ [s EXCEPT !.prefs = p].prefs = p
              /\ [s EXCEPT !.prefs = p].search = s.search /\ [s EXCEPT !.prefs = p].appeals = s.appeals
              /\ [s EXCEPT !.prefs = p].day = s.day
        /\ \A b \in BOOLEAN : SaidTyped([s EXCEPT !.search = b]) /\ [s EXCEPT !.search = b].search = b
              /\ [s EXCEPT !.search = b].prefs = s.prefs /\ [s EXCEPT !.search = b].appeals = s.appeals
              /\ [s EXCEPT !.search = b].day = s.day
        /\ \A a \in SUBSET Appeal : SaidTyped([s EXCEPT !.appeals = a]) /\ [s EXCEPT !.appeals = a].appeals = a
              /\ [s EXCEPT !.appeals = a].prefs = s.prefs /\ [s EXCEPT !.appeals = a].search = s.search
              /\ [s EXCEPT !.appeals = a].day = s.day
        /\ \A d \in DayState : SaidTyped([s EXCEPT !.day = d]) /\ [s EXCEPT !.day = d].day = d
              /\ [s EXCEPT !.day = d].prefs = s.prefs /\ [s EXCEPT !.day = d].search = s.search
              /\ [s EXCEPT !.day = d].appeals = s.appeals
BY DEF SaidTyped

LEMMA DeskInvInit == DeskInit => DeskInv
<1> SUFFICES ASSUME DeskInit PROVE DeskInv
  OBVIOUS
<1>1. \A e \in Editor : editor[e] = NoEdit
  BY DEF DeskInit
<1>2. EditsKnown
  BY <1>1, EditorRows DEF EditsKnown
<1>3. DeskTypeOK
  <2>1. editor \in [Editor -> EditorRow \cup {NoEdit}]
    BY DEF DeskInit
  <2>2. 0 \in 0 .. MaxEdit /\ 0 \in 0 .. MaxBreak
    BY DeskAssumption
  <2>3. [prefs |-> {}, search |-> TRUE, appeals |-> {}, day |-> "none"] \in
           [prefs : SUBSET Preference, search : BOOLEAN, appeals : SUBSET Appeal, day : DayState]
    BY DEF DayState
  <2>4. {showInSearch, vacation, isAvailable} \subseteq BOOLEAN
    BY DEF DeskInit
  <2> QED
    BY <2>1, <2>2, <2>3, <2>4 DEF DeskInit, DeskTypeOK, DayState
<1>4. EditsKept
  <2>1. /\ prefs = {} /\ showInSearch = TRUE /\ appeals = {} /\ day = "none" /\ isAvailable = FALSE
        /\ said = [prefs |-> {}, search |-> TRUE, appeals |-> {}, day |-> "none"]
    BY DEF DeskInit
  <2>2. said.prefs = {} /\ said.search = TRUE /\ said.appeals = {} /\ said.day = "none"
    BY <2>1
  <2> QED
    BY <2>1, <2>2, Zenon DEF EditsKept
<1> QED
  BY <1>2, <1>3, <1>4 DEF DeskInv

LEMMA DeskInvNext == DeskInv /\ [DeskNext]_deskVars => DeskInv'
<1> SUFFICES ASSUME DeskInv, [DeskNext]_deskVars PROVE DeskTypeOK' /\ EditsKnown' /\ EditsKept'
  BY DEF DeskInv
<1> DEFINE Goal == DeskTypeOK' /\ EditsKnown' /\ EditsKept'
<1>0. DeskTypeOK /\ EditsKnown /\ EditsKept
  BY DEF DeskInv
<1>1. /\ prefs \in SUBSET Preference /\ appeals \in SUBSET Appeal /\ day \in DayState
      /\ showInSearch \in BOOLEAN /\ vacation \in BOOLEAN /\ isAvailable \in BOOLEAN
      /\ editor \in [Editor -> EditorSet] /\ edits \in 0 .. MaxEdit /\ breaks \in 0 .. MaxBreak
      /\ SaidTyped(said) /\ spoilt \in SUBSET {"prefs", "search", "appeals", "day", "presence"}
  BY <1>0 DEF DeskTypeOK, SaidTyped, EditorSet
<1>2. ASSUME prefs' \in SUBSET Preference, appeals' \in SUBSET Appeal, day' \in DayState,
             showInSearch' \in BOOLEAN, vacation' \in BOOLEAN, isAvailable' \in BOOLEAN,
             editor' \in [Editor -> EditorSet], edits' \in 0 .. MaxEdit, breaks' \in 0 .. MaxBreak,
             SaidTyped(said'), spoilt' \in SUBSET {"prefs", "search", "appeals", "day", "presence"}
      PROVE  DeskTypeOK'
  BY <1>2 DEF DeskTypeOK, SaidTyped, EditorSet
<1>3. ASSUME NEW e \in Editor
      PROVE  /\ editor[e] \in EditorSet /\ NoEdit \in EditorSet
             /\ editor[e].pc # "resting" => editor[e] \in EditorRow
             /\ editor[e].pc \in {"resting", "prefs", "appeals", "toggle", "times", "away"}
  BY <1>1, EditorRows DEF EditorSet
<1> USE DEF deskRows
<1>4. CASE UNCHANGED deskVars
  BY <1>0, <1>4 DEF deskVars, DeskTypeOK, EditsKnown, EditsKept
<1>5. ASSUME NEW p \in SUBSET Preference, ReplacePrefs(p) PROVE Goal
  <2>1. /\ prefs' = p /\ said' = [said EXCEPT !.prefs = p] /\ editor' = Overtakes({"prefs"})
        /\ edits < MaxEdit /\ edits' = edits + 1
        /\ UNCHANGED <<showInSearch, appeals, day, vacation, isAvailable, breaks, spoilt>>
    BY <1>5 DEF ReplacePrefs, Writes
  <2>2. edits' \in 0 .. MaxEdit
    BY <1>0, <2>1, EditBounds
  <2>3. /\ SaidTyped(said') /\ said'.prefs = p /\ said'.search = said.search
        /\ said'.appeals = said.appeals /\ said'.day = said.day
    BY <1>1, <2>1, SaidChanges
  <2>4. /\ editor' \in [Editor -> EditorSet]
        /\ \A o \in Editor :
              /\ editor[o].pc = "prefs" => editor'[o].stale
              /\ editor[o].pc # "prefs" => editor'[o] = editor[o]
              /\ editor'[o].pc = editor[o].pc
    BY <1>0, <2>1, Overtaken
  <2>5. EditsKnown'
    BY <1>0, <2>1, <2>4 DEF EditsKnown
  <2>6. EditsKept'
    BY <1>0, <2>1, <2>3, <2>4 DEF EditsKept
  <2> QED
    BY <1>1, <1>2, <2>1, <2>2, <2>3, <2>4, <2>5, <2>6
<1>6. ASSUME NEW choice \in {"show", "hide", "private", "unsaid"}, UpdatePrivacy(choice) PROVE Goal
  <2> DEFINE b == CASE choice = "show" -> TRUE [] choice = "unsaid" -> said.search [] OTHER -> FALSE
  <2>1. /\ showInSearch' = (choice \in {"show", "unsaid"} \/ (choice = "private" /\ showInSearch))
        /\ said' = [said EXCEPT !.search = b]
        /\ edits < MaxEdit /\ edits' = edits + 1
        /\ spoilt' = IF choice \in {"unsaid", "private"} THEN spoilt \cup {"search"} ELSE spoilt
        /\ UNCHANGED <<prefs, appeals, day, vacation, isAvailable, editor, breaks>>
    BY <1>6 DEF UpdatePrivacy, Writes
  <2>2. edits' \in 0 .. MaxEdit
    BY <1>0, <2>1, EditBounds
  <2>3. b \in BOOLEAN /\ (choice = "show" => b = TRUE) /\ (choice = "hide" => b = FALSE)
    BY <1>1 DEF SaidTyped
  <2> HIDE DEF b
  <2>4. /\ SaidTyped(said') /\ said'.search = b /\ said'.prefs = said.prefs
        /\ said'.appeals = said.appeals /\ said'.day = said.day
    BY <1>1, <2>1, <2>3, SaidChanges
  <2>5. /\ (choice = "show" => showInSearch' = TRUE) /\ (choice = "hide" => showInSearch' = FALSE)
        /\ showInSearch' \in BOOLEAN
    BY <2>1
  <2>6. EditsKnown'
    BY <1>0, <2>1 DEF EditsKnown
  <2>7. spoilt \subseteq spoilt' /\ spoilt' \in SUBSET {"prefs", "search", "appeals", "day", "presence"}
    BY <1>1, <2>1
  <2>8. "search" \in spoilt' \/ showInSearch' = said'.search
    BY <2>1, <2>3, <2>4, <2>5
  <2>9. EditsKept'
    BY <1>0, <2>1, <2>4, <2>7, <2>8 DEF EditsKept
  <2> QED
    BY <1>1, <1>2, <2>1, <2>2, <2>4, <2>5, <2>6, <2>7, <2>9
<1>7. ASSUME NEW b \in BOOLEAN, UpdatePrivacyControls(b) PROVE Goal
  <2>1. /\ showInSearch' = b /\ said' = [said EXCEPT !.search = b]
        /\ edits < MaxEdit /\ edits' = edits + 1
        /\ UNCHANGED <<prefs, appeals, day, vacation, isAvailable, editor, breaks, spoilt>>
    BY <1>7 DEF UpdatePrivacyControls, Writes
  <2>2. edits' \in 0 .. MaxEdit
    BY <1>0, <2>1, EditBounds
  <2>3. /\ SaidTyped(said') /\ said'.search = b /\ said'.prefs = said.prefs
        /\ said'.appeals = said.appeals /\ said'.day = said.day
    BY <1>1, <2>1, SaidChanges
  <2>4. EditsKnown'
    BY <1>0, <2>1 DEF EditsKnown
  <2>5. EditsKept'
    BY <1>0, <2>1, <2>3 DEF EditsKept
  <2> QED
    BY <1>1, <1>2, <2>1, <2>2, <2>3, <2>4, <2>5
<1>8. ASSUME NEW b \in BOOLEAN, SetAvailable(b) PROVE Goal
  <2>1. /\ isAvailable' = b /\ edits < MaxEdit /\ edits' = edits + 1
        /\ spoilt' = IF b /\ vacation THEN spoilt \cup {"presence"} ELSE spoilt
        /\ UNCHANGED <<prefs, showInSearch, appeals, day, vacation, editor, breaks, said>>
    BY <1>8 DEF SetAvailable, Writes
  <2>2. edits' \in 0 .. MaxEdit
    BY <1>0, <2>1, EditBounds
  <2>3. EditsKnown'
    BY <1>0, <2>1 DEF EditsKnown
  <2>4. /\ spoilt \subseteq spoilt' /\ spoilt' \in SUBSET {"prefs", "search", "appeals", "day", "presence"}
        /\ b /\ vacation => "presence" \in spoilt'
    BY <1>1, <2>1
  <2>5. EditsKept'
    BY <1>0, <2>1, <2>4 DEF EditsKept
  <2> QED
    BY <1>1, <1>2, <2>1, <2>2, <2>3, <2>4, <2>5
<1>9. ASSUME NEW e \in Editor, NEW r \in EditorRow \cup {NoEdit}, Reads(e, r),
             UNCHANGED <<prefs, showInSearch, appeals, day, isAvailable, breaks, said, spoilt>>,
             vacation' \in BOOLEAN, vacation' => vacation \/ r.pc = "away",
             /\ r.pc = "prefs" => r.prefs = prefs
             /\ r.pc = "appeals" => r.appeals = appeals
             /\ r.pc = "toggle" => r.day = day
      PROVE  Goal
  <2>1. editor[e] = NoEdit /\ edits < MaxEdit /\ edits' = edits + 1 /\ editor' = [editor EXCEPT ![e] = r]
    BY <1>9 DEF Reads
  <2>2. edits' \in 0 .. MaxEdit
    BY <1>0, <2>1, EditBounds
  <2>3. /\ editor' \in [Editor -> EditorSet]
        /\ editor'[e] = r /\ \A o \in Editor \ {e} : editor'[o] = editor[o]
    BY <1>0, <1>9, <2>1, EditorsAfter DEF EditorSet
  <2>4. EditsKnown'
    BY <1>0, <1>9, <2>3 DEF EditsKnown
  <2>5. ASSUME vacation', isAvailable'
        PROVE  "presence" \in spoilt' \/ \E o \in Editor : editor'[o].pc = "away"
    <3>1. CASE r.pc = "away"
      BY <2>3, <3>1
    <3>2. CASE vacation
      <4>1. "presence" \in spoilt \/ \E o \in Editor : editor[o].pc = "away"
        BY <1>0, <1>9, <2>5, <3>2 DEF EditsKept
      <4>2. editor[e].pc # "away"
        BY <2>1, EditorRows
      <4> QED
        BY <1>9, <2>3, <4>1, <4>2
    <3> QED
      BY <1>9, <2>5, <3>1, <3>2
  <2>6. EditsKept'
    BY <1>0, <1>9, <2>5 DEF EditsKept
  <2> QED
    BY <1>1, <1>2, <1>9, <2>2, <2>3, <2>4, <2>6
<1>10. ASSUME NEW e \in Editor, NEW change \in Change, MergePrefs(e, change) PROVE Goal
  <2> DEFINE r == [NoEdit EXCEPT !.pc = "prefs", !.prefs = prefs, !.change = change]
  <2>1. Reads(e, r) /\ UNCHANGED <<prefs, showInSearch, appeals, day, vacation, isAvailable, breaks, said, spoilt>>
    BY <1>10 DEF MergePrefs
  <2>2. r \in EditorRow /\ r.pc = "prefs" /\ r.prefs = prefs
    BY <1>1, EmptyEdit DEF NoEdit, EditorRow
  <2> HIDE DEF r
  <2>4. (vacation' => vacation) /\ vacation' \in BOOLEAN
    BY <1>1, <2>1
  <2> QED
    BY <1>9, <2>1, <2>2, <2>4
<1>11. ASSUME NEW e \in Editor, NEW a \in Appeal, AppealDispute(e, a) PROVE Goal
  <2> DEFINE r == [NoEdit EXCEPT !.pc = "appeals", !.appeals = appeals, !.appeal = {a}]
  <2>1. Reads(e, r) /\ UNCHANGED <<prefs, showInSearch, appeals, day, vacation, isAvailable, breaks, said, spoilt>>
    BY <1>11 DEF AppealDispute
  <2>2. r \in EditorRow /\ r.pc = "appeals" /\ r.appeals = appeals
    BY <1>1, EmptyEdit DEF NoEdit, EditorRow
  <2> HIDE DEF r
  <2>4. (vacation' => vacation) /\ vacation' \in BOOLEAN
    BY <1>1, <2>1
  <2> QED
    BY <1>9, <2>1, <2>2, <2>4
<1>12. ASSUME NEW e \in Editor, ToggleDay(e) PROVE Goal
  <2>1. PICK pc \in {"toggle", "times"} : Reads(e, [NoEdit EXCEPT !.pc = pc, !.day = day])
    BY <1>12 DEF ToggleDay
  <2> DEFINE r == [NoEdit EXCEPT !.pc = pc, !.day = day]
  <2>2. Reads(e, r) /\ UNCHANGED <<prefs, showInSearch, appeals, day, vacation, isAvailable, breaks, said, spoilt>>
    BY <1>12, <2>1 DEF ToggleDay
  <2>3. r \in EditorRow /\ r.pc = pc /\ r.day = day
    BY <1>1, EmptyEdit DEF NoEdit, EditorRow
  <2> HIDE DEF r
  <2>4. (vacation' => vacation) /\ vacation' \in BOOLEAN
    BY <1>1, <2>2
  <2> QED
    BY <1>9, <2>2, <2>3, <2>4
<1>13. ASSUME NEW e \in Editor, NEW b \in BOOLEAN, SetVacationMode(e, b) PROVE Goal
  <2> DEFINE r == IF b THEN [NoEdit EXCEPT !.pc = "away"] ELSE NoEdit
  <2>1. Reads(e, r) /\ vacation' = b
        /\ UNCHANGED <<prefs, showInSearch, appeals, day, isAvailable, breaks, said, spoilt>>
    BY <1>13 DEF SetVacationMode
  <2>2. r \in EditorRow \cup {NoEdit} /\ r.pc \in {"away", "resting"} /\ (b => r.pc = "away")
    BY EmptyEdit, EditorRows DEF NoEdit, EditorRow
  <2> HIDE DEF r
  <2> QED
    BY <1>1, <1>9, <2>1, <2>2
<1>14. ASSUME NEW e \in Editor, StorePrefs(e) PROVE Goal
  <2> DEFINE change == editor[e].change
  <2>1. /\ editor[e].pc = "prefs"
        /\ prefs' = Applied(editor[e].prefs, change)
        /\ said' = [said EXCEPT !.prefs = Applied(said.prefs, change)]
        /\ Finishes(e, {"prefs"})
        /\ spoilt' = IF editor[e].stale THEN spoilt \cup {"prefs"} ELSE spoilt
        /\ UNCHANGED <<showInSearch, appeals, day, vacation, isAvailable, edits, breaks>>
    BY <1>14 DEF StorePrefs, Spoils
  <2>2. editor[e].prefs \in SUBSET Preference /\ change \in Change
    BY <1>3, <2>1, EditorRows
  <2> HIDE DEF change
  <2>3. \A p \in SUBSET Preference : Applied(p, change) \in SUBSET Preference
    BY <2>2 DEF Applied, Change
  <2>4. said.prefs \in SUBSET Preference
    BY <1>1 DEF SaidTyped
  <2>5. /\ SaidTyped(said') /\ said'.prefs = Applied(said.prefs, change) /\ said'.search = said.search
        /\ said'.appeals = said.appeals /\ said'.day = said.day
    BY <1>1, <2>1, <2>3, <2>4, SaidChanges
  <2>6. /\ editor' \in [Editor -> EditorSet]
        /\ editor'[e] = NoEdit
        /\ \A o \in Editor \ {e} :
              /\ editor[o].pc = "prefs" => editor'[o].stale
              /\ editor[o].pc # "prefs" => editor'[o] = editor[o]
              /\ editor'[o].pc = editor[o].pc
    BY <1>0, <2>1, EditorsAfter
  <2>7. EditsKnown'
    BY <1>0, <2>1, <2>6, EditorRows DEF EditsKnown
  <2>8. spoilt \subseteq spoilt' /\ spoilt' \in SUBSET {"prefs", "search", "appeals", "day", "presence"}
    BY <1>1, <2>1
  <2>9. "prefs" \in spoilt' \/ prefs' = said'.prefs
    BY <1>0, <2>1, <2>5 DEF EditsKnown, EditsKept
  <2>10. \A o \in Editor : editor[o].pc = "away" => editor'[o].pc = "away"
    BY <2>1, <2>6
  <2>11. EditsKept'
    BY <1>0, <2>1, <2>5, <2>8, <2>9, <2>10 DEF EditsKept
  <2> QED
    BY <1>1, <1>2, <2>1, <2>2, <2>3, <2>5, <2>6, <2>7, <2>8, <2>11
<1>15. ASSUME NEW e \in Editor, StoreAppeal(e) PROVE Goal
  <2> DEFINE appeal == editor[e].appeal
             all == said.appeals \cup appeal
  <2>1. /\ editor[e].pc = "appeals"
        /\ appeals' = editor[e].appeals \cup appeal
        /\ said' = [said EXCEPT !.appeals = all]
        /\ Finishes(e, {"appeals"})
        /\ spoilt' = IF editor[e].stale THEN spoilt \cup {"appeals"} ELSE spoilt
        /\ UNCHANGED <<prefs, showInSearch, day, vacation, isAvailable, edits, breaks>>
    BY <1>15 DEF StoreAppeal, Spoils
  <2>2. editor[e].appeals \in SUBSET Appeal /\ appeal \in SUBSET Appeal
    BY <1>3, <2>1, EditorRows
  <2>3. all \in SUBSET Appeal
    BY <1>1, <2>2 DEF SaidTyped
  <2>4. /\ SaidTyped(said') /\ said'.appeals = all /\ said'.search = said.search
        /\ said'.prefs = said.prefs /\ said'.day = said.day
    BY <1>1, <2>1, <2>3, SaidChanges
  <2>5. /\ editor' \in [Editor -> EditorSet]
        /\ editor'[e] = NoEdit
        /\ \A o \in Editor \ {e} :
              /\ editor[o].pc = "appeals" => editor'[o].stale
              /\ editor[o].pc # "appeals" => editor'[o] = editor[o]
              /\ editor'[o].pc = editor[o].pc
    BY <1>0, <2>1, EditorsAfter
  <2>6. EditsKnown'
    BY <1>0, <2>1, <2>5, EditorRows DEF EditsKnown
  <2>7. spoilt \subseteq spoilt' /\ spoilt' \in SUBSET {"prefs", "search", "appeals", "day", "presence"}
    BY <1>1, <2>1
  <2>8. "appeals" \in spoilt' \/ appeals' = said'.appeals
    BY <1>0, <2>1, <2>4 DEF EditsKnown, EditsKept
  <2>9. \A o \in Editor : editor[o].pc = "away" => editor'[o].pc = "away"
    BY <2>1, <2>5
  <2>10. EditsKept'
    BY <1>0, <2>1, <2>4, <2>7, <2>8, <2>9 DEF EditsKept
  <2>11. appeals' \in SUBSET Appeal
    BY <2>1, <2>2
  <2> QED
    BY <1>1, <1>2, <2>1, <2>4, <2>5, <2>6, <2>7, <2>10, <2>11
<1>16. ASSUME NEW e \in Editor, editor[e].pc # "away" \/ ~isAvailable' \/ "presence" \in spoilt',
              editor' = [editor EXCEPT ![e] = NoEdit], isAvailable' \in BOOLEAN, isAvailable' => isAvailable,
              UNCHANGED <<prefs, showInSearch, appeals, day, vacation, edits, said>>,
              spoilt \subseteq spoilt', spoilt' \in SUBSET {"prefs", "search", "appeals", "day", "presence"},
              breaks' \in 0 .. MaxBreak
       PROVE  Goal
  <2>1. /\ editor' \in [Editor -> EditorSet]
        /\ editor'[e] = NoEdit /\ \A o \in Editor \ {e} : editor'[o] = editor[o]
    BY <1>0, <1>3, <1>16, EditorsAfter
  <2>2. EditsKnown'
    BY <1>0, <1>16, <2>1, EditorRows DEF EditsKnown
  <2>3. EditsKept'
    BY <1>0, <1>16, <2>1 DEF EditsKept
  <2> QED
    BY <1>1, <1>2, <1>16, <2>1, <2>2, <2>3
<1>17. ASSUME NEW e \in Editor, StoreDay(e) PROVE Goal
  <2>1. CASE editor[e].day = "none" /\ day # "none"
    BY <1>1, <1>16, <1>17, <2>1 DEF StoreDay
  <2>2. CASE ~(editor[e].day = "none" /\ day # "none")
    <3>1. /\ editor[e].pc = "toggle"
          /\ day' = Toggled(editor[e].day)
          /\ said' = [said EXCEPT !.day = Toggled(said.day)]
          /\ Finishes(e, {"toggle"})
          /\ spoilt' = IF editor[e].stale THEN spoilt \cup {"day"} ELSE spoilt
          /\ UNCHANGED <<prefs, showInSearch, appeals, vacation, isAvailable, edits, breaks>>
      BY <1>17, <2>2 DEF StoreDay, Spoils
    <3>2. \A d : Toggled(d) \in DayState
      BY DEF Toggled, DayState
    <3>3. /\ SaidTyped(said') /\ said'.day = Toggled(said.day) /\ said'.search = said.search
          /\ said'.prefs = said.prefs /\ said'.appeals = said.appeals
      BY <1>1, <3>1, <3>2, SaidChanges
    <3>4. /\ editor' \in [Editor -> EditorSet]
          /\ editor'[e] = NoEdit
          /\ \A o \in Editor \ {e} :
                /\ editor[o].pc = "toggle" => editor'[o].stale
                /\ editor[o].pc # "toggle" => editor'[o] = editor[o]
                /\ editor'[o].pc = editor[o].pc
      BY <1>0, <3>1, EditorsAfter
    <3>5. EditsKnown'
      BY <1>0, <3>1, <3>4, EditorRows DEF EditsKnown
    <3>6. spoilt \subseteq spoilt' /\ spoilt' \in SUBSET {"prefs", "search", "appeals", "day", "presence"}
      BY <1>1, <3>1
    <3>7. "day" \in spoilt' \/ day' = said'.day
      BY <1>0, <3>1, <3>3 DEF EditsKnown, EditsKept
    <3>8. \A o \in Editor : editor[o].pc = "away" => editor'[o].pc = "away"
      BY <3>1, <3>4
    <3>9. EditsKept'
      BY <1>0, <3>1, <3>3, <3>6, <3>7, <3>8 DEF EditsKept
    <3> QED
      BY <1>1, <1>2, <3>1, <3>2, <3>3, <3>4, <3>5, <3>6, <3>9
  <2> QED
    BY <2>1, <2>2
<1>18. ASSUME NEW e \in Editor, StoreTimes(e) PROVE Goal
  <2>1. CASE day # "none"
    BY <1>1, <1>16, <1>18, <2>1 DEF StoreTimes
  <2>2. CASE day = "none"
    <3> DEFINE d == IF said.day = "none" THEN "active" ELSE said.day
    <3>1. /\ editor[e].pc = "times"
          /\ day' = "active"
          /\ said' = [said EXCEPT !.day = d]
          /\ Finishes(e, {"toggle"})
          /\ UNCHANGED <<prefs, showInSearch, appeals, vacation, isAvailable, edits, breaks, spoilt>>
      BY <1>18, <2>2 DEF StoreTimes
    <3>2. d \in DayState /\ "active" \in DayState /\ (said.day = "none" => d = "active")
      BY <1>1 DEF SaidTyped, DayState
    <3> HIDE DEF d
    <3>3. /\ SaidTyped(said') /\ said'.day = d /\ said'.search = said.search
          /\ said'.prefs = said.prefs /\ said'.appeals = said.appeals
      BY <1>1, <3>1, <3>2, SaidChanges
    <3>4. /\ editor' \in [Editor -> EditorSet]
          /\ editor'[e] = NoEdit
          /\ \A o \in Editor \ {e} :
                /\ editor[o].pc = "toggle" => editor'[o].stale
                /\ editor[o].pc # "toggle" => editor'[o] = editor[o]
                /\ editor'[o].pc = editor[o].pc
      BY <1>0, <3>1, EditorsAfter
    <3>5. EditsKnown'
      BY <1>0, <3>1, <3>4, EditorRows DEF EditsKnown
    <3>6. "day" \in spoilt' \/ day' = said'.day
      BY <1>0, <2>2, <3>1, <3>2, <3>3 DEF EditsKept
    <3>7. \A o \in Editor : editor[o].pc = "away" => editor'[o].pc = "away"
      BY <3>1, <3>4
    <3>8. EditsKept'
      BY <1>0, <3>1, <3>3, <3>6, <3>7 DEF EditsKept
    <3> QED
      BY <1>1, <1>2, <3>1, <3>2, <3>3, <3>4, <3>5, <3>8
  <2> QED
    BY <2>1, <2>2
<1>19. ASSUME NEW e \in Editor, StoreAway(e) PROVE Goal
  BY <1>1, <1>16, <1>19 DEF StoreAway
<1>20. ASSUME NEW e \in Editor, EditorDies(e) PROVE Goal
  <2>1. breaks' \in 0 .. MaxBreak
    BY <1>0, <1>20, EditBounds DEF EditorDies
  <2>2. /\ spoilt \subseteq spoilt' /\ spoilt' \in SUBSET {"prefs", "search", "appeals", "day", "presence"}
        /\ editor[e].pc = "away" => "presence" \in spoilt'
    BY <1>1, <1>20 DEF EditorDies
  <2> QED
    BY <1>1, <1>16, <1>20, <2>1, <2>2 DEF EditorDies
<1> QED
  BY <1>4, <1>5, <1>6, <1>7, <1>8, <1>10, <1>11, <1>12, <1>13, <1>14, <1>15, <1>17, <1>18, <1>19, <1>20
     DEF DeskNext

(* Answered edits are kept, for any calls, preferences and appeals.        *)
THEOREM EditsAreKept == DeskSpec => [](DeskTypeOK /\ EditsKept)
<1>1. DeskInv => DeskTypeOK /\ EditsKept
  BY DEF DeskInv
<1> QED
  BY <1>1, DeskInvInit, DeskInvNext, PTL DEF DeskSpec

-------------------------------------------------------------------------------
(* The standing *)

(* The sum of a function of the community modules is the sum over its      *)
(* domain.                                                                 *)
LEMMA SumOfFunction == \A r : SumFunction(r) = Sum(r, DOMAIN r)
BY DEF SumFunction, SumFunctionOnSet, FoldFunction, FoldFunctionOnSet, Sum, MapThenSumSet

LEMMA MinOfTwo ==
    ASSUME NEW a \in Int, NEW b \in Int
    PROVE  Min({a, b}) = IF a <= b THEN a ELSE b
<1> DEFINE m == IF a <= b THEN a ELSE b
<1>1. m \in {a, b} /\ \A y \in {a, b} : m <= y
  OBVIOUS
<1>2. \A x \in {a, b} : (\A y \in {a, b} : x <= y) => x = m
  OBVIOUS
<1> QED
  BY <1>1, <1>2 DEF Min

(* A quotient is bounded when the dividend is.                             *)
LEMMA QuotientBounded ==
    ASSUME NEW a \in Nat, NEW b \in Nat, b > 0, NEW k \in Nat, a < b * (k + 1)
    PROVE  a \div b \in 0 .. k
<1> DEFINE q == a \div b
<1>1. q \in Int /\ b * q <= a /\ a < b * (q + 1)
  OBVIOUS
<1> QED
  BY <1>1

(* The stars of one visit, and the mean of several.                        *)
LEMMA ReviewedFinite ==
    ASSUME StandingTypeOK
    PROVE  /\ Reviewed(reviews) \in SUBSET Visit /\ IsFiniteSet(Reviewed(reviews))
           /\ Cardinality(Reviewed(reviews)) \in 0 .. Cardinality(Visit)
<1>1. Reviewed(reviews) \in SUBSET Visit /\ IsFiniteSet(Visit)
  BY StandingAssumption DEF Reviewed, StandingTypeOK
<1>2. /\ IsFiniteSet(Reviewed(reviews))
      /\ Cardinality(Reviewed(reviews)) <= Cardinality(Visit)
      /\ Cardinality(Reviewed(reviews)) \in Nat /\ Cardinality(Visit) \in Nat
  BY <1>1, FS_Subset, FS_CardinalityType
<1> QED
  BY <1>1, <1>2

LEMMA AverageTyped ==
    ASSUME StandingTypeOK
    PROVE  Average(reviews) \in 0 .. 50
<1> DEFINE n == Cardinality(Reviewed(reviews))
           total == SumFunction(reviews)
<1>1. n \in Nat /\ IsFiniteSet(Visit) /\ IsFiniteSet(Reviewed(reviews)) /\ Reviewed(reviews) \in SUBSET Visit
  BY ReviewedFinite, StandingAssumption
<1>2. \A s \in Visit : reviews[s] \in 0 .. 5 /\ reviews[s] \in Nat /\ reviews[s] \in Int
  <2>1. \A v \in Stars \cup {0} : v \in 0 .. 5
    <3>1. Stars \subseteq 1 .. 5
      BY StandingAssumption
    <3> QED
      BY <3>1
  <2>2. \A s \in Visit : reviews[s] \in Stars \cup {0}
    BY DEF StandingTypeOK
  <2> QED
    BY <2>1, <2>2
<1>3. total = Sum(reviews, Visit) /\ total \in Nat
  <2>1. DOMAIN reviews = Visit
    BY DEF StandingTypeOK
  <2>2. Sum(reviews, DOMAIN reviews) = Sum(reviews, Visit)
    BY <2>1, Zenon
  <2> QED
    BY <1>1, <1>2, <2>2, SumOfFunction, SumNat
<1>4. Sum(reviews, Visit) = Sum(reviews, Reviewed(reviews))
  <2> DEFINE T == Visit \ Reviewed(reviews)
  <2>1. /\ Reviewed(reviews) \cup T = Visit /\ Reviewed(reviews) \cap T = {} /\ IsFiniteSet(T)
        /\ \A s \in T : reviews[s] = 0
    BY <1>1, FS_Subset DEF Reviewed, StandingTypeOK
  <2> HIDE DEF T
  <2>2. \A s \in Reviewed(reviews) \cup T : reviews[s] \in Int
    BY <1>2, <2>1
  <2>3. Sum(reviews, Reviewed(reviews) \cup T) = Sum(reviews, Reviewed(reviews)) + Sum(reviews, T)
    BY <1>1, <2>1, <2>2, SumUnion
  <2>4. Sum(reviews, T) <= Cardinality(T) * 0
    BY <2>1, SumAtMost
  <2>5. Sum(reviews, T) \in Nat /\ Sum(reviews, Reviewed(reviews)) \in Nat /\ Cardinality(T) \in Nat
    BY <1>1, <1>2, <2>1, SumNat, FS_CardinalityType
  <2>6. Sum(reviews, Visit) = Sum(reviews, Reviewed(reviews) \cup T)
    BY <2>1, Zenon
  <2> QED
    BY <2>3, <2>4, <2>5, <2>6
<1>5. Sum(reviews, Reviewed(reviews)) <= n * 5
  BY <1>1, <1>2, SumAtMost
<1>6. CASE n = 0
  BY <1>6 DEF Average
<1>7. CASE n # 0
  <2> HIDE DEF n, total
  <2>0. \/ Average(reviews) = (20 * total + n) \div (2 * n)
        \/ /\ \E k \in LowHalves : 20 * total = k * n
           /\ Average(reviews) = (20 * total - n) \div (2 * n)
    BY <1>7 DEF Average, n, total
  <2>2. 20 * total + n \in Nat /\ 2 * n \in Nat /\ 2 * n > 0
    BY <1>1, <1>3, <1>7
  <2>3. 20 * total + n < (2 * n) * (50 + 1)
    BY <1>1, <1>3, <1>4, <1>5, <1>7
  <2>4. (20 * total + n) \div (2 * n) \in 0 .. 50
    BY <2>2, <2>3, QuotientBounded
  <2>5. ASSUME NEW k \in LowHalves, 20 * total = k * n
        PROVE  (20 * total - n) \div (2 * n) \in 0 .. 50
    <3>1. k \in Nat /\ k >= 1
      BY DEF LowHalves
    <3>2. k * n >= n /\ k * n \in Nat
      BY <1>1, <3>1
    <3>3. 20 * total - n \in Nat
      BY <1>1, <1>3, <2>5, <3>2
    <3>4. 20 * total - n < (2 * n) * (50 + 1)
      BY <1>1, <1>3, <2>2, <2>3
    <3> QED
      BY <2>2, <3>3, <3>4, QuotientBounded
  <2> QED
    BY <2>0, <2>4, <2>5
<1> QED
  BY <1>6, <1>7

(* What a call has read is what is stored, unless the call is marked.      *)
ReadingKnown ==
    \A w \in Writer :
        /\ writer[w].pc = "rating" /\ ~writer[w].stale =>
              writer[w].rating = Average(reviews) /\ writer[w].total = Cardinality(Reviewed(reviews))
        /\ writer[w].pc \in {"score", "award"} =>
              /\ writer[w].task \in TrustTask /\ writer[w].points \in Points
              /\ ~writer[w].stale => tasks[writer[w].task] = 0
        /\ writer[w].pc = "award" /\ ~writer[w].stale =>
              writer[w].score = Min({trustScore + writer[w].points, 100})

StandingInv == StandingTypeOK /\ ReadingKnown /\ RatingIsAverage /\ TrustFollowsTasks

WriterSet == WriterRow \cup {NoWriter}

LEMMA WriterRows ==
    /\ NoWriter.pc = "resting" /\ NoWriter.stale = FALSE /\ NoWriter.task = "none"
    /\ \A r \in WriterRow :
          /\ r.pc \in {"aggregate", "rating", "score", "award"}
          /\ r.rating \in 0 .. 50 /\ r.total \in 0 .. Cardinality(Visit)
          /\ r.task \in TrustTask \cup {"none"} /\ r.points \in Points \cup {0}
          /\ r.score \in 0 .. 100 /\ r.stale \in BOOLEAN
BY DEF NoWriter, WriterRow

(* A call that is marked keeps what else it knows.                         *)
LEMMA Marking ==
    ASSUME StandingTypeOK, NEW o \in Writer, NEW changed \in BOOLEAN, changed => writer[o] # NoWriter
    PROVE  LET new == Marked(o, changed)
           IN  /\ new \in WriterSet /\ new.pc = writer[o].pc
               /\ new.rating = writer[o].rating /\ new.total = writer[o].total
               /\ new.task = writer[o].task /\ new.points = writer[o].points /\ new.score = writer[o].score
               /\ writer[o].stale => new.stale
               /\ changed => new.stale
               /\ ~changed => new = writer[o]
<1>1. CASE ~changed
  BY <1>1 DEF Marked, WriterSet, StandingTypeOK
<1>2. CASE changed
  <2>1. writer[o] \in WriterRow /\ Marked(o, changed) = [writer[o] EXCEPT !.stale = TRUE]
    BY <1>2 DEF Marked, StandingTypeOK
  <2>2. LET new == [writer[o] EXCEPT !.stale = TRUE]
        IN  /\ new \in WriterRow /\ new.pc = writer[o].pc
            /\ new.rating = writer[o].rating /\ new.total = writer[o].total
            /\ new.task = writer[o].task /\ new.points = writer[o].points /\ new.score = writer[o].score
            /\ new.stale
    BY <2>1 DEF WriterRow
  <2> QED
    BY <1>2, <2>1, <2>2 DEF WriterSet
<1> QED
  BY <1>1, <1>2

LEMMA StandingBounds ==
    ASSUME StandingTypeOK
    PROVE  /\ posts < MaxPost /\ posts' = posts + 1 => posts' \in 0 .. MaxPost
           /\ losses < MaxLoss /\ losses' = losses + 1 => losses' \in 0 .. MaxLoss
BY StandingAssumption DEF StandingTypeOK

LEMMA StandingInvInit == StandingInit => StandingInv
<1> SUFFICES ASSUME StandingInit PROVE StandingInv
  OBVIOUS
<1>1. Cardinality(Visit) \in Nat
  BY StandingAssumption, FS_CardinalityType
<1>2. StandingTypeOK
  <2>1. 0 \in 0 .. 50 /\ 0 \in 0 .. Cardinality(Visit) /\ 0 \in 0 .. 100
        /\ 0 \in 0 .. MaxPost /\ 0 \in 0 .. MaxLoss
    BY <1>1, StandingAssumption
  <2>2. /\ reviews \in [Visit -> Stars \cup {0}] /\ tasks \in [TrustTask -> Points \cup {0}]
        /\ writer \in [Writer -> WriterRow \cup {NoWriter}]
        /\ {behind, uncounted} \subseteq BOOLEAN
    BY DEF StandingInit
  <2> QED
    BY <2>1, <2>2 DEF StandingInit, StandingTypeOK
<1>3. \A w \in Writer : writer[w].pc = "resting"
  BY WriterRows DEF StandingInit
<1>4. ReadingKnown
  BY <1>3 DEF ReadingKnown
<1>5. RatingIsAverage
  <2>1. Reviewed(reviews) = {}
    BY DEF StandingInit, Reviewed
  <2>2. Cardinality(Reviewed(reviews)) = 0
    BY <2>1, FS_EmptySet
  <2> QED
    BY <2>2 DEF StandingInit, RatingIsAverage, Average
<1>6. TrustFollowsTasks
  <2>1. DOMAIN tasks = TrustTask /\ \A t \in TrustTask : tasks[t] = 0
    BY DEF StandingInit
  <2>2. Sum(tasks, TrustTask) <= Cardinality(TrustTask) * 0 /\ Sum(tasks, TrustTask) \in Nat
        /\ Cardinality(TrustTask) \in Nat
    BY <2>1, StandingAssumption, SumAtMost, SumNat, FS_CardinalityType
  <2>3. SumFunction(tasks) = Sum(tasks, TrustTask)
    BY <2>1, SumOfFunction, Zenon
  <2>4. SumFunction(tasks) = 0
    BY <2>2, <2>3
  <2>5. Min({SumFunction(tasks), 100}) = 0
    BY <2>4, MinOfTwo
  <2> QED
    BY <2>5 DEF StandingInit, TrustFollowsTasks
<1> QED
  BY <1>2, <1>4, <1>5, <1>6 DEF StandingInv

(* What the other calls know when one of them moves and nothing they have  *)
(* read changes.                                                           *)
LEMMA WriterMoves ==
    ASSUME StandingTypeOK, NEW w \in Writer, NEW new \in WriterSet, writer' = [writer EXCEPT ![w] = new]
    PROVE  /\ writer' \in [Writer -> WriterSet]
           /\ writer'[w] = new /\ \A o \in Writer \ {w} : writer'[o] = writer[o]
BY DEF StandingTypeOK, WriterSet

LEMMA StandingInvNext == StandingInv /\ [StandingNext]_standingVars => StandingInv'
<1> SUFFICES ASSUME StandingInv, [StandingNext]_standingVars
             PROVE  StandingTypeOK' /\ ReadingKnown' /\ RatingIsAverage' /\ TrustFollowsTasks'
  BY DEF StandingInv
<1> DEFINE Goal == StandingTypeOK' /\ ReadingKnown' /\ RatingIsAverage' /\ TrustFollowsTasks'
<1>0. StandingTypeOK /\ ReadingKnown /\ RatingIsAverage /\ TrustFollowsTasks
  BY DEF StandingInv
<1>1. /\ reviews \in [Visit -> Stars \cup {0}] /\ rating \in 0 .. 50
      /\ totalReviews \in 0 .. Cardinality(Visit)
      /\ tasks \in [TrustTask -> Points \cup {0}] /\ trustScore \in 0 .. 100
      /\ badges \in SUBSET {"badge_elite", "badge_safety"}
      /\ writer \in [Writer -> WriterSet]
      /\ posts \in 0 .. MaxPost /\ losses \in 0 .. MaxLoss
      /\ behind \in BOOLEAN /\ uncounted \in BOOLEAN
  BY <1>0 DEF StandingTypeOK, WriterSet
<1>2. ASSUME reviews' \in [Visit -> Stars \cup {0}], rating' \in 0 .. 50,
             totalReviews' \in 0 .. Cardinality(Visit),
             tasks' \in [TrustTask -> Points \cup {0}], trustScore' \in 0 .. 100,
             badges' \in SUBSET {"badge_elite", "badge_safety"},
             writer' \in [Writer -> WriterSet],
             posts' \in 0 .. MaxPost, losses' \in 0 .. MaxLoss,
             behind' \in BOOLEAN, uncounted' \in BOOLEAN
      PROVE  StandingTypeOK'
  BY <1>2 DEF StandingTypeOK, WriterSet
<1>3. ASSUME NEW w \in Writer
      PROVE  /\ writer[w] \in WriterSet /\ NoWriter \in WriterSet
             /\ writer[w].pc # "resting" => writer[w] \in WriterRow
  BY <1>1, WriterRows DEF WriterSet
<1>4. 0 \in 0 .. Cardinality(Visit) /\ 0 \in 0 .. 50 /\ 0 \in 0 .. 100
  BY StandingAssumption, FS_CardinalityType
<1> USE DEF reviewVars, trustVars
<1>5. ASSUME tasks' = tasks, trustScore' = trustScore, badges' = badges, uncounted' = uncounted
      PROVE  TrustFollowsTasks'
  BY <1>0, <1>5 DEF TrustFollowsTasks
<1>6. CASE UNCHANGED standingVars
  BY <1>0, <1>6 DEF standingVars, StandingTypeOK, ReadingKnown, RatingIsAverage, TrustFollowsTasks
<1>7. CASE CompleteSafetyQuiz
  <2>1. /\ badges' = badges \cup {"badge_safety"}
        /\ UNCHANGED <<reviewVars, tasks, trustScore, uncounted, writer, posts, losses>>
    BY <1>7 DEF CompleteSafetyQuiz
  <2>2. "badge_elite" \in badges' <=> "badge_elite" \in badges
    BY <2>1
  <2>3. badges' \in SUBSET {"badge_elite", "badge_safety"}
    BY <1>1, <2>1
  <2>4. ReadingKnown' /\ RatingIsAverage'
    BY <1>0, <2>1 DEF ReadingKnown, RatingIsAverage
  <2>5. TrustFollowsTasks'
    BY <1>0, <2>1, <2>2 DEF TrustFollowsTasks
  <2> QED
    BY <1>1, <1>2, <2>1, <2>3, <2>4, <2>5
<1>8. ASSUME NEW w \in Writer, NEW s \in Visit, NEW stars \in Stars, PostReview(w, s, stars) PROVE Goal
  <2> DEFINE new == [NoWriter EXCEPT !.pc = "aggregate"]
  <2>1. /\ posts < MaxPost /\ posts' = posts + 1
        /\ reviews' = [reviews EXCEPT ![s] = stars]
        /\ writer' = [o \in Writer |-> IF o = w THEN new ELSE Marked(o, writer[o].pc = "rating")]
        /\ UNCHANGED <<rating, totalReviews, behind, tasks, trustScore, badges, uncounted, losses>>
    BY <1>8 DEF PostReview
  <2>2. new \in WriterSet /\ new.pc = "aggregate"
    BY <1>4 DEF NoWriter, WriterRow, WriterSet
  <2> HIDE DEF new
  <2>3. posts' \in 0 .. MaxPost
    BY <1>0, <2>1, StandingBounds
  <2>4. reviews' \in [Visit -> Stars \cup {0}]
    BY <1>1, <2>1
  <2>5. writer'[w] = new
    BY <2>1
  <2>6. ASSUME NEW o \in Writer \ {w}
        PROVE  /\ writer'[o] \in WriterSet /\ writer'[o].pc = writer[o].pc
               /\ writer[o].pc = "rating" => writer'[o].stale
               /\ writer[o].pc # "rating" => writer'[o] = writer[o]
    <3>1. writer'[o] = Marked(o, writer[o].pc = "rating")
      BY <2>1
    <3>2. (writer[o].pc = "rating") \in BOOLEAN /\ (writer[o].pc = "rating" => writer[o] # NoWriter)
      BY WriterRows
    <3> QED
      BY <1>0, <3>1, <3>2, Marking
  <2>7. writer' \in [Writer -> WriterSet]
    <3>1. \A o \in Writer : writer'[o] \in WriterSet
      BY <2>2, <2>5, <2>6
    <3> QED
      BY <2>1, <3>1
  <2>8. ReadingKnown'
    BY <1>0, <2>1, <2>2, <2>5, <2>6 DEF ReadingKnown
  <2>9. RatingIsAverage'
    BY <2>2, <2>5 DEF RatingIsAverage
  <2> QED
    BY <1>1, <1>2, <1>5, <2>1, <2>3, <2>4, <2>7, <2>8, <2>9
<1>9. ASSUME NEW w \in Writer, NEW t \in TrustTask, NEW points \in Points, CompleteTrustTask(w, t, points)
      PROVE  Goal
  <2> DEFINE new == [NoWriter EXCEPT !.pc = "score", !.task = t, !.points = points]
  <2>1. /\ tasks[t] = 0 /\ writer[w] = NoWriter /\ posts < MaxPost /\ posts' = posts + 1
        /\ writer' = [writer EXCEPT ![w] = new]
        /\ UNCHANGED <<reviews, rating, totalReviews, behind, tasks, trustScore, badges, uncounted, losses>>
    BY <1>9 DEF CompleteTrustTask
  <2>2. new \in WriterSet /\ new.pc = "score" /\ new.task = t /\ new.points = points
    BY <1>4 DEF NoWriter, WriterRow, WriterSet
  <2> HIDE DEF new
  <2>3. posts' \in 0 .. MaxPost
    BY <1>0, <2>1, StandingBounds
  <2>4. /\ writer' \in [Writer -> WriterSet]
        /\ writer'[w] = new /\ \A o \in Writer \ {w} : writer'[o] = writer[o]
    BY <1>0, <2>1, <2>2, WriterMoves
  <2>5. ReadingKnown'
    BY <1>0, <2>1, <2>2, <2>4 DEF ReadingKnown
  <2>6. RatingIsAverage'
    BY <1>0, <2>1, <2>4, WriterRows DEF RatingIsAverage
  <2> QED
    BY <1>1, <1>2, <1>5, <2>1, <2>3, <2>4, <2>5, <2>6
<1>10. ASSUME NEW w \in Writer, AggregateReviews(w) PROVE Goal
  <2> DEFINE mean == Average(reviews)
             count == Cardinality(Reviewed(reviews))
             new == [writer[w] EXCEPT !.pc = "rating", !.rating = mean, !.total = count]
  <2>1. /\ writer[w].pc = "aggregate"
        /\ writer' = [writer EXCEPT ![w] = new]
        /\ UNCHANGED <<reviews, rating, totalReviews, behind, tasks, trustScore, badges, uncounted, posts, losses>>
    BY <1>10 DEF AggregateReviews
  <2>2. mean \in 0 .. 50 /\ count \in 0 .. Cardinality(Visit)
    BY <1>0, AverageTyped, ReviewedFinite
  <2>3. writer[w] \in WriterRow
    BY <1>3, <2>1
  <2> HIDE DEF mean, count
  <2>4. new \in WriterSet /\ new.pc = "rating" /\ new.rating = mean /\ new.total = count
    BY <2>2, <2>3 DEF WriterRow, WriterSet
  <2> HIDE DEF new
  <2>5. /\ writer' \in [Writer -> WriterSet]
        /\ writer'[w] = new /\ \A o \in Writer \ {w} : writer'[o] = writer[o]
    BY <1>0, <2>1, <2>4, WriterMoves
  <2>6. ReadingKnown'
    BY <1>0, <2>1, <2>4, <2>5 DEF ReadingKnown, mean, count
  <2>7. RatingIsAverage'
    BY <2>4, <2>5 DEF RatingIsAverage
  <2> QED
    BY <1>1, <1>2, <1>5, <2>1, <2>5, <2>6, <2>7
<1>11. ASSUME NEW w \in Writer, WriteRating(w) PROVE Goal
  <2>1. /\ writer[w].pc = "rating"
        /\ rating' = writer[w].rating /\ totalReviews' = writer[w].total /\ behind' = writer[w].stale
        /\ writer' = [writer EXCEPT ![w] = NoWriter]
        /\ UNCHANGED <<reviews, tasks, trustScore, badges, uncounted, posts, losses>>
    BY <1>11 DEF WriteRating
  <2>2. rating' \in 0 .. 50 /\ totalReviews' \in 0 .. Cardinality(Visit) /\ behind' \in BOOLEAN
    BY <1>3, <2>1, WriterRows
  <2>3. /\ writer' \in [Writer -> WriterSet]
        /\ writer'[w] = NoWriter /\ \A o \in Writer \ {w} : writer'[o] = writer[o]
    BY <1>0, <1>3, <2>1, WriterMoves
  <2>4. ReadingKnown'
    BY <1>0, <2>1, <2>3, WriterRows DEF ReadingKnown
  <2>5. RatingIsAverage'
    BY <1>0, <2>1 DEF ReadingKnown, RatingIsAverage
  <2> QED
    BY <1>1, <1>2, <1>5, <2>1, <2>2, <2>3, <2>4, <2>5
<1>12. ASSUME NEW w \in Writer, ReadScore(w) PROVE Goal
  <2> DEFINE score == Min({trustScore + writer[w].points, 100})
             new == [writer[w] EXCEPT !.pc = "award", !.score = score]
  <2>1. /\ writer[w].pc = "score"
        /\ writer' = [writer EXCEPT ![w] = new]
        /\ UNCHANGED <<reviews, rating, totalReviews, behind, tasks, trustScore, badges, uncounted, posts, losses>>
    BY <1>12 DEF ReadScore
  <2>2. writer[w] \in WriterRow /\ writer[w].points \in Points
    BY <1>0, <1>3, <2>1 DEF ReadingKnown
  <2>3. score \in 0 .. 100
    <3>1. trustScore \in Nat /\ writer[w].points \in Nat
      <4>1. \A p \in Points : p \in Nat
        BY StandingAssumption
      <4>2. trustScore \in 0 .. 100
        BY <1>1
      <4> HIDE DEF score
      <4> QED
        BY <2>2, <4>1, <4>2
    <3> DEFINE sum == trustScore + writer[w].points
    <3>2. sum \in Nat /\ sum \in Int /\ 100 \in Int
      BY <3>1
    <3>3. score = Min({sum, 100})
      OBVIOUS
    <3> HIDE DEF sum, score
    <3>4. Min({sum, 100}) = IF sum <= 100 THEN sum ELSE 100
      BY <3>2, MinOfTwo
    <3> QED
      BY <3>2, <3>3, <3>4
  <2> HIDE DEF score
  <2>4. /\ new \in WriterSet /\ new.pc = "award" /\ new.score = score
        /\ new.task = writer[w].task /\ new.points = writer[w].points /\ new.stale = writer[w].stale
    BY <2>2, <2>3 DEF WriterRow, WriterSet
  <2> HIDE DEF new
  <2>5. /\ writer' \in [Writer -> WriterSet]
        /\ writer'[w] = new /\ \A o \in Writer \ {w} : writer'[o] = writer[o]
    BY <1>0, <2>1, <2>4, WriterMoves
  <2>6. new.score = Min({trustScore' + new.points, 100})
    BY <2>1, <2>4, Zenon DEF score
  <2>7. ReadingKnown'
    BY <1>0, <2>1, <2>4, <2>5, <2>6 DEF ReadingKnown
  <2>8. RatingIsAverage'
    BY <1>0, <2>1, <2>4, <2>5 DEF RatingIsAverage
  <2> QED
    BY <1>1, <1>2, <1>5, <2>1, <2>5, <2>7, <2>8
<1>13. ASSUME NEW w \in Writer, CommitTask(w) PROVE Goal
  <2> DEFINE t == writer[w].task
             points == writer[w].points
             score == writer[w].score
             Changed(o) == writer[o].pc = "award" \/ writer[o].task = t
  <2>1. /\ writer[w].pc = "award"
        /\ tasks' = [tasks EXCEPT ![t] = points]
        /\ trustScore' = score
        /\ badges' = badges \cup (IF score = 100 THEN {"badge_elite"} ELSE {})
        /\ uncounted' = (uncounted \/ writer[w].stale)
        /\ writer' = [o \in Writer |-> IF o = w THEN NoWriter ELSE Marked(o, Changed(o))]
        /\ UNCHANGED <<reviews, rating, totalReviews, behind, posts, losses>>
    BY <1>13 DEF CommitTask
  <2>2. t \in TrustTask /\ points \in Points /\ score \in 0 .. 100 /\ writer[w].stale \in BOOLEAN
    BY <1>0, <1>3, <2>1, WriterRows DEF ReadingKnown
  <2>3. writer'[w] = NoWriter
    BY <2>1
  <2>4. ASSUME NEW o \in Writer \ {w}
        PROVE  /\ writer'[o] \in WriterSet /\ writer'[o].pc = writer[o].pc
               /\ Changed(o) => writer'[o].stale
               /\ ~Changed(o) => writer'[o] = writer[o]
               /\ writer'[o].task = writer[o].task /\ writer'[o].points = writer[o].points
    <3>1. writer'[o] = Marked(o, Changed(o))
      BY <2>1
    <3>2. Changed(o) => writer[o] # NoWriter
      BY <2>2, WriterRows, StandingAssumption
    <3>3. Changed(o) \in BOOLEAN
      OBVIOUS
    <3> HIDE DEF Changed
    <3> QED
      BY <1>0, <3>1, <3>2, <3>3, Marking
  <2>5. writer' \in [Writer -> WriterSet]
    <3>1. \A o \in Writer : writer'[o] \in WriterSet
      BY <1>3, <2>3, <2>4
    <3> QED
      BY <2>1, <3>1
  <2>6. /\ tasks' \in [TrustTask -> Points \cup {0}] /\ tasks'[t] = points
        /\ \A u \in TrustTask \ {t} : tasks'[u] = tasks[u]
    BY <1>1, <2>1, <2>2
  <2>7. ReadingKnown'
    <3> SUFFICES ASSUME NEW o \in Writer
                 PROVE  /\ writer'[o].pc = "rating" /\ ~writer'[o].stale =>
                              writer'[o].rating = Average(reviews') /\ writer'[o].total = Cardinality(Reviewed(reviews'))
                        /\ writer'[o].pc \in {"score", "award"} =>
                              /\ writer'[o].task \in TrustTask /\ writer'[o].points \in Points
                              /\ ~writer'[o].stale => tasks'[writer'[o].task] = 0
                        /\ writer'[o].pc = "award" /\ ~writer'[o].stale =>
                              writer'[o].score = Min({trustScore' + writer'[o].points, 100})
      BY DEF ReadingKnown
    <3>1. CASE o = w
      BY <2>3, <3>1, WriterRows
    <3>2. CASE o # w /\ Changed(o)
      <4> HIDE DEF Changed, t, points, score
      <4>1. /\ writer'[o].pc = writer[o].pc /\ writer'[o].stale
            /\ writer'[o].task = writer[o].task /\ writer'[o].points = writer[o].points
        BY <2>4, <3>2
      <4>2. writer[o].pc \in {"score", "award"} => writer[o].task \in TrustTask /\ writer[o].points \in Points
        BY <1>0 DEF ReadingKnown
      <4> QED
        BY <4>1, <4>2
    <3>3. CASE o # w /\ ~Changed(o)
      <4>1. writer'[o] = writer[o] /\ writer[o].pc # "award" /\ writer[o].task # t
        BY <2>4, <3>3
      <4> HIDE DEF Changed, t, points, score
      <4>2. reviews' = reviews
        BY <2>1
      <4>3. /\ writer[o].pc = "rating" /\ ~writer[o].stale =>
                  writer[o].rating = Average(reviews) /\ writer[o].total = Cardinality(Reviewed(reviews))
            /\ writer[o].pc \in {"score", "award"} =>
                  /\ writer[o].task \in TrustTask /\ writer[o].points \in Points
                  /\ ~writer[o].stale => tasks[writer[o].task] = 0
        BY <1>0 DEF ReadingKnown
      <4>4. writer[o].task \in TrustTask => tasks'[writer[o].task] = tasks[writer[o].task]
        BY <2>6, <4>1
      <4> QED
        BY <4>1, <4>2, <4>3, <4>4
    <3> QED
      BY <3>1, <3>2, <3>3
  <2>8. RatingIsAverage'
    <3>1. \A o \in Writer : writer[o].pc \in {"aggregate", "rating"} => writer'[o].pc \in {"aggregate", "rating"}
      BY <2>1, <2>4
    <3> QED
      BY <1>0, <2>1, <3>1 DEF RatingIsAverage
  <2>9. TrustFollowsTasks'
    <3> SUFFICES ASSUME ~uncounted'
                 PROVE  /\ trustScore' = Min({SumFunction(tasks'), 100})
                        /\ "badge_elite" \in badges' <=> trustScore' = 100
      BY DEF TrustFollowsTasks
    <3>1. ~uncounted /\ ~writer[w].stale
      BY <1>1, <2>1, <2>2
    <3>2. /\ trustScore = Min({SumFunction(tasks), 100}) /\ ("badge_elite" \in badges <=> trustScore = 100)
          /\ tasks[t] = 0 /\ score = Min({trustScore + points, 100})
      BY <1>0, <2>1, <3>1 DEF TrustFollowsTasks, ReadingKnown
    <3> DEFINE before == SumFunction(tasks)
               after == SumFunction(tasks')
    <3>3. before = Sum(tasks, TrustTask) /\ after = Sum(tasks', TrustTask)
      <4>1. DOMAIN tasks = TrustTask /\ DOMAIN tasks' = TrustTask
        BY <1>1, <2>6
      <4> QED
        BY <4>1, SumOfFunction, Zenon
    <3>4. \A u \in TrustTask : tasks[u] \in Nat /\ tasks[u] \in Int
      <4>1. \A p \in Points \cup {0} : p \in Nat
        BY StandingAssumption
      <4> QED
        BY <1>1, <4>1
    <3>5. points \in Nat
      BY <2>2, StandingAssumption
    <3> HIDE DEF before, after, t, points, score
    <3>6. Sum(tasks', TrustTask) = Sum(tasks, TrustTask) - tasks[t] + points /\ Sum(tasks, TrustTask) \in Nat
      BY <2>2, <2>6, <3>4, <3>5, StandingAssumption, SumChange, SumNat
    <3>7. after = before + points /\ before \in Nat
      BY <3>2, <3>3, <3>5, <3>6
    <3>8. trustScore = Min({before, 100})
      BY <3>2 DEF before
    <3>9. trustScore = IF before <= 100 THEN before ELSE 100
      BY <3>7, <3>8, MinOfTwo
    <3>10. score = IF trustScore + points <= 100 THEN trustScore + points ELSE 100
      <4> DEFINE sum == trustScore + points
      <4>1. sum \in Int /\ 100 \in Int
        BY <1>1, <3>5
      <4>2. score = Min({sum, 100})
        BY <3>2
      <4> HIDE DEF sum
      <4>3. Min({sum, 100}) = IF sum <= 100 THEN sum ELSE 100
        BY <4>1, MinOfTwo
      <4>4. score = IF sum <= 100 THEN sum ELSE 100
        BY <4>2, <4>3
      <4> QED
        BY <4>4 DEF sum
    <3>11. Min({after, 100}) = IF after <= 100 THEN after ELSE 100
      BY <3>5, <3>7, MinOfTwo
    <3>12. score = Min({after, 100})
      BY <3>5, <3>7, <3>9, <3>10, <3>11
    <3>13. trustScore = 100 => score = 100
      BY <3>5, <3>10
    <3>14. "badge_elite" \in badges' <=> score = 100
      BY <2>1, <3>2, <3>13
    <3> QED
      BY <2>1, <3>12, <3>14 DEF after
  <2>10. uncounted' \in BOOLEAN /\ badges' \in SUBSET {"badge_elite", "badge_safety"}
    BY <1>1, <2>1
  <2> QED
    BY <1>1, <1>2, <2>1, <2>2, <2>5, <2>6, <2>7, <2>8, <2>9, <2>10
<1>14. ASSUME NEW w \in Writer, WriterDies(w) PROVE Goal
  <2>1. /\ losses < MaxLoss /\ losses' = losses + 1
        /\ behind' = (behind \/ writer[w].pc \in {"aggregate", "rating"})
        /\ writer' = [writer EXCEPT ![w] = NoWriter]
        /\ UNCHANGED <<reviews, rating, totalReviews, tasks, trustScore, badges, uncounted, posts>>
    BY <1>14 DEF WriterDies
  <2>2. losses' \in 0 .. MaxLoss
    BY <1>0, <2>1, StandingBounds
  <2>3. /\ writer' \in [Writer -> WriterSet]
        /\ writer'[w] = NoWriter /\ \A o \in Writer \ {w} : writer'[o] = writer[o]
    BY <1>0, <1>3, <2>1, WriterMoves
  <2>4. ReadingKnown'
    BY <1>0, <2>1, <2>3, WriterRows DEF ReadingKnown
  <2>5. behind' \in BOOLEAN /\ (behind => behind') /\ (writer[w].pc \in {"aggregate", "rating"} => behind')
    BY <1>1, <2>1
  <2>6. RatingIsAverage'
    BY <1>0, <2>1, <2>3, <2>5 DEF RatingIsAverage
  <2> QED
    BY <1>1, <1>2, <1>5, <2>1, <2>2, <2>3, <2>4, <2>5, <2>6
<1> QED
  BY <1>6, <1>7, <1>8, <1>9, <1>10, <1>11, <1>12, <1>13, <1>14 DEF StandingNext

(* The rating is the mean of the reviews and the trust score the sum of    *)
(* the tasks, for any visits, tasks, points and calls.                     *)
THEOREM StandingIsEarned == StandingSpec => [](StandingTypeOK /\ RatingIsAverage /\ TrustFollowsTasks)
<1>1. StandingInv => StandingTypeOK /\ RatingIsAverage /\ TrustFollowsTasks
  BY DEF StandingInv
<1> QED
  BY <1>1, StandingInvInit, StandingInvNext, PTL DEF StandingSpec

-------------------------------------------------------------------------------
(* All of them                                                             *)

(* Every variable of the services keeps its type: each is written by its   *)
(* own component only, and the part chosen at the beginning stays.         *)
THEOREM ServicesTyped == ServicesSpec => []ServicesTypeOK
<1>1. ServicesInit => part \in Part
  BY DEF ServicesInit
<1>2. part \in Part /\ [ServicesNext]_servicesVars => (part \in Part)'
  BY DEF ServicesNext, servicesVars
<1>3. ServicesSpec => [](part \in Part)
  BY <1>1, <1>2, PTL DEF ServicesSpec
<1>4. /\ OnboardingTypeOK /\ AccessTypeOK /\ PaymentTypeOK /\ StandingTypeOK
      /\ GalleryTypeOK /\ DeskTypeOK /\ ChatTypeOK /\ TicketTypeOK /\ part \in Part
      => ServicesTypeOK
  BY DEF ServicesTypeOK
<1> QED
  BY <1>3, <1>4, ComponentsRun, OnboardingTyped, AccessTyped, PaymentTyped, StandingIsEarned,
     GalleryStaysBounded, EditsAreKept, RoomsFollowStore, TicketsReachAdmin, PTL

(* What the services promise holds of them together: the directory, the    *)
(* account and its tokens, the payments, the standing, the gallery, the    *)
(* edits, the chat and the tickets.                                        *)
THEOREM ServicesCorrect ==
    ServicesSpec =>
        /\ []ListedIsApproved
        /\ [](ClosedHolds /\ TokensOfClosedAccount /\ TokenExchangedOnce /\ GuessesBounded)
        /\ [](CaptureNotForgotten /\ RequestAgreesWithOrder)
        /\ [](RatingIsAverage /\ TrustFollowsTasks)
        /\ [](GalleryBounded /\ EditsKept)
        /\ [](ChatFollowsStore /\ TicketReachesAdmin)
BY ComponentsRun, DirectoryIsApproved, ClosedStays, ClosedAccountCut, ExchangedOnce, GuessesStayBounded,
   CaptureIsKnown, RequestAgrees, StandingIsEarned, GalleryStaysBounded, EditsAreKept, RoomsFollowStore,
   TicketsReachAdmin, PTL
=============================================================================
