----------------------------- MODULE BookingProofs -----------------------------
(***************************************************************************)
(* Proofs about Booking for any number of companions, bookings, ranges and *)
(* concurrent handlers.                                                    *)
(***************************************************************************)
EXTENDS Booking, TLAPS

-------------------------------------------------------------------------------
(* The inductive invariant, in parts *)

(* Steps during which an acceptance holds its companion's advisory lock. *)
Holding == {"check", "claim", "commit"}

(* A stored request has a range; a stored session has one too. *)
RowsComplete ==
    /\ \A r \in Request : request[r].status # "none" => request[r].proposed \in Window
    /\ \A r \in Request : session[r].status = "none" <=> session[r].win = Null

(* A call in progress works on a request, with the data its step needs. *)
CallsComplete ==
    \A c \in Call :
        /\ call[c].pc # "idle" => call[c].req \in Request
        /\ call[c].pc \in Holding \cup {"insert", "counter"} => call[c].win \in Window
        /\ call[c].pc = "move" => call[c].to # "none"

(* An acceptance in progress holds the lock of its companion. *)
LockHeld ==
    \A c \in Call : call[c].pc \in Holding =>
        /\ lock[companionOf[call[c].req]] = c
        /\ call[c].seen \in Open

(* freed records every session that is over, and only sessions. *)
FreedIsPast ==
    \A r \in Request :
        /\ session[r].status \in Closed => r \in freed
        /\ r \in freed => session[r].win # Null

(* Once checked, the agreed range overlaps released slots only: nobody     *)
(* else can reserve while the lock is held.                                *)
CheckedFree ==
    \A c \in Call : call[c].pc \in {"claim", "commit"} =>
        \A q \in Request :
            ( /\ SameCompanion(q, call[c].req)
              /\ session[q].win # Null
              /\ Overlaps(session[q].win, call[c].win) ) => q \in freed

(* Between claim and commit the claimed row is as it was read, and the     *)
(* competing requests are other stored requests of the same companion.     *)
ClaimHolds ==
    \A c \in Call : call[c].pc = "commit" =>
        /\ request[call[c].req].status = call[c].seen
        /\ session[call[c].req].status = "none"
        /\ \A q \in call[c].rivals :
              /\ q # call[c].req
              /\ SameCompanion(q, call[c].req)
              /\ request[q].proposed \in Window

IInv ==
    /\ TypeOK
    /\ RowsComplete
    /\ CallsComplete
    /\ LockHeld
    /\ FreedIsPast
    /\ CheckedFree
    /\ ClaimHolds
    /\ AcceptedHasSession

-------------------------------------------------------------------------------
(* Session handlers *)

(* What a session handler's read does, whichever handler it is: it starts  *)
(* from a session that exists and aims at a status of the schema, one of a *)
(* session that is over if this one is.                                    *)
Aiming(c, r, to) ==
    /\ call[c].pc = "idle"
    /\ session[r].status # "none"
    /\ session[r].status \in Closed => to \in Closed
    /\ Begin(c, [Idle EXCEPT !.pc = "move", !.req = r, !.to = to])
    /\ UNCHANGED <<request, overdue, session, freed, lock, gone>>

(* VALID_TRANSITIONS lets no handler start without a session, nor lead out *)
(* of a status of a session that is over.                                  *)
LEMMA NoSessionMayBecome == \A to : "none" \notin MayBecome(to)
  BY DEF MayBecome, ValidTransitions

LEMMA ClosedMayBecome == \A to : \A s \in Closed : s \in MayBecome(to) => to = s
  BY DEF MayBecome, ValidTransitions, Closed

LEMMA HandlerAims ==
  ASSUME NEW c \in Call, NEW r \in Request, SessionHandler(c, r)
  PROVE  \E to \in SessionStatus \ {"none"} : Aiming(c, r, to)
<1> USE NoSessionMayBecome, ClosedMayBecome DEF SessionRead, Aiming, SessionStatus, Closed
<1>1. CASE MarkPreArrival(c, r)
  BY <1>1 DEF MarkPreArrival
<1>2. CASE CheckIn(c, r)
  BY <1>2 DEF CheckIn
<1>3. CASE VerifyCustomer(c, r)
  BY <1>3 DEF VerifyCustomer
<1>4. CASE VerifyBySelfie(c, r)
  BY <1>4 DEF VerifyBySelfie
<1>5. CASE EndEarly(c, r)
  BY <1>5 DEF EndEarly
<1>6. CASE CancelSession(c, r)
  BY <1>6 DEF CancelSession
<1>7. CASE ReportNoShow(c, r)
  BY <1>7 DEF ReportNoShow
<1>8. CASE CompleteSession(c, r)
  BY <1>8 DEF CompleteSession
<1>9. CASE CompleteSessionByBooking(c, r)
  BY <1>9 DEF CompleteSessionByBooking
<1>10. QED
  BY <1>1, <1>2, <1>3, <1>4, <1>5, <1>6, <1>7, <1>8, <1>9 DEF SessionHandler

-------------------------------------------------------------------------------
(* Type correctness *)

LEMMA RequestRowUpdate ==
  ASSUME NEW row \in RequestRow, NEW s \in RequestStatus, NEW w \in WindowOrNull
  PROVE  /\ [row EXCEPT !.status = s] \in RequestRow
         /\ [row EXCEPT !.proposed = w] \in RequestRow
         /\ [row EXCEPT !.counter = w] \in RequestRow
  BY DEF RequestRow

LEMMA IdleTyped == Idle \in CallRow
  BY DEF Idle, CallRow, Step, RequestStatus, SessionStatus, WindowOrNull

(* A call that begins, continues or ends leaves the table of calls typed. *)
LEMMA CallTyped ==
  ASSUME TypeOK, NEW c \in Call
  PROVE  /\ \A row \in CallRow : Begin(c, row) => call' \in [Call -> CallRow]
         /\ End(c) => call' \in [Call -> CallRow]
  BY IdleTyped DEF TypeOK, Begin, End

LEMMA InitTypeOK == Init => TypeOK
  BY BookingAssumption, IdleTyped
  DEF Init, TypeOK, NoRequest, NoSession, RequestRow, SessionRow, RequestStatus, SessionStatus,
      WindowOrNull

LEMMA StepTypeOK == TypeOK /\ CallsComplete /\ [Next]_vars => TypeOK'
<1> SUFFICES ASSUME TypeOK, CallsComplete, [Next]_vars
             PROVE  TypeOK'
  OBVIOUS
<1>1. ASSUME NEW c \in Call, NEW r \in Request, NEW w \in Window, CreateCheck(c, r, w)
      PROVE  TypeOK'
  <2>1. [Idle EXCEPT !.pc = "insert", !.req = r, !.win = w] \in CallRow
    BY IdleTyped DEF CallRow, Step, WindowOrNull
  <2>2. QED
    BY <1>1, <2>1, CallTyped DEF CreateCheck, TypeOK
<1>2. ASSUME NEW c \in Call, CreateInsert(c)
      PROVE  TypeOK'
  <2>1. [status |-> "pending", proposed |-> call[c].win, counter |-> Null] \in RequestRow
    BY DEF TypeOK, CallRow, RequestRow, RequestStatus, WindowOrNull
  <2>2. QED
    BY <1>2, <2>1, CallTyped DEF CreateInsert, TypeOK
<1>3. ASSUME NEW r \in Request, NEW w \in Window, Modify(r, w)
      PROVE  TypeOK'
  <2>1. [request[r] EXCEPT !.proposed = w] \in RequestRow
    BY RequestRowUpdate DEF TypeOK, WindowOrNull, RequestStatus
  <2>2. request' = [request EXCEPT ![r] = [request[r] EXCEPT !.proposed = w]]
    BY <1>3 DEF Modify
  <2>3. QED
    BY <1>3, <2>1, <2>2 DEF Modify, TypeOK
<1>4. ASSUME NEW c \in Call, NEW r \in Request,
             NEW answer \in {"answer_accept", "answer_decline"}, AnswerCounter(c, r, answer)
      PROVE  TypeOK'
  <2>1. [Idle EXCEPT !.pc = answer, !.req = r] \in CallRow
    BY IdleTyped DEF CallRow, Step
  <2>2. QED
    BY <1>4, <2>1, CallTyped DEF AnswerCounter, TypeOK
<1>5. ASSUME NEW c \in Call, NEW r \in Request, AcceptRead(c, r)
      PROVE  TypeOK'
  <2>1. AgreedWindow(r) \in WindowOrNull /\ request[r].status \in RequestStatus
    BY DEF AgreedWindow, TypeOK, RequestRow
  <2>2. [Idle EXCEPT !.pc = "check", !.req = r, !.seen = request[r].status,
                     !.win = AgreedWindow(r)] \in CallRow
    BY <2>1, IdleTyped DEF CallRow, Step
  <2>3. QED
    BY <1>5, <2>2, CallTyped DEF AcceptRead, TypeOK
<1>6. ASSUME NEW c \in Call, AcceptCheck(c)
      PROVE  TypeOK'
  <2>1. [call[c] EXCEPT !.pc = "claim"] \in CallRow
    BY DEF TypeOK, CallRow, Step
  <2>2. QED
    BY <1>6, <2>1, CallTyped DEF AcceptCheck, TypeOK
<1>7. ASSUME NEW c \in Call, AcceptClaim(c)
      PROVE  TypeOK'
  <2>1. Rivals(call[c].req, call[c].win) \in SUBSET Request
    BY DEF Rivals
  <2>2. [call[c] EXCEPT !.pc = "commit", !.rivals = Rivals(call[c].req, call[c].win)] \in CallRow
    BY <2>1 DEF TypeOK, CallRow, Step
  <2>3. QED
    BY <1>7, <2>2, CallTyped DEF AcceptClaim, TypeOK
<1>8. ASSUME NEW c \in Call, AcceptCommit(c)
      PROVE  TypeOK'
  <2>1. call[c].win \in WindowOrNull
    BY DEF TypeOK, CallRow
  <2>2. \A q \in Request :
          /\ [request[q] EXCEPT !.status = "accepted", !.proposed = call[c].win] \in RequestRow
          /\ [request[q] EXCEPT !.status = "declined"] \in RequestRow
    BY <2>1 DEF TypeOK, RequestRow, RequestStatus
  <2>3. request' \in [Request -> RequestRow]
    BY <1>8, <2>2 DEF AcceptCommit, TypeOK
  <2>4. [status |-> "upcoming", win |-> call[c].win] \in SessionRow
    BY <2>1 DEF SessionRow, SessionStatus
  <2>5. QED
    BY <1>8, <2>3, <2>4, CallTyped DEF AcceptCommit, TypeOK
<1>9. ASSUME NEW c \in Call, NEW r \in Request, DeclineRead(c, r)
      PROVE  TypeOK'
  <2>1. [Idle EXCEPT !.pc = "decline", !.req = r] \in CallRow
    BY IdleTyped DEF CallRow, Step
  <2>2. QED
    BY <1>9, <2>1, CallTyped DEF DeclineRead, TypeOK
<1>10. ASSUME NEW c \in Call, DeclineWrite(c)
       PROVE  TypeOK'
  <2> DEFINE r == call[c].req
  <2>1. [request[r] EXCEPT !.status = "declined"] \in RequestRow
    BY <1>10, RequestRowUpdate DEF DeclineWrite, CallsComplete, TypeOK, WindowOrNull, RequestStatus
  <2>2. request' = [request EXCEPT ![r] = [request[r] EXCEPT !.status = "declined"]]
    BY <1>10 DEF DeclineWrite
  <2>3. QED
    BY <1>10, <2>1, <2>2, CallTyped DEF DeclineWrite, TypeOK
<1>11. ASSUME NEW c \in Call, NEW r \in Request, NEW w \in Window, CounterRead(c, r, w)
       PROVE  TypeOK'
  <2>1. [Idle EXCEPT !.pc = "counter", !.req = r, !.win = w] \in CallRow
    BY IdleTyped DEF CallRow, Step, WindowOrNull
  <2>2. QED
    BY <1>11, <2>1, CallTyped DEF CounterRead, TypeOK
<1>12. ASSUME NEW c \in Call, CounterWrite(c)
       PROVE  TypeOK'
  <2> DEFINE r == call[c].req
             proposing == [request[r] EXCEPT !.status = "counter_proposed"]
  <2>1. r \in Request /\ call[c].win \in WindowOrNull
    BY <1>12 DEF CounterWrite, CallsComplete, TypeOK, CallRow
  <2>2. proposing \in RequestRow
    BY <2>1, RequestRowUpdate DEF TypeOK, WindowOrNull, RequestStatus
  <2>3. [proposing EXCEPT !.counter = call[c].win] \in RequestRow
    <3> HIDE DEF proposing
    <3>1. QED
      BY <2>1, <2>2, RequestRowUpdate DEF RequestStatus
  <2>4. request' = [request EXCEPT ![r] = [proposing EXCEPT !.counter = call[c].win]]
    BY <1>12, <2>1 DEF CounterWrite, TypeOK, RequestRow
  <2>5. QED
    BY <1>12, <2>3, <2>4, CallTyped DEF CounterWrite, TypeOK
<1>13. ASSUME NEW r \in Request, PassDeadline(r)
       PROVE  TypeOK'
  BY <1>13 DEF PassDeadline, TypeOK
<1>14. ASSUME NEW companions, ExpireFor(companions)
       PROVE  TypeOK'
  <2>1. \A r \in Request : [request[r] EXCEPT !.status = "expired"] \in RequestRow
    BY RequestRowUpdate DEF TypeOK, WindowOrNull, RequestStatus
  <2>2. QED
    BY <1>14, <2>1 DEF ExpireFor, TypeOK
<1>15. ASSUME NEW r \in Request, PaymentConfirmed(r)
       PROVE  TypeOK'
  <2>1. [request[r] EXCEPT !.status = "pending"] \in RequestRow
    BY RequestRowUpdate DEF TypeOK, WindowOrNull, RequestStatus
  <2>2. request' = [request EXCEPT ![r] = [request[r] EXCEPT !.status = "pending"]]
    BY <1>15 DEF PaymentConfirmed
  <2>3. QED
    BY <1>15, <2>1, <2>2 DEF PaymentConfirmed, TypeOK
<1>16. ASSUME NEW c \in Call, Fail(c)
       PROVE  TypeOK'
  BY <1>16, CallTyped DEF Fail, TypeOK
<1>17. ASSUME NEW c \in Call, NEW r \in Request, SessionHandler(c, r)
       PROVE  TypeOK'
  <2>1. PICK to \in SessionStatus \ {"none"} : Aiming(c, r, to)
    BY <1>17, HandlerAims
  <2>2. [Idle EXCEPT !.pc = "move", !.req = r, !.to = to] \in CallRow
    BY IdleTyped DEF CallRow, Step
  <2>3. QED
    BY <2>1, <2>2, CallTyped DEF Aiming, TypeOK
<1>18. ASSUME NEW c \in Call, SessionWrite(c)
       PROVE  TypeOK'
  <2> DEFINE r == call[c].req
             row == [session[r] EXCEPT !.status = call[c].to]
  <2>1. session' = [session EXCEPT ![r] = row]
    BY <1>18 DEF SessionWrite
  <2>2. r \in Request => row \in SessionRow
    BY DEF TypeOK, CallRow, SessionRow
  <2>3. session' \in [Request -> SessionRow]
    BY <2>1, <2>2 DEF TypeOK
  <2>4. freed' \in SUBSET Request
    BY <1>18 DEF SessionWrite, TypeOK, CallsComplete
  <2>5. QED
    BY <1>18, <2>3, <2>4, CallTyped DEF SessionWrite, TypeOK
<1>19. ASSUME NEW p \in Companion, DeleteAccount(p)
       PROVE  TypeOK'
  <2>1. NoRequest \in RequestRow /\ NoSession \in SessionRow
    BY DEF NoRequest, NoSession, RequestRow, SessionRow, RequestStatus, SessionStatus, WindowOrNull
  <2>2. QED
    BY <1>19, <2>1 DEF DeleteAccount, TypeOK
<1>20. CASE UNCHANGED vars
  BY <1>20 DEF vars, TypeOK
<1>21. QED
  BY <1>1, <1>2, <1>3, <1>4, <1>5, <1>6, <1>7, <1>8, <1>9, <1>10, <1>11, <1>12, <1>13, <1>14,
     <1>15, <1>16, <1>17, <1>18, <1>19, <1>20
  DEF Next, CustomerNext, CompanionNext, EnvironmentNext, SessionNext, ExpireOldRequests,
      GetRequests

-------------------------------------------------------------------------------
(* The invariant is inductive *)

(* A call that holds no lock begins: it reads, and writes nothing yet. *)
Starting(c, row) ==
    /\ call[c].pc \notin Holding
    /\ row.pc \notin Holding \cup {"idle"}
    /\ row.req \in Request
    /\ row.pc \in {"insert", "counter"} => row.win \in Window
    /\ row.pc = "move" => row.to # "none"
    /\ Begin(c, row)
    /\ UNCHANGED <<request, overdue, session, freed, lock, gone>>

(* No session changes, no call does more than end, and the request rows    *)
(* that change are not claimed and do not become accepted.                 *)
Quiet ==
    /\ UNCHANGED <<session, freed>>
    /\ \A c \in Call : call'[c] = call[c] \/ call'[c] = Idle
    /\ \A p \in Companion, c \in Call :
          lock[p] = c /\ call'[c] # Idle => lock'[p] = c
    /\ \A r \in Request :
          \/ request'[r] = request[r]
          \/ /\ ~RowLocked(r)
             /\ request'[r].status # "accepted"
             /\ request'[r].proposed \in Window

LEMMA InitIInv == Init => IInv
<1> SUFFICES ASSUME Init
             PROVE  IInv
  OBVIOUS
<1>1. TypeOK
  BY InitTypeOK
<1>2. \A c \in Call : call[c].pc = "idle"
  BY DEF Init, Idle
<1>3. RowsComplete /\ FreedIsPast /\ AcceptedHasSession
  BY DEF Init, NoRequest, NoSession, RowsComplete, FreedIsPast, AcceptedHasSession, Closed
<1>4. QED
  BY <1>1, <1>2, <1>3 DEF IInv, CallsComplete, LockHeld, CheckedFree, ClaimHolds, Holding

LEMMA StartingIInv ==
  ASSUME IInv, TypeOK', NEW c \in Call, NEW row, Starting(c, row)
  PROVE  IInv'
<1>1. /\ call'[c] = row
      /\ \A d \in Call \ {c} : call'[d] = call[d]
  BY DEF IInv, TypeOK, Starting, Begin
<1>2. RowsComplete' /\ FreedIsPast' /\ AcceptedHasSession'
  BY DEF IInv, Starting, RowsComplete, FreedIsPast, AcceptedHasSession
<1>3. CallsComplete'
  BY <1>1 DEF IInv, Starting, CallsComplete, Holding
<1>4. LockHeld' /\ CheckedFree' /\ ClaimHolds'
  BY <1>1 DEF IInv, Starting, LockHeld, CheckedFree, ClaimHolds, Holding, SameCompanion
<1>5. QED
  BY <1>2, <1>3, <1>4 DEF IInv

LEMMA QuietIInv ==
  ASSUME IInv, TypeOK', Quiet
  PROVE  IInv'
<1>1. \A c \in Call : call'[c] = call[c] \/ call'[c].pc = "idle"
  BY DEF Quiet, Idle
<1>2. RowsComplete' /\ FreedIsPast'
  BY DEF IInv, Quiet, RowsComplete, FreedIsPast
<1>3. AcceptedHasSession'
  BY DEF IInv, Quiet, AcceptedHasSession
<1>4. CallsComplete'
  BY <1>1 DEF IInv, Quiet, CallsComplete, Holding
<1>5. LockHeld'
  BY <1>1, BookingAssumption DEF IInv, Quiet, LockHeld, CallsComplete, Holding, Idle
<1>6. CheckedFree'
  BY <1>1 DEF IInv, Quiet, CheckedFree, SameCompanion
<1>7. ClaimHolds'
  <2> SUFFICES ASSUME NEW c \in Call, call'[c].pc = "commit"
               PROVE  /\ request'[call'[c].req].status = call'[c].seen
                      /\ session'[call'[c].req].status = "none"
                      /\ \A q \in call'[c].rivals :
                            /\ q # call'[c].req
                            /\ SameCompanion(q, call'[c].req)
                            /\ request'[q].proposed \in Window
    BY DEF ClaimHolds, SameCompanion
  <2>1. call'[c] = call[c]
    BY <1>1
  <2>2. /\ call[c].req \in Request /\ RowLocked(call[c].req)
        /\ \A q \in call[c].rivals : q \in Request
    BY <2>1 DEF IInv, TypeOK, CallRow, CallsComplete, RowLocked
  <2>3. request'[call[c].req] = request[call[c].req]
    BY <2>2 DEF Quiet
  <2>4. QED
    BY <2>1, <2>2, <2>3 DEF IInv, Quiet, ClaimHolds
<1>8. QED
  BY <1>2, <1>3, <1>4, <1>5, <1>6, <1>7 DEF IInv

(* The read of an acceptance: only the lock and the call change. *)
LEMMA AcceptReadIInv ==
  ASSUME IInv, TypeOK', NEW c \in Call, NEW r \in Request, AcceptRead(c, r)
  PROVE  IInv'
<1>1. /\ call'[c].pc = "check" /\ call'[c].req = r
      /\ call'[c].seen = request[r].status /\ call'[c].win = AgreedWindow(r)
      /\ \A d \in Call \ {c} : call'[d] = call[d]
  BY DEF IInv, TypeOK, AcceptRead, Begin, Idle
<1>2. AgreedWindow(r) \in Window
  BY DEF IInv, TypeOK, RequestRow, WindowOrNull, AcceptRead, AgreedWindow, RowsComplete, Open
<1>3. RowsComplete' /\ FreedIsPast' /\ AcceptedHasSession'
  BY DEF IInv, AcceptRead, RowsComplete, FreedIsPast, AcceptedHasSession
<1>4. CallsComplete'
  BY <1>1, <1>2 DEF IInv, AcceptRead, CallsComplete, Holding
<1>5. LockHeld'
  <2>1. \A d \in Call \ {c} : call[d].pc \in Holding => companionOf[call[d].req] # companionOf[r]
    BY BookingAssumption DEF IInv, LockHeld, AcceptRead
  <2>2. companionOf[r] \in Companion
    BY BookingAssumption
  <2>3. QED
    BY <1>1, <2>1, <2>2 DEF IInv, TypeOK, LockHeld, AcceptRead
<1>6. CheckedFree' /\ ClaimHolds'
  BY <1>1 DEF IInv, AcceptRead, CheckedFree, ClaimHolds, SameCompanion
<1>7. QED
  BY <1>3, <1>4, <1>5, <1>6 DEF IInv

(* The conflict check: what overlaps the agreed range is over. *)
LEMMA AcceptCheckIInv ==
  ASSUME IInv, TypeOK', NEW c \in Call, AcceptCheck(c)
  PROVE  IInv'
<1>1. /\ call'[c].pc = "claim" /\ call'[c].req = call[c].req
      /\ call'[c].seen = call[c].seen /\ call'[c].win = call[c].win
      /\ \A d \in Call \ {c} : call'[d] = call[d]
  BY DEF IInv, TypeOK, CallRow, AcceptCheck, Begin
<1>2. RowsComplete' /\ FreedIsPast' /\ AcceptedHasSession'
  BY DEF IInv, AcceptCheck, RowsComplete, FreedIsPast, AcceptedHasSession
<1>3. CallsComplete' /\ LockHeld'
  BY <1>1 DEF IInv, AcceptCheck, CallsComplete, LockHeld, Holding
<1>4. CheckedFree'
  <2>1. ASSUME NEW q \in Request, SameCompanion(q, call[c].req), session[q].win # Null,
               Overlaps(session[q].win, call[c].win)
        PROVE  q \in freed
    <3>1. session[q].status \in Closed
      BY <2>1 DEF IInv, RowsComplete, AcceptCheck, Conflict
    <3>2. QED
      BY <3>1 DEF IInv, FreedIsPast
  <2>2. QED
    BY <1>1, <2>1 DEF IInv, AcceptCheck, CheckedFree, SameCompanion
<1>5. ClaimHolds'
  BY <1>1 DEF IInv, AcceptCheck, ClaimHolds, SameCompanion
<1>6. QED
  BY <1>2, <1>3, <1>4, <1>5 DEF IInv

(* The claim: the row is as it was read and has no session. *)
LEMMA AcceptClaimIInv ==
  ASSUME IInv, TypeOK', NEW c \in Call, AcceptClaim(c)
  PROVE  IInv'
<1>1. /\ call'[c].pc = "commit" /\ call'[c].req = call[c].req
      /\ call'[c].seen = call[c].seen /\ call'[c].win = call[c].win
      /\ call'[c].rivals = Rivals(call[c].req, call[c].win)
      /\ \A d \in Call \ {c} : call'[d] = call[d]
  BY DEF IInv, TypeOK, CallRow, AcceptClaim, Begin
<1>2. RowsComplete' /\ FreedIsPast' /\ AcceptedHasSession'
  BY DEF IInv, AcceptClaim, RowsComplete, FreedIsPast, AcceptedHasSession
<1>3. CallsComplete' /\ LockHeld'
  BY <1>1 DEF IInv, AcceptClaim, CallsComplete, LockHeld, Holding
<1>4. CheckedFree'
  BY <1>1 DEF IInv, AcceptClaim, CheckedFree, SameCompanion
<1>5. ClaimHolds'
  BY <1>1 DEF IInv, AcceptClaim, ClaimHolds, Rivals, SameCompanion, RowsComplete, Open
<1>6. QED
  BY <1>2, <1>3, <1>4, <1>5 DEF IInv

(* The commit: no other acceptance of the companion is past its check, so  *)
(* the new reservation disturbs nobody's check and nobody's claim.         *)
LEMMA AcceptCommitIInv ==
  ASSUME IInv, TypeOK', NEW c \in Call, AcceptCommit(c)
  PROVE  IInv'
<1> DEFINE r == call[c].req
<1>1. r \in Request /\ call[c].win \in Window /\ call[c].win # Null
  BY BookingAssumption DEF IInv, CallsComplete, AcceptCommit, Holding
<1>2. /\ call'[c].pc = "idle"
      /\ \A d \in Call \ {c} : call'[d] = call[d]
  BY DEF IInv, TypeOK, AcceptCommit, End, Idle
<1>3. /\ session'[r] = [status |-> "upcoming", win |-> call[c].win]
      /\ \A q \in Request \ {r} : session'[q] = session[q]
  BY <1>1 DEF IInv, TypeOK, AcceptCommit
<1>4. /\ request'[r].status = "accepted" /\ request'[r].proposed = call[c].win
      /\ \A q \in Request \ {r} :
            \/ request'[q] = request[q]
            \/ /\ q \in call[c].rivals
               /\ request'[q].status = "declined"
               /\ request'[q].proposed = request[q].proposed
               /\ request[q].proposed \in Window
  <2>1. request'[r] = [request[r] EXCEPT !.status = "accepted", !.proposed = call[c].win]
    BY <1>1 DEF AcceptCommit
  <2>2. \A q \in Request \ {r} :
           request'[q] = IF q \in call[c].rivals
                           THEN [request[q] EXCEPT !.status = "declined"] ELSE request[q]
    BY DEF AcceptCommit
  <2>3. \A q \in call[c].rivals : request[q].proposed \in Window
    BY DEF IInv, ClaimHolds, AcceptCommit
  <2>4. QED
    BY <1>1, <2>1, <2>2, <2>3 DEF IInv, TypeOK, RequestRow
<1>5. \A d \in Call \ {c} :
         call[d].pc \in Holding => ~SameCompanion(call[d].req, r)
  BY <1>1 DEF IInv, LockHeld, AcceptCommit, Holding, SameCompanion
<1>5a. /\ freed' = freed
       /\ call[c].pc \in {"claim", "commit"} \cap Holding
       /\ lock' = [lock EXCEPT ![companionOf[r]] = Null]
  BY DEF AcceptCommit, Holding
<1>6. RowsComplete'
  BY <1>1, <1>3, <1>4 DEF IInv, RowsComplete
<1>7. CallsComplete'
  BY <1>1, <1>2, <1>3, <1>4 DEF IInv, CallsComplete, Holding
<1>8. LockHeld'
  <2>1. \A d \in Call \ {c} : call[d].pc \in Holding =>
           lock'[companionOf[call[d].req]] = lock[companionOf[call[d].req]]
    BY <1>5, <1>5a, BookingAssumption DEF IInv, TypeOK, CallsComplete, SameCompanion, Holding
  <2>2. QED
    BY <1>2, <2>1 DEF IInv, LockHeld, Holding
<1>9. FreedIsPast'
  BY <1>1, <1>3, <1>5a DEF IInv, FreedIsPast, Closed
<1>10. CheckedFree'
  BY <1>2, <1>3, <1>5, <1>5a DEF IInv, CheckedFree, SameCompanion, Holding
<1>11. ClaimHolds'
  <2> SUFFICES ASSUME NEW d \in Call \ {c}, call[d].pc = "commit"
               PROVE  /\ request'[call[d].req].status = call[d].seen
                      /\ session'[call[d].req].status = "none"
                      /\ \A q \in call[d].rivals :
                            /\ q # call[d].req
                            /\ SameCompanion(q, call[d].req)
                            /\ request'[q].proposed \in Window
    BY <1>2 DEF ClaimHolds, SameCompanion
  <2>1. ~SameCompanion(call[d].req, r) /\ call[d].req \in Request
    BY <1>5 DEF IInv, CallsComplete, Holding
  <2>2. call[d].req # r /\ call[d].req \notin call[c].rivals
    BY <2>1 DEF IInv, ClaimHolds, AcceptCommit, SameCompanion
  <2>3. \A q \in call[d].rivals : q \in Request \ {r}
    BY <2>1 DEF IInv, TypeOK, CallRow, ClaimHolds, SameCompanion
  <2>4. QED
    BY <1>3, <1>4, <2>1, <2>2, <2>3 DEF IInv, ClaimHolds
<1>12. AcceptedHasSession'
  BY <1>3, <1>4 DEF IInv, AcceptedHasSession
<1>13. QED
  BY <1>6, <1>7, <1>8, <1>9, <1>10, <1>11, <1>12 DEF IInv

(* A session handler's update changes a status, never a range. *)
LEMMA SessionWriteIInv ==
  ASSUME IInv, TypeOK', NEW c \in Call, SessionWrite(c)
  PROVE  IInv'
<1> DEFINE r == call[c].req
<1>1. r \in Request /\ call[c].to # "none" /\ session[r].status # "none"
  BY DEF IInv, CallsComplete, SessionWrite
<1>2. /\ call'[c].pc = "idle"
      /\ \A d \in Call \ {c} : call'[d] = call[d]
  BY DEF IInv, TypeOK, SessionWrite, End, Idle
<1>3. /\ session'[r].status = call[c].to /\ session'[r].win = session[r].win
      /\ \A q \in Request \ {r} : session'[q] = session[q]
  BY <1>1 DEF IInv, TypeOK, SessionRow, SessionWrite
<1>4. /\ freed \subseteq freed'
      /\ \A q \in Request \ {r} : q \in freed' => q \in freed
      /\ call[c].to \in Closed => r \in freed'
  BY DEF SessionWrite
<1>5. RowsComplete'
  BY <1>1, <1>3 DEF IInv, RowsComplete, SessionWrite
<1>6. CallsComplete'
  BY <1>1, <1>2, <1>3 DEF IInv, CallsComplete, SessionWrite, Holding
<1>7. LockHeld'
  BY <1>2 DEF IInv, LockHeld, SessionWrite, Holding
<1>8. FreedIsPast'
  BY <1>1, <1>3, <1>4 DEF IInv, FreedIsPast, RowsComplete
<1>9. CheckedFree'
  BY <1>2, <1>3, <1>4 DEF IInv, CheckedFree, SameCompanion
<1>10. ClaimHolds'
  BY <1>1, <1>2, <1>3 DEF IInv, ClaimHolds, CallsComplete, SessionWrite, SameCompanion
<1>11. AcceptedHasSession'
  BY <1>1, <1>3 DEF IInv, AcceptedHasSession, SessionWrite
<1>12. QED
  BY <1>5, <1>6, <1>7, <1>8, <1>9, <1>10, <1>11 DEF IInv

(* What the deletion of a companion's account does to a booking's rows. *)
LEMMA RowsDeleted ==
  ASSUME NEW p \in Companion, DeleteAccount(p), NEW r \in Request
  PROVE  /\ companionOf[r] = p => /\ request'[r] = NoRequest /\ session'[r] = NoSession
                                  /\ r \notin freed'
         /\ companionOf[r] # p => /\ request'[r] = request[r] /\ session'[r] = session[r]
                                  /\ r \in freed' <=> r \in freed
  BY DEF DeleteAccount

(* The deletion of an account: what is left of the companion's bookings is *)
(* as before their creation, and no acceptance has claimed one of them.    *)
LEMMA DeleteAccountIInv ==
  ASSUME IInv, TypeOK', NEW p \in Companion, DeleteAccount(p)
  PROVE  IInv'
<1>1. call' = call /\ lock' = lock
  BY DEF DeleteAccount
<1>2. \A r \in Request :
         \/ /\ companionOf[r] = p /\ r \notin freed'
            /\ request'[r].status = "none" /\ session'[r].status = "none" /\ session'[r].win = Null
         \/ /\ companionOf[r] # p /\ (r \in freed' <=> r \in freed)
            /\ request'[r] = request[r] /\ session'[r] = session[r]
  BY RowsDeleted DEF NoRequest, NoSession
<1>3. RowsComplete' /\ FreedIsPast' /\ AcceptedHasSession'
  BY <1>2 DEF IInv, RowsComplete, FreedIsPast, AcceptedHasSession, Closed
<1>4. CallsComplete' /\ LockHeld'
  BY <1>1 DEF IInv, CallsComplete, LockHeld
<1>5. CheckedFree'
  BY <1>1, <1>2 DEF IInv, CheckedFree, SameCompanion
<1>6. ClaimHolds'
  <2> SUFFICES ASSUME NEW c \in Call, call[c].pc = "commit"
               PROVE  /\ request'[call[c].req].status = call[c].seen
                      /\ session'[call[c].req].status = "none"
                      /\ \A q \in call[c].rivals :
                            /\ q # call[c].req
                            /\ SameCompanion(q, call[c].req)
                            /\ request'[q].proposed \in Window
    BY <1>1 DEF ClaimHolds, SameCompanion
  <2>1. /\ call[c].req \in Request /\ call[c].rivals \subseteq Request
        /\ companionOf[call[c].req] # p
    BY DEF IInv, TypeOK, CallRow, CallsComplete, DeleteAccount, RowLocked
  <2>2. \A q \in call[c].rivals : companionOf[q] # p
    BY <2>1 DEF IInv, ClaimHolds, SameCompanion
  <2>3. QED
    BY <1>2, <2>1, <2>2 DEF IInv, ClaimHolds
<1>7. QED
  BY <1>3, <1>4, <1>5, <1>6 DEF IInv

(* Every step that is not one of an acceptance's four, of a session        *)
(* handler's update, of a call that begins or the deletion of an account   *)
(* is quiet.                                                               *)
LEMMA QuietSteps ==
  ASSUME IInv, TypeOK',
         \/ UNCHANGED vars
         \/ \E c \in Call : CreateInsert(c) \/ DeclineWrite(c) \/ CounterWrite(c) \/ Fail(c)
         \/ \E r \in Request, w \in Window : Modify(r, w)
         \/ \E r \in Request : PassDeadline(r) \/ PaymentConfirmed(r)
         \/ \E companions : ExpireFor(companions)
  PROVE  Quiet
<1>1. CASE UNCHANGED vars
  BY <1>1 DEF vars, Quiet
<1>2. ASSUME NEW c \in Call, CreateInsert(c)
      PROVE  Quiet
  <2>1. call[c].req \in Request /\ call[c].win \in Window
    BY <1>2 DEF IInv, CallsComplete, CreateInsert, Holding
  <2>2. request[call[c].req].status = "none" => ~RowLocked(call[c].req)
    BY DEF IInv, ClaimHolds, LockHeld, RowLocked, Holding, Open
  <2>3. QED
    BY <1>2, <2>1, <2>2 DEF IInv, TypeOK, CreateInsert, End, Quiet
<1>3. ASSUME NEW c \in Call, DeclineWrite(c)
      PROVE  Quiet
  <2> DEFINE r == call[c].req
  <2>1. /\ r \in Request /\ ~RowLocked(r)
        /\ request'[r] = [request[r] EXCEPT !.status = "declined"]
        /\ \A q \in Request \ {r} : request'[q] = request[q]
    BY <1>3 DEF IInv, TypeOK, CallsComplete, DeclineWrite
  <2>2. request'[r].status = "declined" /\ request'[r].proposed \in Window
    BY <1>3, <2>1 DEF IInv, TypeOK, RequestRow, RowsComplete, DeclineWrite
  <2>3. QED
    BY <1>3, <2>1, <2>2 DEF IInv, TypeOK, DeclineWrite, End, Quiet
<1>4. ASSUME NEW c \in Call, CounterWrite(c)
      PROVE  Quiet
  <2> DEFINE r == call[c].req
  <2>1. /\ r \in Request /\ ~RowLocked(r)
        /\ request' = [request EXCEPT ![r].status = "counter_proposed", ![r].counter = call[c].win]
    BY <1>4 DEF IInv, CallsComplete, CounterWrite
  <2>2. /\ request'[r].status = "counter_proposed"
        /\ request'[r].proposed = request[r].proposed
        /\ \A q \in Request \ {r} : request'[q] = request[q]
    BY <2>1 DEF IInv, TypeOK, RequestRow
  <2>3. request[r].proposed \in Window
    BY <1>4, <2>1 DEF IInv, RowsComplete, CounterWrite
  <2>4. QED
    BY <1>4, <2>1, <2>2, <2>3 DEF IInv, TypeOK, CounterWrite, End, Quiet
<1>5. ASSUME NEW c \in Call, Fail(c)
      PROVE  Quiet
  BY <1>5 DEF IInv, TypeOK, Fail, End, Quiet
<1>6. ASSUME NEW r \in Request, NEW w \in Window, Modify(r, w)
      PROVE  Quiet
  <2>1. request'[r] = [request[r] EXCEPT !.proposed = w]
    BY <1>6 DEF IInv, TypeOK, Modify
  <2>2. request'[r].status = "pending" /\ request'[r].proposed = w
    BY <1>6, <2>1 DEF IInv, TypeOK, RequestRow, Modify
  <2>3. QED
    BY <1>6, <2>2 DEF IInv, TypeOK, Modify, Quiet
<1>7. ASSUME NEW r \in Request, PassDeadline(r)
      PROVE  Quiet
  BY <1>7 DEF PassDeadline, Quiet
<1>8. ASSUME NEW r \in Request, PaymentConfirmed(r)
      PROVE  Quiet
  <2>1. request'[r] = [request[r] EXCEPT !.status = "pending"]
    BY <1>8 DEF IInv, TypeOK, PaymentConfirmed
  <2>2. request'[r].status = "pending" /\ request'[r].proposed \in Window
    BY <1>8, <2>1 DEF IInv, TypeOK, RequestRow, RowsComplete, PaymentConfirmed
  <2>3. QED
    BY <1>8, <2>2 DEF IInv, TypeOK, PaymentConfirmed, Quiet
<1>9. ASSUME NEW companions, ExpireFor(companions)
      PROVE  Quiet
  <2>1. \A r \in Request :
           \/ request'[r] = request[r]
           \/ /\ ~RowLocked(r) /\ request[r].status = "pending"
              /\ request'[r] = [request[r] EXCEPT !.status = "expired"]
    BY <1>9 DEF ExpireFor
  <2>2. \A r \in Request :
           \/ request'[r] = request[r]
           \/ /\ ~RowLocked(r)
              /\ request'[r].status = "expired" /\ request'[r].proposed \in Window
    BY <2>1 DEF IInv, TypeOK, RequestRow, RowsComplete
  <2>3. QED
    BY <1>9, <2>2 DEF ExpireFor, Quiet
<1>10. QED
  BY <1>1, <1>2, <1>3, <1>4, <1>5, <1>6, <1>7, <1>8, <1>9

LEMMA StepIInv == IInv /\ [Next]_vars => IInv'
<1> SUFFICES ASSUME IInv, [Next]_vars
             PROVE  IInv'
  OBVIOUS
<1>0. TypeOK'
  BY StepTypeOK DEF IInv
<1>1. ASSUME NEW c \in Call, NEW r \in Request, NEW w \in Window, CreateCheck(c, r, w)
      PROVE  IInv'
  <2>1. Starting(c, [Idle EXCEPT !.pc = "insert", !.req = r, !.win = w])
    BY <1>1 DEF CreateCheck, Starting, Idle, Holding
  <2>2. QED
    BY <1>0, <2>1, StartingIInv
<1>2. ASSUME NEW c \in Call, NEW r \in Request,
             NEW answer \in {"answer_accept", "answer_decline"}, AnswerCounter(c, r, answer)
      PROVE  IInv'
  <2>1. Starting(c, [Idle EXCEPT !.pc = answer, !.req = r])
    BY <1>2 DEF AnswerCounter, Starting, Idle, Holding
  <2>2. QED
    BY <1>0, <2>1, StartingIInv
<1>3. ASSUME NEW c \in Call, NEW r \in Request, DeclineRead(c, r)
      PROVE  IInv'
  <2>1. Starting(c, [Idle EXCEPT !.pc = "decline", !.req = r])
    BY <1>3 DEF DeclineRead, Entering, Starting, Idle, Holding
  <2>2. QED
    BY <1>0, <2>1, StartingIInv
<1>4. ASSUME NEW c \in Call, NEW r \in Request, NEW w \in Window, CounterRead(c, r, w)
      PROVE  IInv'
  <2>1. Starting(c, [Idle EXCEPT !.pc = "counter", !.req = r, !.win = w])
    BY <1>4 DEF CounterRead, Starting, Idle, Holding
  <2>2. QED
    BY <1>0, <2>1, StartingIInv
<1>5. ASSUME NEW c \in Call, NEW r \in Request, SessionHandler(c, r)
      PROVE  IInv'
  <2>1. PICK to \in SessionStatus \ {"none"} : Aiming(c, r, to)
    BY <1>5, HandlerAims
  <2>2. Starting(c, [Idle EXCEPT !.pc = "move", !.req = r, !.to = to])
    BY <2>1 DEF Aiming, Starting, Idle, Holding
  <2>3. QED
    BY <1>0, <2>2, StartingIInv
<1>6. ASSUME NEW c \in Call, AcceptCheck(c) \/ AcceptClaim(c) \/ AcceptCommit(c)
      PROVE  IInv'
  BY <1>0, <1>6, AcceptCheckIInv, AcceptClaimIInv, AcceptCommitIInv
<1>7. ASSUME NEW c \in Call, NEW r \in Request, AcceptRead(c, r)
      PROVE  IInv'
  BY <1>0, <1>7, AcceptReadIInv
<1>8. ASSUME NEW c \in Call, SessionWrite(c)
      PROVE  IInv'
  BY <1>0, <1>8, SessionWriteIInv
<1>9. ASSUME NEW p \in Companion, DeleteAccount(p)
      PROVE  IInv'
  BY <1>0, <1>9, DeleteAccountIInv
<1>10. ASSUME NEW c \in Call, CreateInsert(c) \/ DeclineWrite(c) \/ CounterWrite(c) \/ Fail(c)
       PROVE  IInv'
  BY <1>0, <1>10, QuietSteps, QuietIInv
<1>11. ASSUME NEW r \in Request, NEW w \in Window, Modify(r, w)
       PROVE  IInv'
  BY <1>0, <1>11, QuietSteps, QuietIInv
<1>12. ASSUME NEW r \in Request, PassDeadline(r) \/ PaymentConfirmed(r)
       PROVE  IInv'
  BY <1>0, <1>12, QuietSteps, QuietIInv
<1>13. ASSUME NEW companions, ExpireFor(companions)
       PROVE  IInv'
  BY <1>0, <1>13, QuietSteps, QuietIInv
<1>14. CASE UNCHANGED vars
  BY <1>0, <1>14, QuietSteps, QuietIInv
<1>15. CASE CustomerNext
  BY <1>1, <1>2, <1>10, <1>11, <1>15 DEF CustomerNext
<1>16. CASE CompanionNext
  BY <1>3, <1>4, <1>6, <1>7, <1>10, <1>16 DEF CompanionNext
<1>17. CASE EnvironmentNext
  BY <1>9, <1>10, <1>12, <1>13, <1>17 DEF EnvironmentNext, ExpireOldRequests, GetRequests
<1>18. CASE SessionNext
  BY <1>5, <1>8, <1>18 DEF SessionNext
<1>19. QED
  BY <1>14, <1>15, <1>16, <1>17, <1>18 DEF Next

-------------------------------------------------------------------------------
(* Theorems *)

(* The invariant of the acceptance protocol, which the theorems below rest *)
(* on: the holder of a companion's lock is the only call past its conflict *)
(* check, and what it is about to book is free of live reservations.       *)
THEOREM Invariance == Spec => []IInv
  BY InitIInv, StepIInv, PTL DEF Spec

(* Every variable keeps its type: no handler writes a status the schema    *)
(* does not know, and no call writes to a booking it has not read.         *)
THEOREM TypeCorrect == Spec => []TypeOK
<1>1. IInv => TypeOK
  BY DEF IInv
<1>2. QED
  BY <1>1, Invariance, PTL

(* An accepted request has a session, booked for the range the request     *)
(* shows.                                                                  *)
THEOREM AcceptanceAgrees == Spec => []AcceptedHasSession
<1>1. IInv => AcceptedHasSession
  BY DEF IInv
<1>2. QED
  BY <1>1, Invariance, PTL

(* Only the commit of an acceptance, a session handler's update and the    *)
(* deletion of an account touch the sessions.                              *)
LEMMA SessionsTouched ==
  ASSUME [Next]_vars,
         \A c \in Call : ~AcceptCommit(c) /\ ~SessionWrite(c),
         \A p \in Companion : ~DeleteAccount(p)
  PROVE  UNCHANGED <<session, freed>>
<1>1. CASE UNCHANGED vars
  BY <1>1 DEF vars
<1>2. CASE CustomerNext
  BY <1>2 DEF CustomerNext, CreateCheck, CreateInsert, Modify, AnswerCounter
<1>3. CASE CompanionNext
  BY <1>3 DEF CompanionNext, AcceptRead, AcceptCheck, AcceptClaim, DeclineRead, DeclineWrite,
              CounterRead, CounterWrite
<1>4. CASE EnvironmentNext
  BY <1>4 DEF EnvironmentNext, PassDeadline, ExpireOldRequests, GetRequests, ExpireFor,
              PaymentConfirmed, Fail
<1>5. CASE SessionNext
  BY <1>5, HandlerAims DEF SessionNext, Aiming
<1>6. QED
  BY <1>1, <1>2, <1>3, <1>4, <1>5 DEF Next

(* The commit of an acceptance is a reservation. *)
LEMMA CommitReserves ==
  ASSUME IInv, NEW c \in Call, NEW r, NEW w,
         AcceptCommit(c), r = call[c].req, w = call[c].win
  PROVE  Reservations!Reserve(r, w)
<1>1. r \in Request /\ session[r].win = Null
  BY DEF IInv, CallsComplete, RowsComplete, ClaimHolds, AcceptCommit
<1>2. session' = [session EXCEPT ![r] = [status |-> "upcoming", win |-> w]]
      /\ freed' = freed
  BY DEF AcceptCommit
<1>3. [q \in Request |-> session'[q].win]
         = [[q \in Request |-> session[q].win] EXCEPT ![r] = w]
  BY <1>1, <1>2 DEF IInv, TypeOK
<1>4. Reservations!Available(r, w)
  <2>1. call[c].pc = "commit"
    BY DEF AcceptCommit
  <2>2. QED
    BY <1>1, <2>1
    DEF IInv, CheckedFree, SameCompanion, Overlaps, Reservations!Available, Reservations!Overlaps
<1>5. QED
  BY <1>1, <1>2, <1>3, <1>4 DEF Reservations!Reserve

(* A session handler's update releases the range or leaves the calendar. *)
LEMMA UpdateReleases ==
  ASSUME IInv, NEW c \in Call, NEW r, SessionWrite(c), r = call[c].req
  PROVE  Reservations!Release(r) \/ UNCHANGED Reservations!calendarVars
<1>1. r \in Request /\ session[r].win # Null
  BY DEF IInv, CallsComplete, RowsComplete, SessionWrite
<1>2. [q \in Request |-> session'[q].win] = [q \in Request |-> session[q].win]
  BY <1>1 DEF IInv, TypeOK, SessionRow, SessionWrite
<1>3. freed' = freed \/ freed' = freed \cup {r}
  BY DEF SessionWrite
<1>4. QED
  BY <1>1, <1>2, <1>3 DEF Reservations!Release, Reservations!calendarVars

(* A companion whose account is deleted leaves the calendar. *)
LEMMA DeletionLeaves ==
  ASSUME NEW p \in Companion, DeleteAccount(p)
  PROVE  Reservations!Leave(p)
<1>1. \A r \in Request :
         session'[r].win = IF companionOf[r] = p THEN Null ELSE session[r].win
  BY RowsDeleted DEF NoSession
<1>2. freed' = freed \ Reservations!BookingsOf(p)
  BY DEF DeleteAccount, Reservations!BookingsOf
<1>3. QED
  BY <1>1, <1>2 DEF Reservations!Leave, Reservations!BookingsOf

LEMMA StepRefines ==
  IInv /\ [Next]_vars => [Reservations!CalendarNext]_(Reservations!calendarVars)
<1> SUFFICES ASSUME IInv, [Next]_vars
             PROVE  Reservations!CalendarNext \/ UNCHANGED Reservations!calendarVars
  OBVIOUS
<1>1. ASSUME NEW c \in Call, AcceptCommit(c)
      PROVE  Reservations!CalendarNext
  <2>1. PICK r \in Request, w \in Window : r = call[c].req /\ w = call[c].win
    BY <1>1 DEF IInv, CallsComplete, AcceptCommit, Holding
  <2>2. Reservations!Reserve(r, w)
    BY <1>1, <2>1, CommitReserves
  <2>3. QED
    BY <2>2 DEF Reservations!CalendarNext
<1>2. ASSUME NEW c \in Call, SessionWrite(c)
      PROVE  Reservations!CalendarNext \/ UNCHANGED Reservations!calendarVars
  <2>1. PICK r \in Request : r = call[c].req
    BY <1>2 DEF IInv, CallsComplete, SessionWrite
  <2>2. Reservations!Release(r) \/ UNCHANGED Reservations!calendarVars
    BY <1>2, <2>1, UpdateReleases
  <2>3. QED
    BY <2>2 DEF Reservations!CalendarNext
<1>3. ASSUME NEW p \in Companion, DeleteAccount(p)
      PROVE  Reservations!CalendarNext
  BY <1>3, DeletionLeaves DEF Reservations!CalendarNext
<1>4. ASSUME \A c \in Call : ~AcceptCommit(c) /\ ~SessionWrite(c),
             \A p \in Companion : ~DeleteAccount(p)
      PROVE  UNCHANGED Reservations!calendarVars
  BY <1>4, SessionsTouched DEF Reservations!calendarVars
<1>5. QED
  BY <1>1, <1>2, <1>3, <1>4

(* Whatever the interleaving, the sessions of a companion are handed out   *)
(* as the abstract calendar hands out slots: an acceptance never books     *)
(* over a session that is not over.                                        *)
THEOREM Refinement == Spec => ImplementsCalendar
<1>1. Init => Reservations!CalendarInit
  BY DEF Init, NoSession, Reservations!CalendarInit
<1>2. QED
  BY <1>1, StepRefines, Invariance, PTL DEF Spec, ImplementsCalendar, Reservations!CalendarSpec

(* Two sessions of a companion overlap only when one of them has been      *)
(* completed, cancelled or reported no-show at some time: acceptRequest's  *)
(* "cannot both reserve overlapping time slots", for any number of         *)
(* concurrent handlers.                                                    *)
THEOREM ReservedOnce == Spec => []Reservations!NoDoubleReservation
<1>1. Init => Reservations!NoDoubleReservation
  BY DEF Init, NoSession, Reservations!NoDoubleReservation
<1>2. ASSUME Reservations!NoDoubleReservation,
             [Reservations!CalendarNext]_(Reservations!calendarVars), IInv, IInv'
      PROVE  Reservations!NoDoubleReservation'
  <2>1. CASE UNCHANGED Reservations!calendarVars
    BY <1>2, <2>1 DEF Reservations!NoDoubleReservation, Reservations!calendarVars,
                      Reservations!Overlaps
  <2>2. ASSUME NEW r \in Request, Reservations!Release(r)
        PROVE  Reservations!NoDoubleReservation'
    BY <1>2, <2>2 DEF Reservations!NoDoubleReservation, Reservations!Release,
                      Reservations!Overlaps
  <2>3. ASSUME NEW r \in Request, NEW w \in Window, Reservations!Reserve(r, w)
        PROVE  Reservations!NoDoubleReservation'
    <3>1. /\ freed' = freed
          /\ session'[r].win = w
          /\ \A q \in Request \ {r} : session'[q].win = session[q].win
      <4>1. \A q \in Request :
               [p \in Request |-> session'[p].win][q]
                 = [[p \in Request |-> session[p].win] EXCEPT ![r] = w][q]
        BY <2>3 DEF Reservations!Reserve
      <4>2. QED
        BY <2>3, <4>1 DEF Reservations!Reserve
    <3>2. \A q \in Request :
             ( /\ companionOf[q] = companionOf[r]
               /\ session[q].win # Null
               /\ session[q].win.start < w.end
               /\ session[q].win.end > w.start ) => q \in freed
      BY <2>3 DEF Reservations!Reserve, Reservations!Available, Reservations!Overlaps
    <3>3. w.start \in Nat /\ w.end \in Nat
      BY BookingAssumption
    <3>4. \A q \in Request : session[q].win # Null =>
             session[q].win.start \in Nat /\ session[q].win.end \in Nat
      <4>1. TypeOK
        BY <1>2 DEF IInv
      <4>2. \A q \in Request : session[q].win \in Window \cup {Null}
        BY <4>1 DEF TypeOK, SessionRow, WindowOrNull
      <4>3. QED
        BY <4>2, BookingAssumption
    <3>5. SUFFICES ASSUME NEW a \in Request, NEW b \in Request, a # b,
                          companionOf[a] = companionOf[b],
                          session'[a].win # Null, session'[b].win # Null,
                          session'[a].win.start < session'[b].win.end,
                          session'[a].win.end > session'[b].win.start
                   PROVE  a \in freed' \/ b \in freed'
      BY DEF Reservations!NoDoubleReservation, Reservations!Overlaps
    <3>6. CASE a # r /\ b # r
      BY <1>2, <3>1, <3>5, <3>6 DEF Reservations!NoDoubleReservation, Reservations!Overlaps
    <3>7. CASE a = r
      BY <3>1, <3>2, <3>3, <3>4, <3>5, <3>7
    <3>8. CASE b = r
      BY <3>1, <3>2, <3>3, <3>4, <3>5, <3>8
    <3>9. QED
      BY <3>6, <3>7, <3>8
  <2>4. ASSUME NEW p \in Companion, Reservations!Leave(p)
        PROVE  Reservations!NoDoubleReservation'
    <3>1. \A r \in Request :
             session'[r].win = IF r \in Reservations!BookingsOf(p) THEN Null ELSE session[r].win
      <4>1. \A r \in Request :
               [q \in Request |-> session'[q].win][r]
                 = [q \in Request |-> IF q \in Reservations!BookingsOf(p)
                                        THEN Null ELSE [o \in Request |-> session[o].win][q]][r]
        BY <2>4 DEF Reservations!Leave
      <4>2. QED
        BY <4>1
    <3>2. \A r \in freed : r \in freed' \/ r \in Reservations!BookingsOf(p)
      BY <2>4 DEF Reservations!Leave
    <3>3. \A r \in Request : session'[r].win # Null =>
             session'[r].win = session[r].win /\ (r \in freed => r \in freed')
      BY <3>1, <3>2
    <3>4. QED
      BY <1>2, <3>3 DEF Reservations!NoDoubleReservation, Reservations!Overlaps
  <2>5. QED
    BY <1>2, <2>1, <2>2, <2>3, <2>4 DEF Reservations!CalendarNext
<1>3. QED
  BY <1>1, <1>2, StepRefines, Invariance, PTL DEF Spec

-------------------------------------------------------------------------------
(* Sessions that are over *)

(* A booking enters freed with a session that is over at that time.        *)
LEMMA FreedGrows ==
  ASSUME IInv, [Next]_vars, NEW r \in freed'
  PROVE  r \in freed \/ session'[r].status \in Closed
<1>1. ASSUME NEW c \in Call, SessionWrite(c)
      PROVE  r \in freed \/ session'[r].status \in Closed
  BY <1>1 DEF IInv, TypeOK, SessionRow, CallsComplete, SessionWrite
<1>2. ASSUME NEW c \in Call, AcceptCommit(c)
      PROVE  r \in freed
  BY <1>2 DEF AcceptCommit
<1>3. ASSUME NEW p \in Companion, DeleteAccount(p)
      PROVE  r \in freed
  BY <1>3 DEF DeleteAccount
<1>4. QED
  BY <1>1, <1>2, <1>3, SessionsTouched

(* Only the deletion of an account makes a companion leave, and with it    *)
(* the rows of the companion's bookings.                                   *)
LEMMA LeavesByDeletion ==
  ASSUME [Next]_vars, NEW p, Leaves(p)
  PROVE  p \in Companion /\ DeleteAccount(p)
<1>1. ASSUME gone' = gone
      PROVE  FALSE
  BY <1>1 DEF Leaves
<1>2. CASE UNCHANGED vars
  BY <1>1, <1>2 DEF vars
<1>3. CASE CustomerNext
  BY <1>1, <1>3 DEF CustomerNext, CreateCheck, CreateInsert, Modify, AnswerCounter
<1>4. CASE CompanionNext
  BY <1>1, <1>4 DEF CompanionNext, AcceptRead, AcceptCheck, AcceptClaim, AcceptCommit, DeclineRead,
                    DeclineWrite, CounterRead, CounterWrite
<1>5. CASE EnvironmentNext
  <2>1. ASSUME NEW q \in Companion, DeleteAccount(q)
        PROVE  p \in Companion /\ DeleteAccount(p)
    BY <2>1 DEF Leaves, DeleteAccount
  <2>2. QED
    BY <1>1, <1>5, <2>1 DEF EnvironmentNext, PassDeadline, ExpireOldRequests, GetRequests,
                            ExpireFor, PaymentConfirmed, Fail
<1>6. CASE SessionNext
  BY <1>1, <1>6, HandlerAims DEF SessionNext, Aiming, SessionWrite
<1>7. QED
  BY <1>2, <1>3, <1>4, <1>5, <1>6 DEF Next

LEMMA LeavesNothing ==
  ASSUME IInv, [Next]_vars, NEW r \in freed'
  PROVE  ~Leaves(companionOf[r])
<1> SUFFICES ASSUME Leaves(companionOf[r])
             PROVE  FALSE
  OBVIOUS
<1>1. DeleteAccount(companionOf[r])
  BY LeavesByDeletion
<1>2. QED
  BY <1>1 DEF IInv, TypeOK, DeleteAccount

(* As long as no session that is over is written back, freed holds them.   *)
FreedClosed == \A r \in freed : session[r].status \in Closed

LEMMA NotRevived ==
  ASSUME IInv, FreedClosed, Reservations!NoDoubleReservation
  PROVE  NoDoubleBooking
<1> SUFFICES ASSUME NEW r \in Request, NEW q \in Request, r # q, SameCompanion(r, q),
                    session[r].status \notin Closed \cup {"none"},
                    session[q].status \notin Closed \cup {"none"},
                    Overlaps(session[r].win, session[q].win)
             PROVE  FALSE
  BY DEF NoDoubleBooking
<1>1. session[r].win # Null /\ session[q].win # Null
  BY DEF IInv, RowsComplete
<1>2. r \in freed \/ q \in freed
  BY <1>1 DEF Reservations!NoDoubleReservation, SameCompanion, Overlaps, Reservations!Overlaps
<1>3. QED
  BY <1>2 DEF FreedClosed

(* A companion is booked twice for one time only after a session that was  *)
(* over was written back to a status that is not: as long as no handler    *)
(* does so, no interleaving of acceptances with anything else leads to it. *)
THEOREM DoubleBookingNeedsRevival == Spec /\ ClosedStaysClosed => []NoDoubleBooking
<1>1. Init => FreedClosed
  BY DEF Init, FreedClosed
<1>2. /\ IInv /\ FreedClosed /\ [Next]_vars
      /\ [\A r \in Request :
             session[r].status \in Closed =>
                 session'[r].status \in Closed \/ Leaves(companionOf[r])]_vars
      => FreedClosed'
  <2> SUFFICES ASSUME IInv, FreedClosed, [Next]_vars,
                      [\A r \in Request :
                         session[r].status \in Closed =>
                             session'[r].status \in Closed \/ Leaves(companionOf[r])]_vars
               PROVE  FreedClosed'
    OBVIOUS
  <2>1. CASE UNCHANGED vars
    BY <2>1 DEF vars, FreedClosed
  <2>2. CASE \A r \in Request :
                session[r].status \in Closed =>
                    session'[r].status \in Closed \/ Leaves(companionOf[r])
    <3>1. freed \subseteq Request
      BY DEF IInv, TypeOK
    <3>2. \A r \in freed' : ~Leaves(companionOf[r])
      BY LeavesNothing
    <3>3. QED
      BY <2>2, <3>1, <3>2, FreedGrows DEF FreedClosed
  <2>3. QED
    BY <2>1, <2>2
<1>3. QED
  BY <1>1, <1>2, ReservedOnce, Invariance, NotRevived, PTL DEF Spec, ClosedStaysClosed

-------------------------------------------------------------------------------
(* One call at a time *)

Decided == {"accepted", "declined"}

(* What a handler read still holds when it writes: a session that is over  *)
(* is left over, and only undecided requests are declined or countered.    *)
ReadsHold ==
    \A c \in Call :
        /\ call[c].pc = "move" /\ session[call[c].req].status \in Closed => call[c].to \in Closed
        /\ call[c].pc \in {"decline", "counter"} => request[call[c].req].status \notin Decided
        /\ call[c].pc = "commit" => \A q \in call[c].rivals : request[q].status \notin Decided

Serial == \A c, d \in Call : c = d

LEMMA StepReadsHold ==
  ASSUME Serial, IInv, ReadsHold, [Next]_vars
  PROVE  ReadsHold'
<1>0. call \in [Call -> CallRow] /\ request \in [Request -> RequestRow]
  BY DEF IInv, TypeOK
<1>1. ASSUME NEW c \in Call, call'[c].pc \notin {"move", "decline", "counter", "commit"}
      PROVE  ReadsHold'
  BY <1>1 DEF ReadsHold, Serial
<1>2. ASSUME NEW c \in Call, End(c)
      PROVE  ReadsHold'
  <2>1. call'[c].pc = "idle"
    BY <1>0, <1>2 DEF End, Idle
  <2>2. QED
    BY <1>1, <2>1
<1>3. ASSUME NEW c \in Call,
             \/ CreateInsert(c) \/ AcceptCommit(c) \/ DeclineWrite(c) \/ CounterWrite(c)
             \/ SessionWrite(c) \/ Fail(c)
      PROVE  ReadsHold'
  BY <1>2, <1>3 DEF CreateInsert, AcceptCommit, DeclineWrite, CounterWrite, SessionWrite, Fail
<1>4. ASSUME NEW c \in Call, NEW r \in Request,
             \/ \E w \in Window : CreateCheck(c, r, w)
             \/ \E answer \in {"answer_accept", "answer_decline"} : AnswerCounter(c, r, answer)
             \/ AcceptRead(c, r)
      PROVE  ReadsHold'
  <2>1. call'[c].pc \in {"insert", "answer_accept", "answer_decline", "check"}
    BY <1>0, <1>4 DEF CreateCheck, AnswerCounter, AcceptRead, Begin, Idle
  <2>2. QED
    BY <1>1, <2>1
<1>5. ASSUME NEW c \in Call, AcceptCheck(c)
      PROVE  ReadsHold'
  <2>1. call'[c].pc = "claim"
    BY <1>0, <1>5 DEF AcceptCheck, Begin, CallRow
  <2>2. QED
    BY <1>1, <2>1
<1>6. ASSUME NEW c \in Call, AcceptClaim(c)
      PROVE  ReadsHold'
  <2>1. /\ call'[c].pc = "commit" /\ request' = request
        /\ call'[c].rivals = Rivals(call[c].req, call[c].win)
    BY <1>0, <1>6 DEF AcceptClaim, Begin, CallRow
  <2>2. \A q \in call'[c].rivals : request'[q].status \notin Decided
    BY <2>1 DEF Rivals, Open, Decided
  <2>3. QED
    BY <2>1, <2>2 DEF ReadsHold, Serial
<1>7. ASSUME NEW c \in Call, NEW r \in Request,
             DeclineRead(c, r) \/ \E w \in Window : CounterRead(c, r, w)
      PROVE  ReadsHold'
  <2>1. call'[c].pc \in {"decline", "counter"} /\ call'[c].req = r /\ request' = request
    BY <1>0, <1>7 DEF DeclineRead, CounterRead, Begin, Idle
  <2>2. request'[r].status \notin Decided
    BY <1>7, <2>1 DEF DeclineRead, CounterRead, Open, Decided
  <2>3. QED
    BY <2>1, <2>2 DEF ReadsHold, Serial
<1>8. ASSUME NEW c \in Call, NEW r \in Request, SessionHandler(c, r)
      PROVE  ReadsHold'
  <2>1. PICK to \in SessionStatus \ {"none"} : Aiming(c, r, to)
    BY <1>8, HandlerAims
  <2>2. call'[c].pc = "move" /\ call'[c].req = r /\ call'[c].to = to /\ session' = session
    BY <1>0, <2>1 DEF Aiming, Begin, Idle
  <2>3. session'[r].status \in Closed => to \in Closed
    BY <2>1, <2>2 DEF Aiming
  <2>4. QED
    BY <2>2, <2>3 DEF ReadsHold, Serial
<1>9. ASSUME session' = session, call' = call,
             \A q \in Request : \/ request'[q].status = request[q].status
                                \/ request'[q].status \notin Decided
      PROVE  ReadsHold'
  <2>1. \A c \in Call : call[c].rivals \subseteq Request
    BY <1>0 DEF CallRow
  <2>2. \A c \in Call : call[c].pc \in {"decline", "counter"} => call[c].req \in Request
    BY DEF IInv, CallsComplete
  <2>3. QED
    BY <1>9, <2>1, <2>2 DEF ReadsHold
<1>10. ASSUME NEW r \in Request, PassDeadline(r) \/ PaymentConfirmed(r)
       PROVE  ReadsHold'
  <2>1. session' = session /\ call' = call
    BY <1>10 DEF PassDeadline, PaymentConfirmed
  <2>2. \A q \in Request : request'[q].status \in {request[q].status, "pending"}
    BY <1>0, <1>10 DEF PassDeadline, PaymentConfirmed, RequestRow
  <2>3. QED
    BY <1>9, <2>1, <2>2 DEF Decided
<1>11. ASSUME NEW r \in Request, NEW w \in Window, Modify(r, w)
       PROVE  ReadsHold'
  <2>1. session' = session /\ call' = call
    BY <1>11 DEF Modify
  <2>2. \A q \in Request : request'[q].status = request[q].status
    BY <1>0, <1>11 DEF Modify, RequestRow
  <2>3. QED
    BY <1>9, <2>1, <2>2
<1>12. ASSUME NEW companions, ExpireFor(companions)
       PROVE  ReadsHold'
  <2>1. session' = session /\ call' = call
    BY <1>12 DEF ExpireFor
  <2>2. \A q \in Request : request'[q].status \in {request[q].status, "expired"}
    BY <1>0, <1>12 DEF ExpireFor, RequestRow
  <2>3. QED
    BY <1>9, <2>1, <2>2 DEF Decided
<1>13. ASSUME NEW p \in Companion, DeleteAccount(p)
       PROVE  ReadsHold'
  <2>1. call' = call
    BY <1>13 DEF DeleteAccount
  <2>2. \A q \in Request :
           /\ request'[q].status = request[q].status \/ request'[q].status \notin Decided
           /\ session'[q].status = session[q].status \/ session'[q].status \notin Closed
    BY <1>13, RowsDeleted DEF NoRequest, NoSession, Decided, Closed
  <2>3. \A c \in Call : call[c].rivals \subseteq Request
    BY <1>0 DEF CallRow
  <2>4. \A c \in Call : call[c].pc \in {"move", "decline", "counter"} => call[c].req \in Request
    BY DEF IInv, CallsComplete
  <2>5. QED
    BY <2>1, <2>2, <2>3, <2>4 DEF ReadsHold
<1>14. CASE UNCHANGED vars
  BY <1>9, <1>14 DEF vars
<1>15. QED
  BY <1>3, <1>4, <1>5, <1>6, <1>7, <1>8, <1>10, <1>11, <1>12, <1>13, <1>14
  DEF Next, CustomerNext, CompanionNext, EnvironmentNext, SessionNext, ExpireOldRequests,
      GetRequests

LEMMA InitReadsHold == Init => ReadsHold
  BY DEF Init, ReadsHold, Idle

(* A step that writes what was read leaves a session that is over so,      *)
(* unless it deletes the account.                                          *)
LEMMA StaysClosed ==
  ASSUME IInv, ReadsHold, [Next]_vars, NEW r \in Request, session[r].status \in Closed
  PROVE  session'[r].status \in Closed \/ Leaves(companionOf[r])
<1>1. ASSUME NEW c \in Call, SessionWrite(c)
      PROVE  session'[r].status \in Closed
  <2>1. CASE r = call[c].req
    <3>1. call[c].to \in Closed
      BY <1>1, <2>1 DEF ReadsHold, SessionWrite
    <3>2. session'[r].status = call[c].to
      BY <1>1, <2>1 DEF IInv, TypeOK, SessionRow, SessionWrite
    <3>3. QED
      BY <3>1, <3>2
  <2>2. CASE r # call[c].req
    BY <1>1, <2>2 DEF IInv, TypeOK, SessionWrite
  <2>3. QED
    BY <2>1, <2>2
<1>2. ASSUME NEW c \in Call, AcceptCommit(c)
      PROVE  session'[r].status \in Closed
  <2>1. r # call[c].req
    BY <1>2 DEF IInv, ClaimHolds, AcceptCommit, Closed
  <2>2. QED
    BY <1>2, <2>1 DEF IInv, TypeOK, AcceptCommit
<1>3. ASSUME NEW p \in Companion, DeleteAccount(p)
      PROVE  session'[r].status \in Closed \/ Leaves(companionOf[r])
  BY <1>3, RowsDeleted DEF DeleteAccount, Leaves
<1>4. QED
  BY <1>1, <1>2, <1>3, SessionsTouched

(* When handlers do not overlap, what they read holds until they write.    *)
THEOREM SerialReadsHold == ASSUME Serial PROVE Spec => []ReadsHold
<1>1. IInv /\ ReadsHold /\ [Next]_vars => ReadsHold'
  BY StepReadsHold
<1>2. QED
  BY <1>1, InitReadsHold, Invariance, PTL DEF Spec

(* When handlers do not overlap, a session that is over stays over, as     *)
(* long as the companion has an account, ...                               *)
THEOREM SerialClosedStays == ASSUME Serial PROVE Spec => ClosedStaysClosed
<1>1. IInv /\ ReadsHold /\ [Next]_vars =>
        [\A r \in Request :
            session[r].status \in Closed =>
                session'[r].status \in Closed \/ Leaves(companionOf[r])]_vars
  BY StaysClosed
<1>2. QED
  BY <1>1, SerialReadsHold, Invariance, PTL DEF Spec, ClosedStaysClosed

(* ... so no companion is booked twice for one time, whatever the          *)
(* customers, the payments, the clock and the crashes do between calls.    *)
THEOREM SerialNoDoubleBooking == ASSUME Serial PROVE Spec => []NoDoubleBooking
  BY SerialClosedStays, DoubleBookingNeedsRevival, PTL

-------------------------------------------------------------------------------
(* What a step does to a request row *)

(* A request's row after a step, by the statement that wrote it. *)
RowStep(r) ==
    LET old == request[r]
        new == request'[r]
    IN \/ new = old
       \/ /\ old.status = "none"                         \* created
          /\ new.status = "pending"
       \/ /\ old.status = "pending"                      \* modified
          /\ new.status = "pending"
       \/ /\ old.status \in Open                         \* accepted
          /\ session[r].status = "none"
          /\ new.status = "accepted"
       \/ /\ new.proposed = old.proposed                 \* declined or countered
          /\ new.status \in {"declined", "counter_proposed"}
          /\ ReadsHold => old.status \notin Decided
       \/ /\ old.status = "pending"                      \* expired
          /\ r \in overdue
          /\ new.proposed = old.proposed
          /\ new.status = "expired"
       \/ /\ r \in Payable                               \* paid
          /\ new.proposed = old.proposed
          /\ new.status = "pending"
       \/ /\ new.status = "none"                         \* deleted
          /\ Leaves(companionOf[r])

LEMMA EveryRowStep ==
  ASSUME IInv, [Next]_vars, NEW r \in Request
  PROVE  RowStep(r)
<1>1. CASE request' = request
  BY <1>1 DEF RowStep
<1>2. ASSUME NEW c \in Call, CreateInsert(c)
      PROVE  RowStep(r)
  BY <1>2 DEF IInv, TypeOK, CreateInsert, RowStep
<1>3. ASSUME NEW q \in Request, NEW w \in Window, Modify(q, w)
      PROVE  RowStep(r)
  <2>1. CASE q # r
    BY <1>3, <2>1 DEF IInv, TypeOK, Modify, RowStep
  <2>2. CASE q = r
    BY <1>3, <2>2 DEF IInv, TypeOK, RequestRow, Modify, RowStep
  <2>3. QED
    BY <2>1, <2>2
<1>4. ASSUME NEW c \in Call, AcceptCommit(c)
      PROVE  RowStep(r)
  <2>1. CASE r = call[c].req
    <3>1. request'[r].status = "accepted"
      BY <1>4, <2>1 DEF IInv, TypeOK, RequestRow, AcceptCommit
    <3>2. request[r].status \in Open /\ session[r].status = "none"
      BY <1>4, <2>1 DEF IInv, LockHeld, ClaimHolds, AcceptCommit, Holding
    <3>3. QED
      BY <3>1, <3>2 DEF RowStep
  <2>2. CASE r # call[c].req
    <3>1. request'[r] = request[r] \/ request'[r] = [request[r] EXCEPT !.status = "declined"]
      BY <1>4, <2>2 DEF AcceptCommit
    <3>2. request'[r] # request[r] /\ ReadsHold => request[r].status \notin Decided
      BY <1>4, <2>2 DEF AcceptCommit, ReadsHold
    <3>3. QED
      BY <3>1, <3>2 DEF IInv, TypeOK, RequestRow, RowStep
  <2>3. QED
    BY <2>1, <2>2
<1>5. ASSUME NEW c \in Call, DeclineWrite(c)
      PROVE  RowStep(r)
  <2>1. request'[r] = request[r] \/ request'[r] = [request[r] EXCEPT !.status = "declined"]
    BY <1>5 DEF IInv, TypeOK, DeclineWrite
  <2>2. request'[r] # request[r] /\ ReadsHold => request[r].status \notin Decided
    BY <1>5 DEF IInv, TypeOK, DeclineWrite, ReadsHold
  <2>3. QED
    BY <2>1, <2>2 DEF IInv, TypeOK, RequestRow, RowStep
<1>6. ASSUME NEW c \in Call, CounterWrite(c)
      PROVE  RowStep(r)
  <2>1. /\ request'[r].proposed = request[r].proposed
        /\ request'[r] = request[r] \/ request'[r].status = "counter_proposed"
    BY <1>6 DEF IInv, TypeOK, RequestRow, CounterWrite
  <2>2. request'[r] # request[r] /\ ReadsHold => request[r].status \notin Decided
    BY <1>6 DEF IInv, TypeOK, CounterWrite, ReadsHold
  <2>3. QED
    BY <2>1, <2>2 DEF RowStep
<1>7. ASSUME NEW companions, ExpireFor(companions)
      PROVE  RowStep(r)
  <2>1. \/ request'[r] = request[r]
        \/ /\ request[r].status = "pending" /\ r \in overdue
           /\ request'[r] = [request[r] EXCEPT !.status = "expired"]
    BY <1>7 DEF ExpireFor
  <2>2. QED
    BY <2>1 DEF IInv, TypeOK, RequestRow, RowStep
<1>8. ASSUME NEW q \in Request, PaymentConfirmed(q)
      PROVE  RowStep(r)
  <2>1. \/ request'[r] = request[r]
        \/ r \in Payable /\ request'[r] = [request[r] EXCEPT !.status = "pending"]
    BY <1>8 DEF IInv, TypeOK, PaymentConfirmed
  <2>2. QED
    BY <2>1 DEF IInv, TypeOK, RequestRow, RowStep
<1>9. ASSUME \/ UNCHANGED vars
             \/ \E c \in Call : Fail(c) \/ AcceptCheck(c) \/ AcceptClaim(c) \/ SessionWrite(c)
             \/ \E c \in Call, q \in Request :
                   AcceptRead(c, q) \/ DeclineRead(c, q) \/ SessionHandler(c, q)
             \/ \E c \in Call, q \in Request, w \in Window :
                   CreateCheck(c, q, w) \/ CounterRead(c, q, w)
             \/ \E c \in Call, q \in Request, answer \in {"answer_accept", "answer_decline"} :
                   AnswerCounter(c, q, answer)
             \/ \E q \in Request : PassDeadline(q)
      PROVE  request' = request
  BY <1>9, HandlerAims
  DEF vars, Fail, AcceptCheck, AcceptClaim, SessionWrite, AcceptRead, DeclineRead, Aiming,
      CreateCheck, CounterRead, AnswerCounter, PassDeadline
<1>10. ASSUME NEW p \in Companion, DeleteAccount(p)
       PROVE  RowStep(r)
  <2>1. CASE companionOf[r] = p
    BY <1>10, <2>1, RowsDeleted DEF DeleteAccount, NoRequest, Leaves, RowStep
  <2>2. CASE companionOf[r] # p
    BY <1>10, <2>2, RowsDeleted DEF RowStep
  <2>3. QED
    BY <2>1, <2>2
<1>11. QED
  BY <1>1, <1>2, <1>3, <1>4, <1>5, <1>6, <1>7, <1>8, <1>9, <1>10
  DEF Next, CustomerNext, CompanionNext, EnvironmentNext, SessionNext, ExpireOldRequests,
      GetRequests

(* The status edges of a request, whatever handlers interleave: a row goes *)
(* only with its companion's account, only an open request without a       *)
(* session is accepted, only a pending one past its deadline expires, and  *)
(* only a payment reopens a handled one.                                   *)
THEOREM Edges == Spec => DecisionEdges
<1>1. IInv /\ [Next]_vars =>
        [\A r \in Request :
            LET old == request[r].status
                new == request'[r].status
            IN old # new =>
                /\ new = "none" => Leaves(companionOf[r])
                /\ new = "accepted" => old \in Open /\ session[r].status = "none"
                /\ new = "expired"  => old = "pending" /\ r \in overdue
                /\ new = "pending"  => old = "none" \/ r \in Payable]_vars
  BY EveryRowStep DEF RowStep
<1>2. QED
  BY <1>1, Invariance, PTL DEF Spec, DecisionEdges

(* A handled request keeps the range it was handled with as long as its    *)
(* row is there.                                                           *)
THEOREM TermsFrozen == Spec => HandledTermsFrozen
<1>1. IInv /\ [Next]_vars =>
        [\A r \in Request :
            request[r].status \in {"accepted", "declined", "expired"} =>
                \/ request'[r].proposed = request[r].proposed
                \/ Leaves(companionOf[r])]_vars
  BY EveryRowStep DEF RowStep, Open
<1>2. QED
  BY <1>1, Invariance, PTL DEF Spec, HandledTermsFrozen

(* When handlers do not overlap, a request that was accepted or declined   *)
(* stays so unless it is paid for or goes with the companion's account.    *)
THEOREM SerialDecidedStays == ASSUME Serial PROVE Spec => DecidedStays
<1>1. IInv /\ ReadsHold /\ [Next]_vars =>
        [\A r \in Request \ Payable :
            request[r].status \in {"accepted", "declined"} =>
                request'[r].status = request[r].status \/ Leaves(companionOf[r])]_vars
  BY EveryRowStep DEF RowStep, Open, Decided
<1>2. QED
  BY <1>1, SerialReadsHold, Invariance, PTL DEF Spec, DecidedStays

===============================================================================
