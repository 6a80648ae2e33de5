-------------------------------- MODULE Booking --------------------------------
(***************************************************************************)
(* Booking requests, the sessions they become and the payment events that  *)
(* touch them: requests.service.ts, request-simulator.service.ts, the      *)
(* status handlers of sessions.service.ts, the session completion of       *)
(* internal.service.ts, the booking side of payments.service.ts, and the   *)
(* deletion of a companion's account (settings.service.ts).                *)
(*                                                                         *)
(* A handler runs as a call: one action for every database statement whose *)
(* result a later statement relies on.  Between two statements other calls *)
(* run, on this server or on another.  A transaction is READ COMMITTED     *)
(* (PostgreSQL's default): it sees what was committed before each          *)
(* statement, and a row it has updated stays locked until it commits.      *)
(***************************************************************************)
EXTENDS Naturals

CONSTANTS
    Companion,      \* companions
    Request,        \* bookings, by bookingId (the primary key of booking_requests)
    Call,           \* handler invocations that may be in progress at once
    Window,         \* time ranges [start, end] the parties may propose
    companionOf,    \* the companion a booking is addressed to
    Payable,        \* bookings the customer pays for through Razorpay
    Handler,        \* session handlers in use, by their name in the code
    Null            \* no value

ASSUME BookingAssumption ==
    /\ Window \subseteq [start : Nat, end : Nat]
    /\ companionOf \in [Request -> Companion]
    /\ Payable \subseteq Request
    /\ Null \notin Request \cup Window \cup Call

VARIABLES
    request,    \* booking_requests: status, proposed range, counter-proposed range
    overdue,    \* requests whose expiresAt has passed
    session,    \* sessions, by requestId (unique): status and scheduled range
    freed,      \* history: bookings whose session was once completed, cancelled or no_show
    lock,       \* pg_advisory_xact_lock(companion): the call that holds it
    call,       \* calls in progress
    gone        \* companions whose account has been deleted

vars == <<request, overdue, session, freed, lock, call, gone>>

-------------------------------------------------------------------------------
(* Types *)

RequestStatus == {"none", "pending", "accepted", "declined", "expired", "counter_proposed"}

Open == {"pending", "counter_proposed"}

SessionStatus == {"none", "upcoming", "pre_arrival", "checked_in", "active", "extending",
                  "completed", "cancelled", "no_show", "disputed"}

(* Statuses under which a session no longer blocks the calendar at acceptance. *)
Closed == {"completed", "cancelled", "no_show"}

(* Statuses under which a session blocks a new booking request. *)
Blocking == {"upcoming", "pre_arrival", "checked_in", "active", "extending"}

ValidTransitions ==
    [ none        |-> {},
      upcoming    |-> {"pre_arrival", "cancelled", "no_show", "checked_in", "active", "completed"},
      pre_arrival |-> {"checked_in", "cancelled", "no_show", "active", "completed"},
      checked_in  |-> {"checked_in", "active", "cancelled", "extending", "completed"},
      active      |-> {"active", "extending", "completed", "disputed", "cancelled"},
      extending   |-> {"active", "completed", "disputed", "cancelled"},
      completed   |-> {"completed"},
      cancelled   |-> {"cancelled"},
      no_show     |-> {"no_show"},
      disputed    |-> {"disputed"} ]

MayBecome(to) == {s \in SessionStatus : to \in ValidTransitions[s]}

WindowOrNull == Window \cup {Null}

RequestRow == [status : RequestStatus, proposed : WindowOrNull, counter : WindowOrNull]

SessionRow == [status : SessionStatus, win : WindowOrNull]

NoRequest == [status |-> "none", proposed |-> Null, counter |-> Null]

NoSession == [status |-> "none", win |-> Null]

(* Where a call stands: the statement it runs next. *)
Step == {"idle", "insert", "answer_accept", "answer_decline", "check", "claim", "commit",
         "decline", "counter", "move"}

(* What a call has read and still relies on. *)
CallRow == [ pc     : Step,
             req    : Request \cup {Null},
             seen   : RequestStatus,        \* request status when it was read
             win    : WindowOrNull,         \* range it is about to write
             to     : SessionStatus,        \* session status it is about to write
             rivals : SUBSET Request ]      \* competing requests it is about to decline

Idle == [pc |-> "idle", req |-> Null, seen |-> "none", win |-> Null, to |-> "none",
         rivals |-> {}]

TypeOK ==
    /\ request \in [Request -> RequestRow]
    /\ overdue \in SUBSET Request
    /\ session \in [Request -> SessionRow]
    /\ freed \in SUBSET Request
    /\ lock \in [Companion -> Call \cup {Null}]
    /\ call \in [Call -> CallRow]
    /\ gone \in SUBSET Companion

Init ==
    /\ request = [r \in Request |-> NoRequest]
    /\ overdue = {}
    /\ session = [r \in Request |-> NoSession]
    /\ freed = {}
    /\ lock = [p \in Companion |-> Null]
    /\ call = [c \in Call |-> Idle]
    /\ gone = {}

-------------------------------------------------------------------------------
(* Queries *)

Overlaps(a, b) == a.start < b.end /\ a.end > b.start

SameCompanion(r, q) == companionOf[r] = companionOf[q]

(* Faulty: only sessions still upcoming are looked for. *)
ConflictWithUpcoming(r, w) ==
    \E q \in Request :
        /\ SameCompanion(q, r)
        /\ session[q].status = "upcoming"
        /\ Overlaps(session[q].win, w)

(* A session of r's companion that the acceptance query reports for range w. *)
Conflict(r, w) ==
    \E q \in Request :
        /\ SameCompanion(q, r)
        /\ session[q].status \notin Closed \cup {"none"}
        /\ Overlaps(session[q].win, w)

(* The two checks of createInternalRequest for a booking of range w. *)
SlotTaken(r, w) ==
    \E q \in Request :
        /\ SameCompanion(q, r)
        /\ \/ /\ session[q].status \in Blocking
              /\ Overlaps(session[q].win, w)
           \/ /\ request[q].status = "pending"
              /\ q \notin overdue
              /\ Overlaps(request[q].proposed, w)

(* Open requests of the same companion whose proposed range overlaps w.  A *)
(* counter-proposed range is not looked at.                                *)
Rivals(r, w) ==
    {q \in Request \ {r} :
        /\ SameCompanion(q, r)
        /\ request[q].status \in Open
        /\ Overlaps(request[q].proposed, w)}

(* The range an acceptance books: the counter-offer if one is open. *)
AgreedWindow(r) ==
    IF request[r].status = "counter_proposed" /\ request[r].counter # Null
      THEN request[r].counter
      ELSE request[r].proposed

(* An acceptance has updated row r and not committed: other writers wait. *)
RowLocked(r) == \E c \in Call : call[c].pc = "commit" /\ call[c].req = r

Begin(c, row) == call' = [call EXCEPT ![c] = row]

End(c) == call' = [call EXCEPT ![c] = Idle]

-------------------------------------------------------------------------------
(* Customer backend: create, modify, answer a counter-offer *)

(* createInternalRequest up to its transaction: existing bookings return   *)
(* early, and both overlap checks run outside the transaction.             *)
CreateCheck(c, r, w) ==
    /\ call[c].pc = "idle"
    /\ w.start < w.end
    /\ companionOf[r] \notin gone
    /\ request[r].status = "none"
    /\ ~SlotTaken(r, w)
    /\ Begin(c, [Idle EXCEPT !.pc = "insert", !.req = r, !.win = w])
    /\ UNCHANGED <<request, overdue, session, freed, lock, gone>>

(* Faulty: a repeated create overwrites the row. *)
CreateUpsert(c) ==
    LET r == call[c].req IN
    /\ call[c].pc = "insert"
    /\ request' = [request EXCEPT ![r] = [status   |-> "pending",
                                         proposed |-> call[c].win,
                                         counter  |-> Null]]
    /\ End(c)
    /\ UNCHANGED <<overdue, session, freed, lock, gone>>

(* The transaction that inserts the row; the primary key refuses a second, *)
(* the foreign key one without a companion.                                *)
CreateInsert(c) ==
    LET r == call[c].req IN
    /\ call[c].pc = "insert"
    /\ request' =
          IF request[r].status = "none" /\ companionOf[r] \notin gone
            THEN [request EXCEPT ![r] = [status   |-> "pending",
                                         proposed |-> call[c].win,
                                         counter  |-> Null]]
            ELSE request
    /\ End(c)
    /\ UNCHANGED <<overdue, session, freed, lock, gone>>

(* Faulty: the status is not part of the update's condition. *)
ModifyAnyStatus(r, w) ==
    /\ w.start < w.end
    /\ request[r].status # "none"
    /\ r \notin overdue
    /\ ~RowLocked(r)
    /\ request' = [request EXCEPT ![r].proposed = w]
    /\ UNCHANGED <<overdue, session, freed, lock, call, gone>>

(* modifyInternalRequest: one guarded updateMany. *)
Modify(r, w) ==
    /\ w.start < w.end
    /\ request[r].status = "pending"
    /\ r \notin overdue
    /\ ~RowLocked(r)
    /\ request' = [request EXCEPT ![r].proposed = w]
    /\ UNCHANGED <<overdue, session, freed, lock, call, gone>>

(* respondToCustomerCounterOffer: its own read, before the handler it calls. *)
AnswerCounter(c, r, answer) ==
    /\ call[c].pc = "idle"
    /\ request[r].status = "counter_proposed"
    /\ r \notin overdue
    /\ Begin(c, [Idle EXCEPT !.pc = answer, !.req = r])
    /\ UNCHANGED <<request, overdue, session, freed, lock, gone>>

(* Call c starts on request r, or goes on with it after AnswerCounter. *)
Entering(c, r, answer) ==
    \/ call[c].pc = "idle"
    \/ call[c].pc = answer /\ call[c].req = r

-------------------------------------------------------------------------------
(* Companion: accept, decline, counter-propose *)

(* Faulty: the companion's lock is not taken. *)
AcceptReadUnserialized(c, r) ==
    /\ Entering(c, r, "answer_accept")
    /\ request[r].status \in Open
    /\ r \notin overdue
    /\ Begin(c, [Idle EXCEPT !.pc = "check", !.req = r, !.seen = request[r].status,
                             !.win = AgreedWindow(r)])
    /\ UNCHANGED <<request, overdue, session, freed, lock, gone>>

(* acceptRequest: take the companion's advisory lock, read the request. *)
AcceptRead(c, r) ==
    /\ Entering(c, r, "answer_accept")
    /\ lock[companionOf[r]] = Null
    /\ request[r].status \in Open
    /\ r \notin overdue
    /\ lock' = [lock EXCEPT ![companionOf[r]] = c]
    /\ Begin(c, [Idle EXCEPT !.pc = "check", !.req = r, !.seen = request[r].status,
                             !.win = AgreedWindow(r)])
    /\ UNCHANGED <<request, overdue, session, freed, gone>>

(* acceptRequest: no session of the companion may overlap the agreed range. *)
AcceptCheck(c) ==
    /\ call[c].pc = "check"
    /\ ~Conflict(call[c].req, call[c].win)
    /\ Begin(c, [call[c] EXCEPT !.pc = "claim"])
    /\ UNCHANGED <<request, overdue, session, freed, lock, gone>>

(* Faulty: the row is claimed whatever its status has become. *)
AcceptClaimBlind(c) ==
    LET r == call[c].req IN
    /\ call[c].pc = "claim"
    /\ session[r].status = "none"
    /\ Begin(c, [call[c] EXCEPT !.pc = "commit", !.rivals = Rivals(r, call[c].win)])
    /\ UNCHANGED <<request, overdue, session, freed, lock, gone>>

(* acceptRequest: claim the row if its status is still the one read, create *)
(* the session (requestId is unique) and list the competing requests.  The *)
(* expiry in the claim is compared with the time of the read.              *)
AcceptClaim(c) ==
    LET r == call[c].req IN
    /\ call[c].pc = "claim"
    /\ request[r].status = call[c].seen
    /\ session[r].status = "none"
    /\ Begin(c, [call[c] EXCEPT !.pc = "commit", !.rivals = Rivals(r, call[c].win)])
    /\ UNCHANGED <<request, overdue, session, freed, lock, gone>>

(* acceptRequest: decline the listed requests, by id, and commit. *)
AcceptCommit(c) ==
    LET r == call[c].req IN
    /\ call[c].pc = "commit"
    /\ request' = [q \in Request |->
          IF q = r
            THEN [request[q] EXCEPT !.status = "accepted", !.proposed = call[c].win]
          ELSE IF q \in call[c].rivals
            THEN [request[q] EXCEPT !.status = "declined"]
          ELSE request[q]]
    /\ session' = [session EXCEPT ![r] = [status |-> "upcoming", win |-> call[c].win]]
    /\ lock' = [lock EXCEPT ![companionOf[r]] = Null]
    /\ End(c)
    /\ UNCHANGED <<overdue, freed, gone>>

(* Faulty: the status of the request is not looked at. *)
DeclineReadAny(c, r) ==
    /\ Entering(c, r, "answer_decline")
    /\ request[r].status # "none"
    /\ r \notin overdue
    /\ Begin(c, [Idle EXCEPT !.pc = "decline", !.req = r])
    /\ UNCHANGED <<request, overdue, session, freed, lock, gone>>

(* declineRequest: findPendingOrThrow, then an update by id alone. *)
DeclineRead(c, r) ==
    /\ Entering(c, r, "answer_decline")
    /\ request[r].status \in Open
    /\ r \notin overdue
    /\ Begin(c, [Idle EXCEPT !.pc = "decline", !.req = r])
    /\ UNCHANGED <<request, overdue, session, freed, lock, gone>>

DeclineWrite(c) ==
    LET r == call[c].req IN
    /\ call[c].pc = "decline"
    /\ request[r].status # "none"
    /\ ~RowLocked(r)
    /\ request' = [request EXCEPT ![r].status = "declined"]
    /\ End(c)
    /\ UNCHANGED <<overdue, session, freed, lock, gone>>

(* counterPropose: findPendingOrThrow, then an update by id alone.  The    *)
(* proposed range is not validated.                                        *)
CounterRead(c, r, w) ==
    /\ call[c].pc = "idle"
    /\ request[r].status \in Open
    /\ r \notin overdue
    /\ Begin(c, [Idle EXCEPT !.pc = "counter", !.req = r, !.win = w])
    /\ UNCHANGED <<request, overdue, session, freed, lock, gone>>

CounterWrite(c) ==
    LET r == call[c].req IN
    /\ call[c].pc = "counter"
    /\ request[r].status # "none"
    /\ ~RowLocked(r)
    /\ request' = [request EXCEPT ![r].status = "counter_proposed", ![r].counter = call[c].win]
    /\ End(c)
    /\ UNCHANGED <<overdue, session, freed, lock, gone>>

-------------------------------------------------------------------------------
(* Time and expiry *)

PassDeadline(r) ==
    /\ request[r].status # "none"
    /\ r \notin overdue
    /\ overdue' = overdue \cup {r}
    /\ UNCHANGED <<request, session, freed, lock, call, gone>>

(* One guarded updateMany; a row locked by an acceptance is pending no     *)
(* more when the statement gets to it.                                     *)
ExpireFor(companions) ==
    /\ request' = [r \in Request |->
          IF /\ companionOf[r] \in companions
             /\ request[r].status = "pending"
             /\ r \in overdue
             /\ ~RowLocked(r)
            THEN [request[r] EXCEPT !.status = "expired"]
            ELSE request[r]]
    /\ UNCHANGED <<overdue, session, freed, lock, call, gone>>

(* The sweep of expireOldRequests, each minute, over all companions. *)
ExpireOldRequests == ExpireFor(Companion)

(* The sweep at the end of getRequests, over one companion. *)
GetRequests(p) == ExpireFor({p})

-------------------------------------------------------------------------------
(* Payments *)

(* verifyPayment and the payment.captured webhook, which Razorpay repeats  *)
(* until it is acknowledged: the request becomes pending, whatever it was. *)
(* createOrder asks nothing of the request but that it exists.             *)
PaymentConfirmed(r) ==
    /\ r \in Payable
    /\ request[r].status # "none"
    /\ ~RowLocked(r)
    /\ request' = [request EXCEPT ![r].status = "pending"]
    /\ UNCHANGED <<overdue, session, freed, lock, call, gone>>

-------------------------------------------------------------------------------
(* Sessions: every handler reads the session, checks the status it read    *)
(* and updates the row by id alone                                         *)

SessionRead(c, r, handler, from, to) ==
    /\ handler \in Handler
    /\ call[c].pc = "idle"
    /\ session[r].status \in from
    /\ Begin(c, [Idle EXCEPT !.pc = "move", !.req = r, !.to = to])
    /\ UNCHANGED <<request, overdue, session, freed, lock, gone>>

SessionWrite(c) ==
    LET r == call[c].req IN
    /\ call[c].pc = "move"
    /\ session[r].status # "none"
    /\ session' = [session EXCEPT ![r].status = call[c].to]
    /\ freed' = IF call[c].to \in Closed THEN freed \cup {r} ELSE freed
    /\ End(c)
    /\ UNCHANGED <<request, overdue, lock, gone>>

MarkPreArrival(c, r) ==
    SessionRead(c, r, "markPreArrival", MayBecome("pre_arrival"), "pre_arrival")

CheckIn(c, r) ==
    SessionRead(c, r, "checkIn", MayBecome("checked_in") \ {"checked_in", "active", "extending"}, "checked_in")

VerifyCustomer(c, r) ==
    SessionRead(c, r, "verifyCustomer", MayBecome("active") \ {"active"}, "active")

(* Faulty: verification does not consult the transition table. *)
VerifyUnguarded(c, r) ==
    SessionRead(c, r, "verifyBySelfie", SessionStatus \ {"none", "active"}, "active")

VerifyBySelfie(c, r) ==
    SessionRead(c, r, "verifyBySelfie", MayBecome("active") \ {"active"}, "active")

EndEarly(c, r) ==
    SessionRead(c, r, "endEarly", {"active", "extending", "checked_in"}, "completed")

(* Faulty: the status written is not one of the schema's. *)
CancelSessionMisspelt(c, r) ==
    SessionRead(c, r, "cancelSession", MayBecome("cancelled") \ {"cancelled"}, "canceled")

CancelSession(c, r) ==
    SessionRead(c, r, "cancelSession", MayBecome("cancelled") \ {"cancelled"}, "cancelled")

ReportNoShow(c, r) ==
    SessionRead(c, r, "reportNoShow", MayBecome("no_show"), "no_show")

CompleteSession(c, r) ==
    SessionRead(c, r, "completeSession", {"upcoming", "checked_in", "active", "extending"}, "completed")

(* internal.service.ts, asked by the customer backend: any status but completed. *)
CompleteSessionByBooking(c, r) ==
    SessionRead(c, r, "completeSessionByBooking", SessionStatus \ {"none", "completed"}, "completed")

SessionHandler(c, r) ==
    \/ MarkPreArrival(c, r)
    \/ CheckIn(c, r)
    \/ VerifyCustomer(c, r)
    \/ VerifyBySelfie(c, r)
    \/ EndEarly(c, r)
    \/ CancelSession(c, r)
    \/ ReportNoShow(c, r)
    \/ CompleteSession(c, r)
    \/ CompleteSessionByBooking(c, r)

-------------------------------------------------------------------------------
(* deleteAccount: the companion's row is deleted, and its bookings and     *)
(* their sessions with it (onDelete: Cascade).  The statement waits for an *)
(* acceptance that has claimed one of them.                                *)
DeleteAccount(p) ==
    LET of == {r \in Request : companionOf[r] = p} IN
    /\ p \notin gone
    /\ \A r \in of : ~RowLocked(r)
    /\ request' = [r \in Request |-> IF r \in of THEN NoRequest ELSE request[r]]
    /\ session' = [r \in Request |-> IF r \in of THEN NoSession ELSE session[r]]
    /\ overdue' = overdue \ of
    /\ freed' = freed \ of
    /\ gone' = gone \cup {p}
    /\ UNCHANGED <<lock, call>>

(* A call ends without its next statement: a guard throws, the row to be   *)
(* updated is gone, the transaction times out or the process dies.  An     *)
(* open transaction rolls back.                                            *)
Fail(c) ==
    /\ call[c].pc # "idle"
    /\ lock' = [p \in Companion |-> IF lock[p] = c THEN Null ELSE lock[p]]
    /\ End(c)
    /\ UNCHANGED <<request, overdue, session, freed, gone>>

CustomerNext ==
    \/ \E c \in Call, r \in Request, w \in Window : CreateCheck(c, r, w)
    \/ \E c \in Call : CreateInsert(c)
    \/ \E r \in Request, w \in Window : Modify(r, w)
    \/ \E c \in Call, r \in Request, answer \in {"answer_accept", "answer_decline"} :
          AnswerCounter(c, r, answer)

CompanionNext ==
    \/ \E c \in Call, r \in Request : AcceptRead(c, r)
    \/ \E c \in Call : AcceptCheck(c) \/ AcceptClaim(c) \/ AcceptCommit(c)
    \/ \E c \in Call, r \in Request : DeclineRead(c, r)
    \/ \E c \in Call : DeclineWrite(c)
    \/ \E c \in Call, r \in Request, w \in Window : CounterRead(c, r, w)
    \/ \E c \in Call : CounterWrite(c)

EnvironmentNext ==
    \/ \E r \in Request : PassDeadline(r)
    \/ ExpireOldRequests
    \/ \E p \in Companion : GetRequests(p)
    \/ \E r \in Request : PaymentConfirmed(r)
    \/ \E p \in Companion : DeleteAccount(p)
    \/ \E c \in Call : Fail(c)

SessionNext ==
    \/ \E c \in Call, r \in Request : SessionHandler(c, r)
    \/ \E c \in Call : SessionWrite(c)

Next == CustomerNext \/ CompanionNext \/ EnvironmentNext \/ SessionNext

Spec == Init /\ [][Next]_vars

-------------------------------------------------------------------------------
(* Properties *)

(* acceptRequest, seen from outside: the ranges written to sessions are    *)
(* handed out as Calendar says, so two acceptances, however their          *)
(* statements interleave with each other, with crashes, with session       *)
(* handlers and with the deletion of the account, never reserve            *)
(* overlapping slots ("two simultaneous requests cannot both reserve       *)
(* overlapping time slots").                                               *)
Reservations == INSTANCE Calendar WITH slot <- [r \in Request |-> session[r].win]

ImplementsCalendar == Reservations!CalendarSpec

(* An accepted request and its session agree on the range, although the    *)
(* request may be modified, countered and re-created while it is being     *)
(* accepted: the claim writes the range back and modify asks for pending.  *)
AcceptedHasSession ==
    \A r \in Request : request[r].status = "accepted" =>
        /\ session[r].status # "none"
        /\ session[r].win = request[r].proposed

(* A step in which companion p's account is deleted. *)
Leaves(p) == p \in gone' \ gone

(* What no interleaving does to a request's status: only the deletion of   *)
(* its companion's account takes a row away, only an open request is       *)
(* accepted and only while it has no session, only a pending one past its  *)
(* deadline expires, and only a payment event makes a handled request      *)
(* pending again (a repeated create does not).                             *)
DecisionEdges ==
    [][\A r \in Request :
        LET old == request[r].status
            new == request'[r].status
        IN old # new =>
            /\ new = "none" => Leaves(companionOf[r])
            /\ new = "accepted" => old \in Open /\ session[r].status = "none"
            /\ new = "expired"  => old = "pending" /\ r \in overdue
            /\ new = "pending"  => old = "none" \/ r \in Payable]_vars

(* The range of an accepted, declined or expired request is never changed  *)
(* as long as its row is there: neither a modification nor a create that   *)
(* lost a race reaches it.                                                 *)
HandledTermsFrozen ==
    [][\A r \in Request :
        request[r].status \in {"accepted", "declined", "expired"} =>
            \/ request'[r].proposed = request[r].proposed
            \/ Leaves(companionOf[r])]_vars

(* No two sessions of a companion that are not over occupy overlapping     *)
(* ranges: the double-booking conflict the acceptance check is there for.  *)
NoDoubleBooking ==
    \A r, q \in Request :
        ( /\ r # q
          /\ SameCompanion(r, q)
          /\ session[r].status \notin Closed \cup {"none"}
          /\ session[q].status \notin Closed \cup {"none"} )
        => ~Overlaps(session[r].win, session[q].win)

(* A completed, cancelled or no-show session is over: VALID_TRANSITIONS    *)
(* leaves those statuses to themselves, except that the customer backend's *)
(* completion overrides cancelled and no_show.  Its row goes only with the *)
(* companion's account.                                                    *)
ClosedStaysClosed ==
    [][\A r \in Request :
        session[r].status \in Closed =>
            session'[r].status \in Closed \/ Leaves(companionOf[r])]_vars

(* README 3.1: DECLINED is final and ACCEPTED leads only to the session,   *)
(* short of a payment event for the booking and of the deletion of the     *)
(* companion's account.                                                    *)
DecidedStays ==
    [][\A r \in Request \ Payable :
        request[r].status \in {"accepted", "declined"} =>
            request'[r].status = request[r].status \/ Leaves(companionOf[r])]_vars
===============================================================================
