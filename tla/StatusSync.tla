------------------------------ MODULE StatusSync ------------------------------
(***************************************************************************)
(* Telling the customer backend what has become of a booking: the one-shot *)
(* notifications of acceptRequest and of the session handlers, and the     *)
(* cron job reconcileRecentBookingStatuses that repairs what they lose     *)
(* (sessions.service.ts), both through syncBookingStatus of                *)
(* internal-bridge.service.ts.                                             *)
(*                                                                         *)
(* A session's status changes in one step here; Booking models how a       *)
(* handler reads and writes it.  The customer backend is external: it      *)
(* stores the last status it was sent.                                     *)
(***************************************************************************)
EXTENDS Naturals, Sequences, SequencesExt, FiniteSets

CONSTANTS
    Session,        \* sessions, by the booking they belong to
    Take,           \* sessions one reconciliation looks at (200)
    MaxOut,         \* bound: notifications in flight at once
    MaxRating,      \* bound: ratings of customers
    MaxCrash        \* bound: crashes of the server

ASSUME StatusSyncAssumption ==
    /\ Take \in Nat
    /\ MaxOut \in Nat
    /\ MaxRating \in Nat
    /\ MaxCrash \in Nat

VARIABLES
    status,     \* sessions.status
    order,      \* sessions by updatedAt, the longest unchanged first
    recent,     \* sessions updated within the last 24 hours
    outbox,     \* notifications on their way, in no order
    view,       \* what the customer backend shows
    running,    \* reconciliationRunning
    batch,      \* what the running reconciliation has left to send
    crashes,    \* crashes so far
    ratings     \* ratings so far

vars == <<status, order, recent, outbox, view, running, batch, crashes, ratings>>

-------------------------------------------------------------------------------
(* arriving stands for pre_arrival and checked_in; nobody is told of those *)
(* and of no_show.  No handler writes extending or disputed.               *)
SessionStatus == {"none", "upcoming", "arriving", "active", "completed", "cancelled", "no_show"}

Told == [ upcoming  |-> "accepted",
          active    |-> "in_progress",
          completed |-> "completed",
          cancelled |-> "cancelled" ]

View == {"nothing", "accepted", "in_progress", "completed", "cancelled", "customer_rated"}

News == [session : Session, status : View \ {"nothing"}]

TypeOK ==
    /\ status \in [Session -> SessionStatus]
    /\ order \in Seq(Session) /\ IsInjective(order)
    /\ recent \in SUBSET Session
    /\ outbox \in SUBSET News
    /\ view \in [Session -> View]
    /\ running \in BOOLEAN
    /\ batch \in Seq(News)
    /\ ~running => batch = <<>>
    /\ crashes \in 0 .. MaxCrash
    /\ ratings \in 0 .. MaxRating

Init ==
    /\ status = [s \in Session |-> "none"]
    /\ order = <<>>
    /\ recent = {}
    /\ outbox = {}
    /\ view = [s \in Session |-> "nothing"]
    /\ running = FALSE
    /\ batch = <<>>
    /\ crashes = 0
    /\ ratings = 0

NewsOf(s, st) == [session |-> s, status |-> Told[st]]

-------------------------------------------------------------------------------
(* Session handlers *)

(* A handler's update sets updatedAt; what it tells is sent afterwards. *)
Update(s, from, to) ==
    /\ status[s] \in from
    /\ status' = [status EXCEPT ![s] = to]
    /\ order' = Append(SelectSeq(order, LAMBDA q : q # s), s)
    /\ recent' = recent \cup {s}
    /\ UNCHANGED <<view, running, batch, crashes>>

Post(news) ==
    /\ Cardinality(outbox) < MaxOut
    /\ outbox' = outbox \cup {news}

Notify(s, st) == Post(NewsOf(s, st)) /\ UNCHANGED ratings

Quietly == UNCHANGED <<outbox, ratings>>

Accept(s) == Update(s, {"none"}, "upcoming") /\ Notify(s, "upcoming")

(* markPreArrival, checkIn *)
Approach(s) == Update(s, {"upcoming", "arriving"}, "arriving") /\ Quietly

ReportNoShow(s) == Update(s, {"upcoming", "arriving"}, "no_show") /\ Quietly

(* verifyCustomer, verifyBySelfie *)
Activate(s) == Update(s, {"upcoming", "arriving"}, "active") /\ Notify(s, "active")

(* The same on an active session: it is told again, and not changed. *)
ActivateAgain(s) ==
    /\ status[s] = "active"
    /\ Notify(s, "active")
    /\ UNCHANGED <<status, order, recent, view, running, batch, crashes>>

(* endEarly, completeSession *)
Complete(s) == Update(s, {"upcoming", "arriving", "active"}, "completed") /\ Notify(s, "completed")

(* completeSessionByBooking: the customer backend asked for it. *)
CompleteByBooking(s) ==
    Update(s, {"upcoming", "arriving", "active", "cancelled", "no_show"}, "completed") /\ Quietly

Cancel(s) == Update(s, {"upcoming", "arriving", "active"}, "cancelled") /\ Notify(s, "cancelled")

(* rateCustomer, whatever the status: the post carries a status of its own. *)
RateCustomer(s) ==
    /\ ratings < MaxRating
    /\ ratings' = ratings + 1
    /\ Update(s, SessionStatus \ {"none"}, status[s])
    /\ Post([session |-> s, status |-> "customer_rated"])

(* 24 hours without a change. *)
Age(s) ==
    /\ s \in recent
    /\ recent' = recent \ {s}
    /\ UNCHANGED <<status, order, outbox, view, running, batch, crashes, ratings>>

-------------------------------------------------------------------------------
(* syncBookingStatus posts once, with a timeout of 5 seconds *)

Arrive(news) == view' = [view EXCEPT ![news.session] = news.status]

(* A notification arrives or is lost: its result is not looked at. *)
Deliver(news) ==
    /\ news \in outbox
    /\ outbox' = outbox \ {news}
    /\ Arrive(news) \/ UNCHANGED view
    /\ UNCHANGED <<status, order, recent, running, batch, crashes, ratings>>

-------------------------------------------------------------------------------
(* reconcileRecentBookingStatuses, every 15 seconds *)

(* Faulty: sessions that are over are not reconciled. *)
SnapshotOpen ==
    LET found == SelectSeq(order, LAMBDA s : s \in recent /\ status[s] \in {"upcoming", "active"})
    IN [i \in 1 .. IF Len(found) < Take THEN Len(found) ELSE Take |->
            NewsOf(found[i], status[found[i]])]

(* Statuses of recent sessions, the longest unchanged first, at most Take. *)
Snapshot ==
    LET found == SelectSeq(order, LAMBDA s : s \in recent /\ status[s] \in DOMAIN Told)
    IN [i \in 1 .. IF Len(found) < Take THEN Len(found) ELSE Take |->
            NewsOf(found[i], status[found[i]])]

Reconcile ==
    /\ ~running
    /\ running' = TRUE
    /\ batch' = Snapshot
    /\ UNCHANGED <<status, order, recent, outbox, view, crashes, ratings>>

SendSynced(s) ==
    /\ batch # <<>>
    /\ Head(batch).session = s
    /\ Arrive(Head(batch))
    /\ batch' = Tail(batch)
    /\ UNCHANGED <<status, order, recent, outbox, running, crashes, ratings>>

(* Faulty: a failed sync leaves the job without resetting its flag. *)
SendFailedForGood ==
    /\ batch # <<>>
    /\ Arrive(Head(batch)) \/ UNCHANGED view
    /\ batch' = <<Head(batch)>>
    /\ UNCHANGED <<status, order, recent, outbox, running, crashes, ratings>>

(* Refused, or no answer in time (it may have arrived all the same): the   *)
(* loop breaks, and the sessions behind it wait for the next interval.     *)
SendFailed ==
    /\ batch # <<>>
    /\ Arrive(Head(batch)) \/ UNCHANGED view
    /\ batch' = <<>>
    /\ UNCHANGED <<status, order, recent, outbox, running, crashes, ratings>>

Finish ==
    /\ running
    /\ batch = <<>>
    /\ running' = FALSE
    /\ UNCHANGED <<status, order, recent, outbox, view, batch, crashes, ratings>>

(* The process restarts: what it was about to send is gone. *)
Crash ==
    /\ crashes < MaxCrash
    /\ crashes' = crashes + 1
    /\ outbox' = {}
    /\ running' = FALSE
    /\ batch' = <<>>
    /\ UNCHANGED <<status, order, recent, view, ratings>>

-------------------------------------------------------------------------------
Handler(s) ==
    \/ Accept(s)
    \/ Approach(s)
    \/ ReportNoShow(s)
    \/ Activate(s)
    \/ ActivateAgain(s)
    \/ Complete(s)
    \/ CompleteByBooking(s)
    \/ Cancel(s)
    \/ RateCustomer(s)

Send == (\E s \in Session : SendSynced(s)) \/ SendFailed

Next ==
    \/ \E s \in Session : Handler(s) \/ Age(s)
    \/ \E news \in outbox : Deliver(news)
    \/ Reconcile \/ Send \/ Finish
    \/ Crash

(* The cron fires and its loop goes on; a post ends within its timeout.    *)
(* The customer backend is not down for ever: a session that is posted     *)
(* again and again gets through again and again.                           *)
Fairness ==
    /\ WF_vars(Reconcile) /\ WF_vars(Send) /\ WF_vars(Finish)
    /\ \A s \in Session : SF_vars(SendSynced(s))

Spec == Init /\ [][Next]_vars /\ Fairness

-------------------------------------------------------------------------------
(* Properties *)

(* The customer backend ends up with the status a session has, if that is  *)
(* one it is told of and the session stays in the 24 hour window: neither  *)
(* lost or late notifications nor the status of a rating nor stale         *)
(* snapshots nor a failing neighbour nor a crash keep the reconciliation   *)
(* from getting there.                                                     *)
Converges ==
    \A s \in Session :
        <>[](status[s] \in DOMAIN Told /\ s \in recent)
            => <>[](status[s] \in DOMAIN Told /\ view[s] = Told[status[s]])
===============================================================================
