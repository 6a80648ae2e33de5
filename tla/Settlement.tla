------------------------------ MODULE Settlement ------------------------------
(***************************************************************************)
(* Completing a session and crediting the companion for it: endEarly,      *)
(* completeSession and _finalizeEarnings of sessions.service.ts and the    *)
(* customer backend's completeSessionByBooking of internal.service.ts.     *)
(*                                                                         *)
(* Nothing here is a transaction: the status, the earnings row and the     *)
(* session count are written by separate statements, between which other   *)
(* handlers run and the process may die.                                   *)
(***************************************************************************)
EXTENDS Naturals, FiniteSets

CONSTANTS
    Session,        \* sessions of one companion
    Call,           \* handler invocations that may be in progress at once
    Null,           \* no session
    MaxFail         \* bound: calls that end between two statements

ASSUME SettlementAssumption ==
    /\ IsFiniteSet(Session)
    /\ IsFiniteSet(Call)
    /\ Null \notin Session
    /\ MaxFail \in Nat

VARIABLES
    status,         \* sessions.status
    earnings,       \* number of session_earning rows per session
    counted,        \* increments of the companion's totalSessions, per session
    call,           \* calls in progress
    fails           \* calls that ended between two statements

vars == <<status, earnings, counted, call, fails>>

-------------------------------------------------------------------------------
(* The statuses the handlers below tell apart; active stands for           *)
(* checked_in and extending as well, cancelled for no_show.                *)
SessionStatus == {"upcoming", "pre_arrival", "active", "cancelled", "completed"}

Step == {"idle", "complete", "lookup", "create", "count", "move"}

CallRow == [ pc      : Step,
             session : Session \cup {Null},
             to      : SessionStatus ]      \* the status it is about to write

Idle == [pc |-> "idle", session |-> Null, to |-> "completed"]

TypeOK ==
    /\ status \in [Session -> SessionStatus]
    /\ earnings \in [Session -> Nat]
    /\ counted \in [Session -> Nat]
    /\ call \in [Call -> CallRow]
    /\ \A c \in Call : call[c].pc # "idle" => call[c].session \in Session
    /\ fails \in 0 .. MaxFail

Init ==
    /\ status = [s \in Session |-> "upcoming"]
    /\ earnings = [s \in Session |-> 0]
    /\ counted = [s \in Session |-> 0]
    /\ call = [c \in Call |-> Idle]
    /\ fails = 0

Goto(c, pc) == call' = [call EXCEPT ![c].pc = pc]

End(c) == call' = [call EXCEPT ![c] = Idle]

(* A handler reads the session and lets its status pass. *)
Read(c, s, from, pc, to) ==
    /\ call[c].pc = "idle"
    /\ status[s] \in from
    /\ call' = [call EXCEPT ![c] = [pc |-> pc, session |-> s, to |-> to]]
    /\ UNCHANGED <<status, earnings, counted, fails>>

Complete(c, s, from) == Read(c, s, from, "complete", "completed")

Move(c, s, from, to) == Read(c, s, from, "move", to)

-------------------------------------------------------------------------------
(* The three ways to complete a session.  Each returns early when it finds *)
(* the session completed.                                                  *)

EndEarly(c, s) == Complete(c, s, {"active"})

CompleteSession(c, s) == Complete(c, s, {"upcoming", "active"})

CompleteSessionByBooking(c, s) == Complete(c, s, SessionStatus \ {"completed"})

(* Faulty: the handler forgets to finalize the earnings. *)
CompletionOnly(c) ==
    /\ call[c].pc = "complete"
    /\ status' = [status EXCEPT ![call[c].session] = "completed"]
    /\ End(c)
    /\ UNCHANGED <<earnings, counted, fails>>

(* The update is by id: the session may have changed since it was read. *)
CompletionWrite(c) ==
    /\ call[c].pc = "complete"
    /\ status' = [status EXCEPT ![call[c].session] = "completed"]
    /\ Goto(c, "lookup")
    /\ UNCHANGED <<earnings, counted, fails>>

-------------------------------------------------------------------------------
(* Crediting the companion *)

(* Faulty: the existing row stops the second row but not the second count. *)
LookupEarningsNoReturn(c) ==
    /\ call[c].pc = "lookup"
    /\ IF earnings[call[c].session] = 0
         THEN Goto(c, "create")
         ELSE Goto(c, "count")
    /\ UNCHANGED <<status, earnings, counted, fails>>

(* "Check if earnings already created for this session (idempotent)" *)
LookupEarnings(c) ==
    /\ call[c].pc = "lookup"
    /\ IF earnings[call[c].session] = 0
         THEN Goto(c, "create")
         ELSE End(c)
    /\ UNCHANGED <<status, earnings, counted, fails>>

CreateEarnings(c) ==
    /\ call[c].pc = "create"
    /\ earnings' = [earnings EXCEPT ![call[c].session] = @ + 1]
    /\ Goto(c, "count")
    /\ UNCHANGED <<status, counted, fails>>

CountSession(c) ==
    /\ call[c].pc = "count"
    /\ counted' = [counted EXCEPT ![call[c].session] = @ + 1]
    /\ End(c)
    /\ UNCHANGED <<status, earnings, fails>>

-------------------------------------------------------------------------------
(* The session handlers that may write over a completion *)

MarkPreArrival(c, s) == Move(c, s, {"upcoming"}, "pre_arrival")

(* checkIn, verifyCustomer and verifyBySelfie; the two verify a session    *)
(* that is checked in, too.                                                *)
Activate(c, s) == Move(c, s, {"upcoming", "pre_arrival", "active"}, "active")

(* Faulty: the status written is not one of the schema's. *)
CancelSessionMisspelt(c, s) ==
    Move(c, s, {"upcoming", "pre_arrival", "active"}, "canceled")

(* cancelSession and reportNoShow *)
CancelSession(c, s) == Move(c, s, {"upcoming", "pre_arrival", "active"}, "cancelled")

StatusWrite(c) ==
    /\ call[c].pc = "move"
    /\ status' = [status EXCEPT ![call[c].session] = call[c].to]
    /\ End(c)
    /\ UNCHANGED <<earnings, counted, fails>>

(* A statement throws or the process dies: the rest is not done, and what  *)
(* was done stays.                                                         *)
Fail(c) ==
    /\ call[c].pc # "idle"
    /\ fails < MaxFail
    /\ fails' = fails + 1
    /\ End(c)
    /\ UNCHANGED <<status, earnings, counted>>

-------------------------------------------------------------------------------
Start(c, s) ==
    \/ EndEarly(c, s)
    \/ CompleteSession(c, s)
    \/ CompleteSessionByBooking(c, s)
    \/ MarkPreArrival(c, s)
    \/ Activate(c, s)
    \/ CancelSession(c, s)

(* A call that has begun goes on by itself. *)
Continue(c) ==
    \/ CompletionWrite(c)
    \/ LookupEarnings(c)
    \/ CreateEarnings(c)
    \/ CountSession(c)
    \/ StatusWrite(c)

Next ==
    \/ \E c \in Call, s \in Session : Start(c, s)
    \/ \E c \in Call : Continue(c) \/ Fail(c)

(* An awaited statement returns or throws: Node goes on with the handler.  *)
(* Nobody has to call a handler.                                           *)
Spec == Init /\ [][Next]_vars /\ \A c \in Call : WF_vars(Continue(c))

-------------------------------------------------------------------------------
(* Properties *)

At(pc, s) == {c \in Call : call[c].pc = pc /\ call[c].session = s}

(* The companion's session count follows the ledger: it never runs ahead   *)
(* of the earnings rows, and lags only by calls about to count and by      *)
(* calls that died in between.                                             *)
CountFollowsLedger ==
    \A s \in Session :
        LET accounted == counted[s] + Cardinality(At("count", s))
        IN /\ accounted <= earnings[s]
           /\ earnings[s] <= accounted + fails

(* A completed session without earnings that no call is still working on. *)
Lost(s) ==
    /\ status[s] = "completed"
    /\ earnings[s] = 0
    /\ At("lookup", s) \cup At("create", s) = {}

(* A session can only stay uncredited because the call that completed it   *)
(* died: one loss for one failure at most, whatever else runs.             *)
OneLossPerFailure == Cardinality({s \in Session : Lost(s)}) <= fails

(* As long as no call dies, completing a session gets it credited: README  *)
(* 3.1, COMPLETED leads to EARNINGS_CREDITED.                              *)
CreditedUnlessFailure ==
    \A s \in Session : (status[s] = "completed") ~> (earnings[s] > 0 \/ fails > 0)

(* A session is credited once, whoever completes it and however often. *)
CreditedOnce == \A s \in Session : earnings[s] <= 1
===============================================================================
