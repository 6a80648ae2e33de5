------------------------------ MODULE ReviewSync ------------------------------
(***************************************************************************)
(* The companion's rating of a customer (sessions.service.ts) and how it   *)
(* reaches the admin backend: rateCustomer posts it once, without waiting, *)
(* and a job that runs every 30 seconds, on every server, posts the        *)
(* ratings that are not yet marked synchronised.                           *)
(*                                                                         *)
(* A post carries the rating read before it was sent; marking writes the   *)
(* session by id, whatever its rating is by then.                          *)
(***************************************************************************)
EXTENDS Naturals

CONSTANTS
    Session,
    Call,           \* rateCustomer invocations in progress
    Job,            \* processes, each with at most one run of the job
    Null,           \* no session
    MaxRating,      \* ratings are 1 .. MaxRating
    MaxTimes,       \* bound: how often a session is rated
    MaxFail         \* bound: failed statements and deaths

ASSUME ReviewSyncAssumption ==
    /\ Null \notin Session
    /\ MaxRating \in Nat /\ MaxTimes \in Nat /\ MaxFail \in Nat

VARIABLES
    rating,         \* customerRating, 0 for none
    synced,         \* whether adminReviewSyncedAt is set
    retryable,      \* adminReviewSyncAttemptedAt is null or a minute old
    admin,          \* the rating the admin backend has, 0 for none
    call,           \* rateCustomer's posts in progress
    job,            \* runs of the job
    times,          \* how often each session was rated, for the bound
    fails,          \* failed statements and deaths so far
    overtaken       \* history: sessions rated anew too early or too late

vars == <<rating, synced, retryable, admin, call, job, times, fails, overtaken>>

-------------------------------------------------------------------------------
Rating == 1 .. MaxRating

(* A post in progress: about to be sent, or confirmed and to be marked. *)
CallRow == [pc : {"idle", "post", "mark"}, session : Session \cup {Null}, rating : 0 .. MaxRating]

IdleCall == [pc |-> "idle", session |-> Null, rating |-> 0]

(* A run of the job holds the rating of each session it selected, 0 for    *)
(* the others; session is the one whose post is in progress.               *)
JobRow == [ pc      : {"idle", "attempt", "post", "mark"},
            session : Session \cup {Null},
            batch   : [Session -> 0 .. MaxRating] ]

NoBatch == [s \in Session |-> 0]

IdleJob == [pc |-> "idle", session |-> Null, batch |-> NoBatch]

TypeOK ==
    /\ rating \in [Session -> 0 .. MaxRating]
    /\ synced \in [Session -> BOOLEAN]
    /\ retryable \in [Session -> BOOLEAN]
    /\ admin \in [Session -> 0 .. MaxRating]
    /\ call \in [Call -> CallRow]
    /\ \A c \in Call : call[c].pc # "idle" => call[c].session # Null /\ call[c].rating # 0
    /\ job \in [Job -> JobRow]
    /\ \A j \in Job : job[j].pc \in {"post", "mark"} =>
          job[j].session # Null /\ job[j].batch[job[j].session] # 0
    /\ times \in [Session -> 0 .. MaxTimes]
    /\ fails \in 0 .. MaxFail
    /\ overtaken \subseteq Session

Init ==
    /\ rating = [s \in Session |-> 0]
    /\ synced = [s \in Session |-> FALSE]
    /\ retryable = [s \in Session |-> TRUE]
    /\ admin = [s \in Session |-> 0]
    /\ call = [c \in Call |-> IdleCall]
    /\ job = [j \in Job |-> IdleJob]
    /\ times = [s \in Session |-> 0]
    /\ fails = 0
    /\ overtaken = {}

-------------------------------------------------------------------------------
(* rateCustomer *)

(* A post of an earlier rating of the session is yet to be sent or marked. *)
UnderWay(s) ==
    \/ \E c \in Call : call[c].session = s
    \/ \E j \in Job : job[j].batch[s] # 0

(* Faulty: any number is a rating. *)
RateCustomerUnchecked(c, s, r) ==
    /\ call[c].pc = "idle"
    /\ times[s] < MaxTimes
    /\ rating' = [rating EXCEPT ![s] = r]
    /\ retryable' = [retryable EXCEPT ![s] = FALSE]
    /\ call' = [call EXCEPT ![c] = [pc |-> "post", session |-> s, rating |-> r]]
    /\ times' = [times EXCEPT ![s] = @ + 1]
    /\ overtaken' = IF synced[s] \/ UnderWay(s) THEN overtaken \cup {s} ELSE overtaken
    /\ UNCHANGED <<synced, admin, job, fails>>

(* The update; the post to the customer backend is awaited before the one  *)
(* to the admin backend, and its failure is ignored.                       *)
RateCustomer(c, s, r) ==
    /\ call[c].pc = "idle"
    /\ r \in Rating
    /\ times[s] < MaxTimes
    /\ rating' = [rating EXCEPT ![s] = r]
    /\ retryable' = [retryable EXCEPT ![s] = FALSE]
    /\ call' = [call EXCEPT ![c] = [pc |-> "post", session |-> s, rating |-> r]]
    /\ times' = [times EXCEPT ![s] = @ + 1]
    /\ overtaken' = IF synced[s] \/ UnderWay(s) THEN overtaken \cup {s} ELSE overtaken
    /\ UNCHANGED <<synced, admin, job, fails>>

(* External: the admin backend stores the rating of a post that arrives. *)
Store(s, r) == admin' = [admin EXCEPT ![s] = r]

(* Faulty: whatever the admin backend answers, the session is marked. *)
PostUnchecked(c) ==
    /\ call[c].pc = "post"
    /\ \/ Store(call[c].session, call[c].rating)
       \/ UNCHANGED admin
    /\ call' = [call EXCEPT ![c].pc = "mark"]
    /\ UNCHANGED <<rating, synced, retryable, job, times, fails, overtaken>>

(* notifyAdminBackendOfReview: confirmed, or failed having arrived or not. *)
Post(c) ==
    /\ call[c].pc = "post"
    /\ \/ Store(call[c].session, call[c].rating) /\ call' = [call EXCEPT ![c].pc = "mark"]
       \/ Store(call[c].session, call[c].rating) /\ call' = [call EXCEPT ![c] = IdleCall]
       \/ UNCHANGED admin /\ call' = [call EXCEPT ![c] = IdleCall]
    /\ UNCHANGED <<rating, synced, retryable, job, times, fails, overtaken>>

Mark(c) ==
    /\ call[c].pc = "mark"
    /\ synced' = [synced EXCEPT ![call[c].session] = TRUE]
    /\ call' = [call EXCEPT ![c] = IdleCall]
    /\ UNCHANGED <<rating, retryable, admin, job, times, fails, overtaken>>

(* The mark fails, or the process dies. *)
FailCall(c) ==
    /\ call[c].pc # "idle"
    /\ fails < MaxFail
    /\ fails' = fails + 1
    /\ call' = [call EXCEPT ![c] = IdleCall]
    /\ UNCHANGED <<rating, synced, retryable, admin, job, times, overtaken>>

(* External: a minute passes since the last attempt. *)
MinutePasses(s) ==
    /\ ~retryable[s]
    /\ retryable' = [retryable EXCEPT ![s] = TRUE]
    /\ UNCHANGED <<rating, synced, admin, call, job, times, fails, overtaken>>

-------------------------------------------------------------------------------
(* reconcilePendingAdminReviews *)


(* Fifty at a time; the instances have fewer. *)
Pending == {s \in Session : rating[s] # 0 /\ ~synced[s] /\ retryable[s]}

Select(j) ==
    /\ job[j].pc = "idle"
    /\ Pending # {}
    /\ job' = [job EXCEPT ![j] =
                 [ pc      |-> "attempt",
                   session |-> Null,
                   batch   |-> [s \in Session |-> IF s \in Pending THEN rating[s] ELSE 0] ]]
    /\ UNCHANGED <<rating, synced, retryable, admin, call, times, fails, overtaken>>

(* The next session, oldest update first: any, as far as the model goes. *)
Attempt(j, s) ==
    /\ job[j].pc = "attempt"
    /\ job[j].batch[s] # 0
    /\ retryable' = [retryable EXCEPT ![s] = FALSE]
    /\ job' = [job EXCEPT ![j].pc = "post", ![j].session = s]
    /\ UNCHANGED <<rating, synced, admin, call, times, fails, overtaken>>

(* On to the next session of the batch, or the run ends. *)
Onward(j) ==
    LET rest == [job[j].batch EXCEPT ![job[j].session] = 0]
    IN job' = [job EXCEPT ![j] =
                 IF rest = NoBatch
                   THEN IdleJob
                   ELSE [pc |-> "attempt", session |-> Null, batch |-> rest]]

PostConfirmed(j) ==
    /\ job[j].pc = "post"
    /\ Store(job[j].session, job[j].batch[job[j].session])
    /\ job' = [job EXCEPT ![j].pc = "mark"]
    /\ UNCHANGED <<rating, synced, retryable, call, times, fails, overtaken>>

(* The post fails, having arrived or not; the error is caught. *)
PostFailed(j) ==
    /\ job[j].pc = "post"
    /\ \/ Store(job[j].session, job[j].batch[job[j].session])
       \/ UNCHANGED admin
    /\ Onward(j)
    /\ UNCHANGED <<rating, synced, retryable, call, times, fails, overtaken>>

MarkSynced(j) ==
    /\ job[j].pc = "mark"
    /\ synced' = [synced EXCEPT ![job[j].session] = TRUE]
    /\ Onward(j)
    /\ UNCHANGED <<rating, retryable, admin, call, times, fails, overtaken>>

(* The mark fails and the error is caught. *)
MarkFailed(j) ==
    /\ job[j].pc = "mark"
    /\ fails < MaxFail
    /\ fails' = fails + 1
    /\ Onward(j)
    /\ UNCHANGED <<rating, synced, retryable, admin, call, times, overtaken>>

(* Faulty: the run ends, but reviewSyncRunning stays set. *)
AbortStuck(j) ==
    /\ job[j].pc # "idle"
    /\ fails < MaxFail
    /\ fails' = fails + 1
    /\ job' = [job EXCEPT ![j] = [IdleJob EXCEPT !.pc = "attempt"]]
    /\ UNCHANGED <<rating, synced, retryable, admin, call, times, overtaken>>

(* Another statement throws, or the process dies and starts again. *)
Abort(j) ==
    /\ job[j].pc # "idle"
    /\ fails < MaxFail
    /\ fails' = fails + 1
    /\ job' = [job EXCEPT ![j] = IdleJob]
    /\ UNCHANGED <<rating, synced, retryable, admin, call, times, overtaken>>

-------------------------------------------------------------------------------
ContinueCall(c) == Post(c) \/ Mark(c)

ContinueJob(j) ==
    \/ \E s \in Session : Attempt(j, s)
    \/ PostConfirmed(j) \/ PostFailed(j)
    \/ MarkSynced(j)

Next ==
    \/ \E c \in Call, s \in Session, r \in 0 .. MaxRating + 1 : RateCustomer(c, s, r)
    \/ \E c \in Call : ContinueCall(c) \/ FailCall(c)
    \/ \E s \in Session : MinutePasses(s)
    \/ \E j \in Job : Select(j) \/ ContinueJob(j) \/ MarkFailed(j) \/ Abort(j)

(* The scheduler starts the job again and again, an awaited call returns,  *)
(* the clock runs, and the admin backend is not down for ever: a session   *)
(* that is posted again and again is confirmed in the end.                 *)
Spec ==
    /\ Init /\ [][Next]_vars
    /\ \A c \in Call : WF_vars(ContinueCall(c))
    /\ \A s \in Session : WF_vars(MinutePasses(s))
    /\ \A j \in Job :
          /\ WF_vars(Select(j)) /\ WF_vars(ContinueJob(j))
          /\ \A s \in Session : SF_vars(job[j].session = s /\ PostConfirmed(j))

-------------------------------------------------------------------------------
(* Properties *)

(* A session is marked synchronised only when the admin backend has its    *)
(* present rating, however posts and runs overlap, unless it was rated     *)
(* again after it had been marked or while a post was under way.           *)
MarkedIsStored ==
    \A s \in Session : synced[s] /\ s \notin overtaken => admin[s] = rating[s]

(* With the same exception a rating reaches the admin backend, however     *)
(* many posts fail and whichever runs die.                                 *)
RatingArrives ==
    \A s \in Session : (rating[s] # 0) ~> (admin[s] = rating[s] \/ s \in overtaken)
===============================================================================
