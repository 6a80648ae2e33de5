--------------------------- MODULE ReviewSyncProofs ---------------------------
(***************************************************************************)
(* Proofs about ReviewSync for any number of sessions, posts, servers,     *)
(* ratings and failures.                                                   *)
(***************************************************************************)
EXTENDS ReviewSync, TLAPS

(* A post of rateCustomer carries the session's present rating, and once   *)
(* confirmed the admin backend has it.                                     *)
CallsCurrent ==
    \A c \in Call :
        call[c].pc # "idle" /\ call[c].session \notin overtaken =>
            /\ call[c].rating = rating[call[c].session]
            /\ call[c].pc = "mark" => admin[call[c].session] = call[c].rating

(* So does what a run of the job has selected. *)
JobsCurrent ==
    \A j \in Job, s \in Session :
        job[j].batch[s] # 0 /\ s \notin overtaken =>
            /\ job[j].batch[s] = rating[s]
            /\ job[j].pc = "mark" /\ job[j].session = s => admin[s] = rating[s]

IInv == TypeOK /\ CallsCurrent /\ JobsCurrent /\ MarkedIsStored

-------------------------------------------------------------------------------
(* Type correctness *)

LEMMA CallTyped ==
  ASSUME TypeOK, NEW c \in Call, call[c].pc # "idle"
  PROVE  call[c].session \in Session /\ call[c].rating \in 1 .. MaxRating
  BY ReviewSyncAssumption DEF TypeOK, CallRow

LEMMA JobTyped ==
  ASSUME TypeOK, NEW j \in Job, job[j].pc \in {"post", "mark"}
  PROVE  /\ job[j].session \in Session
         /\ job[j].batch[job[j].session] \in 1 .. MaxRating
  BY ReviewSyncAssumption DEF TypeOK, JobRow

LEMMA IdleTyped ==
  /\ IdleCall \in CallRow /\ IdleCall.pc = "idle"
  /\ IdleJob \in JobRow /\ IdleJob.pc = "idle" /\ IdleJob.batch = NoBatch
  BY ReviewSyncAssumption DEF IdleCall, CallRow, IdleJob, JobRow, NoBatch

(* The type invariant of the calls and of the runs, and what keeps them. *)
CallsTyped ==
    /\ call \in [Call -> CallRow]
    /\ \A c \in Call : call[c].pc # "idle" => call[c].session # Null /\ call[c].rating # 0

JobsTyped ==
    /\ job \in [Job -> JobRow]
    /\ \A j \in Job : job[j].pc \in {"post", "mark"} =>
          job[j].session # Null /\ job[j].batch[job[j].session] # 0

LEMMA CallEnds ==
  ASSUME TypeOK, NEW c \in Call, call' = [call EXCEPT ![c] = IdleCall]
  PROVE  CallsTyped'
  BY IdleTyped DEF TypeOK, CallsTyped

LEMMA CallMarks ==
  ASSUME TypeOK, NEW c \in Call, call[c].pc = "post", call' = [call EXCEPT ![c].pc = "mark"]
  PROVE  CallsTyped'
<1>1. [call[c] EXCEPT !.pc = "mark"] \in CallRow
  BY DEF TypeOK, CallRow
<1> QED
  BY <1>1 DEF TypeOK, CallsTyped, CallRow

(* What a run looks like after the session at hand. *)
LEMMA OnwardRow ==
  ASSUME TypeOK, NEW j \in Job, job[j].pc \in {"post", "mark"}, Onward(j)
  PROVE  /\ job'[j] \in JobRow /\ job'[j].pc \in {"idle", "attempt"}
         /\ \A s \in Session : job'[j].batch[s] # 0 => job'[j].batch[s] = job[j].batch[s]
         /\ \A i \in Job \ {j} : job'[i] = job[i]
         /\ job' \in [Job -> JobRow]
<1> DEFINE rest == [job[j].batch EXCEPT ![job[j].session] = 0]
<1>1. /\ rest \in [Session -> 0 .. MaxRating]
      /\ \A s \in Session : rest[s] # 0 => rest[s] = job[j].batch[s]
  BY JobTyped, ReviewSyncAssumption DEF TypeOK, JobRow
<1>2. CASE rest = NoBatch
  <2>1. job' = [job EXCEPT ![j] = IdleJob]
    BY <1>2 DEF Onward
  <2>2. \A s \in Session : IdleJob.batch[s] = 0
    BY IdleTyped DEF NoBatch
  <2> QED
    BY <2>1, <2>2, IdleTyped DEF TypeOK
<1>3. CASE rest # NoBatch
  <2> DEFINE row == [pc |-> "attempt", session |-> Null, batch |-> rest]
  <2>1. job' = [job EXCEPT ![j] = row]
    BY <1>3 DEF Onward
  <2>2. row \in JobRow /\ row.pc = "attempt" /\ row.batch = rest
    BY <1>1 DEF JobRow
  <2> HIDE DEF row, rest
  <2> QED
    BY <1>1, <2>1, <2>2 DEF TypeOK
<1> QED
  BY <1>2, <1>3

LEMMA RunMovesOn ==
  ASSUME TypeOK, NEW j \in Job, job[j].pc \in {"post", "mark"}, Onward(j)
  PROVE  JobsTyped'
  BY OnwardRow DEF TypeOK, JobsTyped

LEMMA RunEnds ==
  ASSUME TypeOK, NEW j \in Job, job' = [job EXCEPT ![j] = IdleJob]
  PROVE  JobsTyped'
  BY IdleTyped DEF TypeOK, JobsTyped

LEMMA StepTypeOK == TypeOK /\ [Next]_vars => TypeOK'
<1> SUFFICES ASSUME TypeOK, [Next]_vars PROVE TypeOK'
  OBVIOUS
<1> USE ReviewSyncAssumption
<1>1. ASSUME NEW c \in Call, NEW s \in Session, NEW r, RateCustomer(c, s, r) PROVE TypeOK'
  <2>1. [pc |-> "post", session |-> s, rating |-> r] \in CallRow /\ r \in Rating
    BY <1>1 DEF CallRow, Rating, RateCustomer
  <2>2. CallsTyped'
    BY <1>1, <2>1 DEF RateCustomer, TypeOK, CallsTyped, Rating
  <2>3. rating' \in [Session -> 0 .. MaxRating] /\ times' \in [Session -> 0 .. MaxTimes]
    BY <1>1, <2>1 DEF RateCustomer, TypeOK, Rating
  <2>4. overtaken' \subseteq Session
    BY <1>1 DEF RateCustomer, TypeOK
  <2>5. retryable' \in [Session -> BOOLEAN]
    BY <1>1 DEF RateCustomer, TypeOK
  <2> QED
    BY <1>1, <2>2, <2>3, <2>4, <2>5 DEF RateCustomer, TypeOK, CallsTyped
<1>2. ASSUME NEW c \in Call, Post(c) PROVE TypeOK'
  <2>1. CallsTyped'
    BY <1>2, CallEnds, CallMarks DEF Post
  <2>2. admin' \in [Session -> 0 .. MaxRating]
    BY <1>2, CallTyped DEF Post, Store, TypeOK
  <2> QED
    BY <1>2, <2>1, <2>2 DEF Post, TypeOK, CallsTyped
<1>3. ASSUME NEW c \in Call, Mark(c) PROVE TypeOK'
  <2>1. CallsTyped'
    BY <1>3, CallEnds DEF Mark
  <2>2. synced' \in [Session -> BOOLEAN]
    BY <1>3 DEF Mark, TypeOK
  <2> QED
    BY <1>3, <2>1, <2>2 DEF Mark, TypeOK, CallsTyped
<1>4. ASSUME NEW c \in Call, FailCall(c) PROVE TypeOK'
  <2>1. CallsTyped'
    BY <1>4, CallEnds DEF FailCall
  <2>2. fails' \in 0 .. MaxFail
    BY <1>4 DEF FailCall, TypeOK
  <2> QED
    BY <1>4, <2>1, <2>2 DEF FailCall, TypeOK, CallsTyped
<1>5. ASSUME NEW s \in Session, MinutePasses(s) PROVE TypeOK'
  <2>1. retryable' \in [Session -> BOOLEAN]
    BY <1>5 DEF MinutePasses, TypeOK
  <2> QED
    BY <1>5, <2>1 DEF MinutePasses, TypeOK
<1>6. ASSUME NEW j \in Job, Select(j) PROVE TypeOK'
  <2> DEFINE row == [ pc |-> "attempt", session |-> Null,
                      batch |-> [s \in Session |-> IF s \in Pending THEN rating[s] ELSE 0] ]
  <2>1. row \in JobRow /\ row.pc = "attempt"
    BY DEF JobRow, TypeOK
  <2>2. job' = [job EXCEPT ![j] = row]
    BY <1>6 DEF Select
  <2> HIDE DEF row
  <2>3. JobsTyped'
    BY <2>1, <2>2 DEF TypeOK, JobsTyped
  <2> QED
    BY <1>6, <2>3 DEF Select, TypeOK, JobsTyped
<1>7. ASSUME NEW j \in Job, NEW s \in Session, Attempt(j, s) PROVE TypeOK'
  <2> DEFINE row == [job[j] EXCEPT !.pc = "post", !.session = s]
  <2>1. row \in JobRow /\ row.session = s /\ row.batch = job[j].batch
    BY DEF JobRow, TypeOK
  <2>2. job' = [job EXCEPT ![j] = row] /\ job[j].batch[s] # 0
    BY <1>7 DEF Attempt
  <2> HIDE DEF row
  <2>3. JobsTyped'
    BY <2>1, <2>2 DEF TypeOK, JobsTyped
  <2>4. retryable' \in [Session -> BOOLEAN]
    BY <1>7 DEF Attempt, TypeOK
  <2> QED
    BY <1>7, <2>3, <2>4 DEF Attempt, TypeOK, JobsTyped
<1>8. ASSUME NEW j \in Job, PostConfirmed(j) PROVE TypeOK'
  <2> DEFINE row == [job[j] EXCEPT !.pc = "mark"]
  <2>1. row \in JobRow /\ row.session = job[j].session /\ row.batch = job[j].batch
    BY DEF JobRow, TypeOK
  <2>2. job' = [job EXCEPT ![j] = row] /\ job[j].pc = "post"
    BY <1>8 DEF PostConfirmed
  <2> HIDE DEF row
  <2>3. JobsTyped'
    BY <2>1, <2>2, JobTyped DEF TypeOK, JobsTyped
  <2>4. admin' \in [Session -> 0 .. MaxRating]
    BY <1>8, JobTyped DEF PostConfirmed, Store, TypeOK
  <2> QED
    BY <1>8, <2>3, <2>4 DEF PostConfirmed, TypeOK, JobsTyped
<1>9. ASSUME NEW j \in Job, PostFailed(j) PROVE TypeOK'
  <2>1. JobsTyped'
    BY <1>9, RunMovesOn DEF PostFailed
  <2>2. admin' \in [Session -> 0 .. MaxRating]
    BY <1>9, JobTyped DEF PostFailed, Store, TypeOK
  <2> QED
    BY <1>9, <2>1, <2>2 DEF PostFailed, TypeOK, JobsTyped
<1>10. ASSUME NEW j \in Job, MarkSynced(j) PROVE TypeOK'
  <2>1. JobsTyped'
    BY <1>10, RunMovesOn DEF MarkSynced
  <2>2. synced' \in [Session -> BOOLEAN]
    BY <1>10 DEF MarkSynced, TypeOK
  <2> QED
    BY <1>10, <2>1, <2>2 DEF MarkSynced, TypeOK, JobsTyped
<1>11. ASSUME NEW j \in Job, MarkFailed(j) PROVE TypeOK'
  <2>1. JobsTyped'
    BY <1>11, RunMovesOn DEF MarkFailed
  <2>2. fails' \in 0 .. MaxFail
    BY <1>11 DEF MarkFailed, TypeOK
  <2> QED
    BY <1>11, <2>1, <2>2 DEF MarkFailed, TypeOK, JobsTyped
<1>12. ASSUME NEW j \in Job, Abort(j) PROVE TypeOK'
  <2>1. JobsTyped'
    BY <1>12, RunEnds DEF Abort
  <2>2. fails' \in 0 .. MaxFail
    BY <1>12 DEF Abort, TypeOK
  <2> QED
    BY <1>12, <2>1, <2>2 DEF Abort, TypeOK, JobsTyped
<1>13. CASE UNCHANGED vars
  BY <1>13 DEF vars, TypeOK
<1> QED
  BY <1>1, <1>2, <1>3, <1>4, <1>5, <1>6, <1>7, <1>8, <1>9, <1>10, <1>11, <1>12, <1>13
     DEF Next, ContinueCall, ContinueJob

-------------------------------------------------------------------------------
(* What is marked is stored *)

LEMMA InitIInv == Init => IInv
<1> SUFFICES ASSUME Init PROVE IInv
  OBVIOUS
<1>1. \A c \in Call : call[c] = IdleCall
  BY DEF Init
<1>2. \A j \in Job : job[j] = IdleJob
  BY DEF Init
<1>3. TypeOK
  <2>1. call \in [Call -> CallRow] /\ job \in [Job -> JobRow]
    BY IdleTyped DEF Init
  <2>2. /\ rating \in [Session -> 0 .. MaxRating]
        /\ admin \in [Session -> 0 .. MaxRating]
        /\ times \in [Session -> 0 .. MaxTimes]
        /\ fails \in 0 .. MaxFail
    BY ReviewSyncAssumption DEF Init
  <2>3. synced \in [Session -> BOOLEAN] /\ retryable \in [Session -> BOOLEAN]
    BY DEF Init
  <2>4. overtaken \subseteq Session
    BY DEF Init
  <2> QED
    BY <1>1, <1>2, <2>1, <2>2, <2>3, <2>4, IdleTyped DEF TypeOK
<1>4. CallsCurrent
  BY <1>1, IdleTyped DEF CallsCurrent
<1>5. JobsCurrent
  BY <1>2, IdleTyped DEF JobsCurrent, NoBatch
<1>6. MarkedIsStored
  BY DEF Init, MarkedIsStored
<1> QED
  BY <1>3, <1>4, <1>5, <1>6 DEF IInv

(* What the admin backend has of a session that is not overtaken stays.    *)
StoredStays == \A s \in Session : s \notin overtaken /\ admin[s] = rating[s] => admin'[s] = rating[s]

LEMMA StoreStays ==
  ASSUME TypeOK, NEW s \in Session, NEW r \in 0 .. MaxRating,
         s \notin overtaken => r = rating[s],
         Store(s, r) \/ UNCHANGED admin
  PROVE  StoredStays
  BY DEF StoredStays, Store, TypeOK

(* The calls stay current when call c goes on to row, and the runs stay.   *)
LEMMA CallStays ==
  ASSUME IInv, UNCHANGED <<rating, job, overtaken>>, StoredStays,
         NEW c \in Call, NEW row, call' = [call EXCEPT ![c] = row],
         row.pc = "idle" \/
           /\ row.session = call[c].session /\ row.rating = call[c].rating
           /\ call[c].pc # "idle"
           /\ admin'[row.session] = row.rating
  PROVE  CallsCurrent' /\ JobsCurrent'
<1>1. CallsCurrent'
  <2> SUFFICES ASSUME NEW d \in Call, call'[d].pc # "idle", call'[d].session \notin overtaken
               PROVE  /\ call'[d].rating = rating[call'[d].session]
                      /\ call'[d].pc = "mark" => admin'[call'[d].session] = call'[d].rating
    BY DEF CallsCurrent
  <2>1. CASE d = c
    BY <2>1 DEF IInv, TypeOK, CallsCurrent
  <2>2. CASE d # c
    <3>1. call'[d] = call[d]
      BY <2>2 DEF IInv, TypeOK
    <3> QED
      BY <3>1, CallTyped DEF IInv, CallsCurrent, StoredStays
  <2> QED
    BY <2>1, <2>2
<1>2. JobsCurrent'
  BY DEF IInv, JobsCurrent, StoredStays
<1> QED
  BY <1>1, <1>2

(* The runs stay current when run j goes on with part of its batch.        *)
LEMMA RunStays ==
  ASSUME IInv, UNCHANGED <<rating, call, overtaken>>, StoredStays, NEW j \in Job,
         \A i \in Job \ {j} : job'[i] = job[i],
         \A s \in Session : job'[j].batch[s] # 0 => job'[j].batch[s] = job[j].batch[s],
         job'[j].pc = "mark" => /\ job'[j].session \in Session
                                /\ admin'[job'[j].session] = job[j].batch[job'[j].session]
  PROVE  CallsCurrent' /\ JobsCurrent'
<1>1. CallsCurrent'
  BY CallTyped DEF IInv, CallsCurrent, StoredStays
<1>2. JobsCurrent'
  <2> SUFFICES ASSUME NEW i \in Job, NEW s \in Session, job'[i].batch[s] # 0, s \notin overtaken
               PROVE  /\ job'[i].batch[s] = rating[s]
                      /\ job'[i].pc = "mark" /\ job'[i].session = s => admin'[s] = rating[s]
    BY DEF JobsCurrent
  <2>1. CASE i = j
    BY <2>1 DEF IInv, JobsCurrent
  <2>2. CASE i # j
    BY <2>2 DEF IInv, JobsCurrent, StoredStays
  <2> QED
    BY <2>1, <2>2
<1> QED
  BY <1>1, <1>2

LEMMA MarkedStays ==
  ASSUME IInv, UNCHANGED <<rating, synced, overtaken>>, StoredStays PROVE MarkedIsStored'
  BY DEF IInv, MarkedIsStored, StoredStays

(* A new rating overtakes whatever is under way, or nothing is.            *)
LEMMA RateIInv ==
  ASSUME IInv, NEW c \in Call, NEW s \in Session, NEW r, RateCustomer(c, s, r)
  PROVE  CallsCurrent' /\ JobsCurrent' /\ MarkedIsStored'
<1>1. /\ overtaken \subseteq overtaken'
      /\ s \notin overtaken' => ~synced[s] /\ ~UnderWay(s)
      /\ rating'[s] = r /\ \A q \in Session \ {s} : rating'[q] = rating[q]
      /\ call'[c] = [pc |-> "post", session |-> s, rating |-> r]
      /\ \A d \in Call \ {c} : call'[d] = call[d]
      /\ UNCHANGED <<synced, admin, job>>
  BY DEF RateCustomer, IInv, TypeOK
<1>2. CallsCurrent'
  <2> SUFFICES ASSUME NEW d \in Call, call'[d].pc # "idle", call'[d].session \notin overtaken'
               PROVE  /\ call'[d].rating = rating'[call'[d].session]
                      /\ call'[d].pc = "mark" => admin'[call'[d].session] = call'[d].rating
    BY DEF CallsCurrent
  <2>1. CASE d = c
    BY <1>1, <2>1
  <2>2. CASE d # c
    BY <1>1, <2>2, CallTyped DEF IInv, CallsCurrent, UnderWay
  <2> QED
    BY <2>1, <2>2
<1>3. JobsCurrent'
  BY <1>1 DEF IInv, JobsCurrent, UnderWay
<1>4. MarkedIsStored'
  BY <1>1 DEF IInv, MarkedIsStored
<1> QED
  BY <1>2, <1>3, <1>4

LEMMA StepIInv == IInv /\ [Next]_vars => IInv'
<1> SUFFICES ASSUME IInv, [Next]_vars PROVE CallsCurrent' /\ JobsCurrent' /\ MarkedIsStored'
  BY StepTypeOK DEF IInv
<1>0. TypeOK
  BY DEF IInv
<1>1. ASSUME NEW c \in Call, Post(c) PROVE CallsCurrent' /\ JobsCurrent' /\ MarkedIsStored'
  <2>1. /\ call[c].pc = "post" /\ call[c].session \in Session
        /\ call[c].rating \in 0 .. MaxRating
        /\ UNCHANGED <<rating, synced, job, overtaken>>
    BY <1>0, <1>1, CallTyped DEF Post
  <2>2. StoredStays
    BY <1>0, <1>1, <2>1, StoreStays DEF Post, IInv, CallsCurrent
  <2>3. CASE call' = [call EXCEPT ![c] = IdleCall]
    BY <2>1, <2>2, <2>3, CallStays, MarkedStays, IdleTyped
  <2>4. CASE /\ Store(call[c].session, call[c].rating)
             /\ call' = [call EXCEPT ![c].pc = "mark"]
    <3> DEFINE row == [call[c] EXCEPT !.pc = "mark"]
    <3>1. row.session = call[c].session /\ row.rating = call[c].rating
      BY <1>0 DEF TypeOK, CallRow
    <3>2. call' = [call EXCEPT ![c] = row] /\ admin'[row.session] = row.rating
      BY <1>0, <2>1, <2>4, <3>1 DEF Store, TypeOK
    <3> HIDE DEF row
    <3> QED
      BY <2>1, <2>2, <3>1, <3>2, CallStays, MarkedStays
  <2> QED
    BY <1>1, <2>3, <2>4 DEF Post
<1>2. ASSUME NEW c \in Call, Mark(c) PROVE CallsCurrent' /\ JobsCurrent' /\ MarkedIsStored'
  <2>1. /\ call[c].pc = "mark" /\ call[c].session \in Session
        /\ UNCHANGED <<rating, admin, job, overtaken>>
        /\ call' = [call EXCEPT ![c] = IdleCall]
    BY <1>0, <1>2, CallTyped DEF Mark
  <2>2. CallsCurrent' /\ JobsCurrent'
    BY <2>1, CallStays, IdleTyped DEF StoredStays
  <2>3. MarkedIsStored'
    BY <1>0, <1>2, <2>1 DEF Mark, IInv, CallsCurrent, MarkedIsStored, TypeOK
  <2> QED
    BY <2>2, <2>3
<1>3. ASSUME NEW c \in Call, FailCall(c) PROVE CallsCurrent' /\ JobsCurrent' /\ MarkedIsStored'
  BY <1>3, CallStays, MarkedStays, IdleTyped DEF FailCall, StoredStays
<1>4. ASSUME NEW s \in Session, MinutePasses(s)
      PROVE  CallsCurrent' /\ JobsCurrent' /\ MarkedIsStored'
  BY <1>4 DEF MinutePasses, IInv, CallsCurrent, JobsCurrent, MarkedIsStored
<1>5. ASSUME NEW j \in Job, Select(j) PROVE CallsCurrent' /\ JobsCurrent' /\ MarkedIsStored'
  <2>1. /\ \A i \in Job \ {j} : job'[i] = job[i]
        /\ job'[j].pc = "attempt"
        /\ \A s \in Session : job'[j].batch[s] # 0 => job'[j].batch[s] = rating[s]
        /\ UNCHANGED <<rating, synced, admin, call, overtaken>>
    BY <1>0, <1>5 DEF Select, TypeOK
  <2> QED
    BY <2>1 DEF IInv, CallsCurrent, JobsCurrent, MarkedIsStored
<1>6. ASSUME NEW j \in Job, NEW s \in Session, Attempt(j, s)
      PROVE  CallsCurrent' /\ JobsCurrent' /\ MarkedIsStored'
  <2>1. /\ \A i \in Job \ {j} : job'[i] = job[i]
        /\ job'[j].pc = "post" /\ job'[j].batch = job[j].batch
        /\ UNCHANGED <<rating, synced, admin, call, overtaken>>
    BY <1>0, <1>6 DEF Attempt, TypeOK, JobRow
  <2> QED
    BY <2>1, RunStays, MarkedStays DEF StoredStays
<1>7. ASSUME NEW j \in Job, PostConfirmed(j)
      PROVE  CallsCurrent' /\ JobsCurrent' /\ MarkedIsStored'
  <2>1. /\ job[j].session \in Session /\ job[j].batch[job[j].session] \in 1 .. MaxRating
        /\ UNCHANGED <<rating, synced, call, overtaken>>
        /\ Store(job[j].session, job[j].batch[job[j].session])
    BY <1>0, <1>7, JobTyped DEF PostConfirmed
  <2>2. /\ \A i \in Job \ {j} : job'[i] = job[i]
        /\ job'[j].batch = job[j].batch /\ job'[j].session = job[j].session
    BY <1>0, <1>7 DEF PostConfirmed, TypeOK, JobRow
  <2>3. StoredStays
    BY <1>0, <2>1, StoreStays, ReviewSyncAssumption DEF IInv, JobsCurrent
  <2>4. admin'[job[j].session] = job[j].batch[job[j].session]
    BY <1>0, <2>1 DEF Store, TypeOK
  <2> QED
    BY <2>1, <2>2, <2>3, <2>4, RunStays, MarkedStays
<1>8. ASSUME NEW j \in Job, PostFailed(j) PROVE CallsCurrent' /\ JobsCurrent' /\ MarkedIsStored'
  <2>1. /\ job[j].session \in Session /\ job[j].batch[job[j].session] \in 1 .. MaxRating
        /\ UNCHANGED <<rating, synced, call, overtaken>>
        /\ Store(job[j].session, job[j].batch[job[j].session]) \/ UNCHANGED admin
    BY <1>0, <1>8, JobTyped DEF PostFailed
  <2>2. StoredStays
    BY <1>0, <2>1, StoreStays, ReviewSyncAssumption DEF IInv, JobsCurrent
  <2>3. job[j].pc \in {"post", "mark"} /\ Onward(j)
    BY <1>8 DEF PostFailed
  <2> QED
    BY <1>0, <2>1, <2>2, <2>3, OnwardRow, RunStays, MarkedStays
<1>9. ASSUME NEW j \in Job, MarkSynced(j) PROVE CallsCurrent' /\ JobsCurrent' /\ MarkedIsStored'
  <2>1. /\ job[j].pc = "mark" /\ Onward(j)
        /\ UNCHANGED <<rating, admin, call, overtaken>>
        /\ job[j].session \in Session /\ job[j].batch[job[j].session] \in 1 .. MaxRating
    BY <1>0, <1>9, JobTyped DEF MarkSynced
  <2>2. CallsCurrent' /\ JobsCurrent'
    BY <1>0, <2>1, OnwardRow, RunStays DEF StoredStays
  <2>3. job[j].session \notin overtaken => admin[job[j].session] = rating[job[j].session]
    BY <2>1, ReviewSyncAssumption DEF IInv, JobsCurrent
  <2>4. MarkedIsStored'
    BY <1>0, <1>9, <2>1, <2>3 DEF MarkSynced, IInv, MarkedIsStored, TypeOK
  <2> QED
    BY <2>2, <2>4
<1>10. ASSUME NEW j \in Job, MarkFailed(j)
       PROVE  CallsCurrent' /\ JobsCurrent' /\ MarkedIsStored'
  <2>1. /\ job[j].pc \in {"post", "mark"} /\ Onward(j)
        /\ UNCHANGED <<rating, synced, admin, call, overtaken>>
    BY <1>10 DEF MarkFailed
  <2> QED
    BY <1>0, <2>1, OnwardRow, RunStays, MarkedStays DEF StoredStays
<1>11. ASSUME NEW j \in Job, Abort(j) PROVE CallsCurrent' /\ JobsCurrent' /\ MarkedIsStored'
  <2>1. /\ \A i \in Job \ {j} : job'[i] = job[i]
        /\ job'[j].pc = "idle" /\ \A s \in Session : job'[j].batch[s] = 0
        /\ UNCHANGED <<rating, synced, admin, call, overtaken>>
    BY <1>0, <1>11, IdleTyped DEF Abort, TypeOK, NoBatch
  <2> QED
    BY <2>1, RunStays, MarkedStays DEF StoredStays
<1>12. CASE UNCHANGED vars
  BY <1>12 DEF vars, IInv, CallsCurrent, JobsCurrent, MarkedIsStored
<1> QED
  BY <1>1, <1>2, <1>3, <1>4, <1>5, <1>6, <1>7, <1>8, <1>9, <1>10, <1>11, <1>12, RateIInv
     DEF Next, ContinueCall, ContinueJob

(* The inductive invariant of the posts and the job.                       *)
THEOREM Invariance == Spec => []IInv
  BY InitIInv, StepIInv, PTL DEF Spec

(* Type correctness of the review synchronisation. *)
THEOREM TypeCorrect == Spec => []TypeOK
  BY Invariance, PTL DEF IInv

(* A session marked synchronised has its present rating at the admin       *)
(* backend, unless it was rated again too early or too late.               *)
THEOREM MarksAreTrue == Spec => []MarkedIsStored
  BY Invariance, PTL DEF IInv
===============================================================================
