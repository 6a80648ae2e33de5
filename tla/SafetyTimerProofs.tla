-------------------------- MODULE SafetyTimerProofs ---------------------------
(***************************************************************************)
(* Proofs about SafetyTimer for any number of companions, overlapping runs *)
(* of the job, check-ins and failures.                                     *)
(***************************************************************************)
EXTENDS SafetyTimer, TLAPS

(* What a job still has to mark is as it found it, was changed by its      *)
(* companion since, or was marked by another run.                          *)
ListedFresh ==
    \A j \in Job : job[j].pc = "mark" =>
        \A p \in job[j].list : p \in touched[j] \cup RanOut \/ timer[p] = "expired"

IInv == TypeOK /\ ListedFresh /\ NoAlertForgotten

-------------------------------------------------------------------------------
(* Type correctness *)

LEMMA OnwardTyped ==
  ASSUME TypeOK, NEW j \in Job, NEW p \in job[j].list, job[j].pc = "alert", Onward(j, p)
  PROVE  /\ job' \in [Job -> JobRow]
         /\ \A i \in Job : job'[i].pc = "idle" <=> job'[i].list = {}
<1> DEFINE rest == job[j].list \ {p}
<1>1. CASE rest = {}
  <2>1. job' = [job EXCEPT ![j] = IdleJob]
    BY <1>1 DEF Onward
  <2> QED
    BY <2>1 DEF TypeOK, JobRow, IdleJob
<1>2. CASE rest # {}
  <2>1. job' = [job EXCEPT ![j] = [job[j] EXCEPT !.list = rest]]
    BY <1>2 DEF Onward
  <2>2. [job[j] EXCEPT !.list = rest] \in JobRow
    BY DEF TypeOK, JobRow
  <2> QED
    BY <1>2, <2>1, <2>2 DEF TypeOK, JobRow
<1> QED
  BY <1>1, <1>2

LEMMA StepTypeOK == TypeOK /\ [Next]_vars => TypeOK'
<1> SUFFICES ASSUME TypeOK, [Next]_vars PROVE TypeOK'
  OBVIOUS
<1> USE SafetyTimerAssumption
<1>1. CASE Companions
  <2>1. ASSUME NEW p \in Companion, StartTimer(p) PROVE TypeOK'
    BY <2>1 DEF StartTimer, Touch, TypeOK, TimerStatus
  <2>2. ASSUME NEW p \in Companion, CancelTimer(p) PROVE TypeOK'
    BY <2>2 DEF CancelTimer, Touch, TypeOK, TimerStatus
  <2>3. ASSUME NEW p \in Companion, RunOut(p) PROVE TypeOK'
    BY <2>3 DEF RunOut, TypeOK
  <2>4. ASSUME NEW c \in Call, NEW p \in Companion, CheckinRead(c, p) PROVE TypeOK'
    BY <2>4 DEF CheckinRead, TypeOK
  <2>5. ASSUME NEW c \in Call, CheckinWrite(c) PROVE TypeOK'
    BY <2>5 DEF CheckinWrite, Touch, TypeOK
  <2> QED
    BY <1>1, <2>1, <2>2, <2>3, <2>4, <2>5 DEF Companions
<1>2. ASSUME NEW j \in Job, FindExpired(j) PROVE TypeOK'
  <2>1. [pc |-> "mark", list |-> RanOut] \in JobRow /\ RanOut # {}
    BY <1>2 DEF JobRow, RanOut, FindExpired
  <2> QED
    BY <1>2, <2>1 DEF FindExpired, TypeOK
<1>3. ASSUME NEW j \in Job, MarkExpired(j) PROVE TypeOK'
  <2>1. [job[j] EXCEPT !.pc = "alert"] \in JobRow
    BY DEF TypeOK, JobRow
  <2> QED
    BY <1>3, <2>1 DEF MarkExpired, TypeOK, TimerStatus, JobRow
<1>4. ASSUME NEW j \in Job, NEW p \in Companion, DispatchAlert(j, p) PROVE TypeOK'
  BY <1>4, OnwardTyped DEF DispatchAlert, TypeOK
<1>5. ASSUME NEW j \in Job, NEW p \in Companion, SwallowAlert(j, p) PROVE TypeOK'
  BY <1>5, OnwardTyped DEF SwallowAlert, TypeOK
<1>6. ASSUME NEW j \in Job, Abort(j) PROVE TypeOK'
  BY <1>6 DEF Abort, TypeOK, JobRow, IdleJob
<1>7. CASE UNCHANGED vars
  BY <1>7 DEF vars, TypeOK
<1> QED
  BY <1>1, <1>2, <1>3, <1>4, <1>5, <1>6, <1>7 DEF Next, Jobs, Continue

-------------------------------------------------------------------------------
(* The inductive invariant *)

LEMMA InitIInv == Init => IInv
<1> SUFFICES ASSUME Init PROVE IInv
  OBVIOUS
<1>1. TypeOK
  <2>1. IdleJob \in JobRow /\ IdleJob.pc = "idle" /\ IdleJob.list = {}
    BY DEF IdleJob, JobRow
  <2>2. job \in [Job -> JobRow] /\ \A j \in Job : job[j].pc = "idle" <=> job[j].list = {}
    BY <2>1 DEF Init
  <2>3. fails \in 0 .. MaxFail
    BY SafetyTimerAssumption DEF Init
  <2>4. /\ timer \in [Companion -> TimerStatus]
        /\ touched \in [Job -> SUBSET Companion]
        /\ checkin \in [Call -> Companion \cup {Null}]
    BY DEF Init, TimerStatus
  <2>5. due \in [Companion -> BOOLEAN] /\ alerted \in [Companion -> BOOLEAN] /\ lost \in BOOLEAN
    BY DEF Init
  <2> QED
    BY <2>2, <2>3, <2>4, <2>5 DEF TypeOK
<1>2. ListedFresh
  BY DEF Init, ListedFresh, IdleJob
<1>3. NoAlertForgotten
  BY DEF Init, NoAlertForgotten
<1> QED
  BY <1>1, <1>2, <1>3 DEF IInv

(* What a companion does is noticed in touched or leaves its timer as found. *)
LEMMA CompanionsFresh ==
  ASSUME IInv, Companions PROVE ListedFresh' /\ NoAlertForgotten'
<1> USE DEF IInv, TypeOK, ListedFresh, NoAlertForgotten, RanOut
<1>1. ASSUME NEW p \in Companion, StartTimer(p) PROVE ListedFresh' /\ NoAlertForgotten'
  BY <1>1 DEF StartTimer, Touch
<1>2. ASSUME NEW p \in Companion, CancelTimer(p) PROVE ListedFresh' /\ NoAlertForgotten'
  BY <1>2 DEF CancelTimer, Touch
<1>3. ASSUME NEW p \in Companion, RunOut(p) PROVE ListedFresh' /\ NoAlertForgotten'
  BY <1>3 DEF RunOut
<1>4. ASSUME NEW c \in Call, NEW p \in Companion, CheckinRead(c, p)
      PROVE  ListedFresh' /\ NoAlertForgotten'
  BY <1>4 DEF CheckinRead
<1>5. ASSUME NEW c \in Call, CheckinWrite(c) PROVE ListedFresh' /\ NoAlertForgotten'
  BY <1>5 DEF CheckinWrite, Touch
<1> QED
  BY <1>1, <1>2, <1>3, <1>4, <1>5 DEF Companions

(* What Onward takes off the list of j is p, and it leaves the other runs. *)
LEMMA OnwardTakes ==
  ASSUME TypeOK, NEW j \in Job, NEW p \in job[j].list, job[j].pc = "alert", Onward(j, p)
  PROVE  /\ job'[j].pc # "mark"
         /\ \A q \in job[j].list \ {p} : job'[j].pc = "alert" /\ q \in job'[j].list
         /\ \A i \in Job \ {j} : job'[i] = job[i]
<1> DEFINE rest == job[j].list \ {p}
<1>1. CASE rest = {}
  BY <1>1 DEF Onward, TypeOK, IdleJob
<1>2. CASE rest # {}
  <2>1. job' = [job EXCEPT ![j] = [job[j] EXCEPT !.list = rest]]
    BY <1>2 DEF Onward
  <2> QED
    BY <2>1 DEF TypeOK, JobRow
<1> QED
  BY <1>1, <1>2

LEMMA StepIInv == IInv /\ [Next]_vars => IInv'
<1> SUFFICES ASSUME IInv, [Next]_vars PROVE ListedFresh' /\ NoAlertForgotten'
  BY StepTypeOK DEF IInv
<1> USE DEF IInv
<1>1. ASSUME NEW j \in Job, FindExpired(j) PROVE ListedFresh' /\ NoAlertForgotten'
  BY <1>1 DEF FindExpired, TypeOK, ListedFresh, NoAlertForgotten, RanOut
<1>2. ASSUME NEW j \in Job, MarkExpired(j) PROVE ListedFresh' /\ NoAlertForgotten'
  <2>1. /\ job'[j].pc = "alert" /\ job'[j].list = job[j].list
        /\ \A i \in Job \ {j} : job'[i] = job[i]
    BY <1>2 DEF MarkExpired, TypeOK, JobRow
  <2>2. /\ \A p \in job[j].list : timer'[p] = "expired"
        /\ \A p \in Companion \ job[j].list : timer'[p] = timer[p] /\ alerted'[p] = alerted[p]
    BY <1>2 DEF MarkExpired, TypeOK, JobRow
  <2>3. ListedFresh'
    <3> SUFFICES ASSUME NEW i \in Job, job'[i].pc = "mark", NEW p \in job'[i].list
                 PROVE  p \in (touched[i] \cup RanOut)' \/ timer'[p] = "expired"
      BY DEF ListedFresh
    <3>1. i # j /\ job'[i] = job[i] /\ p \in Companion
      BY <2>1 DEF TypeOK, JobRow
    <3> QED
      BY <1>2, <2>2, <3>1 DEF MarkExpired, ListedFresh, RanOut
  <2>4. NoAlertForgotten'
    <3> SUFFICES ASSUME NEW p \in Companion, timer'[p] = "expired", ~alerted'[p]
                 PROVE  lost' \/ \E i \in Job : job'[i].pc = "alert" /\ p \in job'[i].list
      BY DEF NoAlertForgotten
    <3>1. CASE p \in job[j].list
      BY <2>1, <3>1
    <3>2. CASE p \notin job[j].list
      <4>1. lost \/ \E i \in Job : job[i].pc = "alert" /\ p \in job[i].list
        BY <2>2, <3>2 DEF NoAlertForgotten
      <4> QED
        BY <1>2, <2>1, <4>1 DEF MarkExpired
    <3> QED
      BY <3>1, <3>2
  <2> QED
    BY <2>3, <2>4
<1>3. ASSUME NEW j \in Job, NEW p \in Companion, DispatchAlert(j, p)
      PROVE  ListedFresh' /\ NoAlertForgotten'
  <2>1. /\ job'[j].pc # "mark"
        /\ \A q \in job[j].list \ {p} : job'[j].pc = "alert" /\ q \in job'[j].list
        /\ \A i \in Job \ {j} : job'[i] = job[i]
    BY <1>3, OnwardTakes DEF DispatchAlert
  <2>2. ListedFresh'
    BY <1>3, <2>1 DEF DispatchAlert, ListedFresh, RanOut
  <2>3. NoAlertForgotten'
    BY <1>3, <2>1 DEF DispatchAlert, NoAlertForgotten, TypeOK
  <2> QED
    BY <2>2, <2>3
<1>4. ASSUME NEW j \in Job, NEW p \in Companion, SwallowAlert(j, p)
      PROVE  ListedFresh' /\ NoAlertForgotten'
  <2>1. job'[j].pc # "mark" /\ \A i \in Job \ {j} : job'[i] = job[i]
    BY <1>4, OnwardTakes DEF SwallowAlert
  <2> QED
    BY <1>4, <2>1 DEF SwallowAlert, ListedFresh, NoAlertForgotten, RanOut
<1>5. ASSUME NEW j \in Job, Abort(j) PROVE ListedFresh' /\ NoAlertForgotten'
  BY <1>5 DEF Abort, ListedFresh, NoAlertForgotten, RanOut, TypeOK, IdleJob
<1>6. CASE UNCHANGED vars
  BY <1>6 DEF vars, ListedFresh, NoAlertForgotten, RanOut
<1> QED
  BY <1>1, <1>2, <1>3, <1>4, <1>5, <1>6, CompanionsFresh DEF Next, Jobs, Continue

(* The inductive invariant of the timer and its job.                       *)
THEOREM Invariance == Spec => []IInv
  BY InitIInv, StepIInv, PTL DEF Spec

(* Type correctness of the safety timer. *)
THEOREM TypeCorrect == Spec => []TypeOK
  BY Invariance, PTL DEF IInv

(* An expired timer has been alerted or is about to be, unless a failure   *)
(* fell between the marking and the alerts.                                *)
THEOREM AlertsKept == Spec => []NoAlertForgotten
  BY Invariance, PTL DEF IInv

-------------------------------------------------------------------------------
(* A timer expires only if it has run out, or if its companion changed it  *)
(* after a run of the job had found it run out.                            *)
THEOREM AlarmsJustified == Spec => FalseAlarmNeedsRace
<1>1. ASSUME IInv, [Next]_vars, NEW p \in Companion, timer[p] # "expired", timer'[p] = "expired"
      PROVE  \E j \in Job : p \in job[j].list /\ p \in touched[j] \cup RanOut
  <2>1. ~Companions
    BY <1>1 DEF Companions, StartTimer, CancelTimer, RunOut, CheckinRead, CheckinWrite,
                IInv, TypeOK
  <2>2. PICK j \in Job : MarkExpired(j)
    BY <1>1, <2>1 DEF Next, Jobs, Continue, FindExpired, DispatchAlert, SwallowAlert, Abort, vars
  <2>3. p \in job[j].list /\ job[j].pc = "mark"
    BY <1>1, <2>2 DEF MarkExpired
  <2> QED
    BY <1>1, <2>3 DEF IInv, ListedFresh
<1>2. IInv /\ [Next]_vars =>
        [\A p \in Companion :
            timer[p] # "expired" /\ timer'[p] = "expired"
               => \E j \in Job : /\ p \in job[j].list
                                 /\ p \in touched[j] \cup RanOut]_vars
  BY <1>1
<1> QED
  BY <1>2, Invariance, PTL DEF Spec, FalseAlarmNeedsRace
===============================================================================
