----------------------------- MODULE SafetyTimer ------------------------------
(***************************************************************************)
(* The safety timer of safety.service.ts: a companion starts a timer and   *)
(* has to check in or cancel before it runs out; a job that runs every     *)
(* minute, on every server, marks the timers that ran out and raises an    *)
(* alert for each.                                                         *)
(*                                                                         *)
(* The job finds, marks and alerts in separate statements, and marks by id *)
(* without asking again whether the timer is still running.                *)
(***************************************************************************)
EXTENDS Naturals, FiniteSets

CONSTANTS
    Companion,      \* each has one timer row (companionId is unique)
    Job,            \* runs of the job that may overlap
    Call,           \* check-ins in progress
    Null,           \* no companion
    MaxFail         \* bound: failures of a job or of one of its alerts

ASSUME SafetyTimerAssumption ==
    /\ Null \notin Companion
    /\ MaxFail \in Nat

VARIABLES
    timer,          \* safety_timers.status
    due,            \* whether expiresAt has passed
    alerted,        \* whether an alert was raised since the timer expired
    job,            \* runs of the job
    checkin,        \* the timer a check-in has read, or Null
    fails,          \* failures so far
    lost,           \* whether a failure fell between marking and alerting
    touched         \* history: listed timers changed before the job marks them

vars == <<timer, due, alerted, job, checkin, fails, lost, touched>>

-------------------------------------------------------------------------------
(* The enum's idle is written by nothing; none is a row that does not exist. *)
TimerStatus == {"none", "active", "expired", "cancelled"}

JobRow == [pc : {"idle", "mark", "alert"}, list : SUBSET Companion]

IdleJob == [pc |-> "idle", list |-> {}]

TypeOK ==
    /\ timer \in [Companion -> TimerStatus]
    /\ due \in [Companion -> BOOLEAN]
    /\ alerted \in [Companion -> BOOLEAN]
    /\ job \in [Job -> JobRow]
    /\ \A j \in Job : job[j].pc = "idle" <=> job[j].list = {}
    /\ checkin \in [Call -> Companion \cup {Null}]
    /\ fails \in 0 .. MaxFail
    /\ lost \in BOOLEAN
    /\ touched \in [Job -> SUBSET Companion]

Init ==
    /\ timer = [p \in Companion |-> "none"]
    /\ due = [p \in Companion |-> FALSE]
    /\ alerted = [p \in Companion |-> FALSE]
    /\ job = [j \in Job |-> IdleJob]
    /\ checkin = [c \in Call |-> Null]
    /\ fails = 0
    /\ lost = FALSE
    /\ touched = [j \in Job |-> {}]

(* The companion changes a row: jobs that have listed it do not notice. *)
Touch(p) ==
    touched' = [j \in Job |->
        IF job[j].pc = "mark" /\ p \in job[j].list THEN touched[j] \cup {p} ELSE touched[j]]

-------------------------------------------------------------------------------
(* The companion *)

(* An upsert: any earlier timer starts afresh. *)
StartTimer(p) ==
    /\ timer' = [timer EXCEPT ![p] = "active"]
    /\ due' = [due EXCEPT ![p] = FALSE]
    /\ Touch(p)
    /\ UNCHANGED <<alerted, job, checkin, fails, lost>>

CheckinRead(c, p) ==
    /\ checkin[c] = Null
    /\ timer[p] = "active"
    /\ checkin' = [checkin EXCEPT ![c] = p]
    /\ UNCHANGED <<timer, due, alerted, job, fails, lost, touched>>

(* The update moves expiresAt only, whatever the status is by now. *)
CheckinWrite(c) ==
    /\ checkin[c] # Null
    /\ due' = [due EXCEPT ![checkin[c]] = FALSE]
    /\ Touch(checkin[c])
    /\ checkin' = [checkin EXCEPT ![c] = Null]
    /\ UNCHANGED <<timer, alerted, job, fails, lost>>

CancelTimer(p) ==
    /\ timer[p] = "active"
    /\ timer' = [timer EXCEPT ![p] = "cancelled"]
    /\ Touch(p)
    /\ UNCHANGED <<due, alerted, job, checkin, fails, lost>>

(* External: the clock passes expiresAt. *)
RunOut(p) ==
    /\ timer[p] # "none" /\ ~due[p]
    /\ due' = [due EXCEPT ![p] = TRUE]
    /\ UNCHANGED <<timer, alerted, job, checkin, fails, lost, touched>>

-------------------------------------------------------------------------------
(* The job *)

RanOut == {p \in Companion : timer[p] = "active" /\ due[p]}

(* Faulty: the status decides, the deadline is not asked for. *)
FindExpiredAnyDeadline(j) ==
    LET found == {p \in Companion : timer[p] = "active"}
    IN /\ job[j].pc = "idle"
       /\ found # {}
       /\ job' = [job EXCEPT ![j] = [pc |-> "mark", list |-> found]]
       /\ touched' = [touched EXCEPT ![j] = {}]
       /\ UNCHANGED <<timer, due, alerted, checkin, fails, lost>>

FindExpired(j) ==
    /\ job[j].pc = "idle"
    /\ RanOut # {}
    /\ job' = [job EXCEPT ![j] = [pc |-> "mark", list |-> RanOut]]
    /\ touched' = [touched EXCEPT ![j] = {}]
    /\ UNCHANGED <<timer, due, alerted, checkin, fails, lost>>

(* Faulty: the job marks whatever has run out by now, and alerts for what  *)
(* it found before.                                                        *)
MarkExpiredByDate(j) ==
    /\ job[j].pc = "mark"
    /\ timer' = [p \in Companion |-> IF p \in RanOut THEN "expired" ELSE timer[p]]
    /\ alerted' = [p \in Companion |-> alerted[p] /\ p \notin RanOut]
    /\ job' = [job EXCEPT ![j].pc = "alert"]
    /\ UNCHANGED <<due, checkin, fails, lost, touched>>

MarkExpired(j) ==
    /\ job[j].pc = "mark"
    /\ timer' = [p \in Companion |-> IF p \in job[j].list THEN "expired" ELSE timer[p]]
    /\ alerted' = [p \in Companion |->
                      alerted[p] /\ (p \in job[j].list => timer[p] = "expired")]
    /\ job' = [job EXCEPT ![j].pc = "alert"]
    /\ UNCHANGED <<due, checkin, fails, lost, touched>>

(* Faulty: the end of the list does not end the run. *)
OnwardForever(j, p) == job' = [job EXCEPT ![j].list = @ \ {p}]

(* The rest of the list after companion p; the run ends with it. *)
Onward(j, p) ==
    LET rest == job[j].list \ {p}
    IN job' = [job EXCEPT ![j] = IF rest = {} THEN IdleJob ELSE [@ EXCEPT !.list = rest]]

(* Faulty: the first alert ends the run. *)
DispatchAlertOnce(j, p) ==
    /\ job[j].pc = "alert" /\ p \in job[j].list
    /\ alerted' = [alerted EXCEPT ![p] = TRUE]
    /\ job' = [job EXCEPT ![j] = IdleJob]
    /\ UNCHANGED <<timer, due, checkin, fails, lost, touched>>

(* dispatchSafetyAlert and the companion's own notification *)
DispatchAlert(j, p) ==
    /\ job[j].pc = "alert" /\ p \in job[j].list
    /\ alerted' = [alerted EXCEPT ![p] = TRUE]
    /\ Onward(j, p)
    /\ UNCHANGED <<timer, due, checkin, fails, lost, touched>>

(* The insert of the alert fails: the error is swallowed, the run goes on. *)
SwallowAlert(j, p) ==
    /\ job[j].pc = "alert" /\ p \in job[j].list
    /\ fails < MaxFail
    /\ fails' = fails + 1
    /\ lost' = TRUE
    /\ Onward(j, p)
    /\ UNCHANGED <<timer, due, alerted, checkin, touched>>

(* Another statement throws, or the process dies: the run is over. *)
Abort(j) ==
    /\ job[j].pc # "idle"
    /\ fails < MaxFail
    /\ fails' = fails + 1
    /\ lost' = (lost \/ job[j].pc = "alert")
    /\ job' = [job EXCEPT ![j] = IdleJob]
    /\ UNCHANGED <<timer, due, alerted, checkin, touched>>

-------------------------------------------------------------------------------
Companions ==
    \/ \E p \in Companion : StartTimer(p) \/ CancelTimer(p) \/ RunOut(p)
    \/ \E c \in Call, p \in Companion : CheckinRead(c, p)
    \/ \E c \in Call : CheckinWrite(c)

Continue(j) == MarkExpired(j) \/ \E p \in Companion : DispatchAlert(j, p)

Jobs ==
    \E j \in Job :
        \/ FindExpired(j)
        \/ Continue(j)
        \/ \E p \in Companion : SwallowAlert(j, p)
        \/ Abort(j)

Next == Companions \/ Jobs

(* The scheduler starts the job every minute and an awaited statement      *)
(* returns; no companion has to do anything.                               *)
Spec ==
    /\ Init /\ [][Next]_vars
    /\ \A j \in Job : WF_vars(FindExpired(j)) /\ WF_vars(Continue(j))

-------------------------------------------------------------------------------
(* Properties *)

(* A timer expires only if it has run out, or if its companion changed it  *)
(* after a run of the job had found it run out: overlapping runs and       *)
(* aborted ones alone never expire a timer that is cancelled or still has  *)
(* time left.                                                              *)
FalseAlarmNeedsRace ==
    [][\A p \in Companion :
          timer[p] # "expired" /\ timer'[p] = "expired"
             => \E j \in Job : /\ p \in job[j].list
                               /\ p \in touched[j] \cup RanOut]_vars

(* An expired timer has been alerted or a run of the job is about to,      *)
(* however runs overlap and timers restart meanwhile, unless a failure     *)
(* fell between the marking and the alerts.                                *)
NoAlertForgotten ==
    \A p \in Companion :
        timer[p] = "expired" /\ ~alerted[p]
           => lost \/ \E j \in Job : job[j].pc = "alert" /\ p \in job[j].list

(* A timer that runs out is alerted, or its companion checks in, restarts  *)
(* or cancels after all, even if a run of the job dies before it marks.    *)
AlarmRaised ==
    \A p \in Companion :
        (timer[p] = "active" /\ due[p])
           ~> \/ timer[p] = "expired" /\ alerted[p]
              \/ timer[p] = "cancelled" \/ ~due[p] \/ lost
===============================================================================
