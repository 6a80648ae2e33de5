--------------------------- MODULE SettlementProofs ---------------------------
(***************************************************************************)
(* Proofs about Settlement for any number of sessions, concurrent calls    *)
(* and failures.                                                           *)
(***************************************************************************)
EXTENDS Settlement, FiniteSetTheorems, TLAPS

-------------------------------------------------------------------------------
(* Type correctness *)

LEMMA IdleTyped == Idle \in CallRow
  BY DEF Idle, CallRow, Step, SessionStatus

(* A call that moves on or ends keeps its row well typed. *)
LEMMA RowTyped ==
  ASSUME NEW row \in CallRow, NEW pc \in Step
  PROVE  [row EXCEPT !.pc = pc] \in CallRow
  BY DEF CallRow

(* The types hold at the start and no step breaks them. *)
LEMMA InitTypeOK == Init => TypeOK
  BY IdleTyped, SettlementAssumption DEF Init, TypeOK, Idle, SessionStatus

(* What Start does, whichever handler it is. *)
Starting(c, s) ==
    \/ /\ call[c].pc = "idle"
       /\ call' = [call EXCEPT ![c] = [pc |-> "complete", session |-> s, to |-> "completed"]]
       /\ UNCHANGED <<status, earnings, counted, fails>>
    \/ \E to \in {"pre_arrival", "active", "cancelled"} :
       /\ call[c].pc = "idle"
       /\ call' = [call EXCEPT ![c] = [pc |-> "move", session |-> s, to |-> to]]
       /\ UNCHANGED <<status, earnings, counted, fails>>

LEMMA StartIsStarting ==
  ASSUME NEW c \in Call, NEW s \in Session, Start(c, s)
  PROVE  Starting(c, s)
  BY DEF Start, Starting, EndEarly, CompleteSession, CompleteSessionByBooking, Complete,
         MarkPreArrival, Activate, CancelSession, Move, Read

LEMMA StepTypeOK == TypeOK /\ [Next]_vars => TypeOK'
<1> SUFFICES ASSUME TypeOK, [Next]_vars PROVE TypeOK'
  OBVIOUS
<1> USE SettlementAssumption DEF TypeOK
<1>1. ASSUME NEW c \in Call, NEW s \in Session, Start(c, s) PROVE TypeOK'
  BY <1>1, StartIsStarting DEF Starting, CallRow, Step, SessionStatus
<1>2. ASSUME NEW c \in Call, CompletionWrite(c) PROVE TypeOK'
  <2> call[c].session \in Session
    BY <1>2 DEF CompletionWrite
  <2> [call[c] EXCEPT !.pc = "lookup"] \in CallRow
    BY RowTyped DEF Step
  <2> QED
    BY <1>2 DEF CompletionWrite, Goto, SessionStatus
<1>3. ASSUME NEW c \in Call, LookupEarnings(c) PROVE TypeOK'
  <2>0. /\ [call[c] EXCEPT !.pc = "create"] \in CallRow
        /\ call[c].session \in Session
    BY <1>3, RowTyped DEF Step, LookupEarnings
  <2>1. CASE earnings[call[c].session] = 0
    <3>1. /\ call' = [call EXCEPT ![c] = [call[c] EXCEPT !.pc = "create"]]
          /\ UNCHANGED <<status, earnings, counted, fails>>
      BY <1>3, <2>1 DEF LookupEarnings, Goto
    <3> QED
      BY <2>0, <3>1
  <2>2. CASE earnings[call[c].session] # 0
    BY <1>3, <2>2, IdleTyped DEF LookupEarnings, End, Idle
  <2> QED
    BY <2>1, <2>2
<1>4. ASSUME NEW c \in Call, CreateEarnings(c) PROVE TypeOK'
  <2> [call[c] EXCEPT !.pc = "count"] \in CallRow
    BY RowTyped DEF Step
  <2> QED
    BY <1>4 DEF CreateEarnings, Goto
<1>5. ASSUME NEW c \in Call, CountSession(c) PROVE TypeOK'
  BY <1>5, IdleTyped DEF CountSession, End, Idle
<1>6. ASSUME NEW c \in Call, StatusWrite(c) PROVE TypeOK'
  <2> call[c].to \in SessionStatus
    BY DEF CallRow
  <2> QED
    BY <1>6, IdleTyped DEF StatusWrite, End, Idle
<1>7. ASSUME NEW c \in Call, Fail(c) PROVE TypeOK'
  BY <1>7, IdleTyped DEF Fail, End, Idle
<1>8. CASE UNCHANGED vars
  BY <1>8 DEF vars
<1>9. QED
  BY <1>1, <1>2, <1>3, <1>4, <1>5, <1>6, <1>7, <1>8 DEF Next, Continue

(* Type correctness of the settlement. *)
THEOREM TypeCorrect == Spec => []TypeOK
  BY InitTypeOK, StepTypeOK, PTL DEF Spec

-------------------------------------------------------------------------------
(* The session count and the ledger *)

LEMMA AtFinite == ASSUME NEW pc, NEW s PROVE IsFiniteSet(At(pc, s))
  BY SettlementAssumption, FS_Subset DEF At

(* A call that takes up the count of session s joins those at "count".     *)
LEMMA Joining ==
  ASSUME TypeOK, NEW c \in Call, call[c].pc = "create", Goto(c, "count"), NEW s \in Session
  PROVE  Cardinality(At("count", s)') =
            IF s = call[c].session THEN Cardinality(At("count", s)) + 1
                                   ELSE Cardinality(At("count", s))
<1>1. CASE s = call[c].session
  <2>1. At("count", s)' = At("count", s) \cup {c}
    BY <1>1 DEF Goto, At, TypeOK, CallRow
  <2>2. c \notin At("count", s)
    BY DEF At
  <2> QED
    BY <1>1, <2>1, <2>2, AtFinite, FS_AddElement
<1>2. CASE s # call[c].session
  <2>1. At("count", s)' = At("count", s)
    BY <1>2 DEF Goto, At, TypeOK, CallRow
  <2> QED
    BY <1>2, <2>1
<1> QED
  BY <1>1, <1>2

(* A call that ends leaves them, if it was one of them. *)
LEMMA Leaving ==
  ASSUME TypeOK, NEW c \in Call, End(c), NEW s \in Session
  PROVE  Cardinality(At("count", s)') =
            IF c \in At("count", s) THEN Cardinality(At("count", s)) - 1
                                    ELSE Cardinality(At("count", s))
<1>1. At("count", s)' = At("count", s) \ {c}
  BY DEF End, At, TypeOK, Idle
<1> QED
  BY <1>1, AtFinite, FS_RemoveElement

LEMMA InitCount == Init => CountFollowsLedger
<1> SUFFICES ASSUME Init PROVE CountFollowsLedger
  OBVIOUS
<1>1. \A s \in Session : At("count", s) = {}
  BY DEF Init, At, Idle
<1> QED
  BY <1>1, FS_EmptySet DEF Init, CountFollowsLedger

LEMMA StepCount == TypeOK /\ CountFollowsLedger /\ [Next]_vars => CountFollowsLedger'
<1> SUFFICES ASSUME TypeOK, CountFollowsLedger, [Next]_vars, NEW s \in Session
             PROVE  /\ (counted[s] + Cardinality(At("count", s)) <= earnings[s])'
                    /\ (earnings[s] <= counted[s] + Cardinality(At("count", s)) + fails)'
  BY DEF CountFollowsLedger
<1> DEFINE n == Cardinality(At("count", s))
<1>0. /\ n \in Nat
      /\ counted[s] \in Nat /\ earnings[s] \in Nat /\ fails \in Nat
      /\ counted[s] + n <= earnings[s]
      /\ earnings[s] <= counted[s] + n + fails
  BY AtFinite, FS_CardinalityType, SettlementAssumption DEF TypeOK, CountFollowsLedger
<1> HIDE DEF n
<1>1. ASSUME NEW c \in Call, NEW q \in Session, Start(c, q) PROVE n' = n
  <2> At("count", s)' = At("count", s)
    BY <1>1, StartIsStarting DEF Starting, At, TypeOK
  <2> QED
    BY DEF n
<1>2. ASSUME NEW c \in Call, CompletionWrite(c) PROVE n' = n
  <2> At("count", s)' = At("count", s)
    BY <1>2 DEF CompletionWrite, Goto, At, TypeOK, CallRow
  <2> QED
    BY DEF n
<1>3. ASSUME NEW c \in Call, LookupEarnings(c) PROVE n' = n
  <2>1. CASE earnings[call[c].session] = 0
    <3>1. call[c].pc = "lookup" /\ Goto(c, "create")
      BY <1>3, <2>1 DEF LookupEarnings
    <3>2. At("count", s)' = At("count", s)
      BY <3>1 DEF Goto, At, TypeOK, CallRow
    <3> QED
      BY <3>2 DEF n
  <2>2. CASE earnings[call[c].session] # 0
    <3>1. End(c) /\ c \notin At("count", s)
      BY <1>3, <2>2 DEF LookupEarnings, At
    <3> QED
      BY <3>1, Leaving DEF n
  <2> QED
    BY <2>1, <2>2
<1>4. ASSUME NEW c \in Call, CreateEarnings(c)
      PROVE  /\ counted'[s] + n' <= earnings'[s]
             /\ earnings'[s] <= counted'[s] + n' + fails'
  <2>1. n' = IF s = call[c].session THEN n + 1 ELSE n
    BY <1>4, Joining DEF CreateEarnings, n
  <2>2. earnings'[s] = IF s = call[c].session THEN earnings[s] + 1 ELSE earnings[s]
    BY <1>4 DEF CreateEarnings, TypeOK
  <2> QED
    BY <1>0, <1>4, <2>1, <2>2 DEF CreateEarnings
<1>5. ASSUME NEW c \in Call, CountSession(c)
      PROVE  /\ counted'[s] + n' <= earnings'[s]
             /\ earnings'[s] <= counted'[s] + n' + fails'
  <2>1. n' = IF s = call[c].session THEN n - 1 ELSE n
    BY <1>5, Leaving DEF CountSession, At, n
  <2>2. counted'[s] = IF s = call[c].session THEN counted[s] + 1 ELSE counted[s]
    BY <1>5 DEF CountSession, TypeOK
  <2> QED
    BY <1>0, <1>5, <2>1, <2>2 DEF CountSession
<1>6. ASSUME NEW c \in Call, StatusWrite(c) PROVE n' = n
  BY <1>6, Leaving DEF StatusWrite, At, n
<1>7. ASSUME NEW c \in Call, Fail(c)
      PROVE  /\ counted'[s] + n' <= earnings'[s]
             /\ earnings'[s] <= counted'[s] + n' + fails'
  <2>1. n' = n \/ n' = n - 1
    BY <1>7, Leaving DEF Fail, n
  <2> QED
    BY <1>0, <1>7, <2>1 DEF Fail
<1>8. ASSUME UNCHANGED vars
      PROVE  /\ counted'[s] + n' <= earnings'[s]
             /\ earnings'[s] <= counted'[s] + n' + fails'
  <2>1. n' = n
    BY <1>8 DEF vars, n, At
  <2> QED
    BY <1>0, <1>8, <2>1 DEF vars
<1>9. ASSUME n' = n, UNCHANGED <<earnings, counted, fails>>
      PROVE  /\ counted'[s] + n' <= earnings'[s]
             /\ earnings'[s] <= counted'[s] + n' + fails'
  BY <1>0, <1>9
<1>10. ASSUME NEW c \in Call, NEW q \in Session, Start(c, q)
       PROVE  /\ counted'[s] + n' <= earnings'[s]
              /\ earnings'[s] <= counted'[s] + n' + fails'
  <2>1. UNCHANGED <<earnings, counted, fails>>
    BY <1>10, StartIsStarting DEF Starting
  <2> QED
    BY <1>1, <1>9, <1>10, <2>1
<1>11. ASSUME NEW c \in Call, CompletionWrite(c) \/ LookupEarnings(c) \/ StatusWrite(c)
       PROVE  /\ counted'[s] + n' <= earnings'[s]
              /\ earnings'[s] <= counted'[s] + n' + fails'
  <2>1. n' = n
    BY <1>2, <1>3, <1>6, <1>11
  <2>2. UNCHANGED <<earnings, counted, fails>>
    BY <1>11 DEF CompletionWrite, LookupEarnings, StatusWrite
  <2> QED
    BY <1>9, <2>1, <2>2
<1>12. /\ counted'[s] + n' <= earnings'[s]
       /\ earnings'[s] <= counted'[s] + n' + fails'
  BY <1>4, <1>5, <1>7, <1>8, <1>10, <1>11 DEF Next, Continue
<1> QED
  BY <1>12 DEF n

(* The companion's session count never runs ahead of the earnings rows and *)
(* lags only by calls about to count and by calls that died in between.    *)
THEOREM CountMatchesLedger == Spec => []CountFollowsLedger
  BY InitTypeOK, StepTypeOK, InitCount, StepCount, PTL DEF Spec

-------------------------------------------------------------------------------
(* Lost credits *)

Losses == {s \in Session : Lost(s)}

(* Only a completion writes "completed": a status handler never does. *)
MovesElsewhere == \A c \in Call : call[c].pc = "move" => call[c].to # "completed"

LEMMA StepMoves == TypeOK /\ MovesElsewhere /\ [Next]_vars => MovesElsewhere'
<1> SUFFICES ASSUME TypeOK, MovesElsewhere, [Next]_vars PROVE MovesElsewhere'
  OBVIOUS
<1> USE DEF TypeOK, MovesElsewhere
<1>1. ASSUME NEW c \in Call, NEW s \in Session, Start(c, s) PROVE MovesElsewhere'
  BY <1>1, StartIsStarting DEF Starting
<1>2. ASSUME NEW c \in Call, NEW pc \in {"lookup", "create", "count"}, Goto(c, pc)
      PROVE  MovesElsewhere'
  BY <1>2 DEF Goto, CallRow
<1>3. ASSUME NEW c \in Call, End(c) PROVE MovesElsewhere'
  BY <1>3 DEF End, Idle
<1>4. ASSUME NEW c \in Call, Continue(c) \/ Fail(c) PROVE MovesElsewhere'
  <2>1. End(c) \/ \E pc \in {"lookup", "create", "count"} : Goto(c, pc)
    BY <1>4 DEF Continue, CompletionWrite, LookupEarnings, CreateEarnings, CountSession,
                StatusWrite, Fail
  <2> QED
    BY <1>2, <1>3, <2>1
<1>5. CASE UNCHANGED vars
  BY <1>5 DEF vars
<1> QED
  BY <1>1, <1>4, <1>5 DEF Next

(* No step of a handler loses a credit, unless the handler dies there. *)
LEMMA StepLosses ==
  ASSUME TypeOK, MovesElsewhere, [Next]_vars
  PROVE  \/ Losses' \subseteq Losses /\ fails' = fails
         \/ \E s \in Session : Losses' \subseteq Losses \cup {s} /\ fails' = fails + 1
<1> USE DEF TypeOK, Losses, Lost, At
<1>1. ASSUME NEW c \in Call, NEW s \in Session, Start(c, s)
      PROVE  Losses' \subseteq Losses /\ fails' = fails
  BY <1>1, StartIsStarting DEF Starting
<1>2. ASSUME NEW c \in Call, CompletionWrite(c) PROVE Losses' \subseteq Losses /\ fails' = fails
  BY <1>2 DEF CompletionWrite, Goto, CallRow
<1>3. ASSUME NEW c \in Call, LookupEarnings(c) PROVE Losses' \subseteq Losses /\ fails' = fails
  <2>1. CASE earnings[call[c].session] = 0
    BY <1>3, <2>1 DEF LookupEarnings, Goto, CallRow
  <2>2. CASE earnings[call[c].session] # 0
    BY <1>3, <2>2 DEF LookupEarnings, End, Idle
  <2> QED
    BY <2>1, <2>2
<1>4. ASSUME NEW c \in Call, CreateEarnings(c) PROVE Losses' \subseteq Losses /\ fails' = fails
  BY <1>4 DEF CreateEarnings, Goto, CallRow
<1>5. ASSUME NEW c \in Call, CountSession(c) PROVE Losses' \subseteq Losses /\ fails' = fails
  BY <1>5 DEF CountSession, End, Idle
<1>6. ASSUME NEW c \in Call, StatusWrite(c) PROVE Losses' \subseteq Losses /\ fails' = fails
  BY <1>6 DEF StatusWrite, End, Idle, MovesElsewhere
<1>7. ASSUME NEW c \in Call, Fail(c)
      PROVE  \E s \in Session : Losses' \subseteq Losses \cup {s} /\ fails' = fails + 1
  <2>1. call[c].session \in Session
    BY <1>7 DEF Fail
  <2>2. Losses' \subseteq Losses \cup {call[c].session}
    BY <1>7 DEF Fail, End, Idle
  <2> QED
    BY <1>7, <2>1, <2>2 DEF Fail
<1>8. CASE UNCHANGED vars
  BY <1>8 DEF vars
<1> QED
  BY <1>1, <1>2, <1>3, <1>4, <1>5, <1>6, <1>7, <1>8 DEF Next, Continue

LEMMA StepOneLoss ==
  TypeOK /\ MovesElsewhere /\ OneLossPerFailure /\ [Next]_vars => OneLossPerFailure'
<1> SUFFICES ASSUME TypeOK, MovesElsewhere, Cardinality(Losses) <= fails, [Next]_vars
             PROVE  Cardinality(Losses') <= fails'
  BY DEF OneLossPerFailure, Losses
<1>1. IsFiniteSet(Losses) /\ Cardinality(Losses) \in Nat /\ fails \in Nat
  BY SettlementAssumption, FS_Subset, FS_CardinalityType DEF Losses, TypeOK
<1>2. ASSUME Losses' \subseteq Losses
      PROVE  Cardinality(Losses') <= Cardinality(Losses) /\ Cardinality(Losses') \in Nat
  BY <1>1, <1>2, FS_Subset, FS_CardinalityType
<1>3. ASSUME NEW s, Losses' \subseteq Losses \cup {s}
      PROVE  Cardinality(Losses') <= Cardinality(Losses) + 1 /\ Cardinality(Losses') \in Nat
  <2>1. /\ IsFiniteSet(Losses \cup {s})
        /\ Cardinality(Losses \cup {s}) =
              IF s \in Losses THEN Cardinality(Losses) ELSE Cardinality(Losses) + 1
    BY <1>1, FS_AddElement
  <2>2. /\ IsFiniteSet(Losses')
        /\ Cardinality(Losses') <= Cardinality(Losses \cup {s})
    BY <1>3, <2>1, FS_Subset
  <2>3. Cardinality(Losses') \in Nat
    BY <2>2, FS_CardinalityType
  <2> QED
    BY <1>1, <2>1, <2>2, <2>3
<1>4. CASE Losses' \subseteq Losses /\ fails' = fails
  BY <1>1, <1>2, <1>4
<1>5. CASE \E s \in Session : Losses' \subseteq Losses \cup {s} /\ fails' = fails + 1
  BY <1>1, <1>3, <1>5
<1> QED
  BY <1>4, <1>5, StepLosses

(* A completed session stays uncredited only if the call that completed it *)
(* died, one session for one failure at most, however many handlers run.   *)
THEOREM OneLoss == Spec => []OneLossPerFailure
<1>1. Init => MovesElsewhere /\ OneLossPerFailure
  <2> SUFFICES ASSUME Init PROVE MovesElsewhere /\ OneLossPerFailure
    OBVIOUS
  <2>1. MovesElsewhere
    BY DEF Init, MovesElsewhere, Idle
  <2>2. {s \in Session : Lost(s)} = {}
    BY DEF Init, Lost
  <2> QED
    BY <2>1, <2>2, FS_EmptySet, SettlementAssumption DEF Init, OneLossPerFailure
<1> QED
  BY <1>1, InitTypeOK, StepTypeOK, StepMoves, StepOneLoss, PTL DEF Spec

-------------------------------------------------------------------------------
(* One handler at a time *)

(* Whoever is about to create the earnings has found none. *)
FoundNone == \A c \in Call : call[c].pc = "create" => earnings[call[c].session] = 0

LEMMA StepOnce ==
  ASSUME \A c, d \in Call : c = d, TypeOK, FoundNone, CreditedOnce, [Next]_vars
  PROVE  FoundNone' /\ CreditedOnce'
<1> USE DEF TypeOK, FoundNone, CreditedOnce
<1>1. ASSUME NEW c \in Call, NEW s \in Session, Start(c, s) PROVE FoundNone' /\ CreditedOnce'
  BY <1>1, StartIsStarting DEF Starting
<1>2. ASSUME NEW c \in Call, CompletionWrite(c) PROVE FoundNone' /\ CreditedOnce'
  BY <1>2 DEF CompletionWrite, Goto, CallRow
<1>3. ASSUME NEW c \in Call, LookupEarnings(c) PROVE FoundNone' /\ CreditedOnce'
  BY <1>3 DEF LookupEarnings, Goto, End, Idle, CallRow
<1>4. ASSUME NEW c \in Call, CreateEarnings(c) PROVE FoundNone' /\ CreditedOnce'
  <2>1. \A d \in Call : call'[d].pc # "create"
    BY <1>4 DEF CreateEarnings, Goto, CallRow
  <2>2. \A s \in Session : earnings'[s] = IF s = call[c].session THEN 1 ELSE earnings[s]
    BY <1>4 DEF CreateEarnings
  <2> QED
    BY <2>1, <2>2
<1>5. ASSUME NEW c \in Call, CountSession(c) PROVE FoundNone' /\ CreditedOnce'
  BY <1>5 DEF CountSession, End, Idle
<1>6. ASSUME NEW c \in Call, StatusWrite(c) PROVE FoundNone' /\ CreditedOnce'
  BY <1>6 DEF StatusWrite, End, Idle
<1>7. ASSUME NEW c \in Call, Fail(c) PROVE FoundNone' /\ CreditedOnce'
  BY <1>7 DEF Fail, End, Idle
<1>8. CASE UNCHANGED vars
  BY <1>8 DEF vars
<1>9. QED
  BY <1>1, <1>2, <1>3, <1>4, <1>5, <1>6, <1>7, <1>8 DEF Next, Continue

(* Run one after the other, completions credit a session once, whichever   *)
(* of the three handlers they are and whatever dies in between: only two   *)
(* handlers at once pay twice.                                             *)
THEOREM CreditedOnceSerially ==
  ASSUME \A c, d \in Call : c = d
  PROVE  Spec => []CreditedOnce
<1>1. Init => FoundNone /\ CreditedOnce
  BY DEF Init, FoundNone, CreditedOnce, Idle
<1>2. TypeOK /\ FoundNone /\ CreditedOnce /\ [Next]_vars => FoundNone' /\ CreditedOnce'
  BY StepOnce
<1> QED
  BY <1>1, <1>2, InitTypeOK, StepTypeOK, PTL DEF Spec
===============================================================================
