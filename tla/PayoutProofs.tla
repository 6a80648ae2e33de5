----------------------------- MODULE PayoutProofs -----------------------------
(***************************************************************************)
(* Proofs about Payout for any earnings, withdrawals, calls and number of  *)
(* clearings that fail.                                                    *)
(***************************************************************************)
EXTENDS Payout, SumLemmas, FunctionTheorems

(* The earnings out of their hold.                                         *)
Unheld == {e \in Earning : ledger[e] # "none" /\ e \in due}

(* The sums of the properties, as sums of functions.                       *)
LEMMA PropertySums ==
    /\ Withdrawn = Sum(amount, Recorded)
    /\ Released = Sum(worth, Unheld)
BY DEF Withdrawn, Released, Unheld, Sum

LEMMA PropertySumsAfter ==
    /\ Withdrawn' = Sum(amount', Recorded')
    /\ Released' = Sum(worth, Unheld')
<1>1. (Withdrawn = Sum(amount, Recorded))' /\ (Released = Sum(worth, Unheld))'
  BY PropertySums, PTL
<1> QED
  BY <1>1

LEMMA AskNatural == \A a \in Ask \cup {0} : a \in Nat
BY PayoutAssumption

LEMMA RowsFinite ==
    /\ \A S \in SUBSET Earning : IsFiniteSet(S)
    /\ \A S \in SUBSET Payout : IsFiniteSet(S)
    /\ \A S \in SUBSET Row : IsFiniteSet(S)
<1>1. IsFiniteSet(Row)
  BY PayoutAssumption, FS_Union DEF Row
<1> QED
  BY <1>1, PayoutAssumption, FS_Subset

LEMMA AmountsNatural ==
    ASSUME NEW f \in [Payout -> Ask \cup {0}], NEW S \in SUBSET Payout
    PROVE  (\A p \in S : f[p] \in Nat) /\ Sum(f, S) \in Nat
<1>1. \A p \in S : f[p] \in Nat
  BY AskNatural
<1>2. IsFiniteSet(S)
  BY RowsFinite
<1> QED
  BY <1>1, <1>2, SumNat

LEMMA WorthNatural ==
    ASSUME NEW S \in SUBSET Earning
    PROVE  (\A e \in S : worth[e] \in Nat) /\ Sum(worth, S) \in Nat
<1>1. \A e \in S : worth[e] \in Nat
  BY PayoutAssumption
<1>2. IsFiniteSet(S)
  BY RowsFinite
<1> QED
  BY <1>1, <1>2, SumNat

LEMMA SumsNatural ==
    ASSUME TypeOK
    PROVE  Withdrawn \in Nat /\ Released \in Nat
<1>1. Recorded \in SUBSET Payout /\ Unheld \in SUBSET Earning /\ amount \in [Payout -> Ask \cup {0}]
  BY DEF Recorded, Unheld, TypeOK
<1> QED
  BY <1>1, AmountsNatural, WorthNatural, PropertySums

-------------------------------------------------------------------------------
(* Types *)

LEMMA TypeInit == Init => TypeOK
<1> SUFFICES ASSUME Init PROVE TypeOK
  OBVIOUS
<1>1. Idle \in CallRow
  BY DEF Idle, CallRow, Step
<1>2. call \in [Call -> CallRow]
  BY <1>1 DEF Init
<1>3. clearFails \in 0 .. MaxClearFail
  BY PayoutAssumption DEF Init
<1>4. autoComplete \in BOOLEAN /\ raced \in BOOLEAN
  BY DEF Init
<1>5. ledger \in [Row -> RowStatus] /\ amount \in [Payout -> Ask \cup {0}] /\ due \in SUBSET Row
  BY DEF Init, RowStatus
<1> QED
  BY <1>2, <1>3, <1>4, <1>5 DEF TypeOK

LEMMA RowsTyped ==
    ASSUME TypeOK, NEW c \in Call
    PROVE  /\ Idle \in CallRow
           /\ Cleared(c) \in CallRow
           /\ [call[c] EXCEPT !.pc = "insert"] \in CallRow
           /\ call[c] \in CallRow
<1>1. call[c] \in CallRow
  BY DEF TypeOK
<1>2. [call[c] EXCEPT !.pc = "insert"] \in CallRow
  BY <1>1 DEF CallRow, Step
<1>3. Idle \in CallRow
  BY DEF Idle, CallRow, Step
<1>4. [call[c] EXCEPT !.pc = "balance", !.rows = {}] \in CallRow
  BY <1>1 DEF CallRow, Step
<1> QED
  BY <1>1, <1>2, <1>3, <1>4 DEF Cleared

LEMMA TypeNext == TypeOK /\ [Next]_vars => TypeOK'
<1> SUFFICES ASSUME TypeOK, [Next]_vars PROVE TypeOK'
  OBVIOUS
<1>a. ASSUME NEW c \in Call, NEW row \in CallRow, Begin(c, row) PROVE call' \in [Call -> CallRow]
  BY <1>a DEF Begin, TypeOK
<1>0. CASE UNCHANGED vars
  BY <1>0 DEF vars, TypeOK
<1>1. ASSUME NEW e \in Earning, Credit(e) PROVE TypeOK'
  BY <1>1 DEF Credit, TypeOK, RowStatus
<1>2. ASSUME NEW e \in Earning, PassHold(e) PROVE TypeOK'
  BY <1>2 DEF PassHold, TypeOK, Row
<1>3. ASSUME NEW c \in Call, NEW ask \in Ask \cup {0}, ClearRead(c, ask) PROVE TypeOK'
  <2>1. Eligible \in SUBSET Row
    BY DEF Eligible, TypeOK
  <2>2. [pc |-> "clear", ask |-> ask, rows |-> Eligible] \in CallRow
    BY <2>1 DEF CallRow, Step
  <2>3. call' \in [Call -> CallRow]
    BY <1>3, <1>a, <2>2 DEF ClearRead
  <2> QED
    BY <1>3, <2>3 DEF ClearRead, TypeOK
<1>4. ASSUME NEW c \in Call, ClearWrite(c) PROVE TypeOK'
  <2>1. call' \in [Call -> CallRow]
    BY <1>4, <1>a, RowsTyped DEF ClearWrite
  <2>2. ledger' \in [Row -> RowStatus]
    BY <1>4 DEF ClearWrite, TypeOK, RowStatus
  <2> QED
    BY <1>4, <2>1, <2>2 DEF ClearWrite, TypeOK
<1>5. ASSUME NEW c \in Call, ClearFail(c) PROVE TypeOK'
  <2>1. call' \in [Call -> CallRow]
    BY <1>5, <1>a, RowsTyped DEF ClearFail
  <2>2. clearFails' \in 0 .. MaxClearFail
    BY <1>5, PayoutAssumption DEF ClearFail, TypeOK
  <2> QED
    BY <1>5, <2>1, <2>2 DEF ClearFail, TypeOK
<1>6. ASSUME NEW c \in Call, CheckBalance(c) PROVE TypeOK'
  <2>1. call' \in [Call -> CallRow]
    BY <1>6, <1>a, RowsTyped DEF CheckBalance
  <2> QED
    BY <1>6, <2>1 DEF CheckBalance, TypeOK
<1>7. ASSUME NEW c \in Call, NEW p \in Payout, RecordPayout(c, p) PROVE TypeOK'
  <2>1. call' \in [Call -> CallRow]
    BY <1>7, <1>a, RowsTyped DEF RecordPayout, End, Begin
  <2>2. ledger' \in [Row -> RowStatus] /\ due' \in SUBSET Row
    BY <1>7 DEF RecordPayout, TypeOK, RowStatus, Row
  <2>3. amount' \in [Payout -> Ask \cup {0}]
    BY <1>7 DEF RecordPayout, TypeOK, CallRow
  <2>4. raced' \in BOOLEAN
    BY <1>7 DEF RecordPayout
  <2> QED
    BY <1>7, <2>1, <2>2, <2>3, <2>4 DEF RecordPayout, TypeOK
<1>8. ASSUME NEW c \in Call, Fail(c) PROVE TypeOK'
  <2>1. call' \in [Call -> CallRow]
    BY <1>8, <1>a, RowsTyped DEF Fail, End, Begin
  <2> QED
    BY <1>8, <2>1 DEF Fail, TypeOK
<1> QED
  BY <1>0, <1>1, <1>2, <1>3, <1>4, <1>5, <1>6, <1>7, <1>8 DEF Next

(* The rows and the calls have the types the handlers give them.           *)
THEOREM PayoutTyped == Spec => []TypeOK
BY TypeInit, TypeNext, PTL DEF Spec

-------------------------------------------------------------------------------
(* What a step may do to the sums                                          *)

(* Rows never go away and a hold does not come back, so what was released  *)
(* stays released.                                                         *)
LEMMA ReleasedGrows ==
    ASSUME TypeOK, TypeOK', [Next]_vars
    PROVE  /\ \A x \in Row : ledger[x] # "none" => ledger'[x] # "none"
           /\ due \subseteq due'
           /\ Released <= Released'
<1>1. ASSUME NEW c \in Call, ClearWrite(c) PROVE \A x \in Row : ledger[x] # "none" => ledger'[x] # "none"
  BY <1>1 DEF ClearWrite
<1>2. ASSUME NEW c \in Call, NEW p \in Payout, RecordPayout(c, p)
      PROVE  \A x \in Row : ledger[x] # "none" => ledger'[x] # "none"
  BY <1>2 DEF RecordPayout, TypeOK
<1>3. ASSUME NEW e \in Earning, Credit(e) PROVE \A x \in Row : ledger[x] # "none" => ledger'[x] # "none"
  BY <1>3 DEF Credit, TypeOK
<1>4. \A x \in Row : ledger[x] # "none" => ledger'[x] # "none"
  BY <1>1, <1>2, <1>3 DEF Next, vars, PassHold, ClearRead, ClearFail, CheckBalance, Fail
<1>5. due \subseteq due'
  BY DEF Next, vars, Credit, PassHold, ClearRead, ClearWrite, ClearFail, CheckBalance, RecordPayout, Fail
<1>6. Unheld \in SUBSET Unheld' /\ Unheld' \in SUBSET Earning
  BY <1>4, <1>5 DEF Unheld, Row
<1>7. Sum(worth, Unheld) <= Sum(worth, Unheld')
  BY <1>6, RowsFinite, WorthNatural, SumSubset
<1> QED
  BY <1>4, <1>5, <1>7, PropertySums, PropertySumsAfter

(* The balance: the payable earnings less the payable withdrawals.         *)
PaidOut == {p \in Payout : ledger[p] \in Payable}
PaidIn == {e \in Earning : ledger[e] \in Payable}

HoldsPassed == \A x \in Row : ledger[x] \in Payable => x \in due

LEMMA BalanceIs ==
    ASSUME TypeOK
    PROVE  Balance = Sum(worth, PaidIn) - Sum(amount, PaidOut)
<1> DEFINE S == {x \in Row : ledger[x] \in Payable}
           v == [x \in Row |-> Value(x)]
<1>1. S \in SUBSET Row /\ IsFiniteSet(S)
  BY RowsFinite
<1>2. Balance = Sum(v, S)
  <2> DEFINE ByName(g) == g = [s \in SUBSET S |-> IF s = {} THEN 0 ELSE Value(Chosen(s)) + g[Unchosen(s)]]
             b == CHOOSE g : ByName(g)
  <2>1. PICK g : Adds(g, v, S) /\ Sum(v, S) = g[S]
    BY <1>1, SumIsAdded
  <2>2. ASSUME NEW s \in SUBSET S, s # {} PROVE v[Chosen(s)] = Value(Chosen(s))
    BY <2>2, ChosenOf
  <2>3. \A h : ByName(h) <=> Adds(h, v, S)
    BY <2>2 DEF Adds
  <2>4. ByName(b)
    BY <2>1, <2>3
  <2>5. Balance = b[S]
    BY DEF Balance, MapThenSumSet, MapThenFoldSet, Chosen, Unchosen
  <2> HIDE DEF ByName, b, v, S
  <2>6. b[S] = g[S]
    <3>1. Adds(b, v, S)
      BY <2>3, <2>4
    <3>2. S \in SUBSET (S \cap S)
      OBVIOUS
    <3> QED
      BY <1>1, <2>1, <3>1, <3>2, AddsAgree
  <2> QED
    BY <2>1, <2>5, <2>6
<1>3. PaidIn \cap PaidOut = {} /\ S = PaidIn \cup PaidOut
  BY PayoutAssumption DEF PaidIn, PaidOut, Row
<1>4. IsFiniteSet(PaidIn) /\ IsFiniteSet(PaidOut)
  BY RowsFinite DEF PaidIn, PaidOut
<1>5. \A x \in PaidIn : v[x] = worth[x] /\ worth[x] \in Nat
  BY PayoutAssumption DEF PaidIn, Row, Value
<1>6. \A x \in PaidOut : v[x] = 0 - amount[x] /\ amount[x] \in Nat
  <2>1. \A x \in PaidOut : amount[x] \in Nat
    BY AskNatural DEF TypeOK, PaidOut
  <2> QED
    BY <2>1, PayoutAssumption DEF PaidOut, Row, Value
<1> HIDE DEF v, S
<1>7. Sum(v, S) = Sum(v, PaidIn \cup PaidOut)
  BY <1>3, Zenon
<1>8. Sum(v, PaidIn \cup PaidOut) = Sum(v, PaidIn) + Sum(v, PaidOut)
  BY <1>3, <1>4, <1>5, <1>6, SumUnion
<1>9. Sum(worth, PaidIn) = Sum(v, PaidIn)
  BY <1>4, <1>5, SumSame
<1>10. Sum(v, PaidOut) = 0 - Sum(amount, PaidOut)
  BY <1>4, <1>6, SumNegated
<1>11. Sum(worth, PaidIn) \in Int /\ Sum(amount, PaidOut) \in Int
  BY <1>4, <1>5, <1>6, SumInt
<1> QED
  BY <1>2, <1>7, <1>8, <1>9, <1>10, <1>11

(* What the check lets pass is covered beside the withdrawals it can see.  *)
LEMMA CheckCovers ==
    ASSUME TypeOK, HoldsPassed, NEW a \in Nat, a <= Balance, NEW S \in SUBSET PaidOut
    PROVE  Sum(amount, S) + a <= Released
<1>1. PaidIn \in SUBSET Unheld /\ Unheld \in SUBSET Earning
  BY DEF PaidIn, Unheld, HoldsPassed, Row, Payable
<1>2. Sum(worth, PaidIn) <= Sum(worth, Unheld)
  BY <1>1, RowsFinite, WorthNatural, SumSubset
<1>3. PaidOut \in SUBSET Payout /\ amount \in [Payout -> Ask \cup {0}]
  BY DEF PaidOut, TypeOK
<1>4. Sum(amount, S) <= Sum(amount, PaidOut)
  BY <1>3, RowsFinite, AmountsNatural, SumSubset
<1>5. Sum(amount, S) \in Nat /\ Sum(amount, PaidOut) \in Nat
  BY <1>3, AmountsNatural
<1>6. Sum(worth, PaidIn) \in Nat /\ Sum(worth, Unheld) \in Nat
  BY <1>1, WorthNatural
<1> QED
  BY <1>2, <1>4, <1>5, <1>6, BalanceIs, PropertySums

-------------------------------------------------------------------------------
(* The rows: one request at a time is covered                              *)

(* A row found to clear exists and is out of its hold.                     *)
FoundDue == \A c \in Call : \A x \in call[c].rows : x \in due /\ ledger[x] # "none"

WithdrawalsDue == Recorded \subseteq due

(* What a request is about to record was covered when it was checked.      *)
AskCovered == \A c \in Call : call[c].pc = "insert" => call[c].ask <= Released

LedgerInv == TypeOK /\ HoldsPassed /\ FoundDue /\ WithdrawalsDue /\ AskCovered /\ EachPayoutCovered

LEMMA LedgerInvInit == Init => LedgerInv
<1> SUFFICES ASSUME Init PROVE LedgerInv
  OBVIOUS
<1>1. TypeOK
  BY TypeInit
<1>2. Recorded = {} /\ HoldsPassed
  BY DEF Init, Recorded, HoldsPassed, Payable, Row
<1>3. FoundDue /\ AskCovered
  BY DEF Init, Idle, FoundDue, AskCovered
<1> QED
  BY <1>1, <1>2, <1>3 DEF LedgerInv, WithdrawalsDue, EachPayoutCovered

LEMMA HoldsPassedNext == LedgerInv /\ [Next]_vars => HoldsPassed' /\ FoundDue' /\ WithdrawalsDue'
<1> SUFFICES ASSUME LedgerInv, [Next]_vars PROVE HoldsPassed' /\ FoundDue' /\ WithdrawalsDue'
  OBVIOUS
<1> USE DEF LedgerInv, HoldsPassed, FoundDue, WithdrawalsDue, Recorded
<1>0. CASE UNCHANGED vars
  BY <1>0 DEF vars
<1>1. ASSUME NEW e \in Earning, Credit(e) PROVE HoldsPassed' /\ FoundDue' /\ WithdrawalsDue'
  BY <1>1, PayoutAssumption DEF Credit, TypeOK, Payable, Row
<1>2. ASSUME NEW e \in Earning, PassHold(e) PROVE HoldsPassed' /\ FoundDue' /\ WithdrawalsDue'
  BY <1>2 DEF PassHold
<1>3. ASSUME NEW c \in Call, NEW ask \in Ask \cup {0}, ClearRead(c, ask)
      PROVE  HoldsPassed' /\ FoundDue' /\ WithdrawalsDue'
  <2>1. \A x \in Eligible : x \in due /\ ledger[x] # "none"
    BY DEF Eligible
  <2>2. FoundDue'
    BY <1>3, <2>1 DEF ClearRead, Begin, TypeOK
  <2> QED
    BY <1>3, <2>2 DEF ClearRead
<1>4. ASSUME NEW c \in Call, ClearWrite(c) PROVE HoldsPassed' /\ FoundDue' /\ WithdrawalsDue'
  <2>1. /\ \A x \in Row : ledger'[x] \in Payable => ledger[x] \in Payable \/ x \in call[c].rows
        /\ \A x \in Row : ledger'[x] # "none" <=> ledger[x] # "none"
    BY <1>4 DEF ClearWrite
  <2>2. Cleared(c).rows \subseteq call[c].rows
    BY DEF Cleared, Idle, TypeOK, CallRow
  <2>3. \A d \in Call : call'[d].rows \subseteq call[d].rows
    BY <1>4, <2>2 DEF ClearWrite, Begin, TypeOK
  <2>4. \A d \in Call : call[d].rows \subseteq Row
    BY DEF TypeOK, CallRow
  <2>5. due' = due
    BY <1>4 DEF ClearWrite
  <2> QED
    BY <2>1, <2>3, <2>4, <2>5 DEF Row
<1>5. ASSUME NEW c \in Call, ClearFail(c) PROVE HoldsPassed' /\ FoundDue' /\ WithdrawalsDue'
  <2>1. Cleared(c).rows \subseteq call[c].rows
    BY DEF Cleared, Idle, TypeOK, CallRow
  <2>2. \A d \in Call : call'[d].rows \subseteq call[d].rows
    BY <1>5, <2>1 DEF ClearFail, Begin, TypeOK
  <2> QED
    BY <1>5, <2>2 DEF ClearFail
<1>6. ASSUME NEW c \in Call, CheckBalance(c) PROVE HoldsPassed' /\ FoundDue' /\ WithdrawalsDue'
  <2>1. \A d \in Call : call'[d].rows = call[d].rows
    BY <1>6 DEF CheckBalance, Begin, TypeOK, CallRow
  <2> QED
    BY <1>6, <2>1 DEF CheckBalance
<1>7. ASSUME NEW c \in Call, NEW p \in Payout, RecordPayout(c, p)
      PROVE  HoldsPassed' /\ FoundDue' /\ WithdrawalsDue'
  <2>1. \A d \in Call : call'[d].rows \subseteq call[d].rows
    BY <1>7 DEF RecordPayout, End, Idle, TypeOK
  <2>2. \A x \in Row : IF x = p THEN ledger'[x] # "none" ELSE ledger'[x] = ledger[x]
    BY <1>7 DEF RecordPayout, TypeOK
  <2>3. due' = due \cup {p}
    BY <1>7 DEF RecordPayout
  <2>4. \A d \in Call : call[d].rows \subseteq Row
    BY DEF TypeOK, CallRow
  <2> QED
    BY <2>1, <2>2, <2>3, <2>4 DEF Row
<1>8. ASSUME NEW c \in Call, Fail(c) PROVE HoldsPassed' /\ FoundDue' /\ WithdrawalsDue'
  <2>1. \A d \in Call : call'[d].rows \subseteq call[d].rows
    BY <1>8 DEF Fail, End, Idle, TypeOK
  <2> QED
    BY <1>8, <2>1 DEF Fail
<1> QED
  BY <1>0, <1>1, <1>2, <1>3, <1>4, <1>5, <1>6, <1>7, <1>8 DEF Next

(* A call that is about to record was so before, or has just been let pass.*)
LEMMA BeforeInsert ==
    ASSUME TypeOK, [Next]_vars, NEW c \in Call, call'[c].pc = "insert"
    PROVE  /\ call'[c].ask = call[c].ask
           /\ call[c].pc = "insert" \/ CheckBalance(c)
<1>1. ASSUME NEW d \in Call, ClearWrite(d) \/ ClearFail(d)
      PROVE  call'[c].ask = call[c].ask /\ call[c].pc = "insert"
  <2>1. Cleared(d).pc # "insert"
    BY DEF Cleared, Idle, TypeOK, CallRow
  <2> QED
    BY <1>1, <2>1 DEF ClearWrite, ClearFail, Begin, TypeOK
<1>2. ASSUME NEW d \in Call, CheckBalance(d)
      PROVE  call'[c].ask = call[c].ask /\ (call[c].pc = "insert" \/ CheckBalance(c))
  BY <1>2 DEF CheckBalance, Begin, TypeOK, CallRow
<1>3. ASSUME NEW d \in Call, NEW p \in Payout, RecordPayout(d, p) \/ Fail(d)
      PROVE  call'[c].ask = call[c].ask /\ call[c].pc = "insert"
  BY <1>3 DEF RecordPayout, Fail, End, Idle, TypeOK
<1>4. ASSUME NEW d \in Call, NEW ask \in Ask \cup {0}, ClearRead(d, ask)
      PROVE  call'[c].ask = call[c].ask /\ call[c].pc = "insert"
  BY <1>4 DEF ClearRead, Begin, TypeOK
<1>5. ASSUME NEW d \in Call, Fail(d) PROVE call'[c].ask = call[c].ask /\ call[c].pc = "insert"
  BY <1>5 DEF Fail, End, Idle, TypeOK
<1>6. ASSUME NEW e \in Earning, Credit(e) \/ PassHold(e) PROVE call' = call
  BY <1>6 DEF Credit, PassHold
<1> QED
  BY <1>1, <1>2, <1>3, <1>4, <1>5, <1>6 DEF Next, vars

LEMMA LedgerInvNext == LedgerInv /\ [Next]_vars => LedgerInv'
<1> SUFFICES ASSUME LedgerInv, [Next]_vars PROVE LedgerInv'
  OBVIOUS
<1>1. TypeOK /\ TypeOK'
  BY TypeNext DEF LedgerInv
<1>2. HoldsPassed' /\ FoundDue' /\ WithdrawalsDue'
  BY HoldsPassedNext
<1>3. Released <= Released'
  BY <1>1, ReleasedGrows
<1>4. Released \in Nat /\ Released' \in Nat
  <2>1. (TypeOK => Withdrawn \in Nat /\ Released \in Nat)'
    BY SumsNatural, PTL
  <2> QED
    BY <1>1, <2>1, SumsNatural
<1>5. \A c \in Call : call[c].ask \in Nat
  BY <1>1, AskNatural DEF TypeOK, CallRow
<1>6. AskCovered'
  <2> SUFFICES ASSUME NEW c \in Call, call'[c].pc = "insert" PROVE call'[c].ask <= Released'
    BY DEF AskCovered
  <2>1. call'[c].ask = call[c].ask /\ (call[c].pc = "insert" \/ CheckBalance(c))
    BY <1>1, BeforeInsert
  <2>2. CASE call[c].pc = "insert"
    <3>1. call[c].ask <= Released
      BY <2>2 DEF LedgerInv, AskCovered
    <3> QED
      BY <1>3, <1>4, <1>5, <2>1, <3>1
  <2>3. CASE CheckBalance(c)
    <3>1. call[c].ask <= Balance
      BY <2>3 DEF CheckBalance
    <3>2. Sum(amount, {}) + call[c].ask <= Released
      BY <1>1, <1>5, <3>1, CheckCovers DEF LedgerInv
    <3>3. Sum(amount, {}) = 0
      BY SumEmpty
    <3> QED
      BY <1>3, <1>4, <1>5, <2>1, <3>2, <3>3
  <2> QED
    BY <2>1, <2>2, <2>3
<1>7. EachPayoutCovered'
  <2> SUFFICES ASSUME NEW p \in Payout, ledger'[p] # "none" PROVE amount'[p] <= Released'
    BY DEF EachPayoutCovered, Recorded
  <2>1. amount[p] \in Nat
    BY <1>1, AskNatural DEF TypeOK
  <2>2. CASE ledger'[p] = ledger[p] /\ amount'[p] = amount[p]
    <3>1. amount[p] <= Released
      BY <2>2 DEF LedgerInv, EachPayoutCovered, Recorded
    <3> QED
      BY <1>3, <1>4, <2>1, <2>2, <3>1
  <2>3. ASSUME NEW c \in Call, NEW q \in Payout, RecordPayout(c, q) PROVE amount'[p] <= Released'
    <3>1. CASE q = p
      <4>1. amount'[p] = call[c].ask /\ call[c].ask <= Released
        BY <1>1, <2>3, <3>1 DEF RecordPayout, TypeOK, LedgerInv, AskCovered
      <4> QED
        BY <1>3, <1>4, <1>5, <4>1
    <3>2. CASE q # p
      <4>1. ledger'[p] = ledger[p] /\ amount'[p] = amount[p]
        BY <1>1, <2>3, <3>2 DEF RecordPayout, TypeOK, Row
      <4> QED
        BY <2>2, <4>1
    <3> QED
      BY <3>1, <3>2
  <2>4. ASSUME NEW c \in Call, ClearWrite(c) PROVE amount'[p] <= Released'
    <3>1. amount' = amount /\ (ledger'[p] # "none" => ledger[p] # "none")
      <4>1. \A x \in call[c].rows : ledger[x] # "none"
        BY DEF LedgerInv, FoundDue
      <4> QED
        BY <2>4, <4>1 DEF ClearWrite, Row
    <3>2. amount[p] <= Released
      BY <3>1 DEF LedgerInv, EachPayoutCovered, Recorded
    <3> QED
      BY <1>3, <1>4, <2>1, <3>1, <3>2
  <2>5. ASSUME NEW e \in Earning, Credit(e) PROVE ledger'[p] = ledger[p] /\ amount'[p] = amount[p]
    BY <1>1, <2>5, PayoutAssumption DEF Credit, TypeOK, Row
  <2> QED
    BY <2>2, <2>3, <2>4, <2>5 DEF Next, vars, PassHold, ClearRead, ClearFail, CheckBalance, Fail
<1> QED
  BY <1>1, <1>2, <1>6, <1>7 DEF LedgerInv

(* The inductive invariant of the ledger: what counts, or was found to     *)
(* clear, is out of its hold, and a request about to record a withdrawal   *)
(* has it covered by itself.                                               *)
THEOREM LedgerInvariant == Spec => []LedgerInv
BY LedgerInvInit, LedgerInvNext, PTL DEF Spec

(* No single withdrawal exceeds the earnings out of their hold.            *)
THEOREM PayoutsCovered == Spec => []EachPayoutCovered
BY LedgerInvariant, PTL DEF LedgerInv

-------------------------------------------------------------------------------
(* What a step does to the withdrawals and to the calls                    *)

(* Only RecordPayout changes an amount or makes a row of a withdrawal.     *)
LEMMA WithdrawalsKept ==
    ASSUME LedgerInv, [Next]_vars, \A c \in Call, p \in Payout : ~RecordPayout(c, p)
    PROVE  /\ amount' = amount /\ raced' = raced
           /\ Recorded' = Recorded
           /\ \A p \in Recorded : ledger[p] \in Payable => ledger'[p] \in Payable
<1> USE DEF LedgerInv
<1>1. ASSUME NEW c \in Call, ClearWrite(c)
      PROVE  Recorded' = Recorded /\ \A p \in Recorded : ledger[p] \in Payable => ledger'[p] \in Payable
  BY <1>1 DEF ClearWrite, Recorded, Row, FoundDue, Payable
<1>2. ASSUME NEW e \in Earning, Credit(e)
      PROVE  Recorded' = Recorded /\ \A p \in Recorded : ledger[p] \in Payable => ledger'[p] \in Payable
  <2>1. \A p \in Payout : ledger'[p] = ledger[p]
    BY <1>2, PayoutAssumption DEF Credit, TypeOK, Row
  <2> QED
    BY <2>1 DEF Recorded
<1>3. amount' = amount /\ raced' = raced
  BY DEF Next, vars, Credit, PassHold, ClearRead, ClearWrite, ClearFail, CheckBalance, Fail
<1> QED
  BY <1>1, <1>2, <1>3 DEF Next, vars, Recorded, PassHold, ClearRead, ClearFail, CheckBalance, Fail

LEMMA Recording ==
    ASSUME TypeOK, NEW c \in Call, NEW p \in Payout, RecordPayout(c, p)
    PROVE  /\ p \notin Recorded /\ Recorded' = Recorded \cup {p}
           /\ amount'[p] = call[c].ask
           /\ \A q \in Recorded : amount'[q] = amount[q] /\ ledger'[q] = ledger[q]
           /\ call' = [call EXCEPT ![c] = Idle]
<1>1. p \in Row /\ Payout \subseteq Row
  BY DEF Row
<1>2. ledger'[p] # "none" /\ \A q \in Payout \ {p} : ledger'[q] = ledger[q]
  BY <1>1 DEF RecordPayout, TypeOK
<1>3. amount'[p] = call[c].ask /\ \A q \in Payout \ {p} : amount'[q] = amount[q]
  BY DEF RecordPayout, TypeOK
<1>4. ledger[p] = "none" /\ call' = [call EXCEPT ![c] = Idle]
  BY DEF RecordPayout, End
<1> QED
  BY <1>2, <1>3, <1>4 DEF Recorded

(* What a call that goes on relies on: where it comes from.                *)
LEMMA BeforeClear ==
    ASSUME TypeOK, [Next]_vars, NEW c \in Call, call'[c].pc = "clear", call'[c] # call[c]
    PROVE  (\E ask \in Ask \cup {0} : ClearRead(c, ask)) /\ call'[c].rows = Eligible
<1>1. ASSUME NEW d \in Call, ClearWrite(d) \/ ClearFail(d) PROVE FALSE
  <2>1. Cleared(d).pc # "clear"
    BY DEF Cleared, Idle, TypeOK, CallRow
  <2> QED
    BY <1>1, <2>1 DEF ClearWrite, ClearFail, Begin, TypeOK
<1>2. ASSUME NEW d \in Call, CheckBalance(d) PROVE FALSE
  BY <1>2 DEF CheckBalance, Begin, TypeOK, CallRow
<1>3. ASSUME NEW d \in Call, NEW p \in Payout, RecordPayout(d, p) PROVE FALSE
  BY <1>3 DEF RecordPayout, End, Idle, TypeOK
<1>4. ASSUME NEW d \in Call, Fail(d) PROVE FALSE
  BY <1>4 DEF Fail, End, Idle, TypeOK
<1>5. ASSUME NEW d \in Call, NEW ask \in Ask \cup {0}, ClearRead(d, ask)
      PROVE  ClearRead(c, ask) /\ call'[c].rows = Eligible
  BY <1>5 DEF ClearRead, Begin, TypeOK
<1>6. ASSUME NEW e \in Earning, Credit(e) \/ PassHold(e) PROVE FALSE
  BY <1>6 DEF Credit, PassHold
<1> QED
  BY <1>1, <1>2, <1>3, <1>4, <1>5, <1>6 DEF Next, vars

LEMMA BeforeBalance ==
    ASSUME TypeOK, [Next]_vars, NEW c \in Call, call'[c].pc = "balance", call'[c] # call[c]
    PROVE  /\ ClearWrite(c) \/ ClearFail(c)
           /\ call[c].pc = "clear" /\ call[c].ask > 0 /\ call'[c].ask = call[c].ask
<1>0. \A d \in Call : call[d].ask \in Nat
  BY AskNatural DEF TypeOK, CallRow
<1>1. ASSUME NEW d \in Call, ClearWrite(d) \/ ClearFail(d)
      PROVE  (ClearWrite(c) \/ ClearFail(c)) /\ call[c].pc = "clear" /\ call[c].ask > 0 /\ call'[c].ask = call[c].ask
  <2>1. call' = [call EXCEPT ![d] = Cleared(d)] /\ call[d].pc = "clear"
    BY <1>1 DEF ClearWrite, ClearFail, Begin
  <2>2. c = d
    BY <2>1 DEF TypeOK
  <2>3. call[c].ask # 0 /\ call'[c].ask = call[c].ask
    BY <2>1, <2>2 DEF Cleared, Idle, TypeOK, CallRow
  <2> QED
    BY <1>0, <1>1, <2>1, <2>2, <2>3
<1>2. ASSUME NEW d \in Call, CheckBalance(d) PROVE FALSE
  BY <1>2 DEF CheckBalance, Begin, TypeOK, CallRow
<1>3. ASSUME NEW d \in Call, NEW p \in Payout, RecordPayout(d, p) PROVE FALSE
  BY <1>3 DEF RecordPayout, End, Idle, TypeOK
<1>4. ASSUME NEW d \in Call, Fail(d) PROVE FALSE
  BY <1>4 DEF Fail, End, Idle, TypeOK
<1>5. ASSUME NEW d \in Call, NEW ask \in Ask \cup {0}, ClearRead(d, ask) PROVE FALSE
  BY <1>5 DEF ClearRead, Begin, TypeOK
<1>6. ASSUME NEW e \in Earning, Credit(e) \/ PassHold(e) PROVE FALSE
  BY <1>6 DEF Credit, PassHold
<1> QED
  BY <1>1, <1>2, <1>3, <1>4, <1>5, <1>6 DEF Next, vars

(* A call asks for what it asked for when it began.                        *)
LEMMA AskFixed ==
    ASSUME TypeOK, [Next]_vars, NEW c \in Call, call'[c].ask > 0
    PROVE  call[c].pc = "idle" \/ call'[c].ask = call[c].ask
<1>0. ~(0 > 0)
  OBVIOUS
<1>1. ASSUME NEW d \in Call, ClearWrite(d) \/ ClearFail(d) PROVE call'[c].ask = call[c].ask
  <2>1. Cleared(d).ask = 0 \/ Cleared(d).ask = call[d].ask
    BY DEF Cleared, Idle, TypeOK, CallRow
  <2> QED
    BY <1>0, <1>1, <2>1 DEF ClearWrite, ClearFail, Begin, TypeOK
<1>2. ASSUME NEW d \in Call, CheckBalance(d) PROVE call'[c].ask = call[c].ask
  BY <1>2 DEF CheckBalance, Begin, TypeOK, CallRow
<1>3. ASSUME NEW d \in Call, NEW p \in Payout, RecordPayout(d, p) PROVE call'[c].ask = call[c].ask
  BY <1>0, <1>3 DEF RecordPayout, End, Idle, TypeOK
<1>4. ASSUME NEW d \in Call, Fail(d) PROVE call'[c].ask = call[c].ask
  BY <1>0, <1>4 DEF Fail, End, Idle, TypeOK
<1>5. ASSUME NEW d \in Call, NEW ask \in Ask \cup {0}, ClearRead(d, ask)
      PROVE  call[c].pc = "idle" \/ call'[c].ask = call[c].ask
  BY <1>5 DEF ClearRead, Begin, TypeOK
<1>6. ASSUME NEW e \in Earning, Credit(e) \/ PassHold(e) PROVE call' = call
  BY <1>6 DEF Credit, PassHold
<1> QED
  BY <1>1, <1>2, <1>3, <1>4, <1>5, <1>6 DEF Next, vars

(* What a call knows of the withdrawals in a set: its clearing reaches     *)
(* those that are pending, its check has seen them all, and together with  *)
(* them what it is about to record is covered.                             *)
Knows(row, own, status, spent, released) ==
    /\ row.pc = "clear" => \A p \in own : status[p] \in Payable \/ p \in row.rows
    /\ row.pc = "balance" => \A p \in own : status[p] \in Payable
    /\ row.pc = "insert" => spent + row.ask <= released

LEMMA KnowledgeKept ==
    ASSUME LedgerInv, LedgerInv', [Next]_vars, NEW c \in Call, NEW own \in SUBSET Recorded,
           Knows(call[c], own, ledger, Sum(amount, own), Released),
           ~ClearFail(c), \A p \in Payout : ~RecordPayout(c, p)
    PROVE  /\ Sum(amount', own) = Sum(amount, own)
           /\ Knows(call'[c], own, ledger', Sum(amount', own), Released')
<1> USE DEF LedgerInv
<1>1. /\ \A p \in own : amount'[p] = amount[p]
      /\ \A p \in own : ledger[p] \in Payable => ledger'[p] \in Payable
  <2>1. CASE \A d \in Call, p \in Payout : ~RecordPayout(d, p)
    BY <2>1, WithdrawalsKept
  <2>2. ASSUME NEW d \in Call, NEW p \in Payout, RecordPayout(d, p)
        PROVE  \A q \in own : amount'[q] = amount[q] /\ ledger'[q] = ledger[q]
    BY <2>2, Recording
  <2> QED
    BY <2>1, <2>2
<1>2. own \in SUBSET Payout /\ own \subseteq due
  BY DEF Recorded, WithdrawalsDue
<1>3. Sum(amount', own) = Sum(amount, own) /\ Sum(amount, own) \in Nat
  <2>1. IsFiniteSet(own) /\ \A p \in own : amount[p] \in Int
    BY <1>2, RowsFinite, AskNatural DEF TypeOK
  <2> QED
    BY <1>1, <1>2, <2>1, SumSame, AmountsNatural DEF TypeOK
<1>4. Released <= Released' /\ Released \in Nat /\ Released' \in Nat
  <2>1. (TypeOK => Withdrawn \in Nat /\ Released \in Nat)'
    BY SumsNatural, PTL
  <2> QED
    BY <2>1, SumsNatural, ReleasedGrows
<1>5. ASSUME call'[c].pc = "clear", NEW p \in own PROVE ledger'[p] \in Payable \/ p \in call'[c].rows
  <2>1. CASE call'[c] = call[c]
    BY <1>1, <1>5, <2>1 DEF Knows
  <2>2. CASE call'[c] # call[c]
    <3>1. call'[c].rows = Eligible
      BY <1>5, <2>2, BeforeClear
    <3>2. p \in Row /\ p \in due /\ ledger[p] # "none" /\ ledger[p] \in RowStatus
      BY <1>2 DEF Row, Recorded, TypeOK
    <3>3. ledger[p] \in Payable \/ p \in Eligible
      BY <3>2 DEF RowStatus, Payable, Eligible
    <3> QED
      BY <1>1, <3>1, <3>3
  <2> QED
    BY <2>1, <2>2
<1>6. ASSUME call'[c].pc = "balance", NEW p \in own PROVE ledger'[p] \in Payable
  <2>1. CASE call'[c] = call[c]
    BY <1>1, <1>6, <2>1 DEF Knows
  <2>2. CASE call'[c] # call[c]
    <3>1. ClearWrite(c) /\ call[c].pc = "clear"
      BY <1>6, <2>2, BeforeBalance
    <3>2. p \in Row
      BY <1>2 DEF Row
    <3>3. ledger[p] \in Payable \/ p \in call[c].rows
      BY <3>1 DEF Knows
    <3> QED
      BY <1>1, <3>1, <3>2, <3>3 DEF ClearWrite, Payable
  <2> QED
    BY <2>1, <2>2
<1>7. ASSUME call'[c].pc = "insert" PROVE Sum(amount', own) + call'[c].ask <= Released'
  <2>1. call'[c].ask = call[c].ask /\ (call[c].pc = "insert" \/ CheckBalance(c))
    BY <1>7, BeforeInsert
  <2>2. call[c].ask \in Nat
    BY AskNatural DEF TypeOK, CallRow
  <2>3. Sum(amount, own) + call[c].ask <= Released
    <3>1. CASE call[c].pc = "insert"
      BY <3>1 DEF Knows
    <3>2. CASE CheckBalance(c)
      <4>1. call[c].ask <= Balance /\ own \in SUBSET PaidOut
        BY <1>2, <3>2 DEF CheckBalance, Knows, PaidOut
      <4> QED
        BY <2>2, <4>1, CheckCovers
    <3> QED
      BY <2>1, <3>1, <3>2
  <2> QED
    BY <1>3, <1>4, <2>1, <2>2, <2>3
<1> QED
  BY <1>3, <1>5, <1>6, <1>7 DEF Knows

-------------------------------------------------------------------------------
(* Requests one after the other                                            *)

(* While no two requests met, a request knows every withdrawal.            *)
SerialKnown ==
    raced \/ clearFails > 0 \/
        /\ Withdrawn <= Released
        /\ \A c \in Call : call[c].ask > 0 => Knows(call[c], Recorded, ledger, Withdrawn, Released)

SerialInv == LedgerInv /\ SerialKnown

LEMMA SerialInvInit == Init => SerialInv
<1> SUFFICES ASSUME Init PROVE SerialInv
  OBVIOUS
<1>1. LedgerInv
  BY LedgerInvInit
<1>2. Recorded = {}
  BY DEF Init, Recorded, Row
<1>3. Withdrawn = 0
  BY <1>2, PropertySums, SumEmpty, Zenon
<1>4. Released \in Nat
  BY TypeInit, SumsNatural
<1>5. \A c \in Call : Knows(call[c], Recorded, ledger, Withdrawn, Released)
  BY DEF Init, Idle, Knows
<1> QED
  BY <1>1, <1>3, <1>4, <1>5 DEF SerialInv, SerialKnown

LEMMA SerialInvNext == SerialInv /\ [Next]_vars => SerialInv'
<1> SUFFICES ASSUME SerialInv, [Next]_vars PROVE SerialInv'
  OBVIOUS
<1>1. LedgerInv /\ LedgerInv' /\ TypeOK /\ TypeOK'
  BY LedgerInvNext DEF SerialInv, LedgerInv
<1>2. Released <= Released' /\ Released \in Nat /\ Released' \in Nat /\ Withdrawn \in Nat
  <2>1. (TypeOK => Withdrawn \in Nat /\ Released \in Nat)'
    BY SumsNatural, PTL
  <2> QED
    BY <1>1, <2>1, SumsNatural, ReleasedGrows
<1>3. clearFails \in Nat /\ clearFails' \in Nat
  BY <1>1, PayoutAssumption DEF TypeOK
<1> SUFFICES ASSUME ~raced', ~(clearFails' > 0)
             PROVE  /\ Withdrawn' <= Released'
                    /\ \A c \in Call :
                          call'[c].ask > 0 => Knows(call'[c], Recorded', ledger', Withdrawn', Released')
  BY <1>1 DEF SerialInv, SerialKnown
<1>4. ~raced /\ ~(clearFails > 0) /\ \A c \in Call : ~ClearFail(c)
  <2>1. \A c \in Call : ~ClearFail(c)
    BY <1>3 DEF ClearFail
  <2>2. ASSUME NEW c \in Call, NEW p \in Payout, RecordPayout(c, p)
        PROVE  (raced => raced') /\ clearFails' = clearFails
    BY <2>2, Zenon DEF RecordPayout
  <2>3. CASE UNCHANGED <<raced, clearFails>>
    BY <2>1, <2>3
  <2>4. (\E c \in Call, p \in Payout : RecordPayout(c, p)) \/ UNCHANGED <<raced, clearFails>>
    BY <2>1 DEF Next, vars, Credit, PassHold, ClearRead, ClearWrite, CheckBalance, Fail
  <2> QED
    BY <2>1, <2>2, <2>3, <2>4
<1>5. /\ Withdrawn <= Released
      /\ \A c \in Call : call[c].ask > 0 => Knows(call[c], Recorded, ledger, Withdrawn, Released)
  BY <1>4 DEF SerialInv, SerialKnown
<1>6. Recorded \in SUBSET Recorded /\ IsFiniteSet(Recorded) /\ Recorded \in SUBSET Payout
  BY RowsFinite DEF Recorded
<1>7. CASE \A c \in Call, p \in Payout : ~RecordPayout(c, p)
  <2>1. amount' = amount /\ Recorded' = Recorded
    BY <1>1, <1>7, WithdrawalsKept
  <2>2. Withdrawn' = Withdrawn
    BY <2>1, PropertySums, PropertySumsAfter
  <2>3. ASSUME NEW c \in Call, call'[c].ask > 0
        PROVE  Knows(call'[c], Recorded', ledger', Withdrawn', Released')
    <3>1. call[c].pc = "idle" \/ call'[c].ask = call[c].ask
      BY <1>1, <2>3, AskFixed
    <3>2. Knows(call[c], Recorded, ledger, Withdrawn, Released)
      BY <1>5, <2>3, <3>1 DEF Knows
    <3>3. Withdrawn = Sum(amount, Recorded)
      BY PropertySums
    <3>4. Knows(call'[c], Recorded, ledger', Sum(amount', Recorded), Released')
      BY <1>1, <1>4, <1>6, <1>7, <3>2, <3>3, KnowledgeKept
    <3>5. Sum(amount', Recorded) = Withdrawn'
      BY <2>1, PropertySumsAfter
    <3> QED
      BY <2>1, <3>4, <3>5
  <2> QED
    BY <1>2, <1>5, <2>2, <2>3
<1>8. ASSUME NEW c \in Call, NEW p \in Payout, RecordPayout(c, p)
      PROVE  /\ Withdrawn' <= Released'
             /\ \A d \in Call :
                   call'[d].ask > 0 => Knows(call'[d], Recorded', ledger', Withdrawn', Released')
  <2>1. /\ p \notin Recorded /\ Recorded' = Recorded \cup {p}
        /\ amount'[p] = call[c].ask
        /\ \A q \in Recorded : amount'[q] = amount[q]
        /\ call' = [call EXCEPT ![c] = Idle]
    BY <1>1, <1>8, Recording
  <2>2. call[c].ask \in Nat /\ \A q \in Recorded : amount[q] \in Nat
    BY <1>1, AskNatural DEF TypeOK, CallRow, Recorded
  <2>3. Withdrawn' = Withdrawn + call[c].ask
    <3>1. Sum(amount', Recorded \cup {p}) = Sum(amount', Recorded) + amount'[p]
      BY <1>6, <2>1, <2>2, SumAdd
    <3>2. Sum(amount, Recorded) = Sum(amount', Recorded)
      BY <1>6, <2>1, <2>2, SumSame
    <3>3. Sum(amount', Recorded') = Sum(amount', Recorded \cup {p})
      BY <2>1, Zenon
    <3> QED
      BY <2>1, <3>1, <3>2, <3>3, PropertySums, PropertySumsAfter
  <2>4. Withdrawn + call[c].ask <= Released
    <3>1. CASE call[c].ask = 0
      BY <1>2, <1>5, <3>1
    <3>2. CASE call[c].ask > 0
      BY <1>5, <1>8, <3>2 DEF Knows, RecordPayout
    <3> QED
      BY <2>2, <3>1, <3>2
  <2>5. \A d \in Call : ~(call'[d].ask > 0)
    <3>1. \A d \in Call \ {c} : ~(call[d].ask > 0)
      BY <1>8, Zenon DEF RecordPayout
    <3>2. ~(0 > 0) /\ Idle.ask = 0
      BY DEF Idle
    <3>3. call'[c] = Idle /\ \A d \in Call \ {c} : call'[d] = call[d]
      BY <1>1, <2>1 DEF TypeOK
    <3> QED
      BY <3>1, <3>2, <3>3
  <2> QED
    BY <1>2, <2>2, <2>3, <2>4, <2>5
<1> QED
  BY <1>7, <1>8

(* Requests that do not meet, with clearings that do not fail, never       *)
(* withdraw more than the earnings out of their hold.                      *)
THEOREM SerialRequestsCovered == Spec => []OverdraftNeedsRace
<1>1. SerialInv => OverdraftNeedsRace
  BY DEF SerialInv, SerialKnown, OverdraftNeedsRace, NoOverdraft
<1> QED
  BY <1>1, SerialInvInit, SerialInvNext, PTL DEF Spec

-------------------------------------------------------------------------------
(* Requests that interleave                                                *)

(* Every call has a chain of withdrawals, and so has every clearing that   *)
(* failed: a call knows the withdrawals of its own chain.  When a clearing *)
(* fails the chain of its call ends, and the call begins another.          *)
Number == CHOOSE n \in [Call -> 1 .. Cardinality(Call)] : \A c, d \in Call : n[c] = n[d] => c = d

Chains(fails) == 1 .. (Cardinality(Call) + fails)

Links(rows, chain, k) == {p \in rows : chain[p] = k}

Chained(chain, rows, f, fails, calls, status, released) ==
    /\ \A p \in rows : chain[p] \in Chains(fails)
    /\ \A k \in Chains(fails) : Sum(f, Links(rows, chain, k)) <= released
    /\ \A c \in Call : Knows(calls[c], Links(rows, chain, Number[c]), status,
                             Sum(f, Links(rows, chain, Number[c])), released)

ChainsKnown ==
    \E chain \in [Payout -> Nat] :
        Chained(chain, Recorded, amount, clearFails, call, ledger, Released)

ExposureInv == LedgerInv /\ ChainsKnown

LEMMA CallsNumbered ==
    /\ Cardinality(Call) \in Nat
    /\ Number \in [Call -> 1 .. Cardinality(Call)]
    /\ \A c, d \in Call : Number[c] = Number[d] => c = d
<1>1. Cardinality(Call) \in Nat /\ ExistsBijection(1 .. Cardinality(Call), Call)
  BY PayoutAssumption, FS_CardinalityType
<1>2. ExistsBijection(Call, 1 .. Cardinality(Call))
  BY <1>1, Fun_ExistsBijSymmetric
<1>3. PICK n : n \in Bijection(Call, 1 .. Cardinality(Call))
  BY <1>2, Fun_ExistsBij
<1>4. n \in [Call -> 1 .. Cardinality(Call)] /\ \A c, d \in Call : n[c] = n[d] => c = d
  BY <1>3, Fun_BijectionProperties
<1> QED
  BY <1>1, <1>4 DEF Number

(* The rows of a chain are recorded withdrawals.                           *)
LEMMA LinksRecorded ==
    ASSUME TypeOK, NEW chain, NEW k
    PROVE  /\ Links(Recorded, chain, k) \in SUBSET Recorded
           /\ Links(Recorded, chain, k) \in SUBSET Payout
           /\ IsFiniteSet(Links(Recorded, chain, k))
           /\ \A p \in Links(Recorded, chain, k) : amount[p] \in Int
           /\ Sum(amount, Links(Recorded, chain, k)) \in Nat
<1>1. Links(Recorded, chain, k) \in SUBSET Recorded /\ Links(Recorded, chain, k) \in SUBSET Payout
  BY DEF Links, Recorded
<1>2. amount \in [Payout -> Ask \cup {0}]
  BY DEF TypeOK
<1>3. IsFiniteSet(Links(Recorded, chain, k))
  BY <1>1, RowsFinite
<1>4. /\ \A p \in Links(Recorded, chain, k) : amount[p] \in Nat
      /\ Sum(amount, Links(Recorded, chain, k)) \in Nat
  BY <1>1, <1>2, AmountsNatural
<1> QED
  BY <1>1, <1>3, <1>4

LEMMA ExposureInvInit == Init => ExposureInv
<1> SUFFICES ASSUME Init PROVE ExposureInv
  OBVIOUS
<1>1. LedgerInv
  BY LedgerInvInit
<1> DEFINE chain == [p \in Payout |-> 0]
<1>2. Recorded = {}
  BY DEF Init, Recorded, Row
<1>3. Released \in Nat
  BY TypeInit, SumsNatural
<1>4. ASSUME NEW k PROVE Sum(amount, Links(Recorded, chain, k)) = 0
  <2>1. Links(Recorded, chain, k) = {}
    BY <1>2 DEF Links
  <2> QED
    BY <2>1, SumEmpty, Zenon
<1>5. \A c \in Call : Knows(call[c], Links(Recorded, chain, Number[c]), ledger,
                            Sum(amount, Links(Recorded, chain, Number[c])), Released)
  BY DEF Init, Idle, Knows
<1>6. Chained(chain, Recorded, amount, clearFails, call, ledger, Released)
  <2> HIDE DEF chain
  <2> QED
    BY <1>2, <1>3, <1>4, <1>5 DEF Chained
<1>7. chain \in [Payout -> Nat]
  OBVIOUS
<1> QED
  BY <1>1, <1>6, <1>7 DEF ExposureInv, ChainsKnown

(* A step in which a call neither records a withdrawal nor fails to clear  *)
(* leaves its chain to it.                                                 *)
LEMMA ChainKept ==
    ASSUME LedgerInv, LedgerInv', [Next]_vars, NEW chain \in [Payout -> Nat],
           Chained(chain, Recorded, amount, clearFails, call, ledger, Released),
           NEW c \in Call, ~ClearFail(c), \A p \in Payout : ~RecordPayout(c, p),
           NEW own, own = Links(Recorded, chain, Number[c])
    PROVE  Knows(call'[c], own, ledger', Sum(amount', own), Released')
<1>1. Knows(call[c], own, ledger, Sum(amount, own), Released)
  BY Zenon DEF Chained
<1>2. own \in SUBSET Recorded
  BY LinksRecorded DEF LedgerInv
<1> QED
  BY <1>1, <1>2, KnowledgeKept

LEMMA ChainsKnownRecord ==
    ASSUME LedgerInv, LedgerInv', ChainsKnown, NEW c \in Call, NEW p \in Payout, RecordPayout(c, p)
    PROVE  ChainsKnown'
<1>1. TypeOK /\ TypeOK' /\ [Next]_vars
  BY DEF LedgerInv, Next
<1>2. PICK chain \in [Payout -> Nat] :
          Chained(chain, Recorded, amount, clearFails, call, ledger, Released)
  BY DEF ChainsKnown
<1> DEFINE next == [chain EXCEPT ![p] = Number[c]]
           Old(k) == Links(Recorded, chain, k)
           New(k) == Links(Recorded', next, k)
<1>3. Released <= Released' /\ Released \in Nat /\ Released' \in Nat
  <2>1. (TypeOK => Withdrawn \in Nat /\ Released \in Nat)'
    BY SumsNatural, PTL
  <2> QED
    BY <1>1, <2>1, SumsNatural, ReleasedGrows
<1>4. /\ p \notin Recorded /\ Recorded' = Recorded \cup {p} /\ Recorded \subseteq Payout
      /\ amount'[p] = call[c].ask
      /\ \A q \in Recorded : amount'[q] = amount[q]
      /\ call' = [call EXCEPT ![c] = Idle]
      /\ clearFails' = clearFails /\ clearFails \in Nat
  <2>1. Recorded \subseteq Payout /\ clearFails' = clearFails
    BY DEF RecordPayout, Recorded
  <2>2. clearFails \in Nat
    BY <1>1, PayoutAssumption DEF TypeOK
  <2> QED
    BY <1>1, <2>1, <2>2, Recording
<1>5. Number[c] \in Chains(clearFails) /\ \A d \in Call : Number[d] = Number[c] => d = c
  BY <1>4, CallsNumbered DEF Chains
<1>6. New(Number[c]) = Old(Number[c]) \cup {p}
  BY <1>4 DEF Links
<1>7. ASSUME NEW k, k # Number[c] PROVE New(k) = Old(k)
  BY <1>4, <1>7 DEF Links
<1>8. ASSUME NEW k
      PROVE  /\ Sum(amount', Old(k)) = Sum(amount, Old(k))
             /\ Sum(amount, Old(k)) \in Nat /\ IsFiniteSet(Old(k)) /\ Old(k) \subseteq Recorded
             /\ \A q \in Old(k) : amount'[q] \in Int
  <2>1. /\ Old(k) \in SUBSET Recorded /\ IsFiniteSet(Old(k))
        /\ \A q \in Old(k) : amount[q] \in Int
        /\ Sum(amount, Old(k)) \in Nat
    BY <1>1, LinksRecorded
  <2> HIDE DEF Old
  <2>2. \A q \in Old(k) : amount'[q] = amount[q] /\ amount'[q] \in Int
    BY <1>4, <2>1
  <2>3. Sum(amount', Old(k)) = Sum(amount, Old(k))
    BY <2>1, <2>2, SumSame
  <2> QED
    BY <2>1, <2>2, <2>3
<1> HIDE DEF Old, New
<1>9. \A k \in Chains(clearFails) : Sum(amount, Old(k)) <= Released
  BY <1>2 DEF Chained, Old
<1>10. \A k \in Chains(clearFails) : Sum(amount', New(k)) <= Released'
  <2>1. CASE TRUE
    <3>1. call[c].ask \in Nat
      BY <1>1, AskNatural DEF TypeOK, CallRow
    <3>2. p \notin Old(Number[c])
      BY <1>4, <1>8
    <3>3. Sum(amount', Old(Number[c]) \cup {p}) = Sum(amount', Old(Number[c])) + amount'[p]
      BY <1>4, <1>8, <3>1, <3>2, SumAdd
    <3>4. Sum(amount', New(Number[c])) = Sum(amount', Old(Number[c]) \cup {p})
      BY <1>6, Zenon
    <3>5. Knows(call[c], Old(Number[c]), ledger, Sum(amount, Old(Number[c])), Released)
      BY <1>2, Zenon DEF Chained, Old
    <3>6. Sum(amount, Old(Number[c])) + call[c].ask <= Released
      BY <3>5 DEF Knows, RecordPayout
    <3>7. Sum(amount', New(Number[c])) <= Released'
      BY <1>3, <1>4, <1>8, <3>1, <3>3, <3>4, <3>6
    <3>8. ASSUME NEW k \in Chains(clearFails), k # Number[c] PROVE Sum(amount', New(k)) <= Released'
      <4>1. Sum(amount', New(k)) = Sum(amount', Old(k))
        BY <1>7, <3>8, Zenon
      <4> QED
        BY <1>3, <1>8, <1>9, <4>1
    <3> QED
      BY <3>7, <3>8
  <2> QED
    BY <2>1
<1>11. ASSUME NEW d \in Call
       PROVE  Knows(call'[d], New(Number[d]), ledger', Sum(amount', New(Number[d])), Released')
  <2>1. CASE d = c
    <3>1. call'[d].pc = "idle"
      BY <1>1, <1>4, <2>1 DEF TypeOK, Idle
    <3> QED
      BY <3>1 DEF Knows
  <2>2. CASE d # c
    <3>1. call'[d] = call[d]
      BY <1>1, <1>4, <2>2 DEF TypeOK
    <3>2. ~ClearFail(d) /\ \A q \in Payout : ~RecordPayout(d, q)
      <4>1. clearFails' # clearFails + 1
        BY <1>4
      <4>2. ASSUME NEW q \in Payout, RecordPayout(d, q) PROVE FALSE
        BY <1>1, <3>1, <4>2 DEF RecordPayout, End, Idle, TypeOK
      <4> QED
        BY <4>1, <4>2 DEF ClearFail
    <3>3. Knows(call'[d], Old(Number[d]), ledger', Sum(amount', Old(Number[d])), Released')
      BY <1>1, <1>2, <3>2, ChainKept DEF Old
    <3>4. New(Number[d]) = Old(Number[d])
      BY <1>5, <1>7, <2>2
    <3> QED
      BY <3>3, <3>4, Zenon
  <2> QED
    BY <2>1, <2>2
<1>12. \A q \in Recorded' : next[q] \in Chains(clearFails')
  BY <1>2, <1>4, <1>5 DEF Chained
<1>13. Chained(next, Recorded', amount', clearFails', call', ledger', Released')
  BY <1>4, <1>10, <1>11, <1>12 DEF Chained, New
<1>14. next \in [Payout -> Nat]
  BY CallsNumbered
<1> HIDE DEF next
<1> QED
  BY <1>13, <1>14 DEF ChainsKnown

LEMMA ChainsKnownClearFail ==
    ASSUME LedgerInv, LedgerInv', ChainsKnown, NEW c \in Call, ClearFail(c)
    PROVE  ChainsKnown'
<1>1. TypeOK /\ TypeOK' /\ [Next]_vars
  BY DEF LedgerInv, Next
<1>2. PICK chain \in [Payout -> Nat] :
          Chained(chain, Recorded, amount, clearFails, call, ledger, Released)
  BY DEF ChainsKnown
<1> DEFINE fresh == Cardinality(Call) + clearFails + 1
           next == [q \in Payout |-> IF chain[q] = Number[c] THEN fresh ELSE chain[q]]
           Old(k) == Links(Recorded, chain, k)
           New(k) == Links(Recorded', next, k)
<1>3. Released <= Released' /\ Released \in Nat /\ Released' \in Nat
  <2>1. (TypeOK => Withdrawn \in Nat /\ Released \in Nat)'
    BY SumsNatural, PTL
  <2> QED
    BY <1>1, <2>1, SumsNatural, ReleasedGrows
<1>4. /\ Recorded' = Recorded /\ Recorded \subseteq Payout /\ amount' = amount
      /\ call' = [call EXCEPT ![c] = Cleared(c)]
      /\ clearFails' = clearFails + 1 /\ clearFails \in Nat
  BY <1>1, PayoutAssumption DEF ClearFail, Begin, Recorded, TypeOK
<1>5. /\ \A d \in Call : Number[d] \in 1 .. Cardinality(Call) /\ (Number[d] = Number[c] => d = c)
      /\ Cardinality(Call) \in Nat
  BY CallsNumbered
<1>6. /\ Chains(clearFails') = Chains(clearFails) \cup {fresh} /\ fresh \notin Chains(clearFails)
      /\ \A d \in Call : Number[d] \in Chains(clearFails)
      /\ fresh \in Nat
  BY <1>4, <1>5 DEF Chains
<1>7. \A q \in Recorded : chain[q] \in Chains(clearFails) /\ chain[q] # fresh
  BY <1>2, <1>6 DEF Chained
<1> HIDE DEF fresh
<1>8. New(Number[c]) = {}
  BY <1>4, <1>6 DEF Links
<1>9. New(fresh) = Old(Number[c])
  BY <1>4, <1>6, <1>7 DEF Links
<1>10. ASSUME NEW k, k # Number[c], k # fresh PROVE New(k) = Old(k)
  BY <1>4, <1>10 DEF Links
<1>11. \A q \in Recorded' : next[q] \in Chains(clearFails')
  BY <1>4, <1>6, <1>7
<1>12. next \in [Payout -> Nat]
  BY <1>6
<1>13. \A k \in Chains(clearFails) : Sum(amount, Old(k)) <= Released /\ Sum(amount, Old(k)) \in Nat
  BY <1>1, <1>2, LinksRecorded DEF Chained
<1> HIDE DEF Old, New, next
<1>14. ASSUME NEW k \in Chains(clearFails') PROVE Sum(amount', New(k)) <= Released'
  <2>1. CASE k = Number[c]
    <3>1. Sum(amount', New(k)) = Sum(amount', {})
      BY <1>8, <2>1, Zenon
    <3> QED
      BY <1>3, <3>1, SumEmpty
  <2>2. CASE k = fresh
    <3>1. Sum(amount', New(k)) = Sum(amount, Old(Number[c]))
      BY <1>4, <1>9, <2>2, Zenon
    <3> QED
      BY <1>3, <1>6, <1>13, <3>1
  <2>3. CASE k # Number[c] /\ k # fresh
    <3>1. Sum(amount', New(k)) = Sum(amount, Old(k))
      BY <1>4, <1>10, <2>3, Zenon
    <3> QED
      BY <1>3, <1>6, <1>13, <2>3, <3>1
  <2> QED
    BY <2>1, <2>2, <2>3
<1>15. ASSUME NEW d \in Call
       PROVE  Knows(call'[d], New(Number[d]), ledger', Sum(amount', New(Number[d])), Released')
  <2>1. CASE d = c
    <3>1. call'[d].pc \in {"idle", "balance"}
      BY <1>1, <1>4, <2>1 DEF TypeOK, CallRow, Idle, Cleared
    <3>2. New(Number[d]) = {}
      BY <1>8, <2>1
    <3> QED
      BY <3>1, <3>2 DEF Knows
  <2>2. CASE d # c
    <3>1. call'[d] = call[d]
      BY <1>1, <1>4, <2>2 DEF TypeOK
    <3>2. ~ClearFail(d) /\ \A q \in Payout : ~RecordPayout(d, q)
      <4>1. ASSUME NEW q \in Payout, RecordPayout(d, q) PROVE FALSE
        BY <1>4, <4>1 DEF RecordPayout
      <4>2. ASSUME ClearFail(d) PROVE FALSE
        <5>1. Cleared(d).pc # "clear" /\ call[d].pc = "clear"
          BY <1>1, <4>2 DEF ClearFail, Cleared, Idle, TypeOK, CallRow
        <5>2. call'[d] = Cleared(d)
          BY <1>1, <4>2 DEF ClearFail, Begin, TypeOK
        <5> QED
          BY <3>1, <5>1, <5>2
      <4> QED
        BY <4>1, <4>2
    <3>3. Knows(call'[d], Old(Number[d]), ledger', Sum(amount', Old(Number[d])), Released')
      BY <1>1, <1>2, <3>2, ChainKept DEF Old
    <3>4. Number[d] # Number[c] /\ Number[d] # fresh
      BY <1>5, <1>6, <2>2
    <3>5. New(Number[d]) = Old(Number[d])
      BY <1>10, <3>4
    <3> QED
      BY <3>3, <3>5, Zenon
  <2> QED
    BY <2>1, <2>2
<1>16. Chained(next, Recorded', amount', clearFails', call', ledger', Released')
  BY <1>11, <1>14, <1>15 DEF Chained, New
<1> QED
  BY <1>12, <1>16 DEF ChainsKnown

LEMMA ExposureInvNext == ExposureInv /\ [Next]_vars => ExposureInv'
<1> SUFFICES ASSUME ExposureInv, [Next]_vars PROVE ExposureInv'
  OBVIOUS
<1>1. LedgerInv /\ LedgerInv' /\ TypeOK /\ TypeOK' /\ ChainsKnown
  BY LedgerInvNext DEF ExposureInv, LedgerInv
<1>2. CASE \E c \in Call, p \in Payout : RecordPayout(c, p)
  BY <1>1, <1>2, ChainsKnownRecord DEF ExposureInv
<1>3. CASE \E c \in Call : ClearFail(c)
  BY <1>1, <1>3, ChainsKnownClearFail DEF ExposureInv
<1>4. ASSUME \A c \in Call : ~ClearFail(c) /\ \A p \in Payout : ~RecordPayout(c, p)
      PROVE  ChainsKnown'
  <2>1. PICK chain \in [Payout -> Nat] :
            Chained(chain, Recorded, amount, clearFails, call, ledger, Released)
    BY <1>1 DEF ChainsKnown
  <2>2. amount' = amount /\ Recorded' = Recorded
    BY <1>1, <1>4, WithdrawalsKept
  <2>3. clearFails' = clearFails
    BY <1>4 DEF Next, vars, Credit, PassHold, ClearRead, ClearWrite, CheckBalance, Fail
  <2>4. Released <= Released' /\ Released \in Nat /\ Released' \in Nat
    <3>1. (TypeOK => Withdrawn \in Nat /\ Released \in Nat)'
      BY SumsNatural, PTL
    <3> QED
      BY <1>1, <3>1, SumsNatural, ReleasedGrows
  <2> DEFINE Own(k) == Links(Recorded, chain, k)
  <2>5. \A k \in Chains(clearFails) : Sum(amount, Own(k)) <= Released /\ Sum(amount, Own(k)) \in Nat
    BY <1>1, <2>1, LinksRecorded DEF Chained
  <2>6. \A d \in Call : Knows(call'[d], Own(Number[d]), ledger', Sum(amount', Own(Number[d])), Released')
    BY <1>1, <1>4, <2>1, ChainKept
  <2>7. \A p \in Recorded : chain[p] \in Chains(clearFails)
    BY <2>1 DEF Chained
  <2>8. \A k \in Chains(clearFails) : Sum(amount', Own(k)) <= Released'
    <3> HIDE DEF Own
    <3> QED
      BY <2>2, <2>4, <2>5
  <2>9. \A k : Links(Recorded', chain, k) = Own(k)
    BY <2>2
  <2>10. Chained(chain, Recorded', amount', clearFails', call', ledger', Released')
    <3> HIDE DEF Own
    <3>1. \A k \in Chains(clearFails') : Sum(amount', Links(Recorded', chain, k)) <= Released'
      BY <2>3, <2>8, <2>9, Zenon
    <3>2. \A d \in Call : Knows(call'[d], Links(Recorded', chain, Number[d]), ledger',
                                Sum(amount', Links(Recorded', chain, Number[d])), Released')
      BY <2>6, <2>9, Zenon
    <3>3. \A p \in Recorded' : chain[p] \in Chains(clearFails')
      BY <2>2, <2>3, <2>7
    <3> QED
      BY <3>1, <3>2, <3>3, Zenon DEF Chained
  <2> QED
    BY <2>10 DEF ChainsKnown
<1> QED
  BY <1>1, <1>2, <1>3, <1>4 DEF ExposureInv

(* However many requests interleave and however many clearings fail, what  *)
(* is withdrawn is at most the earnings out of their hold, once for each   *)
(* call and once more for each clearing that failed.                       *)
THEOREM ExposureStaysBounded == Spec => []ExposureBounded
<1>1. ExposureInv => ExposureBounded
  <2> SUFFICES ASSUME ExposureInv PROVE ExposureBounded
    OBVIOUS
  <2>1. TypeOK /\ clearFails \in Nat /\ Released \in Nat
    BY SumsNatural, PayoutAssumption DEF ExposureInv, LedgerInv, TypeOK
  <2>2. PICK chain \in [Payout -> Nat] :
            Chained(chain, Recorded, amount, clearFails, call, ledger, Released)
    BY DEF ExposureInv, ChainsKnown
  <2>3. IsFiniteSet(Recorded) /\ \A p \in Recorded : amount[p] \in Int
    BY <2>1, RowsFinite, AskNatural DEF Recorded, TypeOK
  <2>4. /\ IsFiniteSet(Chains(clearFails))
        /\ Cardinality(Chains(clearFails)) = Cardinality(Call) + clearFails
    <3> DEFINE n == Cardinality(Call) + clearFails
    <3>1. n \in Nat
      BY <2>1, CallsNumbered
    <3>2. Chains(clearFails) = 1 .. n
      BY DEF Chains
    <3> HIDE DEF n
    <3>3. IsFiniteSet(1 .. n) /\ Cardinality(1 .. n) = IF 1 > n THEN 0 ELSE n - 1 + 1
      BY <3>1, FS_Interval
    <3>4. Cardinality(1 .. n) = n
      BY <3>1, <3>3
    <3> QED
      BY <3>2, <3>3, <3>4 DEF n
  <2>5. /\ \A p \in Recorded : chain[p] \in Chains(clearFails)
        /\ \A k \in Chains(clearFails) : Sum(amount, {p \in Recorded : chain[p] = k}) <= Released
    BY <2>2 DEF Chained, Links
  <2>6. Sum(amount, Recorded) <= Cardinality(Chains(clearFails)) * Released
    BY <2>1, <2>3, <2>4, <2>5, SumOfParts
  <2> QED
    BY <2>4, <2>6, PropertySums DEF ExposureBounded
<1> QED
  BY <1>1, ExposureInvInit, ExposureInvNext, PTL DEF Spec
===============================================================================
