-------------------------------- MODULE Payout --------------------------------
(***************************************************************************)
(* The earnings ledger and the withdrawals from it: earnings.service.ts.   *)
(* A session credits a row under a 24 hour hold; autoClearEligibleEarnings *)
(* makes rows payable; requestPayout adds the payable rows up and records  *)
(* a withdrawal as a negative row.                                         *)
(*                                                                         *)
(* One companion: no query of the service relates the rows of two.  The    *)
(* transaction of requestPayout runs at the database's default isolation,  *)
(* READ COMMITTED, and locks nothing it reads.                             *)
(***************************************************************************)
EXTENDS Integers, FiniteSets, FiniteSetsExt

CONSTANTS
    Earning,        \* session_earning rows, by id
    Payout,         \* withdrawals: a payout record and its payout_transfer row
    Call,           \* handler invocations that may be in progress at once
    worth,          \* worth[e]: the amount of an earning
    Ask,            \* amounts a companion may ask for
    MaxClearFail    \* bound: clearings that throw

ASSUME PayoutAssumption ==
    /\ worth \in [Earning -> Nat]
    /\ Ask \subseteq Nat \ {0}
    /\ MaxClearFail \in Nat
    /\ Earning \cap Payout = {}
    /\ IsFiniteSet(Earning) /\ IsFiniteSet(Payout) /\ IsFiniteSet(Call)

Row == Earning \cup Payout

VARIABLES
    autoComplete,   \* deployment: payouts complete on creation (never in production)
    ledger,         \* earnings_transactions: status of a row
    amount,         \* amount of a withdrawal
    due,            \* rows whose payoutEligibleAt has passed
    call,           \* calls in progress
    raced,          \* history: a withdrawal was recorded during another request
    clearFails      \* clearings that threw

vars == <<autoComplete, ledger, amount, due, call, raced, clearFails>>

-------------------------------------------------------------------------------
RowStatus == {"none", "pending_review", "payout_eligible", "approved"}

(* The statuses that count towards the balance. *)
Payable == {"payout_eligible", "approved"}

Step == {"idle", "clear", "balance", "insert"}

CallRow == [ pc   : Step,
             ask  : Ask \cup {0},       \* 0: a handler that only clears
             rows : SUBSET Row ]        \* rows found to clear

Idle == [pc |-> "idle", ask |-> 0, rows |-> {}]

TypeOK ==
    /\ autoComplete \in BOOLEAN
    /\ ledger \in [Row -> RowStatus]
    /\ amount \in [Payout -> Ask \cup {0}]
    /\ due \in SUBSET Row
    /\ call \in [Call -> CallRow]
    /\ raced \in BOOLEAN
    /\ clearFails \in 0 .. MaxClearFail

Init ==
    /\ autoComplete \in BOOLEAN
    /\ ledger = [x \in Row |-> "none"]
    /\ amount = [p \in Payout |-> 0]
    /\ due = {}
    /\ call = [c \in Call |-> Idle]
    /\ raced = FALSE
    /\ clearFails = 0

(* What a row adds to the balance: a withdrawal takes away. *)
Value(x) == IF x \in Earning THEN worth[x] ELSE 0 - amount[x]

Balance == MapThenSumSet(Value, {x \in Row : ledger[x] \in Payable})

Begin(c, row) == call' = [call EXCEPT ![c] = row]

End(c) == call' = [call EXCEPT ![c] = Idle]

-------------------------------------------------------------------------------
(* Earnings arrive and their hold passes *)

(* A completed session credits a row, held for 24 hours. *)
Credit(e) ==
    /\ ledger[e] = "none"
    /\ ledger' = [ledger EXCEPT ![e] = "pending_review"]
    /\ UNCHANGED <<autoComplete, amount, due, call, raced, clearFails>>

PassHold(e) ==
    /\ ledger[e] # "none"
    /\ e \notin due
    /\ due' = due \cup {e}
    /\ UNCHANGED <<autoComplete, ledger, amount, call, raced, clearFails>>

-------------------------------------------------------------------------------
(* autoClearEligibleEarnings *)

(* Faulty: the hold is not looked at. *)
EligibleAnyTime == {x \in Row : ledger[x] = "pending_review"}

(* Faulty: withdrawals are left pending. *)
EligibleEarnings == {x \in Earning \cap due : ledger[x] = "pending_review"}

Eligible == {x \in due : ledger[x] = "pending_review"}

(* findMany.  getSummary, getTransactions and getPendingEarnings only      *)
(* clear (ask = 0); requestPayout clears before it asks for the balance.   *)
ClearRead(c, ask) ==
    /\ call[c].pc = "idle"
    /\ Begin(c, [pc |-> "clear", ask |-> ask, rows |-> Eligible])
    /\ UNCHANGED <<autoComplete, ledger, amount, due, raced, clearFails>>

Cleared(c) == IF call[c].ask = 0 THEN Idle ELSE [call[c] EXCEPT !.pc = "balance", !.rows = {}]

(* updateMany by the ids found, whatever their status is by now. *)
ClearWrite(c) ==
    /\ call[c].pc = "clear"
    /\ ledger' = [x \in Row |-> IF x \in call[c].rows THEN "payout_eligible" ELSE ledger[x]]
    /\ Begin(c, Cleared(c))
    /\ UNCHANGED <<autoComplete, amount, due, raced, clearFails>>

(* A clearing that throws is logged and the handler goes on. *)
ClearFail(c) ==
    /\ call[c].pc = "clear"
    /\ clearFails < MaxClearFail
    /\ clearFails' = clearFails + 1
    /\ Begin(c, Cleared(c))
    /\ UNCHANGED <<autoComplete, ledger, amount, due, raced>>

-------------------------------------------------------------------------------
(* requestPayout *)

(* Faulty: the balance is not compared with the amount. *)
CheckBalanceSkipped(c) ==
    /\ call[c].pc = "balance"
    /\ Balance > 0
    /\ Begin(c, [call[c] EXCEPT !.pc = "insert"])
    /\ UNCHANGED <<autoComplete, ledger, amount, due, raced, clearFails>>

(* The transaction reads the payable rows; a short balance throws (Fail). *)
CheckBalance(c) ==
    /\ call[c].pc = "balance"
    /\ call[c].ask <= Balance
    /\ Begin(c, [call[c] EXCEPT !.pc = "insert"])
    /\ UNCHANGED <<autoComplete, ledger, amount, due, raced, clearFails>>

(* The transaction records the withdrawal, due at once, and commits. *)
RecordPayout(c, p) ==
    /\ call[c].pc = "insert"
    /\ ledger[p] = "none"
    /\ ledger' = [ledger EXCEPT ![p] = IF autoComplete THEN "approved" ELSE "pending_review"]
    /\ amount' = [amount EXCEPT ![p] = call[c].ask]
    /\ due' = due \cup {p}
    /\ raced' = (raced \/ \E d \in Call \ {c} : call[d].ask > 0)
    /\ End(c)
    /\ UNCHANGED <<autoComplete, clearFails>>

(* A call ends early; an open transaction rolls back. *)
Fail(c) ==
    /\ call[c].pc # "idle"
    /\ End(c)
    /\ UNCHANGED <<autoComplete, ledger, amount, due, raced, clearFails>>

Next ==
    \/ \E e \in Earning : Credit(e) \/ PassHold(e)
    \/ \E c \in Call :
          \/ \E ask \in Ask \cup {0} : ClearRead(c, ask)
          \/ ClearWrite(c) \/ ClearFail(c)
          \/ CheckBalance(c)
          \/ \E p \in Payout : RecordPayout(c, p)
          \/ Fail(c)

Spec == Init /\ [][Next]_vars

-------------------------------------------------------------------------------
(* Properties *)

Recorded == {p \in Payout : ledger[p] # "none"}

Withdrawn == MapThenSumSet(LAMBDA p : amount[p], Recorded)

(* Earnings out of their hold: what may be withdrawn, ever. *)
Released == MapThenSumSet(LAMBDA e : worth[e], {e \in Earning : ledger[e] # "none" /\ e \in due})

(* "To prevent race conditions, double-withdrawals, and negative balances" *)
(* (README 3.3): nobody withdraws more than was earned.                    *)
NoOverdraft == Withdrawn <= Released

(* Requests one after the other never overdraw, although a withdrawal only *)
(* counts once it is cleared: every request clears first.  It takes two    *)
(* requests at once, or a clearing that fails.                             *)
OverdraftNeedsRace == raced \/ clearFails > 0 \/ NoOverdraft

(* No single withdrawal exceeds the earnings that are out of their hold,   *)
(* whatever clears what in between.                                        *)
EachPayoutCovered == \A p \in Recorded : amount[p] <= Released

(* However requests interleave, the balance is spent at most once for each *)
(* call in flight and once more for each clearing that failed.             *)
ExposureBounded == Withdrawn <= (Cardinality(Call) + clearFails) * Released
===============================================================================
