----------------------------- MODULE MCServices -----------------------------
(* Instances of the services for TLC. *)
EXTENDS Services

Nothing == [a \in AccessActivity |-> 0]

MCDirectoryAllowance == [Nothing EXCEPT !["account"] = 1, !["admin"] = 1]

(* Codes and guesses; exchanges of tokens around a closing; the PIN;       *)
(* requests under way when the account is closed.                          *)
MCAllowance ==
    { [Nothing EXCEPT !["code"] = 2, !["guess"] = 4, !["admin"] = 1, !["fault"] = 1],
      [Nothing EXCEPT !["code"] = 1, !["guess"] = 1, !["refresh"] = 1, !["admin"] = 2],
      [Nothing EXCEPT !["refresh"] = 3, !["account"] = 2, !["admin"] = 2, !["fault"] = 1],
      [Nothing EXCEPT !["pin"] = 3, !["account"] = 1, !["admin"] = 1],
      MCDirectoryAllowance }

MCDrafts == {{"rate"}}

MCStart ==
    {[facts |-> Fact, quota |-> [a \in Activity |-> CASE a \in {"save", "fail"} -> 0 [] a = "decide" -> 2 [] OTHER -> 1]]}
=============================================================================
