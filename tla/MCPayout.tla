------------------------------- MODULE MCPayout -------------------------------
(* Payout on small instances. *)
EXTENDS Payout, TLC

(* Two earnings of different worth. *)
CONSTANTS e1, e2

MCWorth == (e1 :> 1) @@ (e2 :> 2)

MCSymmetry == Permutations(Payout) \cup Permutations(Call)
===============================================================================
