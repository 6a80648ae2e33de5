------------------------------- MODULE MCBooking -------------------------------
(* Booking on small instances. *)
EXTENDS Booking, TLC

(* Two ranges that touch: bookings of one range overlap, of both they do not. *)
MCWindow == {[start |-> 1, end |-> 2], [start |-> 2, end |-> 3]}

(* A range, one that contains it, and an inverted one inside both, which   *)
(* only a counter-offer may carry.                                         *)
MCWindowSerial == {[start |-> 1, end |-> 2], [start |-> 0, end |-> 3], [start |-> 2, end |-> 1]}

(* Every booking is addressed to one companion. *)
MCCompanionOf == [r \in Request |-> CHOOSE p \in Companion : TRUE]

MCSymmetry == Permutations(Request) \cup Permutations(Call)
===============================================================================
