------------------------------- MODULE Calendar -------------------------------
(***************************************************************************)
(* What accepting a booking promises, whatever the handlers do inside: a   *)
(* companion's calendar hands out each booking at most one slot, and never *)
(* a slot that overlaps one it has handed out before and that has not been *)
(* released since.  A companion who leaves takes the calendar along.       *)
(* requests.service.ts states it as "two simultaneous requests cannot both *)
(* reserve overlapping time slots".                                        *)
(***************************************************************************)
EXTENDS Naturals

CONSTANTS
    Companion,      \* companions
    Request,        \* bookings, by bookingId
    Window,         \* time ranges a booking may occupy
    companionOf,    \* the companion a booking is addressed to
    Null            \* no value

VARIABLES
    slot,           \* slot[r]: the range reserved for booking r, or Null
    freed           \* bookings whose reservation has been released at least once

calendarVars == <<slot, freed>>

(* The overlap test of every query: scheduledStart < end and scheduledEnd > start. *)
Overlaps(a, b) == a.start < b.end /\ a.end > b.start

(* Booking r may take range w: whatever it overlaps has been released. *)
Available(r, w) ==
    \A q \in Request :
        ( /\ companionOf[q] = companionOf[r]
          /\ slot[q] # Null
          /\ Overlaps(slot[q], w) ) => q \in freed

CalendarInit ==
    /\ slot = [r \in Request |-> Null]
    /\ freed = {}

Reserve(r, w) ==
    /\ slot[r] = Null
    /\ Available(r, w)
    /\ slot' = [slot EXCEPT ![r] = w]
    /\ UNCHANGED freed

Release(r) ==
    /\ slot[r] # Null
    /\ freed' = freed \cup {r}
    /\ UNCHANGED slot

(* The bookings of companion p. *)
BookingsOf(p) == {r \in Request : companionOf[r] = p}

(* A companion leaves: its slots are there no more. *)
Leave(p) ==
    /\ slot' = [r \in Request |-> IF r \in BookingsOf(p) THEN Null ELSE slot[r]]
    /\ freed' = freed \ BookingsOf(p)

CalendarNext ==
    \/ \E r \in Request :
          \/ Release(r)
          \/ \E w \in Window : Reserve(r, w)
    \/ \E p \in Companion : Leave(p)

CalendarSpec == CalendarInit /\ [][CalendarNext]_calendarVars

(* Two bookings of one companion hold overlapping ranges only when one of  *)
(* them has been released: acceptRequest never hands out a taken slot.     *)
NoDoubleReservation ==
    \A r, q \in Request :
        ( /\ r # q
          /\ companionOf[r] = companionOf[q]
          /\ slot[r] # Null /\ slot[q] # Null
          /\ Overlaps(slot[r], slot[q]) ) => (r \in freed \/ q \in freed)
===============================================================================
