---------------------------- MODULE SlotCalendar ----------------------------
(***************************************************************************)
(* What the bookings table promises the people who park: a calendar in     *)
(* which a bay is claimed by at most one booking at any instant.           *)
(*                                                                         *)
(* This is the contract stated in bookings/models.py (class Booking) and   *)
(* in the PRD ("two renters must never be able to successfully book the    *)
(* same parking space for overlapping time periods"), with none of the     *)
(* machinery -- optimistic reads, retries, savepoints, lock waits -- that  *)
(* BookingCreate implements it with.                                       *)
(***************************************************************************)
EXTENDS Periods

CONSTANTS
  Bookings,   \* identities of the rows that may ever claim a bay
  Slots,      \* the bays of one parking space
  Windows     \* the periods [start, end) a booking may ask for

VARIABLE claims   \* the claims in force: [booking, slot, window] records

Claims == [booking : Bookings, slot : Slots, window : Windows]

Clash(c, d) == c.slot = d.slot /\ Overlaps(c.window, d.window)

-----------------------------------------------------------------------------
Init == claims = {}

(* A booking takes a bay that nobody holds for any part of the period. *)
Claim(c) ==
  /\ \A d \in claims : d.booking # c.booking /\ ~Clash(c, d)
  /\ claims' = claims \cup {c}

(* A booking stops occupying its bay: it expired, was cancelled, ended...  *)
Release(c) ==
  /\ c \in claims
  /\ claims' = claims \ {c}

Next == \E c \in Claims : Claim(c) \/ Release(c)

Spec == Init /\ [][Next]_claims

-----------------------------------------------------------------------------
(* The promise itself: two different claims never overlap on one bay. *)
Exclusive == \A c, d \in claims : c # d => ~Clash(c, d)
=============================================================================
