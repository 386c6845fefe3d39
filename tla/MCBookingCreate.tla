--------------------------- MODULE MCBookingCreate ---------------------------
(***************************************************************************)
(* Small instances of BookingCreate for TLC.                               *)
(***************************************************************************)
EXTENDS BookingCreate, TLC

(* Two overlapping periods and one that is back to back with the first. *)
MCWindows == {[start |-> 0, end |-> 2], [start |-> 1, end |-> 3], [start |-> 2, end |-> 4]}
OneWindow == {[start |-> 0, end |-> 2]}

AllBays  == Slots \cup {NoBay}
OneNamed == {NoBay, 0}

AllRows  == Requests

RequestSymmetry == Permutations(Requests)
=============================================================================
