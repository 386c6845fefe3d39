------------------------- MODULE MCBookingLifecycle -------------------------
(***************************************************************************)
(* Small instances of BookingLifecycle for TLC.                            *)
(***************************************************************************)
EXTENDS BookingLifecycle, TLC

SessionSymmetry == Permutations(Sessions)
=============================================================================
