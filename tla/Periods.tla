------------------------------- MODULE Periods -------------------------------
(***************************************************************************)
(* Half-open periods [start, end), the shape of bookings.period            *)
(* (tstzrange(start_at, end_at, '[)')) and of the overlap tests in the     *)
(* availability queries.                                                   *)
(***************************************************************************)
EXTENDS Integers

Period == [start : Int, end : Int]

(* period && period, and start_at < :end AND end_at > :start.  Back-to-back *)
(* periods do not overlap.                                                  *)
Overlaps(v, w) == v.start < w.end /\ w.start < v.end
=============================================================================
