---------------------------- MODULE MCPayments ----------------------------
(* Instances of Payments for TLC. *)
EXTENDS Payments, TLC

(* Nothing distinguishes two requests. *)
SessionSymmetry == Permutations(Sessions)
=============================================================================
