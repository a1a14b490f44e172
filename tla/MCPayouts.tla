----------------------------- MODULE MCPayouts -----------------------------
(* Instances of Payouts for TLC: handlers are alike. *)
EXTENDS Payouts, TLC

Symmetry == Permutations(Requests) \cup Permutations(Admins)
=============================================================================
