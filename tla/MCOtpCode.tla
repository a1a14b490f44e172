------------------------------ MODULE MCOtpCode ------------------------------
(* Instances of OtpCode for TLC: codes and handlers are alike. *)
EXTENDS OtpCode, TLC

OtpSymmetry ==
    Permutations(Codes) \cup Permutations(Requesters) \cup Permutations(Verifiers)
==============================================================================
