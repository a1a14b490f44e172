------------------------------ MODULE MCBilling ------------------------------
(* Instances of Billing for TLC. *)
EXTENDS Billing, TLC

CONSTANT t1

\* Every payment is of the one, referred, tenant.
OneBuyer == [a \in Attempts |-> t1]

RequestSymmetry == Permutations(Requests)
==============================================================================
