-------------------------- MODULE MCPortalSession --------------------------
(* Instances of PortalSession for TLC: handlers are alike, and so are tabs. *)
EXTENDS PortalSession, TLC

Symmetry == Permutations(Requests) \cup Permutations(Admins) \cup Permutations(Tabs)
=============================================================================
