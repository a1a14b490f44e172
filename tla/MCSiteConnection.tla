-------------------------- MODULE MCSiteConnection --------------------------
(* Two requests at a time, and a clock that runs past the life of a nonce.  *)
EXTENDS SiteConnection, TLC

Perms == Permutations(Handlers)
=============================================================================
