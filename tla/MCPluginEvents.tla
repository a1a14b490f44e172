--------------------------- MODULE MCPluginEvents ---------------------------
(* Instances of PluginEvents for TLC: every event has a key of its own. *)
EXTENDS PluginEvents

OwnKey == [e \in Events |-> e]
==============================================================================
