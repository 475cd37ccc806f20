-------------------------- MODULE MCPluginInstance --------------------------
(***************************************************************************)
(* Two addresses and four blocks, so that an address is used again while   *)
(* the other is passed, and a plugin with one preset and an audio port in  *)
(* front of each of its two control inputs, whose index the host has a     *)
(* port of, for the one, and none, for the other.                          *)
(***************************************************************************)
EXTENDS PluginInstance
=============================================================================
