---------------------------- MODULE MCParameters ----------------------------
(***************************************************************************)
(* Two parameters, the second one an output of the plugin; MCParameters    *)
(* .cfg gives the output buffer room for none, one or all of the messages. *)
(***************************************************************************)
EXTENDS Parameters
=============================================================================
