------------------------------- MODULE MCSymap -------------------------------
(* Symap with two threads and four strings, for TLC. *)
EXTENDS Symap
=============================================================================
