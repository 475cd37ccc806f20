------------------------------ MODULE MCZixRing ------------------------------
(* ZixRing for TLC: a ring of four cells, through which enough bytes pass  *)
(* for both heads to go round more than twice.                             *)
EXTENDS ZixRing
=============================================================================
