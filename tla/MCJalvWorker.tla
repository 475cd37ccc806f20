---------------------------- MODULE MCJalvWorker ----------------------------
(* JalvWorker for TLC: two requests, a response or two on each ring, and   *)
(* one state restore, enough for the three threads to meet in every pair   *)
(* of steps.  The .cfg files differ in the room the rings have.            *)
EXTENDS JalvWorker
=============================================================================
