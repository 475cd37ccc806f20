---------------------------- MODULE Lv2Lifecycle ----------------------------
(***************************************************************************)
(* What an LV2 plugin is promised by the program that runs it: it is run   *)
(* only while it is active, on memory that is there and that stays there   *)
(* until run() returns; its ports are moved, and it is activated,          *)
(* deactivated and cleaned up, only between two runs.                      *)
(***************************************************************************)
EXTENDS Integers

CONSTANTS Allocations   \* the blocks of memory the host's buffers are made of, 0 for none

VARIABLES phase,     \* of the plugin: "none", "inactive", "active" or "freed"
          running,   \* whether run() is under way
          port,      \* the block its audio ports are connected to
          blocks     \* the blocks that are there

vars == <<phase, running, port, blocks>>

Init ==
    /\ phase = "none"
    /\ running = FALSE
    /\ port = 0
    /\ blocks = {}

Move(from, to) == phase = from /\ phase' = to /\ UNCHANGED <<running, port, blocks>>

Instantiate == Move("none", "inactive")
Activate == Move("inactive", "active")
Deactivate == ~running /\ Move("active", "inactive")
Cleanup == ~running /\ phase # "none" /\ Move(phase, "freed")

ConnectPort ==
    /\ phase \in {"inactive", "active"} /\ ~running
    /\ port' \in blocks
    /\ UNCHANGED <<phase, running, blocks>>

BeginRun ==
    /\ phase = "active" /\ ~running
    /\ port \in blocks
    /\ running' = TRUE
    /\ UNCHANGED <<phase, port, blocks>>

EndRun == running /\ running' = FALSE /\ UNCHANGED <<phase, port, blocks>>

Allocate(b) == b \notin blocks /\ blocks' = blocks \cup {b} /\ UNCHANGED <<phase, running, port>>

Free(b) ==
    /\ b \in blocks
    /\ running => b # port
    /\ blocks' = blocks \ {b}
    /\ UNCHANGED <<phase, running, port>>

Next ==
    \/ Instantiate \/ Activate \/ Deactivate \/ Cleanup
    \/ ConnectPort \/ BeginRun \/ EndRun
    \/ \E b \in Allocations : Allocate(b) \/ Free(b)

Spec == Init /\ [][Next]_vars
=============================================================================
