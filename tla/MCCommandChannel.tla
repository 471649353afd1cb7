-------------------------- MODULE MCCommandChannel --------------------------
(* Instances of CommandChannel for TLC. *)
EXTENDS CommandChannel

CONSTANTS r1, r2, idle1   \* two HTTP requests, one request of the idle task

=============================================================================
