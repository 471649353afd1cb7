--------------------------- MODULE MCStatusStream ---------------------------
(* Instances of StatusStream for TLC. *)
EXTENDS StatusStream

CONSTANTS h1, h2, w1, w2   \* two mutating handlers, two WebSockets

=============================================================================
