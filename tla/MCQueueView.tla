---------------------------- MODULE MCQueueView ----------------------------
(* Instances of QueueView for TLC. *)
EXTENDS QueueView

CONSTANTS a1
=============================================================================
