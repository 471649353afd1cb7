--------------------------- MODULE MCLibraryStore ---------------------------
(* Instances of LibraryStore for TLC. *)
EXTENDS LibraryStore

CONSTANTS s1, s2, b1, b2   \* two search handlers, two background refreshes
=============================================================================
