------------------------------- MODULE Orders -------------------------------
(* The order a sequence puts its elements in: the keys of the album-art     *)
(* cache by use, the songs of MPD's queue.                                  *)
EXTENDS Naturals, Sequences

Before(s, k, j) == \E m, n \in 1..Len(s) : m < n /\ s[m] = k /\ s[n] = j
=============================================================================
