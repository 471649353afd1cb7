------------------------------ MODULE LruCache ------------------------------
(***************************************************************************)
(* The album-art cache of crates/mpd-api/src/cache.rs as operators on its  *)
(* state: a record of the map and of the access order (back = most         *)
(* recently used).  Each operator is one method, run under the mutex.      *)
(***************************************************************************)
EXTENDS Naturals, SequencesExt, Orders

CONSTANTS Keys,        \* "art:<uri>"
          MaxEntries   \* MAX_ENTRIES (512 in the code)

ASSUME MaxEntriesAssumption == MaxEntries \in Nat \ {0}

\* Of an entry, whether ART_TTL has elapsed since it was stored.
Entries == {"live", "expired"}
Absent == "absent"

Caches == [map : [Keys -> Entries \cup {Absent}], order : Seq(Keys)]

Empty == [map |-> [k \in Keys |-> Absent], order |-> <<>>]

ContainsKey(c, k) == c.map[k] # Absent

\* Entries::touch
Touch(c, k) == [c EXCEPT !.order = Append(RemoveFirst(@, k), k)]

\* Mutant: only the map entry is removed.
DiscardFromMap(c, k) == [c EXCEPT !.map[k] = Absent]

\* Entries::remove, for a key that is in the map
Discard(c, k) == [map   |-> [c.map EXCEPT ![k] = Absent],
                  order |-> RemoveFirst(c.order, k)]

\* Mutant: the newest entries make room.
EvictNewest(c) ==
    LET n == Len(c.order)
        gone == {c.order[i] : i \in MaxEntries..(n - 1)}
    IN  IF n <= MaxEntries THEN c
        ELSE [map   |-> [k \in Keys |-> IF k \in gone THEN Absent ELSE c.map[k]],
              order |-> SubSeq(c.order, 1, MaxEntries - 1) \o <<c.order[n]>>]

\* Entries::evict_to_cap: the front of the order goes until the cap is met.
EvictToCap(c) ==
    LET excess == Len(c.order) - MaxEntries
        gone == {c.order[i] : i \in 1..excess}
    IN  IF Len(c.order) <= MaxEntries THEN c
        ELSE [map   |-> [k \in Keys |-> IF k \in gone THEN Absent ELSE c.map[k]],
              order |-> SubSeq(c.order, excess + 1, Len(c.order))]

\* Cache::get_art: a hit is touched, an expired entry removed.
IsHit(c, k) == c.map[k] = "live"

GetArt(c, k) ==
    IF ~ContainsKey(c, k) THEN c
    ELSE IF IsHit(c, k) THEN Touch(c, k)
    ELSE Discard(c, k)

\* Cache::store_art
StoreArt(c, k) ==
    LET placed == IF ContainsKey(c, k) THEN Touch(c, k)
                  ELSE EvictToCap([c EXCEPT !.order = Append(@, k)])
    IN  [placed EXCEPT !.map[k] = "live"]

-----------------------------------------------------------------------------
\* What the methods rely on and keep: the order lists the keys of the map, each
\* once.
WellFormed(c) ==
    /\ IsInjective(c.order)
    /\ \A k \in Keys : ContainsKey(c, k) <=> \E i \in 1..Len(c.order) : c.order[i] = k
=============================================================================
