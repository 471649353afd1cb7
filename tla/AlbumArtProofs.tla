--------------------------- MODULE AlbumArtProofs ---------------------------
(* Proofs about AlbumArt, for any keys, MAX_ENTRIES, handlers, pictures and *)
(* changes of them.                                                         *)
EXTENDS AlbumArt, SequenceLemmas

-----------------------------------------------------------------------------
(* The methods of the cache.                                               *)

Good(c) == c \in Caches /\ WellFormed(c) /\ Len(c.order) <= MaxEntries

\* What order the keys of c are in after k has been used.
UsedLast(c, k, i, j) == (Before(c.order, i, j) /\ i # k /\ j # k) \/ (j = k /\ i # k /\ ContainsKey(c, i))

LEMMA GoodType ==
    ASSUME NEW c, Good(c)
    PROVE  /\ c.order \in Seq(Keys) /\ IsInjective(c.order) /\ Len(c.order) \in 0..MaxEntries
           /\ c.map \in [Keys -> Entries \cup {Absent}]
           /\ c = [map |-> c.map, order |-> c.order]
           /\ \A k \in Keys : ContainsKey(c, k) <=> Contains(c.order, k)
           /\ \A k : Contains(c.order, k) => k \in Keys
BY MaxEntriesAssumption DEF Good, Caches, WellFormed, Contains

\* Updates of one part of a cache leave the other.
LEMMA UpdateOrder ==
    ASSUME NEW c, NEW m, NEW o, c = [map |-> m, order |-> o], NEW x
    PROVE  [c EXCEPT !.order = x] = [map |-> m, order |-> x]
OBVIOUS

LEMMA UpdateMap ==
    ASSUME NEW c, NEW m, NEW o, c = [map |-> m, order |-> o], NEW k, NEW x
    PROVE  [c EXCEPT !.map[k] = x] = [map |-> [m EXCEPT ![k] = x], order |-> o]
OBVIOUS

\* Using a key that is there: Entries::touch.
LEMMA TouchEffect ==
    ASSUME NEW c, Good(c), NEW k \in Keys, ContainsKey(c, k)
    PROVE  /\ Good(Touch(c, k)) /\ Touch(c, k).map = c.map
           /\ \A i, j \in Keys : Before(Touch(c, k).order, i, j) <=> UsedLast(c, k, i, j)
<1> DEFINE r == RemoveFirst(c.order, k)
           t == Append(r, k)
<1>1. Touch(c, k) = [map |-> c.map, order |-> t]
  <2>1. c = [map |-> c.map, order |-> c.order] BY GoodType
  <2>2. Touch(c, k) = [c EXCEPT !.order = t] BY DEF Touch
  <2> HIDE DEF t
  <2>3. QED BY <2>1, <2>2, UpdateOrder
<1>2. /\ r \in Seq(Keys) /\ IsInjective(r) /\ Len(r) = Len(c.order) - 1
      /\ \A j : Contains(r, j) <=> Contains(c.order, j) /\ j # k
      /\ \A i, j : Before(r, i, j) <=> Before(c.order, i, j) /\ i # k /\ j # k
  BY GoodType, RemoveFirstEffect
<1> HIDE DEF r
<1>3. /\ t \in Seq(Keys) /\ IsInjective(t) /\ Len(t) = Len(r) + 1
      /\ \A j : Contains(t, j) <=> Contains(r, j) \/ j = k
      /\ \A i, j : Before(t, i, j) <=> Before(r, i, j) \/ (j = k /\ Contains(r, i))
  BY <1>2, AppendEffect
<1> HIDE DEF t
<1>4. Len(t) <= MaxEntries
  BY <1>2, <1>3, GoodType
<1>5. \A j \in Keys : ContainsKey(Touch(c, k), j) <=> Contains(t, j)
  BY <1>1, <1>2, <1>3, GoodType DEF ContainsKey
<1>6. Good(Touch(c, k))
  BY <1>1, <1>3, <1>4, <1>5, GoodType DEF Good, Caches, WellFormed, Contains
<1>7. \A i, j \in Keys : Before(t, i, j) <=> UsedLast(c, k, i, j)
  BY <1>2, <1>3, GoodType DEF UsedLast
<1>8. QED BY <1>1, <1>6, <1>7

\* Looking k up: a hit is used, anything else leaves k out and the rest as it was.
LEMMA GetArtEffect ==
    ASSUME NEW c, Good(c), NEW k \in Keys
    PROVE  /\ Good(GetArt(c, k))
           /\ IsHit(c, k) => /\ GetArt(c, k).map = c.map
                             /\ \A i, j \in Keys : Before(GetArt(c, k).order, i, j) <=> UsedLast(c, k, i, j)
           /\ ~IsHit(c, k) => /\ GetArt(c, k).map = [c.map EXCEPT ![k] = Absent]
                              /\ \A i, j \in Keys : Before(GetArt(c, k).order, i, j) <=>
                                     Before(c.order, i, j) /\ i # k /\ j # k
<1>1. CASE IsHit(c, k)
  <2>1. ContainsKey(c, k) /\ GetArt(c, k) = Touch(c, k)
    BY <1>1 DEF GetArt, IsHit, ContainsKey, Absent
  <2>2. QED BY <1>1, <2>1, TouchEffect
<1>2. CASE ~ContainsKey(c, k)
  <2>1. GetArt(c, k) = c /\ c.map = [c.map EXCEPT ![k] = Absent] /\ ~IsHit(c, k)
    BY <1>2, GoodType DEF GetArt, IsHit, ContainsKey, Absent
  <2>2. \A i, j : Before(c.order, i, j) => Contains(c.order, i) /\ Contains(c.order, j)
    BY DEF Before, Contains
  <2>3. ~Contains(c.order, k)
    BY <1>2, GoodType
  <2>4. QED BY <2>1, <2>2, <2>3
<1>3. CASE ContainsKey(c, k) /\ ~IsHit(c, k)
  <2> DEFINE r == RemoveFirst(c.order, k)
  <2>1. GetArt(c, k) = [map |-> [c.map EXCEPT ![k] = Absent], order |-> r]
    BY <1>3 DEF GetArt, Discard
  <2>2. /\ r \in Seq(Keys) /\ IsInjective(r) /\ Len(r) = Len(c.order) - 1
        /\ \A j : Contains(r, j) <=> Contains(c.order, j) /\ j # k
        /\ \A i, j : Before(r, i, j) <=> Before(c.order, i, j) /\ i # k /\ j # k
    BY <1>3, GoodType, RemoveFirstEffect
  <2> HIDE DEF r
  <2>3. \A j \in Keys : ContainsKey(GetArt(c, k), j) <=> Contains(r, j)
    BY <2>1, <2>2, GoodType DEF ContainsKey
  <2>4. Len(r) <= MaxEntries
    BY <2>2, GoodType, MaxEntriesAssumption
  <2>5. Good(GetArt(c, k))
    <3>1. [c.map EXCEPT ![k] = Absent] \in [Keys -> Entries \cup {Absent}]
      BY GoodType
    <3>2. GetArt(c, k) \in Caches /\ GetArt(c, k).order = r
      BY <2>1, <2>2, <3>1 DEF Caches
    <3>3. QED BY <2>2, <2>3, <2>4, <3>2 DEF Good, WellFormed, Contains
  <2>6. QED BY <1>3, <2>1, <2>2, <2>5
<1>4. QED BY <1>1, <1>2, <1>3

\* Storing k: it has then been used last; what has to make room has been used before
\* everything that stays.
LEMMA StoreArtEffect ==
    ASSUME NEW c, Good(c), NEW k \in Keys
    PROVE  LET d == StoreArt(c, k) IN
           /\ Good(d) /\ ContainsKey(d, k)
           /\ \A i \in Keys : ContainsKey(d, i) => ContainsKey(c, i) \/ i = k
           /\ \A i, j \in Keys : Before(d.order, i, j) <=>
                  UsedLast(c, k, i, j) /\ ContainsKey(d, i) /\ ContainsKey(d, j)
           /\ \A i, j \in Keys : /\ ContainsKey(c, i) /\ ~ContainsKey(d, i)
                                 /\ ContainsKey(c, j) /\ ContainsKey(d, j)
                                 => Before(c.order, i, j)
<1> DEFINE d == StoreArt(c, k)
<1>0. "live" \in Entries \cup {Absent} /\ "live" # Absent
  BY DEF Entries, Absent
<1>1. CASE ContainsKey(c, k)
  <2>1. d = [Touch(c, k) EXCEPT !.map[k] = "live"]
    BY <1>1 DEF StoreArt
  <2>2. /\ Good(Touch(c, k)) /\ Touch(c, k).map = c.map
        /\ \A i, j \in Keys : Before(Touch(c, k).order, i, j) <=> UsedLast(c, k, i, j)
    BY <1>1, TouchEffect
  <2>3. d = [map |-> [c.map EXCEPT ![k] = "live"], order |-> Touch(c, k).order]
    <3>1. Touch(c, k) = [map |-> c.map, order |-> Touch(c, k).order]
      BY <2>2, GoodType
    <3>2. QED BY <2>1, <3>1, UpdateMap
  <2> HIDE DEF d
  <2>4. \A i \in Keys : ContainsKey(d, i) <=> ContainsKey(c, i)
    BY <1>0, <1>1, <2>3, GoodType DEF ContainsKey
  <2>5. \A i \in Keys : ContainsKey(d, i) <=> Contains(d.order, i)
    BY <2>2, <2>3, <2>4, GoodType DEF ContainsKey
  <2>6. Good(d)
    BY <1>0, <2>2, <2>3, <2>5, GoodType DEF Good, Caches, WellFormed, Contains
  <2>7. \A i, j : Before(d.order, i, j) => Contains(d.order, i) /\ Contains(d.order, j)
    BY DEF Before, Contains
  <2>8. QED BY <1>1, <2>2, <2>3, <2>4, <2>5, <2>6, <2>7 DEF d
<1>2. CASE ~ContainsKey(c, k)
  <2> DEFINE t == Append(c.order, k)
             p == [map |-> c.map, order |-> t]
             e == IF Len(t) <= MaxEntries THEN 0 ELSE Len(t) - MaxEntries
             u == SubSeq(t, e + 1, Len(t))
             gone == {t[n] : n \in 1..e}
  <2>1. /\ t \in Seq(Keys) /\ IsInjective(t) /\ Len(t) = Len(c.order) + 1
        /\ t[Len(t)] = k
        /\ \A j : Contains(t, j) <=> Contains(c.order, j) \/ j = k
        /\ \A i, j : Before(t, i, j) <=> Before(c.order, i, j) \/ (j = k /\ Contains(c.order, i))
    BY <1>2, GoodType, AppendEffect
  <2>2. p = [c EXCEPT !.order = Append(@, k)]
    <3>1. c = [map |-> c.map, order |-> c.order]
      BY GoodType
    <3>2. QED BY <3>1, UpdateOrder
  <2> HIDE DEF t
  <2>3. e \in 0..Len(t) /\ Len(t) - e <= MaxEntries /\ e < Len(t) /\ Len(t) \in Nat
    BY <2>1, GoodType, MaxEntriesAssumption
  <2>4. EvictToCap(p) = [map |-> [i \in Keys |-> IF i \in gone THEN Absent ELSE c.map[i]], order |-> u]
    <3>1. CASE Len(t) <= MaxEntries
      <4>1. e = 0 /\ gone = {}
        BY <3>1
      <4>2. u = t
        BY <2>1, <4>1
      <4>3. [i \in Keys |-> IF i \in gone THEN Absent ELSE c.map[i]] = c.map
        BY <4>1, GoodType
      <4>4. QED BY <3>1, <4>2, <4>3 DEF EvictToCap
    <3>2. CASE ~(Len(t) <= MaxEntries)
      BY <3>2 DEF EvictToCap
    <3>3. QED BY <3>1, <3>2
  <2>5. /\ u \in Seq(Keys) /\ IsInjective(u) /\ Len(u) = Len(t) - e
        /\ \A j : Contains(u, j) <=> Contains(t, j) /\ j \notin gone
        /\ \A i, j : Before(u, i, j) <=> Before(t, i, j) /\ Contains(u, i) /\ Contains(u, j)
        /\ \A i \in gone : \A j : Contains(u, j) => Before(t, i, j)
    BY <2>1, <2>3, DropEffect
  <2>6. k \notin gone
    <3>1. ASSUME NEW n \in 1..e PROVE t[n] # k
      <4>1. n \in 1..Len(t) /\ Len(t) \in 1..Len(t) /\ n # Len(t)
        BY <2>3
      <4>2. QED BY <2>1, <4>1 DEF IsInjective
    <3>2. QED BY <3>1
  <2>7. d = [map |-> [i \in Keys |-> IF i = k THEN "live" ELSE IF i \in gone THEN Absent ELSE c.map[i]],
             order |-> u]
    <3> DEFINE q == EvictToCap(p)
               f == [i \in Keys |-> IF i \in gone THEN Absent ELSE c.map[i]]
    <3>1. d = [q EXCEPT !.map[k] = "live"]
      BY <1>2, <2>2 DEF StoreArt
    <3>2. q = [map |-> f, order |-> u]
      BY <2>4
    <3> HIDE DEF q, u, gone
    <3>3. d = [map |-> [f EXCEPT ![k] = "live"], order |-> u]
      BY <3>1, <3>2
    <3>4. [f EXCEPT ![k] = "live"] =
             [i \in Keys |-> IF i = k THEN "live" ELSE IF i \in gone THEN Absent ELSE c.map[i]]
      OBVIOUS
    <3>5. QED BY <3>3, <3>4
  <2> HIDE DEF d, e, u, gone
  <2>8. \A i \in Keys : ContainsKey(d, i) <=> i = k \/ (ContainsKey(c, i) /\ i \notin gone)
    BY <1>0, <2>6, <2>7 DEF ContainsKey
  <2>9. \A i \in Keys : ContainsKey(d, i) <=> Contains(u, i)
    BY <2>1, <2>5, <2>6, <2>8, GoodType
  <2>10. Good(d)
    <3>1. d.map \in [Keys -> Entries \cup {Absent}] /\ d.order = u
      BY <1>0, <2>7, GoodType
    <3>2. Len(u) <= MaxEntries
      BY <2>3, <2>5
    <3>3. QED BY <2>5, <2>7, <2>9, <3>1, <3>2 DEF Good, Caches, WellFormed, Contains
  <2>11. \A i, j \in Keys : Before(d.order, i, j) <=>
             UsedLast(c, k, i, j) /\ ContainsKey(d, i) /\ ContainsKey(d, j)
    <3>1. \A i, j : Before(c.order, i, j) => Contains(c.order, i) /\ Contains(c.order, j)
      BY DEF Before, Contains
    <3>2. ~Contains(c.order, k) /\ d.order = u
      BY <1>2, <2>7, GoodType
    <3>3. \A i, j \in Keys : Before(t, i, j) <=> UsedLast(c, k, i, j)
      BY <2>1, <3>1, <3>2, GoodType DEF UsedLast
    <3>4. QED BY <2>5, <2>9, <3>2, <3>3
  <2>12. \A i, j \in Keys : /\ ContainsKey(c, i) /\ ~ContainsKey(d, i)
                            /\ ContainsKey(c, j) /\ ContainsKey(d, j)
                            => Before(c.order, i, j)
    <3> SUFFICES ASSUME NEW i \in Keys, NEW j \in Keys, ContainsKey(c, i), ~ContainsKey(d, i),
                        ContainsKey(c, j), ContainsKey(d, j)
                 PROVE  Before(c.order, i, j)
      OBVIOUS
    <3>1. i \in gone /\ Contains(u, j) /\ j # k
      BY <1>2, <2>8, <2>9
    <3>2. QED BY <2>1, <2>5, <3>1
  <2>13. QED BY <2>8, <2>10, <2>11, <2>12 DEF d
<1>3. QED BY <1>1, <1>2

-----------------------------------------------------------------------------
(* The cache.                                                              *)

\* The parts of the type invariant.
CacheType == Good(cache) /\ recency \subseteq Keys \X Keys
HeldType == /\ held \in [Keys -> Pictures]
            /\ \A k \in Keys : ~ContainsKey(cache, k) => held[k] = NoPicture
FetchType == /\ fetch \in [Handlers -> Fetches \cup {Idle}]
             /\ \A h \in Handlers : fetch[h].at = "read" => fetch[h].chunks # <<>>
SourceType == /\ sources \in [Keys -> [Kinds -> [version : 0..MaxChanges, size : Nat]]]
              /\ changes \in 0..MaxChanges /\ pending \subseteq Keys


LEMMA NoPictureType == NoPicture \in Pictures
<1>1. <<>> \in Seq(Chunks)
  OBVIOUS
<1>2. QED BY <1>1 DEF NoPicture, Pictures

\* A new cache whose order is the order of use keeps its part of the invariant.
LEMMA CacheBecomesEffect ==
    ASSUME NEW c, Good(c), NEW pictures \in [Keys -> Pictures], NEW used \in SUBSET (Keys \X Keys),
           CacheBecomes(c, pictures, used),
           \A i, j \in Keys : Before(c.order, i, j) <=>
               <<i, j>> \in used /\ ContainsKey(c, i) /\ ContainsKey(c, j)
    PROVE  CacheType' /\ HeldType' /\ UseInv' /\ cache' = c
<1>1. cache' = c /\ recency' = {p \in used : ContainsKey(c, p[1]) /\ ContainsKey(c, p[2])}
  BY DEF CacheBecomes
<1>2. \A i, j \in Keys : <<i, j>> \in recency' <=> Before(c.order, i, j)
  BY <1>1
<1>3. HeldType'
  BY NoPictureType DEF CacheBecomes, HeldType
<1>4. QED BY <1>1, <1>2, <1>3 DEF CacheType, UseInv

LEMMA UsingEffect ==
    ASSUME CacheType, UseInv, NEW k \in Keys
    PROVE  /\ Using(k) \in SUBSET (Keys \X Keys)
           /\ \A i, j \in Keys : <<i, j>> \in Using(k) /\ (i = k \/ ContainsKey(cache, i))
                                 <=> UsedLast(cache, k, i, j) \/ (j = k /\ i # k /\ ContainsKey(cache, i))
<1>1. \A i, j \in Keys : <<i, j>> \in Using(k) <=>
          (<<i, j>> \in recency /\ i # k /\ j # k) \/ (j = k /\ i # k)
  BY DEF Using
<1>2. \A i, j \in Keys : <<i, j>> \in recency <=> Before(cache.order, i, j)
  BY DEF UseInv
<1>3. \A i, j \in Keys : Before(cache.order, i, j) => ContainsKey(cache, i) /\ ContainsKey(cache, j)
  BY ContainsBefore, GoodType DEF CacheType
<1>4. Using(k) \in SUBSET (Keys \X Keys)
  BY DEF Using, CacheType
<1>5. QED BY <1>1, <1>2, <1>3, <1>4 DEF UsedLast

LEMMA HitCache ==
    ASSUME CacheType, HeldType, UseInv, NEW h, NEW k \in Keys, Hit(h, k)
    PROVE  /\ CacheType' /\ HeldType' /\ UseInv'
           /\ \A i \in Keys : ContainsKey(cache', i) <=> ContainsKey(cache, i)
<1> DEFINE c == GetArt(cache, k)
<1>1. /\ Good(c) /\ c.map = cache.map
      /\ \A i, j \in Keys : Before(c.order, i, j) <=> UsedLast(cache, k, i, j)
  BY GetArtEffect DEF Hit, CacheType
<1>2. CacheBecomes(c, held, Using(k)) /\ ContainsKey(cache, k)
  BY DEF Hit, IsHit, ContainsKey, Absent
<1> HIDE DEF c
<1>3. \A i \in Keys : ContainsKey(c, i) <=> ContainsKey(cache, i)
  BY <1>1 DEF ContainsKey
<1>4. \A i, j \in Keys : UsedLast(cache, k, i, j) => ContainsKey(cache, i) /\ ContainsKey(cache, j)
  BY <1>2, ContainsBefore, GoodType DEF UsedLast, CacheType
<1>5. \A i, j \in Keys : Before(c.order, i, j) <=>
          <<i, j>> \in Using(k) /\ ContainsKey(c, i) /\ ContainsKey(c, j)
  BY <1>1, <1>2, <1>3, <1>4, UsingEffect DEF UsedLast
<1>6. CacheType' /\ HeldType' /\ UseInv' /\ cache' = c
  BY <1>1, <1>2, <1>5, UsingEffect, CacheBecomesEffect DEF HeldType
<1>7. QED BY <1>3, <1>6

LEMMA MissCache ==
    ASSUME CacheType, HeldType, UseInv, NEW h, NEW k \in Keys, Miss(h, k)
    PROVE  /\ CacheType' /\ HeldType' /\ UseInv'
           /\ \A i \in Keys : ContainsKey(cache', i) <=> ContainsKey(cache, i) /\ i # k
<1> DEFINE c == GetArt(cache, k)
<1>1. /\ Good(c) /\ c.map = [cache.map EXCEPT ![k] = Absent]
      /\ \A i, j \in Keys : Before(c.order, i, j) <=> Before(cache.order, i, j) /\ i # k /\ j # k
  BY GetArtEffect DEF Miss, CacheType
<1>2. CacheBecomes(c, held, recency)
  BY DEF Miss
<1> HIDE DEF c
<1>3. \A i \in Keys : ContainsKey(c, i) <=> ContainsKey(cache, i) /\ i # k
  BY <1>1, GoodType DEF ContainsKey, CacheType
<1>4. \A i, j \in Keys : Before(cache.order, i, j) => ContainsKey(cache, i) /\ ContainsKey(cache, j)
  BY ContainsBefore, GoodType DEF CacheType
<1>5. \A i, j \in Keys : Before(c.order, i, j) <=>
          <<i, j>> \in recency /\ ContainsKey(c, i) /\ ContainsKey(c, j)
  BY <1>1, <1>3, <1>4 DEF UseInv
<1>6. CacheType' /\ HeldType' /\ UseInv' /\ cache' = c
  BY <1>1, <1>2, <1>5, CacheBecomesEffect DEF HeldType, CacheType
<1>7. QED BY <1>3, <1>6

\* What a stored picture pushes out has been used before everything that stays.
LEMMA StoreCache ==
    ASSUME CacheType, HeldType, FetchType, UseInv, NEW h \in Handlers, StoreFetched(h)
    PROVE  /\ CacheType' /\ HeldType' /\ UseInv'
           /\ fetch[h] \in Fetches
           /\ held' = [j \in Keys |-> IF ~ContainsKey(cache', j) THEN NoPicture
                                      ELSE IF j = fetch[h].key
                                      THEN [chunks |-> fetch[h].chunks, raced |-> fetch[h].raced]
                                      ELSE held[j]]
           /\ \A j \in Keys : ContainsKey(cache', j) => ContainsKey(cache, j) \/ j = fetch[h].key
           /\ \A i, j \in Keys : /\ ContainsKey(cache, i) /\ ~ContainsKey(cache', i)
                                 /\ ContainsKey(cache, j) /\ ContainsKey(cache', j)
                                 => Before(cache.order, i, j)
<1>1. fetch[h] \in Fetches
  BY DEF StoreFetched, FetchType, Idle
<1>2. PICK k \in Keys : k = fetch[h].key
  BY <1>1 DEF Fetches
<1> DEFINE c == StoreArt(cache, k)
           picture == [chunks |-> fetch[h].chunks, raced |-> fetch[h].raced]
           pictures == [held EXCEPT ![k] = picture]
<1>3. picture \in Pictures
  BY <1>1 DEF Fetches, Pictures
<1>4. CacheBecomes(c, pictures, Using(k))
  BY <1>2 DEF StoreFetched
<1>5. /\ Good(c) /\ ContainsKey(c, k)
      /\ \A i \in Keys : ContainsKey(c, i) => ContainsKey(cache, i) \/ i = k
      /\ \A i, j \in Keys : Before(c.order, i, j) <=>
             UsedLast(cache, k, i, j) /\ ContainsKey(c, i) /\ ContainsKey(c, j)
      /\ \A i, j \in Keys : /\ ContainsKey(cache, i) /\ ~ContainsKey(c, i)
                            /\ ContainsKey(cache, j) /\ ContainsKey(c, j)
                            => Before(cache.order, i, j)
  BY StoreArtEffect DEF CacheType
<1> HIDE DEF c, picture
<1>6. pictures \in [Keys -> Pictures]
  BY <1>3 DEF HeldType
<1>7. \A i, j \in Keys : Before(c.order, i, j) <=>
          <<i, j>> \in Using(k) /\ ContainsKey(c, i) /\ ContainsKey(c, j)
  <2>1. \A i, j \in Keys : UsedLast(cache, k, i, j) <=> <<i, j>> \in Using(k) /\ (i = k \/ ContainsKey(cache, i))
    BY UsingEffect DEF UsedLast
  <2>2. QED BY <1>5, <2>1
<1>8. CacheType' /\ HeldType' /\ UseInv' /\ cache' = c
  <2> HIDE DEF pictures
  <2>1. QED BY <1>4, <1>5, <1>6, <1>7, UsingEffect, CacheBecomesEffect
<1>9. held' = [j \in Keys |-> IF ~ContainsKey(cache', j) THEN NoPicture
                              ELSE IF j = fetch[h].key
                              THEN [chunks |-> fetch[h].chunks, raced |-> fetch[h].raced]
                              ELSE held[j]]
  BY <1>2, <1>4, <1>8 DEF CacheBecomes, HeldType, picture
<1>10. QED BY <1>1, <1>2, <1>5, <1>8, <1>9

LEMMA ExpireCache ==
    ASSUME CacheType, HeldType, UseInv, NEW k \in Keys, Expire(k)
    PROVE  /\ CacheType' /\ HeldType' /\ UseInv'
           /\ \A i \in Keys : ContainsKey(cache', i) <=> ContainsKey(cache, i)
<1>1. cache' = [map |-> [cache.map EXCEPT ![k] = "expired"], order |-> cache.order]
  BY GoodType, UpdateMap DEF Expire, CacheType
<1>2. "expired" \in Entries /\ "expired" # Absent /\ ContainsKey(cache, k)
  BY DEF Entries, Absent, Expire, IsHit, ContainsKey
<1>3. \A i \in Keys : ContainsKey(cache', i) <=> ContainsKey(cache, i)
  BY <1>1, <1>2, GoodType DEF ContainsKey, CacheType
<1>4. cache'.map \in [Keys -> Entries \cup {Absent}] /\ cache'.order = cache.order
  BY <1>1, <1>2, GoodType DEF CacheType
<1>5. cache' \in Caches
  BY <1>1, <1>4, GoodType DEF Caches, CacheType
<1>6. Good(cache')
  BY <1>3, <1>4, <1>5, GoodType DEF Good, WellFormed, CacheType, Contains
<1>7. QED BY <1>3, <1>4, <1>6 DEF Expire, CacheType, HeldType, UseInv

LEMMA EmptyGood == Good(Empty) /\ \A i, j : ~Before(Empty.order, i, j)
<1>1. Empty \in Caches /\ Empty.order = <<>> /\ \A k \in Keys : ~ContainsKey(Empty, k)
  <2>1. <<>> \in Seq(Keys)
    OBVIOUS
  <2>2. QED BY <2>1 DEF Empty, Caches, ContainsKey
<1>2. QED BY <1>1, MaxEntriesAssumption DEF Good, WellFormed, IsInjective, Before

LEMMA ClearCache ==
    ASSUME CacheType, HeldType, Clear
    PROVE  /\ CacheType' /\ HeldType' /\ UseInv' /\ cache' = Empty
           /\ \A i \in Keys : ~ContainsKey(cache', i)
<1>1. \A i \in Keys : ~ContainsKey(Empty, i)
  BY DEF Empty, ContainsKey
<1>2. CacheType' /\ HeldType' /\ UseInv' /\ cache' = Empty
  BY <1>1, EmptyGood, CacheBecomesEffect DEF Clear, HeldType, CacheType
<1>3. QED BY <1>1, <1>2

-----------------------------------------------------------------------------
(* The transfers.                                                          *)

\* What is known of a transfer's record, and of one that is changed in a part.
LEMMA FetchRecord ==
    ASSUME NEW f \in Fetches
    PROVE  /\ f # Idle /\ f.key \in Keys /\ f.kind \in Kinds /\ f.at \in {"fetching", "read"}
           /\ f.chunks \in Seq(Chunks) /\ Len(f.chunks) \in Nat /\ f.raced \in BOOLEAN
           /\ LET g == [f EXCEPT !.raced = TRUE] IN
              /\ g \in Fetches /\ g.raced /\ g.at = f.at /\ g.kind = f.kind
              /\ g.key = f.key /\ g.chunks = f.chunks
           /\ LET g == [f EXCEPT !.kind = "albumart", !.chunks = <<>>] IN
              /\ g \in Fetches /\ g.kind = "albumart" /\ g.chunks = <<>>
              /\ g.key = f.key /\ g.at = f.at /\ g.raced = f.raced
<1>1. /\ f.key \in Keys /\ f.kind \in Kinds /\ f.at \in {"fetching", "read"}
      /\ f.chunks \in Seq(Chunks) /\ Len(f.chunks) \in Nat /\ f.raced \in BOOLEAN
  BY DEF Fetches
<1>2. f # Idle
  BY <1>1 DEF Idle
<1>3. LET g == [f EXCEPT !.raced = TRUE] IN
         /\ g \in Fetches /\ g.raced /\ g.at = f.at /\ g.kind = f.kind
         /\ g.key = f.key /\ g.chunks = f.chunks
  BY DEF Fetches
<1>4. LET g == [f EXCEPT !.kind = "albumart", !.chunks = <<>>] IN
         /\ g \in Fetches /\ g.kind = "albumart" /\ g.chunks = <<>>
         /\ g.key = f.key /\ g.at = f.at /\ g.raced = f.raced
  <2>1. <<>> \in Seq(Chunks) /\ "albumart" \in Kinds
    BY DEF Kinds
  <2>2. QED BY <2>1 DEF Fetches
<1>5. QED BY <1>1, <1>2, <1>3, <1>4

\* Of a transfer, what TransferInv says.
Intact(f) ==
    (f # Idle /\ ~f.raced) =>
        LET source == sources[f.key][f.kind] IN
        /\ \A n \in 1..Len(f.chunks) : f.chunks[n] = <<f.kind, source.version, n>>
        /\ IF f.at = "read" THEN Len(f.chunks) = source.size
           ELSE Len(f.chunks) < source.size \/ f.chunks = <<>>
        /\ f.kind = "albumart" => sources[f.key]["readpicture"].size = 0

LEMMA TransferIntact == TransferInv <=> \A h \in Handlers : Intact(fetch[h])
BY DEF TransferInv, Intact, Undisturbed, Source

\* A step of one transfer that keeps it intact.
LEMMA FetchedEffect ==
    ASSUME FetchType, TransferInv, UNCHANGED sources, NEW h \in Handlers,
           NEW f \in Fetches \cup {Idle}, Fetched(h, f), Intact(f),
           f.at = "read" => f.chunks # <<>>
    PROVE  FetchType' /\ TransferInv'
<1>1. fetch' = [fetch EXCEPT ![h] = f]
  BY DEF Fetched
<1>2. FetchType'
  BY <1>1 DEF FetchType
<1>3. \A g \in Handlers : fetch'[g] = IF g = h THEN f ELSE fetch[g]
  BY <1>1 DEF FetchType
<1>5. \A g \in Handlers : Intact(fetch[g])
  BY TransferIntact
<1>6. \A g \in Handlers : Intact(IF g = h THEN f ELSE fetch[g])
  BY <1>5
<1>7. TransferInv'
  BY <1>3, <1>6 DEF TransferInv, Undisturbed, Source, Intact
<1>8. QED BY <1>2, <1>7

LEMMA IdleIntact == Intact(Idle) /\ Idle.at # "read"
BY DEF Intact, Idle

\* Giving up keeps a transfer intact that was disturbed, or had nothing to read.
LEMMA GiveUpEffect ==
    ASSUME NEW f \in Fetches, f.at = "fetching", Intact(f),
           f.raced \/ sources[f.key][f.kind].size = 0
    PROVE  GiveUp(f) \in Fetches \cup {Idle} /\ Intact(GiveUp(f)) /\ GiveUp(f).at # "read"
<1>1. CASE f.kind = "readpicture"
  <2> DEFINE g == [f EXCEPT !.kind = "albumart", !.chunks = <<>>]
  <2>1. GiveUp(f) = g
    BY <1>1 DEF GiveUp
  <2>2. /\ g \in Fetches /\ g.kind = "albumart" /\ g.chunks = <<>>
        /\ g.key = f.key /\ g.at = f.at /\ g.raced = f.raced
    BY FetchRecord
  <2> HIDE DEF g
  <2>3. Intact(g)
    BY <1>1, <2>2 DEF Intact
  <2>4. QED BY <2>1, <2>2, <2>3
<1>2. CASE f.kind # "readpicture"
  <2>1. GiveUp(f) = Idle
    BY <1>2 DEF GiveUp
  <2>2. QED BY <2>1, IdleIntact
<1>3. QED BY <1>1, <1>2

LEMMA ReadChunkTransfer ==
    ASSUME FetchType, SourceType, TransferInv, NEW h \in Handlers, ReadChunk(h)
    PROVE  FetchType' /\ TransferInv'
<1> DEFINE f == fetch[h]
           source == sources[f.key][f.kind]
           n == Len(f.chunks) + 1
           chunk == <<f.kind, source.version, n>>
           at == IF Complete(n, source.size) THEN "read" ELSE f.at
           g == [f EXCEPT !.chunks = Append(@, chunk), !.at = at]
<1>1. f \in Fetches /\ f.at = "fetching" /\ Len(f.chunks) < source.size
  BY DEF ReadChunk, Fetching, FetchType, Idle, Source
<1>2. f.key \in Keys /\ f.kind \in Kinds /\ f.chunks \in Seq(Chunks) /\ Len(f.chunks) \in Nat
  BY <1>1, FetchRecord
<1>3. source.version \in 0..MaxChanges /\ source.size \in Nat
  BY <1>2 DEF SourceType
<1>4. Fetched(h, g) /\ UNCHANGED sources
  BY DEF ReadChunk, Source, mpd
<1> HIDE DEF f, source
<1>5. chunk \in Chunks /\ n \in Nat \ {0}
  BY <1>2, <1>3 DEF Chunks
<1> DEFINE chunks == Append(f.chunks, chunk)
<1>6. /\ chunks \in Seq(Chunks) /\ Len(chunks) = n /\ chunks[n] = chunk /\ chunks # <<>>
      /\ \A m \in 1..Len(f.chunks) : chunks[m] = f.chunks[m]
  BY <1>2, <1>5
<1>7. /\ at \in {"fetching", "read"}
      /\ at = "read" <=> n >= source.size
  BY <1>1 DEF Complete
<1> HIDE DEF n, at, chunk, chunks
<1>8. g = [f EXCEPT !.chunks = chunks, !.at = at]
  BY DEF chunks
<1> HIDE DEF g
<1>9. /\ g \in Fetches /\ g.chunks = chunks /\ g.at = at
      /\ g.key = f.key /\ g.kind = f.kind /\ g.raced = f.raced
  BY <1>1, <1>6, <1>7, <1>8 DEF Fetches
<1>10. Intact(g)
  <2> SUFFICES ASSUME ~f.raced PROVE Intact(g)
    BY <1>9 DEF Intact
  <2>1. f # Idle /\ Intact(f)
    BY <1>1, FetchRecord, TransferIntact DEF f
  <2>2. /\ \A m \in 1..Len(f.chunks) : f.chunks[m] = <<f.kind, source.version, m>>
        /\ f.kind = "albumart" => sources[f.key]["readpicture"].size = 0
    BY <2>1 DEF Intact, source
  <2>3. \A m \in 1..Len(chunks) : chunks[m] = <<f.kind, source.version, m>>
    <3> TAKE m \in 1..Len(chunks)
    <3>1. CASE m = n
      BY <1>6, <3>1 DEF chunk
    <3>2. CASE m # n
      <4>1. m \in 1..Len(f.chunks)
        BY <1>2, <1>6, <3>2 DEF n
      <4>2. QED BY <1>6, <2>2, <4>1
    <3>3. QED BY <3>1, <3>2
  <2>4. IF at = "read" THEN Len(chunks) = source.size ELSE Len(chunks) < source.size
    BY <1>1, <1>2, <1>3, <1>6, <1>7 DEF n
  <2>5. QED BY <1>9, <2>2, <2>3, <2>4 DEF Intact, source
<1>11. g \in Fetches \cup {Idle} /\ (g.at = "read" => g.chunks # <<>>)
  BY <1>6, <1>9
<1>12. QED BY <1>4, <1>10, <1>11, FetchedEffect

LEMMA EndedTransfer ==
    ASSUME FetchType, SourceType, TransferInv, NEW h \in Handlers,
           NothingSent(h) \/ LoseConnection(h) \/ Dropped(h) \/ StoreFetched(h)
    PROVE  FetchType' /\ TransferInv'
<1>0. UNCHANGED sources
  BY DEF NothingSent, LoseConnection, Dropped, StoreFetched, mpd
<1>1. CASE Dropped(h) \/ StoreFetched(h)
  <2>1. Fetched(h, Idle)
    BY <1>1 DEF Dropped, StoreFetched
  <2>2. QED BY <1>0, <2>1, IdleIntact, FetchedEffect
<1>2. CASE NothingSent(h) \/ LoseConnection(h)
  <2> DEFINE f == fetch[h]
  <2>1. f \in Fetches /\ f.at = "fetching" /\ Intact(f)
    BY <1>2, TransferIntact DEF NothingSent, LoseConnection, Fetching, FetchType, Idle
  <2>2. PICK g \in Fetches : /\ Fetched(h, GiveUp(g)) /\ g.at = "fetching" /\ Intact(g)
                             /\ g.raced \/ sources[g.key][g.kind].size = 0
    <3>1. CASE NothingSent(h)
      <4>1. Fetched(h, GiveUp(f)) /\ Len(f.chunks) >= sources[f.key][f.kind].size
        BY <3>1 DEF NothingSent, Source
      <4> HIDE DEF f
      <4>2. sources[f.key][f.kind].size \in Nat /\ Len(f.chunks) \in Nat
        <5>1. f.key \in Keys /\ f.kind \in Kinds /\ Len(f.chunks) \in Nat
          BY <2>1, FetchRecord
        <5>2. sources[f.key][f.kind] \in [version : 0..MaxChanges, size : Nat]
          BY <5>1 DEF SourceType
        <5>3. QED BY <5>1, <5>2
      <4>3. f.raced \/ sources[f.key][f.kind].size = 0
        <5> SUFFICES ASSUME ~f.raced PROVE sources[f.key][f.kind].size = 0
          OBVIOUS
        <5>1. Len(f.chunks) < sources[f.key][f.kind].size \/ f.chunks = <<>>
          BY <2>1, FetchRecord DEF Intact
        <5>2. f.chunks = <<>>
          BY <4>1, <4>2, <5>1
        <5>3. Len(f.chunks) = 0
          BY <5>2
        <5>4. QED BY <4>1, <4>2, <5>3
      <4>4. QED BY <2>1, <4>1, <4>3
    <3>2. CASE LoseConnection(h)
      <4> DEFINE g == [f EXCEPT !.raced = TRUE]
      <4>1. Fetched(h, GiveUp(g))
        BY <3>2 DEF LoseConnection
      <4>2. g \in Fetches /\ g.raced /\ g.at = "fetching"
        BY <2>1, FetchRecord
      <4> HIDE DEF g
      <4>3. QED BY <4>1, <4>2 DEF Intact
    <3>3. QED BY <1>2, <3>1, <3>2
  <2>3. GiveUp(g) \in Fetches \cup {Idle} /\ Intact(GiveUp(g)) /\ GiveUp(g).at # "read"
    BY <2>2, GiveUpEffect
  <2>4. QED BY <1>0, <2>2, <2>3, FetchedEffect
<1>3. QED BY <1>1, <1>2

LEMMA MissTransfer ==
    ASSUME FetchType, TransferInv, NEW h \in Handlers, NEW k \in Keys, Miss(h, k)
    PROVE  FetchType' /\ TransferInv'
<1> DEFINE f == [at |-> "fetching", key |-> k, kind |-> "readpicture", chunks |-> <<>>, raced |-> FALSE]
<1>1. Fetched(h, f) /\ UNCHANGED sources
  BY DEF Miss, mpd, Fetched
<1>2. f \in Fetches
  <2>1. <<>> \in Seq(Chunks)
    OBVIOUS
  <2>2. QED BY <2>1 DEF Fetches, Kinds
<1>3. Intact(f)
  BY DEF Intact
<1>4. QED BY <1>1, <1>2, <1>3, FetchedEffect

\* A change disturbs the transfers of its key and no others.
LEMMA ChangeTransfer ==
    ASSUME FetchType, SourceType, TransferInv, NEW k \in Changing, Change(k)
    PROVE  /\ FetchType' /\ SourceType' /\ TransferInv'
           /\ \A j \in Keys \ {k} : sources'[j] = sources[j]
<1>1. k \in Keys /\ MaxChanges \in Nat
  BY ChangesAssumption
<1>2. PICK m \in Kinds, size \in Sizes :
         sources' = [sources EXCEPT ![k][m] = [version |-> changes + 1, size |-> size]]
  BY DEF Change
<1>3. size \in Nat
  BY SizesAssumption
<1>4. changes' \in 0..MaxChanges /\ changes + 1 \in 0..MaxChanges
  BY <1>1 DEF Change, SourceType
<1>5. SourceType' /\ \A j \in Keys \ {k} : sources'[j] = sources[j]
  <2>1. pending' \subseteq Keys
    BY <1>1 DEF Change, SourceType
  <2>2. [version |-> changes + 1, size |-> size] \in [version : 0..MaxChanges, size : Nat]
    BY <1>3, <1>4
  <2>3. QED BY <1>1, <1>2, <1>4, <2>1, <2>2 DEF SourceType
<1>6. ASSUME NEW h \in Handlers
      PROVE  /\ fetch'[h] \in Fetches \cup {Idle}
             /\ fetch'[h].at = fetch[h].at /\ fetch'[h].chunks = fetch[h].chunks
             /\ \/ fetch'[h] = Idle
                \/ fetch'[h].raced
                \/ fetch'[h] = fetch[h] /\ fetch[h] \in Fetches /\ fetch[h].key # k
  <2>1. CASE fetch[h] = Idle
    BY <2>1 DEF Change
  <2>2. CASE fetch[h] # Idle /\ fetch[h].key = k
    <3>1. fetch'[h] = [fetch[h] EXCEPT !.raced = TRUE] /\ fetch[h] \in Fetches
      BY <2>2 DEF Change, FetchType
    <3>2. PICK f \in Fetches : f = fetch[h] /\ fetch'[h] = [f EXCEPT !.raced = TRUE]
      BY <3>1
    <3> DEFINE g == [f EXCEPT !.raced = TRUE]
    <3>3. g \in Fetches /\ g.raced /\ g.at = f.at /\ g.chunks = f.chunks
      BY FetchRecord
    <3> HIDE DEF g
    <3>4. fetch'[h] = g
      BY <3>2 DEF g
    <3>5. QED BY <3>2, <3>3, <3>4
  <2>3. CASE fetch[h] # Idle /\ fetch[h].key # k
    BY <2>3 DEF Change, FetchType
  <2>4. QED BY <2>1, <2>2, <2>3
<1>7. FetchType'
  <2>1. fetch' = [h \in Handlers |-> fetch'[h]]
    BY DEF Change
  <2>2. QED BY <1>6, <2>1 DEF FetchType
<1>8. TransferInv'
  <2>1. ASSUME NEW h \in Handlers, fetch'[h] # Idle, ~fetch'[h].raced
        PROVE  /\ fetch'[h] = fetch[h] /\ fetch[h] # Idle /\ ~fetch[h].raced
               /\ sources'[fetch[h].key] = sources[fetch[h].key]
    BY <1>5, <1>6, <2>1, FetchRecord
  <2>2. QED BY <2>1 DEF TransferInv, Undisturbed, Source
<1>9. QED BY <1>5, <1>7, <1>8

-----------------------------------------------------------------------------
(* The steps.                                                              *)

TypeInv == CacheType /\ HeldType /\ FetchType /\ SourceType

LEMMA TypeParts == TypeInv => TypeOK
BY DEF TypeInv, CacheType, HeldType, FetchType, SourceType, TypeOK, Good

Inv == TypeInv /\ UseInv /\ TransferInv /\ CachedIsTrue

\* An intact transfer that is over has read the picture MPD has.
LEMMA WholePicture ==
    ASSUME FetchType, SourceType, TransferInv, NEW h \in Handlers,
           fetch[h] \in Fetches, fetch[h].at = "read", ~fetch[h].raced
    PROVE  fetch[h].chunks = Best(fetch[h].key)
<1> DEFINE f == fetch[h]
           source == sources[f.key][f.kind]
<1>1. /\ f.key \in Keys /\ f.kind \in Kinds /\ f.chunks \in Seq(Chunks)
      /\ f.chunks # <<>> /\ f # Idle
  BY FetchRecord DEF FetchType
<1>2. /\ \A n \in 1..Len(f.chunks) : f.chunks[n] = <<f.kind, source.version, n>>
      /\ Len(f.chunks) = source.size
      /\ f.kind = "albumart" => sources[f.key]["readpicture"].size = 0
  BY <1>1 DEF TransferInv, Undisturbed, Source
<1> HIDE DEF f
<1>3. source.size \in Nat /\ source.size > 0
  <2>1. Len(f.chunks) \in Nat /\ Len(f.chunks) > 0
    BY <1>1
  <2>2. QED BY <1>2, <2>1
<1>4. f.chunks = Whole(f.key, f.kind)
  <2>1. f.chunks = [n \in 1..Len(f.chunks) |-> f.chunks[n]]
    BY <1>1
  <2>2. QED BY <1>2, <2>1 DEF Whole
<1>5. Whole(f.key, f.kind) = Best(f.key)
  BY <1>1, <1>2, <1>3 DEF Best, Kinds
<1>6. QED BY <1>4, <1>5 DEF f

\* Pictures that stay cached, of keys whose pictures do not change, stay true.
LEMMA FrameTrue ==
    ASSUME CachedIsTrue,
           \A k \in Keys : ContainsKey(cache', k) /\ k \notin pending' =>
               /\ ContainsKey(cache, k) /\ k \notin pending
               /\ held'[k] = held[k] /\ sources'[k] = sources[k]
    PROVE  CachedIsTrue'
<1> SUFFICES ASSUME NEW k \in Keys, ContainsKey(cache', k), k \notin pending', ~held'[k].raced
             PROVE  held'[k].chunks = Best(k)'
  BY DEF CachedIsTrue, ContainsKey
<1>1. held[k].chunks = Best(k) /\ held'[k] = held[k] /\ sources'[k] = sources[k]
  BY DEF CachedIsTrue
<1>2. QED BY <1>1 DEF Best, Whole

LEMMA NextInv == Inv /\ [Next]_vars => Inv'
<1> SUFFICES ASSUME Inv, [Next]_vars PROVE Inv'
  OBVIOUS
<1> USE DEF Inv, TypeInv, mpd
<1>1. ASSUME NEW h \in Handlers, NEW k \in Keys, Hit(h, k) PROVE Inv'
  <2>1. CacheType' /\ HeldType' /\ UseInv' /\ \A i \in Keys : ContainsKey(cache', i) <=> ContainsKey(cache, i)
    BY <1>1, HitCache
  <2>2. FetchType' /\ SourceType' /\ TransferInv'
    BY <1>1 DEF Hit, FetchType, SourceType, TransferInv, Undisturbed, Source
  <2>3. CachedIsTrue'
    BY <1>1, <2>1, FrameTrue DEF Hit, CacheBecomes
  <2>4. QED BY <2>1, <2>2, <2>3
<1>2. ASSUME NEW h \in Handlers, NEW k \in Keys, Miss(h, k) PROVE Inv'
  <2>1. CacheType' /\ HeldType' /\ UseInv'
        /\ \A i \in Keys : ContainsKey(cache', i) <=> ContainsKey(cache, i) /\ i # k
    BY <1>2, MissCache
  <2>2. FetchType' /\ TransferInv'
    BY <1>2, MissTransfer
  <2>3. SourceType'
    BY <1>2 DEF Miss, SourceType
  <2>4. CachedIsTrue'
    BY <1>2, <2>1, FrameTrue DEF Miss, CacheBecomes
  <2>5. QED BY <2>1, <2>2, <2>3, <2>4
<1>3. ASSUME NEW h \in Handlers, ReadChunk(h) PROVE Inv'
  <2>1. FetchType' /\ TransferInv'
    BY <1>3, ReadChunkTransfer
  <2>2. UNCHANGED <<cache, held, recency, sources, changes, pending>>
    BY <1>3 DEF ReadChunk
  <2>3. QED BY <2>1, <2>2, FrameTrue DEF CacheType, HeldType, UseInv, SourceType
<1>4. ASSUME NEW h \in Handlers, NothingSent(h) \/ LoseConnection(h) \/ Dropped(h) PROVE Inv'
  <2>1. FetchType' /\ TransferInv'
    BY <1>4, EndedTransfer
  <2>2. UNCHANGED <<cache, held, recency, sources, changes, pending>>
    BY <1>4 DEF NothingSent, LoseConnection, Dropped
  <2>3. QED BY <2>1, <2>2, FrameTrue DEF CacheType, HeldType, UseInv, SourceType
<1>5. ASSUME NEW h \in Handlers, StoreFetched(h) PROVE Inv'
  <2>1. /\ CacheType' /\ HeldType' /\ UseInv'
        /\ fetch[h] \in Fetches
        /\ held' = [j \in Keys |-> IF ~ContainsKey(cache', j) THEN NoPicture
                                   ELSE IF j = fetch[h].key
                                   THEN [chunks |-> fetch[h].chunks, raced |-> fetch[h].raced]
                                   ELSE held[j]]
        /\ \A j \in Keys : ContainsKey(cache', j) => ContainsKey(cache, j) \/ j = fetch[h].key
    BY <1>5, StoreCache
  <2>2. FetchType' /\ TransferInv'
    BY <1>5, EndedTransfer
  <2>3. UNCHANGED <<sources, changes, pending>> /\ fetch[h].at = "read"
    BY <1>5 DEF StoreFetched
  <2>4. CachedIsTrue'
    <3> SUFFICES ASSUME NEW k \in Keys, ContainsKey(cache', k), k \notin pending', ~held'[k].raced
                 PROVE  held'[k].chunks = Best(k)'
      BY DEF CachedIsTrue, ContainsKey
    <3>1. Best(k)' = Best(k)
      BY <2>3 DEF Best, Whole
    <3>2. CASE k = fetch[h].key
      <4>1. held'[k].chunks = fetch[h].chunks /\ ~fetch[h].raced
        BY <2>1, <3>2
      <4>2. QED BY <2>1, <2>3, <3>1, <3>2, <4>1, WholePicture
    <3>3. CASE k # fetch[h].key
      <4>1. held'[k] = held[k] /\ ContainsKey(cache, k)
        BY <2>1, <3>3
      <4>2. QED BY <2>3, <3>1, <4>1 DEF CachedIsTrue
    <3>4. QED BY <3>2, <3>3
  <2>5. QED BY <2>1, <2>2, <2>3, <2>4 DEF SourceType
<1>6. ASSUME NEW k \in Keys, Expire(k) PROVE Inv'
  <2>1. CacheType' /\ HeldType' /\ UseInv' /\ \A i \in Keys : ContainsKey(cache', i) <=> ContainsKey(cache, i)
    BY <1>6, ExpireCache
  <2>2. UNCHANGED <<held, fetch, sources, changes, pending>>
    BY <1>6 DEF Expire
  <2>3. FetchType' /\ SourceType' /\ TransferInv'
    BY <2>2 DEF FetchType, SourceType, TransferInv, Undisturbed, Source
  <2>4. QED BY <2>1, <2>2, <2>3, FrameTrue
<1>7. ASSUME NEW k \in Changing, Change(k) PROVE Inv'
  <2>1. FetchType' /\ SourceType' /\ TransferInv' /\ \A j \in Keys \ {k} : sources'[j] = sources[j]
    BY <1>7, ChangeTransfer
  <2>2. UNCHANGED <<cache, held, recency>> /\ pending' = pending \cup {k}
    BY <1>7 DEF Change
  <2>3. CachedIsTrue'
    BY <2>1, <2>2, FrameTrue
  <2>4. QED BY <2>1, <2>2, <2>3 DEF CacheType, HeldType, UseInv
<1>8. CASE Clear
  <2>1. CacheType' /\ HeldType' /\ UseInv' /\ \A i \in Keys : ~ContainsKey(cache', i)
    BY <1>8, ClearCache
  <2>2. FetchType' /\ SourceType' /\ TransferInv'
    BY <1>8 DEF Clear, FetchType, SourceType, TransferInv, Undisturbed, Source
  <2>3. QED BY <2>1, <2>2, FrameTrue
<1>9. CASE UNCHANGED vars
  <2>1. UNCHANGED <<cache, held, recency, fetch, sources, changes, pending>>
    BY <1>9 DEF vars
  <2>2. FetchType' /\ SourceType' /\ TransferInv'
    BY <2>1 DEF FetchType, SourceType, TransferInv, Undisturbed, Source
  <2>3. QED BY <2>1, <2>2, FrameTrue DEF CacheType, HeldType, UseInv
<1>10. QED
  BY <1>1, <1>2, <1>3, <1>4, <1>5, <1>6, <1>7, <1>8, <1>9 DEF Next

LEMMA InitInv == Init => Inv
<1> SUFFICES ASSUME Init PROVE Inv
  OBVIOUS
<1>1. cache = Empty /\ recency = {} /\ \A k \in Keys : held[k] = NoPicture /\ ~ContainsKey(cache, k)
  BY DEF Init, Empty, ContainsKey
<1>2. CacheType /\ UseInv
  BY <1>1, EmptyGood DEF CacheType, UseInv
<1>3. HeldType
  BY <1>1, NoPictureType DEF HeldType, Init
<1>4. FetchType /\ TransferInv
  BY IdleIntact DEF Init, FetchType, TransferInv, Undisturbed, Idle
<1>5. SourceType
  <2>1. PICK a \in Albums : sources = [k \in Keys |-> [m \in Kinds |-> [version |-> 0, size |-> a[k][m]]]]
    BY DEF Init
  <2>2. a \in [Keys -> [Kinds -> Nat]]
    BY SizesAssumption DEF Kinds
  <2>3. \A k \in Keys, m \in Kinds : [version |-> 0, size |-> a[k][m]] \in [version : 0..MaxChanges, size : Nat]
    BY <2>2, ChangesAssumption
  <2>4. sources \in [Keys -> [Kinds -> [version : 0..MaxChanges, size : Nat]]]
    BY <2>1, <2>3
  <2>5. QED BY <2>4, ChangesAssumption DEF Init, SourceType
<1>6. QED BY <1>1, <1>2, <1>3, <1>4, <1>5 DEF Inv, TypeInv, CachedIsTrue

\* Every variable stays in its range; in particular the cache never holds more than
\* MAX_ENTRIES pictures.
THEOREM TypeCorrect == Spec => []TypeOK
<1>1. Inv => TypeOK
  BY TypeParts DEF Inv
<1>2. QED BY <1>1, InitInv, NextInv, PTL DEF Spec

\* The map and the order list never part company.
THEOREM CacheNeverTears == Spec => []CacheWellFormed
<1>1. Inv => CacheWellFormed
  BY DEF Inv, TypeInv, CacheType, Good, CacheWellFormed
<1>2. QED BY <1>1, InitInv, NextInv, PTL DEF Spec

\* A cached picture whose transfer nothing disturbed is the one MPD has.
THEOREM PicturesAreTrue == Spec => []CachedIsTrue
<1>1. Inv => CachedIsTrue
  BY DEF Inv
<1>2. QED BY <1>1, InitInv, NextInv, PTL DEF Spec

\* What a step evicts has been used before everything it leaves.
LEMMA EvictionStep ==
    ASSUME Inv, [Next]_vars, cache' # Empty, NEW k \in Keys, NEW j \in Keys,
           IsHit(cache, k), ~ContainsKey(cache', k), ContainsKey(cache', j), ContainsKey(cache, j)
    PROVE  <<k, j>> \in recency
<1> USE DEF Inv, TypeInv
<1>1. ContainsKey(cache, k)
  BY DEF IsHit, ContainsKey, Absent
<1>2. cache' # cache
  BY <1>1
<1>3. ASSUME NEW h \in Handlers, NEW i \in Keys, Hit(h, i) PROVE FALSE
  BY <1>1, <1>3, HitCache
<1>4. ASSUME NEW h \in Handlers, NEW i \in Keys, Miss(h, i) PROVE FALSE
  <2>1. k = i
    BY <1>1, <1>4, MissCache
  <2>2. QED BY <1>4, <2>1 DEF Miss
<1>5. ASSUME NEW h \in Handlers, StoreFetched(h) PROVE <<k, j>> \in recency
  <2>1. Before(cache.order, k, j)
    BY <1>1, <1>5, StoreCache
  <2>2. QED BY <2>1 DEF UseInv
<1>6. ASSUME NEW i \in Keys, Expire(i) PROVE FALSE
  BY <1>1, <1>6, ExpireCache
<1>7. ~Clear
  BY ClearCache
<1>8. QED BY <1>2, <1>3, <1>4, <1>5, <1>6, <1>7
  DEF Next, vars, ReadChunk, NothingSent, LoseConnection, Dropped, Change

\* The cache is least-recently-used: a live picture is only evicted when every picture
\* that is kept has been used since.
THEOREM LeastRecentlyUsed == Spec => EvictsLeastRecent
<1>1. Inv /\ [Next]_vars =>
         [cache' # Empty =>
          \A k, j \in Keys :
             IsHit(cache, k) /\ ~ContainsKey(cache', k) /\ ContainsKey(cache', j) =>
                ~ContainsKey(cache, j) \/ <<k, j>> \in recency]_vars
  BY EvictionStep
<1>2. QED BY <1>1, InitInv, NextInv, PTL DEF Spec, EvictsLeastRecent
=============================================================================
