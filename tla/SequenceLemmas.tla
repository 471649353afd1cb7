--------------------------- MODULE SequenceLemmas ---------------------------
(* What the operators that the models build their queues and orders with do *)
(* to a sequence without repetitions: which elements it keeps, and in which *)
(* order.  For elements of any set.                                         *)
EXTENDS Integers, SequencesExt, Orders, SequenceTheorems, FiniteSetTheorems, WellFoundedInduction, TLAPS

\* Induction over the naturals, of membership in a set: what the recursive functions
\* of the models compute is proved with it.
LEMMA NaturalsFrom ==
    ASSUME NEW S, 0 \in S, \A n \in Nat : n \in S => n + 1 \in S
    PROVE  \A n \in Nat : n \in S
<1> SUFFICES ASSUME Nat \ S # {} PROVE FALSE
  OBVIOUS
<1>1. PICK x \in Nat \ S : \A y \in Nat \ S : ~(<<y, x>> \in OpToRel(<, Nat))
  BY NatLessThanWellFounded, WFMin
<1>2. \A y \in Nat \ S : ~(y < x)
  BY <1>1 DEF OpToRel
<1>3. x - 1 \in Nat /\ x - 1 < x /\ x = (x - 1) + 1
  <2>1. x \in Nat /\ x # 0 BY <1>1
  <2>2. QED BY <2>1
<1>4. QED BY <1>1, <1>2, <1>3

LEMMA ContainsBefore == \A s, i, j : Before(s, i, j) => Contains(s, i) /\ Contains(s, j)
BY DEF Before, Contains

\* A new element at the back comes after all the others.
LEMMA AppendEffect ==
    ASSUME NEW S, NEW s \in Seq(S), IsInjective(s), NEW k \in S, ~Contains(s, k)
    PROVE  /\ Append(s, k) \in Seq(S) /\ IsInjective(Append(s, k))
           /\ Len(Append(s, k)) = Len(s) + 1
           /\ \A j : Contains(Append(s, k), j) <=> Contains(s, j) \/ j = k
           /\ \A i, j : Before(Append(s, k), i, j) <=> Before(s, i, j) \/ (j = k /\ Contains(s, i))
<1> DEFINE t == Append(s, k)
<1>1. /\ t \in Seq(S) /\ Len(t) = Len(s) + 1 /\ Len(s) \in Nat
      /\ t[Len(s) + 1] = k /\ \A n \in 1..Len(s) : t[n] = s[n]
  OBVIOUS
<1> HIDE DEF t
<1>2. \A n \in 1..Len(t) : n = Len(s) + 1 \/ n \in 1..Len(s)
  BY <1>1
<1>3. \A n \in 1..Len(s) : n \in 1..Len(t) /\ s[n] # k /\ t[n] # k
  BY <1>1 DEF Contains
<1>4. IsInjective(t)
  BY <1>1, <1>2, <1>3 DEF IsInjective
<1>5. Len(s) + 1 \in 1..Len(t)
  BY <1>1
<1>6. ASSUME NEW j PROVE Contains(t, j) <=> Contains(s, j) \/ j = k
  BY <1>1, <1>2, <1>3, <1>5 DEF Contains
<1>7. ASSUME NEW i, NEW j PROVE Before(t, i, j) <=> Before(s, i, j) \/ (j = k /\ Contains(s, i))
  <2>1. ASSUME Before(t, i, j) PROVE Before(s, i, j) \/ (j = k /\ Contains(s, i))
    <3>1. PICK m, n \in 1..Len(t) : m < n /\ t[m] = i /\ t[n] = j
      BY <2>1 DEF Before
    <3>2. m \in 1..Len(s)
      BY <1>1, <3>1
    <3>3. QED BY <1>1, <1>2, <3>1, <3>2 DEF Before, Contains
  <2>2. ASSUME Before(s, i, j) PROVE Before(t, i, j)
    BY <1>1, <1>3, <2>2 DEF Before
  <2>3. ASSUME j = k, Contains(s, i) PROVE Before(t, i, j)
    <3>1. PICK m \in 1..Len(s) : s[m] = i
      BY <2>3 DEF Contains
    <3>2. m < Len(s) + 1 /\ m \in 1..Len(t) /\ t[m] = i /\ t[Len(s) + 1] = j
      BY <1>1, <2>3, <3>1
    <3>3. QED BY <1>5, <3>2 DEF Before
  <2>4. QED BY <2>1, <2>2, <2>3
<1>8. QED BY <1>1, <1>4, <1>6, <1>7 DEF t

\* Without the first e elements the others are left as they were, and came after those.
LEMMA DropEffect ==
    ASSUME NEW S, NEW s \in Seq(S), IsInjective(s), NEW e \in 0..Len(s)
    PROVE  LET t == SubSeq(s, e + 1, Len(s)) IN
           /\ t \in Seq(S) /\ IsInjective(t) /\ Len(t) = Len(s) - e
           /\ \A j : Contains(t, j) <=> Contains(s, j) /\ j \notin {s[n] : n \in 1..e}
           /\ \A i, j : Before(t, i, j) <=> Before(s, i, j) /\ Contains(t, i) /\ Contains(t, j)
           /\ \A i \in {s[n] : n \in 1..e} : \A j : Contains(t, j) => Before(s, i, j)
<1> DEFINE t == SubSeq(s, e + 1, Len(s))
<1>1. /\ t \in Seq(S) /\ Len(t) = Len(s) - e /\ Len(s) \in Nat
      /\ \A n \in 1..Len(t) : t[n] = s[n + e]
  OBVIOUS
<1> HIDE DEF t
<1>2. \A n \in 1..Len(t) : n + e \in 1..Len(s) /\ n + e > e
  BY <1>1
<1>3. \A n \in 1..Len(s) : n > e => n - e \in 1..Len(t) /\ t[n - e] = s[n]
  <2> TAKE n \in 1..Len(s)
  <2>1. n > e => n - e \in 1..Len(t) /\ (n - e) + e = n
    BY <1>1
  <2>2. QED BY <1>1, <2>1
<1>4. \A m, n \in 1..Len(s) : s[m] = s[n] => m = n
  BY DEF IsInjective
<1>5. IsInjective(t)
  <2> SUFFICES ASSUME NEW m \in 1..Len(t), NEW n \in 1..Len(t), t[m] = t[n] PROVE m = n
    BY DEF IsInjective
  <2>1. m + e = n + e
    BY <1>1, <1>2, <1>4
  <2>2. QED BY <2>1
<1>6. ASSUME NEW j PROVE Contains(t, j) <=> Contains(s, j) /\ j \notin {s[n] : n \in 1..e}
  <2>1. ASSUME Contains(t, j) PROVE Contains(s, j) /\ j \notin {s[n] : n \in 1..e}
    <3>1. PICK n \in 1..Len(t) : t[n] = j
      BY <2>1 DEF Contains
    <3>2. n + e \in 1..Len(s) /\ s[n + e] = j /\ n + e > e
      BY <1>1, <1>2, <3>1
    <3>3. ASSUME NEW m \in 1..e, s[m] = j PROVE FALSE
      <4>1. m \in 1..Len(s) /\ m < n + e
        BY <3>2
      <4>2. QED BY <1>4, <3>2, <3>3, <4>1
    <3>4. QED BY <3>2, <3>3 DEF Contains
  <2>2. ASSUME Contains(s, j), j \notin {s[n] : n \in 1..e} PROVE Contains(t, j)
    <3>1. PICK n \in 1..Len(s) : s[n] = j
      BY <2>2 DEF Contains
    <3>2. n > e
      BY <2>2, <3>1
    <3>3. QED BY <1>3, <3>1, <3>2 DEF Contains
  <2>3. QED BY <2>1, <2>2
<1>7. ASSUME NEW i, NEW j PROVE Before(t, i, j) <=> Before(s, i, j) /\ Contains(t, i) /\ Contains(t, j)
  <2>1. ASSUME Before(t, i, j) PROVE Before(s, i, j) /\ Contains(t, i) /\ Contains(t, j)
    <3>1. PICK m, n \in 1..Len(t) : m < n /\ t[m] = i /\ t[n] = j
      BY <2>1 DEF Before
    <3>2. m + e \in 1..Len(s) /\ n + e \in 1..Len(s) /\ m + e < n + e /\ s[m + e] = i /\ s[n + e] = j
      BY <1>1, <1>2, <3>1
    <3>3. QED BY <3>1, <3>2 DEF Before, Contains
  <2>2. ASSUME Before(s, i, j), Contains(t, i), Contains(t, j) PROVE Before(t, i, j)
    <3>1. PICK a, b \in 1..Len(s) : a < b /\ s[a] = i /\ s[b] = j
      BY <2>2 DEF Before
    <3>2. PICK m \in 1..Len(t) : t[m] = i
      BY <2>2 DEF Contains
    <3>3. PICK n \in 1..Len(t) : t[n] = j
      BY <2>2 DEF Contains
    <3>4. m + e = a /\ n + e = b
      BY <1>1, <1>2, <1>4, <3>1, <3>2, <3>3
    <3>5. m < n
      BY <3>1, <3>4
    <3>6. QED BY <3>2, <3>3, <3>5 DEF Before
  <2>3. QED BY <2>1, <2>2
<1>8. ASSUME NEW i \in {s[n] : n \in 1..e}, NEW j, Contains(t, j) PROVE Before(s, i, j)
  <2>1. PICK m \in 1..e : s[m] = i
    BY <1>8
  <2>2. PICK n \in 1..Len(t) : t[n] = j
    BY <1>8 DEF Contains
  <2>3. m \in 1..Len(s) /\ n + e \in 1..Len(s) /\ m < n + e /\ s[n + e] = j
    BY <1>1, <1>2, <2>2
  <2>4. QED BY <2>1, <2>3 DEF Before
<1>9. QED BY <1>1, <1>5, <1>6, <1>7, <1>8 DEF t

-----------------------------------------------------------------------------
(* Sequences put together from the parts of another one.                   *)

\* The part of s after its first m elements, up to the n-th.
LEMMA PartEffect ==
    ASSUME NEW S, NEW s \in Seq(S), NEW m \in Nat, NEW n \in Nat, m <= n, n <= Len(s)
    PROVE  /\ SubSeq(s, m + 1, n) \in Seq(S) /\ Len(SubSeq(s, m + 1, n)) = n - m
           /\ \A i \in 1..(n - m) : SubSeq(s, m + 1, n)[i] = s[m + i]
<1>1. \A i \in (m + 1)..n : s[i] \in S
  BY ElementOfSeq
<1>2. QED BY <1>1, SubSeqProperties

Cut(s, a, e) == SubSeq(s, 1, a) \o SubSeq(s, e + 1, Len(s))

Moved(s, a, b, c) ==
    LET rest == Cut(s, a, b)
    IN  SubSeq(rest, 1, c) \o SubSeq(s, a + 1, b) \o SubSeq(rest, c + 1, Len(rest))

\* Cutting out the elements after the a-th, up to the e-th.
LEMMA CutEffect ==
    ASSUME NEW S, NEW s \in Seq(S), NEW a \in Nat, NEW e \in Nat, a <= e, e <= Len(s)
    PROVE  LET r == Cut(s, a, e) IN
           /\ r \in Seq(S) /\ Len(r) = Len(s) - (e - a)
           /\ \A i \in 1..Len(r) : r[i] = s[IF i <= a THEN i ELSE i + (e - a)]
<1> DEFINE u == SubSeq(s, 0 + 1, a)
           v == SubSeq(s, e + 1, Len(s))
<1>0. Len(s) \in Nat
  OBVIOUS
<1>1. u \in Seq(S) /\ Len(u) = a /\ \A i \in 1..a : u[i] = s[0 + i]
  <2>1. a <= Len(s) /\ a - 0 = a
    BY <1>0
  <2>2. QED BY <2>1, PartEffect
<1>2. v \in Seq(S) /\ Len(v) = Len(s) - e /\ \A i \in 1..(Len(s) - e) : v[i] = s[e + i]
  BY <1>0, PartEffect
<1>3. SubSeq(s, 1, a) = u
  OBVIOUS
<1> HIDE DEF u, v
<1>4. /\ u \o v \in Seq(S) /\ Len(u \o v) = Len(u) + Len(v)
      /\ \A i \in 1..(Len(u) + Len(v)) : (u \o v)[i] = IF i <= Len(u) THEN u[i] ELSE v[i - Len(u)]
  BY <1>1, <1>2, ConcatProperties
<1> DEFINE r == u \o v
<1> HIDE DEF r
<1>5. r \in Seq(S) /\ Len(r) = Len(s) - (e - a)
  BY <1>0, <1>1, <1>2, <1>4 DEF r
<1>6. ASSUME NEW i \in 1..Len(r) PROVE r[i] = s[IF i <= a THEN i ELSE i + (e - a)]
  <2>1. i \in 1..(Len(u) + Len(v))
    BY <1>4 DEF r
  <2>2. CASE i <= a
    <3>1. r[i] = u[i] /\ i \in 1..a
      BY <1>1, <1>4, <2>1, <2>2 DEF r
    <3>2. QED BY <1>1, <2>2, <3>1
  <2>3. CASE ~(i <= a)
    <3>1. i - a \in 1..(Len(s) - e) /\ e + (i - a) = i + (e - a)
      BY <1>0, <1>5, <2>3
    <3>2. r[i] = v[i - a]
      BY <1>1, <1>4, <2>1, <2>3 DEF r
    <3>3. QED BY <1>2, <2>3, <3>1, <3>2
  <2>4. QED BY <2>2, <2>3
<1>7. QED BY <1>3, <1>5, <1>6 DEF r, v, Cut

\* A sequence whose elements are those of s at other places, one place each, repeats
\* none either; if the places ascend, the order is that of s.
LEMMA PlacesEffect ==
    ASSUME NEW S, NEW s \in Seq(S), NEW r \in Seq(S), IsInjective(s),
           NEW f \in [1..Len(r) -> 1..Len(s)],
           \A i, j \in 1..Len(r) : i # j => f[i] # f[j],
           \A i \in 1..Len(r) : r[i] = s[f[i]]
    PROVE  /\ IsInjective(r)
           /\ \A x : Contains(r, x) => Contains(s, x)
           /\ (\A i, j \in 1..Len(r) : i < j => f[i] < f[j]) =>
                 \A x, y : Before(r, x, y) <=> Before(s, x, y) /\ Contains(r, x) /\ Contains(r, y)
<1>1. \A i, j \in 1..Len(s) : s[i] = s[j] => i = j
  BY DEF IsInjective
<1>2. IsInjective(r)
  <2> SUFFICES ASSUME NEW i \in 1..Len(r), NEW j \in 1..Len(r), i # j PROVE r[i] # r[j]
    BY DEF IsInjective
  <2>1. f[i] \in 1..Len(s) /\ f[j] \in 1..Len(s) /\ f[i] # f[j]
    OBVIOUS
  <2>2. QED BY <1>1, <2>1
<1>3. \A x : Contains(r, x) => Contains(s, x)
  BY DEF Contains
<1>4. ASSUME \A i, j \in 1..Len(r) : i < j => f[i] < f[j], NEW x, NEW y
      PROVE  Before(r, x, y) <=> Before(s, x, y) /\ Contains(r, x) /\ Contains(r, y)
  <2>1. ASSUME Before(r, x, y) PROVE Before(s, x, y) /\ Contains(r, x) /\ Contains(r, y)
    <3>1. PICK m, n \in 1..Len(r) : m < n /\ r[m] = x /\ r[n] = y
      BY <2>1 DEF Before
    <3>2. f[m] \in 1..Len(s) /\ f[n] \in 1..Len(s) /\ f[m] < f[n] /\ s[f[m]] = x /\ s[f[n]] = y
      BY <1>4, <3>1
    <3>3. Before(s, x, y)
      BY <3>2 DEF Before
    <3>4. QED BY <3>1, <3>3 DEF Contains
  <2>2. ASSUME Before(s, x, y), Contains(r, x), Contains(r, y) PROVE Before(r, x, y)
    <3>1. PICK m, n \in 1..Len(s) : m < n /\ s[m] = x /\ s[n] = y
      BY <2>2 DEF Before
    <3>2. PICK k \in 1..Len(r) : r[k] = x
      BY <2>2 DEF Contains
    <3>3. PICK l \in 1..Len(r) : r[l] = y
      BY <2>2 DEF Contains
    <3>4. f[k] = m /\ f[l] = n
      BY <1>1, <3>1, <3>2, <3>3
    <3>5. ~(f[l] < f[k]) /\ k # l
      BY <3>1, <3>4
    <3>6. k < l
      BY <1>4, <3>5
    <3>7. QED BY <3>2, <3>3, <3>6 DEF Before
  <2>3. QED BY <2>1, <2>2
<1>5. QED BY <1>2, <1>3, <1>4

\* MPD's delete of a range of positions.
LEMMA CutKeeps ==
    ASSUME NEW S, NEW s \in Seq(S), IsInjective(s), NEW a \in Nat, NEW e \in Nat, a <= e, e <= Len(s)
    PROVE  LET r == Cut(s, a, e) IN
           /\ IsInjective(r)
           /\ \A x : Contains(r, x) <=> \E i \in 1..Len(s) : (i <= a \/ i > e) /\ s[i] = x
           /\ \A x, y : Before(r, x, y) <=> Before(s, x, y) /\ Contains(r, x) /\ Contains(r, y)
<1> DEFINE r == Cut(s, a, e)
           f == [i \in 1..Len(r) |-> IF i <= a THEN i ELSE i + (e - a)]
<1>0. Len(s) \in Nat
  OBVIOUS
<1>1. /\ r \in Seq(S) /\ Len(r) = Len(s) - (e - a)
      /\ \A i \in 1..Len(r) : r[i] = s[IF i <= a THEN i ELSE i + (e - a)]
  BY CutEffect
<1> HIDE DEF r
<1>2. /\ f \in [1..Len(r) -> 1..Len(s)]
      /\ \A i, j \in 1..Len(r) : i # j => f[i] # f[j]
      /\ \A i, j \in 1..Len(r) : i < j => f[i] < f[j]
  BY <1>0, <1>1
<1>3. \A i \in 1..Len(r) : r[i] = s[f[i]]
  BY <1>1
<1>4. ASSUME NEW x PROVE Contains(r, x) <=> \E i \in 1..Len(s) : (i <= a \/ i > e) /\ s[i] = x
  <2>1. ASSUME Contains(r, x) PROVE \E i \in 1..Len(s) : (i <= a \/ i > e) /\ s[i] = x
    <3>1. PICK k \in 1..Len(r) : r[k] = x
      BY <2>1 DEF Contains
    <3>2. f[k] \in 1..Len(s) /\ (f[k] <= a \/ f[k] > e) /\ s[f[k]] = x
      BY <1>0, <1>1, <1>2, <1>3, <3>1
    <3>3. QED BY <3>2
  <2>2. ASSUME NEW i \in 1..Len(s), i <= a \/ i > e, s[i] = x PROVE Contains(r, x)
    <3>1. CASE i <= a
      <4>1. i \in 1..Len(r) /\ r[i] = s[i]
        BY <1>0, <1>1, <3>1
      <4>2. QED BY <2>2, <4>1 DEF Contains
    <3>2. CASE i > e
      <4>1. i - (e - a) \in 1..Len(r) /\ ~(i - (e - a) <= a) /\ (i - (e - a)) + (e - a) = i
        BY <1>0, <1>1, <3>2
      <4>2. r[i - (e - a)] = s[i]
        BY <1>1, <4>1
      <4>3. QED BY <2>2, <4>1, <4>2 DEF Contains
    <3>3. QED BY <2>2, <3>1, <3>2
  <2>3. QED BY <2>1, <2>2
<1> HIDE DEF f
<1>5. /\ IsInjective(r)
      /\ \A x, y : Before(r, x, y) <=> Before(s, x, y) /\ Contains(r, x) /\ Contains(r, y)
  <2>1. r \in Seq(S)
    BY <1>1
  <2>2. f \in [1..Len(r) -> 1..Len(s)]
    BY <1>2
  <2>3. \A i, j \in 1..Len(r) : i # j => f[i] # f[j]
    BY <1>2
  <2>4. \A i, j \in 1..Len(r) : i < j => f[i] < f[j]
    BY <1>2
  <2>5. /\ IsInjective(r)
        /\ \A x : Contains(r, x) => Contains(s, x)
        /\ (\A i, j \in 1..Len(r) : i < j => f[i] < f[j]) =>
              \A x, y : Before(r, x, y) <=> Before(s, x, y) /\ Contains(r, x) /\ Contains(r, y)
    BY ONLY s \in Seq(S), IsInjective(s), <2>1, <2>2, <2>3, <1>3, PlacesEffect, SMTT(30)
  <2>6. QED BY ONLY <2>4, <2>5
<1>6. QED BY <1>4, <1>5 DEF r

\* Removing an element cuts it out.
LEMMA RemoveFirstIsCut ==
    ASSUME NEW S, NEW s \in Seq(S), IsInjective(s), NEW k
    PROVE  /\ ~Contains(s, k) => RemoveFirst(s, k) = s
           /\ Contains(s, k) => \E p \in 1..Len(s) : s[p] = k /\ RemoveFirst(s, k) = Cut(s, p - 1, p)
<1>1. ~Contains(s, k) => RemoveFirst(s, k) = s
  BY DEF RemoveFirst, Contains
<1>2. ASSUME Contains(s, k) PROVE \E p \in 1..Len(s) : s[p] = k /\ RemoveFirst(s, k) = Cut(s, p - 1, p)
  <2>1. PICK p \in 1..Len(s) : s[p] = k
    BY <1>2 DEF Contains
  <2>2. {n \in 1..Len(s) : s[n] = k} = {p}
    BY <2>1 DEF IsInjective
  <2>3. SelectInSeq(s, LAMBDA v : v = k) = p
    BY <2>2 DEF SelectInSeq, Min
  <2>4. RemoveFirst(s, k) = SubSeq(s, 1, p - 1) \o SubSeq(s, p + 1, Len(s))
    BY <2>1, <2>3 DEF RemoveFirst, RemoveAt
  <2>5. QED BY <2>1, <2>4 DEF Cut
<1>3. QED BY <1>1, <1>2

\* It takes just that element away and leaves the others' order.
LEMMA RemoveFirstEffect ==
    ASSUME NEW S, NEW s \in Seq(S), IsInjective(s), NEW k
    PROVE  /\ RemoveFirst(s, k) \in Seq(S) /\ IsInjective(RemoveFirst(s, k))
           /\ Len(RemoveFirst(s, k)) = IF Contains(s, k) THEN Len(s) - 1 ELSE Len(s)
           /\ \A j : Contains(RemoveFirst(s, k), j) <=> Contains(s, j) /\ j # k
           /\ \A i, j : Before(RemoveFirst(s, k), i, j) <=> Before(s, i, j) /\ i # k /\ j # k
<1> DEFINE r == RemoveFirst(s, k)
<1>1. CASE ~Contains(s, k)
  <2>1. r = s
    BY <1>1, RemoveFirstIsCut
  <2>2. \A j : Contains(s, j) => j # k
    BY <1>1
  <2>3. \A i, j : Before(s, i, j) => i # k /\ j # k
    BY <1>1 DEF Before, Contains
  <2>4. QED BY <1>1, <2>1, <2>2, <2>3
<1>2. CASE Contains(s, k)
  <2>1. PICK p \in 1..Len(s) : s[p] = k /\ r = Cut(s, p - 1, p)
    BY <1>2, RemoveFirstIsCut
  <2>2. /\ p - 1 \in Nat /\ p \in Nat /\ p - 1 <= p /\ p <= Len(s) /\ p - (p - 1) = 1
        /\ \A i \in 1..Len(s) : (i <= p - 1 \/ i > p) <=> i # p
    BY <2>1
  <2> HIDE DEF r
  <2>3. /\ r \in Seq(S) /\ Len(r) = Len(s) - 1 /\ IsInjective(r)
        /\ \A x : Contains(r, x) <=> \E i \in 1..Len(s) : (i <= p - 1 \/ i > p) /\ s[i] = x
        /\ \A x, y : Before(r, x, y) <=> Before(s, x, y) /\ Contains(r, x) /\ Contains(r, y)
    <3>1. Cut(s, p - 1, p) \in Seq(S) /\ Len(Cut(s, p - 1, p)) = Len(s) - (p - (p - 1))
      BY ONLY <2>2, CutEffect, s \in Seq(S)
    <3>2. /\ IsInjective(r)
          /\ \A x : Contains(r, x) <=> \E i \in 1..Len(s) : (i <= p - 1 \/ i > p) /\ s[i] = x
          /\ \A x, y : Before(r, x, y) <=> Before(s, x, y) /\ Contains(r, x) /\ Contains(r, y)
      BY <2>1, <2>2, CutKeeps
    <3>3. Len(s) \in Nat /\ Len(s) - (p - (p - 1)) = Len(s) - 1
      BY <2>2
    <3>4. QED BY <2>1, <3>1, <3>2, <3>3
  <2>4. \A j : Contains(r, j) <=> Contains(s, j) /\ j # k
    <3>1. \A x : Contains(r, x) <=> \E i \in 1..Len(s) : i # p /\ s[i] = x
      BY <2>2, <2>3
    <3>2. \A i \in 1..Len(s) : s[i] = k <=> i = p
      BY <2>1 DEF IsInjective
    <3>3. QED BY <3>1, <3>2 DEF Contains
  <2>5. \A i, j : Before(r, i, j) <=> Before(s, i, j) /\ i # k /\ j # k
    BY <2>3, <2>4, ContainsBefore
  <2>6. QED BY <1>2, <2>3, <2>4, <2>5 DEF r
<1>3. QED BY <1>1, <1>2

\* MPD's move of the range of positions from a to b forward to c: the elements in
\* between change places with those of the range.
LEMMA MoveEffect ==
    ASSUME NEW S, NEW s \in Seq(S), NEW a \in Nat, NEW b \in Nat, NEW c \in Nat,
           c <= a, a <= b, b <= Len(s)
    PROVE  LET r == Moved(s, a, b, c) IN
           /\ r \in Seq(S) /\ Len(r) = Len(s)
           /\ \A i \in 1..Len(s) : r[i] = s[IF i <= c \/ i > b THEN i
                                            ELSE IF i <= c + (b - a) THEN i + (a - c)
                                            ELSE i - (b - a)]
<1> DEFINE rest == Cut(s, a, b)
           u == SubSeq(rest, 0 + 1, c)
           v == SubSeq(s, a + 1, b)
           w == SubSeq(rest, c + 1, Len(rest))
           r == u \o v \o w
<1>0. Len(s) \in Nat
  OBVIOUS
<1>1. /\ rest \in Seq(S) /\ Len(rest) = Len(s) - (b - a)
      /\ \A i \in 1..Len(rest) : rest[i] = s[IF i <= a THEN i ELSE i + (b - a)]
  BY CutEffect
<1> HIDE DEF rest
<1>2. Len(rest) \in Nat /\ c <= Len(rest) /\ 0 <= c
  BY <1>0, <1>1
<1>3. u \in Seq(S) /\ Len(u) = c /\ \A i \in 1..c : u[i] = rest[0 + i]
  <2>1. c - 0 = c
    OBVIOUS
  <2>2. QED BY <1>1, <1>2, <2>1, PartEffect
<1>4. v \in Seq(S) /\ Len(v) = b - a /\ \A i \in 1..(b - a) : v[i] = s[a + i]
  BY PartEffect
<1>5. /\ w \in Seq(S) /\ Len(w) = Len(rest) - c
      /\ \A i \in 1..(Len(rest) - c) : w[i] = rest[c + i]
  <2>1. rest \in Seq(S)
    BY <1>1
  <2>2. QED BY ONLY <1>2, <2>1, c \in Nat, PartEffect
<1> HIDE DEF u, v, w, r
<1>6. /\ u \o v \in Seq(S) /\ Len(u \o v) = Len(u) + Len(v)
      /\ \A i \in 1..(Len(u) + Len(v)) : (u \o v)[i] = IF i <= Len(u) THEN u[i] ELSE v[i - Len(u)]
  BY <1>3, <1>4, ConcatProperties
<1> DEFINE uv == u \o v
<1> HIDE DEF uv
<1>7. /\ uv \o w \in Seq(S) /\ Len(uv \o w) = Len(uv) + Len(w)
      /\ \A i \in 1..(Len(uv) + Len(w)) : (uv \o w)[i] = IF i <= Len(uv) THEN uv[i] ELSE w[i - Len(uv)]
  <2>1. uv \in Seq(S)
    BY <1>6 DEF uv
  <2>2. w \in Seq(S)
    BY <1>5
  <2>3. QED BY ONLY <2>1, <2>2, ConcatProperties
<1>8. r = uv \o w
  BY DEF uv, r
<1>9. r \in Seq(S) /\ Len(r) = Len(s) /\ Len(uv) = c + (b - a)
  <2>1. r \in Seq(S) /\ Len(r) = Len(uv) + Len(w)
    BY <1>7, <1>8
  <2>2. Len(uv) = c + (b - a)
    BY <1>3, <1>4, <1>6 DEF uv
  <2>3. QED BY <1>0, <1>1, <1>5, <2>1, <2>2
<1>10. ASSUME NEW i \in 1..Len(s)
       PROVE  r[i] = s[IF i <= c \/ i > b THEN i ELSE IF i <= c + (b - a) THEN i + (a - c) ELSE i - (b - a)]
  <2>0. i \in 1..(Len(uv) + Len(w))
    BY <1>7, <1>8, <1>9
  <2>1. CASE i <= c
    <3>1. i \in 1..c /\ i <= Len(uv) /\ i \in 1..(Len(u) + Len(v)) /\ i <= Len(u)
      BY <1>3, <1>4, <1>9, <2>1
    <3>2. r[i] = u[i]
      BY <1>6, <1>7, <1>8, <2>0, <3>1 DEF uv
    <3>3. u[i] = rest[i] /\ i \in 1..Len(rest) /\ i <= a
      BY <1>2, <1>3, <3>1
    <3>4. QED BY <1>1, <2>1, <3>2, <3>3
  <2>2. CASE i > c /\ i <= c + (b - a)
    <3>1. /\ i <= Len(uv) /\ i \in 1..(Len(u) + Len(v)) /\ ~(i <= Len(u))
          /\ i - c \in 1..(b - a) /\ a + (i - c) = i + (a - c) /\ i <= b /\ Len(u) = c
      BY <1>3, <1>4, <1>9, <2>2
    <3>2. r[i] = v[i - c]
      BY <1>6, <1>7, <1>8, <2>0, <3>1 DEF uv
    <3>3. v[i - c] = s[i + (a - c)]
      BY <1>4, <3>1
    <3>4. QED BY <2>2, <3>1, <3>2, <3>3
  <2>3. CASE i > c + (b - a)
    <3>1. ~(i <= Len(uv)) /\ i - Len(uv) \in 1..(Len(rest) - c) /\ c + (i - Len(uv)) = i - (b - a)
          /\ i - (b - a) \in 1..Len(rest)
      BY <1>0, <1>1, <1>9, <2>3
    <3>2. r[i] = w[i - Len(uv)]
      BY <1>7, <1>8, <2>0, <3>1
    <3>3. r[i] = rest[i - (b - a)]
      BY <1>5, <3>1, <3>2
    <3>4. CASE i > b
      <4>1. ~(i - (b - a) <= a) /\ (i - (b - a)) + (b - a) = i
        BY <3>4
      <4>2. QED BY <1>1, <3>1, <3>3, <3>4, <4>1
    <3>5. CASE ~(i > b)
      <4>1. i - (b - a) <= a /\ ~(i <= c)
        BY <2>3, <3>5
      <4>2. QED BY <1>1, <2>3, <3>1, <3>3, <3>5, <4>1
    <3>6. QED BY <3>4, <3>5
  <2>4. QED BY <2>1, <2>2, <2>3
<1>11. SubSeq(rest, 1, c) = u
  BY DEF u
<1>12. Moved(s, a, b, c) = r
  BY <1>11 DEF r, v, w, rest, Moved
<1>13. QED BY <1>9, <1>10, <1>12

\* What is not in the range that moves keeps its order.
LEMMA MoveKeeps ==
    ASSUME NEW S, NEW s \in Seq(S), IsInjective(s), NEW a \in Nat, NEW b \in Nat, NEW c \in Nat,
           c <= a, a <= b, b <= Len(s)
    PROVE  LET r == Moved(s, a, b, c) IN
           /\ IsInjective(r)
           /\ \A x : Contains(r, x) <=> Contains(s, x)
           /\ \A x, y : (\A i \in (a + 1)..b : s[i] # x /\ s[i] # y) =>
                             (Before(r, x, y) <=> Before(s, x, y))
<1> DEFINE r == Moved(s, a, b, c)
           f == [i \in 1..Len(r) |-> IF i <= c \/ i > b THEN i
                                     ELSE IF i <= c + (b - a) THEN i + (a - c) ELSE i - (b - a)]
           g == [i \in 1..Len(s) |-> IF i <= c \/ i > b THEN i
                                     ELSE IF i <= a THEN i + (b - a) ELSE i - (a - c)]
<1>0. Len(s) \in Nat
  OBVIOUS
<1>1. /\ r \in Seq(S) /\ Len(r) = Len(s)
      /\ \A i \in 1..Len(s) : r[i] = s[IF i <= c \/ i > b THEN i
                                       ELSE IF i <= c + (b - a) THEN i + (a - c)
                                       ELSE i - (b - a)]
  BY MoveEffect
<1> HIDE DEF r
<1>2. /\ f \in [1..Len(r) -> 1..Len(s)]
      /\ \A i, j \in 1..Len(r) : i # j => f[i] # f[j]
      /\ \A i \in 1..Len(r) : r[i] = s[f[i]]
  <2>1. ASSUME NEW i \in 1..Len(r) PROVE f[i] \in 1..Len(s) /\ r[i] = s[f[i]]
    BY <1>0, <1>1
  <2>2. ASSUME NEW i \in 1..Len(r), NEW j \in 1..Len(r), i # j PROVE f[i] # f[j]
    BY <1>0, <1>1, <2>2
  <2>3. QED BY <2>1, <2>2
<1>3. /\ g \in [1..Len(s) -> 1..Len(r)]
      /\ \A i \in 1..Len(s) : f[g[i]] = i
      /\ \A i, j \in 1..Len(s) : i < j /\ (i <= a \/ i > b) /\ (j <= a \/ j > b) => g[i] < g[j]
  <2>1. ASSUME NEW i \in 1..Len(s) PROVE g[i] \in 1..Len(r) /\ f[g[i]] = i
    <3>1. CASE i <= c \/ i > b
      BY <1>0, <1>1, <3>1
    <3>2. CASE i > c /\ i <= a
      BY <1>0, <1>1, <3>2
    <3>3. CASE i > a /\ i <= b
      BY <1>0, <1>1, <3>3
    <3>4. QED BY <3>1, <3>2, <3>3
  <2>2. ASSUME NEW i \in 1..Len(s), NEW j \in 1..Len(s), i < j, i <= a \/ i > b, j <= a \/ j > b
        PROVE  g[i] < g[j]
    BY <1>0, <2>2
  <2>3. QED BY <2>1, <2>2
<1> HIDE DEF f, g
<1>4. \A i \in 1..Len(s) : r[g[i]] = s[i]
  BY <1>2, <1>3
<1>5. IsInjective(r) /\ \A x : Contains(r, x) => Contains(s, x)
  <2>1. r \in Seq(S) /\ f \in [1..Len(r) -> 1..Len(s)]
    BY <1>1, <1>2
  <2>2. /\ \A i, j \in 1..Len(r) : i # j => f[i] # f[j]
        /\ \A i \in 1..Len(r) : r[i] = s[f[i]]
    BY <1>2
  <2>3. QED BY ONLY s \in Seq(S), IsInjective(s), <2>1, <2>2, PlacesEffect, SMTT(30)
<1>6. \A x : Contains(s, x) => Contains(r, x)
  BY <1>3, <1>4 DEF Contains
<1>7. ASSUME NEW x, NEW y, \A i \in (a + 1)..b : s[i] # x /\ s[i] # y
      PROVE  Before(r, x, y) <=> Before(s, x, y)
  <2>0. \A i \in 1..Len(s) : s[i] = x \/ s[i] = y => i <= a \/ i > b
    BY <1>7
  <2>1. ASSUME Before(s, x, y) PROVE Before(r, x, y)
    <3>1. PICK m, n \in 1..Len(s) : m < n /\ s[m] = x /\ s[n] = y
      BY <2>1 DEF Before
    <3>2. g[m] < g[n] /\ g[m] \in 1..Len(r) /\ g[n] \in 1..Len(r) /\ r[g[m]] = x /\ r[g[n]] = y
      BY <1>3, <1>4, <2>0, <3>1
    <3>3. QED BY <3>2 DEF Before
  <2>2. ASSUME Before(r, x, y) PROVE Before(s, x, y)
    <3>1. PICK k, l \in 1..Len(r) : k < l /\ r[k] = x /\ r[l] = y
      BY <2>2 DEF Before
    <3>2. f[k] \in 1..Len(s) /\ f[l] \in 1..Len(s) /\ s[f[k]] = x /\ s[f[l]] = y /\ f[k] # f[l]
      BY <1>2, <3>1
    <3>3. g[f[k]] = k /\ g[f[l]] = l
      <4>1. \A i \in 1..Len(r) : g[f[i]] \in 1..Len(r) /\ f[g[f[i]]] = f[i]
        BY <1>2, <1>3
      <4>2. QED BY <1>2, <3>1, <4>1
    <3>4. ~(f[l] < f[k])
      BY <1>3, <2>0, <3>1, <3>2, <3>3
    <3>5. f[k] < f[l]
      BY <3>2, <3>4
    <3>6. QED BY <3>2, <3>5 DEF Before
  <2>3. QED BY <2>1, <2>2
<1>8. QED BY <1>5, <1>6, <1>7 DEF r

\* Putting x in at place p.
LEMMA InsertEffect ==
    ASSUME NEW S, NEW s \in Seq(S), IsInjective(s), NEW x \in S, ~Contains(s, x), NEW p \in 1..(Len(s) + 1)
    PROVE  /\ InsertAt(s, p, x) \in Seq(S) /\ IsInjective(InsertAt(s, p, x))
           /\ \A y : Contains(InsertAt(s, p, x), y) <=> Contains(s, y) \/ y = x
<1> DEFINE u == SubSeq(s, 0 + 1, p - 1)
           v == SubSeq(s, (p - 1) + 1, Len(s))
           ux == u \o <<x>>
           r == ux \o v
<1>0. Len(s) \in Nat /\ p - 1 \in Nat /\ p - 1 <= Len(s) /\ p \in Nat
  OBVIOUS
<1>1. u \in Seq(S) /\ Len(u) = p - 1 /\ \A i \in 1..(p - 1) : u[i] = s[i]
  <2>1. 0 <= p - 1 /\ (p - 1) - 0 = p - 1
    BY <1>0
  <2>2. QED BY <1>0, <2>1, PartEffect
<1>2. v \in Seq(S) /\ Len(v) = Len(s) - (p - 1) /\ \A i \in 1..(Len(s) - (p - 1)) : v[i] = s[(p - 1) + i]
  BY <1>0, PartEffect
<1>3. InsertAt(s, p, x) = r
  <2>1. (p - 1) + 1 = p /\ 0 + 1 = 1
    BY <1>0
  <2>2. v = SubSeq(s, p, Len(s)) /\ u = SubSeq(s, 1, p - 1)
    BY <2>1
  <2> HIDE DEF u, v
  <2>3. QED BY <2>2 DEF InsertAt
<1> HIDE DEF u, v
<1>4. <<x>> \in Seq(S) /\ Len(<<x>>) = 1 /\ <<x>>[1] = x
  OBVIOUS
<1>5. /\ ux \in Seq(S) /\ Len(ux) = Len(u) + 1
      /\ \A i \in 1..(Len(u) + 1) : ux[i] = IF i <= Len(u) THEN u[i] ELSE <<x>>[i - Len(u)]
  BY <1>1, <1>4, ConcatProperties
<1> HIDE DEF ux
<1>6. /\ r \in Seq(S) /\ Len(r) = Len(ux) + Len(v)
      /\ \A i \in 1..(Len(ux) + Len(v)) : r[i] = IF i <= Len(ux) THEN ux[i] ELSE v[i - Len(ux)]
  BY <1>2, <1>5, ConcatProperties
<1> HIDE DEF r
<1>7. Len(ux) = p /\ Len(r) = Len(s) + 1
  BY <1>0, <1>1, <1>2, <1>5, <1>6
<1>8. ASSUME NEW i \in 1..Len(r)
      PROVE  r[i] = IF i < p THEN s[i] ELSE IF i = p THEN x ELSE s[i - 1]
  <2>0. i \in 1..(Len(ux) + Len(v))
    BY <1>6
  <2>1. CASE i < p
    <3>1. i <= Len(ux) /\ i \in 1..(Len(u) + 1) /\ i <= Len(u) /\ i \in 1..(p - 1)
      BY <1>0, <1>1, <1>7, <2>1
    <3>2. QED BY <1>1, <1>5, <1>6, <2>0, <2>1, <3>1
  <2>2. CASE i = p
    <3>1. i <= Len(ux) /\ i \in 1..(Len(u) + 1) /\ ~(i <= Len(u)) /\ i - Len(u) = 1
      BY <1>0, <1>1, <1>7, <2>2
    <3>2. QED BY <1>4, <1>5, <1>6, <2>0, <2>2, <3>1
  <2>3. CASE i > p
    <3>1. ~(i <= Len(ux)) /\ i - Len(ux) \in 1..(Len(s) - (p - 1)) /\ (p - 1) + (i - Len(ux)) = i - 1
      BY <1>0, <1>7, <2>3
    <3>2. QED BY <1>2, <1>6, <2>0, <2>3, <3>1
  <2>4. QED BY <1>0, <2>1, <2>2, <2>3
<1>9. \A i \in 1..Len(r) : i = p \/ (IF i < p THEN i ELSE i - 1) \in 1..Len(s)
  BY <1>0, <1>7
<1>10. IsInjective(r)
  <2> SUFFICES ASSUME NEW i \in 1..Len(r), NEW j \in 1..Len(r), i < j PROVE r[i] # r[j]
    <3>1. \A i, j \in 1..Len(r) : i # j => i < j \/ j < i
      BY <1>7
    <3>2. QED BY <3>1 DEF IsInjective
  <2>1. CASE i < p /\ j < p
    BY <1>0, <1>7, <1>8, <2>1 DEF IsInjective
  <2>2. CASE i < p /\ j = p
    BY <1>8, <1>9, <2>2 DEF Contains
  <2>3. CASE i < p /\ j > p
    <3>1. i \in 1..Len(s) /\ j - 1 \in 1..Len(s) /\ i # j - 1
      BY <1>0, <1>7, <2>3
    <3>2. r[i] = s[i] /\ r[j] = s[j - 1]
      BY <1>0, <1>8, <2>3
    <3>3. QED BY <3>1, <3>2 DEF IsInjective
  <2>4. CASE i = p
    <3>1. j - 1 \in 1..Len(s) /\ r[j] = s[j - 1] /\ r[i] = x
      BY <1>0, <1>7, <1>8, <2>4
    <3>2. QED BY <3>1 DEF Contains
  <2>5. CASE i > p
    <3>1. i - 1 \in 1..Len(s) /\ j - 1 \in 1..Len(s) /\ i - 1 # j - 1
      BY <1>0, <1>7, <2>5
    <3>2. r[i] = s[i - 1] /\ r[j] = s[j - 1]
      BY <1>0, <1>8, <2>5
    <3>3. QED BY <3>1, <3>2 DEF IsInjective
  <2>6. QED BY <1>0, <2>1, <2>2, <2>3, <2>4, <2>5
<1>11. ASSUME NEW y PROVE Contains(r, y) <=> Contains(s, y) \/ y = x
  <2>1. ASSUME Contains(r, y) PROVE Contains(s, y) \/ y = x
    BY <1>8, <1>9, <2>1 DEF Contains
  <2>2. p \in 1..Len(r) /\ r[p] = x
    BY <1>0, <1>7, <1>8
  <2>3. ASSUME NEW i \in 1..Len(s), s[i] = y PROVE Contains(r, y)
    <3>1. CASE i < p
      <4>1. i \in 1..Len(r) /\ r[i] = s[i]
        BY <1>0, <1>7, <1>8, <3>1
      <4>2. QED BY <2>3, <4>1 DEF Contains
    <3>2. CASE ~(i < p)
      <4>1. i + 1 \in 1..Len(r) /\ ~(i + 1 < p) /\ i + 1 # p /\ (i + 1) - 1 = i
        BY <1>0, <1>7, <3>2
      <4>2. r[i + 1] = s[i]
        BY <1>8, <4>1
      <4>3. QED BY <2>3, <4>1, <4>2 DEF Contains
    <3>3. QED BY <3>1, <3>2
  <2>4. QED BY <2>1, <2>2, <2>3 DEF Contains
<1>12. QED BY <1>3, <1>6, <1>10, <1>11

\* Putting a sequence of other elements behind s.
LEMMA ConcatKeeps ==
    ASSUME NEW S, NEW s \in Seq(S), NEW t \in Seq(S), IsInjective(s), IsInjective(t),
           \A x : Contains(s, x) => ~Contains(t, x)
    PROVE  /\ IsInjective(s \o t)
           /\ \A x : Contains(s \o t, x) <=> Contains(s, x) \/ Contains(t, x)
           /\ \A x, y : ~Contains(t, x) /\ ~Contains(t, y) => (Before(s \o t, x, y) <=> Before(s, x, y))
<1> DEFINE r == s \o t
<1>0. Len(s) \in Nat /\ Len(t) \in Nat
  OBVIOUS
<1>1. /\ r \in Seq(S) /\ Len(r) = Len(s) + Len(t)
      /\ \A i \in 1..(Len(s) + Len(t)) : r[i] = IF i <= Len(s) THEN s[i] ELSE t[i - Len(s)]
  BY ConcatProperties
<1> HIDE DEF r
<1>2. \A i \in 1..Len(r) :
          \/ i \in 1..Len(s) /\ r[i] = s[i]
          \/ i - Len(s) \in 1..Len(t) /\ i > Len(s) /\ r[i] = t[i - Len(s)]
  BY <1>0, <1>1
<1>3. \A i \in 1..Len(s) : i \in 1..Len(r) /\ r[i] = s[i]
  BY <1>0, <1>1
<1>4. \A i \in 1..Len(t) : i + Len(s) \in 1..Len(r) /\ r[i + Len(s)] = t[i]
  <2> TAKE i \in 1..Len(t)
  <2>1. i + Len(s) \in 1..(Len(s) + Len(t)) /\ ~(i + Len(s) <= Len(s)) /\ (i + Len(s)) - Len(s) = i
    BY <1>0
  <2>2. QED BY <1>1, <2>1
<1>5. ASSUME NEW x PROVE Contains(r, x) <=> Contains(s, x) \/ Contains(t, x)
  BY <1>2, <1>3, <1>4 DEF Contains
<1>6. IsInjective(r)
  <2> SUFFICES ASSUME NEW i \in 1..Len(r), NEW j \in 1..Len(r), i # j, r[i] = r[j] PROVE FALSE
    BY DEF IsInjective
  <2>1. CASE i \in 1..Len(s) /\ j \in 1..Len(s)
    BY <1>3, <2>1 DEF IsInjective
  <2>2. CASE i \in 1..Len(s) /\ j \notin 1..Len(s)
    BY <1>2, <1>3, <2>2 DEF Contains
  <2>3. CASE i \notin 1..Len(s) /\ j \in 1..Len(s)
    BY <1>2, <1>3, <2>3 DEF Contains
  <2>4. CASE i \notin 1..Len(s) /\ j \notin 1..Len(s)
    <3> DEFINE a == i - Len(s)
               b == j - Len(s)
    <3>1. a \in 1..Len(t) /\ r[i] = t[a] /\ b \in 1..Len(t) /\ r[j] = t[b]
      BY <1>2, <2>4
    <3>2. a # b
      BY <1>0
    <3> HIDE DEF a, b
    <3>3. DOMAIN t = 1..Len(t) OBVIOUS
    <3>4. t[a] = r[i] /\ t[b] = r[j] BY <3>1
    <3>5. r[i] = r[j] OBVIOUS
    <3>6. t[a] = t[b] BY <3>4, <3>5
    <3>7. QED BY <3>1, <3>2, <3>3, <3>6 DEF IsInjective
  <2>5. QED BY <2>1, <2>2, <2>3, <2>4
<1>7. ASSUME NEW x, NEW y, ~Contains(t, x), ~Contains(t, y) PROVE Before(r, x, y) <=> Before(s, x, y)
  <2>1. \A i \in 1..Len(r) : r[i] = x \/ r[i] = y => i \in 1..Len(s)
    BY <1>2, <1>7 DEF Contains
  <2>2. QED BY <1>3, <2>1 DEF Before
<1>8. QED BY <1>5, <1>6, <1>7 DEF r

-----------------------------------------------------------------------------
(* Lists of any elements: induction, flattening, concatenation.            *)

\* Induction over sequences, element by element at the end.
LEMMA SequencesFrom ==
    ASSUME NEW A, NEW S, <<>> \in S, \A t \in Seq(A), c \in A : t \in S => Append(t, c) \in S
    PROVE  \A t \in Seq(A) : t \in S
<1> DEFINE N == {n \in Nat : \A t \in Seq(A) : Len(t) = n => t \in S}
<1>1. 0 \in N
  <2>1. \A t \in Seq(A) : Len(t) = 0 => t = <<>> OBVIOUS
  <2>2. QED BY <2>1
<1>2. ASSUME NEW n \in Nat, n \in N PROVE n + 1 \in N
  <2> SUFFICES ASSUME NEW t \in Seq(A), Len(t) = n + 1 PROVE t \in S
    OBVIOUS
  <2> DEFINE u == SubSeq(t, 1, n)
  <2>1. u \in Seq(A) /\ Len(u) = n /\ \A i \in 1..n : u[i] = t[i]
    OBVIOUS
  <2>2. t[n + 1] \in A /\ t = Append(u, t[n + 1])
    <3>1. t[n + 1] \in A OBVIOUS
    <3> HIDE DEF u
    <3>2. /\ Append(u, t[n + 1]) \in Seq(A) /\ Len(Append(u, t[n + 1])) = n + 1
          /\ \A i \in 1..(n + 1) : Append(u, t[n + 1])[i] = t[i]
      BY <2>1, <3>1
    <3>3. QED BY <3>1, <3>2, SeqEqual
  <2>3. u \in S BY <1>2, <2>1
  <2> HIDE DEF u
  <2>4. QED BY <2>1, <2>2, <2>3
<1> HIDE DEF N
<1>3. \A n \in Nat : n \in N BY <1>1, <1>2, NaturalsFrom
<1>4. QED BY <1>3 DEF N

\* Flattening goes through the sequences from the first to the last.
LEMMA FlattenIs ==
    ASSUME NEW A, NEW ss \in Seq(Seq(A)), NEW f \in [0..Len(ss) -> Seq(A)],
           f[0] = <<>>, \A n \in 1..Len(ss) : f[n] = f[n - 1] \o ss[n]
    PROVE  FlattenSeq(ss) = f[Len(ss)]
<1> DEFINE D == 1..Len(ss)
           Solves(g) == g = [i \in D |-> IF i = 1 THEN ss[i] ELSE g[i - 1] \o ss[i]]
           h == [i \in D |-> f[i]]
<1>0. Len(ss) \in Nat /\ \A n \in D : ss[n] \in Seq(A) OBVIOUS
<1>1. CASE Len(ss) = 0
  <2>1. ss = <<>> BY <1>1
  <2>2. QED BY <1>1, <2>1 DEF FlattenSeq
<1>2. CASE Len(ss) # 0
  <2>0. f[1] = f[0] \o ss[1]
    <3>1. 1 \in 1..Len(ss) /\ 1 - 1 = 0 BY <1>0, <1>2
    <3>2. QED BY <3>1
  <2>1. Solves(h)
    <3>1. ASSUME NEW n \in D PROVE h[n] = IF n = 1 THEN ss[n] ELSE h[n - 1] \o ss[n]
      <4>1. CASE n = 1
        <5>1. f[1] = ss[1] BY <2>0, <4>1, <1>0
        <5>2. QED BY <4>1, <5>1
      <4>2. CASE n # 1
        <5>1. n - 1 \in D BY <4>2
        <5>2. QED BY <4>2, <5>1
      <4>3. QED BY <4>1, <4>2
    <3>2. QED BY <3>1
  <2>2. Solves(CHOOSE g : Solves(g))
    <3> HIDE DEF Solves
    <3>1. QED BY <2>1
  <2>3. PICK g : Solves(g) /\ FlattenSeq(ss) = g[Len(ss)]
    <3>1. FlattenSeq(ss) = (CHOOSE g : Solves(g))[Len(ss)] BY <1>2 DEF FlattenSeq
    <3> HIDE DEF Solves
    <3>2. QED BY <2>2, <3>1
  <2> DEFINE S == {n \in Nat : n + 1 \in D => g[n + 1] = f[n + 1]}
  <2>4. \A i \in D : g[i] = IF i = 1 THEN ss[i] ELSE g[i - 1] \o ss[i]
    BY <2>3
  <2>5. 0 \in S
    <3>1. 1 \in D BY <1>2, <1>0
    <3>2. f[1] = ss[1] BY <2>0, <3>1, <1>0
    <3>3. QED BY <2>4, <3>1, <3>2
  <2>6. ASSUME NEW n \in Nat, n \in S PROVE n + 1 \in S
    <3> SUFFICES ASSUME n + 2 \in D PROVE g[n + 2] = f[n + 2]
      OBVIOUS
    <3>1. n + 1 \in D BY <1>0
    <3>2. g[n + 1] = f[n + 1] BY <2>6, <3>1
    <3>3. g[n + 2] = g[n + 1] \o ss[n + 2]
      <4>1. n + 2 # 1 /\ (n + 2) - 1 = n + 1 OBVIOUS
      <4>2. QED BY <2>4, <4>1
    <3>4. f[n + 2] = f[n + 1] \o ss[n + 2]
      <4>1. (n + 2) - 1 = n + 1 OBVIOUS
      <4>2. QED BY <4>1
    <3>5. QED BY <3>2, <3>3, <3>4
  <2> HIDE DEF S
  <2>7. \A n \in Nat : n \in S BY <2>5, <2>6, NaturalsFrom
  <2>8. Len(ss) - 1 \in S /\ Len(ss) - 1 + 1 = Len(ss) /\ Len(ss) \in D BY <1>0, <1>2, <2>7
  <2>9. QED BY <2>3, <2>8 DEF S
<1>3. QED BY <1>1, <1>2

\* There is such an f.
LEMMA FlattenExists ==
    ASSUME NEW A, NEW ss \in Seq(Seq(A))
    PROVE  \E f \in [0..Len(ss) -> Seq(A)] :
              f[0] = <<>> /\ \A n \in 1..Len(ss) : f[n] = f[n - 1] \o ss[n]
<1> DEFINE Flat(f, k) == /\ f \in [0..k -> Seq(A)] /\ f[0] = <<>>
                         /\ \A n \in 1..k : f[n] = f[n - 1] \o ss[n]
           S == {k \in Nat : k <= Len(ss) => \E f : Flat(f, k)}
<1>0. Len(ss) \in Nat /\ \A n \in 1..Len(ss) : ss[n] \in Seq(A) OBVIOUS
<1>1. 0 \in S
  <2>1. Flat([n \in 0..0 |-> <<>>], 0) OBVIOUS
  <2>2. QED BY <2>1
<1>2. ASSUME NEW k \in Nat, k \in S PROVE k + 1 \in S
  <2> HIDE DEF Flat
  <2> SUFFICES ASSUME k + 1 <= Len(ss) PROVE \E f : Flat(f, k + 1)
    OBVIOUS
  <2>1. PICK f : Flat(f, k) BY <1>0, <1>2
  <2> USE DEF Flat
  <2> DEFINE g == [n \in 0..(k + 1) |-> IF n <= k THEN f[n] ELSE f[k] \o ss[k + 1]]
  <2>2. /\ k + 1 \in 1..Len(ss) /\ ss[k + 1] \in Seq(A) /\ f[k] \in Seq(A)
        /\ \A n \in 0..k : f[n] \in Seq(A) /\ n \in 0..(k + 1) /\ n <= k
        /\ \A n \in 0..(k + 1) : n \in 0..k \/ n = k + 1
        /\ ~(k + 1 <= k) /\ k + 1 \in 0..(k + 1) /\ 0 \in 0..k
    BY <1>0, <2>1
  <2>3. /\ \A n \in 0..k : g[n] = f[n]
        /\ g[k + 1] = f[k] \o ss[k + 1]
    BY <2>2
  <2>4. f[k] \o ss[k + 1] \in Seq(A) BY <2>2
  <2>5. g \in [0..(k + 1) -> Seq(A)] BY <2>2, <2>4
  <2> HIDE DEF g, Flat
  <2>6. ASSUME NEW n \in 1..(k + 1) PROVE g[n] = g[n - 1] \o ss[n]
    <3>1. CASE n \in 1..k
      <4>1. n \in 0..k /\ n - 1 \in 0..k BY <3>1
      <4>2. f[n] = f[n - 1] \o ss[n] BY <2>1, <3>1 DEF Flat
      <4>3. QED BY <2>3, <4>1, <4>2
    <3>2. CASE n = k + 1
      <4>1. n - 1 = k /\ k \in 0..k BY <3>2
      <4>2. QED BY <2>3, <3>2, <4>1
    <3>3. n \in 1..k \/ n = k + 1 OBVIOUS
    <3>4. QED BY <3>1, <3>2, <3>3
  <2>7. Flat(g, k + 1) BY <2>1, <2>2, <2>3, <2>5, <2>6 DEF Flat
  <2>8. QED BY <2>7
<1> HIDE DEF S
<1>3. \A k \in Nat : k \in S BY <1>1, <1>2, NaturalsFrom
<1>4. Len(ss) \in S /\ Len(ss) <= Len(ss) BY <1>0, <1>3
<1>5. QED BY <1>4 DEF S

LEMMA FlattenEffect ==
    ASSUME NEW A, NEW ss \in Seq(Seq(A)), NEW s \in Seq(A)
    PROVE  /\ FlattenSeq(ss) \in Seq(A)
           /\ FlattenSeq(Append(ss, s)) = FlattenSeq(ss) \o s
<1> DEFINE tt == Append(ss, s)
<1>1. /\ tt \in Seq(Seq(A)) /\ Len(tt) = Len(ss) + 1 /\ Len(ss) \in Nat
      /\ tt[Len(ss) + 1] = s /\ \A n \in 1..Len(ss) : tt[n] = ss[n]
  OBVIOUS
<1> HIDE DEF tt
<1>2. PICK f \in [0..Len(tt) -> Seq(A)] :
              f[0] = <<>> /\ \A n \in 1..Len(tt) : f[n] = f[n - 1] \o tt[n]
  BY <1>1, FlattenExists
<1> DEFINE g == [n \in 0..Len(ss) |-> f[n]]
<1>3. /\ g \in [0..Len(ss) -> Seq(A)] /\ g[0] = <<>>
      /\ g[Len(ss)] = f[Len(ss)]
  BY <1>1, <1>2
<1>4. \A n \in 1..Len(ss) : n - 1 \in 0..Len(ss) /\ n \in 0..Len(ss) /\ n \in 1..Len(tt)
  BY <1>1
<1>5. \A n \in 1..Len(ss) : g[n] = g[n - 1] \o ss[n]
  BY <1>1, <1>2, <1>4
<1> HIDE DEF g
<1>6. FlattenSeq(ss) = g[Len(ss)]
  BY <1>3, <1>5, FlattenIs
<1>7. FlattenSeq(tt) = f[Len(tt)]
  BY <1>1, <1>2, FlattenIs
<1>8. f[Len(tt)] = f[Len(ss)] \o s
  <2>1. Len(tt) \in 1..Len(tt) /\ Len(tt) - 1 = Len(ss) BY <1>1
  <2>2. QED BY <1>1, <1>2, <2>1
<1>9. g[Len(ss)] \in Seq(A) BY <1>1, <1>3
<1>10. QED BY <1>3, <1>6, <1>7, <1>8, <1>9 DEF tt

\* Of one list, and of two.
LEMMA FlattenOne ==
    ASSUME NEW A, NEW a \in Seq(A)
    PROVE  FlattenSeq(<<a>>) = a
<1>1. <<>> \in Seq(Seq(A)) /\ <<a>> = Append(<<>>, a) /\ FlattenSeq(<<>>) = <<>> /\ <<>> \o a = a
  BY DEF FlattenSeq
<1>2. FlattenSeq(Append(<<>>, a)) = FlattenSeq(<<>>) \o a
  BY <1>1, FlattenEffect
<1>3. QED BY <1>1, <1>2

LEMMA FlattenTwo ==
    ASSUME NEW A, NEW a \in Seq(A), NEW b \in Seq(A)
    PROVE  FlattenSeq(<<a, b>>) = a \o b
<1>1. <<a>> \in Seq(Seq(A)) /\ <<a, b>> = Append(<<a>>, b)
  OBVIOUS
<1>2. FlattenSeq(Append(<<a>>, b)) = FlattenSeq(<<a>>) \o b
  BY <1>1, FlattenEffect
<1>3. QED BY <1>1, <1>2, FlattenOne

\* Short lists.
LEMMA Pair ==
    ASSUME NEW x, NEW y
    PROVE  Append(<<x>>, y) = <<x, y>> /\ Append(<<>>, x) = <<x>>
<1>1. <<x, y>> = Append(<<x>>, y) OBVIOUS
<1>2. <<x>> = Append(<<>>, x) OBVIOUS
<1>3. QED BY <1>1, <1>2

\* Concatenation, element by element and in any grouping.
LEMMA ConcatAppend ==
    ASSUME NEW A, NEW s \in Seq(A), NEW t \in Seq(A), NEW c \in A
    PROVE  s \o Append(t, c) = Append(s \o t, c)
<1>1. <<c>> \in Seq(A) /\ s \o t \in Seq(A) OBVIOUS
<1>2. Append(t, c) = t \o <<c>> BY AppendIsConcat
<1>3. s \o (t \o <<c>>) = (s \o t) \o <<c>> BY <1>1, ConcatAssociative
<1>4. (s \o t) \o <<c>> = Append(s \o t, c) BY <1>1, AppendIsConcat
<1>5. QED BY <1>2, <1>3, <1>4

\* Putting lists together.
LEMMA Together ==
    ASSUME NEW A, NEW s \in Seq(A), NEW t \in Seq(A), NEW c \in A, NEW d \in A
    PROVE  /\ s \o <<>> = s
           /\ s \o <<c>> = Append(s, c)
           /\ s \o <<c, d>> = Append(Append(s, c), d)
           /\ s \o Append(t, c) = Append(s \o t, c)
<1>1. s \o <<>> = s OBVIOUS
<1>2. s \o <<c>> = Append(s, c) BY AppendIsConcat
<1>3. <<c, d>> = <<c>> \o <<d>>
  <2>1. <<c>> \in Seq(A) /\ <<d>> \in Seq(A) /\ <<c, d>> \in Seq(A) OBVIOUS
  <2>2. <<c>> \o <<d>> \in Seq(A) BY <2>1
  <2>3. Len(<<c>> \o <<d>>) = 2 /\ Len(<<c, d>>) = 2 BY <2>1
  <2>4. (<<c>> \o <<d>>)[1] = c /\ (<<c>> \o <<d>>)[2] = d BY <2>1
  <2>5. \A n \in 1..2 : (<<c>> \o <<d>>)[n] = <<c, d>>[n] BY <2>4
  <2>6. QED BY <2>1, <2>2, <2>3, <2>5, SeqEqual
<1>4. <<c>> \in Seq(A) /\ <<d>> \in Seq(A) /\ Append(s, c) \in Seq(A) /\ s \o t \in Seq(A) OBVIOUS
<1>5. s \o <<c, d>> = (s \o <<c>>) \o <<d>>
  <2>1. (s \o <<c>>) \o <<d>> = s \o (<<c>> \o <<d>>) BY <1>4, ConcatAssociative
  <2>2. QED BY <1>3, <2>1
<1>6. (s \o <<c>>) \o <<d>> = Append(Append(s, c), d) BY <1>2, <1>4, AppendIsConcat
<1>7. s \o Append(t, c) = Append(s \o t, c) BY ConcatAppend
<1>8. QED BY <1>1, <1>2, <1>5, <1>6, <1>7

LEMMA ConcatTo ==
    ASSUME NEW A, NEW c \in Seq(A), NEW d \in Seq(A)
    PROVE  \A x \in Seq(A) : x \o (c \o d) = (x \o c) \o d
BY ConcatAssociative

LEMMA ConcatFrom ==
    ASSUME NEW A, NEW c \in Seq(A), NEW d \in Seq(A)
    PROVE  \A x \in Seq(A) : c \o (d \o x) = (c \o d) \o x
BY ConcatAssociative

\* Of some naturals there is a least one.
LEMMA LeastOf ==
    ASSUME NEW S \in SUBSET Nat, S # {}
    PROVE  Min(S) \in S /\ \A x \in S : Min(S) <= x
<1> DEFINE Below == {k \in Nat : \A x \in S : x > k}
<1>1. CASE \A x \in S : \E y \in S : ~(x <= y)
  <2>1. 0 \in Below
    <3>1. ASSUME NEW x \in S PROVE x > 0
      <4>1. PICK y \in S : ~(x <= y) BY <1>1
      <4>2. QED BY <4>1
    <3>2. QED BY <3>1
  <2>2. ASSUME NEW k \in Nat, k \in Below PROVE k + 1 \in Below
    <3>1. ASSUME NEW x \in S PROVE x > k + 1
      <4>1. PICK y \in S : ~(x <= y) BY <1>1
      <4>2. y > k /\ x > y /\ y \in Nat /\ x \in Nat BY <2>2, <4>1
      <4>3. QED BY <4>2
    <3>2. QED BY <3>1
  <2> HIDE DEF Below
  <2>3. \A k \in Nat : k \in Below BY <2>1, <2>2, NaturalsFrom
  <2>4. PICK x \in S : TRUE OBVIOUS
  <2>5. x \in Nat /\ x > x BY <2>3, <2>4 DEF Below
  <2>6. QED BY <2>5
<1>2. CASE \E x \in S : \A y \in S : x <= y
  BY <1>2 DEF Min
<1>3. QED BY <1>1, <1>2

\* What is in the lists is in the list they are flattened to.
LEMMA FlattenElements ==
    ASSUME NEW A, NEW ss \in Seq(Seq(A))
    PROVE  \A x : Contains(FlattenSeq(ss), x) <=> \E n \in 1..Len(ss) : Contains(ss[n], x)
<1> DEFINE S == {rr \in Seq(Seq(A)) :
                    \A x : Contains(FlattenSeq(rr), x) <=> \E n \in 1..Len(rr) : Contains(rr[n], x)}
<1>1. <<>> \in S
  <2>1. FlattenSeq(<<>>) = <<>> BY DEF FlattenSeq
  <2>2. QED BY <2>1 DEF Contains
<1>2. ASSUME NEW rr \in Seq(Seq(A)), NEW r \in Seq(A), rr \in S PROVE Append(rr, r) \in S
  <2> DEFINE f == FlattenSeq(rr)
             tt == Append(rr, r)
  <2>1. f \in Seq(A) /\ FlattenSeq(tt) = f \o r BY FlattenEffect
  <2>2. \A x : Contains(f, x) <=> \E n \in 1..Len(rr) : Contains(rr[n], x) BY <1>2
  <2>3. /\ tt \in Seq(Seq(A)) /\ Len(tt) = Len(rr) + 1 /\ Len(rr) \in Nat /\ tt[Len(rr) + 1] = r
        /\ \A n \in 1..Len(rr) : tt[n] = rr[n]
    OBVIOUS
  <2> HIDE DEF f, tt
  <2>4. \A x : Contains(f \o r, x) <=> Contains(f, x) \/ Contains(r, x)
    <3> TAKE x
    <3>1. /\ Len(f \o r) = Len(f) + Len(r) /\ Len(f) \in Nat /\ Len(r) \in Nat
          /\ \A i \in 1..(Len(f) + Len(r)) : (f \o r)[i] = IF i <= Len(f) THEN f[i] ELSE r[i - Len(f)]
      BY <2>1, ConcatProperties
    <3>2. ASSUME NEW i \in 1..Len(f \o r), (f \o r)[i] = x PROVE Contains(f, x) \/ Contains(r, x)
      <4>1. CASE i <= Len(f) BY <3>1, <3>2, <4>1 DEF Contains
      <4>2. CASE ~(i <= Len(f))
        <5>1. i - Len(f) \in 1..Len(r) /\ r[i - Len(f)] = x BY <3>1, <3>2, <4>2
        <5>2. QED BY <5>1 DEF Contains
      <4>3. QED BY <4>1, <4>2
    <3>3. ASSUME NEW i \in 1..Len(f), f[i] = x PROVE Contains(f \o r, x)
      <4>1. i \in 1..Len(f \o r) /\ (f \o r)[i] = x BY <3>1, <3>3
      <4>2. QED BY <4>1 DEF Contains
    <3>4. ASSUME NEW i \in 1..Len(r), r[i] = x PROVE Contains(f \o r, x)
      <4>1. i + Len(f) \in 1..Len(f \o r) /\ ~(i + Len(f) <= Len(f)) /\ (i + Len(f)) - Len(f) = i BY <3>1
      <4>2. (f \o r)[i + Len(f)] = x BY <3>1, <3>4, <4>1
      <4>3. QED BY <4>1, <4>2 DEF Contains
    <3>5. QED BY <3>2, <3>3, <3>4 DEF Contains
  <2>5. \A x : (\E n \in 1..Len(tt) : Contains(tt[n], x))
                 <=> (\E n \in 1..Len(rr) : Contains(rr[n], x)) \/ Contains(r, x)
    <3>1. \A n \in 1..Len(tt) : n = Len(rr) + 1 \/ n \in 1..Len(rr) BY <2>3
    <3>2. Len(rr) + 1 \in 1..Len(tt) /\ \A n \in 1..Len(rr) : n \in 1..Len(tt) BY <2>3
    <3>3. QED BY <2>3, <3>1, <3>2
  <2>6. QED BY <2>1, <2>2, <2>3, <2>4, <2>5 DEF tt
<1> HIDE DEF S
<1>3. \A rr \in Seq(Seq(A)) : rr \in S
  <2>1. <<>> \in S BY <1>1
  <2>2. \A rr \in Seq(Seq(A)), r \in Seq(A) : rr \in S => Append(rr, r) \in S BY <1>2
  <2> DEFINE B == Seq(A)
  <2>3. \A rr \in Seq(B), r \in B : rr \in S => Append(rr, r) \in S BY <2>2
  <2> HIDE DEF B
  <2>4. \A rr \in Seq(B) : rr \in S BY <2>1, <2>3, SequencesFrom
  <2>5. QED BY <2>4 DEF B
<1>4. ss \in S BY <1>3
<1>5. QED BY <1>4 DEF S

\* The first element comes from the first list that is not empty.
LEMMA FlattenFirst ==
    ASSUME NEW A, NEW ss \in Seq(Seq(A))
    PROVE  /\ (\A n \in 1..Len(ss) : ss[n] = <<>>) => FlattenSeq(ss) = <<>>
           /\ \A m \in 1..Len(ss) :
                 ss[m] # <<>> /\ (\A n \in 1..(m - 1) : ss[n] = <<>>) =>
                    FlattenSeq(ss) # <<>> /\ FlattenSeq(ss)[1] = ss[m][1]
<1> DEFINE Empty(rr) == (\A n \in 1..Len(rr) : rr[n] = <<>>) => FlattenSeq(rr) = <<>>
           First(rr) == \A m \in 1..Len(rr) :
                           rr[m] # <<>> /\ (\A n \in 1..(m - 1) : rr[n] = <<>>) =>
                              FlattenSeq(rr) # <<>> /\ FlattenSeq(rr)[1] = rr[m][1]
           S == {rr \in Seq(Seq(A)) : Empty(rr) /\ First(rr)}
<1>1. <<>> \in S
  <2>1. FlattenSeq(<<>>) = <<>> BY DEF FlattenSeq
  <2>2. QED BY <2>1
<1>2. ASSUME NEW rr \in Seq(Seq(A)), NEW r \in Seq(A), rr \in S PROVE Append(rr, r) \in S
  <2> DEFINE f == FlattenSeq(rr)
             tt == Append(rr, r)
  <2>1. f \in Seq(A) /\ FlattenSeq(tt) = f \o r BY FlattenEffect
  <2>2. Empty(rr) /\ First(rr) BY <1>2
  <2>3. /\ tt \in Seq(Seq(A)) /\ Len(tt) = Len(rr) + 1 /\ Len(rr) \in Nat /\ tt[Len(rr) + 1] = r
        /\ \A n \in 1..Len(rr) : tt[n] = rr[n] /\ n \in 1..Len(tt)
    OBVIOUS
  <2> HIDE DEF tt
  <2>4. Len(rr) + 1 \in 1..Len(tt) BY <2>3
  <2>5. Empty(tt)
    <3> SUFFICES ASSUME \A n \in 1..Len(tt) : tt[n] = <<>> PROVE FlattenSeq(tt) = <<>>
      OBVIOUS
    <3>1. f = <<>> BY <2>2, <2>3
    <3>2. r = <<>> BY <2>3, <2>4
    <3>3. QED BY <2>1, <3>1, <3>2
  <2>6. First(tt)
    <3> SUFFICES ASSUME NEW m \in 1..Len(tt), tt[m] # <<>>, \A n \in 1..(m - 1) : tt[n] = <<>>
                 PROVE  FlattenSeq(tt) # <<>> /\ FlattenSeq(tt)[1] = tt[m][1]
      OBVIOUS
    <3>1. CASE m \in 1..Len(rr)
      <4>0. \A n \in 1..(m - 1) : n \in 1..Len(rr) BY <2>3, <3>1
      <4>1. rr[m] # <<>> /\ \A n \in 1..(m - 1) : rr[n] = <<>> BY <2>3, <3>1, <4>0
      <4>2. f # <<>> /\ f[1] = rr[m][1] BY <2>2, <3>1, <4>1
      <4> HIDE DEF f
      <4>3. Len(f) \in Nat /\ Len(f) # 0 /\ Len(r) \in Nat BY <2>1, <4>2, EmptySeq
      <4>4. Len(f \o r) # 0 /\ (f \o r)[1] = f[1] BY <2>1, <4>3
      <4>5. QED BY <2>1, <2>3, <3>1, <4>2, <4>4
    <3>2. CASE m \notin 1..Len(rr)
      <4>1. m = Len(rr) + 1 /\ m - 1 = Len(rr) BY <2>3, <3>2
      <4>2. \A n \in 1..Len(rr) : rr[n] = <<>> BY <2>3, <4>1
      <4>3. f = <<>> BY <2>2, <4>2
      <4>4. f \o r = r BY <4>3
      <4>5. QED BY <2>1, <2>3, <4>1, <4>4
    <3>3. QED BY <3>1, <3>2
  <2> HIDE DEF Empty, First
  <2>7. QED BY <2>3, <2>5, <2>6 DEF tt
<1> HIDE DEF S
<1>3. \A rr \in Seq(Seq(A)) : rr \in S
  <2> DEFINE B == Seq(A)
  <2>1. \A rr \in Seq(B), r \in B : rr \in S => Append(rr, r) \in S BY <1>2
  <2> HIDE DEF B
  <2>2. \A rr \in Seq(B) : rr \in S BY <1>1, <2>1, SequencesFrom
  <2>3. QED BY <2>2 DEF B
<1>4. ss \in S BY <1>3
<1>5. QED BY <1>4 DEF S

\* A list taken apart and put together again.
LEMMA FlattenSingles ==
    ASSUME NEW A, NEW s \in Seq(A)
    PROVE  FlattenSeq([n \in DOMAIN s |-> <<s[n]>>]) = s
<1> DEFINE singles(t) == [n \in DOMAIN t |-> <<t[n]>>]
           S == {t \in Seq(A) : singles(t) \in Seq(Seq(A)) /\ FlattenSeq(singles(t)) = t}
<1>1. <<>> \in S
  <2>1. singles(<<>>) = <<>> OBVIOUS
  <2>2. FlattenSeq(<<>>) = <<>> BY DEF FlattenSeq
  <2>3. QED BY <2>1, <2>2
<1>2. ASSUME NEW t \in Seq(A), NEW c \in A, t \in S PROVE Append(t, c) \in S
  <2> DEFINE u == Append(t, c)
  <2>1. u \in Seq(A) /\ DOMAIN u = 1..(Len(t) + 1) /\ Len(t) \in Nat /\ u[Len(t) + 1] = c
        /\ \A n \in 1..Len(t) : u[n] = t[n]
    OBVIOUS
  <2>2. singles(t) \in Seq(Seq(A)) /\ FlattenSeq(singles(t)) = t BY <1>2
  <2>3. <<c>> \in Seq(A) OBVIOUS
  <2>4. singles(u) = Append(singles(t), <<c>>)
    <3> DEFINE s1 == singles(t)
               s2 == singles(u)
    <3>1. Len(s1) = Len(t) /\ \A n \in 1..Len(t) : s1[n] = <<t[n]>> BY <2>2
    <3>2. DOMAIN s2 = 1..(Len(t) + 1) /\ \A n \in 1..(Len(t) + 1) : s2[n] = <<u[n]>> BY <2>1
    <3>3. \A n \in 1..(Len(t) + 1) : u[n] \in A BY <2>1
    <3>4. s2 \in Seq(Seq(A)) /\ Len(s2) = Len(t) + 1
      <4>1. \A n \in 1..(Len(t) + 1) : <<u[n]>> \in Seq(A) BY <3>3
      <4>2. s2 = [n \in 1..(Len(t) + 1) |-> <<u[n]>>] BY <2>1
      <4>3. QED BY <2>1, <4>1, <4>2
    <3>5. s1 \in Seq(Seq(A)) BY <2>2
    <3> HIDE DEF s1, s2, u
    <3>6. /\ Append(s1, <<c>>) \in Seq(Seq(A)) /\ Len(Append(s1, <<c>>)) = Len(t) + 1
          /\ Append(s1, <<c>>)[Len(t) + 1] = <<c>>
          /\ \A n \in 1..Len(t) : Append(s1, <<c>>)[n] = s1[n]
      BY <2>3, <3>1, <3>5, <2>1
    <3>7. \A n \in 1..(Len(t) + 1) : s2[n] = Append(s1, <<c>>)[n]
      <4> SUFFICES ASSUME NEW n \in 1..(Len(t) + 1) PROVE s2[n] = Append(s1, <<c>>)[n]
        OBVIOUS
      <4>1. CASE n = Len(t) + 1 BY <2>1, <3>2, <3>6, <4>1
      <4>2. CASE n # Len(t) + 1
        <5>1. n \in 1..Len(t) BY <2>1, <4>2
        <5>2. QED BY <2>1, <3>1, <3>2, <3>6, <5>1
      <4>3. QED BY <4>1, <4>2
    <3>8. s2 = Append(s1, <<c>>) BY <3>4, <3>6, <3>7, SeqEqual
    <3>9. QED BY <3>8 DEF s1, s2
  <2> HIDE DEF singles
  <2>5. FlattenSeq(Append(singles(t), <<c>>)) = FlattenSeq(singles(t)) \o <<c>> BY <2>2, <2>3, FlattenEffect
  <2>6. t \o <<c>> = u BY AppendIsConcat
  <2>7. singles(u) \in Seq(Seq(A)) BY <2>2, <2>3, <2>4
  <2>8. QED BY <2>1, <2>2, <2>4, <2>5, <2>6, <2>7
<1> HIDE DEF S
<1>3. \A t \in Seq(A) : t \in S BY <1>1, <1>2, SequencesFrom
<1>4. s \in S BY <1>3
<1>5. QED BY <1>4 DEF S

\* Two lists one behind the other are flattened one behind the other.
LEMMA FlattenConcat ==
    ASSUME NEW A, NEW ss \in Seq(Seq(A)), NEW tt \in Seq(Seq(A))
    PROVE  FlattenSeq(ss \o tt) = FlattenSeq(ss) \o FlattenSeq(tt)
<1> DEFINE S == {rr \in Seq(Seq(A)) : FlattenSeq(ss \o rr) = FlattenSeq(ss) \o FlattenSeq(rr)}
           B == Seq(A)
<1>0. FlattenSeq(ss) \in Seq(A)
  <2>1. <<>> \in Seq(A) OBVIOUS
  <2>2. QED BY <2>1, FlattenEffect
<1>1. <<>> \in S
  <2>1. FlattenSeq(<<>>) = <<>> BY DEF FlattenSeq
  <2>2. <<>> \in Seq(Seq(A)) /\ ss \o <<>> = ss OBVIOUS
  <2>3. FlattenSeq(ss) \o <<>> = FlattenSeq(ss) BY <1>0
  <2>4. QED BY <2>1, <2>2, <2>3
<1>2. ASSUME NEW rr \in Seq(Seq(A)), NEW r \in Seq(A), rr \in S PROVE Append(rr, r) \in S
  <2>1. ss \o Append(rr, r) = Append(ss \o rr, r)
    <3>1. ss \in Seq(B) /\ rr \in Seq(B) /\ r \in B OBVIOUS
    <3> HIDE DEF B
    <3>2. QED BY <3>1, ConcatAppend
  <2>2. ss \o rr \in Seq(Seq(A)) OBVIOUS
  <2>3. FlattenSeq(Append(ss \o rr, r)) = FlattenSeq(ss \o rr) \o r BY <2>2, FlattenEffect
  <2>4. FlattenSeq(Append(rr, r)) = FlattenSeq(rr) \o r /\ FlattenSeq(rr) \in Seq(A) BY FlattenEffect
  <2>5. FlattenSeq(ss \o rr) = FlattenSeq(ss) \o FlattenSeq(rr) BY <1>2
  <2>6. (FlattenSeq(ss) \o FlattenSeq(rr)) \o r = FlattenSeq(ss) \o (FlattenSeq(rr) \o r)
    <3> DEFINE f == FlattenSeq(ss)
               g == FlattenSeq(rr)
    <3>1. f \in Seq(A) /\ g \in Seq(A) BY <1>0, <2>4
    <3> HIDE DEF f, g
    <3>2. (f \o g) \o r = f \o (g \o r) BY <3>1, ConcatAssociative
    <3>3. QED BY <3>2 DEF f, g
  <2>7. Append(rr, r) \in Seq(Seq(A)) OBVIOUS
  <2>8. QED BY <2>1, <2>3, <2>4, <2>5, <2>6, <2>7
<1> HIDE DEF S
<1>3. \A rr \in Seq(Seq(A)) : rr \in S
  <2>1. \A rr \in Seq(B), r \in B : rr \in S => Append(rr, r) \in S BY <1>2
  <2> HIDE DEF B
  <2>2. \A rr \in Seq(B) : rr \in S BY <1>1, <2>1, SequencesFrom
  <2>3. QED BY <2>2 DEF B
<1>4. QED BY <1>3 DEF S

\* All the elements of a finite set, in some order.
LEMMA SetToSeqElements ==
    ASSUME NEW S, IsFiniteSet(S)
    PROVE  SetToSeq(S) \in Seq(S) /\ \A x : Contains(SetToSeq(S), x) <=> x \in S
<1> DEFINE n == Cardinality(S)
           f == SetToSeq(S)
<1>1. n \in Nat BY FS_CardinalityType
<1>2. Injection(1..n, S) # {}
  <2>1. IsFiniteSet(1..n) /\ Cardinality(1..n) = n BY <1>1, FS_Interval
  <2>2. ExistsBijection(1..n, S) BY <2>1, FS_SameCardinalityBij
  <2>3. QED BY <2>2 DEF ExistsBijection, Bijection
<1>3. f \in [1..n -> S] /\ IsInjective(f)
  BY <1>2 DEF SetToSeq, Injection
<1> HIDE DEF f
<1>4. f \in Surjection(1..n, S)
  <2>1. f \in Injection(1..n, S) BY <1>3 DEF Injection
  <2>2. Cardinality(1..n) = Cardinality(S) BY <1>1, FS_Interval
  <2>3. QED BY <2>1, <2>2, FS_Injection
<1> HIDE DEF n
<1>5. f \in Seq(S) /\ Len(f) = n BY <1>1, <1>3
<1>6. \A x \in S : \E k \in 1..n : f[k] = x BY <1>4 DEF Surjection
<1>7. \A k \in 1..n : f[k] \in S BY <1>3
<1>8. \A x : Contains(f, x) <=> x \in S BY <1>5, <1>6, <1>7 DEF Contains
<1>9. QED BY <1>5, <1>8 DEF f
=============================================================================
