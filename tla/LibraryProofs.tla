---------------------------- MODULE LibraryProofs ----------------------------
(* Proofs about quoting, for every text: MPD takes the commands apart as they   *)
(* were meant.  About the search, for every library, every query and every      *)
(* behaviour of the fuzzy matcher.  And that the search keeps its promises      *)
(* inside the whole library: Library, whose database comes over the wire and    *)
(* whose other requests come in between, implements SearchIndex.                *)
EXTENDS Library, SequenceLemmas, FiniteSetTheorems

-----------------------------------------------------------------------------
(* Quoting.                                                                *)

\* A character is escaped by itself.
LEMMA EscapedEffect ==
    ASSUME NEW A, Backslash \in A, NEW special, NEW t \in Seq(A)
    PROVE  /\ Escaped(<<>>, special) = <<>>
           /\ Escaped(t, special) \in Seq(A)
           /\ \A c \in A : Escaped(Append(t, c), special)
                             = Escaped(t, special) \o (IF c \in special THEN <<Backslash, c>> ELSE <<c>>)
<1> DEFINE e(c) == IF c \in special THEN <<Backslash, c>> ELSE <<c>>
           E(u) == [n \in DOMAIN u |-> IF u[n] \in special THEN <<Backslash, u[n]>> ELSE <<u[n]>>]
<1>1. \A c \in A : e(c) \in Seq(A)
  OBVIOUS
<1>2. \A u : Escaped(u, special) = FlattenSeq(E(u))
  BY DEF Escaped
<1>3. \A u \in Seq(A) : E(u) \in Seq(Seq(A)) /\ Len(E(u)) = Len(u) /\ \A n \in 1..Len(u) : E(u)[n] = e(u[n])
  <2> TAKE u \in Seq(A)
  <2>1. Len(u) \in Nat /\ DOMAIN u = 1..Len(u) /\ \A n \in 1..Len(u) : u[n] \in A
    OBVIOUS
  <2>2. E(u) = [n \in 1..Len(u) |-> e(u[n])] BY <2>1
  <2> HIDE DEF e, E
  <2>3. \A n \in 1..Len(u) : e(u[n]) \in Seq(A) BY <1>1, <2>1
  <2>4. QED BY <2>1, <2>2, <2>3
<1>4. ASSUME NEW c \in A PROVE E(Append(t, c)) = Append(E(t), e(c))
  <2> DEFINE u == Append(t, c)
  <2> HIDE DEF e, E
  <2>1. /\ u \in Seq(A) /\ Len(u) = Len(t) + 1 /\ Len(t) \in Nat
        /\ u[Len(t) + 1] = c /\ \A n \in 1..Len(t) : u[n] = t[n]
    OBVIOUS
  <2> HIDE DEF u
  <2>2. E(u) \in Seq(Seq(A)) /\ Len(E(u)) = Len(t) + 1 /\ \A n \in 1..(Len(t) + 1) : E(u)[n] = e(u[n])
    BY <1>3, <2>1
  <2>3. E(t) \in Seq(Seq(A)) /\ Len(E(t)) = Len(t) /\ \A n \in 1..Len(t) : E(t)[n] = e(t[n])
    BY <1>3
  <2> DEFINE v == Append(E(t), e(c))
  <2>4. /\ v \in Seq(Seq(A)) /\ Len(v) = Len(t) + 1 /\ v[Len(t) + 1] = e(c)
        /\ \A n \in 1..Len(t) : v[n] = E(t)[n]
    BY <1>1, <2>3
  <2> HIDE DEF v
  <2>5. ASSUME NEW n \in 1..(Len(t) + 1) PROVE E(u)[n] = v[n]
    <3>1. CASE n = Len(t) + 1 BY <2>1, <2>2, <2>4, <3>1
    <3>2. CASE n # Len(t) + 1
      <4>1. n \in 1..Len(t) BY <2>1, <3>2
      <4>2. QED BY <2>1, <2>2, <2>3, <2>4, <4>1
    <3>3. QED BY <3>1, <3>2
  <2>6. E(u) = v BY <2>2, <2>4, <2>5, SeqEqual
  <2>7. QED BY <2>6 DEF u, v
<1>5. E(<<>>) = <<>>
  OBVIOUS
<1>6. FlattenSeq(<<>>) = <<>>
  BY DEF FlattenSeq
<1> HIDE DEF e, E
<1>7. ASSUME NEW c \in A PROVE Escaped(Append(t, c), special) = Escaped(t, special) \o e(c)
  <2>1. E(t) \in Seq(Seq(A)) /\ e(c) \in Seq(A) BY <1>1, <1>3
  <2>2. FlattenSeq(Append(E(t), e(c))) = FlattenSeq(E(t)) \o e(c) BY <2>1, FlattenEffect
  <2>3. QED BY <1>2, <1>4, <2>2
<1>8. Escaped(t, special) \in Seq(A)
  BY <1>1, <1>2, <1>3, FlattenEffect, EmptySeq
<1>9. QED BY <1>2, <1>5, <1>6, <1>7, <1>8 DEF e

-----------------------------------------------------------------------------
(* Arguments.                                                              *)

\* How far MPD has read after each character.
Reads(text, f) == f = [n \in 0..Len(text) |->
                          IF n = 0 THEN NoArgument ELSE ArgumentStep(f[n - 1], text[n])]

LEMMA ReadIs ==
    ASSUME NEW A, NEW t \in Seq(A), NEW f, Reads(t, f)
    PROVE  ReadArguments(t) = f[Len(t)]
<1>0. Len(t) \in Nat OBVIOUS
<1>1. ReadArguments(t) = (CHOOSE g : Reads(t, g))[Len(t)]
  BY DEF ReadArguments, Reads
<1>2. PICK g : Reads(t, g) /\ ReadArguments(t) = g[Len(t)]
  <2>1. Reads(t, CHOOSE g : Reads(t, g)) OBVIOUS
  <2>2. QED BY <1>1, <2>1
<1> DEFINE S == {n \in Nat : n <= Len(t) => g[n] = f[n]}
<1>3. 0 \in 0..Len(t) /\ \A n \in Nat : n + 1 <= Len(t) => n + 1 \in 0..Len(t) /\ n + 1 # 0 /\ n + 1 - 1 = n /\ n <= Len(t)
  BY <1>0
<1>4. 0 \in S
  BY <1>2, <1>3 DEF Reads
<1>5. ASSUME NEW n \in Nat, n \in S PROVE n + 1 \in S
  <2> SUFFICES ASSUME n + 1 <= Len(t) PROVE g[n + 1] = f[n + 1]
    OBVIOUS
  <2>1. g[n] = f[n] BY <1>3, <1>5
  <2>2. /\ g[n + 1] = ArgumentStep(g[n + 1 - 1], t[n + 1])
        /\ f[n + 1] = ArgumentStep(f[n + 1 - 1], t[n + 1])
    BY <1>2, <1>3 DEF Reads
  <2>3. n + 1 - 1 = n OBVIOUS
  <2>4. QED BY <2>1, <2>2, <2>3
<1> HIDE DEF S
<1>6. \A n \in Nat : n \in S BY <1>4, <1>5, NaturalsFrom
<1>7. QED BY <1>0, <1>2, <1>6 DEF S

LEMMA ReadExists ==
    ASSUME NEW A, NEW t \in Seq(A)
    PROVE  \E f : Reads(t, f)
<1> DEFINE R(k, f) == f = [n \in 0..k |-> IF n = 0 THEN NoArgument ELSE ArgumentStep(f[n - 1], t[n])]
           S == {k \in Nat : \E f : R(k, f)}
<1>1. 0 \in S
  <2>1. R(0, [n \in 0..0 |-> NoArgument]) OBVIOUS
  <2> HIDE DEF R
  <2>2. QED BY <2>1
<1>2. ASSUME NEW k \in Nat, k \in S PROVE k + 1 \in S
  <2>1. PICK f : R(k, f)
    <3> HIDE DEF R
    <3>1. QED BY <1>2
  <2> DEFINE g == [n \in 0..(k + 1) |-> IF n = k + 1 THEN ArgumentStep(f[k], t[k + 1]) ELSE f[n]]
             h(n) == IF n = 0 THEN NoArgument ELSE ArgumentStep(g[n - 1], t[n])
  <2>2. ASSUME NEW n \in 0..(k + 1) PROVE g[n] = h(n)
    <3>1. CASE n = k + 1
      <4>1. n # 0 /\ n - 1 = k /\ k \in 0..(k + 1) /\ k # k + 1 BY <3>1
      <4>2. QED BY <3>1, <4>1
    <3>2. CASE n # k + 1
      <4>1. n \in 0..k BY <3>2
      <4>2. f[n] = IF n = 0 THEN NoArgument ELSE ArgumentStep(f[n - 1], t[n]) BY <2>1, <4>1
      <4>3. n # 0 => n - 1 \in 0..(k + 1) /\ n - 1 # k + 1 BY <4>1
      <4>4. QED BY <3>2, <4>2, <4>3
    <3>3. QED BY <3>1, <3>2
  <2>3. R(k + 1, g)
    <3>1. g = [n \in 0..(k + 1) |-> g[n]] OBVIOUS
    <3> HIDE DEF g
    <3>2. QED BY <2>2, <3>1
  <2> HIDE DEF R, g
  <2>4. QED BY <2>3
<1> HIDE DEF S
<1>3. \A k \in Nat : k \in S BY <1>1, <1>2, NaturalsFrom
<1>4. Len(t) \in S BY <1>3
<1>5. QED BY <1>4 DEF S, Reads

\* MPD takes a command apart from its front to its end.
LEMMA ReadArgumentsEffect ==
    ASSUME NEW A, NEW t \in Seq(A), NEW c \in A
    PROVE  /\ ReadArguments(<<>>) = NoArgument
           /\ ReadArguments(Append(t, c)) = ArgumentStep(ReadArguments(t), c)
<1> DEFINE u == Append(t, c)
<1>1. /\ u \in Seq(A) /\ Len(u) = Len(t) + 1 /\ Len(t) \in Nat
      /\ u[Len(t) + 1] = c /\ \A n \in 1..Len(t) : u[n] = t[n]
  OBVIOUS
<1> HIDE DEF u
<1>2. PICK f : Reads(u, f) BY <1>1, ReadExists
<1> DEFINE g == [n \in 0..Len(t) |-> f[n]]
<1>3. ASSUME NEW n \in 0..Len(t)
      PROVE g[n] = IF n = 0 THEN NoArgument ELSE ArgumentStep(g[n - 1], t[n])
  <2>1. n \in 0..Len(u) /\ (n # 0 => n - 1 \in 0..Len(t) /\ n \in 1..Len(t)) BY <1>1
  <2>2. f[n] = IF n = 0 THEN NoArgument ELSE ArgumentStep(f[n - 1], u[n]) BY <1>2, <2>1 DEF Reads
  <2>3. QED BY <1>1, <2>1, <2>2
<1>4. Reads(t, g)
  <2>1. g = [n \in 0..Len(t) |-> g[n]] OBVIOUS
  <2> HIDE DEF g
  <2>2. QED BY <1>3, <2>1 DEF Reads
<1>5. g[Len(t)] = f[Len(t)] BY <1>1
<1> HIDE DEF g
<1>6. ReadArguments(t) = f[Len(t)] BY <1>4, <1>5, ReadIs
<1>7. ReadArguments(u) = f[Len(u)] BY <1>1, <1>2, ReadIs
<1>8. f[Len(u)] = ArgumentStep(f[Len(t)], c)
  <2>1. Len(u) \in 0..Len(u) /\ Len(u) # 0 /\ Len(u) - 1 = Len(t) BY <1>1
  <2>2. f[Len(u)] = ArgumentStep(f[Len(u) - 1], u[Len(u)]) BY <1>2, <2>1 DEF Reads
  <2>3. QED BY <1>1, <2>1, <2>2
<1>9. ReadArguments(<<>>) = NoArgument
  <2>1. <<>> \in Seq(A) /\ Len(<<>>) = 0 OBVIOUS
  <2>2. PICK x : Reads(<<>>, x) BY <2>1, ReadExists
  <2>3. x[0] = NoArgument BY <2>1, <2>2 DEF Reads
  <2>4. QED BY <2>1, <2>2, <2>3, ReadIs
<1>10. QED BY <1>6, <1>7, <1>8, <1>9 DEF u

\* A quoted text is read as it was, for one argument more.
LEMMA ReadsOneMore ==
    ASSUME NEW A, {Backslash, DoubleQuote, Space} \subseteq A, NEW p \in Seq(A), NEW as,
           ReadArguments(p) = [args |-> as, at |-> "between", arg |-> <<>>], NEW t \in Seq(A)
    PROVE  /\ p \o QuoteArg(t) \in Seq(A)
           /\ ReadArguments(p \o QuoteArg(t)) = [args |-> Append(as, t), at |-> "between", arg |-> <<>>]
<1> DEFINE q == Append(p, DoubleQuote)
           special == {Backslash, DoubleQuote}
           e(u) == Escaped(u, special)
           quoted(u) == [args |-> as, at |-> "quoted", arg |-> u]
           S == {u \in Seq(A) : ReadArguments(q \o e(u)) = quoted(u)}
<1>0. q \in Seq(A) /\ <<>> \in Seq(A) OBVIOUS
<1>1. <<>> \in S
  <2>1. e(<<>>) = <<>> BY <1>0, EscapedEffect
  <2>2. q \o e(<<>>) = q BY <2>1, <1>0
  <2>3. ReadArguments(q) = ArgumentStep(ReadArguments(p), DoubleQuote)
    BY ReadArgumentsEffect
  <2>4. ArgumentStep([args |-> as, at |-> "between", arg |-> <<>>], DoubleQuote) = quoted(<<>>)
    BY DEF ArgumentStep, Space, DoubleQuote
  <2>5. QED BY <1>0, <2>2, <2>3, <2>4
<1>2. ASSUME NEW u \in Seq(A), NEW c \in A, u \in S PROVE Append(u, c) \in S
  <2> DEFINE text == q \o e(u)
  <2>1. ReadArguments(text) = quoted(u) BY <1>2
  <2>2. e(u) \in Seq(A) /\ text \in Seq(A) /\ Append(u, c) \in Seq(A)
    <3>1. e(u) \in Seq(A) BY EscapedEffect
    <3> HIDE DEF e
    <3>2. QED BY <1>0, <3>1
  <2>3. e(Append(u, c)) = e(u) \o (IF c \in special THEN <<Backslash, c>> ELSE <<c>>)
    <3>1. Backslash \in A OBVIOUS
    <3> HIDE DEF special
    <3>2. QED BY <3>1, EscapedEffect
  <2> HIDE DEF e, q, quoted
  <2>4. CASE c \in special
    <3>1. e(Append(u, c)) = Append(Append(e(u), Backslash), c) BY <2>2, <2>3, <2>4, Together
    <3>2. Append(e(u), Backslash) \in Seq(A) /\ Append(text, Backslash) \in Seq(A) BY <2>2
    <3>3. q \o e(Append(u, c)) = Append(Append(text, Backslash), c)
      <4>1. q \o Append(e(u), Backslash) = Append(text, Backslash) BY <1>0, <2>2, Together
      <4>2. \A x \in Seq(A) : q \o Append(x, c) = Append(q \o x, c) BY <1>0, ConcatAppend
      <4>3. QED BY <3>1, <3>2, <4>1, <4>2
    <3> HIDE DEF text
    <3>4. ReadArguments(Append(Append(text, Backslash), c))
            = ArgumentStep(ArgumentStep(quoted(u), Backslash), c)
      BY <2>1, <2>2, <3>2, ReadArgumentsEffect
    <3>5. ArgumentStep(ArgumentStep(quoted(u), Backslash), c) = quoted(Append(u, c))
      BY DEF ArgumentStep, quoted, Backslash
    <3>6. QED BY <2>2, <3>3, <3>4, <3>5
  <2>5. CASE c \notin special
    <3>1. e(Append(u, c)) = Append(e(u), c) BY <2>2, <2>3, <2>5, Together
    <3>2. q \o e(Append(u, c)) = Append(text, c) BY <1>0, <2>2, <3>1, Together
    <3> HIDE DEF text
    <3>3. ReadArguments(Append(text, c)) = ArgumentStep(quoted(u), c)
      BY <2>1, <2>2, ReadArgumentsEffect
    <3>4. ArgumentStep(quoted(u), c) = quoted(Append(u, c))
      BY <2>5 DEF ArgumentStep, quoted
    <3>5. QED BY <2>2, <3>2, <3>3, <3>4
  <2>6. QED BY <2>4, <2>5
<1> HIDE DEF S
<1>3. \A u \in Seq(A) : u \in S BY <1>0, <1>1, <1>2, SequencesFrom
<1>4. ReadArguments(q \o e(t)) = quoted(t) BY <1>3 DEF S
<1>5. e(t) \in Seq(A) BY EscapedEffect
<1>6. QuoteArg(t) = <<DoubleQuote>> \o e(t) \o <<DoubleQuote>> BY DEF QuoteArg
<1> HIDE DEF e, quoted
<1>7. p \o QuoteArg(t) = Append(q \o e(t), DoubleQuote)
  <2>1. <<DoubleQuote>> \in Seq(A) /\ <<DoubleQuote>> \o e(t) \in Seq(A) BY <1>5
  <2>2. p \o ((<<DoubleQuote>> \o e(t)) \o <<DoubleQuote>>) = (p \o (<<DoubleQuote>> \o e(t))) \o <<DoubleQuote>>
    BY <2>1, ConcatTo
  <2>3. p \o (<<DoubleQuote>> \o e(t)) = (p \o <<DoubleQuote>>) \o e(t) BY <1>5, <2>1, ConcatTo
  <2>4. p \o <<DoubleQuote>> = q BY AppendIsConcat
  <2> HIDE DEF q
  <2>5. q \o e(t) \in Seq(A) BY <1>0, <1>5
  <2>6. (q \o e(t)) \o <<DoubleQuote>> = Append(q \o e(t), DoubleQuote) BY <2>5, AppendIsConcat
  <2>7. QED BY <1>6, <2>2, <2>3, <2>4, <2>6
<1> HIDE DEF q
<1>8. q \o e(t) \in Seq(A) BY <1>0, <1>5
<1>9. ReadArguments(Append(q \o e(t), DoubleQuote)) = ArgumentStep(quoted(t), DoubleQuote)
  BY <1>4, <1>8, ReadArgumentsEffect
<1>10. ArgumentStep(quoted(t), DoubleQuote) = [args |-> Append(as, t), at |-> "between", arg |-> <<>>]
  BY DEF ArgumentStep, quoted, Backslash, DoubleQuote
<1>11. Append(q \o e(t), DoubleQuote) \in Seq(A) BY <1>8
<1>12. QED BY <1>7, <1>9, <1>10, <1>11

\* QuoteArg: MPD takes a quoted text for one argument, whatever characters it has.
THEOREM QuotedIsOneArgument ==
    ASSUME NEW A, {Backslash, DoubleQuote, Space} \subseteq A, NEW t \in Seq(A)
    PROVE  Arguments(<<Space>> \o QuoteArg(t)) = <<t>>
<1>1. ReadArguments(<<Space>>) = [args |-> <<>>, at |-> "between", arg |-> <<>>]
  <2>1. <<>> \in Seq(A) /\ Append(<<>>, Space) = <<Space>> OBVIOUS
  <2>2. ReadArguments(Append(<<>>, Space)) = ArgumentStep(NoArgument, Space)
    BY <2>1, ReadArgumentsEffect
  <2>3. QED BY <2>1, <2>2 DEF ArgumentStep, NoArgument
<1>2. <<Space>> \in Seq(A) /\ Append(<<>>, t) = <<t>> OBVIOUS
<1>3. ReadArguments(<<Space>> \o QuoteArg(t)) = [args |-> <<t>>, at |-> "between", arg |-> <<>>]
  <2> DEFINE p == <<Space>>
             none == <<>>
  <2> HIDE DEF p, none
  <2>1. p \in Seq(A) /\ ReadArguments(p) = [args |-> none, at |-> "between", arg |-> <<>>]
    BY <1>1, <1>2 DEF p, none
  <2>2. ReadArguments(p \o QuoteArg(t)) = [args |-> Append(none, t), at |-> "between", arg |-> <<>>]
    BY <2>1, ReadsOneMore
  <2>3. Append(none, t) = <<t>> BY <1>2 DEF none
  <2>4. QED BY <2>2, <2>3 DEF p
<1>4. QED BY <1>3 DEF Arguments

-----------------------------------------------------------------------------
(* Filters.                                                                *)

\* How far MPD has read a filter after each character.
ReadsClauses(text, f) == f = [n \in 0..Len(text) |->
                          IF n = 0 THEN NoClause ELSE ClauseStep(f[n - 1], text[n])]

LEMMA ReadClausesIs ==
    ASSUME NEW A, NEW t \in Seq(A), NEW f, ReadsClauses(t, f)
    PROVE  ReadClauses(t) = f[Len(t)]
<1>0. Len(t) \in Nat OBVIOUS
<1>1. ReadClauses(t) = (CHOOSE g : ReadsClauses(t, g))[Len(t)]
  BY DEF ReadClauses, ReadsClauses
<1>2. PICK g : ReadsClauses(t, g) /\ ReadClauses(t) = g[Len(t)]
  <2>1. ReadsClauses(t, CHOOSE g : ReadsClauses(t, g)) OBVIOUS
  <2>2. QED BY <1>1, <2>1
<1> DEFINE S == {n \in Nat : n <= Len(t) => g[n] = f[n]}
<1>3. 0 \in 0..Len(t) /\ \A n \in Nat : n + 1 <= Len(t) => n + 1 \in 0..Len(t) /\ n + 1 # 0 /\ n + 1 - 1 = n /\ n <= Len(t)
  BY <1>0
<1>4. 0 \in S
  BY <1>2, <1>3 DEF ReadsClauses
<1>5. ASSUME NEW n \in Nat, n \in S PROVE n + 1 \in S
  <2> SUFFICES ASSUME n + 1 <= Len(t) PROVE g[n + 1] = f[n + 1]
    OBVIOUS
  <2>1. g[n] = f[n] BY <1>3, <1>5
  <2>2. /\ g[n + 1] = ClauseStep(g[n + 1 - 1], t[n + 1])
        /\ f[n + 1] = ClauseStep(f[n + 1 - 1], t[n + 1])
    BY <1>2, <1>3 DEF ReadsClauses
  <2>3. n + 1 - 1 = n OBVIOUS
  <2>4. QED BY <2>1, <2>2, <2>3
<1> HIDE DEF S
<1>6. \A n \in Nat : n \in S BY <1>4, <1>5, NaturalsFrom
<1>7. QED BY <1>0, <1>2, <1>6 DEF S

LEMMA ReadClausesExist ==
    ASSUME NEW A, NEW t \in Seq(A)
    PROVE  \E f : ReadsClauses(t, f)
<1> DEFINE R(k, f) == f = [n \in 0..k |-> IF n = 0 THEN NoClause ELSE ClauseStep(f[n - 1], t[n])]
           S == {k \in Nat : \E f : R(k, f)}
<1>1. 0 \in S
  <2>1. R(0, [n \in 0..0 |-> NoClause]) OBVIOUS
  <2> HIDE DEF R
  <2>2. QED BY <2>1
<1>2. ASSUME NEW k \in Nat, k \in S PROVE k + 1 \in S
  <2>1. PICK f : R(k, f)
    <3> HIDE DEF R
    <3>1. QED BY <1>2
  <2> DEFINE g == [n \in 0..(k + 1) |-> IF n = k + 1 THEN ClauseStep(f[k], t[k + 1]) ELSE f[n]]
             h(n) == IF n = 0 THEN NoClause ELSE ClauseStep(g[n - 1], t[n])
  <2>2. ASSUME NEW n \in 0..(k + 1) PROVE g[n] = h(n)
    <3>1. CASE n = k + 1
      <4>1. n # 0 /\ n - 1 = k /\ k \in 0..(k + 1) /\ k # k + 1 BY <3>1
      <4>2. QED BY <3>1, <4>1
    <3>2. CASE n # k + 1
      <4>1. n \in 0..k BY <3>2
      <4>2. f[n] = IF n = 0 THEN NoClause ELSE ClauseStep(f[n - 1], t[n]) BY <2>1, <4>1
      <4>3. n # 0 => n - 1 \in 0..(k + 1) /\ n - 1 # k + 1 BY <4>1
      <4>4. QED BY <3>2, <4>2, <4>3
    <3>3. QED BY <3>1, <3>2
  <2>3. R(k + 1, g)
    <3>1. g = [n \in 0..(k + 1) |-> g[n]] OBVIOUS
    <3> HIDE DEF g
    <3>2. QED BY <2>2, <3>1
  <2> HIDE DEF R, g
  <2>4. QED BY <2>3
<1> HIDE DEF S
<1>3. \A k \in Nat : k \in S BY <1>1, <1>2, NaturalsFrom
<1>4. Len(t) \in S BY <1>3
<1>5. QED BY <1>4 DEF S, ReadsClauses

\* MPD takes a filter apart from its front to its end.
LEMMA ReadClausesEffect ==
    ASSUME NEW A, NEW t \in Seq(A), NEW c \in A
    PROVE  /\ ReadClauses(<<>>) = NoClause
           /\ ReadClauses(Append(t, c)) = ClauseStep(ReadClauses(t), c)
<1> DEFINE u == Append(t, c)
<1>1. /\ u \in Seq(A) /\ Len(u) = Len(t) + 1 /\ Len(t) \in Nat
      /\ u[Len(t) + 1] = c /\ \A n \in 1..Len(t) : u[n] = t[n]
  OBVIOUS
<1> HIDE DEF u
<1>2. PICK f : ReadsClauses(u, f) BY <1>1, ReadClausesExist
<1> DEFINE g == [n \in 0..Len(t) |-> f[n]]
<1>3. ASSUME NEW n \in 0..Len(t)
      PROVE g[n] = IF n = 0 THEN NoClause ELSE ClauseStep(g[n - 1], t[n])
  <2>1. n \in 0..Len(u) /\ (n # 0 => n - 1 \in 0..Len(t) /\ n \in 1..Len(t)) BY <1>1
  <2>2. f[n] = IF n = 0 THEN NoClause ELSE ClauseStep(f[n - 1], u[n]) BY <1>2, <2>1 DEF ReadsClauses
  <2>3. QED BY <1>1, <2>1, <2>2
<1>4. ReadsClauses(t, g)
  <2>1. g = [n \in 0..Len(t) |-> g[n]] OBVIOUS
  <2> HIDE DEF g
  <2>2. QED BY <1>3, <2>1 DEF ReadsClauses
<1>5. g[Len(t)] = f[Len(t)] BY <1>1
<1> HIDE DEF g
<1>6. ReadClauses(t) = f[Len(t)] BY <1>4, <1>5, ReadClausesIs
<1>7. ReadClauses(u) = f[Len(u)] BY <1>1, <1>2, ReadClausesIs
<1>8. f[Len(u)] = ClauseStep(f[Len(t)], c)
  <2>1. Len(u) \in 0..Len(u) /\ Len(u) # 0 /\ Len(u) - 1 = Len(t) BY <1>1
  <2>2. f[Len(u)] = ClauseStep(f[Len(u) - 1], u[Len(u)]) BY <1>2, <2>1 DEF ReadsClauses
  <2>3. QED BY <1>1, <2>1, <2>2
<1>9. ReadClauses(<<>>) = NoClause
  <2>1. <<>> \in Seq(A) /\ Len(<<>>) = 0 OBVIOUS
  <2>2. PICK x : ReadsClauses(<<>>, x) BY <2>1, ReadClausesExist
  <2>3. x[0] = NoClause BY <2>1, <2>2 DEF ReadsClauses
  <2>4. QED BY <2>1, <2>2, <2>3, ReadClausesIs
<1>10. QED BY <1>6, <1>7, <1>8, <1>9 DEF u

\* A reader of a filter inside a value, of which it has read u.
Inside(w, tag, op, cs, u) ==
    [at |-> "value", wrapped |-> w, tag |-> tag, op |-> op, value |-> u, clauses |-> cs]

\* From within the apostrophes, what has been escaped is read as it was.
LEMMA ReadsValue ==
    ASSUME NEW A, {Backslash, Apostrophe} \subseteq A, NEW p \in Seq(A),
           NEW w, NEW tag, NEW op, NEW cs,
           ReadClauses(p) = Inside(w, tag, op, cs, <<>>),
           NEW t \in Seq(A)
    PROVE  ReadClauses(p \o EscapeFilterValue(t)) = Inside(w, tag, op, cs, t)
<1> DEFINE special == {Backslash, Apostrophe}
           e(u) == Escaped(u, special)
           read(u) == Inside(w, tag, op, cs, u)
           S == {u \in Seq(A) : ReadClauses(p \o e(u)) = read(u)}
<1>0. <<>> \in Seq(A) /\ Backslash \in A OBVIOUS
<1>1. <<>> \in S
  <2>1. e(<<>>) = <<>> BY <1>0, EscapedEffect
  <2>2. p \o <<>> = p OBVIOUS
  <2>3. QED BY <1>0, <2>1, <2>2
<1>2. ASSUME NEW u \in Seq(A), NEW c \in A, u \in S PROVE Append(u, c) \in S
  <2> DEFINE text == p \o e(u)
  <2> HIDE DEF special
  <2>1. ReadClauses(text) = read(u) BY <1>2
  <2>2. e(u) \in Seq(A) /\ text \in Seq(A) /\ Append(u, c) \in Seq(A)
    <3>1. e(u) \in Seq(A) BY <1>0, EscapedEffect
    <3> HIDE DEF e
    <3>2. QED BY <3>1
  <2>3. e(Append(u, c)) = e(u) \o (IF c \in special THEN <<Backslash, c>> ELSE <<c>>)
    BY <1>0, EscapedEffect
  <2> HIDE DEF e, read
  <2>4. CASE c \in special
    <3>1. e(Append(u, c)) = Append(Append(e(u), Backslash), c) BY <1>0, <2>2, <2>3, <2>4, Together
    <3>2. Append(e(u), Backslash) \in Seq(A) /\ Append(text, Backslash) \in Seq(A) BY <1>0, <2>2
    <3>3. p \o e(Append(u, c)) = Append(Append(text, Backslash), c)
      <4>1. p \o Append(e(u), Backslash) = Append(text, Backslash) BY <1>0, <2>2, ConcatAppend
      <4>2. p \o Append(Append(e(u), Backslash), c) = Append(p \o Append(e(u), Backslash), c)
        BY <1>0, <3>2, ConcatAppend
      <4>3. QED BY <3>1, <4>1, <4>2
    <3> HIDE DEF text
    <3>4. ReadClauses(Append(Append(text, Backslash), c)) = ClauseStep(ClauseStep(read(u), Backslash), c)
      BY <1>0, <2>1, <2>2, <3>2, ReadClausesEffect
    <3>5. ClauseStep(read(u), Backslash) = [read(u) EXCEPT !.at = "escaped"]
      BY DEF ClauseStep, read, Inside
    <3>6. ClauseStep([read(u) EXCEPT !.at = "escaped"], c) = read(Append(u, c))
      BY DEF ClauseStep, read, Inside
    <3>7. QED BY <2>2, <3>3, <3>4, <3>5, <3>6
  <2>5. CASE c \notin special
    <3>1. e(Append(u, c)) = Append(e(u), c) BY <2>2, <2>3, <2>5, Together
    <3>2. p \o e(Append(u, c)) = Append(text, c) BY <2>2, <3>1, ConcatAppend
    <3> HIDE DEF text
    <3>3. ReadClauses(Append(text, c)) = ClauseStep(read(u), c)
      BY <2>1, <2>2, ReadClausesEffect
    <3>4. ClauseStep(read(u), c) = read(Append(u, c))
      BY <2>5 DEF ClauseStep, read, Inside, special
    <3>5. QED BY <2>2, <3>2, <3>3, <3>4
  <2>6. QED BY <2>4, <2>5
<1> HIDE DEF S
<1>3. \A u \in Seq(A) : u \in S BY <1>0, <1>1, <1>2, SequencesFrom
<1>4. QED BY <1>3 DEF S, EscapeFilterValue

\* What the characters of a filter are among.
Alphabet(A) == {Backslash, Apostrophe, Space, "(", ")"} \subseteq A

\* What of a clause comes before its value.
Opened(p, tag, op) ==
    Append(Append(Append(Append(Append(Append(p, "("), tag), Space), op), Space), Apostrophe)

\* A text and a clause behind it.
WithClause(p, tag, op, x) ==
    Append(Append(Opened(p, tag, op) \o EscapeFilterValue(x), Apostrophe), ")")

LEMMA ClauseType ==
    ASSUME NEW A, Alphabet(A),
           NEW p \in Seq(A), NEW b \in A, NEW d \in A, NEW x \in Seq(A)
    PROVE  /\ Opened(p, b, d) \in Seq(A) /\ EscapeFilterValue(x) \in Seq(A)
           /\ Opened(p, b, d) \o EscapeFilterValue(x) \in Seq(A)
           /\ FilterClause(b, d, x) \in Seq(A)
<1>1. "(" \in A /\ ")" \in A /\ Space \in A /\ Apostrophe \in A /\ Backslash \in A
  BY DEF Alphabet
<1>2. EscapeFilterValue(x) \in Seq(A)
  BY <1>1, EscapedEffect DEF EscapeFilterValue
<1>3. Opened(p, b, d) \in Seq(A)
  BY <1>1 DEF Opened
<1>4. <<"(", b, Space, d, Space, Apostrophe>> \in Seq(A) /\ <<Apostrophe, ")">> \in Seq(A)
  BY <1>1
<1>5. QED BY <1>2, <1>3, <1>4 DEF FilterClause

\* A text before a clause, spelled out.
LEMMA Spelled ==
    ASSUME NEW A, Alphabet(A),
           NEW p \in Seq(A), NEW b \in A, NEW d \in A, NEW x \in Seq(A)
    PROVE  p \o FilterClause(b, d, x) = WithClause(p, b, d, x)
<1> DEFINE t == EscapeFilterValue(x)
<1>0. "(" \in A /\ ")" \in A /\ Space \in A /\ Apostrophe \in A /\ Backslash \in A
  BY DEF Alphabet
<1>00. t \in Seq(A)
  BY <1>0, EscapedEffect DEF EscapeFilterValue
<1> HIDE DEF t
<1> DEFINE s == Append(Append(Append(Append(Append(Append(p, "("), b), Space), d), Space), Apostrophe)
           u == <<"(", b, Space, d, Space, Apostrophe>>
<1>1. s \in Seq(A) /\ u \in Seq(A) /\ <<Apostrophe>> \in Seq(A) /\ <<")">> \in Seq(A)
  BY <1>0
<1>2. p \o u = s
  <2>1. /\ <<"(">> \in Seq(A) /\ <<"(", b>> \in Seq(A) /\ <<"(", b, Space>> \in Seq(A)
        /\ <<"(", b, Space, d>> \in Seq(A) /\ <<"(", b, Space, d, Space>> \in Seq(A)
    BY <1>0
  <2>2. p \o <<"(">> = Append(p, "(") BY Together
  <2>3. p \o <<"(", b>> = Append(Append(p, "("), b)
    <3>1. <<"(", b>> = Append(<<"(">>, b) OBVIOUS
    <3>2. QED BY <2>1, <2>2, <3>1, ConcatAppend
  <2>4. p \o <<"(", b, Space>> = Append(Append(Append(p, "("), b), Space)
    <3>1. <<"(", b, Space>> = Append(<<"(", b>>, Space) OBVIOUS
    <3>2. QED BY <2>1, <2>3, <3>1, ConcatAppend
  <2>5. p \o <<"(", b, Space, d>> = Append(Append(Append(Append(p, "("), b), Space), d)
    <3>1. <<"(", b, Space, d>> = Append(<<"(", b, Space>>, d) OBVIOUS
    <3>2. QED BY <2>1, <2>4, <3>1, ConcatAppend
  <2>6. p \o <<"(", b, Space, d, Space>> = Append(Append(Append(Append(Append(p, "("), b), Space), d), Space)
    <3>1. <<"(", b, Space, d, Space>> = Append(<<"(", b, Space, d>>, Space) OBVIOUS
    <3>2. QED BY <2>1, <2>5, <3>1, ConcatAppend, SMTT(30)
  <2>7. <<"(", b, Space, d, Space, Apostrophe>> = Append(<<"(", b, Space, d, Space>>, Apostrophe) OBVIOUS
  <2>8. p \o Append(<<"(", b, Space, d, Space>>, Apostrophe) = Append(p \o <<"(", b, Space, d, Space>>, Apostrophe)
    BY <2>1, ConcatAppend
  <2>9. QED BY <2>6, <2>7, <2>8
<1> HIDE DEF s, u
<1>3. u \o t \in Seq(A) /\ s \o t \in Seq(A) BY <1>00, <1>1
<1>4. (u \o t) \o <<Apostrophe, ")">> = Append(Append(u \o t, Apostrophe), ")") BY <1>0, <1>3, Together
<1>5. Append(u \o t, Apostrophe) \in Seq(A) /\ Append(Append(u \o t, Apostrophe), ")") \in Seq(A) BY <1>0, <1>3
<1>6. p \o Append(Append(u \o t, Apostrophe), ")") = Append(p \o Append(u \o t, Apostrophe), ")") BY <1>5, ConcatAppend
<1>7. p \o Append(u \o t, Apostrophe) = Append(p \o (u \o t), Apostrophe) BY <1>3, ConcatAppend
<1>8. p \o (u \o t) = s \o t
  <2>1. (p \o u) \o t = p \o (u \o t) BY <1>00, <1>1, ConcatTo, SMTT(30)
  <2>2. QED BY <1>2, <2>1
<1>9. (u \o t) \o <<Apostrophe, ")">> \in Seq(A) /\ p \o ((u \o t) \o <<Apostrophe, ")">>) = Append(Append(s \o t, Apostrophe), ")")
  BY <1>4, <1>5, <1>6, <1>7, <1>8
<1>10. <<"(", b, Space, d, Space, Apostrophe>> \o t \o <<Apostrophe, ")">> = (u \o t) \o <<Apostrophe, ")">>
  BY DEF u
<1>11. Opened(p, b, d) = s
  BY DEF s, Opened
<1>12. FilterClause(b, d, x) = <<"(", b, Space, d, Space, Apostrophe>> \o t \o <<Apostrophe, ")">>
  BY DEF FilterClause, t
<1>13. QED BY <1>00, <1>3, <1>1, <1>9, <1>10, <1>11, <1>12 DEF t, WithClause

\* A reader of a filter that is not inside a value.
State(at, w, tag, op, cs) ==
    [at |-> at, wrapped |-> w, tag |-> tag, op |-> op, value |-> <<>>, clauses |-> cs]
NoName == ""
None == <<>>
Alone == FALSE
Wrapped == TRUE

\* Where it is after a clause.
Behind(w) == IF w THEN "next" ELSE "end"
Clause(tag, op, t) == [tag |-> tag, op |-> op, value |-> t]

\* A clause is read as it was built.
LEMMA ReadsClause ==
    ASSUME NEW A, Alphabet(A), NEW p \in Seq(A),
           NEW tag \in A, tag # "(", NEW op \in A, NEW t \in Seq(A),
           NEW at \in {"first", "tag"}, NEW w \in {Alone, Wrapped}, NEW tag0, NEW op0, NEW cs,
           ReadClauses(Append(p, "(")) = State(at, w, tag0, op0, cs)
    PROVE  ReadClauses(p \o FilterClause(tag, op, t))
                = State(Behind(w), w, tag, op, Append(cs, Clause(tag, op, t)))
<1> DEFINE v == EscapeFilterValue(t)
           p1 == Append(p, "(")
           p2 == Append(p1, tag)
           p3 == Append(p2, Space)
           p4 == Append(p3, op)
           p5 == Append(p4, Space)
           p6 == Append(p5, Apostrophe)
           state(x, g, o, u, c) == [at |-> x, wrapped |-> w, tag |-> g, op |-> o, value |-> u, clauses |-> c]
<1>0. /\ Backslash \in A /\ Apostrophe \in A /\ Space \in A /\ "(" \in A /\ ")" \in A
      /\ v \in Seq(A)
  <2>1. Backslash \in A BY DEF Alphabet
  <2>2. v \in Seq(A) BY <2>1, EscapedEffect DEF EscapeFilterValue
  <2> HIDE DEF v
  <2>3. QED BY <2>2 DEF Alphabet
<1> HIDE DEF v
<1>1. /\ p6 \in Seq(A) /\ p6 \o v \in Seq(A)
      /\ FilterClause(tag, op, t) \in Seq(A)
      /\ p \o FilterClause(tag, op, t) = Append(Append(p6 \o v, Apostrophe), ")")
  <2>1. p6 = Opened(p, tag, op) BY DEF Opened
  <2> HIDE DEF p6
  <2> HIDE DEF p1, p2, p3, p4, p5
  <2>2. p \o FilterClause(tag, op, t) = WithClause(p, tag, op, t)
    BY Spelled
  <2>3. /\ Opened(p, tag, op) \in Seq(A)
        /\ Opened(p, tag, op) \o EscapeFilterValue(t) \in Seq(A)
        /\ FilterClause(tag, op, t) \in Seq(A)
    BY ClauseType
  <2>4. QED BY <2>1, <2>2, <2>3 DEF v, WithClause
<1>2. p1 \in Seq(A) /\ p2 \in Seq(A) /\ p3 \in Seq(A) /\ p4 \in Seq(A) /\ p5 \in Seq(A)
  BY <1>0
<1> HIDE DEF p1, p2, p3, p4, p5, p6
<1>3. ReadClauses(p2) = state("before op", tag, op0, <<>>, cs)
  <2>1. ReadClauses(p2) = ClauseStep(state(at, tag0, op0, <<>>, cs), tag)
    BY <1>2, ReadClausesEffect DEF p2, p1, State
  <2>2. QED BY <2>1 DEF ClauseStep
<1>4. ReadClauses(p3) = state("op", tag, op0, <<>>, cs)
  <2>1. ReadClauses(p3) = ClauseStep(state("before op", tag, op0, <<>>, cs), Space)
    BY <1>0, <1>2, <1>3, ReadClausesEffect DEF p3
  <2>2. QED BY <2>1 DEF ClauseStep
<1>5. ReadClauses(p4) = state("before value", tag, op, <<>>, cs)
  <2>1. ReadClauses(p4) = ClauseStep(state("op", tag, op0, <<>>, cs), op)
    BY <1>2, <1>4, ReadClausesEffect DEF p4
  <2>2. QED BY <2>1 DEF ClauseStep
<1>6. ReadClauses(p5) = state("quote", tag, op, <<>>, cs)
  <2>1. ReadClauses(p5) = ClauseStep(state("before value", tag, op, <<>>, cs), Space)
    BY <1>0, <1>2, <1>5, ReadClausesEffect DEF p5
  <2>2. QED BY <2>1 DEF ClauseStep
<1>7. ReadClauses(p6) = state("value", tag, op, <<>>, cs)
  <2>1. ReadClauses(p6) = ClauseStep(state("quote", tag, op, <<>>, cs), Apostrophe)
    BY <1>0, <1>2, <1>6, ReadClausesEffect DEF p6
  <2>2. QED BY <2>1 DEF ClauseStep
<1>8. ReadClauses(p6 \o v) = state("value", tag, op, t, cs)
  <2>1. ReadClauses(p6) = Inside(w, tag, op, cs, <<>>) BY <1>7 DEF Inside
  <2>2. {Backslash, Apostrophe} \subseteq A /\ p6 \in Seq(A) BY <1>0, <1>1
  <2>3. ReadClauses(p6 \o EscapeFilterValue(t)) = Inside(w, tag, op, cs, t)
    BY <2>1, <2>2, ReadsValue
  <2>4. QED BY <2>3 DEF v, Inside
<1> DEFINE q == p6 \o v
           q1 == Append(q, Apostrophe)
<1>9. q \in Seq(A) /\ q1 \in Seq(A)
  <2>1. q \in Seq(A) BY <1>1
  <2> HIDE DEF q
  <2>2. QED BY <1>0, <2>1
<1>10. ReadClauses(q) = state("value", tag, op, t, cs) BY <1>8
<1> HIDE DEF q
<1>11. ReadClauses(q1) = state("close", tag, op, t, cs)
  <2>1. ReadClauses(q1) = ClauseStep(state("value", tag, op, t, cs), Apostrophe)
    BY <1>0, <1>9, <1>10, ReadClausesEffect DEF q1
  <2>2. QED BY <2>1 DEF ClauseStep, Backslash, Apostrophe
<1>12. ReadClauses(Append(q1, ")"))
         = state(IF w THEN "next" ELSE "end", tag, op, <<>>,
                 Append(cs, [tag |-> tag, op |-> op, value |-> t]))
  <2> HIDE DEF q1
  <2>1. ReadClauses(Append(q1, ")")) = ClauseStep(state("close", tag, op, t, cs), ")")
    BY <1>0, <1>9, <1>11, ReadClausesEffect
  <2>2. QED BY <2>1 DEF ClauseStep
<1>13. QED BY <1>1, <1>12 DEF q, q1, State, Behind, Clause

\* build_search_filters: MPD reads a filter of one clause as that clause, whatever the
\* value it asks for.
THEOREM OneClauseRead ==
    ASSUME NEW A, Alphabet(A), NEW tag \in A, tag # "(", NEW op \in A, NEW t \in Seq(A)
    PROVE  Clauses(FilterClause(tag, op, t)) = << [tag |-> tag, op |-> op, value |-> t] >>
<1> DEFINE p == <<>>
<1>1. "(" \in A /\ p \in Seq(A) BY DEF Alphabet
<1>2. ReadClauses(Append(p, "(")) = State("first", Alone, NoName, NoName, None)
  <2>1. ReadClauses(p) = NoClause BY <1>1, ReadClausesEffect
  <2> HIDE DEF p
  <2>2. ReadClauses(Append(p, "(")) = ClauseStep(NoClause, "(")
    BY <1>1, <2>1, ReadClausesEffect
  <2>3. QED BY <2>2 DEF ClauseStep, NoClause, State, Alone, NoName, None
<1>3. p \o FilterClause(tag, op, t) = FilterClause(tag, op, t)
  BY <1>1, ClauseType
<1> HIDE DEF p
<1>4. ReadClauses(p \o FilterClause(tag, op, t))
        = State(Behind(Alone), Alone, tag, op, Append(None, Clause(tag, op, t)))
  BY <1>1, <1>2, ReadsClause
<1>5. Append(None, [tag |-> tag, op |-> op, value |-> t]) = << [tag |-> tag, op |-> op, value |-> t] >>
  BY DEF None
<1>6. QED BY <1>3, <1>4, <1>5 DEF Clauses, State, Behind, Alone, Wrapped, Clause

\* The filter of two clauses.
BothOf(c, d) == <<"(">> \o (c \o (<<Space, "AND", Space>> \o d)) \o <<")">>

\* And a filter of two as those two, in their order.
THEOREM TwoClausesRead ==
    ASSUME NEW A, Alphabet(A), "AND" \in A, NEW tag \in A, tag # "(", NEW tag2 \in A, tag2 # "(",
           NEW op \in A, NEW t \in Seq(A), NEW t2 \in Seq(A)
    PROVE  Clauses(BothOf(FilterClause(tag, op, t), FilterClause(tag2, op, t2)))
             = << [tag |-> tag, op |-> op, value |-> t], [tag |-> tag2, op |-> op, value |-> t2] >>
<1> DEFINE c == FilterClause(tag, op, t)
           d == FilterClause(tag2, op, t2)
           k == Clause(tag, op, t)
           l == Clause(tag2, op, t2)
           p == Append(<<>>, "(")
           q == p \o c
           q1 == Append(q, Space)
           q2 == Append(q1, "AND")
           q3 == Append(q2, Space)
           r == q3 \o d
<1>1. "(" \in A /\ ")" \in A /\ Space \in A /\ <<>> \in Seq(A) BY DEF Alphabet
<1>2. c \in Seq(A) /\ d \in Seq(A) BY <1>1, ClauseType
<1> HIDE DEF c, d
<1>3. p \in Seq(A) BY <1>1
<1> HIDE DEF p
<1>4. q \in Seq(A) BY <1>2, <1>3
<1> HIDE DEF q
<1>5. q1 \in Seq(A) /\ q2 \in Seq(A) /\ q3 \in Seq(A) BY <1>1, <1>4
<1>6. q3 = q \o <<Space, "AND", Space>>
  <2>1. q \o <<Space, "AND">> = q2 BY <1>1, <1>4, Together
  <2>2. <<Space, "AND", Space>> = Append(<<Space, "AND">>, Space) /\ <<Space, "AND">> \in Seq(A)
    BY <1>1
  <2>3. q \o Append(<<Space, "AND">>, Space) = Append(q \o <<Space, "AND">>, Space)
    BY <1>1, <1>4, <2>2, ConcatAppend
  <2>4. QED BY <2>1, <2>2, <2>3
<1> HIDE DEF q1, q2, q3
<1>7. r \in Seq(A) BY <1>2, <1>5
<1> HIDE DEF r
<1>8. BothOf(c, d) = Append(r, ")")
  <2>1. <<Space, "AND", Space>> \in Seq(A) BY <1>1
  <2>2. p = <<"(">> BY DEF p
  <2> DEFINE s == <<Space, "AND", Space>>
  <2> HIDE DEF s
  <2>3. s \in Seq(A) BY <2>1 DEF s
  <2>7. p \o (c \o (s \o d)) = r
    <3>1. p \o (c \o (s \o d)) = ((p \o c) \o s) \o d
      <4> HIDE DEF q, r
      <4>1. \A x \in Seq(A) : x \o (s \o d) = (x \o s) \o d BY <1>2, <2>3, ConcatTo
      <4>2. \A x \in Seq(A) : p \o (c \o x) = (p \o c) \o x
        <5>1. p \in Seq(A) /\ c \in Seq(A) BY <1>2, <1>3
        <5>2. QED BY ONLY <5>1, ConcatFrom, SMTT(30)
      <4>3. p \o c \in Seq(A) /\ s \o d \in Seq(A) BY <1>2, <1>3, <2>3
      <4>4. (p \o c) \o (s \o d) = ((p \o c) \o s) \o d BY ONLY <4>1, <4>3
      <4>5. p \o (c \o (s \o d)) = (p \o c) \o (s \o d) BY ONLY <4>2, <4>3
      <4>6. QED BY <4>4, <4>5
    <3>2. QED BY <1>6, <3>1 DEF q, r, s
  <2>8. BothOf(c, d) = r \o <<")">> BY <2>2, <2>7 DEF BothOf, s
  <2>9. r \o <<")">> = Append(r, ")") BY <1>7, AppendIsConcat
  <2>10. QED BY <2>8, <2>9
<1>9. ReadClauses(p) = State("first", Alone, NoName, NoName, None)
  <2>1. ReadClauses(p) = ClauseStep(NoClause, "(")
    BY <1>1, ReadClausesEffect DEF p
  <2>2. QED BY <2>1 DEF ClauseStep, NoClause, State, Alone, NoName, None
<1>10. ReadClauses(Append(p, "(")) = State("tag", Wrapped, NoName, NoName, None)
  <2>1. ReadClauses(Append(p, "(")) = ClauseStep(State("first", Alone, NoName, NoName, None), "(")
    BY <1>1, <1>3, <1>9, ReadClausesEffect
  <2>2. QED BY <2>1 DEF ClauseStep, State, Alone, NoName, None, Wrapped
<1>11. ReadClauses(q) = State("next", Wrapped, tag, op, Append(None, k))
  <2>1. ReadClauses(p \o FilterClause(tag, op, t)) = State(Behind(Wrapped), Wrapped, tag, op, Append(None, k))
    BY <1>3, <1>10, ReadsClause
  <2>2. QED BY <2>1 DEF q, c, Behind, Alone, Wrapped
<1> DEFINE ks == Append(None, k)
<1> HIDE DEF ks, k, l
<1>12. ReadClauses(q1) = State("and", Wrapped, tag, op, ks)
  <2>1. ReadClauses(q1) = ClauseStep(State("next", Wrapped, tag, op, ks), Space)
    BY <1>1, <1>4, <1>11, ReadClausesEffect DEF q1, ks
  <2>2. QED BY <2>1 DEF ClauseStep, State, Alone, NoName, None, Wrapped, Space
<1>13. ReadClauses(q2) = State("after and", Wrapped, tag, op, ks)
  <2>1. ReadClauses(q2) = ClauseStep(State("and", Wrapped, tag, op, ks), "AND")
    BY <1>5, <1>12, ReadClausesEffect DEF q2
  <2>2. QED BY <2>1 DEF ClauseStep, State, Alone, NoName, None, Wrapped
<1>14. ReadClauses(q3) = State("again", Wrapped, tag, op, ks)
  <2>1. ReadClauses(q3) = ClauseStep(State("after and", Wrapped, tag, op, ks), Space)
    BY <1>1, <1>5, <1>13, ReadClausesEffect DEF q3
  <2>2. QED BY <2>1 DEF ClauseStep, State, Alone, NoName, None, Wrapped
<1>15. ReadClauses(Append(q3, "(")) = State("tag", Wrapped, tag, op, ks)
  <2>1. ReadClauses(Append(q3, "(")) = ClauseStep(State("again", Wrapped, tag, op, ks), "(")
    BY <1>1, <1>5, <1>14, ReadClausesEffect
  <2>2. QED BY <2>1 DEF ClauseStep, State, Alone, NoName, None, Wrapped
<1>16. ReadClauses(r) = State("next", Wrapped, tag2, op, Append(ks, l))
  <2>1. ReadClauses(q3 \o FilterClause(tag2, op, t2)) = State(Behind(Wrapped), Wrapped, tag2, op, Append(ks, l))
    BY <1>5, <1>15, ReadsClause DEF l
  <2>2. QED BY <2>1 DEF r, d, Behind, Alone, Wrapped
<1>17. ReadClauses(Append(r, ")")) = State("end", Wrapped, tag2, op, Append(ks, l))
  <2>1. ReadClauses(Append(r, ")")) = ClauseStep(State("next", Wrapped, tag2, op, Append(ks, l)), ")")
    BY <1>1, <1>7, <1>16, ReadClausesEffect
  <2>2. QED BY <2>1 DEF ClauseStep, State, Alone, NoName, None, Wrapped
<1>18. Append(ks, l) = <<k, l>>
  <2>1. ks = <<k>> BY DEF ks, None
  <2>2. Append(<<k>>, l) = <<k, l>>
    <3>1. \A x, y : Append(<<x>>, y) = <<x, y>>
      <4> TAKE x, y
      <4>1. <<x, y>> = Append(<<x>>, y) OBVIOUS
      <4>2. QED BY <4>1
    <3>2. QED BY <3>1
  <2>3. QED BY <2>1, <2>2
<1>19. Clauses(BothOf(c, d)) = <<k, l>> BY <1>8, <1>17, <1>18 DEF Clauses, State
<1>20. QED BY <1>19 DEF c, d, k, l, Clause

-----------------------------------------------------------------------------
(* The filters, commands and counts of the requests.                       *)

LEMMA ClauseIsSomething ==
    ASSUME NEW A, Alphabet(A), NEW tag \in A, NEW op \in A, NEW t \in Seq(A)
    PROVE  FilterClause(tag, op, t) # <<>>
<1>1. <<>> \in Seq(A) OBVIOUS
<1>2. <<>> \o FilterClause(tag, op, t) = WithClause(<<>>, tag, op, t) BY <1>1, Spelled
<1>3. FilterClause(tag, op, t) \in Seq(A) BY <1>1, ClauseType
<1>4. <<>> \o FilterClause(tag, op, t) = FilterClause(tag, op, t) BY <1>3
<1> DEFINE s == Opened(<<>>, tag, op) \o EscapeFilterValue(t)
<1>5. s \in Seq(A) /\ Apostrophe \in A BY <1>1, ClauseType DEF Alphabet
<1>6. FilterClause(tag, op, t) = Append(Append(s, Apostrophe), ")") BY <1>2, <1>4 DEF WithClause
<1> HIDE DEF s
<1>7. Append(s, Apostrophe) \in Seq(A) BY <1>5
<1>8. Append(Append(s, Apostrophe), ")") # <<>> BY <1>7
<1>9. QED BY <1>6, <1>8

\* Pairs without a value leave nothing.
LEMMA NoFilter ==
    ASSUME NEW tag, NEW tag2, NEW op
    PROVE  /\ BuildSearchFilters(<< <<tag, <<>> >> >>, op) = <<>>
           /\ BuildSearchFilters(<< <<tag, <<>> >>, <<tag2, <<>> >> >>, op) = <<>>
<1>1. FlattenSeq(<<>>) = <<>> BY DEF FlattenSeq
<1>2. FlattenSeq(<< <<>> >>) = <<>>
  <2>1. <<>> \in Seq({}) OBVIOUS
  <2>2. QED BY <2>1, FlattenOne
<1>3. FlattenSeq(<< <<>>, <<>> >>) = <<>>
  <2>1. <<>> \in Seq({}) /\ <<>> \o <<>> = <<>> OBVIOUS
  <2>2. QED BY <2>1, FlattenTwo
<1>4. BuildSearchFilters(<< <<tag, <<>> >> >>, op) = <<>>
  <2> DEFINE pairs == << <<tag, <<>> >> >>
             clause(n) == IF pairs[n][2] = <<>> THEN <<>> ELSE << FilterClause(pairs[n][1], op, pairs[n][2]) >>
             clauses == [n \in DOMAIN pairs |-> clause(n)]
  <2>1. DOMAIN pairs = 1..1 /\ clause(1) = <<>> OBVIOUS
  <2> HIDE DEF clause
  <2>2. clauses = << <<>> >> BY <2>1
  <2>3. FlattenSeq(clauses) = <<>> BY <1>2, <2>2
  <2>4. QED BY <1>1, <2>3 DEF BuildSearchFilters, clause
<1>5. BuildSearchFilters(<< <<tag, <<>> >>, <<tag2, <<>> >> >>, op) = <<>>
  <2> DEFINE pairs == << <<tag, <<>> >>, <<tag2, <<>> >> >>
             clause(n) == IF pairs[n][2] = <<>> THEN <<>> ELSE << FilterClause(pairs[n][1], op, pairs[n][2]) >>
             clauses == [n \in DOMAIN pairs |-> clause(n)]
  <2>1. DOMAIN pairs = 1..2 /\ clause(1) = <<>> /\ clause(2) = <<>> OBVIOUS
  <2> HIDE DEF clause
  <2>2. clauses = << <<>>, <<>> >> BY <2>1
  <2>3. FlattenSeq(clauses) = <<>> BY <1>3, <2>2
  <2>4. QED BY <1>1, <2>3 DEF BuildSearchFilters, clause
<1>6. QED BY <1>4, <1>5

LEMMA FilterOfOne ==
    ASSUME NEW A, Alphabet(A), NEW tag \in A, NEW op \in A, NEW t \in Seq(A), t # <<>>
    PROVE  BuildSearchFilters(<< <<tag, t>> >>, op) = FilterClause(tag, op, t)
<1> DEFINE c == FilterClause(tag, op, t)
           pairs == << <<tag, t>> >>
           clause(n) == IF pairs[n][2] = <<>> THEN <<>> ELSE << FilterClause(pairs[n][1], op, pairs[n][2]) >>
           clauses == [n \in DOMAIN pairs |-> clause(n)]
<1>1. c \in Seq(A)
  <2>1. <<>> \in Seq(A) OBVIOUS
  <2>2. QED BY <2>1, ClauseType
<1>2. DOMAIN pairs = 1..1 /\ clause(1) = <<c>> OBVIOUS
<1> HIDE DEF clause, c
<1>3. clauses = << <<c>> >> BY <1>2
<1>4. <<c>> \in Seq(Seq(A)) BY <1>1
<1>5. FlattenSeq(clauses) = <<c>> BY <1>3, <1>4, FlattenOne
<1>6. FlattenSeq(<<c>>) = c BY <1>1, FlattenOne
<1>7. Len(<<c>>) = 1 OBVIOUS
<1>8. BuildSearchFilters(pairs, op) = c BY <1>5, <1>6, <1>7 DEF BuildSearchFilters, clause
<1>9. QED BY <1>8 DEF c

LEMMA FilterOfTwo ==
    ASSUME NEW A, Alphabet(A), "AND" \in A, NEW tag \in A, NEW tag2 \in A, NEW op \in A,
           NEW t \in Seq(A), NEW t2 \in Seq(A), t # <<>>, t2 # <<>>
    PROVE  BuildSearchFilters(<< <<tag, t>>, <<tag2, t2>> >>, op)
             = BothOf(FilterClause(tag, op, t), FilterClause(tag2, op, t2))
<1> DEFINE c == FilterClause(tag, op, t)
           d == FilterClause(tag2, op, t2)
           pairs == << <<tag, t>>, <<tag2, t2>> >>
           clause(n) == IF pairs[n][2] = <<>> THEN <<>> ELSE << FilterClause(pairs[n][1], op, pairs[n][2]) >>
           clauses == [n \in DOMAIN pairs |-> clause(n)]
           sep == <<Space, "AND", Space>>
<1>1. c \in Seq(A) /\ d \in Seq(A)
  <2>1. <<>> \in Seq(A) OBVIOUS
  <2>2. QED BY <2>1, ClauseType
<1>2. DOMAIN pairs = 1..2 /\ clause(1) = <<c>> /\ clause(2) = <<d>> OBVIOUS
<1>3. sep \in Seq(A)
  <2>1. Space \in A BY DEF Alphabet
  <2>2. QED BY <2>1
<1> HIDE DEF clause, c, d, sep
<1>4. clauses = << <<c>>, <<d>> >> BY <1>2
<1>5. <<c>> \in Seq(Seq(A)) /\ <<d>> \in Seq(Seq(A)) BY <1>1
<1>6. FlattenSeq(clauses) = <<c, d>>
  <2>1. FlattenSeq(clauses) = <<c>> \o <<d>> BY <1>4, <1>5, FlattenTwo
  <2>2. <<c>> \o <<d>> = Append(<<c>>, d) BY <1>5, <1>1, AppendIsConcat
  <2>3. QED BY <2>1, <2>2, Pair
<1>7. Joined(<<c, d>>, sep) = c \o (sep \o d)
  <2> DEFINE part(n) == IF n = 1 THEN <<c, d>>[1] ELSE sep \o <<c, d>>[n]
             parts == [n \in DOMAIN <<c, d>> |-> part(n)]
             e == sep \o d
  <2>1. DOMAIN <<c, d>> = 1..2 /\ part(1) = c /\ part(2) = e OBVIOUS
  <2>2. e \in Seq(A) BY <1>1, <1>3
  <2> HIDE DEF part, e
  <2>3. parts = <<c, e>> BY <2>1
  <2>4. FlattenSeq(parts) = c \o e BY <1>1, <2>2, <2>3, FlattenTwo
  <2>5. QED BY <2>4 DEF Joined, part, e
<1>8. Len(<<c, d>>) = 2 OBVIOUS
<1>9. BuildSearchFilters(pairs, op) = <<"(">> \o Joined(<<c, d>>, sep) \o <<")">>
  <2>1. BuildSearchFilters(pairs, op)
          = IF Len(FlattenSeq(clauses)) <= 1 THEN FlattenSeq(FlattenSeq(clauses))
            ELSE <<"(">> \o Joined(FlattenSeq(clauses), sep) \o <<")">>
    BY DEF BuildSearchFilters, clause, sep
  <2> HIDE DEF clauses
  <2>2. ~(Len(FlattenSeq(clauses)) <= 1) BY <1>6, <1>8
  <2>3. QED BY <1>6, <2>1, <2>2
<1>10. BuildSearchFilters(pairs, op) = BothOf(c, d)
  BY <1>7, <1>9 DEF BothOf, sep
<1>11. QED BY <1>10 DEF c, d

\* A command with one text is read as that text.
LEMMA CommandRead ==
    ASSUME NEW A, {Backslash, DoubleQuote, Space} \subseteq A, NEW name, NEW t \in Seq(A)
    PROVE  /\ <<name, Space>> \o QuoteArg(t) # <<>>
           /\ Arguments(Tail(<<name, Space>> \o QuoteArg(t))) = <<t>>
<1> DEFINE q == QuoteArg(t)
           B == A \cup {name}
<1>1. q \in Seq(B)
  <2> DEFINE e == Escaped(t, {Backslash, DoubleQuote})
  <2>1. e \in Seq(A) BY EscapedEffect
  <2>2. q = <<DoubleQuote>> \o e \o <<DoubleQuote>> BY DEF QuoteArg
  <2> HIDE DEF e, q, B
  <2>3. <<DoubleQuote>> \o e \o <<DoubleQuote>> \in Seq(A) BY <2>1
  <2>4. A \subseteq B BY DEF B
  <2>5. QED BY <2>2, <2>3, <2>4
<1>2. name \in B /\ Space \in B OBVIOUS
<1> HIDE DEF q, B
<1>3. Tail(<<name, Space>> \o q) = <<Space>> \o q
  <2> DEFINE s == <<name, Space>> \o q
             r == <<Space>> \o q
  <2>1. /\ s \in Seq(B) /\ Len(s) = 2 + Len(q) /\ Len(q) \in Nat /\ s[1] = name /\ s[2] = Space
        /\ \A n \in 1..Len(q) : s[n + 2] = q[n]
    BY <1>1, <1>2
  <2>2. /\ r \in Seq(B) /\ Len(r) = 1 + Len(q) /\ r[1] = Space
        /\ \A n \in 1..Len(q) : r[n + 1] = q[n]
    BY <1>1, <1>2
  <2> HIDE DEF s, r
  <2>3. /\ Tail(s) \in Seq(B) /\ Len(Tail(s)) = 1 + Len(q)
        /\ \A n \in 1..(1 + Len(q)) : Tail(s)[n] = s[n + 1]
    BY <2>1
  <2>4. ASSUME NEW n \in 1..(1 + Len(q)) PROVE Tail(s)[n] = r[n]
    <3>1. CASE n = 1 BY <2>1, <2>2, <2>3, <3>1
    <3>2. CASE n # 1
      <4>1. n - 1 \in 1..Len(q) /\ (n - 1) + 2 = n + 1 /\ (n - 1) + 1 = n BY <2>1, <3>2
      <4>2. s[n + 1] = q[n - 1] BY <2>1, <4>1
      <4>3. r[n] = q[n - 1] BY <2>2, <4>1
      <4>4. QED BY <2>3, <4>2, <4>3
    <3>3. QED BY <3>1, <3>2
  <2>5. Tail(s) = r BY <2>2, <2>3, <2>4, SeqEqual
  <2>6. QED BY <2>5 DEF s, r
<1>4. <<name, Space>> \o q # <<>>
  <2>1. Len(<<name, Space>> \o q) = 2 + Len(q) /\ Len(q) \in Nat BY <1>1, <1>2
  <2>2. QED BY <2>1
<1>5. QED BY <1>3, <1>4, QuotedIsOneArgument DEF q

\* The count comes out of MPD's answer as it went in.
LEMMA CountRead ==
    ASSUME NEW k
    PROVE  Number(ParseText(<<Field("songs", k)>> \o OK).fields, "songs") = k
<1> DEFINE f == Field("songs", k)
           o == Terminator("OK")
           lines == <<f, o>>
           ends == SelectInSeq(lines, LAMBDA l : l.line \in {"OK", "ACK"})
           body == IF ends = 0 THEN lines ELSE SubSeq(lines, 1, ends - 1)
           taken(n) == IF body[n].line = "field" THEN <<body[n]>> ELSE <<>>
           values(n) == IF <<f>>[n].key = "songs" THEN << <<f>>[n].value >> ELSE <<>>
<1>1. f.line = "field" /\ f.key = "songs" /\ f.value = k /\ o.line = "OK"
  BY DEF Field, Terminator
<1> HIDE DEF f, o
<1>2. <<f>> \o OK = lines
  <2>1. f \in {f, o} /\ o \in {f, o} /\ OK = <<o>> BY DEF OK, o
  <2> DEFINE B == {f, o}
  <2>2. <<f>> \in Seq(B) /\ o \in B BY <2>1
  <2> HIDE DEF B
  <2>3. <<f>> \o <<o>> = Append(<<f>>, o) BY <2>2, AppendIsConcat
  <2>4. QED BY <2>1, <2>3, Pair
<1>3. ends = 2
  <2> DEFINE I == {n \in 1..Len(lines) : lines[n].line \in {"OK", "ACK"}}
  <2>1. Len(lines) = 2 /\ lines[1] = f /\ lines[2] = o OBVIOUS
  <2> HIDE DEF lines
  <2>2. I = {2} BY <1>1, <2>1
  <2>3. Min({2}) = 2 BY DEF Min
  <2>4. ends = IF I # {} THEN Min(I) ELSE 0 BY DEF SelectInSeq
  <2> HIDE DEF I
  <2>5. QED BY <2>2, <2>3, <2>4
<1>4. body = <<f>>
  <2>1. SubSeq(lines, 1, 1) = <<f>>
    <3> DEFINE B == {f, o}
               r == SubSeq(lines, 1, 1)
    <3>1. lines \in Seq(B) /\ Len(lines) = 2 /\ lines[1] = f /\ <<f>> \in Seq(B) /\ Len(<<f>>) = 1
      OBVIOUS
    <3> HIDE DEF B, lines
    <3>2. r \in Seq(B) /\ Len(r) = 1 /\ r[1] = f BY <3>1
    <3> HIDE DEF r
    <3>3. \A n \in 1..1 : r[n] = <<f>>[n] BY <3>2
    <3>4. r = <<f>> BY <3>1, <3>2, <3>3, SeqEqual
    <3>5. QED BY <3>4 DEF r
  <2> HIDE DEF ends, lines
  <2>2. QED BY <1>3, <2>1
<1>5. ParseText(lines).fields = FlattenSeq([n \in DOMAIN body |-> taken(n)])
  BY DEF ParseText
<1> HIDE DEF body, lines
<1>6. [n \in DOMAIN body |-> taken(n)] = << <<f>> >>
  <2>1. DOMAIN body = 1..1 /\ body[1] = f BY <1>4
  <2>2. taken(1) = <<f>> BY <1>1, <2>1
  <2> HIDE DEF taken
  <2>3. QED BY <2>1, <2>2
<1> DEFINE F == {f}
           K == {k}
<1>7. <<f>> \in Seq(F) /\ <<k>> \in Seq(K) OBVIOUS
<1> HIDE DEF F, K
<1>8. ParseText(lines).fields = <<f>> BY <1>5, <1>6, <1>7, FlattenOne
<1>9. [n \in DOMAIN <<f>> |-> values(n)] = << <<k>> >>
  <2>1. DOMAIN <<f>> = 1..1 /\ <<f>>[1] = f OBVIOUS
  <2>2. values(1) = <<k>> BY <1>1, <2>1
  <2> HIDE DEF values
  <2>3. QED BY <2>1, <2>2
<1>10. GetAll(<<f>>, "songs") = FlattenSeq([n \in DOMAIN <<f>> |-> values(n)])
  BY DEF GetAll
<1> HIDE DEF values
<1>11. GetAll(<<f>>, "songs") = <<k>> BY <1>7, <1>9, <1>10, FlattenOne
<1>12. Number(<<f>>, "songs") = k BY <1>11 DEF Number
<1>13. QED BY <1>2, <1>8, <1>12 DEF f

-----------------------------------------------------------------------------
(* The requests.                                                           *)

\* The characters of a request.
Characters(t) == {t[n] : n \in DOMAIN t}
                   \cup {Backslash, DoubleQuote, Space, Apostrophe, "(", ")", "AND", "==", "Artist", "Album"}

LEMMA CharactersAre ==
    ASSUME NEW t \in Texts
    PROVE  /\ Alphabet(Characters(t)) /\ {Backslash, DoubleQuote, Space} \subseteq Characters(t)
           /\ "AND" \in Characters(t) /\ "==" \in Characters(t)
           /\ "Artist" \in Characters(t) /\ "Album" \in Characters(t)
           /\ t \in Seq(Characters(t))
<1>1. t \in Seq({t[n] : n \in DOMAIN t}) BY TextsAssumption DEF IsSequence
<1>2. {t[n] : n \in DOMAIN t} \subseteq Characters(t) BY DEF Characters
<1> DEFINE B == {t[n] : n \in DOMAIN t}
           C == Characters(t)
<1>3. t \in Seq(C)
  <2> HIDE DEF B, C
  <2>1. t \in Seq(B) /\ B \subseteq C BY <1>1, <1>2 DEF B, C
  <2>2. QED BY <2>1
<1>4. QED BY <1>3 DEF Characters, Alphabet

\* What is asked for by tag: one pair or two, of one text.
ByTag(t) == {<< <<"Artist", t>> >>, << <<"Album", t>>, <<"Artist", t>> >>}

\* Without a text nothing is sent, and no song has such a tag.
LEMMA NothingAsked ==
    ASSUME NEW pairs \in ByTag(<<>>), NEW name, db \in Databases
    PROVE  /\ Sent(name, pairs) = <<>>
           /\ {n \in DOMAIN db.songs : Wishes(n, pairs)} = {}
<1>1. BuildSearchFilters(pairs, "==") = <<>>
  BY NoFilter DEF ByTag
<1>2. pairs[1][2] = <<>> /\ 1 \in DOMAIN pairs
  BY DEF ByTag
<1>3. ASSUME NEW n \in DOMAIN db.songs, Wishes(n, pairs) PROVE FALSE
  <2>1. <<>> \in TagValues(db.songs[n], pairs[1][1]) BY <1>2, <1>3 DEF Wishes
  <2>2. PICK m \in DOMAIN db.songs[n].tags : db.songs[n].tags[m][2] = <<>> BY <2>1 DEF TagValues
  <2>3. db.songs[n].tags[m][2] # <<>> BY DatabasesAssumption
  <2>4. QED BY <2>2, <2>3
<1>4. QED BY <1>1, <1>3 DEF Sent

\* What MPD selects for a request with a text.
LEMMA FilterSelects ==
    ASSUME NEW t \in Texts, t # <<>>, NEW pairs \in ByTag(t), NEW name
    PROVE  /\ Sent(name, pairs) # <<>>
           /\ Selected(db, FilterOf(Sent(name, pairs))) = {n \in DOMAIN db.songs : Wishes(n, pairs)}
<1> DEFINE A == Characters(t)
           f == BuildSearchFilters(pairs, "==")
           clause(tag) == [tag |-> tag, op |-> "==", value |-> t]
<1>1. /\ Alphabet(A) /\ {Backslash, DoubleQuote, Space} \subseteq A /\ "AND" \in A /\ "==" \in A
      /\ "Artist" \in A /\ "Album" \in A /\ t \in Seq(A)
  BY CharactersAre
<1> HIDE DEF A
<1>2. /\ f \in Seq(A) /\ f # <<>>
      /\ Selected(db, Clauses(f)) = {n \in DOMAIN db.songs : Wishes(n, pairs)}
  <2>0. <<>> \in Seq(A) /\ "(" \in A /\ ")" \in A BY <1>1 DEF Alphabet
  <2> DEFINE c == FilterClause("Artist", "==", t)
             d == FilterClause("Album", "==", t)
  <2>1. c \in Seq(A) /\ d \in Seq(A) BY <1>1, <2>0, ClauseType
  <2>2. c # <<>> BY <1>1, ClauseIsSomething
  <2>3. Clauses(c) = <<clause("Artist")>> BY <1>1, OneClauseRead
  <2>4. Clauses(BothOf(d, c)) = <<clause("Album"), clause("Artist")>>
    <3> DEFINE artist == "Artist"
               album == "Album"
               op == "=="
    <3>1. artist \in A /\ album \in A /\ op \in A /\ artist # "(" /\ album # "(" BY <1>1
    <3> HIDE DEF artist, album, op
    <3>2. Clauses(BothOf(FilterClause(album, op, t), FilterClause(artist, op, t)))
            = << [tag |-> album, op |-> op, value |-> t], [tag |-> artist, op |-> op, value |-> t] >>
      BY <1>1, <3>1, TwoClausesRead
    <3>3. QED BY <3>2 DEF artist, album, op
  <2>5. BothOf(d, c) \in Seq(A) /\ BothOf(d, c) # <<>>
    <3>1. <<Space, "AND", Space>> \in Seq(A) /\ <<"(">> \in Seq(A) /\ <<")">> \in Seq(A)
      BY <1>1, <2>0
    <3> DEFINE s == <<Space, "AND", Space>>
               u == d \o (s \o c)
    <3>2. u \in Seq(A)
      <4> HIDE DEF s, c, d
      <4>1. s \in Seq(A) BY <3>1 DEF s
      <4>2. QED BY <2>1, <4>1
    <3> HIDE DEF u, s
    <3>3. BothOf(d, c) = <<"(">> \o u \o <<")">> BY DEF BothOf, u, s
    <3>4. <<"(">> \o u \in Seq(A) BY <3>1, <3>2
    <3>5. Len(<<"(">> \o u \o <<")">>) # 0 BY <3>1, <3>2, <3>4
    <3>6. <<"(">> \o u \o <<")">> \in Seq(A) BY <3>1, <3>4
    <3>7. QED BY <3>3, <3>5, <3>6
  <2>6. CASE pairs = << <<"Artist", t>> >>
    <3>1. f = c BY <1>1, <2>6, FilterOfOne
    <3>2. Selected(db, <<clause("Artist")>>) = {n \in DOMAIN db.songs : Wishes(n, pairs)}
      BY <2>6 DEF Selected, Wishes
    <3>3. QED BY <2>1, <2>2, <2>3, <3>1, <3>2
  <2>7. CASE pairs = << <<"Album", t>>, <<"Artist", t>> >>
    <3>1. f = BothOf(d, c) BY <1>1, <2>7, FilterOfTwo
    <3>2. Selected(db, <<clause("Album"), clause("Artist")>>) = {n \in DOMAIN db.songs : Wishes(n, pairs)}
      BY <2>7 DEF Selected, Wishes
    <3>3. QED BY <2>4, <2>5, <3>1, <3>2
  <2>8. QED BY <2>6, <2>7 DEF ByTag
<1> HIDE DEF f
<1>3. Sent(name, pairs) = <<name, Space>> \o QuoteArg(f)
  BY <1>2 DEF Sent, FilterCommand, f
<1>4. Arguments(Tail(<<name, Space>> \o QuoteArg(f))) = <<f>>
  BY <1>1, <1>2, CommandRead
<1>5. FilterOf(Sent(name, pairs)) = Clauses(f)
  BY <1>3, <1>4 DEF FilterOf
<1>6. Sent(name, pairs) # <<>>
  BY <1>1, <1>2, <1>3, CommandRead
<1>7. QED BY <1>2, <1>5, <1>6

\* A target by tag.
LEMMA AddByTagRight ==
    ASSUME NEW t \in Texts, NEW pairs \in ByTag(t), db \in Databases, AddByTag(pairs)
    PROVE  MpdUnderstands'
<1> DEFINE count == Sent("count", pairs)
           found == IF count = <<>> THEN 0
                    ELSE Number(ParseText(CountReply(db, count)).fields, "songs")
           meant == {n \in DOMAIN db.songs : Wishes(n, pairs)}
<1>1. /\ asked' = [what |-> "add by tag", pairs |-> pairs]
      /\ sent' = IF found = 0 THEN count ELSE Sent("searchadd", pairs)
      /\ answer' = IF found = 0 THEN [what |-> "no matching tracks"]
                   ELSE [what |-> "added", songs |-> Selected(db, FilterOf(sent'))]
      /\ db' = db
  BY DEF AddByTag, Asks
<1>2. answer' = IF meant = {} THEN [what |-> "no matching tracks"]
                ELSE [what |-> "added", songs |-> meant]
  <2>1. CASE t = <<>>
    <3>1. count = <<>> /\ meant = {} BY <2>1, NothingAsked
    <3>2. QED BY <1>1, <3>1
  <2>2. CASE t # <<>>
    <3>1. count # <<>> /\ Selected(db, FilterOf(count)) = meant BY <2>2, FilterSelects
    <3>2. Selected(db, FilterOf(Sent("searchadd", pairs))) = meant BY <2>2, FilterSelects
    <3> HIDE DEF count, meant
    <3>3. found = Cardinality(meant)
      <4>1. CountReply(db, count) = <<Field("songs", Cardinality(meant))>> \o OK BY <3>1 DEF CountReply
      <4>2. QED BY <3>1, <4>1, CountRead
    <3>4. IsFiniteSet(meant)
      <4>1. IsFiniteSet(DOMAIN db.songs)
        <5>1. DOMAIN db.songs = 1..Len(db.songs) /\ Len(db.songs) \in Nat
          BY DatabasesAssumption DEF IsSequence
        <5>2. QED BY <5>1, FS_Interval
      <4>2. meant \subseteq DOMAIN db.songs BY DEF meant
      <4>3. QED BY <4>1, <4>2, FS_Subset
    <3>5. found = 0 <=> meant = {} BY <3>3, <3>4, FS_EmptySet
    <3> HIDE DEF found
    <3>6. QED BY <1>1, <3>2, <3>5
  <2>3. QED BY <2>1, <2>2
<1>3. meant = {n \in DOMAIN db'.songs : Wishes(n, pairs)'}
  BY <1>1 DEF Wishes
<1> HIDE DEF meant
<1>4. asked'.what = "add by tag" /\ asked'.pairs = pairs BY <1>1
<1>5. QED BY <1>2, <1>3, <1>4 DEF MpdUnderstands

\* A path.
LEMMA PathRight ==
    ASSUME NEW t \in Texts, AddByPath(t) \/ Browse(t)
    PROVE  MpdUnderstands'
<1> DEFINE A == Characters(t)
           relative == SubSeq(t, Cardinality({n \in DOMAIN t : \A m \in 1..n : t[m] = "/"}) + 1, Len(t))
<1>1. {Backslash, DoubleQuote, Space} \subseteq A /\ t \in Seq(A)
  BY CharactersAre
<1> HIDE DEF A
<1>2. relative \in Seq(A)
  <2> DEFINE S == {n \in DOMAIN t : \A m \in 1..n : t[m] = "/"}
  <2>1. S \subseteq 1..Len(t) /\ Len(t) \in Nat BY <1>1
  <2> HIDE DEF S
  <2>2. IsFiniteSet(S)
    <3>1. IsFiniteSet(1..Len(t)) BY <2>1, FS_Interval
    <3>2. QED BY <2>1, <3>1, FS_Subset
  <2>3. Cardinality(S) \in Nat BY <2>2, FS_CardinalityType
  <2>4. SubSeq(t, Cardinality(S) + 1, Len(t)) \in Seq(A) BY <1>1, <2>1, <2>3
  <2>5. QED BY <2>4 DEF S
<1> HIDE DEF relative
<1>3. CASE AddByPath(t)
  <2>1. asked' = [what |-> "add by path", path |-> t] /\ sent' = AddCommand(t)
    BY <1>3 DEF AddByPath, Asks
  <2>2. Arguments(Tail(sent')) = <<t>>
    BY <1>1, <2>1, CommandRead DEF AddCommand
  <2>3. QED BY <2>1, <2>2 DEF MpdUnderstands
<1>4. CASE Browse(t)
  <2>1. asked' = [what |-> "browse", path |-> relative] /\ sent' = LsinfoCommand(relative)
    BY <1>4 DEF Browse, Asks, relative
  <2>2. Arguments(Tail(sent')) = <<relative>>
    BY <1>1, <1>2, <2>1, CommandRead DEF LsinfoCommand
  <2>3. QED BY <2>1, <2>2 DEF MpdUnderstands
<1>5. QED BY <1>3, <1>4

LEMMA UnderstandsInit == LibraryInit => db \in Databases /\ MpdUnderstands
  BY DEF LibraryInit, MpdUnderstands, Nothing

LEMMA UnderstandsStep ==
    db \in Databases /\ MpdUnderstands /\ [LibraryNext]_libraryVars => (db \in Databases /\ MpdUnderstands)'
<1> SUFFICES ASSUME db \in Databases, MpdUnderstands, [LibraryNext]_libraryVars
             PROVE  (db \in Databases /\ MpdUnderstands)'
  OBVIOUS
<1>1. ASSUME UNCHANGED <<db, asked, sent, answer>> PROVE (db \in Databases /\ MpdUnderstands)'
  BY <1>1 DEF MpdUnderstands, Wishes
<1>2. CASE Search
  BY <1>1, <1>2 DEF Search, browsing
<1>3. CASE Answered
  BY <1>3 DEF Answered, MpdUnderstands, Nothing
<1>4. ASSUME NEW t \in Texts, AddByPath(t) \/ Browse(t)
      PROVE  (db \in Databases /\ MpdUnderstands)'
  <2>1. db' = db BY <1>4 DEF AddByPath, Browse, Asks
  <2>2. QED BY <1>4, <2>1, PathRight
<1>5. ASSUME NEW t \in Texts, NEW pairs \in ByTag(t), AddByTag(pairs)
      PROVE  (db \in Databases /\ MpdUnderstands)'
  <2>1. db' = db BY <1>5 DEF AddByTag, Asks
  <2>2. QED BY <1>5, <2>1, AddByTagRight
<1>6. ASSUME NEW l \in Lists, ListTag(l[1], l[2], l[3])
      PROVE  (db \in Databases /\ MpdUnderstands)'
  BY <1>6 DEF ListTag, Asks, MpdUnderstands
<1>7. CASE UNCHANGED libraryVars
  BY <1>1, <1>7 DEF libraryVars, browsing
<1>8. QED BY <1>2, <1>3, <1>4, <1>5, <1>6, <1>7 DEF LibraryNext, ByTag

\* Whatever is in a tag or a path, MPD takes every command with a text as it was meant:
\* the path as it is, and of a tag the songs that have it (quote_arg,
\* escape_filter_value, build_search_filters, validate_target).
THEOREM MpdUnderstandsCommands == LibrarySpec => []MpdUnderstands
<1>1. LibrarySpec => [](db \in Databases /\ MpdUnderstands)
  BY UnderstandsInit, UnderstandsStep, PTL DEF LibrarySpec
<1>2. QED BY <1>1, PTL

-----------------------------------------------------------------------------
(* Counting.                                                               *)

\* The elements of a list are finite.
LEMMA ElementsFinite ==
    ASSUME NEW s \in Seq(Nat)
    PROVE  IsFiniteSet(Elements(s))
<1>1. s \in Surjection(1..Len(s), Elements(s))
  BY DEF Surjection, Elements
<1>2. IsFiniteSet(1..Len(s))
  BY FS_Interval
<1>3. QED BY <1>1, <1>2, FS_Surjection

\* A strictly ascending list is as long as it has elements.
LEMMA AscendingCount ==
    ASSUME NEW s \in Seq(Nat), Ascending(s)
    PROVE  Cardinality(Elements(s)) = Len(s)
<1>1. s \in Surjection(1..Len(s), Elements(s))
  BY DEF Surjection, Elements
<1>2. \A m, n \in 1..Len(s) : m # n => s[m] # s[n]
  <2>1. \A m \in 1..Len(s) : s[m] \in Nat OBVIOUS
  <2>2. QED BY <2>1 DEF Ascending
<1>3. s \in Injection(1..Len(s), Elements(s))
  BY <1>2 DEF Injection, IsInjective, Elements
<1>4. QED BY <1>1, <1>3, FS_CountingElements DEF ExistsBijection, Bijection

\* What two lists share from m and n on.
Shared(a, b, m, n) == {x \in Elements(a) : \E p \in m..Len(a), q \in n..Len(b) : a[p] = x /\ b[q] = x}

\* One comparison of count_in, whose loop goes on with g.
Counting(a, b, g, at) ==
    LET m == at[1]
        n == at[2]
    IN  IF m > Len(a) \/ n > Len(b) THEN 0
        ELSE IF a[m] < b[n] THEN g[<<m + 1, n>>]
        ELSE IF a[m] > b[n] THEN g[<<m, n + 1>>]
        ELSE 1 + g[<<m + 1, n + 1>>]

\* A comparison takes from both lists what cannot be shared any more.
LEMMA SharedStep ==
    ASSUME NEW a \in Seq(Nat), NEW b \in Seq(Nat), Ascending(a), Ascending(b),
           NEW m \in 1..Len(a) + 1, NEW n \in 1..Len(b) + 1
    PROVE  /\ m > Len(a) \/ n > Len(b) => Shared(a, b, m, n) = {}
           /\ m <= Len(a) /\ n <= Len(b) =>
                 /\ a[m] < b[n] => Shared(a, b, m, n) = Shared(a, b, m + 1, n)
                 /\ a[m] > b[n] => Shared(a, b, m, n) = Shared(a, b, m, n + 1)
                 /\ a[m] = b[n] => /\ Shared(a, b, m, n) = Shared(a, b, m + 1, n + 1) \cup {a[m]}
                                   /\ a[m] \notin Shared(a, b, m + 1, n + 1)
<1>1. /\ \A p \in 1..Len(a) : a[p] \in Nat /\ a[p] \in Elements(a)
      /\ \A q \in 1..Len(b) : b[q] \in Nat
      /\ Len(a) \in Nat /\ Len(b) \in Nat
  BY DEF Elements
<1>2. ASSUME m > Len(a) \/ n > Len(b) PROVE Shared(a, b, m, n) = {}
  <2>1. m..Len(a) = {} \/ n..Len(b) = {} BY <1>1, <1>2
  <2>2. QED BY <2>1 DEF Shared
<1>3. SUFFICES ASSUME m <= Len(a), n <= Len(b)
               PROVE  /\ a[m] < b[n] => Shared(a, b, m, n) = Shared(a, b, m + 1, n)
                      /\ a[m] > b[n] => Shared(a, b, m, n) = Shared(a, b, m, n + 1)
                      /\ a[m] = b[n] => /\ Shared(a, b, m, n) = Shared(a, b, m + 1, n + 1) \cup {a[m]}
                                        /\ a[m] \notin Shared(a, b, m + 1, n + 1)
  BY <1>2
<1>4. /\ \A p \in m..Len(a) : p \in 1..Len(a) /\ (p = m \/ (p \in m + 1..Len(a) /\ a[m] < a[p]))
      /\ \A p \in m + 1..Len(a) : p \in m..Len(a) /\ m < p /\ a[m] < a[p]
      /\ m \in m..Len(a) /\ m \in 1..Len(a)
  <2>1. \A p \in m + 1..Len(a) : p \in 1..Len(a) /\ m < p BY <1>1
  <2>2. m \in 1..Len(a) BY <1>3
  <2>3. \A p \in m + 1..Len(a) : a[m] < a[p] BY <2>1, <2>2 DEF Ascending
  <2>4. \A p \in m..Len(a) : p \in 1..Len(a) /\ (p = m \/ p \in m + 1..Len(a)) BY <1>1
  <2>5. QED BY <1>1, <1>3, <2>1, <2>2, <2>3, <2>4
<1>5. /\ \A q \in n..Len(b) : q \in 1..Len(b) /\ (q = n \/ (q \in n + 1..Len(b) /\ b[n] < b[q]))
      /\ \A q \in n + 1..Len(b) : q \in n..Len(b) /\ n < q /\ b[n] < b[q]
      /\ n \in n..Len(b) /\ n \in 1..Len(b)
  <2>1. \A q \in n + 1..Len(b) : q \in 1..Len(b) /\ n < q BY <1>1
  <2>2. n \in 1..Len(b) BY <1>3
  <2>3. \A q \in n + 1..Len(b) : b[n] < b[q] BY <2>1, <2>2 DEF Ascending
  <2>4. \A q \in n..Len(b) : q \in 1..Len(b) /\ (q = n \/ q \in n + 1..Len(b)) BY <1>1
  <2>5. QED BY <1>1, <1>3, <2>1, <2>2, <2>3, <2>4
<1>6. ASSUME a[m] < b[n] PROVE Shared(a, b, m, n) = Shared(a, b, m + 1, n)
  <2>1. a[m] \in Nat /\ b[n] \in Nat /\ \A q \in n..Len(b) : b[q] \in Nat
    BY <1>1, <1>4, <1>5
  <2>2. \A q \in n..Len(b) : q = n \/ b[n] < b[q] BY <1>5
  <2>3. ASSUME NEW q \in n..Len(b) PROVE a[m] # b[q]
    <3>1. b[q] \in Nat /\ a[m] \in Nat /\ b[n] \in Nat BY <2>1
    <3>2. q = n \/ b[n] < b[q] BY <2>2
    <3>3. QED BY <1>6, <3>1, <3>2
  <2>4. Shared(a, b, m + 1, n) \subseteq Shared(a, b, m, n) BY <1>4 DEF Shared
  <2>5. ASSUME NEW x \in Shared(a, b, m, n) PROVE x \in Shared(a, b, m + 1, n)
    <3>1. PICK p \in m..Len(a), q \in n..Len(b) : a[p] = x /\ b[q] = x BY DEF Shared
    <3>2. p \in m + 1..Len(a) BY <1>4, <2>3, <3>1
    <3>3. x \in Elements(a) BY DEF Shared
    <3>4. QED BY <3>1, <3>2, <3>3 DEF Shared
  <2>6. QED BY <2>4, <2>5
<1>7. ASSUME a[m] > b[n] PROVE Shared(a, b, m, n) = Shared(a, b, m, n + 1)
  <2>1. a[m] \in Nat /\ b[n] \in Nat /\ \A p \in m..Len(a) : a[p] \in Nat
    BY <1>1, <1>4, <1>5
  <2>2. \A p \in m..Len(a) : p = m \/ a[m] < a[p] BY <1>4
  <2>3. ASSUME NEW p \in m..Len(a) PROVE a[p] # b[n]
    <3>1. a[p] \in Nat /\ a[m] \in Nat /\ b[n] \in Nat BY <2>1
    <3>2. p = m \/ a[m] < a[p] BY <2>2
    <3>3. QED BY <1>7, <3>1, <3>2
  <2>4. Shared(a, b, m, n + 1) \subseteq Shared(a, b, m, n) BY <1>5 DEF Shared
  <2>5. ASSUME NEW x \in Shared(a, b, m, n) PROVE x \in Shared(a, b, m, n + 1)
    <3>1. PICK p \in m..Len(a), q \in n..Len(b) : a[p] = x /\ b[q] = x BY DEF Shared
    <3>2. q \in n + 1..Len(b) BY <1>5, <2>3, <3>1
    <3>3. x \in Elements(a) BY DEF Shared
    <3>4. QED BY <3>1, <3>2, <3>3 DEF Shared
  <2>6. QED BY <2>4, <2>5
<1>8. ASSUME a[m] = b[n]
      PROVE  /\ Shared(a, b, m, n) = Shared(a, b, m + 1, n + 1) \cup {a[m]}
             /\ a[m] \notin Shared(a, b, m + 1, n + 1)
  <2>1. /\ \A p \in m + 1..Len(a) : a[p] # a[m]
        /\ \A q \in n + 1..Len(b) : b[q] # a[m]
    BY <1>1, <1>4, <1>5, <1>8
  <2>2. a[m] \notin Shared(a, b, m + 1, n + 1) BY <2>1 DEF Shared
  <2>3. a[m] \in Shared(a, b, m, n) BY <1>1, <1>4, <1>5, <1>8 DEF Shared
  <2>4. Shared(a, b, m + 1, n + 1) \subseteq Shared(a, b, m, n) BY <1>4, <1>5 DEF Shared
  <2>5. ASSUME NEW x \in Shared(a, b, m, n), x # a[m] PROVE x \in Shared(a, b, m + 1, n + 1)
    <3>1. PICK p \in m..Len(a), q \in n..Len(b) : a[p] = x /\ b[q] = x BY DEF Shared
    <3>2. p \in m + 1..Len(a) /\ q \in n + 1..Len(b) BY <1>4, <1>5, <1>8, <2>5, <3>1
    <3>3. QED BY <3>1, <3>2 DEF Shared
  <2>6. QED BY <2>2, <2>3, <2>4, <2>5
<1>9. QED BY <1>6, <1>7, <1>8

\* count_in: the size of the intersection, for any two strictly ascending lists.
THEOREM CountInIsIntersection ==
    ASSUME NEW a \in Seq(Nat), NEW b \in Seq(Nat), Ascending(a), Ascending(b)
    PROVE  CountIn(a, b) = Cardinality(Elements(a) \cap Elements(b))
<1> DEFINE D == (1..Len(a) + 1) \X (1..Len(b) + 1)
           h == [at \in D |-> Cardinality(Shared(a, b, at[1], at[2]))]
           Solves(g) == g = [at \in D |-> Counting(a, b, g, at)]
           far(at) == Len(a) + 1 - at[1] + (Len(b) + 1 - at[2])
<1>1. Len(a) \in Nat /\ Len(b) \in Nat OBVIOUS
<1>2. \A m, n : IsFiniteSet(Shared(a, b, m, n))
  <2>1. \A m, n : Shared(a, b, m, n) \in SUBSET Elements(a) BY DEF Shared
  <2>2. QED BY <2>1, ElementsFinite, FS_Subset
<1>3. Solves(h)
  <2>1. ASSUME NEW m \in 1..Len(a) + 1, NEW n \in 1..Len(b) + 1
        PROVE  Cardinality(Shared(a, b, m, n)) = Counting(a, b, h, <<m, n>>)
    <3>1. CASE m > Len(a) \/ n > Len(b)
      <4> HIDE DEF h, D
      <4>1. Shared(a, b, m, n) = {} BY <3>1, SharedStep
      <4>2. Cardinality(Shared(a, b, m, n)) = 0 BY <4>1, FS_EmptySet
      <4>3. QED BY <3>1, <4>2 DEF Counting
    <3>2. CASE ~(m > Len(a) \/ n > Len(b))
      <4>1. /\ m \in 1..Len(a) /\ n \in 1..Len(b) /\ m <= Len(a) /\ n <= Len(b)
            /\ <<m + 1, n>> \in D /\ <<m, n + 1>> \in D /\ <<m + 1, n + 1>> \in D
        <5>1. m <= Len(a) /\ n <= Len(b) BY <1>1, <3>2
        <5>2. m + 1 \in 1..Len(a) + 1 /\ n + 1 \in 1..Len(b) + 1 BY <1>1, <5>1
        <5>3. m \in 1..Len(a) /\ n \in 1..Len(b) BY <1>1, <5>1
        <5>4. QED BY <5>1, <5>2, <5>3
      <4>2. a[m] \in Nat /\ b[n] \in Nat BY <4>1, SMTT(30)
      <4>3. /\ h[<<m + 1, n>>] = Cardinality(Shared(a, b, m + 1, n))
            /\ h[<<m, n + 1>>] = Cardinality(Shared(a, b, m, n + 1))
            /\ h[<<m + 1, n + 1>>] = Cardinality(Shared(a, b, m + 1, n + 1))
        BY <4>1
      <4> HIDE DEF h, D
      <4>4. Counting(a, b, h, <<m, n>>) =
              IF a[m] < b[n] THEN Cardinality(Shared(a, b, m + 1, n))
              ELSE IF a[m] > b[n] THEN Cardinality(Shared(a, b, m, n + 1))
              ELSE 1 + Cardinality(Shared(a, b, m + 1, n + 1))
        BY <3>2, <4>3 DEF Counting
      <4>5. CASE a[m] < b[n] BY <4>1, <4>4, <4>5, SharedStep
      <4>6. CASE a[m] > b[n] BY <4>1, <4>2, <4>4, <4>6, SharedStep
      <4>7. CASE a[m] = b[n]
        <5>1. /\ Shared(a, b, m, n) = Shared(a, b, m + 1, n + 1) \cup {a[m]}
              /\ a[m] \notin Shared(a, b, m + 1, n + 1)
          BY <4>1, <4>7, SharedStep
        <5>2. Cardinality(Shared(a, b, m, n)) = Cardinality(Shared(a, b, m + 1, n + 1)) + 1
          BY <5>1, <1>2, FS_AddElement
        <5>3. Cardinality(Shared(a, b, m + 1, n + 1)) \in Nat
          BY <1>2, FS_CardinalityType
        <5>4. QED BY <4>2, <4>4, <4>7, <5>2, <5>3, SMTT(30)
      <4>8. QED BY <4>2, <4>5, <4>6, <4>7
    <3>3. QED BY <3>1, <3>2
  <2>2. ASSUME NEW at \in D PROVE h[at] = Counting(a, b, h, at)
    <3>1. PICK m \in 1..Len(a) + 1, n \in 1..Len(b) + 1 : at = <<m, n>> OBVIOUS
    <3>2. h[at] = Cardinality(Shared(a, b, m, n)) BY <3>1
    <3> HIDE DEF h
    <3>3. QED BY <2>1, <3>1, <3>2
  <2>3. h = [at \in D |-> h[at]] OBVIOUS
  <2> HIDE DEF h, D
  <2>4. QED BY <2>2, <2>3
<1>4. ASSUME NEW g, Solves(g) PROVE g = h
  <2> DEFINE S == {k \in Nat : \A at \in D : far(at) <= k => g[at] = h[at]}
  <2>1. ASSUME NEW at \in D PROVE far(at) \in Nat /\ at = <<at[1], at[2]>>
                                  /\ at[1] \in 1..Len(a) + 1 /\ at[2] \in 1..Len(b) + 1
    BY <1>1
  <2>2. \A at \in D : g[at] = Counting(a, b, g, at) /\ h[at] = Counting(a, b, h, at)
    <3> HIDE DEF h, D
    <3>1. QED BY <1>3, <1>4
  <2> HIDE DEF h
  <2>3. ASSUME NEW k \in Nat, \A x \in D : far(x) < k => g[x] = h[x],
               NEW at \in D, far(at) <= k
        PROVE  g[at] = h[at]
    <3> DEFINE m == at[1]
               n == at[2]
    <3>1. m \in 1..Len(a) + 1 /\ n \in 1..Len(b) + 1 BY <2>1
    <3>2. CASE m > Len(a) \/ n > Len(b) BY <2>2, <3>2 DEF Counting
    <3>3. CASE ~(m > Len(a) \/ n > Len(b))
      <4>0. Len(a) + 1 - m + (Len(b) + 1 - n) <= k BY <2>3
      <4> HIDE DEF m, n, D
      <4>1. m \in 1..Len(a) /\ n \in 1..Len(b) BY <1>1, <3>1, <3>3
      <4> USE DEF D
      <4>2. /\ <<m + 1, n>> \in D /\ <<m, n + 1>> \in D /\ <<m + 1, n + 1>> \in D
            /\ far(<<m + 1, n>>) < k /\ far(<<m, n + 1>>) < k /\ far(<<m + 1, n + 1>>) < k
        <5>1. /\ m \in Int /\ n \in Int /\ k \in Int /\ Len(a) \in Int /\ Len(b) \in Int
              /\ m + 1 \in 1..Len(a) + 1 /\ n + 1 \in 1..Len(b) + 1
              /\ m \in 1..Len(a) + 1 /\ n \in 1..Len(b) + 1
          BY <1>1, <4>1
        <5>2. /\ far(<<m + 1, n>>) = Len(a) + 1 - (m + 1) + (Len(b) + 1 - n)
              /\ far(<<m, n + 1>>) = Len(a) + 1 - m + (Len(b) + 1 - (n + 1))
              /\ far(<<m + 1, n + 1>>) = Len(a) + 1 - (m + 1) + (Len(b) + 1 - (n + 1))
          OBVIOUS
        <5>3. /\ <<m + 1, n>> \in D /\ <<m, n + 1>> \in D /\ <<m + 1, n + 1>> \in D
          BY <5>1
        <5> HIDE DEF far, D
        <5>4. far(<<m + 1, n>>) < k
          <6>1. Len(a) + 1 - (m + 1) + (Len(b) + 1 - n) < k BY <4>0, <5>1
          <6>2. QED BY <5>2, <6>1
        <5>5. far(<<m, n + 1>>) < k
          <6>1. Len(a) + 1 - m + (Len(b) + 1 - (n + 1)) < k BY <4>0, <5>1
          <6>2. QED BY <5>2, <6>1
        <5>6. far(<<m + 1, n + 1>>) < k
          <6>1. Len(a) + 1 - (m + 1) + (Len(b) + 1 - (n + 1)) < k BY <4>0, <5>1
          <6>2. QED BY <5>2, <6>1
        <5>7. QED BY <5>3, <5>4, <5>5, <5>6
      <4>3. /\ g[<<m + 1, n>>] = h[<<m + 1, n>>]
            /\ g[<<m, n + 1>>] = h[<<m, n + 1>>]
            /\ g[<<m + 1, n + 1>>] = h[<<m + 1, n + 1>>]
        <5> HIDE DEF far, D
        <5>1. QED BY <2>3, <4>2
      <4>4. QED BY <2>2, <4>3 DEF Counting, m, n
    <3>4. QED BY <3>2, <3>3
  <2>4. 0 \in S
    <3> HIDE DEF D
    <3> SUFFICES ASSUME NEW at \in D, far(at) <= 0 PROVE g[at] = h[at]
      OBVIOUS
    <3>1. \A x \in D : ~(far(x) < 0) BY <2>1
    <3> HIDE DEF far
    <3>2. QED BY <2>3, <3>1
  <2>5. ASSUME NEW k \in Nat, k \in S PROVE k + 1 \in S
    <3> HIDE DEF D
    <3> SUFFICES ASSUME NEW at \in D, far(at) <= k + 1 PROVE g[at] = h[at]
      OBVIOUS
    <3>1. \A x \in D : far(x) < k + 1 => far(x) <= k BY <2>1
    <3>2. \A x \in D : far(x) < k + 1 => g[x] = h[x] BY <2>5, <3>1
    <3> HIDE DEF far
    <3>3. QED BY <2>3, <3>2
  <2> HIDE DEF S
  <2>6. \A k \in Nat : k \in S BY <2>4, <2>5, NaturalsFrom
  <2>7. \A at \in D : g[at] = h[at]
    <3> SUFFICES ASSUME NEW at \in D PROVE g[at] = h[at]
      OBVIOUS
    <3>1. far(at) \in S /\ far(at) <= far(at) BY <2>1, <2>6
    <3> HIDE DEF D
    <3>2. QED BY <3>1 DEF S
  <2>8. QED
    <3> HIDE DEF D
    <3>1. DOMAIN g = D /\ g = [at \in D |-> g[at]] BY <1>4
    <3>2. h = [at \in D |-> h[at]] BY DEF h
    <3>3. QED BY <2>7, <3>1, <3>2
<1>5. (CHOOSE g : Solves(g)) = h
  <2> HIDE DEF Solves, h
  <2>1. Solves(CHOOSE g : Solves(g)) BY <1>3
  <2>2. QED BY <2>1, <1>4
<1>6. CountIn(a, b) = (CHOOSE g : Solves(g))[<<1, 1>>]
  BY DEF CountIn, Counting
<1>7. h[<<1, 1>>] = Cardinality(Shared(a, b, 1, 1)) BY <1>1
<1>8. Shared(a, b, 1, 1) = Elements(a) \cap Elements(b) BY DEF Shared, Elements
<1> HIDE DEF h, Solves
<1>9. QED BY <1>5, <1>6, <1>7, <1>8

-----------------------------------------------------------------------------
(* SearchIndex.                                                            *)

USE LowerAssumption, UnsetAssumption, LibrariesAssumption, QueriesAssumption

\* Appending something larger keeps a list strictly ascending.
LEMMA AscendingAppend ==
    ASSUME NEW s \in Seq(Nat), Ascending(s), NEW x \in Nat,
           \A y \in Elements(s) : y < x
    PROVE  /\ Append(s, x) \in Seq(Nat)
           /\ Ascending(Append(s, x))
           /\ Elements(Append(s, x)) = Elements(s) \cup {x}
<1> DEFINE t == Append(s, x)
<1>1. /\ t \in Seq(Nat) /\ Len(t) = Len(s) + 1 /\ Len(s) \in Nat
      /\ t[Len(s) + 1] = x
      /\ \A n \in 1..Len(s) : t[n] = s[n] /\ s[n] \in Elements(s) /\ s[n] \in Nat
  BY DEF Elements
<1>2. ASSUME NEW m \in 1..Len(t), NEW n \in 1..Len(t), m < n PROVE t[m] < t[n]
  <2>1. CASE n = Len(s) + 1
    <3>1. m \in 1..Len(s) /\ t[m] \in Elements(s) BY <1>1, <1>2, <2>1
    <3>2. QED BY <3>1, <1>1, <2>1
  <2>2. CASE n # Len(s) + 1
    <3>1. m \in 1..Len(s) /\ n \in 1..Len(s) BY <1>1, <1>2, <2>2
    <3>2. s[m] < s[n] BY <3>1, <1>2 DEF Ascending
    <3>3. QED BY <3>1, <3>2, <1>1
  <2>3. QED BY <2>1, <2>2
<1>3. Elements(t) = Elements(s) \cup {x}
  <2>1. \A n \in 1..Len(t) : t[n] \in Elements(s) \cup {x} BY <1>1
  <2>2. x \in Elements(t) BY <1>1 DEF Elements
  <2>3. \A n \in 1..Len(s) : s[n] = t[n] /\ n \in 1..Len(t) BY <1>1
  <2>4. \A n \in 1..Len(s) : s[n] \in Elements(t) BY <2>3 DEF Elements
  <2>5. QED BY <2>1, <2>2, <2>4 DEF Elements
<1>4. QED BY <1>1, <1>2, <1>3 DEF Ascending

\* Once the index is built, a constraint's list is the ascending list of the songs
\* that fit it.
LEMMA ListOfConstraint ==
    ASSUME TypeOK, ListsWellFormed, pc # "building",
           NEW q \in QueryType, NEW k \in Wanted(q)
    PROVE  /\ List(q, k) \in Seq(Nat) /\ Ascending(List(q, k))
           /\ Elements(List(q, k)) = {n \in 1..Len(songs) : Fits(n, q, k)}
<1>1. k \in 1..Len(q.exact) /\ q.exact \in Seq(Fields \X (Values \cup {Unset}))
  BY DEF Wanted, QueryType
<1>2. q.exact[k] \in Fields \X (Values \cup {Unset}) BY <1>1
<1>3. q.exact[k][1] \in Fields /\ q.exact[k][2] \in Values BY <1>2 DEF Wanted
<1>4. Key(q, k)[1] = q.exact[k][1] /\ Key(q, k)[2] \in Values BY <1>3 DEF Key
<1>5. List(q, k) \in Seq(Nat) BY <1>3, <1>4 DEF List, TypeOK
<1>6. Ascending(List(q, k)) BY <1>3, <1>4 DEF List, ListsWellFormed
<1>7. Elements(List(q, k)) =
        {n \in 1..built : songs[n][q.exact[k][1]] # Unset
                          /\ Lower[songs[n][q.exact[k][1]]] = Key(q, k)[2]}
  BY <1>3, <1>4 DEF List, ListsWellFormed
<1>8. built = Len(songs) BY DEF TypeOK
<1>9. QED BY <1>5, <1>6, <1>7, <1>8 DEF Fits

\* The variables start in their ranges and every step keeps them there.
LEMMA TypeInit == Init => TypeOK
<1> SUFFICES ASSUME Init PROVE TypeOK
  OBVIOUS
<1>1. songs \in Seq(Songs) /\ built \in 0..Len(songs) BY DEF Init
<1>2. exact \in [Fields -> [Values -> Seq(Nat)]] BY DEF Init
<1>3. query \in QueryType BY DEF Init, QueryType
<1>4. query.exact = <<>> BY DEF Init
<1>5. QED BY <1>1, <1>2, <1>3, <1>4 DEF Init, TypeOK

LEMMA TypeStep == TypeOK /\ [Next]_vars => TypeOK'
<1> SUFFICES ASSUME TypeOK, [Next]_vars PROVE TypeOK'
  OBVIOUS
<1> USE DEF TypeOK
<1>1. CASE IndexSong
  <2>1. built + 1 \in Nat /\ built + 1 \in 0..Len(songs) BY <1>1 DEF IndexSong
  <2>2. exact' \in [Fields -> [Values -> Seq(Nat)]]
    <3>1. ASSUME NEW f \in Fields, NEW v \in Values
          PROVE  /\ exact[f][v] \in Seq(Nat)
                 /\ Append(exact[f][v], built + 1) \in Seq(Nat)
      BY <2>1
    <3>2. QED BY <1>1, <3>1 DEF IndexSong, IndexExact
  <2>3. QED BY <1>1, <2>1, <2>2 DEF IndexSong, merge
<1>2. CASE Built
  BY <1>2 DEF Built, index, merge
<1>3. ASSUME NEW q \in Queries, Ask(q) PROVE TypeOK'
  <2>1. q \in QueryType /\ q.exact \in Seq(Fields \X (Values \cup {Unset}))
    BY DEF QueryType
  <2>2. Len(q.exact) \in Nat BY <2>1
  <2>3. pc # "building" /\ pc' \in {"answered", "pool", "lists"} BY <1>3 DEF Ask
  <2>4. All \in Seq(Nat)
    <3>1. Len(songs) \in Nat BY DEF Songs
    <3>2. QED BY <3>1 DEF All
  <2>5. \A k \in Wanted(q) : List(q, k) \in Seq(Nat)
    <3> SUFFICES ASSUME NEW k \in Wanted(q) PROVE List(q, k) \in Seq(Nat)
      OBVIOUS
    <3>1. q.exact[k] \in Fields \X (Values \cup {Unset}) BY <2>1 DEF Wanted
    <3>2. Key(q, k)[1] \in Fields /\ Key(q, k)[2] \in Values
      BY <3>1 DEF Wanted, Key
    <3>3. QED BY <3>2 DEF List
  <2>6. out' \in Seq(Nat)
    <3>1. out' = <<>> \/ out' = All \/ \E n \in Wanted(q) : out' = List(q, n)
      BY <1>3 DEF Ask
    <3>2. CASE out' = <<>> BY <3>2
    <3>3. CASE out' = All BY <3>3, <2>4
    <3>4. CASE \E n \in Wanted(q) : out' = List(q, n)
      <4>1. PICK n \in Wanted(q) : out' = List(q, n) BY <3>4
      <4>2. QED BY <4>1, <2>5
    <3>5. QED BY <3>1, <3>2, <3>3, <3>4
  <2>7. QED BY <1>3, <2>1, <2>2, <2>3, <2>6 DEF Ask, index
<1>4. CASE TakeList
  <2>1. Len(query.exact) \in Nat BY DEF QueryType
  <2>2. turn + 1 \in 1..Len(query.exact) + 1 /\ turn <= Len(query.exact)
    BY <1>4, <2>1 DEF TakeList
  <2>3. CASE UNCHANGED <<pc, i, j, common>> /\ turn' = turn + 1
    BY <1>4, <2>2, <2>3 DEF TakeList, index
  <2>4. CASE pc' = "merge" /\ i' = 1 /\ j' = 1 /\ common' = <<>> /\ UNCHANGED turn
    BY <1>4, <2>2, <2>4 DEF TakeList, index
  <2>5. QED BY <1>4, <2>3, <2>4 DEF TakeList
<1>5. CASE ListsDone
  BY <1>5 DEF ListsDone, index, merge
<1>6. CASE Compare
  <2>1. i \in 1..Len(out) /\ out[i] \in Nat BY <1>6 DEF Compare
  <2>2. Append(common, out[i]) \in Seq(Nat) BY <2>1
  <2>3. common' \in Seq(Nat) /\ i' \in Nat \ {0} /\ j' \in Nat \ {0}
    <3>1. /\ common' = common \/ common' = Append(common, out[i])
          /\ i' = i \/ i' = i + 1
          /\ j' = j \/ j' = j + 1
      BY <1>6 DEF Compare
    <3>2. common' \in Seq(Nat) BY <2>2, <3>1
    <3>3. i' \in Nat \ {0} BY <3>1
    <3>4. j' \in Nat \ {0} BY <3>1
    <3>5. QED BY <3>2, <3>3, <3>4
  <2>4. UNCHANGED <<songs, built, exact, turn, pc, query, out>>
    BY <1>6 DEF Compare, index
  <2>5. QED BY <2>3, <2>4
<1>7. CASE Merged
  <2>1. Len(query.exact) \in Nat BY DEF QueryType
  <2>2. turn + 1 \in 1..Len(query.exact) + 1 BY <1>7, <2>1 DEF Merged
  <2>3. QED BY <1>7, <2>2 DEF Merged, index
<1>8. CASE AnswerPool
  BY <1>8 DEF AnswerPool, index, merge
<1>9. CASE StartRanking
  BY <1>9 DEF StartRanking, index, merge
<1>10. CASE RankBest
  BY <1>10 DEF RankBest, index, merge
<1>11. CASE Ranked
  BY <1>11 DEF Ranked, index, merge
<1>12. CASE UNCHANGED vars
  BY <1>12 DEF vars, index, merge
<1>13. QED
  BY <1>1, <1>2, <1>3, <1>4, <1>5, <1>6, <1>7, <1>8, <1>9, <1>10, <1>11, <1>12 DEF Next

\* The lists of the inverted map stay complete and ascending as songs are added.
LEMMA ListsInit == Init => ListsWellFormed
<1> SUFFICES ASSUME Init, NEW f \in Fields, NEW v \in Values
             PROVE  /\ Ascending(exact[f][v])
                    /\ Elements(exact[f][v]) = {n \in 1..built : songs[n][f] # Unset
                                                               /\ Lower[songs[n][f]] = v}
  BY DEF ListsWellFormed
<1>1. exact[f][v] = <<>> /\ built = 0 BY DEF Init
<1>2. QED BY <1>1 DEF Ascending, Elements

LEMMA ListsStep == TypeOK /\ ListsWellFormed /\ [Next]_vars => ListsWellFormed'
<1> SUFFICES ASSUME TypeOK, ListsWellFormed, [Next]_vars PROVE ListsWellFormed'
  OBVIOUS
<1>1. CASE IndexSong
  <2> SUFFICES ASSUME NEW f \in Fields, NEW v \in Values
               PROVE  /\ Ascending(exact'[f][v])
                      /\ Elements(exact'[f][v]) =
                           {n \in 1..built + 1 : songs[n][f] # Unset
                                                 /\ Lower[songs[n][f]] = v}
    BY <1>1 DEF ListsWellFormed, IndexSong, Ascending, Elements
  <2> DEFINE n == built + 1
             s == exact[f][v]
  <2>1. s \in Seq(Nat) /\ Ascending(s) /\ n \in Nat /\ built \in Nat
    BY DEF TypeOK, ListsWellFormed
  <2>2. Elements(s) = {m \in 1..built : songs[m][f] # Unset /\ Lower[songs[m][f]] = v}
    BY DEF ListsWellFormed
  <2>3. \A y \in Elements(s) : y < n BY <2>1, <2>2
  <2>4. exact'[f][v] = IF songs[n][f] # Unset /\ Lower[songs[n][f]] = v
                       THEN Append(s, n) ELSE s
    BY <1>1 DEF IndexSong, IndexExact
  <2>5. \A m \in 1..n : m = n \/ m \in 1..built BY <2>1
  <2>6. 1..built \subseteq 1..n /\ n \in 1..n BY <2>1
  <2> HIDE DEF n, s
  <2>7. CASE songs[n][f] # Unset /\ Lower[songs[n][f]] = v
    <3>1. Ascending(Append(s, n)) /\ Elements(Append(s, n)) = Elements(s) \cup {n}
      BY <2>1, <2>3, AscendingAppend
    <3>2. exact'[f][v] = Append(s, n) BY <2>4, <2>7
    <3>3. Elements(s) \cup {n} =
            {m \in 1..n : songs[m][f] # Unset /\ Lower[songs[m][f]] = v}
      BY <2>2, <2>5, <2>6, <2>7
    <3>4. QED BY <3>1, <3>2, <3>3 DEF n
  <2>8. CASE ~(songs[n][f] # Unset /\ Lower[songs[n][f]] = v)
    <3>1. exact'[f][v] = s BY <2>4, <2>8
    <3>2. Elements(s) = {m \in 1..n : songs[m][f] # Unset /\ Lower[songs[m][f]] = v}
      BY <2>2, <2>5, <2>6, <2>8
    <3>3. QED BY <2>1, <3>1, <3>2 DEF n
  <2>9. QED BY <2>7, <2>8
<1>2. CASE UNCHANGED index
  BY <1>2 DEF index, ListsWellFormed, Ascending, Elements
<1>3. IndexSong \/ UNCHANGED index
  BY DEF Next, vars, Built, Ask, TakeList, ListsDone, Compare, Merged, AnswerPool,
         StartRanking, RankBest, Ranked
<1>4. QED BY <1>1, <1>2, <1>3

\* A free-text query ranks, and a query without one returns, exactly the songs that
\* satisfy the constraints: the merge of the lists is exact.
LEMMA ExactInit == Init => MergeInv /\ CompareInv /\ PoolExact /\ DrillDownComplete
BY DEF Init, MergeInv, CompareInv, PoolExact, DrillDownComplete

LEMMA AskExact ==
    ASSUME IInv, TypeOK', NEW q \in Queries, Ask(q)
    PROVE  MergeInv' /\ CompareInv' /\ PoolExact' /\ DrillDownComplete'
<1>1. /\ q \in QueryType /\ pc # "building" /\ query' = q /\ songs' = songs /\ exact' = exact
      /\ TypeOK /\ ListsWellFormed /\ turn' = 1
  BY DEF QueryType, Ask, IInv, index
<1>2. /\ Matching(q)' = Matching(q) /\ Wanted(q)' = Wanted(q)
      /\ \A n, k : Fits(n, q, k)' = Fits(n, q, k)
  BY <1>1 DEF Matching, Wanted, Fits
<1>3. Matching(query)' = Matching(q) BY <1>1 DEF Matching, Wanted, Fits, Key
<1>4. CASE MatchesNothing(q) /\ pc' = "answered"
  BY <1>1, <1>4 DEF MergeInv, CompareInv, PoolExact, DrillDownComplete, MatchesNothing, Wanted
<1>5. CASE ~MatchesNothing(q) /\ Wanted(q) = {} /\ pc' = "pool" /\ out' = All
  <2>1. Matching(q) = 1..Len(songs) BY <1>5 DEF Matching
  <2>2. Len(songs) \in Nat BY <1>1 DEF TypeOK
  <2>3. Ascending(All) /\ Elements(All) = 1..Len(songs)
    BY <2>2 DEF All, Ascending, Elements
  <2>4. Ascending(out)' /\ Elements(out)' = Matching(query)'
    BY <1>3, <1>5, <2>1, <2>3 DEF Ascending, Elements
  <2>5. QED BY <1>5, <2>4 DEF MergeInv, CompareInv, PoolExact, DrillDownComplete
<1>6. CASE /\ \E n \in Wanted(q) : List(q, n) = <<>>
           /\ pc' = "pool" /\ out' = <<>>
  <2>1. PICK n \in Wanted(q) : List(q, n) = <<>> BY <1>6
  <2>2. {m \in 1..Len(songs) : Fits(m, q, n)} = {}
    BY <1>1, <2>1, ListOfConstraint DEF Elements
  <2>3. Matching(q) = {} BY <2>2, <2>1 DEF Matching
  <2>4. Ascending(out)' /\ Elements(out)' = {} BY <1>6 DEF Ascending, Elements
  <2>5. QED BY <1>3, <1>6, <2>3, <2>4 DEF MergeInv, CompareInv, PoolExact, DrillDownComplete
<1>7. ASSUME ~MatchesNothing(q),
             NEW n \in Wanted(q), start' = n, out' = List(q, n), pc' = "lists"
      PROVE  MergeInv' /\ CompareInv' /\ PoolExact' /\ DrillDownComplete'
  <2>1. /\ Ascending(List(q, n))
        /\ Elements(List(q, n)) = {m \in 1..Len(songs) : Fits(m, q, n)}
    BY <1>1, ListOfConstraint
  <2>2. \A k \in Wanted(q) : k \in 1..Len(q.exact) /\ ~(k < turn')
    BY <1>1 DEF Wanted, QueryType
  <2>3. ASSUME NEW k \in Wanted(q), Key(q, k) = Key(q, n), NEW m, Fits(m, q, n)
        PROVE  Fits(m, q, k)
    BY <2>3 DEF Fits, Key
  <2>4. {m \in 1..Len(songs) : Fits(m, q, n)} =
        {m \in 1..Len(songs) : \A k \in Wanted(q) :
            k < turn' \/ Key(q, k) = Key(q, n) => Fits(m, q, k)}
    BY <2>2, <2>3
  <2>5. /\ Wanted(query)' = Wanted(q) /\ MatchesNothing(query)' = MatchesNothing(q)
        /\ \A k : Key(query, k)' = Key(q, k)
        /\ \A m, k : Fits(m, query, k)' = Fits(m, q, k)
    BY <1>1 DEF MatchesNothing, Wanted, Key, Fits
  <2>6. Ascending(out)' /\ Elements(out)' = {m \in 1..Len(songs) : Fits(m, q, n)}
    BY <1>7, <2>1 DEF Ascending, Elements
  <2>7. start' = n /\ songs' = songs BY <1>1, <1>7
  <2>8. MergeInv' BY <1>7, <2>4, <2>5, <2>6, <2>7 DEF MergeInv
  <2>9. QED BY <1>7, <2>8 DEF CompareInv, PoolExact, DrillDownComplete
<1>8. QED BY <1>4, <1>5, <1>6, <1>7 DEF Ask

LEMMA CompareExact ==
    ASSUME IInv, Compare
    PROVE  MergeInv' /\ CompareInv'
<1> DEFINE b == List(query, turn)
<1>1. /\ TypeOK /\ ListsWellFormed /\ MergeInv /\ CompareInv /\ pc = "merge"
      /\ UNCHANGED <<index, start, turn, pc, query, out>>
  BY DEF IInv, Compare
<1>2. /\ query \in QueryType /\ turn \in Wanted(query) /\ pc # "building"
  BY <1>1 DEF TypeOK, CompareInv
<1>3. b \in Seq(Nat) /\ Ascending(b) BY <1>1, <1>2, ListOfConstraint
<1>4. MergeInv'
  BY <1>1 DEF MergeInv, index, MatchesNothing, Wanted, Key, Fits, Ascending, Elements
<1>5. b' = b /\ Wanted(query)' = Wanted(query) BY <1>1 DEF List, Key, index, Wanted
<1>6. /\ out \in Seq(Nat) /\ common \in Seq(Nat) /\ Ascending(out) /\ Ascending(common)
      /\ i \in 1..Len(out) /\ j \in 1..Len(b) /\ Len(out) \in Nat /\ Len(b) \in Nat
      /\ out[i] \in Nat /\ b[j] \in Nat
      /\ \A x \in 1..Len(out) : out[x] \in Nat
      /\ \A y \in 1..Len(b) : b[y] \in Nat
  <2>1. /\ out \in Seq(Nat) /\ common \in Seq(Nat) /\ i \in Nat \ {0} /\ j \in Nat \ {0}
    BY <1>1 DEF TypeOK
  <2>2. Ascending(out) /\ Ascending(common) BY <1>1 DEF MergeInv, CompareInv
  <2>3. i <= Len(out) /\ j <= Len(b) BY DEF Compare
  <2> HIDE DEF b
  <2>4. Len(out) \in Nat /\ Len(b) \in Nat BY <1>3, <2>1
  <2>5. /\ \A x \in 1..Len(out) : out[x] \in Nat
        /\ \A y \in 1..Len(b) : b[y] \in Nat
    BY <1>3, <2>1
  <2>6. i \in 1..Len(out) /\ j \in 1..Len(b) BY <2>1, <2>3, <2>4
  <2>7. QED BY <2>1, <2>2, <2>4, <2>5, <2>6
<1>7. /\ \A m \in 1..Len(common) : \E x \in 1..i - 1, y \in 1..j - 1 :
              common[m] = out[x] /\ common[m] = b[y]
      /\ \A x \in 1..Len(out), y \in 1..Len(b) :
              out[x] = b[y] /\ (x < i \/ y < j) => \E m \in 1..Len(common) : common[m] = out[x]
  BY <1>1 DEF CompareInv
<1> SUFFICES
      /\ i' <= Len(out) + 1 /\ j' <= Len(b) + 1
      /\ Ascending(common')
      /\ \A m \in 1..Len(common') : \E x \in 1..i' - 1, y \in 1..j' - 1 :
              common'[m] = out[x] /\ common'[m] = b[y]
      /\ \A x \in 1..Len(out), y \in 1..Len(b) :
              out[x] = b[y] /\ (x < i' \/ y < j') => \E m \in 1..Len(common') : common'[m] = out[x]
  BY <1>1, <1>2, <1>4, <1>5 DEF CompareInv, Ascending
<1> HIDE DEF b
<1>8. CASE out[i] < b[j] /\ i' = i + 1 /\ UNCHANGED <<j, common>>
  <2>1. ASSUME NEW y \in 1..Len(b), out[i] = b[y] PROVE y < j
    BY <1>3, <1>6, <1>8, <2>1, SMTT(30) DEF Ascending
  <2>2. \A x \in 1..Len(out) : x < i' => x < i \/ x = i BY <1>6, <1>8
  <2>3. ASSUME NEW m \in 1..Len(common)
        PROVE  \E x \in 1..i' - 1, y \in 1..j' - 1 : common[m] = out[x] /\ common[m] = b[y]
    <3>1. 1..i - 1 \subseteq 1..i' - 1 /\ j' = j BY <1>6, <1>8
    <3>2. QED BY <1>7, <3>1
  <2>4. QED BY <1>6, <1>7, <1>8, <2>1, <2>2, <2>3, SMTT(30)
<1>9. CASE out[i] > b[j] /\ j' = j + 1 /\ UNCHANGED <<i, common>>
  <2>1. ASSUME NEW x \in 1..Len(out), out[x] = b[j] PROVE x < i
    BY <1>6, <1>9, <2>1, SMTT(30) DEF Ascending
  <2>2. \A y \in 1..Len(b) : y < j' => y < j \/ y = j BY <1>6, <1>9
  <2>3. ASSUME NEW m \in 1..Len(common)
        PROVE  \E x \in 1..i' - 1, y \in 1..j' - 1 : common[m] = out[x] /\ common[m] = b[y]
    <3>1. 1..j - 1 \subseteq 1..j' - 1 /\ i' = i BY <1>6, <1>9
    <3>2. QED BY <1>7, <3>1
  <2>4. QED BY <1>6, <1>7, <1>9, <2>1, <2>2, <2>3
<1>10. CASE /\ out[i] = b[j] /\ common' = Append(common, out[i])
            /\ i' = i + 1 /\ j' = j + 1
  <2>1. \A z \in Elements(common) : z < out[i]
    <3> SUFFICES ASSUME NEW m \in 1..Len(common) PROVE common[m] < out[i]
      BY DEF Elements
    <3>1. PICK x \in 1..i - 1 : common[m] = out[x] BY <1>7
    <3>2. x \in 1..Len(out) /\ x < i BY <1>6
    <3>3. QED BY <1>6, <3>1, <3>2 DEF Ascending
  <2>2. Ascending(common') BY <1>6, <1>10, <2>1, AscendingAppend
  <2>3. /\ Len(common') = Len(common) + 1 /\ Len(common) \in Nat
        /\ common'[Len(common) + 1] = out[i]
        /\ \A m \in 1..Len(common) : common'[m] = common[m]
    BY <1>6, <1>10
  <2>4. 1..i - 1 \subseteq 1..i' - 1 /\ 1..j - 1 \subseteq 1..j' - 1
        /\ i \in 1..i' - 1 /\ j \in 1..j' - 1
    BY <1>6, <1>10
  <2>5. ASSUME NEW m \in 1..Len(common')
        PROVE  \E x \in 1..i' - 1, y \in 1..j' - 1 : common'[m] = out[x] /\ common'[m] = b[y]
    <3>1. CASE m \in 1..Len(common)
      <4>1. PICK x \in 1..i - 1, y \in 1..j - 1 : common[m] = out[x] /\ common[m] = b[y]
        BY <1>7, <3>1
      <4>2. x \in 1..i' - 1 /\ y \in 1..j' - 1 /\ common'[m] = common[m]
        BY <2>3, <2>4, <3>1
      <4>3. QED BY <4>1, <4>2
    <3>2. CASE m = Len(common) + 1 BY <1>10, <2>3, <2>4, <3>2
    <3>3. QED BY <2>3, <3>1, <3>2
  <2>6. ASSUME NEW x \in 1..Len(out), NEW y \in 1..Len(b),
               out[x] = b[y], x < i' \/ y < j'
        PROVE  \E m \in 1..Len(common') : common'[m] = out[x]
    <3>1. CASE x < i \/ y < j
      <4>1. PICK m \in 1..Len(common) : common[m] = out[x] BY <1>7, <2>6, <3>1
      <4>2. m \in 1..Len(common') /\ common'[m] = out[x] BY <2>3, <4>1
      <4>3. QED BY <4>2
    <3>2. CASE x = i \/ y = j
      <4>1. out[x] = out[i] BY <1>10, <2>6, <3>2
      <4>2. Len(common) + 1 \in 1..Len(common') BY <2>3
      <4>3. QED BY <2>3, <4>1, <4>2
    <3>3. x \in Nat /\ y \in Nat /\ i \in Nat /\ j \in Nat BY <1>6
    <3>4. (x < i \/ y < j) \/ (x = i \/ y = j) BY <1>10, <2>6, <3>3
    <3>5. QED BY <3>1, <3>2, <3>4
  <2>7. i' <= Len(out) + 1 /\ j' <= Len(b) + 1 BY <1>6, <1>10
  <2> HIDE DEF b
  <2>8. QED BY <2>2, <2>5, <2>6, <2>7
<1>11. QED BY <1>8, <1>9, <1>10 DEF Compare, b

LEMMA TakeListExact ==
    ASSUME IInv, TypeOK', TakeList
    PROVE  MergeInv' /\ CompareInv'
<1>1. /\ TypeOK /\ ListsWellFormed /\ MergeInv /\ pc = "lists" /\ turn <= Len(query.exact)
      /\ UNCHANGED <<index, start, query, out>>
  BY DEF IInv, TakeList
<1>2. /\ Wanted(query)' = Wanted(query) /\ MatchesNothing(query)' = MatchesNothing(query)
      /\ \A k : Key(query, k)' = Key(query, k)
      /\ \A n, k : Fits(n, query, k)' = Fits(n, query, k)
      /\ List(query, turn)' = exact[Key(query, turn)'[1]][Key(query, turn)'[2]]
  BY <1>1 DEF index, Wanted, MatchesNothing, Key, Fits, List
<1>3. /\ start \in Wanted(query) /\ ~MatchesNothing(query) /\ Ascending(out)
      /\ Elements(out) = {n \in 1..Len(songs) : \A k \in Wanted(query) :
             k < turn \/ Key(query, k) = Key(query, start) => Fits(n, query, k)}
  BY <1>1 DEF MergeInv
<1>4. Ascending(out)' /\ Elements(out)' = Elements(out) /\ songs' = songs /\ start' = start
  BY <1>1, <1>3 DEF Ascending, Elements, index
<1>5. CASE /\ turn \notin Wanted(query) \/ Key(query, turn) = Key(query, start)
           /\ turn' = turn + 1 /\ UNCHANGED <<pc, i, j, common>>
  <2>1. turn \in Nat /\ \A k \in Wanted(query) : k \in Nat
    BY <1>1 DEF TypeOK, Wanted, QueryType
  <2>2. \A k \in Wanted(query) :
          (k < turn' \/ Key(query, k) = Key(query, start))
          <=> (k < turn \/ Key(query, k) = Key(query, start))
    <3> SUFFICES ASSUME NEW k \in Wanted(query)
                 PROVE  (k < turn' \/ Key(query, k) = Key(query, start))
                        <=> (k < turn \/ Key(query, k) = Key(query, start))
      OBVIOUS
    <3>1. k < turn' <=> k < turn \/ k = turn BY <1>5, <2>1
    <3>2. k = turn => Key(query, k) = Key(query, start) BY <1>5
    <3>3. QED BY <3>1, <3>2
  <2>3. {n \in 1..Len(songs) : \A k \in Wanted(query) :
           k < turn' \/ Key(query, k) = Key(query, start) => Fits(n, query, k)}
        = Elements(out)
    BY <1>3, <2>2
  <2>4. MergeInv' BY <1>2, <1>3, <1>4, <2>3 DEF MergeInv
  <2>5. QED BY <1>1, <1>5, <2>4 DEF CompareInv
<1>6. CASE /\ turn \in Wanted(query)
           /\ pc' = "merge" /\ i' = 1 /\ j' = 1 /\ common' = <<>> /\ UNCHANGED turn
  <2>1. MergeInv' BY <1>2, <1>3, <1>4, <1>6 DEF MergeInv
  <2>2. List(query, turn)' = List(query, turn) BY <1>1, <1>6 DEF List, Key, index
  <2>3. List(query, turn) \in Seq(Nat)
    BY <1>1, <1>6, ListOfConstraint DEF TypeOK
  <2>4. Len(out) \in Nat /\ Len(List(query, turn)) \in Nat BY <1>1, <2>3 DEF TypeOK
  <2>5. /\ i' <= Len(out) + 1 /\ j' <= Len(List(query, turn)) + 1 /\ Ascending(common)'
        /\ Len(common') = 0
        /\ \A x \in 1..Len(out) : ~(x < i')
        /\ \A y \in 1..Len(List(query, turn)) : ~(y < j')
    BY <1>6, <2>4 DEF Ascending
  <2>6. turn' \in Wanted(query)' /\ out' = out BY <1>1, <1>2, <1>6
  <2>7. CompareInv' BY <2>2, <2>5, <2>6 DEF CompareInv
  <2>8. QED BY <2>1, <2>7
<1>7. QED BY <1>5, <1>6 DEF TakeList

LEMMA MergedExact ==
    ASSUME IInv, Merged
    PROVE  MergeInv' /\ CompareInv'
<1> DEFINE b == List(query, turn)
<1>1. /\ TypeOK /\ ListsWellFormed /\ MergeInv /\ CompareInv /\ pc = "merge"
      /\ UNCHANGED <<index, start, query>> /\ turn' = turn + 1 /\ out' = common
      /\ i > Len(out) \/ j > Len(b)
  BY DEF IInv, Merged
<1>2. /\ Wanted(query)' = Wanted(query) /\ MatchesNothing(query)' = MatchesNothing(query)
      /\ \A k : Key(query, k)' = Key(query, k)
      /\ \A n, k : Fits(n, query, k)' = Fits(n, query, k)
      /\ songs' = songs /\ start' = start
  BY <1>1 DEF index, Wanted, MatchesNothing, Key, Fits
<1>3. /\ start \in Wanted(query) /\ ~MatchesNothing(query)
      /\ Elements(out) = {n \in 1..Len(songs) : \A k \in Wanted(query) :
             k < turn \/ Key(query, k) = Key(query, start) => Fits(n, query, k)}
      /\ turn \in Wanted(query) /\ Ascending(common)
      /\ \A m \in 1..Len(common) : \E x \in 1..i - 1, y \in 1..j - 1 :
              common[m] = out[x] /\ common[m] = b[y]
      /\ \A x \in 1..Len(out), y \in 1..Len(b) :
              out[x] = b[y] /\ (x < i \/ y < j) => \E m \in 1..Len(common) : common[m] = out[x]
      /\ i <= Len(out) + 1 /\ j <= Len(b) + 1
  BY <1>1 DEF MergeInv, CompareInv
<1>4. /\ b \in Seq(Nat) /\ Elements(b) = {n \in 1..Len(songs) : Fits(n, query, turn)}
  BY <1>1, <1>3, ListOfConstraint DEF TypeOK
<1>5. i \in Nat /\ j \in Nat /\ out \in Seq(Nat) BY <1>1 DEF TypeOK
<1> HIDE DEF b
<1>6. Len(out) \in Nat /\ Len(b) \in Nat BY <1>4, <1>5
<1>7. /\ 1..i - 1 \subseteq 1..Len(out) /\ 1..j - 1 \subseteq 1..Len(b)
      /\ \A x \in 1..Len(out), y \in 1..Len(b) : x < i \/ y < j
  BY <1>1, <1>3, <1>5, <1>6
<1>8. Elements(common) = Elements(out) \cap Elements(b)
  <2>1. ASSUME NEW m \in 1..Len(common) PROVE common[m] \in Elements(out) \cap Elements(b)
    <3>1. PICK x \in 1..i - 1, y \in 1..j - 1 : common[m] = out[x] /\ common[m] = b[y]
      BY <1>3
    <3>2. x \in 1..Len(out) /\ y \in 1..Len(b) BY <1>7
    <3>3. QED BY <3>1, <3>2 DEF Elements
  <2>2. ASSUME NEW z \in Elements(out) \cap Elements(b) PROVE z \in Elements(common)
    <3>1. PICK x \in 1..Len(out), y \in 1..Len(b) : z = out[x] /\ z = b[y]
      BY <2>2 DEF Elements
    <3>2. PICK m \in 1..Len(common) : common[m] = out[x] BY <1>3, <1>7, <3>1
    <3>3. QED BY <3>1, <3>2 DEF Elements
  <2>3. QED BY <2>1, <2>2 DEF Elements
<1>9. turn \in Nat /\ \A k \in Wanted(query) : k \in Nat
  BY <1>1 DEF TypeOK, Wanted, QueryType
<1>10. \A k \in Wanted(query) : k < turn' <=> k < turn \/ k = turn
  BY <1>1, <1>9
<1>11. Elements(common) = {n \in 1..Len(songs) : \A k \in Wanted(query) :
             k < turn' \/ Key(query, k) = Key(query, start) => Fits(n, query, k)}
  BY <1>3, <1>4, <1>8, <1>10
<1>12. Ascending(out)' /\ Elements(out)' = Elements(common)
  BY <1>1, <1>3 DEF Ascending, Elements
<1>13. MergeInv' BY <1>2, <1>3, <1>11, <1>12 DEF MergeInv
<1>14. QED BY <1>13 DEF Merged, CompareInv

LEMMA ListsDoneExact ==
    ASSUME IInv, ListsDone
    PROVE  PoolExact'
<1>1. /\ TypeOK /\ MergeInv /\ pc = "lists" /\ turn > Len(query.exact)
      /\ UNCHANGED <<index, query, out>>
  BY DEF IInv, ListsDone
<1>2. \A k \in Wanted(query) : k < turn BY <1>1 DEF TypeOK, Wanted, QueryType
<1>3. Elements(out) = Matching(query) /\ Ascending(out) BY <1>1, <1>2 DEF MergeInv, Matching
<1>4. Elements(out)' = Elements(out) /\ Ascending(out)' /\ Matching(query)' = Matching(query)
  BY <1>1, <1>3 DEF Elements, Ascending, Matching, Wanted, Fits, Key, index
<1>5. QED BY <1>3, <1>4 DEF PoolExact

LEMMA AnswerPoolExact ==
    ASSUME IInv, AnswerPool
    PROVE  DrillDownComplete'
<1>1. /\ TypeOK /\ PoolExact /\ pc = "pool" /\ UNCHANGED <<index, query>>
      /\ result' = [n \in 1..Len(out) |-> Track(out[n], 0)]
  BY DEF IInv, AnswerPool
<1>2. Ascending(out) /\ Elements(out) = Matching(query) /\ Len(out) \in Nat
  BY <1>1 DEF PoolExact, TypeOK
<1>3. /\ Len(result') = Len(out)
      /\ \A n \in 1..Len(out) : result'[n].song = out[n]
  BY <1>1, <1>2 DEF Track
<1>4. Matching(query)' = Matching(query)
  BY <1>1 DEF Matching, Wanted, Fits, Key, index
<1>5. \A m, n \in 1..Len(out) : m < n => result'[m].song < result'[n].song
  BY <1>2, <1>3 DEF Ascending
<1>6. {result'[n].song : n \in 1..Len(out)} = Elements(out) BY <1>3 DEF Elements
<1>7. QED BY <1>2, <1>3, <1>4, <1>5, <1>6 DEF DrillDownComplete

\* The strengthening under which the exactness of the merge is inductive.
THEOREM IInvCorrect == Spec => []IInv
<1>1. Init => IInv
  BY TypeInit, ListsInit, ExactInit DEF IInv
<1>2. IInv /\ [Next]_vars => IInv'
  <2> SUFFICES ASSUME IInv, [Next]_vars PROVE IInv'
    OBVIOUS
  <2>1. TypeOK' /\ ListsWellFormed' BY TypeStep, ListsStep DEF IInv
  <2>2. TypeOK /\ MergeInv /\ CompareInv /\ PoolExact /\ DrillDownComplete BY DEF IInv
  <2> SUFFICES MergeInv' /\ CompareInv' /\ PoolExact' /\ DrillDownComplete'
    BY <2>1 DEF IInv
  <2>3. CASE IndexSong \/ Built
    BY <2>2, <2>3 DEF IndexSong, Built, TypeOK, MergeInv, CompareInv, PoolExact, DrillDownComplete
  <2>4. ASSUME NEW q \in Queries, Ask(q)
        PROVE  MergeInv' /\ CompareInv' /\ PoolExact' /\ DrillDownComplete'
    BY <2>1, <2>4, AskExact
  <2>5. CASE TakeList
    <3>1. pc' \in {"lists", "merge"} BY <2>2, <2>5 DEF TakeList, TypeOK
    <3>2. QED BY <2>1, <2>5, <3>1, TakeListExact DEF PoolExact, DrillDownComplete
  <2>6. CASE ListsDone
    <3>1. pc' = "pool" BY <2>6 DEF ListsDone
    <3>2. QED BY <2>6, <3>1, ListsDoneExact DEF MergeInv, CompareInv, DrillDownComplete
  <2>7. CASE Compare
    <3>1. pc' = "merge" BY <2>7 DEF Compare
    <3>2. QED BY <2>7, <3>1, CompareExact DEF PoolExact, DrillDownComplete
  <2>8. CASE Merged
    <3>1. pc' = "lists" BY <2>8 DEF Merged
    <3>2. QED BY <2>8, <3>1, MergedExact DEF PoolExact, DrillDownComplete
  <2>9. CASE AnswerPool
    <3>1. pc' = "answered" BY <2>9 DEF AnswerPool
    <3>2. QED BY <2>9, <3>1, AnswerPoolExact DEF MergeInv, CompareInv, PoolExact
  <2>10. CASE StartRanking \/ RankBest
    <3>1. /\ pc \in {"pool", "rank"} /\ pc' = "rank" /\ UNCHANGED <<songs, query, out>>
      BY <2>10 DEF StartRanking, RankBest, index
    <3>2. PoolExact'
      BY <2>2, <3>1 DEF PoolExact, Ascending, Elements, Matching, Wanted, Fits, Key
    <3>3. QED BY <3>1, <3>2 DEF MergeInv, CompareInv, DrillDownComplete
  <2>11. CASE Ranked
    <3>1. pc' = "answered" /\ query'.term # NoTerm BY <2>2, <2>11 DEF Ranked, TypeOK
    <3>2. QED BY <3>1 DEF MergeInv, CompareInv, PoolExact, DrillDownComplete
  <2>12. CASE UNCHANGED vars
    <3>1. UNCHANGED <<songs, exact, pc, query, start, turn, i, j, out, common, result>>
      BY <2>12 DEF vars, index, merge
    <3>2. /\ Wanted(query)' = Wanted(query) /\ Matching(query)' = Matching(query)
          /\ MatchesNothing(query)' = MatchesNothing(query)
          /\ List(query, turn)' = List(query, turn)
          /\ \A k : Key(query, k)' = Key(query, k)
          /\ \A n, k : Fits(n, query, k)' = Fits(n, query, k)
      BY <3>1 DEF Wanted, Matching, MatchesNothing, List, Key, Fits
    <3>3. /\ Ascending(out)' = Ascending(out) /\ Elements(out)' = Elements(out)
          /\ Ascending(common)' = Ascending(common)
      BY <3>1 DEF Ascending, Elements
    <3>4. MergeInv' BY <2>2, <3>1, <3>2, <3>3 DEF MergeInv
    <3>5. CompareInv' BY <2>2, <3>1, <3>2, <3>3 DEF CompareInv
    <3>6. PoolExact' BY <2>2, <3>1, <3>2, <3>3 DEF PoolExact
    <3>7. DrillDownComplete' BY <2>2, <3>1, <3>2 DEF DrillDownComplete
    <3>8. QED BY <3>4, <3>5, <3>6, <3>7
  <2>13. QED
    BY <2>3, <2>4, <2>5, <2>6, <2>7, <2>8, <2>9, <2>10, <2>11, <2>12 DEF Next
<1>3. QED BY <1>1, <1>2, PTL DEF Spec

\* A query without a free-text term returns every track that satisfies its
\* constraints, in library order, and no other: for every library and query.
THEOREM DrillDownCorrect == Spec => []DrillDownComplete
<1>1. IInv => DrillDownComplete BY DEF IInv
<1>2. QED BY <1>1, IInvCorrect, PTL

-----------------------------------------------------------------------------
(* Artists and albums.                                                     *)

ByArtist(v) == {n \in 1..built : v \in {songs[n]["artist"], songs[n]["albumartist"]}}
OnAlbum(k) == {n \in 1..built : songs[n]["album"] = k[1] /\ songs[n]["albumartist"] = k[2]}
AlbumKeys == Values \X (Values \cup {Unset})

\* The lists of artists and albums hold the songs attributed to them, and an artist is
\* drilled into as an album artist exactly when a song names it as one.
AttributionInv ==
    /\ artists \in [Values -> [own : BOOLEAN, songs : Seq(Nat)]]
    /\ albums \in [AlbumKeys -> Seq(Nat)]
    /\ \A v \in Values :
          /\ Ascending(artists[v].songs) /\ Elements(artists[v].songs) = ByArtist(v)
          /\ artists[v].own <=> \E n \in 1..built : songs[n]["albumartist"] = v
    /\ \A k \in AlbumKeys : Ascending(albums[k]) /\ Elements(albums[k]) = OnAlbum(k)

LEMMA AttributionInit == Init => AttributionInv
<1> SUFFICES ASSUME Init PROVE AttributionInv
  OBVIOUS
<1>1. \A v \in Values : artists[v] = [own |-> FALSE, songs |-> <<>>] BY DEF Init
<1>2. \A k \in AlbumKeys : albums[k] = <<>> BY DEF Init, AlbumKeys
<1>3. artists \in [Values -> [own : BOOLEAN, songs : Seq(Nat)]] BY DEF Init
<1>4. albums \in [AlbumKeys -> Seq(Nat)] BY DEF Init, AlbumKeys
<1>5. built = 0 /\ 1..built = {} BY DEF Init
<1>6. Ascending(<<>>) /\ Elements(<<>>) = {} BY DEF Ascending, Elements
<1>7. QED BY <1>1, <1>2, <1>3, <1>4, <1>5, <1>6 DEF AttributionInv, ByArtist, OnAlbum

\* A list to which the next song is appended exactly when it belongs there.
LEMMA GrowingList ==
    ASSUME NEW n \in Nat, NEW s \in Seq(Nat), NEW P, NEW t,
           Ascending(s), Elements(s) = (1..n) \cap P,
           t = IF n + 1 \in P THEN Append(s, n + 1) ELSE s
    PROVE  t \in Seq(Nat) /\ Ascending(t) /\ Elements(t) = (1..n + 1) \cap P
<1>1. 1..n + 1 = 1..n \cup {n + 1} OBVIOUS
<1>2. \A y \in Elements(s) : y < n + 1 OBVIOUS
<1>3. CASE n + 1 \in P
  <2>1. t = Append(s, n + 1) BY <1>3
  <2>2. t \in Seq(Nat) /\ Ascending(t) /\ Elements(t) = Elements(s) \cup {n + 1}
    BY <1>2, <2>1, AscendingAppend
  <2>3. QED BY <1>1, <1>3, <2>2
<1>4. CASE n + 1 \notin P
  BY <1>1, <1>4
<1>5. QED BY <1>3, <1>4

LEMMA AttributionStep == TypeOK /\ AttributionInv /\ [Next]_vars => AttributionInv'
<1> SUFFICES ASSUME TypeOK, AttributionInv, [Next]_vars PROVE AttributionInv'
  OBVIOUS
<1>1. CASE IndexSong
  <2> DEFINE n == built + 1
             s == songs[n]
  <2>1. /\ built \in Nat /\ built' = n /\ songs' = songs /\ n \in 1..Len(songs)
        /\ s \in [Fields -> Values \cup {Unset}]
    <3>1. built \in Nat /\ built' = n /\ songs' = songs /\ n \in 1..Len(songs)
      BY <1>1 DEF IndexSong, TypeOK
    <3>2. QED BY <3>1 DEF TypeOK, Songs
  <2>2. 1..n = 1..built \cup {n} BY <2>1
  <2>3. ASSUME NEW v \in Values
        PROVE  /\ artists'[v].songs \in Seq(Nat) /\ artists'[v].own \in BOOLEAN
               /\ artists'[v] = [own |-> artists'[v].own, songs |-> artists'[v].songs]
               /\ Ascending(artists'[v].songs) /\ Elements(artists'[v].songs) = ByArtist(v)'
               /\ artists'[v].own <=> \E m \in 1..n : songs[m]["albumartist"] = v
    <3> DEFINE l == artists[v].songs
               t == artists'[v].songs
               P == {m \in 1..n : v \in {songs[m]["artist"], songs[m]["albumartist"]}}
    <3>1. artists'[v] = [own |-> artists[v].own \/ v = s["albumartist"],
                         songs |-> IF v \in Names(s) THEN Append(l, n) ELSE l]
      BY <1>1 DEF IndexSong, IndexArtists
    <3>2. /\ l \in Seq(Nat) /\ artists[v].own \in BOOLEAN /\ Ascending(l)
          /\ Elements(l) = ByArtist(v)
          /\ artists[v].own <=> \E m \in 1..built : songs[m]["albumartist"] = v
      BY DEF AttributionInv
    <3>3. Elements(l) = (1..built) \cap P
      BY <2>2, <3>2 DEF ByArtist
    <3>4. v \in Names(s) <=> n \in P
      BY <2>2 DEF Names
    <3>5. t \in Seq(Nat) /\ Ascending(t) /\ Elements(t) = (1..n) \cap P
      <4>1. t = IF n \in P THEN Append(l, n) ELSE l BY <3>1, <3>4
      <4>2. l \in Seq(Nat) /\ Ascending(l) /\ built \in Nat BY <2>1, <3>2
      <4> HIDE DEF P, l, s
      <4>3. QED BY <3>3, <4>1, <4>2, GrowingList, ZenonT(30)
    <3>6. Elements(t) = ByArtist(v)' BY <2>1, <3>5 DEF ByArtist
    <3>7. artists'[v].own = (artists[v].own \/ v = s["albumartist"])
      BY <3>1
    <3>8. artists'[v].own \in BOOLEAN BY <3>7
    <3>9. artists'[v].own <=> \E m \in 1..n : songs[m]["albumartist"] = v
      <4> HIDE DEF n
      <4>1. (artists[v].own \/ v = s["albumartist"]) <=> \E m \in 1..n : songs[m]["albumartist"] = v
        BY <2>2, <3>2
      <4>2. QED BY <3>7, <4>1
    <3>10. artists'[v] = [own |-> artists'[v].own, songs |-> artists'[v].songs] BY <3>1, <3>7
    <3>11. QED BY <3>5, <3>6, <3>7, <3>8, <3>9, <3>10
  <2>4. ASSUME NEW k \in AlbumKeys
        PROVE  /\ albums'[k] \in Seq(Nat)
               /\ Ascending(albums'[k]) /\ Elements(albums'[k]) = OnAlbum(k)'
    <3> DEFINE here == k = <<s["album"], s["albumartist"]>>
               P == {m \in 1..n : songs[m]["album"] = k[1] /\ songs[m]["albumartist"] = k[2]}
    <3>1. albums'[k] = IF here THEN Append(albums[k], n) ELSE albums[k]
      BY <1>1 DEF IndexSong, IndexAlbums, AlbumKeys
    <3>2. albums[k] \in Seq(Nat) /\ Ascending(albums[k]) /\ Elements(albums[k]) = OnAlbum(k)
      BY DEF AttributionInv
    <3>3. Elements(albums[k]) = (1..built) \cap P BY <2>2, <3>2 DEF OnAlbum
    <3>4. here <=> n \in P BY <2>2 DEF AlbumKeys
    <3>5. /\ albums'[k] \in Seq(Nat) /\ Ascending(albums'[k])
          /\ Elements(albums'[k]) = (1..n) \cap P
      <4>1. albums'[k] = IF n \in P THEN Append(albums[k], n) ELSE albums[k] BY <3>1, <3>4
      <4> HIDE DEF P, s
      <4>2. QED BY <2>1, <3>2, <3>3, <4>1, GrowingList, ZenonT(30)
    <3>6. QED BY <2>1, <3>5 DEF OnAlbum
  <2>5. artists' \in [Values -> [own : BOOLEAN, songs : Seq(Nat)]]
    <3>1. artists' = [v \in Values |-> artists'[v]]
      BY <1>1 DEF IndexSong, IndexArtists
    <3>2. ASSUME NEW v \in Values PROVE artists'[v] \in [own : BOOLEAN, songs : Seq(Nat)]
      <4>1. /\ artists'[v].songs \in Seq(Nat) /\ artists'[v].own \in BOOLEAN
            /\ artists'[v] = [own |-> artists'[v].own, songs |-> artists'[v].songs]
        BY <2>3
      <4>2. QED BY <4>1
    <3>3. QED BY <3>1, <3>2
  <2>6. albums' \in [AlbumKeys -> Seq(Nat)]
    <3>1. albums' = [k \in AlbumKeys |-> albums'[k]]
      BY <1>1 DEF IndexSong, IndexAlbums, AlbumKeys
    <3>2. QED BY <2>4, <3>1
  <2> HIDE DEF n
  <2>7. \A v \in Values :
           /\ Ascending(artists[v].songs)' /\ Elements(artists[v].songs)' = ByArtist(v)'
           /\ artists'[v].own <=> \E m \in 1..built' : songs'[m]["albumartist"] = v
    BY <2>1, <2>3 DEF Ascending, Elements
  <2>8. \A k \in AlbumKeys : Ascending(albums[k])' /\ Elements(albums[k])' = OnAlbum(k)'
    BY <2>4 DEF Ascending, Elements
  <2>9. AlbumKeys' = AlbumKeys BY DEF AlbumKeys
  <2>10. QED BY <2>5, <2>6, <2>7, <2>8, <2>9 DEF AttributionInv
<1>2. CASE UNCHANGED index
  BY <1>2 DEF index, AttributionInv, Ascending, Elements, ByArtist, OnAlbum, AlbumKeys
<1>3. IndexSong \/ UNCHANGED index
  BY DEF Next, vars, Built, Ask, TakeList, ListsDone, Compare, Merged, AnswerPool,
         StartRanking, RankBest, Ranked
<1>4. QED BY <1>1, <1>2, <1>3

\* So an artist hit leads to a song that names the artist, and an album hit to its songs.
LEMMA HitsLead == TypeOK /\ AttributionInv => HitsLeadSomewhere
<1> SUFFICES ASSUME TypeOK, AttributionInv, pc = "idle" PROVE HitsLeadSomewhere
  BY DEF HitsLeadSomewhere
<1>1. built = Len(songs) /\ built \in Nat BY DEF TypeOK
<1>2. \A n \in 1..built : songs[n] \in [Fields -> Values \cup {Unset}]
  BY <1>1 DEF TypeOK, Songs
<1>3. ASSUME NEW v \in Values, artists[v].songs # <<>>
      PROVE  Matching(Drill(<< <<IF artists[v].own THEN "albumartist" ELSE "artist", v>> >>)) # {}
  <2> DEFINE f == IF artists[v].own THEN "albumartist" ELSE "artist"
             pairs == << <<f, v>> >>
             q == Drill(pairs)
  <2>1. \E n \in 1..built : songs[n][f] = v
    <3>1. artists[v].songs \in Seq(Nat) /\ Elements(artists[v].songs) = ByArtist(v)
      BY DEF AttributionInv
    <3>2. artists[v].songs[1] \in Elements(artists[v].songs)
      BY <1>3, <3>1 DEF Elements
    <3>3. PICK n \in 1..built : v = songs[n]["artist"] \/ v = songs[n]["albumartist"]
      BY <3>1, <3>2 DEF ByArtist
    <3>4. artists[v].own <=> \E m \in 1..built : songs[m]["albumartist"] = v
      BY DEF AttributionInv
    <3>5. QED BY <3>3, <3>4
  <2>2. PICK n \in 1..built : songs[n][f] = v BY <2>1
  <2>3. q.exact = pairs /\ Len(pairs) = 1 /\ pairs[1] = <<f, v>> BY DEF Drill
  <2> HIDE DEF pairs, q, f
  <2>4. \A k \in Wanted(q) : k = 1 BY <2>3 DEF Wanted
  <2>5. Fits(n, q, 1) BY <2>2, <2>3 DEF Fits, Key
  <2>6. n \in Matching(q) BY <1>1, <2>4, <2>5 DEF Matching
  <2>7. QED BY <2>6 DEF q, pairs, f
<1>4. ASSUME NEW k \in DOMAIN albums
      PROVE  Elements(albums[k]) \subseteq
                 Matching(Drill(<< <<"albumartist", k[2]>>, <<"album", k[1]>> >>))
  <2> DEFINE pairs == << <<"albumartist", k[2]>>, <<"album", k[1]>> >>
             q == Drill(pairs)
  <2>1. k \in AlbumKeys /\ Elements(albums[k]) = OnAlbum(k)
    BY DEF AttributionInv
  <2>2. /\ q.exact = pairs /\ Len(pairs) = 2
        /\ pairs[1] = <<"albumartist", k[2]>> /\ pairs[2] = <<"album", k[1]>>
    BY DEF Drill
  <2> HIDE DEF pairs, q
  <2>3. \A m \in Wanted(q) : (m = 1 /\ k[2] # Unset) \/ m = 2 BY <2>2 DEF Wanted
  <2>4. ASSUME NEW n \in OnAlbum(k) PROVE n \in Matching(q)
    <3>1. n \in 1..Len(songs) /\ songs[n]["album"] = k[1] /\ songs[n]["albumartist"] = k[2]
      BY <1>1 DEF OnAlbum
    <3>2. k[1] # Unset BY <2>1 DEF AlbumKeys
    <3>3. Fits(n, q, 2) BY <2>2, <3>1, <3>2 DEF Fits, Key
    <3>4. k[2] # Unset => Fits(n, q, 1) BY <2>2, <3>1 DEF Fits, Key
    <3>5. QED BY <2>3, <3>1, <3>3, <3>4 DEF Matching
  <2>5. QED BY <2>1, <2>4 DEF q, pairs
<1>5. QED BY <1>3, <1>4 DEF HitsLeadSomewhere
-----------------------------------------------------------------------------
(* Ranking.                                                                *)

\* What has been ranked and what is left are the hits there are, each once.
RankInv ==
    /\ pc \in {"lists", "merge", "pool"} => result = <<>>
    /\ pc = "rank" => /\ result \in Seq(Candidates) /\ IsInjective(result)
                      /\ hits = Candidates \ Elements(result)
                      /\ Len(result) <= query.limit

HitsInv == AttributionInv /\ RankInv /\ CountsRight /\ CapOnEnabledKinds

\* The first n positions are n.
LEMMA IntervalCount ==
    ASSUME NEW n \in Nat
    PROVE  IsFiniteSet(1..n) /\ Cardinality(1..n) = n
<1>1. n \in Int /\ 1 \in Int OBVIOUS
<1>2. IsFiniteSet(1..n) /\ Cardinality(1..n) = IF 1 > n THEN 0 ELSE n - 1 + 1
  BY <1>1, FS_Interval
<1>3. QED BY <1>2

\* Count: how many songs of a list are in the pool.
LEMMA CountOfList ==
    ASSUME IInv, pc \in {"pool", "rank"},
           NEW l \in Seq(Nat), Ascending(l), Elements(l) \subseteq 1..Len(songs)
    PROVE  Count(l) = Cardinality(Elements(l) \cap Matching(query))
<1>1. out \in Seq(Nat) /\ Ascending(out) /\ Elements(out) = Matching(query)
  BY DEF IInv, TypeOK, PoolExact
<1>2. CASE query.exact = <<>>
  <2>1. Wanted(query) = {} BY <1>2 DEF Wanted
  <2>2. Elements(l) \cap Matching(query) = Elements(l) BY <2>1 DEF Matching
  <2>3. QED BY <1>2, <2>2, AscendingCount DEF Count
<1>3. CASE query.exact # <<>>
  <2>1. Count(l) = CountIn(l, out) BY <1>3 DEF Count
  <2>2. QED BY <1>1, <2>1, CountInIsIntersection
<1>4. QED BY <1>2, <1>3

\* fuzzy_rank: every hit is of an enabled kind and counted right.
LEMMA CandidatesRight ==
    ASSUME IInv, AttributionInv, pc \in {"pool", "rank"}, NEW h \in Candidates
    PROVE  h.kind \in query.kinds /\ CountRight(h)
<1>1. /\ built = Len(songs) /\ built \in Nat
      /\ Matching(query) \subseteq 1..built
  BY DEF IInv, TypeOK, Matching
<1>2. CASE "artist" \in query.kinds /\ h \in ArtistHits
  <2>1. PICK v \in Values :
          h = [kind |-> "artist", name |-> v,
               key |-> IF artists[v].own THEN "albumartist" ELSE "artist",
               count |-> Count(artists[v].songs), score |-> Score[query.term][{v}]]
    BY <1>2 DEF ArtistHits, Scored
  <2>2. h.kind = "artist" /\ h.name = v /\ h.count = Count(artists[v].songs)
    BY <2>1
  <2>3. /\ artists[v].songs \in Seq(Nat) /\ Ascending(artists[v].songs)
        /\ Elements(artists[v].songs) = ByArtist(v)
    BY DEF AttributionInv
  <2>4. ByArtist(v) \subseteq 1..Len(songs) BY <1>1 DEF ByArtist
  <2>5. Count(artists[v].songs) = Cardinality(ByArtist(v) \cap Matching(query))
    BY <2>3, <2>4, CountOfList
  <2>6. ByArtist(v) \cap Matching(query) =
          {m \in Matching(query) : v \in {songs[m]["artist"], songs[m]["albumartist"]}}
    BY <1>1 DEF ByArtist
  <2>7. QED BY <1>2, <2>2, <2>5, <2>6 DEF CountRight
<1>3. CASE "album" \in query.kinds /\ h \in AlbumHits
  <2>1. PICK k \in DOMAIN albums :
          h = [kind |-> "album", name |-> k[1], artist |-> k[2], count |-> Count(albums[k]),
               score |-> Score[query.term][Present({k[1], k[2]})]]
    BY <1>3 DEF AlbumHits, Scored
  <2>2. h.kind = "album" /\ h.name = k[1] /\ h.artist = k[2] /\ h.count = Count(albums[k])
    BY <2>1
  <2>3. albums[k] \in Seq(Nat) /\ Ascending(albums[k]) /\ Elements(albums[k]) = OnAlbum(k)
    BY DEF AttributionInv
  <2>4. OnAlbum(k) \subseteq 1..Len(songs) BY <1>1 DEF OnAlbum
  <2>5. Count(albums[k]) = Cardinality(OnAlbum(k) \cap Matching(query))
    BY <2>3, <2>4, CountOfList
  <2>6. OnAlbum(k) \cap Matching(query) =
          {m \in Matching(query) : songs[m]["album"] = k[1] /\ songs[m]["albumartist"] = k[2]}
    BY <1>1 DEF OnAlbum
  <2>7. QED BY <1>3, <2>2, <2>5, <2>6 DEF CountRight
<1>4. CASE "track" \in query.kinds /\ h \in TrackHits
  <2>1. PICK n, score : h = Track(n, score) BY <1>4 DEF TrackHits, Scored
  <2>2. h.kind = "track" BY <2>1 DEF Track
  <2>3. QED BY <1>4, <2>2 DEF CountRight
<1>5. QED BY <1>2, <1>3, <1>4 DEF Candidates, Counted

\* The hits there are do not change while they are ranked.
LEMMA CandidatesStay ==
    ASSUME UNCHANGED <<index, query, out>>
    PROVE  Candidates' = Candidates
<1>1. UNCHANGED <<songs, artists, albums, query, out>> BY DEF index
<1>2. ArtistHits' = ArtistHits
  BY <1>1 DEF ArtistHits, Scored, Count, CountIn
<1>3. AlbumHits' = AlbumHits
  BY <1>1 DEF AlbumHits, Scored, Count, CountIn, Present
<1>4. TrackHits' = TrackHits
  BY <1>1 DEF TrackHits, Scored, Track, Present, Elements
<1>5. QED BY <1>1, <1>2, <1>3, <1>4 DEF Candidates, Counted

\* Taking the best hit.
LEMMA RankBestRight ==
    ASSUME IInv, RankInv, RankBest
    PROVE  RankInv'
<1>1. /\ pc = "rank" /\ pc' = "rank" /\ Len(result) < query.limit /\ query' = query
      /\ UNCHANGED <<index, query, out>>
  BY DEF RankBest
<1>2. PICK h \in hits : hits' = hits \ {h} /\ result' = Append(result, h)
  BY DEF RankBest
<1>3. /\ result \in Seq(Candidates) /\ IsInjective(result)
      /\ hits = Candidates \ Elements(result) /\ query.limit \in Nat
  BY <1>1 DEF RankInv, IInv, TypeOK, QueryType
<1>4. Candidates' = Candidates BY <1>1, CandidatesStay
<1> DEFINE C == Candidates
<1> HIDE DEF C
<1>5. /\ result \in Seq(C) /\ h \in C /\ h \notin Elements(result)
  BY <1>2, <1>3 DEF C
<1>6. /\ result' \in Seq(C) /\ Len(result') = Len(result) + 1 /\ result'[Len(result) + 1] = h
      /\ \A n \in 1..Len(result) : result'[n] = result[n]
  BY <1>2, <1>5
<1>7. Elements(result') = Elements(result) \cup {h}
  <2>1. Len(result) \in Nat BY <1>5
  <2>2. 1..Len(result') = 1..Len(result) \cup {Len(result) + 1} BY <1>6, <2>1
  <2>3. QED BY <1>6, <2>2 DEF Elements
<1>8. IsInjective(result')
  <2>1. Len(result) \in Nat BY <1>5
  <2>2. \A n \in 1..Len(result) : result[n] # h BY <1>5 DEF Elements
  <2>3. 1..Len(result') = 1..Len(result) \cup {Len(result) + 1} BY <1>6, <2>1
  <2>4. QED BY <1>3, <1>6, <2>2, <2>3 DEF IsInjective
<1>9. Len(result') <= query'.limit BY <1>1, <1>3, <1>5, <1>6
<1>10. hits' = C \ Elements(result') BY <1>2, <1>3, <1>7 DEF C
<1>11. Elements(result)' = Elements(result') /\ IsInjective(result)' BY <1>8 DEF Elements, IsInjective
<1>12. QED BY <1>1, <1>4, <1>6, <1>9, <1>10, <1>11 DEF RankInv, C

\* Ranking ends with the limit met or with every hit taken.
LEMMA RankedRight ==
    ASSUME IInv, AttributionInv, RankInv, Ranked
    PROVE  CountsRight' /\ CapOnEnabledKinds'
<1>1. /\ pc = "rank" /\ pc' = "answered"
      /\ hits = {} \/ Len(result) = query.limit
      /\ UNCHANGED <<index, query, out, result>> /\ UNCHANGED songs
  BY DEF Ranked, index
<1>2. /\ result \in Seq(Candidates) /\ IsInjective(result)
      /\ hits = Candidates \ Elements(result) /\ Len(result) <= query.limit
  BY <1>1 DEF RankInv
<1>3. TypeOK /\ PoolExact /\ Len(result) \in Nat BY <1>2 DEF IInv
<1>4. query.limit \in Nat /\ query.term # NoTerm /\ Len(songs) \in Nat
  BY <1>1, <1>3 DEF TypeOK, QueryType
<1>5. Elements(out) = Matching(query) BY <1>1, <1>3 DEF PoolExact
<1>6. ASSUME NEW n \in 1..Len(result)
      PROVE  result[n].kind \in query.kinds /\ CountRight(result[n])
  <2>1. result[n] \in Candidates BY <1>2
  <2>2. pc \in {"pool", "rank"} BY <1>1
  <2>3. QED BY <2>1, <2>2, CandidatesRight
<1>7. /\ Matching(query)' = Matching(query) /\ query' = query /\ songs' = songs
      /\ result' = result
  BY <1>1 DEF Matching, Wanted, Fits, Key
<1>8. CountsRight'
  <2>1. \A h : CountRight(h)' <=> CountRight(h) BY <1>7 DEF CountRight
  <2>2. QED BY <1>6, <1>7, <2>1 DEF CountsRight
<1> DEFINE ScoreOf(n) == Score[query.term][Present({songs[n][f] : f \in Fields})]
           tracks == {n \in Matching(query) : ScoreOf(n) > 0}
           shown == {n \in 1..Len(result) : result[n].kind = "track"}
<1>9. ASSUME query.kinds = {"track"}
      PROVE  Cardinality(shown) = IF Cardinality(tracks) < query.limit
                                  THEN Cardinality(tracks) ELSE query.limit
  <2>1. shown = 1..Len(result) BY <1>6, <1>9
  <2>2. tracks \in SUBSET (1..Len(songs)) BY DEF Matching
  <2>3. Candidates = TrackHits BY <1>9 DEF Candidates
  <2>4. TrackHits = {Track(n, ScoreOf(n)) : n \in tracks}
    <3> HIDE DEF ScoreOf
    <3>1. \A n : Track(n, ScoreOf(n)).score = ScoreOf(n) BY DEF Track
    <3>2. TrackHits = {h \in {Track(n, ScoreOf(n)) : n \in Elements(out)} : h.score > 0}
      BY DEF TrackHits, Scored, ScoreOf
    <3>3. QED BY <1>5, <3>1, <3>2
  <2> DEFINE f == [n \in 1..Len(result) |-> result[n].song]
  <2> HIDE DEF tracks, shown, ScoreOf
  <2>5. Cardinality(shown) = Len(result) BY <1>3, <2>1, IntervalCount
  <2>6. IsFiniteSet(tracks) BY <1>4, <2>2, IntervalCount, FS_Subset
  <2>7. ASSUME NEW h \in Candidates
        PROVE  h.song \in tracks /\ h = Track(h.song, ScoreOf(h.song))
    <3>1. PICK n \in tracks : h = Track(n, ScoreOf(n)) BY <2>3, <2>4
    <3>2. h.song = n BY <3>1 DEF Track
    <3>3. QED BY <3>1, <3>2
  <2>8. ASSUME NEW n \in tracks
        PROVE  \E h \in Candidates : h.song = n
    <3>1. Track(n, ScoreOf(n)) \in Candidates BY <2>3, <2>4
    <3>2. Track(n, ScoreOf(n)).song = n BY DEF Track
    <3>3. QED BY <3>1, <3>2
  <2>9. \A n \in 1..Len(result) : result[n] \in Candidates BY <1>2
  <2>10. f \in [1..Len(result) -> tracks] BY <2>7, <2>9
  <2>11. ASSUME NEW m \in 1..Len(result), NEW n \in 1..Len(result), f[m] = f[n] PROVE m = n
    <3>1. result[m].song = result[n].song BY <2>11
    <3>2. result[m] = result[n] BY <2>7, <2>9, <3>1
    <3>3. QED BY <1>2, <3>2 DEF IsInjective
  <2>12. f \in Injection(1..Len(result), tracks)
    <3>1. DOMAIN f = 1..Len(result) OBVIOUS
    <3> HIDE DEF f
    <3>2. IsInjective(f) BY <2>11, <3>1 DEF IsInjective
    <3>3. QED BY <2>10, <3>2 DEF Injection
  <2>13. Len(result) <= Cardinality(tracks) /\ Cardinality(tracks) \in Nat
    <3> HIDE DEF f
    <3>1. Cardinality(1..Len(result)) = Len(result) BY <1>3, IntervalCount
    <3>2. QED BY <2>6, <2>12, <3>1, FS_Injection, FS_CardinalityType
  <2>14. CASE Len(result) = query.limit
    BY <2>5, <2>13, <2>14, <1>4
  <2>15. CASE hits = {}
    <3>1. \A h \in Candidates : \E n \in 1..Len(result) : result[n] = h
      BY <1>2, <2>15 DEF Elements
    <3>2. ASSUME NEW t \in tracks PROVE \E n \in 1..Len(result) : f[n] = t
      <4>1. PICK h \in Candidates : h.song = t BY <2>8
      <4>2. PICK n \in 1..Len(result) : result[n] = h BY <3>1
      <4>3. f[n] = t BY <4>1, <4>2
      <4>4. QED BY <4>3
    <3> HIDE DEF f
    <3>3. f \in Surjection(1..Len(result), tracks) BY <2>10, <3>2 DEF Surjection
    <3>4. Cardinality(tracks) = Len(result)
      BY <1>3, <2>12, <3>3, FS_CountingElements DEF ExistsBijection, Bijection
    <3>5. QED BY <1>2, <1>4, <2>5, <2>13, <3>4
  <2>16. QED BY <1>1, <2>14, <2>15
<1>10. CapOnEnabledKinds'
  <2>1. /\ \A n \in 1..Len(result) : result[n].kind \in query.kinds
        /\ query.kinds = {"track"} =>
              Cardinality(shown) = IF Cardinality(tracks) < query.limit
                                   THEN Cardinality(tracks) ELSE query.limit
    BY <1>6, <1>9
  <2>2. QED BY <1>7, <2>1 DEF CapOnEnabledKinds, Present
<1>11. QED BY <1>8, <1>10

LEMMA HitsInit == Init => HitsInv
<1> SUFFICES ASSUME Init PROVE HitsInv
  OBVIOUS
<1>1. pc = "building" BY DEF Init
<1>2. AttributionInv BY AttributionInit
<1>3. QED BY <1>1, <1>2 DEF HitsInv, RankInv, CountsRight, CapOnEnabledKinds

LEMMA HitsStep == IInv /\ HitsInv /\ [Next]_vars => HitsInv'
<1> SUFFICES ASSUME IInv, HitsInv, [Next]_vars PROVE HitsInv'
  OBVIOUS
<1>1. AttributionInv /\ RankInv /\ CountsRight /\ CapOnEnabledKinds /\ TypeOK
  BY DEF HitsInv, IInv
<1>2. AttributionInv' BY <1>1, AttributionStep
<1> SUFFICES RankInv' /\ CountsRight' /\ CapOnEnabledKinds'
  BY <1>2 DEF HitsInv
<1>3. CASE IndexSong \/ Built
  BY <1>3 DEF IndexSong, Built, RankInv, CountsRight, CapOnEnabledKinds
<1>4. ASSUME NEW q \in Queries, Ask(q)
      PROVE  RankInv' /\ CountsRight' /\ CapOnEnabledKinds'
  <2>1. /\ result' = <<>> /\ query' = q
        /\ (pc' = "answered" /\ MatchesNothing(q)) \/ pc' \in {"pool", "lists"}
    BY <1>4 DEF Ask
  <2>2. RankInv' BY <2>1 DEF RankInv
  <2>3. CountsRight' BY <2>1 DEF CountsRight
  <2>4. CapOnEnabledKinds'
    <3>1. CASE pc' # "answered" BY <3>1 DEF CapOnEnabledKinds
    <3>2. CASE q.term = NoTerm BY <2>1, <3>2 DEF CapOnEnabledKinds
    <3>3. CASE q.kinds = {} BY <2>1, <3>3 DEF CapOnEnabledKinds
    <3>4. QED BY <2>1, <3>1, <3>2, <3>3 DEF MatchesNothing
  <2>5. QED BY <2>2, <2>3, <2>4
<1>5. CASE TakeList \/ ListsDone \/ Compare \/ Merged
  <2>1. /\ pc \in {"lists", "merge"} /\ pc' \in {"lists", "merge", "pool"} /\ result' = result
    BY <1>1, <1>5 DEF TakeList, ListsDone, Compare, Merged
  <2>2. QED BY <1>1, <2>1 DEF RankInv, CountsRight, CapOnEnabledKinds
<1>6. CASE AnswerPool
  <2>1. /\ pc' = "answered" /\ query' = query /\ query.term = NoTerm
        /\ result' = [n \in 1..Len(out) |-> Track(out[n], 0)] /\ Len(out) \in Nat
    BY <1>1, <1>6 DEF AnswerPool, TypeOK
  <2>2. Len(result') = Len(out) /\ \A n \in 1..Len(out) : result'[n].kind = "track"
    BY <2>1 DEF Track
  <2>3. QED BY <2>1, <2>2 DEF RankInv, CountsRight, CountRight, CapOnEnabledKinds
<1>7. CASE StartRanking
  <2>1. /\ pc = "pool" /\ pc' = "rank" /\ hits' = Candidates /\ result' = result
        /\ UNCHANGED <<index, query, out>> /\ query' = query
    BY <1>7 DEF StartRanking
  <2>2. result = <<>> BY <1>1, <2>1 DEF RankInv
  <2>3. Candidates' = Candidates BY <2>1, CandidatesStay
  <2>4. query.limit \in Nat BY <1>1 DEF TypeOK, QueryType
  <2>5. RankInv' BY <2>1, <2>2, <2>3, <2>4 DEF RankInv, IsInjective, Elements
  <2>6. QED BY <2>1, <2>5 DEF CountsRight, CapOnEnabledKinds
<1>8. CASE RankBest
  <2>1. pc' = "rank" BY <1>8 DEF RankBest
  <2>2. QED BY <1>1, <1>8, <2>1, RankBestRight DEF CountsRight, CapOnEnabledKinds
<1>9. CASE Ranked
  <2>1. pc' = "answered" BY <1>9 DEF Ranked
  <2>2. QED BY <1>1, <1>9, <2>1, RankedRight DEF RankInv
<1>10. CASE UNCHANGED vars
  <2>1. UNCHANGED <<pc, query, hits, result, songs>> /\ UNCHANGED <<index, query, out>>
    BY <1>10 DEF vars, index
  <2>2. Candidates' = Candidates BY <2>1, CandidatesStay
  <2>3. RankInv' BY <1>1, <2>1, <2>2 DEF RankInv, IsInjective, Elements
  <2>4. Matching(query)' = Matching(query) BY <2>1 DEF Matching, Wanted, Fits, Key
  <2>5. CountsRight'
    <3>1. \A h : CountRight(h)' <=> CountRight(h) BY <2>1, <2>4 DEF CountRight
    <3>2. QED BY <1>1, <2>1, <3>1 DEF CountsRight
  <2>6. CapOnEnabledKinds' BY <1>1, <2>1, <2>4 DEF CapOnEnabledKinds, Present
  <2>7. QED BY <2>3, <2>5, <2>6
<1>11. QED
  BY <1>3, <1>4, <1>5, <1>6, <1>7, <1>8, <1>9, <1>10 DEF Next

\* The inductive invariant of the answers, next to that of the pool they are made from.
THEOREM HitsInvCorrect == Spec => [](IInv /\ HitsInv)
<1>1. Init => HitsInv BY HitsInit
<1>2. IInv /\ HitsInv /\ [Next]_vars => HitsInv' BY HitsStep
<1>3. QED BY <1>1, <1>2, IInvCorrect, PTL DEF Spec

\* The count a hit is shown with is the number of songs of the pool that are attributed
\* to it (fuzzy_rank, count_in), for every library and query.
THEOREM CountsAreRight == Spec => []CountsRight
<1>1. HitsInv => CountsRight BY DEF HitsInv
<1>2. QED BY <1>1, HitsInvCorrect, PTL

\* Every hit is of an enabled kind, and tracks alone fill the limit when there are
\* enough of them (search.rs:379-381).
THEOREM CapIsOnEnabledKinds == Spec => []CapOnEnabledKinds
<1>1. HitsInv => CapOnEnabledKinds BY DEF HitsInv
<1>2. QED BY <1>1, HitsInvCorrect, PTL

\* The place a hit leads to is not empty, and an album's holds its songs
\* (library.js:435).
THEOREM HitsLeadToSongs == Spec => []HitsLeadSomewhere
<1>1. IInv /\ HitsInv => HitsLeadSomewhere BY HitsLead DEF IInv, HitsInv
<1>2. QED BY <1>1, HitsInvCorrect, PTL
-----------------------------------------------------------------------------
(* Library implements SearchIndex.                                         *)

\* A request that is not a search leaves the index and the search alone.
LEMMA AsksLeavesSearch == ASSUME NEW request, Asks(request) PROVE UNCHANGED vars
  BY DEF Asks

LEMMA StepImplements == [LibraryNext]_libraryVars => [Next]_vars
<1> SUFFICES ASSUME [LibraryNext]_libraryVars PROVE [Next]_vars
  OBVIOUS
<1>1. CASE Search
  BY <1>1 DEF Search
<1>2. CASE Answered
  BY <1>2 DEF Answered
<1>3. ASSUME NEW path \in Texts, AddByPath(path) PROVE UNCHANGED vars
  BY <1>3, AsksLeavesSearch DEF AddByPath
<1>4. ASSUME NEW path \in Texts, Browse(path) PROVE UNCHANGED vars
  BY <1>4, AsksLeavesSearch DEF Browse
<1>5. ASSUME NEW pairs, AddByTag(pairs) PROVE UNCHANGED vars
  BY <1>5, AsksLeavesSearch DEF AddByTag
<1>6. ASSUME NEW l \in Lists, ListTag(l[1], l[2], l[3]) PROVE UNCHANGED vars
  BY <1>6, AsksLeavesSearch DEF ListTag
<1>7. CASE UNCHANGED libraryVars
  BY <1>7 DEF libraryVars
<1> QED
  BY <1>1, <1>2, <1>3, <1>4, <1>5, <1>6, <1>7 DEF LibraryNext

\* The library implements the search of SearchIndex: every step of it is a step of
\* the search on the dump (search.rs, routes/library.rs), or leaves that alone.
THEOREM LibraryImplementsSearch == LibrarySpec => Spec
<1>1. LibraryInit => Init
  BY DEF LibraryInit
<1> QED
  BY <1>1, StepImplements, PTL DEF LibrarySpec, Spec

\* So a collection drilled into in the library shows every matching track of the
\* database that was dumped, in its order, and no other (search.rs:516-518).
THEOREM LibraryDrillDownCorrect == LibrarySpec => []DrillDownComplete
  BY LibraryImplementsSearch, DrillDownCorrect, PTL

\* And its counts, its cap and the places its hits lead to are right there, too.
THEOREM LibraryHitsRight ==
    LibrarySpec => [](CountsRight /\ CapOnEnabledKinds /\ HitsLeadSomewhere)
  BY LibraryImplementsSearch, CountsAreRight, CapIsOnEnabledKinds, HitsLeadToSongs, PTL

-----------------------------------------------------------------------------
(* Responses.                                                              *)

\* A response of fields and OK is read as these fields (parse_text).
LEMMA ResponseRead ==
    ASSUME NEW F, \A x \in F : x.line = "field", NEW fs \in Seq(F)
    PROVE  ParseText(fs \o OK) = [fields |-> fs, ack |-> FALSE]
<1> DEFINE o == Terminator("OK")
           B == F \cup {o}
           lines == Append(fs, o)
           e == Len(fs) + 1
           taken(ls, n) == IF ls[n].line = "field" THEN <<ls[n]>> ELSE <<>>
<1>1. o.line = "OK" BY DEF Terminator
<1> HIDE DEF o
<1>2. fs \in Seq(B) /\ o \in B /\ Len(fs) \in Nat OBVIOUS
<1>3. /\ lines \in Seq(B) /\ Len(lines) = e /\ lines[e] = o
      /\ \A n \in 1..Len(fs) : lines[n] = fs[n] /\ fs[n] \in F
  BY <1>2
<1>4. fs \o OK = lines
  <2>1. OK = <<o>> BY DEF OK, o
  <2> HIDE DEF B
  <2>2. fs \o <<o>> = Append(fs, o) BY <1>2, AppendIsConcat
  <2>3. QED BY <2>1, <2>2
<1> HIDE DEF lines, B
<1>5. SelectInSeq(lines, LAMBDA l : l.line \in {"OK", "ACK"}) = e
  <2> DEFINE I == {n \in 1..Len(lines) : lines[n].line \in {"OK", "ACK"}}
  <2>1. I = {e}
    <3>1. \A n \in 1..e : n = e \/ n \in 1..Len(fs) BY <1>2
    <3>2. \A n \in 1..Len(fs) : lines[n].line = "field" BY <1>3
    <3>3. e \in 1..e BY <1>2
    <3>4. QED BY <1>1, <1>3, <3>1, <3>2, <3>3
  <2>2. Min({e}) = e BY <1>2 DEF Min
  <2>3. SelectInSeq(lines, LAMBDA l : l.line \in {"OK", "ACK"}) = IF I # {} THEN Min(I) ELSE 0
    BY DEF SelectInSeq
  <2> HIDE DEF I, e
  <2>4. QED BY <2>1, <2>2, <2>3
<1>6. e # 0 /\ e - 1 = Len(fs) BY <1>2
<1>7. SubSeq(lines, 1, e - 1) = fs
  <2> DEFINE r == SubSeq(lines, 1, Len(fs))
  <2>1. r \in Seq(B) /\ Len(r) = Len(fs) /\ \A n \in 1..Len(fs) : r[n] = fs[n] BY <1>2, <1>3
  <2> HIDE DEF r
  <2>2. r = fs BY <1>2, <2>1, SeqEqual
  <2>3. QED BY <1>6, <2>2 DEF r
<1>8. FlattenSeq([n \in DOMAIN fs |-> taken(fs, n)]) = fs
  <2>1. \A n \in DOMAIN fs : taken(fs, n) = <<fs[n]>> OBVIOUS
  <2>2. [n \in DOMAIN fs |-> taken(fs, n)] = [n \in DOMAIN fs |-> <<fs[n]>>]
    <3> HIDE DEF taken
    <3>1. QED BY <2>1
  <2>3. QED BY <2>2, FlattenSingles
<1>9. lines[e].line # "ACK" BY <1>1, <1>3
<1> HIDE DEF e
<1>10. ParseText(lines) = [fields |-> FlattenSeq([n \in DOMAIN fs |-> taken(fs, n)]), ack |-> FALSE]
  BY <1>5, <1>6, <1>7, <1>9 DEF ParseText
<1>11. QED BY <1>4, <1>8, <1>10

\* The fields of a key, one after the other (Response::get_all).
KeyParts(fs, key) == [n \in DOMAIN fs |-> IF fs[n].key = key THEN <<fs[n].value>> ELSE <<>>]

LEMMA GetAllParts ==
    ASSUME NEW F, NEW fs \in Seq(F), NEW key
    PROVE  /\ GetAll(fs, key) = FlattenSeq(KeyParts(fs, key))
           /\ KeyParts(fs, key) \in Seq(Seq({x.value : x \in F}))
           /\ Len(KeyParts(fs, key)) = Len(fs) /\ Len(fs) \in Nat
<1> DEFINE V == {x.value : x \in F}
           part(n) == IF fs[n].key = key THEN <<fs[n].value>> ELSE <<>>
           parts == [n \in DOMAIN fs |-> part(n)]
<1>1. DOMAIN fs = 1..Len(fs) /\ Len(fs) \in Nat /\ \A n \in 1..Len(fs) : fs[n].value \in V
  OBVIOUS
<1>2. \A n \in 1..Len(fs) : part(n) \in Seq(V)
  <2> HIDE DEF V
  <2>1. QED BY <1>1
<1>3. GetAll(fs, key) = FlattenSeq(parts) BY DEF GetAll
<1>4. parts = KeyParts(fs, key) BY DEF KeyParts
<1> HIDE DEF V, part
<1>5. parts \in Seq(Seq(V)) /\ Len(parts) = Len(fs) BY <1>1, <1>2
<1> HIDE DEF parts
<1>6. QED BY <1>1, <1>3, <1>4, <1>5 DEF V

LEMMA KeyPart ==
    ASSUME NEW F, NEW fs \in Seq(F), NEW key, NEW n \in 1..Len(fs)
    PROVE  /\ fs[n].key # key => KeyParts(fs, key)[n] = <<>>
           /\ fs[n].key = key => KeyParts(fs, key)[n] = <<fs[n].value>>
  BY DEF KeyParts

LEMMA GetAllType ==
    ASSUME NEW F, NEW fs \in Seq(F), NEW key
    PROVE  GetAll(fs, key) \in Seq({x.value : x \in F})
<1> DEFINE V == {x.value : x \in F}
           parts == KeyParts(fs, key)
<1>1. GetAll(fs, key) = FlattenSeq(parts) /\ parts \in Seq(Seq(V)) BY GetAllParts
<1> HIDE DEF V, parts
<1>2. GetAll(fs, key) \in Seq(V) BY <1>1, FlattenEffect
<1>3. QED BY <1>2 DEF V

\* Of a key, all values are found.
LEMMA GetAllFinds ==
    ASSUME NEW F, NEW fs \in Seq(F), NEW key
    PROVE  \A v : Contains(GetAll(fs, key), v)
                     <=> \E n \in 1..Len(fs) : fs[n].key = key /\ fs[n].value = v
<1> DEFINE V == {x.value : x \in F}
           parts == KeyParts(fs, key)
<1>1. GetAll(fs, key) = FlattenSeq(parts) /\ parts \in Seq(Seq(V)) /\ Len(parts) = Len(fs)
  BY GetAllParts
<1>2. ASSUME NEW n \in 1..Len(fs)
      PROVE  \A v : Contains(parts[n], v) <=> fs[n].key = key /\ fs[n].value = v
  <2>1. parts[n] = IF fs[n].key = key THEN <<fs[n].value>> ELSE <<>> BY DEF KeyParts
  <2> HIDE DEF parts
  <2>2. QED BY <2>1 DEF Contains
<1> HIDE DEF V, parts
<1> SUFFICES ASSUME NEW v
             PROVE  Contains(GetAll(fs, key), v)
                       <=> \E n \in 1..Len(fs) : fs[n].key = key /\ fs[n].value = v
  OBVIOUS
<1>3. Contains(FlattenSeq(parts), v) <=> \E n \in 1..Len(parts) : Contains(parts[n], v)
  BY <1>1, FlattenElements
<1>4. QED BY <1>1, <1>2, <1>3

LEMMA GetAllNothing ==
    ASSUME NEW F, NEW fs \in Seq(F), NEW key, \A n \in 1..Len(fs) : fs[n].key # key
    PROVE  GetAll(fs, key) = <<>>
<1> DEFINE V == {x.value : x \in F}
           parts == KeyParts(fs, key)
<1>1. GetAll(fs, key) = FlattenSeq(parts) /\ parts \in Seq(Seq(V)) /\ Len(parts) = Len(fs)
  BY GetAllParts
<1>2. \A n \in 1..Len(fs) : parts[n] = <<>> BY KeyPart
<1> HIDE DEF V, parts
<1>3. QED BY <1>1, <1>2, FlattenFirst

\* Response::get reads the first field of a key.
LEMMA GetAllFirst ==
    ASSUME NEW F, NEW fs \in Seq(F), NEW key, NEW m \in 1..Len(fs),
           fs[m].key = key, \A n \in 1..(m - 1) : fs[n].key # key
    PROVE  GetAll(fs, key) # <<>> /\ GetAll(fs, key)[1] = fs[m].value
<1> DEFINE V == {x.value : x \in F}
           parts == KeyParts(fs, key)
<1>1. /\ GetAll(fs, key) = FlattenSeq(parts) /\ parts \in Seq(Seq(V)) /\ Len(parts) = Len(fs)
      /\ Len(fs) \in Nat
  BY GetAllParts
<1>2. \A n \in 1..(m - 1) : n \in 1..Len(fs) BY <1>1
<1>3. parts[m] = <<fs[m].value>> BY KeyPart
<1>4. \A n \in 1..(m - 1) : parts[n] = <<>> BY <1>2, KeyPart
<1> HIDE DEF V, parts
<1>5. parts[m] # <<>> /\ parts[m][1] = fs[m].value /\ m \in 1..Len(parts) BY <1>1, <1>3
<1>6. FlattenSeq(parts) # <<>> /\ FlattenSeq(parts)[1] = parts[m][1]
  BY <1>1, <1>4, <1>5, FlattenFirst
<1>7. QED BY <1>1, <1>5, <1>6

LEMMA TrimNothing == TrimStart(<<>>) = <<>>
<1>1. {n \in DOMAIN <<>> : \A m \in 1..n : <<>>[m] = Space} = {} OBVIOUS
<1>2. Cardinality({}) = 0 BY FS_EmptySet
<1>3. SubSeq(<<>>, 0 + 1, Len(<<>>)) = <<>>
  <2>1. <<>> \in Seq({}) /\ Len(<<>>) = 0 OBVIOUS
  <2>2. SubSeq(<<>>, 1, 0) = <<>> OBVIOUS
  <2>3. QED BY <2>1, <2>2
<1>4. QED BY <1>1, <1>2, <1>3 DEF TrimStart

\* A list is what is listed, without leading blanks and without what is blank (parse_list).
LEMMA ParseListEffect ==
    ASSUME NEW F, \A x \in F : x.line = "field", NEW fs \in Seq(F), NEW tag
    PROVE  Elements(ParseList(fs \o OK, tag)) =
              {TrimStart(v) : v \in {fs[n].value : n \in {m \in 1..Len(fs) : fs[m].key = CanonicalTag(tag)}}}
                 \ {<<>>}
<1> DEFINE found == GetAll(fs, CanonicalTag(tag))
           part(n) == IF TrimStart(found[n]) = <<>> THEN <<>> ELSE <<TrimStart(found[n])>>
           parts == [n \in DOMAIN found |-> part(n)]
           V == {x.value : x \in F}
           W == {TrimStart(v) : v \in V}
           list == ParseList(fs \o OK, tag)
<1>1. /\ found \in Seq(V)
      /\ \A v : Contains(found, v) <=> \E n \in 1..Len(fs) : fs[n].key = CanonicalTag(tag) /\ fs[n].value = v
  BY GetAllType, GetAllFinds
<1>2. ParseText(fs \o OK).fields = fs BY ResponseRead
<1>3. list = FlattenSeq(parts) BY <1>2 DEF ParseList
<1> HIDE DEF found, list, V
<1>4. DOMAIN found = 1..Len(found) /\ Len(found) \in Nat /\ \A n \in 1..Len(found) : found[n] \in V
  BY <1>1
<1>5. /\ \A n \in 1..Len(found) : part(n) \in Seq(W)
      /\ \A n \in 1..Len(found) : \A w : Contains(part(n), w) <=> w # <<>> /\ w = TrimStart(found[n])
  <2> SUFFICES ASSUME NEW n \in 1..Len(found)
               PROVE  /\ part(n) \in Seq(W)
                      /\ \A w : Contains(part(n), w) <=> w # <<>> /\ w = TrimStart(found[n])
    OBVIOUS
  <2> DEFINE t == TrimStart(found[n])
  <2>1. t \in W BY <1>4
  <2> HIDE DEF t, W
  <2>2. CASE t = <<>>
    <3>1. part(n) = <<>> BY <2>2 DEF t
    <3>2. QED BY <2>2, <3>1 DEF Contains, t
  <2>3. CASE t # <<>>
    <3>1. part(n) = <<t>> BY <2>3 DEF t
    <3>2. QED BY <2>1, <2>3, <3>1 DEF Contains, t
  <2>4. QED BY <2>2, <2>3
<1> HIDE DEF part, W
<1>6. parts \in Seq(Seq(W)) /\ Len(parts) = Len(found) /\ \A n \in 1..Len(found) : parts[n] = part(n)
  BY <1>4, <1>5
<1> HIDE DEF parts
<1>7. ASSUME NEW w
      PROVE  Contains(list, w) <=> w # <<>> /\ \E n \in 1..Len(found) : w = TrimStart(found[n])
  <2>1. Contains(list, w) <=> \E n \in 1..Len(parts) : Contains(parts[n], w)
    BY <1>3, <1>6, FlattenElements
  <2>2. QED BY <1>5, <1>6, <2>1
<1>8. ASSUME NEW w
      PROVE  (\E n \in 1..Len(found) : w = TrimStart(found[n]))
                <=> \E n \in 1..Len(fs) : fs[n].key = CanonicalTag(tag) /\ w = TrimStart(fs[n].value)
  <2>1. \A n \in 1..Len(found) : Contains(found, found[n]) BY DEF Contains
  <2>2. \A v : Contains(found, v) => \E n \in 1..Len(found) : found[n] = v BY DEF Contains
  <2>3. ASSUME NEW n \in 1..Len(found), w = TrimStart(found[n])
        PROVE  \E k \in 1..Len(fs) : fs[k].key = CanonicalTag(tag) /\ w = TrimStart(fs[k].value)
    <3>1. \E k \in 1..Len(fs) : fs[k].key = CanonicalTag(tag) /\ fs[k].value = found[n] BY <1>1, <2>1
    <3>2. QED BY <2>3, <3>1
  <2>4. ASSUME NEW k \in 1..Len(fs), fs[k].key = CanonicalTag(tag), w = TrimStart(fs[k].value)
        PROVE  \E n \in 1..Len(found) : w = TrimStart(found[n])
    <3>1. Contains(found, fs[k].value) BY <1>1, <2>4
    <3>2. PICK n \in 1..Len(found) : found[n] = fs[k].value BY <2>2, <3>1
    <3>3. QED BY <2>4, <3>2
  <2>5. QED BY <2>3, <2>4
<1>9. \A w : w \in Elements(list) <=> Contains(list, w)
  BY DEF Elements, Contains
<1> DEFINE own == {m \in 1..Len(fs) : fs[m].key = CanonicalTag(tag)}
           values == {fs[n].value : n \in own}
           trimmed == {TrimStart(v) : v \in values}
<1>10. \A w : w \in trimmed <=> \E n \in 1..Len(fs) : fs[n].key = CanonicalTag(tag) /\ w = TrimStart(fs[n].value)
  <2>1. \A v : v \in values <=> \E n \in 1..Len(fs) : fs[n].key = CanonicalTag(tag) /\ v = fs[n].value
    OBVIOUS
  <2> HIDE DEF values
  <2>2. \A w : w \in trimmed <=> \E v \in values : w = TrimStart(v) OBVIOUS
  <2> HIDE DEF trimmed
  <2>3. QED BY <2>1, <2>2
<1>11. Elements(list) = trimmed \ {<<>>}
  <2> HIDE DEF trimmed
  <2>1. \A w : w \in Elements(list) <=> w \in trimmed \ {<<>>} BY <1>7, <1>8, <1>9, <1>10
  <2>2. QED BY <2>1
<1>12. QED BY <1>11 DEF list

-----------------------------------------------------------------------------
(* Lists.                                                                  *)

\* What MPD reads a list command as: the tag, and the artist if one is named (client.rs:185-198).
LEMMA ListCommandRead ==
    ASSUME NEW A, {Backslash, DoubleQuote, Space} \subseteq A, NEW artist \in Seq(A),
           NEW tag, tag # Space, tag # DoubleQuote
    PROVE  Arguments(Tail(ListCommand(tag, artist, <<>>)))
             = IF artist = <<>> THEN << <<tag>> >> ELSE << <<tag>>, artist >>
<1> DEFINE B == A \cup {tag}
           p == <<Space, tag>>
           r == <<Space, tag, Space>>
           q == QuoteArg(artist)
<1>0. /\ {Backslash, DoubleQuote, Space} \subseteq B /\ tag \in B /\ Space \in B /\ <<>> \in Seq(B)
      /\ "list" \in B \cup {"list"}
  OBVIOUS
<1>00. artist \in Seq(B)
  <2>1. A \subseteq B OBVIOUS
  <2> HIDE DEF B
  <2>2. QED BY <2>1
<1> HIDE DEF B
<1>1. ReadArguments(p) = [args |-> <<>>, at |-> "plain", arg |-> <<tag>>]
  <2>1. p = Append(<<Space>>, tag) /\ <<Space>> = Append(<<>>, Space) /\ <<Space>> \in Seq(B)
        /\ <<tag>> = Append(<<>>, tag)
    BY <1>0
  <2>2. ReadArguments(<<Space>>) = ArgumentStep(NoArgument, Space) BY <1>0, <2>1, ReadArgumentsEffect
  <2>3. ArgumentStep(NoArgument, Space) = NoArgument BY DEF ArgumentStep, NoArgument
  <2>4. ReadArguments(p) = ArgumentStep(NoArgument, tag)
    <3> DEFINE s == <<Space>>
    <3>1. s \in Seq(B) /\ p = Append(s, tag) /\ ReadArguments(s) = NoArgument BY <2>1, <2>2, <2>3
    <3> HIDE DEF s, p
    <3>2. ReadArguments(Append(s, tag)) = ArgumentStep(ReadArguments(s), tag)
      BY <1>0, <3>1, ReadArgumentsEffect
    <3>3. QED BY <3>1, <3>2
  <2>5. ArgumentStep(NoArgument, tag) = [args |-> <<>>, at |-> "plain", arg |-> <<tag>>]
    BY <2>1 DEF ArgumentStep, NoArgument
  <2>6. QED BY <2>4, <2>5
<1>2. ReadArguments(r) = [args |-> << <<tag>> >>, at |-> "between", arg |-> <<>>]
  <2>1. r = Append(p, Space) /\ p \in Seq(B) BY <1>0
  <2>2. ReadArguments(r) = ArgumentStep([args |-> <<>>, at |-> "plain", arg |-> <<tag>>], Space)
    <3> HIDE DEF p, r
    <3>1. ReadArguments(Append(p, Space)) = ArgumentStep(ReadArguments(p), Space)
      BY <1>0, <2>1, ReadArgumentsEffect
    <3>2. QED BY <1>1, <2>1, <3>1
  <2>3. Append(<<>>, <<tag>>) = << <<tag>> >> OBVIOUS
  <2>4. QED BY <2>2, <2>3 DEF ArgumentStep
<1>3. CASE artist = <<>>
  <2> DEFINE c == <<"list", Space, tag>>
  <2>1. ListCommand(tag, artist, <<>>) = c \o <<>> \o <<>> BY <1>3 DEF ListCommand
  <2>2. c \o <<>> \o <<>> = c OBVIOUS
  <2>3. Tail(c) = p OBVIOUS
  <2>4. Append(<<>>, <<tag>>) = << <<tag>> >> OBVIOUS
  <2> HIDE DEF p
  <2>5. Arguments(p) = Append(<<>>, <<tag>>) BY <1>1 DEF Arguments
  <2>6. QED BY <1>3, <2>1, <2>2, <2>3, <2>4, <2>5
<1>4. CASE artist # <<>>
  <2> DEFINE c == <<"list", Space, tag>>
             L == B \cup {"list"}
  <2>1. ListCommand(tag, artist, <<>>) = c \o (<<Space>> \o q) \o <<>>
    BY <1>4 DEF ListCommand
  <2>2. <<>> \in Seq(B) /\ r \in Seq(B) BY <1>0
  <2>3. /\ r \o q \in Seq(B)
        /\ ReadArguments(r \o q) = [args |-> Append(<< <<tag>> >>, artist), at |-> "between", arg |-> <<>>]
    <3> DEFINE as == << <<tag>> >>
    <3>1. ReadArguments(r) = [args |-> as, at |-> "between", arg |-> <<>>] BY <1>2
    <3> HIDE DEF as, r, q, c, L
    <3>0. {Backslash, DoubleQuote, Space} \subseteq B /\ r \in Seq(B) /\ artist \in Seq(B) BY <1>0, <1>00, <2>2
    <3>2. r \o QuoteArg(artist) \in Seq(B)
      BY <3>0, <3>1, ReadsOneMore
    <3>3. ReadArguments(r \o QuoteArg(artist)) = [args |-> Append(as, artist), at |-> "between", arg |-> <<>>]
      <4>1. ASSUME NEW x \in Seq(B), NEW y, ReadArguments(x) = [args |-> y, at |-> "between", arg |-> <<>>]
            PROVE  ReadArguments(x \o QuoteArg(artist)) = [args |-> Append(y, artist), at |-> "between", arg |-> <<>>]
        BY <3>0, <4>1, ReadsOneMore
      <4>2. QED BY <3>0, <3>1, <4>1
    <3>4. QED BY <3>2, <3>3 DEF as, q
  <2>4. q \in Seq(B)
    <3> DEFINE e == Escaped(artist, {Backslash, DoubleQuote})
    <3>1. e \in Seq(B) BY <1>0, <1>00, EscapedEffect
    <3>2. q = <<DoubleQuote>> \o e \o <<DoubleQuote>> BY DEF QuoteArg
    <3> HIDE DEF e, q
    <3>3. <<DoubleQuote>> \in Seq(B) BY <1>0
    <3>4. QED BY <3>1, <3>2, <3>3
  <2> HIDE DEF q
  <2>5. Tail(c \o (<<Space>> \o q) \o <<>>) = r \o q
    <3>1. B \subseteq L /\ "list" \in L OBVIOUS
    <3> HIDE DEF L
    <3>2. q \in Seq(L) /\ c \in Seq(L) /\ <<Space>> \in Seq(L) /\ r \in Seq(L) BY <1>0, <2>4, <3>1
    <3> HIDE DEF c, r
    <3> DEFINE d == c \o (<<Space>> \o q)
    <3>3. <<Space>> \o q \in Seq(L) /\ d \in Seq(L) /\ d \o <<>> = d BY <3>2
    <3>4. /\ Len(d) = 4 + Len(q) /\ Len(q) \in Nat /\ d # <<>>
          /\ d[2] = Space /\ d[3] = tag /\ d[4] = Space
          /\ \A n \in 1..Len(q) : d[n + 4] = q[n]
      <4> DEFINE s == <<Space>> \o q
      <4>1. Len(q) \in Nat /\ Len(s) = 1 + Len(q) /\ s[1] = Space /\ \A n \in 1..Len(q) : s[n + 1] = q[n]
        BY <3>2
      <4>2. Len(c) = 3 /\ c[2] = Space /\ c[3] = tag BY DEF c
      <4> HIDE DEF s
      <4>3. s \in Seq(L) BY <3>3 DEF s
      <4>4. Len(c \o s) = 3 + Len(s) /\ \A n \in 1..(3 + Len(s)) : (c \o s)[n] = IF n <= 3 THEN c[n] ELSE s[n - 3]
        <5>1. /\ Len(c \o s) = Len(c) + Len(s)
              /\ \A n \in 1..(Len(c) + Len(s)) : (c \o s)[n] = IF n <= Len(c) THEN c[n] ELSE s[n - Len(c)]
          BY <3>2, <4>3, ConcatProperties
        <5>2. QED BY <4>2, <5>1
      <4>5. Len(c \o s) = 4 + Len(q) /\ (c \o s)[2] = Space /\ (c \o s)[3] = tag /\ (c \o s)[4] = Space
        BY <4>1, <4>2, <4>4
      <4>6. ASSUME NEW n \in 1..Len(q) PROVE (c \o s)[n + 4] = q[n]
        <5>1. n + 4 \in 1..(3 + Len(s)) /\ ~(n + 4 <= 3) /\ (n + 4) - 3 = n + 1 BY <4>1
        <5>2. QED BY <4>1, <4>4, <5>1
      <4>7. c \o s # <<>>
        <5>1. Len(c \o s) # 0 BY <4>1, <4>5
        <5>2. QED BY <5>1
      <4>8. QED BY <4>1, <4>5, <4>6, <4>7 DEF s
    <3>5. /\ Len(r \o q) = 3 + Len(q) /\ r \o q \in Seq(L)
          /\ \A n \in 1..(3 + Len(q)) : (r \o q)[n] = IF n <= 3 THEN r[n] ELSE q[n - 3]
          /\ r[1] = Space /\ r[2] = tag /\ r[3] = Space
      <4>1. Len(r) = 3 /\ r[1] = Space /\ r[2] = tag /\ r[3] = Space BY DEF r
      <4>2. /\ Len(r \o q) = Len(r) + Len(q) /\ r \o q \in Seq(L)
            /\ \A n \in 1..(Len(r) + Len(q)) : (r \o q)[n] = IF n <= Len(r) THEN r[n] ELSE q[n - Len(r)]
        BY <3>2, ConcatProperties
      <4>3. QED BY <4>1, <4>2
    <3> HIDE DEF d
    <3>6. Tail(d) \in Seq(L) /\ Len(Tail(d)) = 3 + Len(q) /\ \A n \in 1..(3 + Len(q)) : Tail(d)[n] = d[n + 1]
      BY <3>3, <3>4
    <3>7. ASSUME NEW n \in 1..(3 + Len(q)) PROVE Tail(d)[n] = (r \o q)[n]
      <4>1. CASE n <= 3
        <5>1. n = 1 \/ n = 2 \/ n = 3 BY <3>4, <4>1
        <5>2. d[n + 1] = r[n] BY <3>4, <3>5, <5>1
        <5>3. QED BY <3>5, <3>6, <4>1, <5>2
      <4>2. CASE ~(n <= 3)
        <5>1. n - 3 \in 1..Len(q) /\ (n - 3) + 4 = n + 1 BY <3>4, <4>2
        <5>2. d[n + 1] = q[n - 3] BY <3>4, <5>1
        <5>3. QED BY <3>5, <3>6, <4>2, <5>2
      <4>3. QED BY <4>1, <4>2
    <3>8. Tail(d) = r \o q BY <3>5, <3>6, <3>7, SeqEqual, ZenonT(30)
    <3>9. QED BY <3>3, <3>8 DEF d
  <2>6. Arguments(r \o q) = Append(<< <<tag>> >>, artist) BY <2>3 DEF Arguments
  <2>7. QED BY <1>4, <2>1, <2>5, <2>6, Pair
<1>5. QED BY <1>3, <1>4

LEMMA ImageFinite ==
    ASSUME NEW D, IsFiniteSet(D), NEW f
    PROVE  IsFiniteSet({f[n] : n \in D})
<1> DEFINE g == [n \in D |-> f[n]]
           T == {f[n] : n \in D}
<1>1. g \in Surjection(D, T) BY DEF Surjection
<1> HIDE DEF g, T
<1>2. IsFiniteSet(T) BY <1>1, FS_Surjection
<1>3. QED BY <1>2 DEF T

\* The tags of a song are finitely many.
LEMMA ValuesFinite ==
    ASSUME db \in Databases, NEW n \in DOMAIN db.songs, NEW tag
    PROVE  IsFiniteSet(TagValues(db.songs[n], tag))
<1> DEFINE tags == db.songs[n].tags
           f == [m \in DOMAIN tags |-> tags[m][2]]
           own == {m \in DOMAIN tags : tags[m][1] = tag}
<1>1. IsSequence(tags) BY DatabasesAssumption
<1> HIDE DEF tags
<1>2. DOMAIN tags = 1..Len(tags) /\ Len(tags) \in Nat BY <1>1 DEF IsSequence
<1>3. IsFiniteSet(own)
  <2>1. IsFiniteSet(DOMAIN tags) BY <1>2, FS_Interval
  <2>2. own \subseteq DOMAIN tags OBVIOUS
  <2>3. QED BY <2>1, <2>2, FS_Subset
<1>4. TagValues(db.songs[n], tag) = {f[m] : m \in own} BY DEF TagValues, tags
<1> HIDE DEF f, own
<1>5. QED BY <1>3, <1>4, ImageFinite

\* The songs of a database are a list of finite length.
LEMMA SongsAre ==
    ASSUME db \in Databases
    PROVE  DOMAIN db.songs = 1..Len(db.songs) /\ Len(db.songs) \in Nat /\ IsFiniteSet(DOMAIN db.songs)
<1>1. DOMAIN db.songs = 1..Len(db.songs) /\ Len(db.songs) \in Nat
  BY DatabasesAssumption DEF IsSequence
<1>2. QED BY <1>1, FS_Interval

\* What MPD has to list, of some songs, and its answer.
ListedBy(tag, ns) ==
    UNION {IF TagValues(db.songs[n], CanonicalTag(tag)) = {} THEN {<<>>}
           ELSE TagValues(db.songs[n], CanonicalTag(tag)) : n \in ns}
ListedReply(tag, ns) ==
    [n \in DOMAIN SetToSeq(ListedBy(tag, ns)) |-> Field(CanonicalTag(tag), SetToSeq(ListedBy(tag, ns))[n])] \o OK

\* What MPD lists is what the client has in the end.
LEMMA ListedValues ==
    ASSUME db \in Databases, NEW tag, NEW ns \in SUBSET DOMAIN db.songs
    PROVE  LET reply == ListedReply(tag, ns) IN
           /\ ~ParseText(reply).ack
           /\ [what |-> "listed", values |-> Elements(ParseList(reply, tag))] = Listed(tag, ns)
<1> DEFINE c == CanonicalTag(tag)
           U == ListedBy(tag, ns)
           reply == ListedReply(tag, ns)
           had(n) == TagValues(db.songs[n], c)
           values(n) == IF had(n) = {} THEN {<<>>} ELSE had(n)
           listed == SetToSeq(U)
           F == {Field(c, v) : v \in U}
           fs == [n \in DOMAIN listed |-> Field(c, listed[n])]
           meant == UNION {had(n) : n \in ns}
<1>1. IsFiniteSet(U)
  <2> DEFINE f == [n \in DOMAIN db.songs |-> values(n)]
  <2>1. ASSUME NEW n \in ns PROVE IsFiniteSet(values(n))
    <3>1. IsFiniteSet(had(n)) BY ValuesFinite
    <3>2. IsFiniteSet({<<>>}) BY FS_Singleton
    <3> HIDE DEF had
    <3>3. QED BY <3>1, <3>2
  <2>2. IsFiniteSet(ns) BY SongsAre, FS_Subset
  <2>3. \A n \in ns : f[n] = values(n) OBVIOUS
  <2>4. U = UNION {f[n] : n \in ns}
    <3>1. U = UNION {values(n) : n \in ns} BY DEF ListedBy
    <3>2. {values(n) : n \in ns} = {f[n] : n \in ns}
      <4> HIDE DEF values, f
      <4>1. QED BY <2>3
    <3> HIDE DEF f, values
    <3>3. QED BY <3>1, <3>2
  <2> DEFINE T == {f[n] : n \in ns}
  <2>5. \A t \in T : IsFiniteSet(t)
    <3> HIDE DEF values, f
    <3>1. QED BY <2>1, <2>3
  <2>6. IsFiniteSet(T)
    <3> HIDE DEF values, f
    <3>1. QED BY <2>2, ImageFinite
  <2> HIDE DEF T
  <2>7. IsFiniteSet(UNION T) BY <2>5, <2>6, FS_UNION
  <2>8. QED BY <2>4, <2>7 DEF T
<1>2. listed \in Seq(U) /\ \A x : Contains(listed, x) <=> x \in U BY <1>1, SetToSeqElements
<1>3. reply = fs \o OK BY DEF ListedReply
<1> HIDE DEF listed, c, U, reply
<1>4. \A x \in F : x.line = "field" /\ x.key = c /\ x.value \in U
  <2> SUFFICES ASSUME NEW v \in U
               PROVE  Field(c, v).line = "field" /\ Field(c, v).key = c /\ Field(c, v).value \in U
    OBVIOUS
  <2>1. QED BY DEF Field
<1>5. /\ fs \in Seq(F) /\ Len(fs) = Len(listed) /\ Len(listed) \in Nat
      /\ \A n \in 1..Len(fs) : fs[n].key = c /\ fs[n].value = listed[n]
  <2>1. DOMAIN listed = 1..Len(listed) /\ Len(listed) \in Nat /\ \A n \in 1..Len(listed) : listed[n] \in U
    <3>1. listed \in Seq(U) BY <1>2
    <3>2. QED BY <3>1
  <2>2. \A n \in 1..Len(listed) : Field(c, listed[n]) \in F BY <2>1
  <2>3. fs = [n \in 1..Len(listed) |-> Field(c, listed[n])] BY <2>1
  <2>4. \A n \in 1..Len(listed) : Field(c, listed[n]).key = c /\ Field(c, listed[n]).value = listed[n]
    BY DEF Field
  <2> HIDE DEF F, fs
  <2>5. fs \in Seq(F) /\ Len(fs) = Len(listed) BY <2>1, <2>2, <2>3
  <2>6. \A n \in 1..Len(fs) : fs[n] = Field(c, listed[n]) BY <2>3, <2>5
  <2>7. QED BY <2>1, <2>4, <2>5, <2>6
<1> HIDE DEF F, fs
<1>6. ~ParseText(reply).ack
  <2>1. \A x \in F : x.line = "field" BY <1>4
  <2>2. fs \in Seq(F) BY <1>5
  <2>3. ParseText(fs \o OK) = [fields |-> fs, ack |-> FALSE] BY <2>1, <2>2, ResponseRead
  <2>4. QED BY <1>3, <2>3
<1> DEFINE own == {m \in 1..Len(fs) : fs[m].key = c}
<1>7. Elements(ParseList(reply, tag)) = {TrimStart(v) : v \in {fs[n].value : n \in own}} \ {<<>>}
  <2>1. \A x \in F : x.line = "field" BY <1>4
  <2>2. fs \in Seq(F) BY <1>5
  <2>3. Elements(ParseList(fs \o OK, tag)) =
           {TrimStart(v) : v \in {fs[n].value : n \in {m \in 1..Len(fs) : fs[m].key = CanonicalTag(tag)}}}
              \ {<<>>}
    BY <2>1, <2>2, ParseListEffect
  <2>4. QED BY <1>3, <2>3 DEF c
<1>8. {fs[n].value : n \in own} = U
  <2>1. \A v : (\E n \in 1..Len(fs) : fs[n].value = v) <=> v \in U BY <1>2, <1>5 DEF Contains
  <2>2. own = 1..Len(fs) BY <1>5
  <2>3. QED BY <2>1, <2>2
<1>9. {TrimStart(v) : v \in U} \ {<<>>} = {TrimStart(v) : v \in meant} \ {<<>>}
  <2>1. U = UNION {values(n) : n \in ns} BY DEF c, U, ListedBy
  <2>2. \A v : v \in U <=> \E n \in ns : v \in values(n) BY <2>1
  <2>3. \A v : v \in meant <=> \E n \in ns : v \in had(n) OBVIOUS
  <2>4. \A v \in meant : v \in U BY <2>2, <2>3
  <2>5. \A v \in U : v \in meant \/ TrimStart(v) = <<>>
    <3>1. \A n, v : v \in values(n) => v \in had(n) \/ v = <<>> OBVIOUS
    <3> HIDE DEF values, had, meant
    <3>2. QED BY <2>2, <2>3, <3>1, TrimNothing
  <2> HIDE DEF meant
  <2>6. QED BY <2>4, <2>5
<1>10. Listed(tag, ns) = [what |-> "listed", values |-> {TrimStart(v) : v \in meant} \ {<<>>}]
  BY DEF Listed, c
<1>11. QED BY <1>6, <1>7, <1>8, <1>9, <1>10 DEF reply

\* What MPD answers a list command with.
LEMMA ListReplyIs ==
    ASSUME db \in Databases, NEW tag, NEW artist,
           NEW command, Arguments(Tail(command)) = IF artist = <<>> THEN << <<tag>> >> ELSE << <<tag>>, artist >>
    PROVE  ListReply(db, command) =
              IF artist = <<>> THEN ListedReply(tag, DOMAIN db.songs)
              ELSE IF CanonicalTag(tag) = "Album" THEN ListedReply(tag, Of("Artist", artist))
              ELSE ACK
<1> DEFINE args == Arguments(Tail(command))
           only == IF Len(args) = 2 THEN << [tag |-> "Artist", op |-> "==", value |-> args[2]] >> ELSE <<>>
           ns == Selected(db, only)
           c == CanonicalTag(args[1][1])
           values(n) == IF TagValues(db.songs[n], c) = {} THEN {<<>>} ELSE TagValues(db.songs[n], c)
           listed == SetToSeq(UNION {values(n) : n \in ns})
           reply == [n \in DOMAIN listed |-> Field(c, listed[n])] \o OK
<1>1. ListReply(db, command) = IF Len(args) > 2 \/ (Len(args) = 2 /\ c # "Album") THEN ACK ELSE reply
  BY DEF ListReply
<1> DEFINE by(x) == UNION {IF TagValues(db.songs[n], x) = {} THEN {<<>>} ELSE TagValues(db.songs[n], x) : n \in ns}
           answered(x) == [n \in DOMAIN SetToSeq(by(x)) |-> Field(x, SetToSeq(by(x))[n])] \o OK
<1>2. ASSUME c = CanonicalTag(tag) PROVE reply = ListedReply(tag, ns)
  <2>1. reply = answered(c) OBVIOUS
  <2>2. ListedReply(tag, ns) = answered(CanonicalTag(tag)) BY DEF ListedReply, ListedBy
  <2> HIDE DEF answered, reply, c
  <2>3. QED BY <1>2, <2>1, <2>2
<1> HIDE DEF by, answered
<1>3. args[1] = <<tag>>
  BY Pair
<1>4. <<tag>>[1] = tag OBVIOUS
<1> HIDE DEF reply
<1>5. c = CanonicalTag(tag) BY <1>3, <1>4
<1>50. reply = ListedReply(tag, ns) BY <1>2, <1>5
<1> HIDE DEF c
<1>6. CASE artist = <<>>
  <2>1. Len(args) = 1 BY <1>6
  <2>2. only = <<>> BY <2>1
  <2>3. ns = DOMAIN db.songs BY <2>2 DEF Selected
  <2> HIDE DEF args, ns
  <2>4. QED BY <1>1, <1>50, <1>6, <2>1, <2>3
<1>7. CASE artist # <<>>
  <2>1. Len(args) = 2 /\ args[2] = artist BY <1>7
  <2>2. only = << [tag |-> "Artist", op |-> "==", value |-> artist] >> BY <2>1
  <2>3. ns = Of("Artist", artist)
    <3>1. ns = Selected(db, << [tag |-> "Artist", op |-> "==", value |-> artist] >>) BY <2>2
    <3>2. ns = {n \in DOMAIN db.songs : artist \in TagValues(db.songs[n], "Artist")}
      BY <3>1 DEF Selected
    <3>3. Of("Artist", artist) = {n \in DOMAIN db.songs : artist \in TagValues(db.songs[n], "Artist")}
      BY DEF Of, Wishes
    <3>4. QED BY <3>2, <3>3
  <2> HIDE DEF args, ns
  <2>4. QED BY <1>1, <1>5, <1>50, <1>7, <2>1, <2>3
<1>8. QED BY <1>6, <1>7

\* A list that was asked for.
LEMMA ListRight ==
    ASSUME db \in Databases, NEW l \in Lists, ListTag(l[1], l[2], l[3])
    PROVE  ListsComplete'
<1> DEFINE tag == l[1]
           artist == l[2]
           command == ListCommand(tag, artist, <<>>)
           A == {artist[n] : n \in DOMAIN artist} \cup {Backslash, DoubleQuote, Space}
<1> SUFFICES ASSUME l[3] = <<>> PROVE ListsComplete'
  BY DEF ListTag, Asks, ListsComplete
<1>1. /\ asked' = [what |-> "list", tag |-> tag, artist |-> artist, albumartist |-> <<>>]
      /\ sent' = IF tag \in ListTags THEN command ELSE <<>>
      /\ answer' = IF tag \notin ListTags \/ ParseText(ListReply(db, sent')).ack THEN [what |-> "error"]
                   ELSE [what |-> "listed", values |-> Elements(ParseList(ListReply(db, sent'), tag))]
      /\ db' = db
  BY DEF ListTag, Asks
<1>2. artist \in Seq(A)
  <2>1. artist \in Seq({artist[n] : n \in DOMAIN artist}) BY ListsAssumption DEF IsSequence
  <2>2. {artist[n] : n \in DOMAIN artist} \subseteq A OBVIOUS
  <2> DEFINE B == {artist[n] : n \in DOMAIN artist}
  <2> HIDE DEF A, B
  <2>3. artist \in Seq(B) /\ B \subseteq A BY <2>1, <2>2 DEF B
  <2>4. QED BY <2>3
<1>3. {Backslash, DoubleQuote, Space} \subseteq A OBVIOUS
<1> HIDE DEF A, tag, artist, command
<1>6. ListsComplete' <=>
        answer' = IF tag \in ListTags /\ artist = <<>> THEN Listed(tag, DOMAIN db.songs)
                  ELSE IF tag = "album" THEN Listed("album", Of("Artist", artist))
                  ELSE [what |-> "error"]
  <2>1. asked'.what = "list" /\ asked'.albumartist = <<>> /\ asked'.tag = tag /\ asked'.artist = artist
    BY <1>1
  <2>2. ListsComplete' <=>
        answer' = IF tag \in ListTags /\ artist = <<>> THEN Listed(tag, DOMAIN db.songs)'
                  ELSE IF tag = "album" THEN Listed("album", Of("Artist", artist))'
                  ELSE [what |-> "error"]
    BY <2>1 DEF ListsComplete
  <2>3. Listed(tag, DOMAIN db.songs)' = Listed(tag, DOMAIN db.songs) BY <1>1 DEF Listed
  <2>4. Listed("album", Of("Artist", artist))' = Listed("album", Of("Artist", artist))
    BY <1>1 DEF Listed, Of, Wishes
  <2>5. QED BY <2>2, <2>3, <2>4
<1>7. CASE tag \notin ListTags
  <2>1. tag # "album" BY <1>7 DEF ListTags
  <2>2. QED BY <1>1, <1>6, <1>7, <2>1
<1>8. CASE tag \in ListTags
  <2>1. tag # Space /\ tag # DoubleQuote BY <1>8 DEF ListTags, Space, DoubleQuote
  <2>2. Arguments(Tail(command)) = IF artist = <<>> THEN << <<tag>> >> ELSE << <<tag>>, artist >>
    BY <1>2, <1>3, <2>1, ListCommandRead DEF command
  <2>3. sent' = command BY <1>1, <1>8
  <2>4. ListReply(db, command) =
              IF artist = <<>> THEN ListedReply(tag, DOMAIN db.songs)
              ELSE IF CanonicalTag(tag) = "Album" THEN ListedReply(tag, Of("Artist", artist))
              ELSE ACK
    BY <2>2, ListReplyIs
  <2>5. CanonicalTag(tag) = "Album" <=> tag = "album" BY <1>8 DEF CanonicalTag, ListTags
  <2>6. ASSUME NEW ns \in SUBSET DOMAIN db.songs, ListReply(db, command) = ListedReply(tag, ns)
        PROVE  answer' = Listed(tag, ns)
    BY <1>1, <1>8, <2>3, <2>6, ListedValues
  <2>7. CASE artist = <<>>
    BY <1>6, <1>8, <2>4, <2>6, <2>7
  <2>8. CASE artist # <<>> /\ tag = "album"
    <3>1. Of("Artist", artist) \subseteq DOMAIN db.songs BY DEF Of
    <3>2. answer' = Listed(tag, Of("Artist", artist)) BY <2>4, <2>5, <2>6, <2>8, <3>1
    <3>3. QED BY <1>6, <2>8, <3>2
  <2>9. CASE artist # <<>> /\ tag # "album"
    <3>1. ListReply(db, command) = ACK BY <2>4, <2>5, <2>9
    <3>2. ParseText(ACK).ack
      <4> DEFINE o == Terminator("ACK")
                 lines == <<o>>
      <4>1. o.line = "ACK" BY DEF Terminator
      <4> HIDE DEF o
      <4>2. ACK = lines BY DEF ACK, o
      <4>3. Len(lines) = 1 /\ lines[1] = o OBVIOUS
      <4> HIDE DEF lines
      <4> DEFINE I == {n \in 1..Len(lines) : lines[n].line \in {"OK", "ACK"}}
      <4>4. I = {1} BY <4>1, <4>3
      <4>5. Min({1}) = 1 BY DEF Min
      <4>6. SelectInSeq(lines, LAMBDA x : x.line \in {"OK", "ACK"}) = IF I # {} THEN Min(I) ELSE 0
        BY DEF SelectInSeq
      <4> HIDE DEF I
      <4>7. SelectInSeq(lines, LAMBDA x : x.line \in {"OK", "ACK"}) = 1 BY <4>4, <4>5, <4>6
      <4> DEFINE ends == SelectInSeq(lines, LAMBDA x : x.line \in {"OK", "ACK"})
      <4>8. ParseText(lines).ack <=> (ends # 0 /\ lines[ends].line = "ACK") BY DEF ParseText
      <4> HIDE DEF ends
      <4>9. ends = 1 BY <4>7 DEF ends
      <4>10. QED BY <4>1, <4>2, <4>3, <4>8, <4>9
    <3>3. answer' = [what |-> "error"] BY <1>1, <2>3, <3>1, <3>2
    <3>4. QED BY <1>6, <2>9, <3>3
  <2>10. QED BY <2>7, <2>8, <2>9
<1>9. QED BY <1>7, <1>8

LEMMA CollectionsInit == LibraryInit => ListsComplete
  BY DEF LibraryInit, ListsComplete, Nothing

LEMMA CollectionsStep ==
    db \in Databases /\ ListsComplete /\ [LibraryNext]_libraryVars => ListsComplete'
<1> SUFFICES ASSUME db \in Databases, ListsComplete, [LibraryNext]_libraryVars PROVE ListsComplete'
  OBVIOUS
<1>1. ASSUME UNCHANGED <<db, asked, answer>> PROVE ListsComplete'
  BY <1>1 DEF ListsComplete, Listed, Of, Wishes
<1>2. CASE Search
  BY <1>1, <1>2 DEF Search, browsing
<1>3. CASE Answered
  BY <1>3 DEF Answered, ListsComplete, Nothing
<1>4. ASSUME NEW t, AddByPath(t) \/ Browse(t) \/ AddByTag(t) PROVE ListsComplete'
  <2>1. ASSUME AddByPath(t) PROVE asked'.what # "list" BY <2>1 DEF AddByPath, Asks
  <2>2. ASSUME Browse(t) PROVE asked'.what # "list" BY <2>2 DEF Browse, Asks
  <2>3. ASSUME AddByTag(t) PROVE asked'.what # "list" BY <2>3 DEF AddByTag, Asks
  <2>4. QED BY <1>4, <2>1, <2>2, <2>3 DEF ListsComplete
<1>5. ASSUME NEW l \in Lists, ListTag(l[1], l[2], l[3]) PROVE ListsComplete'
  BY <1>5, ListRight
<1>6. CASE UNCHANGED libraryVars
  BY <1>1, <1>6 DEF libraryVars, browsing
<1>7. QED BY <1>2, <1>3, <1>4, <1>5, <1>6 DEF LibraryNext

\* A list holds every value there is and no blank one, and what is refused is an
\* error: for every database, tag and artist.
THEOREM ListsAreComplete == LibrarySpec => []ListsComplete
<1>1. LibraryInit => db \in Databases BY DEF LibraryInit
<1>2. db \in Databases /\ [LibraryNext]_libraryVars => (db \in Databases)'
  BY DEF LibraryNext, Search, Answered, AddByPath, Browse, AddByTag, ListTag, Asks, libraryVars
<1>3. QED BY <1>1, <1>2, CollectionsInit, CollectionsStep, PTL DEF LibrarySpec

-----------------------------------------------------------------------------
(* The dump.                                                               *)

NoGroup == [items |-> <<>>, current |-> <<>>]

\* How far the lines are grouped after each of them.
Groups(fields, starts, f) ==
    f = [n \in 0..Len(fields) |->
            IF n = 0 THEN NoGroup ELSE GroupStep(f[n - 1], fields[n], starts)]

LEMMA GroupedIs ==
    ASSUME NEW A, NEW t \in Seq(A), NEW starts, NEW f, Groups(t, starts, f)
    PROVE  Grouped(t, starts) = f[Len(t)]
<1>0. Len(t) \in Nat OBVIOUS
<1>1. Grouped(t, starts) = (CHOOSE g : Groups(t, starts, g))[Len(t)]
  BY DEF Grouped, Groups, NoGroup
<1>2. PICK g : Groups(t, starts, g) /\ Grouped(t, starts) = g[Len(t)]
  <2>1. Groups(t, starts, CHOOSE g : Groups(t, starts, g)) OBVIOUS
  <2>2. QED BY <1>1, <2>1
<1> DEFINE S == {n \in Nat : n <= Len(t) => g[n] = f[n]}
<1>3. 0 \in 0..Len(t) /\ \A n \in Nat : n + 1 <= Len(t) => n + 1 \in 0..Len(t) /\ n + 1 # 0 /\ n + 1 - 1 = n /\ n <= Len(t)
  BY <1>0
<1>4. 0 \in S
  BY <1>2, <1>3 DEF Groups
<1>5. ASSUME NEW n \in Nat, n \in S PROVE n + 1 \in S
  <2> SUFFICES ASSUME n + 1 <= Len(t) PROVE g[n + 1] = f[n + 1]
    OBVIOUS
  <2>1. g[n] = f[n] BY <1>3, <1>5
  <2>2. /\ g[n + 1] = GroupStep(g[n + 1 - 1], t[n + 1], starts)
        /\ f[n + 1] = GroupStep(f[n + 1 - 1], t[n + 1], starts)
    BY <1>2, <1>3 DEF Groups
  <2>3. n + 1 - 1 = n OBVIOUS
  <2>4. QED BY <2>1, <2>2, <2>3
<1> HIDE DEF S
<1>6. \A n \in Nat : n \in S BY <1>4, <1>5, NaturalsFrom
<1>7. QED BY <1>0, <1>2, <1>6 DEF S

LEMMA GroupsExist ==
    ASSUME NEW A, NEW t \in Seq(A), NEW starts
    PROVE  \E f : Groups(t, starts, f)
<1> DEFINE R(k, f) == f = [n \in 0..k |-> IF n = 0 THEN NoGroup ELSE GroupStep(f[n - 1], t[n], starts)]
           S == {k \in Nat : \E f : R(k, f)}
<1>1. 0 \in S
  <2>1. R(0, [n \in 0..0 |-> NoGroup]) OBVIOUS
  <2> HIDE DEF R
  <2>2. QED BY <2>1
<1>2. ASSUME NEW k \in Nat, k \in S PROVE k + 1 \in S
  <2>1. PICK f : R(k, f)
    <3> HIDE DEF R
    <3>1. QED BY <1>2
  <2> DEFINE g == [n \in 0..(k + 1) |-> IF n = k + 1 THEN GroupStep(f[k], t[k + 1], starts) ELSE f[n]]
             h(n) == IF n = 0 THEN NoGroup ELSE GroupStep(g[n - 1], t[n], starts)
  <2>2. ASSUME NEW n \in 0..(k + 1) PROVE g[n] = h(n)
    <3>1. CASE n = k + 1
      <4>1. n # 0 /\ n - 1 = k /\ k \in 0..(k + 1) /\ k # k + 1 BY <3>1
      <4>2. QED BY <3>1, <4>1
    <3>2. CASE n # k + 1
      <4>1. n \in 0..k BY <3>2
      <4>2. f[n] = IF n = 0 THEN NoGroup ELSE GroupStep(f[n - 1], t[n], starts) BY <2>1, <4>1
      <4>3. n # 0 => n - 1 \in 0..(k + 1) /\ n - 1 # k + 1 BY <4>1
      <4>4. QED BY <3>2, <4>2, <4>3
    <3>3. QED BY <3>1, <3>2
  <2>3. R(k + 1, g)
    <3>1. g = [n \in 0..(k + 1) |-> g[n]] OBVIOUS
    <3> HIDE DEF g
    <3>2. QED BY <2>2, <3>1
  <2> HIDE DEF R, g
  <2>4. QED BY <2>3
<1> HIDE DEF S
<1>3. \A k \in Nat : k \in S BY <1>1, <1>2, NaturalsFrom
<1>4. Len(t) \in S BY <1>3
<1>5. QED BY <1>4 DEF S, Groups

\* Lines are grouped from the front to the back.
LEMMA GroupedEffect ==
    ASSUME NEW A, NEW t \in Seq(A), NEW c \in A, NEW starts
    PROVE  /\ Grouped(<<>>, starts) = NoGroup
           /\ Grouped(Append(t, c), starts) = GroupStep(Grouped(t, starts), c, starts)
<1> DEFINE u == Append(t, c)
<1>1. /\ u \in Seq(A) /\ Len(u) = Len(t) + 1 /\ Len(t) \in Nat
      /\ u[Len(t) + 1] = c /\ \A n \in 1..Len(t) : u[n] = t[n]
  OBVIOUS
<1> HIDE DEF u
<1>2. PICK f : Groups(u, starts, f) BY <1>1, GroupsExist
<1> DEFINE g == [n \in 0..Len(t) |-> f[n]]
<1>3. ASSUME NEW n \in 0..Len(t)
      PROVE g[n] = IF n = 0 THEN NoGroup ELSE GroupStep(g[n - 1], t[n], starts)
  <2>1. n \in 0..Len(u) /\ (n # 0 => n - 1 \in 0..Len(t) /\ n \in 1..Len(t)) BY <1>1
  <2>2. f[n] = IF n = 0 THEN NoGroup ELSE GroupStep(f[n - 1], u[n], starts) BY <1>2, <2>1 DEF Groups
  <2>3. QED BY <1>1, <2>1, <2>2
<1>4. Groups(t, starts, g)
  <2>1. g = [n \in 0..Len(t) |-> g[n]] OBVIOUS
  <2> HIDE DEF g
  <2>2. QED BY <1>3, <2>1 DEF Groups
<1>5. g[Len(t)] = f[Len(t)] BY <1>1
<1> HIDE DEF g
<1>6. Grouped(t, starts) = f[Len(t)] BY <1>4, <1>5, GroupedIs
<1>7. Grouped(u, starts) = f[Len(u)] BY <1>1, <1>2, GroupedIs
<1>8. f[Len(u)] = GroupStep(f[Len(t)], c, starts)
  <2>1. Len(u) \in 0..Len(u) /\ Len(u) # 0 /\ Len(u) - 1 = Len(t) BY <1>1
  <2>2. f[Len(u)] = GroupStep(f[Len(u) - 1], u[Len(u)], starts) BY <1>2, <2>1 DEF Groups
  <2>3. QED BY <1>1, <2>1, <2>2
<1>9. Grouped(<<>>, starts) = NoGroup
  <2>1. <<>> \in Seq(A) /\ Len(<<>>) = 0 OBVIOUS
  <2>2. PICK x : Groups(<<>>, starts, x) BY <2>1, GroupsExist
  <2>3. x[0] = NoGroup BY <2>1, <2>2 DEF Groups
  <2>4. QED BY <2>1, <2>2, <2>3, GroupedIs
<1>10. QED BY <1>6, <1>7, <1>8, <1>9 DEF u

\* A group: its first line starts one and the others do not.
Group(F, starts) ==
    {g \in Seq(F) : /\ g # <<>> /\ g[1].key \in starts
                    /\ \A n \in 2..Len(g) : g[n].key \notin starts}

\* What is grouped so far.
Whole(acc) == IF acc.current = <<>> THEN acc.items ELSE Append(acc.items, acc.current)

\* The lines of a group, after others.
LEMMA OneMoreGroup ==
    ASSUME NEW F, NEW starts, NEW fs \in Seq(F), NEW items, NEW current,
           Grouped(fs, starts) = [items |-> items, current |-> current],
           NEW group \in Group(F, starts)
    PROVE  Grouped(fs \o group, starts)
             = [items |-> Whole([items |-> items, current |-> current]), current |-> group]
<1> DEFINE whole == Whole([items |-> items, current |-> current])
           after(g) == [items |-> whole, current |-> g]
           S == {g \in Seq(F) : g \in Group(F, starts) => Grouped(fs \o g, starts) = after(g)}
<1>1. <<>> \in S BY DEF Group
<1>2. ASSUME NEW g \in Seq(F), NEW c \in F, g \in S PROVE Append(g, c) \in S
  <2> DEFINE h == Append(g, c)
  <2>1. /\ h \in Seq(F) /\ Len(h) = Len(g) + 1 /\ Len(g) \in Nat /\ h[Len(g) + 1] = c
        /\ \A n \in 1..Len(g) : h[n] = g[n]
    OBVIOUS
  <2>2. fs \o h = Append(fs \o g, c) BY ConcatAppend
  <2> HIDE DEF h
  <2>3. fs \o g \in Seq(F) OBVIOUS
  <2>4. Grouped(fs \o h, starts) = GroupStep(Grouped(fs \o g, starts), c, starts)
    <3> DEFINE t == fs \o g
    <3>1. t \in Seq(F) BY <2>3
    <3> HIDE DEF t
    <3>2. Grouped(Append(t, c), starts) = GroupStep(Grouped(t, starts), c, starts)
      BY <3>1, GroupedEffect
    <3>3. QED BY <2>2, <3>2 DEF t
  <2> SUFFICES ASSUME h \in Group(F, starts) PROVE Grouped(fs \o h, starts) = after(h)
    BY <2>1 DEF h
  <2>5. CASE g = <<>>
    <3>1. fs \o g = fs /\ Len(g) = 0 BY <2>5
    <3>2. h = <<c>> BY <2>5 DEF h
    <3>3. c.key \in starts BY <3>2 DEF Group
    <3>4. GroupStep([items |-> items, current |-> current], c, starts)
            = [items |-> whole, current |-> <<c>>]
      BY <3>3 DEF GroupStep, Whole
    <3>5. QED BY <2>4, <3>1, <3>2, <3>4
  <2>6. CASE g # <<>>
    <3>1. Len(g) # 0 BY <2>6, EmptySeq
    <3>2. g \in Group(F, starts)
      <4>1. 1 \in 1..Len(g) /\ \A n \in 2..Len(g) : n \in 1..Len(g) /\ n \in 2..Len(h) BY <2>1, <3>1
      <4>2. g[1].key \in starts BY <2>1, <4>1 DEF Group
      <4>3. \A n \in 2..Len(g) : g[n].key \notin starts BY <2>1, <4>1 DEF Group
      <4>4. QED BY <2>6, <4>2, <4>3 DEF Group
    <3>3. c.key \notin starts
      <4>1. Len(g) + 1 \in 2..Len(h) BY <2>1, <3>1
      <4>2. h[Len(g) + 1].key \notin starts BY <4>1 DEF Group
      <4>3. QED BY <2>1, <4>2
    <3>4. Grouped(fs \o g, starts) = after(g) BY <1>2, <3>2
    <3>5. GroupStep(after(g), c, starts) = after(Append(g, c))
      <4> HIDE DEF whole
      <4>1. QED BY <2>6, <3>3 DEF GroupStep
    <3>6. QED BY <2>4, <3>4, <3>5 DEF h
  <2>7. QED BY <2>5, <2>6
<1> HIDE DEF S
<1>3. \A g \in Seq(F) : g \in S BY <1>1, <1>2, SequencesFrom
<1>4. group \in Seq(F) BY DEF Group
<1>5. QED BY <1>3, <1>4 DEF S

\* group_items takes apart what was put together: no line is lost, and none gets into a
\* neighbour's group, whatever lines the groups have.
THEOREM GroupsAreFound ==
    ASSUME NEW F, NEW starts, NEW groups \in Seq(Group(F, starts))
    PROVE  FlattenSeq(groups) \in Seq(F) /\ GroupItems(FlattenSeq(groups), starts) = groups
<1> DEFINE G == Group(F, starts)
           Found(gg) == /\ FlattenSeq(gg) \in Seq(F)
                        /\ \E items, current :
                              /\ Grouped(FlattenSeq(gg), starts) = [items |-> items, current |-> current]
                              /\ Whole([items |-> items, current |-> current]) = gg
           S == {gg \in Seq(G) : Found(gg)}
<1>1. <<>> \in S
  <2>1. FlattenSeq(<<>>) = <<>> BY DEF FlattenSeq
  <2>2. <<>> \in Seq(F) /\ <<>> \in Seq(G) OBVIOUS
  <2>3. Grouped(<<>>, starts) = [items |-> <<>>, current |-> <<>>]
    <3> DEFINE A == {1}
    <3>1. <<>> \in Seq(A) /\ 1 \in A OBVIOUS
    <3> HIDE DEF A
    <3>2. QED BY <3>1, GroupedEffect DEF NoGroup
  <2>4. Whole([items |-> <<>>, current |-> <<>>]) = <<>> BY DEF Whole
  <2>5. Found(<<>>) BY <2>1, <2>2, <2>3, <2>4
  <2> HIDE DEF Found
  <2>6. QED BY <2>2, <2>5
<1>2. ASSUME NEW gg \in Seq(G), NEW g \in G, gg \in S PROVE Append(gg, g) \in S
  <2>1. Found(gg) BY <1>2
  <2>2. PICK items, current : /\ Grouped(FlattenSeq(gg), starts) = [items |-> items, current |-> current]
                              /\ Whole([items |-> items, current |-> current]) = gg
    BY <2>1
  <2>3. gg \in Seq(Seq(F)) /\ g \in Seq(F) /\ g # <<>>
    <3>1. G \subseteq Seq(F) BY DEF Group
    <3>2. g # <<>> BY DEF Group
    <3> HIDE DEF G
    <3> DEFINE Q == Seq(F)
    <3>3. G \subseteq Q BY <3>1
    <3> HIDE DEF Q
    <3>4. gg \in Seq(Q) BY <3>3
    <3>5. QED BY <3>1, <3>2, <3>4 DEF Q
  <2>4. FlattenSeq(Append(gg, g)) = FlattenSeq(gg) \o g BY <2>3, FlattenEffect
  <2>5. Grouped(FlattenSeq(gg) \o g, starts) = [items |-> gg, current |-> g]
    <3>1. FlattenSeq(gg) \in Seq(F) BY <2>1
    <3>2. QED BY <2>2, <3>1, OneMoreGroup
  <2>6. Whole([items |-> gg, current |-> g]) = Append(gg, g) BY <2>3 DEF Whole
  <2>7. FlattenSeq(Append(gg, g)) \in Seq(F) BY <2>1, <2>3, <2>4
  <2>8. Found(Append(gg, g)) BY <2>4, <2>5, <2>6, <2>7
  <2> HIDE DEF Found
  <2>9. QED BY <2>8
<1> HIDE DEF S
<1>3. \A gg \in Seq(G) : gg \in S
  <2> HIDE DEF G
  <2>1. QED BY <1>1, <1>2, SequencesFrom
<1>4. Found(groups) BY <1>3 DEF S
<1>5. GroupItems(FlattenSeq(groups), starts) = Whole(Grouped(FlattenSeq(groups), starts))
  BY DEF GroupItems, Whole
<1>6. QED BY <1>4, <1>5

\* The lines of a song.
TagLines(song) == [m \in DOMAIN song.tags |-> Field(song.tags[m][1], song.tags[m][2])]
TimeLines(song) == IF song.time = Unknown THEN <<>> ELSE <<Field("Time", song.time)>>
LinesOf(song) ==
    {Field("file", song.file), Field("Time", song.time)}
        \cup {Field(song.tags[m][1], song.tags[m][2]) : m \in DOMAIN song.tags}

LEMMA SongLinesAre ==
    ASSUME db \in Databases, NEW n \in DOMAIN db.songs
    PROVE  LET song == db.songs[n]
               lines == SongLines(song)
           IN  /\ DOMAIN song.tags = 1..Len(song.tags) /\ Len(song.tags) \in Nat
               /\ lines \in Seq(LinesOf(song)) /\ Len(lines) \in {Len(song.tags) + 1, Len(song.tags) + 2}
               /\ Len(lines) = Len(song.tags) + 1 <=> song.time = Unknown
               /\ lines[1] = Field("file", song.file)
               /\ \A m \in 1..Len(song.tags) : lines[m + 1] = Field(song.tags[m][1], song.tags[m][2])
               /\ \A at \in 1..Len(lines) : at > Len(song.tags) + 1 => lines[at] = Field("Time", song.time)
<1> DEFINE song == db.songs[n]
           tags == song.tags
           L == LinesOf(song)
           first == Field("file", song.file)
           f == <<first>>
           s == TagLines(song)
           t == TimeLines(song)
<1>1. DOMAIN tags = 1..Len(tags) /\ Len(tags) \in Nat
  <2>1. IsSequence(tags) BY DatabasesAssumption
  <2> HIDE DEF tags
  <2>2. QED BY <2>1 DEF IsSequence
<1>2. first \in L /\ Field("Time", song.time) \in L
      /\ \A m \in DOMAIN tags : Field(tags[m][1], tags[m][2]) \in L
  BY DEF LinesOf
<1>3. s = [m \in DOMAIN tags |-> Field(tags[m][1], tags[m][2])] BY DEF TagLines
<1>4. SongLines(song) = f \o s \o t BY DEF SongLines, TagLines, TimeLines
<1>5. /\ t \in Seq(L) /\ Len(t) \in {0, 1} /\ \A at \in 1..Len(t) : t[at] = Field("Time", song.time)
      /\ Len(t) = 0 <=> song.time = Unknown
  <2>1. t = IF song.time = Unknown THEN <<>> ELSE <<Field("Time", song.time)>> BY DEF TimeLines
  <2> DEFINE last == Field("Time", song.time)
  <2> HIDE DEF last, L
  <2>2. CASE song.time = Unknown
    <3>1. t = <<>> BY <2>1, <2>2
    <3>2. QED BY <2>2, <3>1
  <2>3. CASE song.time # Unknown
    <3>1. t = <<last>> BY <2>1, <2>3 DEF last
    <3>2. QED BY <1>2, <2>3, <3>1 DEF last
  <2>4. QED BY <2>2, <2>3
<1> HIDE DEF tags, L, first, s, t, song
<1>6. s \in Seq(L) /\ Len(s) = Len(tags) /\ \A m \in 1..Len(tags) : s[m] = Field(tags[m][1], tags[m][2])
  BY <1>1, <1>2, <1>3
<1>7. f \in Seq(L) /\ Len(f) = 1 /\ f[1] = first BY <1>2
<1> HIDE DEF f
<1>8. /\ f \o s \in Seq(L) /\ Len(f \o s) = 1 + Len(tags)
      /\ \A at \in 1..(1 + Len(tags)) : (f \o s)[at] = IF at <= 1 THEN f[at] ELSE s[at - 1]
  <2>1. f \in Seq(L) /\ s \in Seq(L) BY <1>6, <1>7
  <2>2. /\ f \o s \in Seq(L) /\ Len(f \o s) = Len(f) + Len(s)
        /\ \A at \in 1..(Len(f) + Len(s)) : (f \o s)[at] = IF at <= Len(f) THEN f[at] ELSE s[at - Len(f)]
    BY <2>1, ConcatProperties
  <2>3. QED BY <1>6, <1>7, <2>2
<1> DEFINE u == f \o s
           k == 1 + Len(tags)
           lines == u \o t
<1>9. /\ lines \in Seq(L) /\ Len(lines) = k + Len(t)
      /\ \A at \in 1..(k + Len(t)) : lines[at] = IF at <= k THEN u[at] ELSE t[at - k]
  <2> HIDE DEF u
  <2>0. u \in Seq(L) /\ Len(u) = k BY <1>8 DEF u
  <2> HIDE DEF k
  <2>1. u \in Seq(L) /\ t \in Seq(L) BY <1>5, <2>0
  <2>2. /\ lines \in Seq(L) /\ Len(lines) = Len(u) + Len(t)
        /\ \A at \in 1..(Len(u) + Len(t)) : lines[at] = IF at <= Len(u) THEN u[at] ELSE t[at - Len(u)]
    BY <2>1, ConcatProperties
  <2>3. QED BY <2>0, <2>2
<1> HIDE DEF lines
<1>10. lines[1] = first
  <2>1. 1 \in 1..(k + Len(t)) /\ 1 <= k /\ 1 \in 1..(1 + Len(tags)) BY <1>1, <1>5
  <2>2. lines[1] = u[1] BY <1>9, <2>1
  <2>3. u[1] = f[1] BY <1>8, <2>1
  <2>4. QED BY <1>7, <2>2, <2>3
<1>11. ASSUME NEW m \in 1..Len(tags) PROVE lines[m + 1] = Field(tags[m][1], tags[m][2])
  <2>1. m + 1 \in 1..(k + Len(t)) /\ m + 1 <= k /\ m + 1 \in 1..(1 + Len(tags)) /\ ~(m + 1 <= 1) /\ (m + 1) - 1 = m
    BY <1>1, <1>5
  <2>2. lines[m + 1] = u[m + 1] BY <1>9, <2>1
  <2>3. u[m + 1] = s[m] BY <1>8, <2>1
  <2>4. QED BY <1>6, <2>2, <2>3
<1>12. ASSUME NEW at \in 1..Len(lines), at > Len(tags) + 1 PROVE lines[at] = Field("Time", song.time)
  <2>1. at \in 1..(k + Len(t)) /\ ~(at <= k) /\ at - k \in 1..Len(t) BY <1>1, <1>5, <1>9, <1>12
  <2>2. QED BY <1>5, <1>9, <2>1
<1>13. Len(lines) \in {Len(tags) + 1, Len(tags) + 2} /\ (Len(lines) = Len(tags) + 1 <=> song.time = Unknown)
  <2>1. Len(lines) = 1 + Len(tags) + Len(t) BY <1>9
  <2>2. CASE Len(t) = 0
    <3>1. Len(lines) = Len(tags) + 1 BY <1>1, <2>1, <2>2
    <3>2. QED BY <1>5, <2>2, <3>1
  <2>3. CASE Len(t) = 1
    <3>1. Len(lines) = Len(tags) + 2 /\ Len(lines) # Len(tags) + 1 BY <1>1, <2>1, <2>3
    <3>2. QED BY <1>5, <2>3, <3>1
  <2>4. QED BY <1>5, <2>2, <2>3
<1>14. SongLines(song) = lines BY <1>4 DEF lines
<1>15. QED BY <1>1, <1>9, <1>10, <1>11, <1>12, <1>13, <1>14 DEF tags, first, L, song

\* A song has its own tags, of a repeated one the first value.
LEMMA SongRead ==
    ASSUME db \in Databases, NEW n \in DOMAIN db.songs, NEW tag, tag # "file", tag # "Time"
    PROVE  Text(SongLines(db.songs[n]), tag) = FirstOf(db.songs[n], tag)
<1> DEFINE song == db.songs[n]
           tags == song.tags
           own == {m \in DOMAIN tags : tags[m][1] = tag}
           lines == SongLines(song)
           L == LinesOf(song)
<1>1. /\ DOMAIN tags = 1..Len(tags) /\ Len(tags) \in Nat
      /\ lines \in Seq(L) /\ Len(lines) \in {Len(tags) + 1, Len(tags) + 2}
      /\ lines[1] = Field("file", song.file)
      /\ \A m \in 1..Len(tags) : lines[m + 1] = Field(tags[m][1], tags[m][2])
      /\ \A at \in 1..Len(lines) : at > Len(tags) + 1 => lines[at] = Field("Time", song.time)
  BY SongLinesAre
<1>2. FirstOf(song, tag) = IF own = {} THEN <<>> ELSE TrimStart(tags[Min(own)][2])
  BY FieldsAreTags DEF FirstOf
<1> HIDE DEF tags, lines, L, song
<1>20. lines \in Seq(L) BY <1>1
<1>3. /\ lines[1].key # tag
      /\ \A m \in 1..Len(tags) : m + 1 \in 1..Len(lines) /\ lines[m + 1].key = tags[m][1] /\ lines[m + 1].value = tags[m][2]
      /\ \A at \in 1..Len(lines) : at > Len(tags) + 1 => lines[at].key # tag
  <2>1. Field("file", song.file).key # tag /\ Field("Time", song.time).key # tag BY DEF Field
  <2>2. \A k, v : Field(k, v).key = k /\ Field(k, v).value = v BY DEF Field
  <2>3. \A m \in 1..Len(tags) : m + 1 \in 1..Len(lines) BY <1>1
  <2>4. QED BY <1>1, <2>1, <2>2, <2>3
<1>4. ASSUME NEW at \in 1..Len(lines), lines[at].key = tag
      PROVE  at - 1 \in 1..Len(tags) /\ tags[at - 1][1] = tag
  <2>1. at # 1 /\ ~(at > Len(tags) + 1) BY <1>3, <1>4
  <2>2. at - 1 \in 1..Len(tags) /\ (at - 1) + 1 = at BY <1>1, <2>1
  <2>3. QED BY <1>3, <1>4, <2>2
<1>5. CASE own = {}
  <2>1. \A at \in 1..Len(lines) : lines[at].key # tag BY <1>1, <1>4, <1>5
  <2>2. GetAll(lines, tag) = <<>> BY <1>20, <2>1, GetAllNothing
  <2>3. QED BY <1>2, <1>5, <2>2 DEF Text, lines, song
<1>6. CASE own # {}
  <2> DEFINE m == Min(own)
  <2>1. m \in own /\ \A k \in own : m <= k
    <3>1. own \subseteq Nat BY <1>1
    <3> HIDE DEF own
    <3>2. QED BY <1>6, <3>1, LeastOf
  <2> HIDE DEF m
  <2>2. m \in 1..Len(tags) /\ tags[m][1] = tag BY <1>1, <2>1
  <2>3. lines[m + 1].key = tag /\ lines[m + 1].value = tags[m][2] /\ m + 1 \in 1..Len(lines) BY <1>3, <2>2
  <2>4. ASSUME NEW at \in 1..((m + 1) - 1) PROVE lines[at].key # tag
    <3>1. at \in 1..Len(lines) BY <1>1, <2>2
    <3> SUFFICES ASSUME lines[at].key = tag PROVE FALSE
      OBVIOUS
    <3>2. at - 1 \in own BY <1>1, <1>4, <3>1
    <3>3. m <= at - 1 BY <2>1, <3>2
    <3>4. QED BY <2>2, <3>3
  <2>5. GetAll(lines, tag) # <<>> /\ GetAll(lines, tag)[1] = tags[m][2]
    BY <1>20, <2>2, <2>3, <2>4, GetAllFirst
  <2>6. Text(lines, tag) = TrimStart(tags[m][2]) BY <2>5 DEF Text
  <2>7. QED BY <1>2, <1>6, <2>6 DEF m, lines, song
<1>7. QED BY <1>5, <1>6

\* The library is dumped with a filter that holds of every song.
LEMMA LibraryFilter == FilterOf(LibraryCommand) = << [tag |-> "File", op |-> "contains", value |-> <<>>] >>
<1> DEFINE tag == "File"
           op == "contains"
           A == {Backslash, DoubleQuote, Space, Apostrophe, "(", ")", tag, op}
           f == FilterClause(tag, op, <<>>)
<1>1. Alphabet(A) /\ {Backslash, DoubleQuote, Space} \subseteq A /\ tag \in A /\ op \in A /\ tag # "("
  BY DEF Alphabet
<1>2. <<>> \in Seq(A) OBVIOUS
<1> HIDE DEF A, tag, op
<1>3. f \in Seq(A) BY <1>1, <1>2, ClauseType
<1>4. Clauses(f) = << [tag |-> tag, op |-> op, value |-> <<>>] >>
  <2> DEFINE v == <<>>
  <2>1. v \in Seq(A) BY <1>2
  <2> HIDE DEF v
  <2>2. Clauses(FilterClause(tag, op, v)) = << [tag |-> tag, op |-> op, value |-> v] >>
    BY <1>1, <2>1, OneClauseRead
  <2>3. QED BY <2>2 DEF v
<1>5. LibraryCommand = <<"search", Space>> \o QuoteArg(f) BY DEF LibraryCommand, tag, op
<1> HIDE DEF f
<1>6. Arguments(Tail(LibraryCommand)) = <<f>> BY <1>1, <1>3, <1>5, CommandRead
<1>7. FilterOf(LibraryCommand) = Clauses(f) BY <1>6 DEF FilterOf
<1>8. QED BY <1>4, <1>7 DEF tag, op

LEMMA AllSelected == Selected(db, FilterOf(LibraryCommand)) = DOMAIN db.songs
<1> DEFINE c == [tag |-> "File", op |-> "contains", value |-> <<>>]
<1>1. FilterOf(LibraryCommand) = <<c>> BY LibraryFilter
<1>2. DOMAIN <<c>> = {1} /\ <<c>>[1] = c /\ c.op # "==" OBVIOUS
<1> HIDE DEF c
<1>3. QED BY <1>1, <1>2 DEF Selected, c

LEMMA SongIsGroup ==
    ASSUME db \in Databases, NEW n \in DOMAIN db.songs, NEW F, LinesOf(db.songs[n]) \subseteq F
    PROVE  /\ SongLines(db.songs[n]) \in Group(F, {"file"})
           /\ SongLines(db.songs[n]) \in Group(F, {"directory", "file"})
           /\ SongLines(db.songs[n])[1].key = "file"
<1> DEFINE song == db.songs[n]
           tags == song.tags
           lines == SongLines(song)
           L == LinesOf(song)
<1>1. /\ DOMAIN tags = 1..Len(tags) /\ Len(tags) \in Nat
      /\ lines \in Seq(L) /\ Len(lines) \in {Len(tags) + 1, Len(tags) + 2}
      /\ lines[1] = Field("file", song.file)
      /\ \A m \in 1..Len(tags) : lines[m + 1] = Field(tags[m][1], tags[m][2])
      /\ \A k \in 1..Len(lines) : k > Len(tags) + 1 => lines[k] = Field("Time", song.time)
  BY SongLinesAre
<1>2. \A m \in DOMAIN tags : tags[m][1] # "file" /\ tags[m][1] # "directory" BY DatabasesAssumption
<1>3. L \subseteq F OBVIOUS
<1> HIDE DEF song, tags, lines, L
<1>4. lines \in Seq(F) BY <1>1, <1>3
<1>5. lines # <<>> BY <1>1
<1>6. lines[1].key = "file" BY <1>1 DEF Field
<1>7. ASSUME NEW k \in 2..Len(lines) PROVE lines[k].key # "file" /\ lines[k].key # "directory"
  <2>1. CASE k > Len(tags) + 1
    <3>1. lines[k] = Field("Time", song.time) BY <1>1, <2>1
    <3>2. QED BY <3>1 DEF Field
  <2>2. CASE ~(k > Len(tags) + 1)
    <3>1. k - 1 \in 1..Len(tags) /\ (k - 1) + 1 = k BY <1>1, <2>2
    <3>2. lines[k] = Field(tags[k - 1][1], tags[k - 1][2]) BY <1>1, <3>1
    <3>3. tags[k - 1][1] # "file" /\ tags[k - 1][1] # "directory" BY <1>1, <1>2, <3>1
    <3>4. QED BY <3>2, <3>3 DEF Field
  <2>3. QED BY <2>1, <2>2
<1>8. QED BY <1>4, <1>5, <1>6, <1>7 DEF Group, lines, song

\* What comes out of the dump.
LEMMA DumpIs ==
    ASSUME db \in Databases
    PROVE  ParseSongList(SearchReply(db, LibraryCommand))
             = [n \in DOMAIN db.songs |-> ParseSong(SongLines(db.songs[n]))]
<1> DEFINE F == UNION {LinesOf(db.songs[n]) : n \in DOMAIN db.songs}
           groups == [n \in DOMAIN db.songs |-> SongLines(db.songs[n])]
           all == FlattenSeq(groups)
           file == {"file"}
<1>1. DOMAIN db.songs = 1..Len(db.songs) /\ Len(db.songs) \in Nat
  BY DatabasesAssumption DEF IsSequence
<1>2. ASSUME NEW n \in DOMAIN db.songs PROVE SongLines(db.songs[n]) \in Group(F, file)
  <2>1. LinesOf(db.songs[n]) \subseteq F OBVIOUS
  <2> HIDE DEF F
  <2>2. QED BY <2>1, SongIsGroup
<1>3. \A x \in F : x.line = "field" BY DEF LinesOf, Field
<1> DEFINE G == Group(F, file)
<1> HIDE DEF F
<1>4. groups \in Seq(G)
  <2> HIDE DEF G
  <2>1. \A n \in DOMAIN db.songs : SongLines(db.songs[n]) \in G BY <1>2 DEF G
  <2>2. QED BY <1>1, <2>1
<1>5. DOMAIN groups = DOMAIN db.songs /\ \A n \in DOMAIN db.songs : groups[n] = SongLines(db.songs[n])
  OBVIOUS
<1>6. SearchReply(db, LibraryCommand) = all \o OK
  <2> DEFINE found == Selected(db, FilterOf(LibraryCommand))
             part(n) == IF n \in found THEN SongLines(db.songs[n]) ELSE <<>>
  <2>1. \A n \in DOMAIN db.songs : part(n) = SongLines(db.songs[n]) BY AllSelected
  <2>2. SearchReply(db, LibraryCommand) = FlattenSeq([n \in DOMAIN db.songs |-> part(n)]) \o OK
    BY DEF SearchReply
  <2> HIDE DEF part
  <2>3. [n \in DOMAIN db.songs |-> part(n)] = groups BY <2>1
  <2>4. QED BY <2>2, <2>3
<1> HIDE DEF groups
<1>7. all \in Seq(F) /\ GroupItems(all, file) = groups BY <1>4, GroupsAreFound
<1> HIDE DEF all
<1>8. ParseText(all \o OK) = [fields |-> all, ack |-> FALSE] BY <1>3, <1>7, ResponseRead
<1>9. ParseSongList(all \o OK) = [n \in DOMAIN groups |-> ParseSong(groups[n])]
  BY <1>7, <1>8 DEF ParseSongList
<1>10. QED BY <1>5, <1>6, <1>9

\* The index has them as the database does.
LEMMA IndexedRight ==
    ASSUME db \in Databases
    PROVE  /\ Len(Indexed(db)) = Len(db.songs)
           /\ DOMAIN Indexed(db) = DOMAIN db.songs
           /\ \A n \in DOMAIN db.songs, f \in Fields :
                 Indexed(db)[n][f] = FirstOf(db.songs[n], CanonicalTag(f))
<1> DEFINE dump == ParseSongList(SearchReply(db, LibraryCommand))
<1>1. DOMAIN db.songs = 1..Len(db.songs) /\ Len(db.songs) \in Nat
  BY DatabasesAssumption DEF IsSequence
<1>2. DOMAIN dump = DOMAIN db.songs /\ \A n \in DOMAIN db.songs : dump[n] = ParseSong(SongLines(db.songs[n]))
  BY DumpIs
<1>3. Indexed(db) = [n \in DOMAIN dump |-> [f \in Fields |-> dump[n][f]]] BY DEF Indexed
<1> HIDE DEF dump
<1>4. DOMAIN Indexed(db) = DOMAIN db.songs /\ \A n \in DOMAIN db.songs, f \in Fields : Indexed(db)[n][f] = dump[n][f]
  BY <1>2, <1>3
<1>5. Len(Indexed(db)) = Len(db.songs) BY <1>1, <1>2, <1>3
<1>6. ASSUME NEW n \in DOMAIN db.songs, NEW f \in Fields
      PROVE  /\ Indexed(db)[n][f] = Text(SongLines(db.songs[n]), CanonicalTag(f))
             /\ CanonicalTag(f) # "file" /\ CanonicalTag(f) # "Time"
  <2>1. Indexed(db)[n][f] = ParseSong(SongLines(db.songs[n]))[f] BY <1>2, <1>4
  <2>2. f \in {"artist", "albumartist", "album"} BY FieldsAreTags
  <2>3. CASE f = "artist" BY <2>1, <2>3 DEF ParseSong, CanonicalTag
  <2>4. CASE f = "albumartist" BY <2>1, <2>4 DEF ParseSong, CanonicalTag
  <2>5. CASE f = "album" BY <2>1, <2>5 DEF ParseSong, CanonicalTag
  <2>6. QED BY <2>2, <2>3, <2>4, <2>5
<1>7. ASSUME NEW n \in DOMAIN db.songs, NEW f \in Fields
      PROVE  Indexed(db)[n][f] = FirstOf(db.songs[n], CanonicalTag(f))
  <2> DEFINE tag == CanonicalTag(f)
  <2>1. Indexed(db)[n][f] = Text(SongLines(db.songs[n]), tag) /\ tag # "file" /\ tag # "Time" BY <1>6
  <2> HIDE DEF tag
  <2>2. Text(SongLines(db.songs[n]), tag) = FirstOf(db.songs[n], tag) BY <2>1, SongRead
  <2>3. QED BY <2>1, <2>2 DEF tag
<1>8. QED BY <1>4, <1>5, <1>7

\* The songs are what the dump said.
DumpInv == db \in Databases /\ songs = Indexed(db)

LEMMA DumpInvFaithful == DumpInv => DumpFaithful
<1> SUFFICES ASSUME DumpInv PROVE DumpFaithful
  OBVIOUS
<1>1. db \in Databases /\ songs = Indexed(db) BY DEF DumpInv
<1>2. /\ Len(songs) = Len(db.songs) /\ DOMAIN songs = DOMAIN db.songs
      /\ \A n \in DOMAIN songs, f \in Fields : songs[n][f] = FirstOf(db.songs[n], CanonicalTag(f))
  BY <1>1, IndexedRight
<1>3. QED BY <1>2 DEF DumpFaithful

LEMMA DumpStep == DumpInv /\ [LibraryNext]_libraryVars => DumpInv'
<1> SUFFICES ASSUME DumpInv, [LibraryNext]_libraryVars PROVE DumpInv'
  OBVIOUS
<1>1. db' = db
  BY DEF LibraryNext, Search, Answered, AddByPath, Browse, AddByTag, ListTag, Asks, libraryVars
<1>2. songs' = songs
  <2>1. ASSUME [Next]_vars PROVE songs' = songs
    BY <2>1 DEF Next, IndexSong, Built, Ask, TakeList, ListsDone, Compare, Merged, AnswerPool,
                StartRanking, RankBest, Ranked, vars, index
  <2>2. QED BY <2>1, StepImplements
<1>3. QED BY <1>1, <1>2 DEF DumpInv, Indexed

\* Every song comes out of the dump with its own tags: for every database, whatever
\* lines, missing or repeated ones, the neighbours have.
THEOREM DumpIsFaithful == LibrarySpec => []DumpFaithful
<1>1. LibraryInit => DumpInv BY DEF LibraryInit, DumpInv
<1>2. QED BY <1>1, DumpStep, DumpInvFaithful, PTL DEF LibrarySpec

-----------------------------------------------------------------------------
(* Browsing. *)

\* The sums of the first numbers.
Sums(ns, f) == f = [n \in 0..Len(ns) |-> IF n = 0 THEN 0 ELSE f[n - 1] + ns[n]]

LEMMA SumIs ==
    ASSUME NEW t \in Seq(Nat), NEW f, Sums(t, f)
    PROVE  SumOf(t) = f[Len(t)] /\ f[Len(t)] \in Nat
<1>0. Len(t) \in Nat OBVIOUS
<1>1. SumOf(t) = (CHOOSE g : Sums(t, g))[Len(t)]
  BY DEF SumOf, Sums
<1>2. PICK g : Sums(t, g) /\ SumOf(t) = g[Len(t)]
  <2>1. Sums(t, CHOOSE g : Sums(t, g)) OBVIOUS
  <2>2. QED BY <1>1, <2>1
<1> DEFINE S == {n \in Nat : n <= Len(t) => g[n] = f[n] /\ f[n] \in Nat}
<1>3. 0 \in 0..Len(t) /\ \A n \in Nat : n + 1 <= Len(t) =>
           n + 1 \in 0..Len(t) /\ n + 1 # 0 /\ n + 1 - 1 = n /\ n <= Len(t) /\ t[n + 1] \in Nat
  BY <1>0
<1>4. 0 \in S
  BY <1>2, <1>3 DEF Sums
<1>5. ASSUME NEW n \in Nat, n \in S PROVE n + 1 \in S
  <2> SUFFICES ASSUME n + 1 <= Len(t) PROVE g[n + 1] = f[n + 1] /\ f[n + 1] \in Nat
    OBVIOUS
  <2>1. g[n] = f[n] /\ f[n] \in Nat BY <1>3, <1>5
  <2>2. /\ g[n + 1] = g[n + 1 - 1] + t[n + 1]
        /\ f[n + 1] = f[n + 1 - 1] + t[n + 1]
    BY <1>2, <1>3 DEF Sums
  <2>3. n + 1 - 1 = n OBVIOUS
  <2>4. t[n + 1] \in Nat BY <1>3
  <2>5. QED BY <2>1, <2>2, <2>3, <2>4
<1> HIDE DEF S
<1>6. \A n \in Nat : n \in S BY <1>4, <1>5, NaturalsFrom
<1>7. QED BY <1>0, <1>2, <1>6 DEF S

LEMMA SumsExist ==
    ASSUME NEW t \in Seq(Nat)
    PROVE  \E f : Sums(t, f)
<1> DEFINE R(k, f) == f = [n \in 0..k |-> IF n = 0 THEN 0 ELSE f[n - 1] + t[n]]
           S == {k \in Nat : \E f : R(k, f)}
<1>1. 0 \in S
  <2>1. R(0, [n \in 0..0 |-> 0]) OBVIOUS
  <2> HIDE DEF R
  <2>2. QED BY <2>1
<1>2. ASSUME NEW k \in Nat, k \in S PROVE k + 1 \in S
  <2>1. PICK f : R(k, f)
    <3> HIDE DEF R
    <3>1. QED BY <1>2
  <2> DEFINE g == [n \in 0..(k + 1) |-> IF n = k + 1 THEN f[k] + t[k + 1] ELSE f[n]]
             h(n) == IF n = 0 THEN 0 ELSE g[n - 1] + t[n]
  <2>2. ASSUME NEW n \in 0..(k + 1) PROVE g[n] = h(n)
    <3>1. CASE n = k + 1
      <4>1. n # 0 /\ n - 1 = k /\ k \in 0..(k + 1) /\ k # k + 1 BY <3>1
      <4>2. QED BY <3>1, <4>1
    <3>2. CASE n # k + 1
      <4>1. n \in 0..k BY <3>2
      <4>2. f[n] = IF n = 0 THEN 0 ELSE f[n - 1] + t[n] BY <2>1, <4>1
      <4>3. n # 0 => n - 1 \in 0..(k + 1) /\ n - 1 # k + 1 BY <4>1
      <4>4. QED BY <3>2, <4>2, <4>3
    <3>3. QED BY <3>1, <3>2
  <2>3. R(k + 1, g)
    <3>1. g = [n \in 0..(k + 1) |-> g[n]] OBVIOUS
    <3> HIDE DEF g
    <3>2. QED BY <2>2, <3>1
  <2> HIDE DEF R, g
  <2>4. QED BY <2>3
<1> HIDE DEF S
<1>3. \A k \in Nat : k \in S BY <1>1, <1>2, NaturalsFrom
<1>4. Len(t) \in S BY <1>3
<1>5. QED BY <1>4 DEF S, Sums

LEMMA SumEffect ==
    ASSUME NEW t \in Seq(Nat), NEW c \in Nat
    PROVE  SumOf(t) \in Nat /\ SumOf(<<>>) = 0 /\ SumOf(Append(t, c)) = SumOf(t) + c
<1> DEFINE u == Append(t, c)
<1>1. /\ u \in Seq(Nat) /\ Len(u) = Len(t) + 1 /\ Len(t) \in Nat
      /\ u[Len(t) + 1] = c /\ \A n \in 1..Len(t) : u[n] = t[n]
  OBVIOUS
<1> HIDE DEF u
<1>2. PICK f : Sums(u, f) BY <1>1, SumsExist
<1> DEFINE g == [n \in 0..Len(t) |-> f[n]]
<1>3. ASSUME NEW n \in 0..Len(t)
      PROVE g[n] = IF n = 0 THEN 0 ELSE g[n - 1] + t[n]
  <2>1. n \in 0..Len(u) /\ (n # 0 => n - 1 \in 0..Len(t) /\ n \in 1..Len(t)) BY <1>1
  <2>2. f[n] = IF n = 0 THEN 0 ELSE f[n - 1] + u[n] BY <1>2, <2>1 DEF Sums
  <2>3. QED BY <1>1, <2>1, <2>2
<1>4. Sums(t, g)
  <2>1. g = [n \in 0..Len(t) |-> g[n]] OBVIOUS
  <2> HIDE DEF g
  <2>2. QED BY <1>3, <2>1 DEF Sums
<1>5. g[Len(t)] = f[Len(t)] BY <1>1
<1> HIDE DEF g
<1>6. SumOf(t) = f[Len(t)] /\ SumOf(t) \in Nat BY <1>4, <1>5, SumIs
<1>7. SumOf(u) = f[Len(u)] BY <1>1, <1>2, SumIs
<1>8. f[Len(u)] = f[Len(t)] + c
  <2>1. Len(u) \in 0..Len(u) /\ Len(u) # 0 /\ Len(u) - 1 = Len(t) BY <1>1
  <2>2. f[Len(u)] = f[Len(u) - 1] + u[Len(u)] BY <1>2, <2>1 DEF Sums
  <2>3. QED BY <1>1, <2>1, <2>2
<1>9. SumOf(<<>>) = 0
  <2>1. <<>> \in Seq(Nat) /\ Len(<<>>) = 0 OBVIOUS
  <2>2. PICK x : Sums(<<>>, x) BY <2>1, SumsExist
  <2>3. x[0] = 0 BY <2>1, <2>2 DEF Sums
  <2>4. QED BY <2>1, <2>2, <2>3, SumIs
<1>10. QED BY <1>6, <1>7, <1>8, <1>9 DEF u

LEMMA SumConcat ==
    ASSUME NEW s \in Seq(Nat), NEW t \in Seq(Nat)
    PROVE  SumOf(s \o t) = SumOf(s) + SumOf(t)
<1> DEFINE S == {u \in Seq(Nat) : SumOf(s \o u) = SumOf(s) + SumOf(u)}
<1>0. SumOf(s) \in Nat /\ SumOf(<<>>) = 0
  <2>1. 0 \in Nat OBVIOUS
  <2>2. QED BY <2>1, SumEffect
<1>1. <<>> \in S
  <2>1. <<>> \in Seq(Nat) /\ s \o <<>> = s OBVIOUS
  <2>2. QED BY <1>0, <2>1
<1>2. ASSUME NEW u \in Seq(Nat), NEW c \in Nat, u \in S PROVE Append(u, c) \in S
  <2>1. s \o Append(u, c) = Append(s \o u, c) BY ConcatAppend
  <2>2. s \o u \in Seq(Nat) OBVIOUS
  <2>3. SumOf(Append(s \o u, c)) = SumOf(s \o u) + c BY <2>2, SumEffect
  <2>4. SumOf(Append(u, c)) = SumOf(u) + c /\ SumOf(u) \in Nat BY SumEffect
  <2>5. SumOf(s \o u) = SumOf(s) + SumOf(u) BY <1>2
  <2>6. Append(u, c) \in Seq(Nat) OBVIOUS
  <2>7. SumOf(s \o Append(u, c)) = (SumOf(s) + SumOf(u)) + c BY <2>1, <2>3, <2>5
  <2>8. \A x, y \in Nat : (x + y) + c = x + (y + c) OBVIOUS
  <2>9. SumOf(s \o Append(u, c)) = SumOf(s) + SumOf(Append(u, c)) BY <1>0, <2>4, <2>7, <2>8
  <2>10. QED BY <2>6, <2>9
<1> HIDE DEF S
<1>3. \A u \in Seq(Nat) : u \in S BY <1>1, <1>2, SequencesFrom
<1>4. QED BY <1>3 DEF S

LEMMA SumOfOnes ==
    ASSUME NEW k \in Nat
    PROVE  SumOf([n \in 1..k |-> 1]) = k
<1> DEFINE ones(m) == [n \in 1..m |-> 1]
           S == {m \in Nat : SumOf(ones(m)) = m}
<1>1. 0 \in S
  <2>1. ones(0) = <<>> OBVIOUS
  <2>2. SumOf(<<>>) = 0
    <3>1. <<>> \in Seq(Nat) /\ 0 \in Nat OBVIOUS
    <3>2. QED BY <3>1, SumEffect
  <2>3. QED BY <2>1, <2>2
<1>2. ASSUME NEW m \in Nat, m \in S PROVE m + 1 \in S
  <2>1. ones(m) \in Seq(Nat) /\ Len(ones(m)) = m OBVIOUS
  <2>2. ones(m + 1) = Append(ones(m), 1)
    <3> DEFINE a == ones(m + 1)
               b == Append(ones(m), 1)
    <3>1. a \in Seq(Nat) /\ b \in Seq(Nat) /\ Len(a) = m + 1 /\ Len(b) = m + 1 OBVIOUS
    <3>2. \A n \in 1..(m + 1) : a[n] = b[n] OBVIOUS
    <3> HIDE DEF a, b
    <3>3. a = b BY <3>1, <3>2, SeqEqual
    <3>4. QED BY <3>3 DEF a, b
  <2>3. SumOf(Append(ones(m), 1)) = SumOf(ones(m)) + 1
    <3> HIDE DEF ones
    <3>1. 1 \in Nat OBVIOUS
    <3>2. QED BY <2>1, <3>1, SumEffect
  <2>4. SumOf(ones(m)) = m BY <1>2
  <2> HIDE DEF ones
  <2>5. SumOf(ones(m + 1)) = m + 1 BY <2>2, <2>3, <2>4
  <2>6. m + 1 \in Nat OBVIOUS
  <2>7. QED BY <2>5, <2>6
<1> HIDE DEF S
<1>3. \A m \in Nat : m \in S BY <1>1, <1>2, NaturalsFrom
<1>4. QED BY <1>3 DEF S

\* The total of two lists: their sums, or unknown if a number is.
LEMMA TotalOfTwo ==
    ASSUME NEW s \in Seq(Nat \cup {Unknown}), NEW t \in Seq(Nat \cup {Unknown})
    PROVE  Total(s \o t) = IF (\A n \in 1..Len(s) : s[n] # Unknown) /\ (\A n \in 1..Len(t) : t[n] # Unknown)
                           THEN SumOf(s) + SumOf(t) ELSE Unknown
<1> DEFINE N == Nat \cup {Unknown}
           u == s \o t
<1>1. /\ u \in Seq(N) /\ Len(u) = Len(s) + Len(t) /\ Len(s) \in Nat /\ Len(t) \in Nat
      /\ \A n \in 1..(Len(s) + Len(t)) : u[n] = IF n <= Len(s) THEN s[n] ELSE t[n - Len(s)]
  <2> HIDE DEF N
  <2>1. s \in Seq(N) /\ t \in Seq(N) BY DEF N
  <2>2. QED BY <2>1, ConcatProperties
<1>2. Contains(u, Unknown) <=> \E n \in 1..Len(u) : u[n] = Unknown
  BY DEF Contains
<1> HIDE DEF u
<1>3. ASSUME NEW n \in 1..Len(s), s[n] = Unknown PROVE Contains(u, Unknown)
  <2>1. n \in 1..Len(u) /\ n <= Len(s) BY <1>1
  <2>2. u[n] = Unknown BY <1>1, <1>3, <2>1
  <2>3. QED BY <1>2, <2>1, <2>2
<1>4. ASSUME NEW n \in 1..Len(t), t[n] = Unknown PROVE Contains(u, Unknown)
  <2>1. Len(s) + n \in 1..Len(u) /\ ~(Len(s) + n <= Len(s)) /\ (Len(s) + n) - Len(s) = n BY <1>1
  <2>2. u[Len(s) + n] = Unknown BY <1>1, <1>4, <2>1
  <2>3. QED BY <1>2, <2>1, <2>2
<1>5. ASSUME Contains(u, Unknown)
      PROVE  (\E n \in 1..Len(s) : s[n] = Unknown) \/ (\E n \in 1..Len(t) : t[n] = Unknown)
  <2>1. PICK n \in 1..Len(u) : u[n] = Unknown BY <1>2, <1>5
  <2>2. CASE n <= Len(s)
    <3>1. n \in 1..Len(s) BY <1>1, <2>2
    <3>2. QED BY <1>1, <2>1, <2>2, <3>1
  <2>3. CASE ~(n <= Len(s))
    <3>1. n - Len(s) \in 1..Len(t) BY <1>1, <2>3
    <3>2. QED BY <1>1, <2>1, <2>3, <3>1
  <2>4. QED BY <2>2, <2>3
<1>6. CASE (\A n \in 1..Len(s) : s[n] # Unknown) /\ (\A n \in 1..Len(t) : t[n] # Unknown)
  <2>1. s \in Seq(Nat) /\ t \in Seq(Nat)
    <3>1. ASSUME NEW v \in Seq(N), \A n \in 1..Len(v) : v[n] # Unknown PROVE v \in Seq(Nat)
      <4>1. v = [n \in 1..Len(v) |-> v[n]] /\ Len(v) \in Nat OBVIOUS
      <4>2. \A n \in 1..Len(v) : v[n] \in Nat BY <3>1
      <4>3. [n \in 1..Len(v) |-> v[n]] \in Seq(Nat) BY <4>1, <4>2
      <4>4. QED BY <4>1, <4>3
    <3>2. s \in Seq(N) /\ t \in Seq(N) OBVIOUS
    <3>3. QED BY <1>6, <3>1, <3>2
  <2>2. SumOf(u) = SumOf(s) + SumOf(t) BY <2>1, SumConcat DEF u
  <2>3. ~Contains(u, Unknown) BY <1>5, <1>6
  <2>4. QED BY <1>6, <2>2, <2>3 DEF Total, u
<1>7. CASE ~((\A n \in 1..Len(s) : s[n] # Unknown) /\ (\A n \in 1..Len(t) : t[n] # Unknown))
  <2>1. Contains(u, Unknown) BY <1>3, <1>4, <1>7
  <2>2. QED BY <1>7, <2>1 DEF Total, u
<1>8. QED BY <1>6, <1>7

\* Response::get, of a text and of a number.
LEMMA TextFirst ==
    ASSUME NEW F, NEW fs \in Seq(F), NEW key, NEW m \in 1..Len(fs),
           fs[m].key = key, \A n \in 1..(m - 1) : fs[n].key # key
    PROVE  Text(fs, key) = TrimStart(fs[m].value)
<1>1. GetAll(fs, key) # <<>> /\ GetAll(fs, key)[1] = fs[m].value BY GetAllFirst
<1>2. QED BY <1>1 DEF Text

LEMMA NumberFirst ==
    ASSUME NEW F, NEW fs \in Seq(F), NEW key, NEW m \in 1..Len(fs),
           fs[m].key = key, \A n \in 1..(m - 1) : fs[n].key # key
    PROVE  Number(fs, key) = fs[m].value
<1>1. GetAll(fs, key) # <<>> /\ GetAll(fs, key)[1] = fs[m].value BY GetAllFirst
<1>2. QED BY <1>1 DEF Number

LEMMA NumberNothing ==
    ASSUME NEW F, NEW fs \in Seq(F), NEW key, \A n \in 1..Len(fs) : fs[n].key # key
    PROVE  Number(fs, key) = Unknown
<1>1. GetAll(fs, key) = <<>> BY GetAllNothing
<1>2. QED BY <1>1 DEF Number

\* A directory's lines: its path, and the numbers that are known.
Numbers(dir) == (IF dir.songs = Unknown THEN <<>> ELSE <<Field("songcount", dir.songs)>>)
                \o (IF dir.time = Unknown THEN <<>> ELSE <<Field("playtime", dir.time)>>)
DirLines(dir) == <<Field("directory", dir.path)>> \o Numbers(dir)
LinesOfDir(dir) ==
    {Field("directory", dir.path), Field("songcount", dir.songs), Field("playtime", dir.time)}

LEMMA ShortLists ==
    ASSUME NEW A, NEW a \in A, NEW b \in A, NEW c \in A
    PROVE  /\ <<a>> \o (<<>> \o <<>>) = <<a>>
           /\ <<a>> \o (<<b>> \o <<>>) = <<a, b>>
           /\ <<a>> \o (<<>> \o <<c>>) = <<a, c>>
           /\ <<a>> \o (<<b>> \o <<c>>) = <<a, b, c>>
<1>1. <<a>> \in Seq(A) /\ <<b>> \in Seq(A) /\ <<c>> \in Seq(A) OBVIOUS
<1>2. <<>> \o <<>> = <<>> /\ <<b>> \o <<>> = <<b>> /\ <<>> \o <<c>> = <<c>> /\ <<a>> \o <<>> = <<a>>
  OBVIOUS
<1>3. ASSUME NEW x \in A, NEW y \in A PROVE <<x>> \o <<y>> = <<x, y>>
  <2>1. <<x>> \in Seq(A) OBVIOUS
  <2> DEFINE s == <<x>>
  <2>2. s \in Seq(A) OBVIOUS
  <2> HIDE DEF s
  <2>3. s \o <<y>> = Append(s, y) BY <2>2, AppendIsConcat
  <2>4. Append(<<x>>, y) = <<x, y>> BY Pair
  <2>5. QED BY <2>3, <2>4 DEF s
<1>4. <<a>> \o (<<b>> \o <<c>>) = <<a, b, c>>
  <2>1. <<b>> \o <<c>> = Append(<<b>>, c)
    <3>1. <<b>> \o <<c>> = <<b, c>> BY <1>3
    <3>2. QED BY <3>1, Pair
  <2>2. <<a>> \o Append(<<b>>, c) = Append(<<a>> \o <<b>>, c) BY <1>1, ConcatAppend
  <2>3. <<a>> \o <<b>> = <<a, b>> BY <1>3
  <2>4. <<a, b, c>> = Append(<<a, b>>, c) OBVIOUS
  <2>5. QED BY <2>1, <2>2, <2>3, <2>4
<1>5. QED BY <1>2, <1>3, <1>4

\* What is read of lines like those of a directory.
ReadAs(F, lines, path, count, time) ==
    /\ lines \in Group(F, {"directory", "file"}) /\ lines[1].key = "directory"
    /\ Text(lines, "directory") = TrimStart(path)
    /\ Number(lines, "songcount") = count /\ Number(lines, "playtime") = time

LEMMA DirCases ==
    ASSUME NEW F, NEW a \in F, NEW b \in F, NEW c \in F,
           a.key = "directory", b.key = "songcount", c.key = "playtime"
    PROVE  /\ ReadAs(F, <<a>>, a.value, Unknown, Unknown)
           /\ ReadAs(F, <<a, b>>, a.value, b.value, Unknown)
           /\ ReadAs(F, <<a, c>>, a.value, Unknown, c.value)
           /\ ReadAs(F, <<a, b, c>>, a.value, b.value, c.value)
<1> DEFINE dir == "directory"
           songcount == "songcount"
           playtime == "playtime"
           file == "file"
<1>0. /\ a.key = dir /\ b.key = songcount /\ c.key = playtime
      /\ dir # songcount /\ dir # playtime /\ songcount # playtime
      /\ file # songcount /\ file # playtime
  OBVIOUS
<1>1. ASSUME NEW x \in Seq(F), Len(x) >= 1, x[1] = a, \A n \in 2..Len(x) : x[n] \in {b, c}
      PROVE  /\ x \in Group(F, {dir, file}) /\ x[1].key = dir /\ Text(x, dir) = TrimStart(a.value)
  <2> HIDE DEF dir, songcount, playtime, file
  <2>1. 1 \in 1..Len(x) /\ \A n \in 1..(1 - 1) : x[n].key # dir BY <1>1
  <2>2. Text(x, dir) = TrimStart(x[1].value) BY <1>0, <1>1, <2>1, TextFirst
  <2>3. \A n \in 2..Len(x) : x[n].key \notin {dir, file} BY <1>0, <1>1
  <2>4. x # <<>> BY <1>1
  <2>5. x \in Group(F, {dir, file}) BY <1>0, <1>1, <2>3, <2>4 DEF Group
  <2>6. QED BY <1>0, <1>1, <2>2, <2>5
<1>2. ASSUME NEW x \in Seq(F), NEW key, \A n \in 1..Len(x) : x[n].key # key
      PROVE  Number(x, key) = Unknown
  BY <1>2, NumberNothing
<1> HIDE DEF dir, songcount, playtime, file
<1> DEFINE R(x, p, q, r) == /\ x \in Group(F, {dir, file}) /\ x[1].key = dir /\ Text(x, dir) = TrimStart(p)
                            /\ Number(x, songcount) = q /\ Number(x, playtime) = r
<1>3. R(<<a>>, a.value, Unknown, Unknown)
  <2> DEFINE x == <<a>>
  <2>1. x \in Seq(F) /\ Len(x) = 1 /\ x[1] = a OBVIOUS
  <2> HIDE DEF x
  <2>0. \A n \in 2..1 : FALSE OBVIOUS
  <2>2. x \in Group(F, {dir, file}) /\ x[1].key = dir /\ Text(x, dir) = TrimStart(a.value)
    <3>1. Len(x) >= 1 /\ \A n \in 2..Len(x) : x[n] \in {b, c} BY <2>0, <2>1
    <3>2. QED BY <1>1, <2>1, <3>1
  <2>3. Number(x, songcount) = Unknown /\ Number(x, playtime) = Unknown BY <1>0, <1>2, <2>1
  <2>4. R(x, a.value, Unknown, Unknown) BY <2>2, <2>3
  <2>5. QED BY <2>4 DEF x
<1>4. R(<<a, b>>, a.value, b.value, Unknown)
  <2> DEFINE x == <<a, b>>
  <2>1. x \in Seq(F) /\ Len(x) = 2 /\ x[1] = a /\ x[2] = b OBVIOUS
  <2> HIDE DEF x
  <2>0. (\A n \in 2..2 : n = 2) /\ (\A n \in 1..2 : n = 1 \/ n = 2) OBVIOUS
  <2>2. x \in Group(F, {dir, file}) /\ x[1].key = dir /\ Text(x, dir) = TrimStart(a.value)
    <3>1. Len(x) >= 1 /\ \A n \in 2..Len(x) : x[n] \in {b, c} BY <2>0, <2>1
    <3>2. QED BY <1>1, <2>1, <3>1
  <2>3. Number(x, playtime) = Unknown BY <1>0, <1>2, <2>0, <2>1
  <2>4. Number(x, songcount) = b.value
    <3>1. 2 \in 1..Len(x) /\ \A n \in 1..(2 - 1) : x[n].key # songcount BY <1>0, <2>1
    <3>2. x[2].key = songcount BY <1>0, <2>1
    <3>3. Number(x, songcount) = x[2].value BY <2>1, <3>1, <3>2, NumberFirst
    <3>4. QED BY <2>1, <3>3
  <2>5. R(x, a.value, b.value, Unknown) BY <2>2, <2>3, <2>4
  <2>6. QED BY <2>5 DEF x
<1>5. R(<<a, c>>, a.value, Unknown, c.value)
  <2> DEFINE x == <<a, c>>
  <2>1. x \in Seq(F) /\ Len(x) = 2 /\ x[1] = a /\ x[2] = c OBVIOUS
  <2> HIDE DEF x
  <2>0. (\A n \in 2..2 : n = 2) /\ (\A n \in 1..2 : n = 1 \/ n = 2) OBVIOUS
  <2>2. x \in Group(F, {dir, file}) /\ x[1].key = dir /\ Text(x, dir) = TrimStart(a.value)
    <3>1. Len(x) >= 1 /\ \A n \in 2..Len(x) : x[n] \in {b, c} BY <2>0, <2>1
    <3>2. QED BY <1>1, <2>1, <3>1
  <2>3. Number(x, songcount) = Unknown BY <1>0, <1>2, <2>0, <2>1
  <2>4. Number(x, playtime) = c.value
    <3>1. 2 \in 1..Len(x) /\ \A n \in 1..(2 - 1) : x[n].key # playtime BY <1>0, <2>1
    <3>2. x[2].key = playtime BY <1>0, <2>1
    <3>3. Number(x, playtime) = x[2].value BY <2>1, <3>1, <3>2, NumberFirst
    <3>4. QED BY <2>1, <3>3
  <2>5. R(x, a.value, Unknown, c.value) BY <2>2, <2>3, <2>4
  <2>6. QED BY <2>5 DEF x
<1>6. R(<<a, b, c>>, a.value, b.value, c.value)
  <2> DEFINE x == <<a, b, c>>
  <2>1. x \in Seq(F) /\ Len(x) = 3 /\ x[1] = a /\ x[2] = b /\ x[3] = c OBVIOUS
  <2> HIDE DEF x
  <2>0. (\A n \in 2..3 : n = 2 \/ n = 3) /\ (\A n \in 1..2 : n = 1 \/ n = 2) OBVIOUS
  <2>2. x \in Group(F, {dir, file}) /\ x[1].key = dir /\ Text(x, dir) = TrimStart(a.value)
    <3>1. Len(x) >= 1 /\ \A n \in 2..Len(x) : x[n] \in {b, c} BY <2>0, <2>1
    <3>2. QED BY <1>1, <2>1, <3>1
  <2>3. Number(x, songcount) = b.value
    <3>1. 2 \in 1..Len(x) /\ \A n \in 1..(2 - 1) : x[n].key # songcount BY <1>0, <2>1
    <3>2. x[2].key = songcount BY <1>0, <2>1
    <3>3. Number(x, songcount) = x[2].value BY <2>1, <3>1, <3>2, NumberFirst
    <3>4. QED BY <2>1, <3>3
  <2>4. Number(x, playtime) = c.value
    <3>1. 3 \in 1..Len(x) /\ \A n \in 1..(3 - 1) : x[n].key # playtime BY <1>0, <2>0, <2>1
    <3>2. x[3].key = playtime BY <1>0, <2>1
    <3>3. Number(x, playtime) = x[3].value BY <2>1, <3>1, <3>2, NumberFirst, SMTT(30)
    <3>4. QED BY <2>1, <3>3
  <2>5. R(x, a.value, b.value, c.value) BY <2>2, <2>3, <2>4
  <2>6. QED BY <2>5 DEF x
<1>7. \A x, p, q, r : R(x, p, q, r) => ReadAs(F, x, p, q, r) BY DEF ReadAs, dir, songcount, playtime, file
<1> HIDE DEF R
<1>8. QED BY <1>3, <1>4, <1>5, <1>6, <1>7

LEMMA DirRead ==
    ASSUME NEW dir, NEW F, LinesOfDir(dir) \subseteq F
    PROVE  ReadAs(F, DirLines(dir), dir.path, dir.songs, dir.time)
<1> DEFINE a == Field("directory", dir.path)
           b == Field("songcount", dir.songs)
           c == Field("playtime", dir.time)
           s == IF dir.songs = Unknown THEN <<>> ELSE <<b>>
           t == IF dir.time = Unknown THEN <<>> ELSE <<c>>
<1>1. /\ a \in F /\ a.key = "directory" /\ a.value = dir.path
      /\ b \in F /\ b.key = "songcount" /\ b.value = dir.songs
      /\ c \in F /\ c.key = "playtime" /\ c.value = dir.time
  BY DEF LinesOfDir, Field
<1>2. DirLines(dir) = <<a>> \o (s \o t) BY DEF DirLines, Numbers
<1> HIDE DEF a, b, c
<1>3. /\ ReadAs(F, <<a>>, a.value, Unknown, Unknown)
      /\ ReadAs(F, <<a, b>>, a.value, b.value, Unknown)
      /\ ReadAs(F, <<a, c>>, a.value, Unknown, c.value)
      /\ ReadAs(F, <<a, b, c>>, a.value, b.value, c.value)
  BY <1>1, DirCases
<1>4. /\ <<a>> \o (<<>> \o <<>>) = <<a>>
      /\ <<a>> \o (<<b>> \o <<>>) = <<a, b>>
      /\ <<a>> \o (<<>> \o <<c>>) = <<a, c>>
      /\ <<a>> \o (<<b>> \o <<c>>) = <<a, b, c>>
  BY <1>1, ShortLists
<1>5. CASE dir.songs = Unknown /\ dir.time = Unknown
  <2>1. s = <<>> /\ t = <<>> BY <1>5
  <2>2. DirLines(dir) = <<a>> BY <1>2, <1>4, <2>1
  <2>3. QED BY <1>1, <1>3, <1>5, <2>2
<1>6. CASE dir.songs # Unknown /\ dir.time = Unknown
  <2>1. s = <<b>> /\ t = <<>> BY <1>6
  <2>2. DirLines(dir) = <<a, b>> BY <1>2, <1>4, <2>1
  <2>3. QED BY <1>1, <1>3, <1>6, <2>2
<1>7. CASE dir.songs = Unknown /\ dir.time # Unknown
  <2>1. s = <<>> /\ t = <<c>> BY <1>7
  <2>2. DirLines(dir) = <<a, c>> BY <1>2, <1>4, <2>1
  <2>3. QED BY <1>1, <1>3, <1>7, <2>2
<1>8. CASE dir.songs # Unknown /\ dir.time # Unknown
  <2>1. s = <<b>> /\ t = <<c>> BY <1>8
  <2>2. DirLines(dir) = <<a, b, c>> BY <1>2, <1>4, <2>1
  <2>3. QED BY <1>1, <1>3, <2>2
<1>9. QED BY <1>5, <1>6, <1>7, <1>8

\* The lines of a song are read as its own path, length and tags.
LEMMA SongFileRead ==
    ASSUME db \in Databases, NEW n \in DOMAIN db.songs
    PROVE  Text(SongLines(db.songs[n]), "file") = TrimStart(db.songs[n].file)
<1> DEFINE song == db.songs[n]
           lines == SongLines(song)
           L == LinesOf(song)
           file == "file"
<1>1. /\ lines \in Seq(L) /\ Len(lines) \in {Len(song.tags) + 1, Len(song.tags) + 2}
      /\ Len(song.tags) \in Nat /\ lines[1] = Field(file, song.file)
  BY SongLinesAre
<1> HIDE DEF lines, L, file, song
<1>2. lines[1].key = file /\ lines[1].value = song.file BY <1>1 DEF Field
<1>3. 1 \in 1..Len(lines) /\ \A m \in 1..(1 - 1) : lines[m].key # file BY <1>1
<1>4. lines \in Seq(L) BY <1>1
<1>5. Text(lines, file) = TrimStart(lines[1].value) BY <1>2, <1>3, <1>4, TextFirst
<1>6. QED BY <1>2, <1>5 DEF lines, file, song

LEMMA SongTimeRead ==
    ASSUME db \in Databases, NEW n \in DOMAIN db.songs
    PROVE  Number(SongLines(db.songs[n]), "Time") = db.songs[n].time
<1> DEFINE song == db.songs[n]
           tags == song.tags
           lines == SongLines(song)
           L == LinesOf(song)
           time == "Time"
<1>1. /\ DOMAIN tags = 1..Len(tags) /\ Len(tags) \in Nat
      /\ lines \in Seq(L) /\ Len(lines) \in {Len(tags) + 1, Len(tags) + 2}
      /\ Len(lines) = Len(tags) + 1 <=> song.time = Unknown
      /\ lines[1] = Field("file", song.file)
      /\ \A m \in 1..Len(tags) : lines[m + 1] = Field(tags[m][1], tags[m][2])
      /\ \A at \in 1..Len(lines) : at > Len(tags) + 1 => lines[at] = Field(time, song.time)
  BY SongLinesAre
<1>2. \A m \in DOMAIN tags : tags[m][1] # time BY DatabasesAssumption
<1>3. \A k, v : Field(k, v).key = k /\ Field(k, v).value = v BY DEF Field
<1>4. "file" # time OBVIOUS
<1> HIDE DEF song, tags, lines, L, time
<1>5. lines \in Seq(L) BY <1>1
<1>6. ASSUME NEW k \in 1..(Len(tags) + 1) PROVE lines[k].key # time
  <2>1. CASE k = 1 BY <1>1, <1>3, <1>4, <2>1
  <2>2. CASE k # 1
    <3>1. k - 1 \in 1..Len(tags) /\ (k - 1) + 1 = k BY <1>1, <2>2
    <3>2. lines[k] = Field(tags[k - 1][1], tags[k - 1][2]) BY <1>1, <3>1
    <3>3. tags[k - 1][1] # time BY <1>1, <1>2, <3>1
    <3>4. QED BY <1>3, <3>2, <3>3
  <2>3. QED BY <2>1, <2>2
<1>7. CASE song.time = Unknown
  <2>1. Len(lines) = Len(tags) + 1 BY <1>1, <1>7
  <2>2. \A k \in 1..Len(lines) : lines[k].key # time BY <1>6, <2>1
  <2>3. Number(lines, time) = Unknown BY <1>5, <2>2, NumberNothing
  <2>4. QED BY <1>7, <2>3 DEF lines, song, time
<1>8. CASE song.time # Unknown
  <2> DEFINE m == Len(tags) + 2
  <2>1. m \in 1..Len(lines) /\ m > Len(tags) + 1 /\ m - 1 = Len(tags) + 1 BY <1>1, <1>8
  <2>2. lines[m] = Field(time, song.time) BY <1>1, <2>1
  <2> HIDE DEF m
  <2>3. lines[m].key = time /\ lines[m].value = song.time BY <1>3, <2>2
  <2>4. \A k \in 1..(m - 1) : lines[k].key # time BY <1>6, <2>1
  <2>5. Number(lines, time) = lines[m].value BY <1>5, <2>1, <2>3, <2>4, NumberFirst
  <2>6. QED BY <2>3, <2>5 DEF lines, song, time
<1>9. QED BY <1>7, <1>8

LEMMA SongEntry ==
    ASSUME db \in Databases, NEW n \in DOMAIN db.songs
    PROVE  /\ ParseSong(SongLines(db.songs[n])).file = TrimStart(db.songs[n].file)
           /\ ParseSong(SongLines(db.songs[n])).time = db.songs[n].time
           /\ \A f \in Fields :
                 ParseSong(SongLines(db.songs[n]))[f] = FirstOf(db.songs[n], CanonicalTag(f))
<1> DEFINE lines == SongLines(db.songs[n])
<1>1. ParseSong(lines).file = Text(lines, "file") /\ ParseSong(lines).time = Number(lines, "Time")
  BY DEF ParseSong
<1>2. ASSUME NEW f \in Fields
      PROVE  ParseSong(lines)[f] = Text(lines, CanonicalTag(f)) /\ CanonicalTag(f) # "file" /\ CanonicalTag(f) # "Time"
  <2> HIDE DEF lines
  <2>2. f \in {"artist", "albumartist", "album"} BY FieldsAreTags
  <2>3. CASE f = "artist" BY <2>3 DEF ParseSong, CanonicalTag
  <2>4. CASE f = "albumartist" BY <2>4 DEF ParseSong, CanonicalTag
  <2>5. CASE f = "album" BY <2>5 DEF ParseSong, CanonicalTag
  <2>6. QED BY <2>2, <2>3, <2>4, <2>5
<1>3. ASSUME NEW f \in Fields PROVE ParseSong(lines)[f] = FirstOf(db.songs[n], CanonicalTag(f))
  <2> DEFINE tag == CanonicalTag(f)
  <2>1. ParseSong(lines)[f] = Text(lines, tag) /\ tag # "file" /\ tag # "Time" BY <1>2
  <2> HIDE DEF tag
  <2>2. Text(lines, tag) = FirstOf(db.songs[n], tag) BY <2>1, SongRead
  <2>3. QED BY <2>1, <2>2 DEF tag
<1>4. QED BY <1>1, <1>3, SongFileRead, SongTimeRead

\* Of two kinds of items, one behind the other, each is found.
ItemParts(items, key) == [n \in DOMAIN items |-> IF items[n][1].key = key THEN <<items[n]>> ELSE <<>>]

LEMMA ItemPartsAre ==
    ASSUME NEW A, NEW s \in Seq(A), NEW key
    PROVE  /\ ItemParts(s, key) \in Seq(Seq(A)) /\ Len(ItemParts(s, key)) = Len(s)
           /\ ItemsOf(s, key) = FlattenSeq(ItemParts(s, key))
           /\ (\A n \in 1..Len(s) : s[n][1].key = key) => ItemsOf(s, key) = s
           /\ (\A n \in 1..Len(s) : s[n][1].key # key) => ItemsOf(s, key) = <<>>
<1> DEFINE part(n) == IF s[n][1].key = key THEN <<s[n]>> ELSE <<>>
           parts == [n \in DOMAIN s |-> part(n)]
<1>1. DOMAIN s = 1..Len(s) /\ Len(s) \in Nat /\ \A n \in 1..Len(s) : part(n) \in Seq(A) OBVIOUS
<1>2. parts = ItemParts(s, key) BY DEF ItemParts
<1>3. ItemsOf(s, key) = FlattenSeq(parts) BY DEF ItemsOf
<1>4. ASSUME \A n \in 1..Len(s) : s[n][1].key = key PROVE FlattenSeq(parts) = s
  <2>1. \A n \in DOMAIN s : part(n) = <<s[n]>> BY <1>1, <1>4
  <2>2. parts = [n \in DOMAIN s |-> <<s[n]>>]
    <3> HIDE DEF part
    <3>1. QED BY <2>1
  <2>3. QED BY <2>2, FlattenSingles
<1>5. \A n \in 1..Len(s) : s[n][1].key # key => part(n) = <<>> OBVIOUS
<1> HIDE DEF part
<1>6. parts \in Seq(Seq(A)) /\ Len(parts) = Len(s) /\ \A n \in 1..Len(s) : parts[n] = part(n) BY <1>1
<1> HIDE DEF parts
<1>7. ASSUME \A n \in 1..Len(s) : s[n][1].key # key PROVE FlattenSeq(parts) = <<>>
  <2>1. \A n \in 1..Len(parts) : parts[n] = <<>> BY <1>5, <1>6, <1>7
  <2>2. QED BY <1>6, <2>1, FlattenFirst
<1>8. QED BY <1>2, <1>3, <1>4, <1>6, <1>7

LEMMA ItemsOfConcat ==
    ASSUME NEW A, NEW s \in Seq(A), NEW t \in Seq(A), NEW key
    PROVE  ItemsOf(s \o t, key) = ItemsOf(s, key) \o ItemsOf(t, key)
<1> DEFINE u == s \o t
           p == ItemParts(s, key)
           q == ItemParts(t, key)
           r == ItemParts(u, key)
<1>1. /\ u \in Seq(A) /\ Len(u) = Len(s) + Len(t) /\ Len(s) \in Nat /\ Len(t) \in Nat
      /\ \A n \in 1..(Len(s) + Len(t)) : u[n] = IF n <= Len(s) THEN s[n] ELSE t[n - Len(s)]
  BY ConcatProperties
<1>2. /\ p \in Seq(Seq(A)) /\ Len(p) = Len(s) /\ ItemsOf(s, key) = FlattenSeq(p)
      /\ q \in Seq(Seq(A)) /\ Len(q) = Len(t) /\ ItemsOf(t, key) = FlattenSeq(q)
  BY ItemPartsAre
<1> HIDE DEF u
<1>3. r \in Seq(Seq(A)) /\ Len(r) = Len(u) /\ ItemsOf(u, key) = FlattenSeq(r)
  BY <1>1, ItemPartsAre
<1>4. /\ \A n \in 1..Len(s) : p[n] = IF s[n][1].key = key THEN <<s[n]>> ELSE <<>>
      /\ \A n \in 1..Len(t) : q[n] = IF t[n][1].key = key THEN <<t[n]>> ELSE <<>>
      /\ \A n \in 1..Len(u) : r[n] = IF u[n][1].key = key THEN <<u[n]>> ELSE <<>>
  BY <1>1 DEF ItemParts
<1> HIDE DEF p, q, r
<1> DEFINE B == Seq(A)
<1>5. r = p \o q
  <2>0. p \in Seq(B) /\ q \in Seq(B) /\ r \in Seq(B) BY <1>2, <1>3
  <2> HIDE DEF B
  <2>1. /\ p \o q \in Seq(B) /\ Len(p \o q) = Len(p) + Len(q)
        /\ \A n \in 1..(Len(p) + Len(q)) : (p \o q)[n] = IF n <= Len(p) THEN p[n] ELSE q[n - Len(p)]
    BY <2>0, ConcatProperties
  <2>2. ASSUME NEW n \in 1..(Len(s) + Len(t)) PROVE r[n] = (p \o q)[n]
    <3>1. CASE n <= Len(s)
      <4>1. n \in 1..Len(s) /\ n \in 1..Len(u) BY <1>1, <3>1
      <4>2. u[n] = s[n] BY <1>1, <3>1
      <4>3. (p \o q)[n] = p[n] BY <1>2, <2>1, <3>1
      <4>4. r[n] = p[n] BY <1>4, <4>1, <4>2
      <4>5. QED BY <4>3, <4>4
    <3>2. CASE ~(n <= Len(s))
      <4>1. n - Len(s) \in 1..Len(t) /\ n \in 1..Len(u) BY <1>1, <3>2
      <4>2. u[n] = t[n - Len(s)] BY <1>1, <3>2
      <4>3. (p \o q)[n] = q[n - Len(s)] BY <1>2, <2>1, <3>2
      <4>4. r[n] = q[n - Len(s)] BY <1>4, <4>1, <4>2
      <4>5. QED BY <4>3, <4>4
    <3>3. QED BY <3>1, <3>2
  <2>3. Len(r) = Len(s) + Len(t) /\ Len(p \o q) = Len(s) + Len(t) BY <1>1, <1>2, <1>3, <2>1
  <2>4. QED BY <2>0, <2>1, <2>2, <2>3, SeqEqual
<1>6. FlattenSeq(p \o q) = FlattenSeq(p) \o FlattenSeq(q) BY <1>2, FlattenConcat
<1>7. QED BY <1>2, <1>3, <1>5, <1>6 DEF u

LEMMA ItemsOfFirst ==
    ASSUME NEW A, NEW s \in Seq(A), NEW t \in Seq(A), NEW key,
           \A n \in 1..Len(s) : s[n][1].key = key, \A n \in 1..Len(t) : t[n][1].key # key
    PROVE  ItemsOf(s \o t, key) = s
<1>1. ItemsOf(s, key) = s BY ItemPartsAre
<1>2. ItemsOf(t, key) = <<>> BY ItemPartsAre
<1>3. s \o <<>> = s OBVIOUS
<1>4. ItemsOf(s \o t, key) = ItemsOf(s, key) \o ItemsOf(t, key) BY ItemsOfConcat
<1>5. QED BY <1>1, <1>2, <1>3, <1>4

LEMMA ItemsOfSecond ==
    ASSUME NEW A, NEW s \in Seq(A), NEW t \in Seq(A), NEW key,
           \A n \in 1..Len(s) : s[n][1].key # key, \A n \in 1..Len(t) : t[n][1].key = key
    PROVE  ItemsOf(s \o t, key) = t
<1>1. ItemsOf(s, key) = <<>> BY ItemPartsAre
<1>2. ItemsOf(t, key) = t BY ItemPartsAre
<1>3. <<>> \o t = t OBVIOUS
<1>4. ItemsOf(s \o t, key) = ItemsOf(s, key) \o ItemsOf(t, key) BY ItemsOfConcat
<1>5. QED BY <1>1, <1>2, <1>3, <1>4

\* The two kinds of lines of a directory listing.
DirGroups == [n \in DOMAIN db.dirs |-> DirLines(db.dirs[n])]
SongGroups == [n \in DOMAIN db.songs |-> SongLines(db.songs[n])]

LEMMA ListingIs ==
    ASSUME db \in Databases
    PROVE  /\ GroupItems(ParseText(LsinfoReply(db)).fields, {"directory", "file"}) = DirGroups \o SongGroups
           /\ ItemsOf(DirGroups \o SongGroups, "directory") = DirGroups
           /\ ItemsOf(DirGroups \o SongGroups, "file") = SongGroups
<1> DEFINE F1 == UNION {LinesOf(db.songs[n]) : n \in DOMAIN db.songs}
           F2 == UNION {LinesOfDir(db.dirs[n]) : n \in DOMAIN db.dirs}
           F == F1 \cup F2
           starts == {"directory", "file"}
           G == Group(F, starts)
           Q == Seq(F)
           all == FlattenSeq(DirGroups \o SongGroups)
<1>1. DOMAIN db.songs = 1..Len(db.songs) /\ Len(db.songs) \in Nat
  BY DatabasesAssumption DEF IsSequence
<1>2. DOMAIN db.dirs = 1..Len(db.dirs) /\ Len(db.dirs) \in Nat
  BY DatabasesAssumption DEF IsSequence
<1>3. \A x \in F : x.line = "field"
  <2>1. \A x \in F1 : x.line = "field" BY DEF LinesOf, Field
  <2>2. \A x \in F2 : x.line = "field" BY DEF LinesOfDir, Field
  <2> HIDE DEF F1, F2
  <2>3. QED BY <2>1, <2>2
<1>4. /\ \A n \in DOMAIN db.songs : LinesOf(db.songs[n]) \subseteq F
      /\ \A n \in DOMAIN db.dirs : LinesOfDir(db.dirs[n]) \subseteq F
  <2>1. \A n \in DOMAIN db.songs : LinesOf(db.songs[n]) \subseteq F1 OBVIOUS
  <2>2. \A n \in DOMAIN db.dirs : LinesOfDir(db.dirs[n]) \subseteq F2 OBVIOUS
  <2> HIDE DEF F1, F2
  <2>3. QED BY <2>1, <2>2
<1> HIDE DEF F
<1>5. ASSUME NEW n \in DOMAIN db.songs
      PROVE  SongLines(db.songs[n]) \in G /\ SongLines(db.songs[n])[1].key = "file"
  BY <1>4, SongIsGroup
<1>6. ASSUME NEW n \in DOMAIN db.dirs
      PROVE  DirLines(db.dirs[n]) \in G /\ DirLines(db.dirs[n])[1].key = "directory"
  <2>1. ReadAs(F, DirLines(db.dirs[n]), db.dirs[n].path, db.dirs[n].songs, db.dirs[n].time)
    BY <1>4, DirRead
  <2>2. QED BY <2>1 DEF ReadAs
<1>7. G \subseteq Q BY DEF Group
<1> HIDE DEF starts, G
<1>8. SongGroups \in Seq(G) /\ Len(SongGroups) = Len(db.songs)
      /\ \A n \in 1..Len(SongGroups) : SongGroups[n][1].key = "file"
  BY <1>1, <1>5 DEF SongGroups
<1>9. DirGroups \in Seq(G) /\ Len(DirGroups) = Len(db.dirs)
      /\ \A n \in 1..Len(DirGroups) : DirGroups[n][1].key = "directory"
  BY <1>2, <1>6 DEF DirGroups
<1>10. LsinfoReply(db) = (FlattenSeq(DirGroups) \o FlattenSeq(SongGroups)) \o OK
  BY DEF LsinfoReply, DirGroups, SongGroups, DirLines, Numbers
<1>11. all = FlattenSeq(DirGroups) \o FlattenSeq(SongGroups)
  <2> HIDE DEF Q
  <2>1. DirGroups \in Seq(Q) /\ SongGroups \in Seq(Q) BY <1>7, <1>8, <1>9
  <2>2. DirGroups \in Seq(Seq(F)) /\ SongGroups \in Seq(Seq(F)) BY <2>1 DEF Q
  <2>3. QED BY <2>2, FlattenConcat
<1>12. all \in Seq(F) /\ GroupItems(all, starts) = DirGroups \o SongGroups
  <2> DEFINE gg == DirGroups \o SongGroups
  <2>1. gg \in Seq(G) BY <1>8, <1>9
  <2> HIDE DEF gg
  <2>2. gg \in Seq(Group(F, starts)) BY <2>1 DEF G
  <2>3. FlattenSeq(gg) \in Seq(F) /\ GroupItems(FlattenSeq(gg), starts) = gg BY <2>2, GroupsAreFound
  <2>4. QED BY <2>3 DEF gg
<1> HIDE DEF all
<1>13. ParseText(all \o OK) = [fields |-> all, ack |-> FALSE] BY <1>3, <1>12, ResponseRead
<1>14. ParseText(LsinfoReply(db)).fields = all BY <1>10, <1>11, <1>13
<1>15. DirGroups \in Seq(G) /\ SongGroups \in Seq(G) BY <1>8, <1>9
<1>16. ItemsOf(DirGroups \o SongGroups, "directory") = DirGroups
  <2> DEFINE key == "directory"
  <2>1. \A n \in 1..Len(DirGroups) : DirGroups[n][1].key = key BY <1>9
  <2>2. \A n \in 1..Len(SongGroups) : SongGroups[n][1].key # key BY <1>8
  <2> HIDE DEF key
  <2>3. ItemsOf(DirGroups \o SongGroups, key) = DirGroups BY <1>15, <2>1, <2>2, ItemsOfFirst
  <2>4. QED BY <2>3 DEF key
<1>17. ItemsOf(DirGroups \o SongGroups, "file") = SongGroups
  <2> DEFINE key == "file"
  <2>1. \A n \in 1..Len(DirGroups) : DirGroups[n][1].key # key BY <1>9
  <2>2. \A n \in 1..Len(SongGroups) : SongGroups[n][1].key = key BY <1>8
  <2> HIDE DEF key
  <2>3. ItemsOf(DirGroups \o SongGroups, key) = SongGroups BY <1>15, <2>1, <2>2, ItemsOfSecond
  <2>4. QED BY <2>3 DEF key
<1>18. QED BY <1>12, <1>14, <1>16, <1>17 DEF starts

\* The listing of the root directory.
LEMMA RootListed ==
    ASSUME db \in Databases
    PROVE  /\ ParseLsinfo(LsinfoReply(db)).directories
                = [n \in DOMAIN db.dirs |-> [path |-> TrimStart(db.dirs[n].path), songs |-> db.dirs[n].songs,
                                             time |-> db.dirs[n].time]]
           /\ ParseLsinfo(LsinfoReply(db)).files = [n \in DOMAIN db.songs |-> ParseSong(SongLines(db.songs[n]))]
           /\ ParseLsinfo(LsinfoReply(db)).songcount
                = Total([n \in DOMAIN db.dirs |-> db.dirs[n].songs] \o [n \in DOMAIN db.songs |-> 1])
           /\ ParseLsinfo(LsinfoReply(db)).playtime
                = Total([n \in DOMAIN db.dirs |-> db.dirs[n].time] \o [n \in DOMAIN db.songs |-> db.songs[n].time])
<1> DEFINE items == GroupItems(ParseText(LsinfoReply(db)).fields, {"directory", "file"})
           dirs == ItemsOf(items, "directory")
           files == ItemsOf(items, "file")
           dirEntry(it) == [path |-> Text(it, "directory"), songs |-> Number(it, "songcount"),
                            time |-> Number(it, "playtime")]
           dirEntries == [n \in DOMAIN dirs |-> dirEntry(dirs[n])]
           found == [n \in DOMAIN files |-> ParseSong(files[n])]
<1>1. ParseLsinfo(LsinfoReply(db)) =
         [directories |-> dirEntries, files |-> found,
          songcount |-> Total([n \in DOMAIN dirs |-> dirEntries[n].songs] \o [n \in DOMAIN files |-> 1]),
          playtime  |-> Total([n \in DOMAIN dirs |-> dirEntries[n].time] \o [n \in DOMAIN files |-> found[n].time])]
  BY DEF ParseLsinfo
<1>2. dirs = DirGroups /\ files = SongGroups BY ListingIs
<1> HIDE DEF dirs, files
<1>3. /\ DOMAIN dirs = DOMAIN db.dirs /\ \A n \in DOMAIN db.dirs : dirs[n] = DirLines(db.dirs[n])
      /\ DOMAIN files = DOMAIN db.songs /\ \A n \in DOMAIN db.songs : files[n] = SongLines(db.songs[n])
  BY <1>2 DEF DirGroups, SongGroups
<1>4. ASSUME NEW n \in DOMAIN db.dirs
      PROVE  dirEntry(dirs[n]) = [path |-> TrimStart(db.dirs[n].path), songs |-> db.dirs[n].songs,
                                  time |-> db.dirs[n].time]
  <2> DEFINE F == LinesOfDir(db.dirs[n])
  <2>1. F \subseteq F OBVIOUS
  <2> HIDE DEF F
  <2>2. ReadAs(F, DirLines(db.dirs[n]), db.dirs[n].path, db.dirs[n].songs, db.dirs[n].time)
    BY <2>1, DirRead DEF F
  <2>3. QED BY <1>3, <2>2 DEF ReadAs
<1> HIDE DEF dirEntry
<1>5. dirEntries = [n \in DOMAIN db.dirs |-> [path |-> TrimStart(db.dirs[n].path), songs |-> db.dirs[n].songs,
                                              time |-> db.dirs[n].time]]
  BY <1>3, <1>4
<1>6. /\ [n \in DOMAIN dirs |-> dirEntries[n].songs] = [n \in DOMAIN db.dirs |-> db.dirs[n].songs]
      /\ [n \in DOMAIN dirs |-> dirEntries[n].time] = [n \in DOMAIN db.dirs |-> db.dirs[n].time]
  <2> HIDE DEF dirEntries
  <2>1. \A n \in DOMAIN db.dirs : dirEntries[n].songs = db.dirs[n].songs /\ dirEntries[n].time = db.dirs[n].time
    BY <1>5
  <2>2. QED BY <1>3, <2>1
<1>7. found = [n \in DOMAIN db.songs |-> ParseSong(SongLines(db.songs[n]))] BY <1>3
<1>8. [n \in DOMAIN files |-> found[n].time] = [n \in DOMAIN db.songs |-> db.songs[n].time]
  <2> HIDE DEF found
  <2>1. \A n \in DOMAIN db.songs : found[n] = ParseSong(SongLines(db.songs[n])) BY <1>7
  <2>2. \A n \in DOMAIN db.songs : ParseSong(SongLines(db.songs[n])).time = db.songs[n].time BY SongEntry
  <2>3. \A n \in DOMAIN db.songs : found[n].time = db.songs[n].time BY <2>1, <2>2
  <2>4. QED BY <1>3, <2>3
<1>9. [n \in DOMAIN files |-> 1] = [n \in DOMAIN db.songs |-> 1] BY <1>3
<1> DEFINE count == Total([n \in DOMAIN dirs |-> dirEntries[n].songs] \o [n \in DOMAIN files |-> 1])
           length == Total([n \in DOMAIN dirs |-> dirEntries[n].time] \o [n \in DOMAIN files |-> found[n].time])
<1>10. /\ count = Total([n \in DOMAIN db.dirs |-> db.dirs[n].songs] \o [n \in DOMAIN db.songs |-> 1])
       /\ length = Total([n \in DOMAIN db.dirs |-> db.dirs[n].time] \o [n \in DOMAIN db.songs |-> db.songs[n].time])
  <2> HIDE DEF dirEntries, found
  <2>1. QED BY <1>6, <1>8, <1>9
<1> HIDE DEF dirEntries, found, count, length
<1>11. /\ ParseLsinfo(LsinfoReply(db)).directories = dirEntries
       /\ ParseLsinfo(LsinfoReply(db)).files = found
       /\ ParseLsinfo(LsinfoReply(db)).songcount = count
       /\ ParseLsinfo(LsinfoReply(db)).playtime = length
  <2>1. ParseLsinfo(LsinfoReply(db)) = [directories |-> dirEntries, files |-> found, songcount |-> count,
                                       playtime |-> length]
    BY <1>1 DEF count, length
  <2>2. QED BY <2>1
<1>12. QED BY <1>5, <1>7, <1>10, <1>11

LEMMA BrowseRight ==
    ASSUME db \in Databases, NEW t, Browse(t)
    PROVE  BrowseFaithful'
<1> DEFINE dirs == db.dirs
           files == db.songs
           songcounts == [n \in DOMAIN dirs |-> dirs[n].songs]
           lengths == [n \in DOMAIN dirs |-> dirs[n].time]
           times == [n \in DOMAIN files |-> files[n].time]
           ones == [n \in DOMAIN files |-> 1]
           known(ns) == \A n \in DOMAIN ns : ns[n] # Unknown
           listing == ParseLsinfo(LsinfoReply(db))
           M == Nat \cup {Unknown}
<1>1. asked'.what = "browse" /\ db' = db /\ (asked'.path = <<>> => answer' = listing)
  BY DEF Browse, Asks
<1>2. /\ listing.directories = [n \in DOMAIN dirs |-> [path |-> TrimStart(dirs[n].path), songs |-> dirs[n].songs,
                                             time |-> dirs[n].time]]
      /\ listing.files = [n \in DOMAIN files |-> ParseSong(SongLines(files[n]))]
      /\ listing.songcount = Total(songcounts \o ones)
      /\ listing.playtime = Total(lengths \o times)
  BY RootListed
<1>3. DOMAIN dirs = 1..Len(dirs) /\ Len(dirs) \in Nat /\ DOMAIN files = 1..Len(files) /\ Len(files) \in Nat
  BY DatabasesAssumption DEF IsSequence
<1>4. /\ \A n \in DOMAIN dirs : dirs[n].songs \in M /\ dirs[n].time \in M
      /\ \A n \in DOMAIN files : files[n].time \in M
  BY DatabasesAssumption
<1>5. \A n \in DOMAIN files :
         /\ ParseSong(SongLines(files[n])).file = TrimStart(files[n].file)
         /\ ParseSong(SongLines(files[n])).time = files[n].time
         /\ \A f \in Fields : ParseSong(SongLines(files[n]))[f] = FirstOf(files[n], CanonicalTag(f))
  BY SongEntry
<1> HIDE DEF dirs, files, listing
<1>6. /\ songcounts \in Seq(M) /\ lengths \in Seq(M) /\ times \in Seq(M)
      /\ Len(songcounts) = Len(dirs) /\ Len(lengths) = Len(dirs) /\ Len(times) = Len(files)
  <2> HIDE DEF M
  <2>1. QED BY <1>3, <1>4
<1>7. ones = [n \in 1..Len(files) |-> 1] BY <1>3
<1>8. /\ ones \in Seq(M) /\ Len(ones) = Len(files) /\ \A n \in 1..Len(ones) : ones[n] # Unknown
      /\ SumOf(ones) = Len(files)
  <2>1. SumOf(ones) = Len(files) BY <1>3, <1>7, SumOfOnes
  <2>2. 1 \in M /\ 1 # Unknown BY DEF Unknown
  <2> HIDE DEF M
  <2>3. QED BY <1>3, <1>7, <2>1, <2>2
<1> HIDE DEF songcounts, lengths, times, ones
<1>9. /\ \A n : n \in DOMAIN songcounts <=> n \in 1..Len(songcounts)
      /\ \A n : n \in DOMAIN lengths <=> n \in 1..Len(lengths)
      /\ \A n : n \in DOMAIN times <=> n \in 1..Len(times)
  BY <1>6
<1>10. Total(songcounts \o ones) = IF known(songcounts) THEN SumOf(songcounts) + Len(files) ELSE Unknown
  <2>1. Total(songcounts \o ones)
          = IF (\A n \in 1..Len(songcounts) : songcounts[n] # Unknown) /\ (\A n \in 1..Len(ones) : ones[n] # Unknown)
            THEN SumOf(songcounts) + SumOf(ones) ELSE Unknown
    BY <1>6, <1>8, TotalOfTwo
  <2>2. QED BY <1>8, <1>9, <2>1
<1>11. Total(lengths \o times) = IF known(lengths) /\ known(times) THEN SumOf(lengths) + SumOf(times) ELSE Unknown
  <2>1. Total(lengths \o times)
          = IF (\A n \in 1..Len(lengths) : lengths[n] # Unknown) /\ (\A n \in 1..Len(times) : times[n] # Unknown)
            THEN SumOf(lengths) + SumOf(times) ELSE Unknown
    BY <1>6, TotalOfTwo
  <2>2. QED BY <1>9, <2>1
<1>12. /\ Len(listing.directories) = Len(dirs) /\ Len(listing.files) = Len(files)
       /\ \A n \in DOMAIN dirs :
             /\ listing.directories[n].path = TrimStart(dirs[n].path)
             /\ listing.directories[n].songs = dirs[n].songs
             /\ listing.directories[n].time = dirs[n].time
       /\ \A n \in DOMAIN files : listing.files[n] = ParseSong(SongLines(files[n]))
  BY <1>2, <1>3
<1>13. /\ \A n \in DOMAIN files :
             /\ listing.files[n].file = TrimStart(files[n].file)
             /\ listing.files[n].time = files[n].time
             /\ \A f \in Fields : listing.files[n][f] = FirstOf(files[n], CanonicalTag(f))
       /\ listing.songcount = IF known(songcounts) THEN SumOf(songcounts) + Len(files) ELSE Unknown
       /\ listing.playtime = IF known(lengths) /\ known(times) THEN SumOf(lengths) + SumOf(times) ELSE Unknown
  BY <1>2, <1>5, <1>10, <1>11, <1>12
<1> HIDE DEF known
<1>14. /\ db'.dirs = dirs /\ db'.songs = files BY <1>1 DEF dirs, files
<1>15. QED BY <1>1, <1>12, <1>13, <1>14 DEF BrowseFaithful, songcounts, lengths, times, known

LEMMA BrowseInit == LibraryInit => BrowseFaithful
  BY DEF LibraryInit, BrowseFaithful, Nothing

LEMMA BrowseStep ==
    db \in Databases /\ BrowseFaithful /\ [LibraryNext]_libraryVars => BrowseFaithful'
<1> SUFFICES ASSUME db \in Databases, BrowseFaithful, [LibraryNext]_libraryVars PROVE BrowseFaithful'
  OBVIOUS
<1>1. ASSUME UNCHANGED <<db, asked, answer>> PROVE BrowseFaithful'
  BY <1>1, ZenonT(30) DEF BrowseFaithful
<1>2. CASE Search
  BY <1>1, <1>2 DEF Search, browsing
<1>3. CASE Answered
  BY <1>3 DEF Answered, BrowseFaithful, Nothing
<1>4. ASSUME NEW t, AddByPath(t) \/ AddByTag(t) PROVE BrowseFaithful'
  <2>1. ASSUME AddByPath(t) PROVE asked'.what # "browse" BY <2>1 DEF AddByPath, Asks
  <2>2. ASSUME AddByTag(t) PROVE asked'.what # "browse" BY <2>2 DEF AddByTag, Asks
  <2>3. QED BY <1>4, <2>1, <2>2 DEF BrowseFaithful
<1>5. ASSUME NEW l, ListTag(l[1], l[2], l[3]) PROVE BrowseFaithful'
  <2>1. asked'.what # "browse" BY <1>5 DEF ListTag, Asks
  <2>2. QED BY <2>1 DEF BrowseFaithful
<1>6. ASSUME NEW t, Browse(t) PROVE BrowseFaithful'
  BY <1>6, BrowseRight
<1>7. CASE UNCHANGED libraryVars
  BY <1>1, <1>7 DEF libraryVars, browsing
<1>8. QED BY <1>2, <1>3, <1>4, <1>5, <1>6, <1>7 DEF LibraryNext

\* Every directory and every file of a listing is there, with its own numbers and tags,
\* and a total that is not known in full is reported as unknown: for every database.
THEOREM BrowsingIsFaithful == LibrarySpec => []BrowseFaithful
<1>1. LibraryInit => db \in Databases BY DEF LibraryInit
<1>2. db \in Databases /\ [LibraryNext]_libraryVars => (db \in Databases)'
  BY DEF LibraryNext, Search, Answered, AddByPath, Browse, AddByTag, ListTag, Asks, libraryVars
<1>3. QED BY <1>1, <1>2, BrowseInit, BrowseStep, PTL DEF LibrarySpec
=============================================================================
