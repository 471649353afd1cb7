----------------------------- MODULE SearchIndex -----------------------------
(***************************************************************************)
(* The local library search (crates/mpd-api/src/search.rs) and the route   *)
(* GET /api/search on it (routes/library.rs): the index is built in one    *)
(* pass over the dump and then answers queries.  The loops whose           *)
(* correctness is not plain (the merge of the exact constraints' lists) run*)
(* one comparison per step; ranking takes the best hit that is left until  *)
(* the limit is met, so that hits that tie come in any order.              *)
(***************************************************************************)
EXTENDS Integers, SequencesExt

CONSTANTS Fields,      \* the searchable fields of a song
          Values,      \* non-empty tag values
          Unset,       \* a missing or empty one
          Lower,       \* to_ascii_lowercase
          Terms,       \* free-text terms
          NoTerm,      \* none, or a blank one
          Score,       \* nucleo_matcher's Pattern::score of a haystack, given as
                       \* its set of values; 0 is "no match" (external)
          Libraries,   \* dumps
          Queries      \* what is asked of the route

Kinds == {"artist", "album", "track"}
Songs == [Fields -> Values \cup {Unset}]

ASSUME FieldsAssumption == {"artist", "albumartist", "album"} \subseteq Fields
ASSUME UnsetAssumption == Unset \notin Values /\ NoTerm \notin Terms
ASSUME LowerAssumption == Lower \in [Values -> Values]
ASSUME LibrariesAssumption == \A l \in Libraries : l \in Seq(Songs)
ASSUME QueriesAssumption ==
    \A q \in Queries : q \in [exact : Seq(Fields \X (Values \cup {Unset})),
                               term : Terms \cup {NoTerm}, kinds : SUBSET Kinds,
                               limit : Nat \ {0}]

VARIABLES
    songs,
    built,     \* how many songs are indexed
    artists,   \* artists[v].songs: those by v; .own: v is an album artist
    albums,    \* albums[<<album, album artist>>]: the songs on it
    exact,     \* exact[f][v]: the songs whose f is v, up to case
    pc,
    query,
    start,     \* the constraint whose list is the shortest
    turn,      \* the constraint the merge is at
    out,       \* what the lists of those before it have in common
    i, j, common,   \* the locals of `intersect`
    hits,      \* not yet ranked
    result     \* the answer

index == <<songs, built, artists, albums, exact>>
merge == <<start, turn, i, j, common>>
vars == <<index, merge, pc, query, out, hits, result>>

QueryType == [exact : Seq(Fields \X (Values \cup {Unset})), term : Terms \cup {NoTerm},
              kinds : SUBSET Kinds, limit : Nat \ {0}]

TypeOK ==
    /\ songs \in Seq(Songs) /\ built \in 0..Len(songs)
    /\ exact \in [Fields -> [Values -> Seq(Nat)]]
    /\ pc \in {"building", "idle", "lists", "merge", "pool", "rank", "answered"}
    /\ pc # "building" => built = Len(songs)
    /\ query \in QueryType
    /\ turn \in 1..Len(query.exact) + 1 /\ (pc = "merge" => turn <= Len(query.exact))
    /\ pc = "rank" => query.term # NoTerm
    /\ out \in Seq(Nat) /\ common \in Seq(Nat)
    /\ i \in Nat \ {0} /\ j \in Nat \ {0}

Ascending(s) == \A m, n \in 1..Len(s) : m < n => s[m] < s[n]
Elements(s) == {s[n] : n \in 1..Len(s)}
All == [n \in 1..Len(songs) |-> n]

Init ==
    /\ songs \in Libraries
    /\ built = 0
    /\ artists = [v \in Values |-> [own |-> FALSE, songs |-> <<>>]]
    /\ albums = [k \in Values \X (Values \cup {Unset}) |-> <<>>]
    /\ exact = [f \in Fields |-> [v \in Values |-> <<>>]]
    /\ pc = "building"
    /\ query = [exact |-> <<>>, term |-> NoTerm, kinds |-> {}, limit |-> 1]
    /\ start = 1 /\ turn = 1 /\ i = 1 /\ j = 1 /\ common = <<>>
    /\ out = <<>> /\ hits = {} /\ result = <<>>

-----------------------------------------------------------------------------
(* Building.                                                               *)

\* The names a song is listed under, each once.
Names(s) == {s["artist"], s["albumartist"]} \ {Unset}

\* Mutant: every artist is drilled into as an album artist.
IndexArtistsAsOwn(n) ==
    LET s == songs[n] IN
    [v \in Values |->
        [own |-> TRUE,
         songs |-> IF v \in Names(s) THEN Append(artists[v].songs, n) ELSE artists[v].songs]]

IndexArtists(n) ==
    LET s == songs[n] IN
    [v \in Values |->
        [own |-> artists[v].own \/ v = s["albumartist"],
         songs |-> IF v \in Names(s) THEN Append(artists[v].songs, n) ELSE artists[v].songs]]

IndexAlbums(n) ==
    [k \in Values \X (Values \cup {Unset}) |->
        IF k = <<songs[n]["album"], songs[n]["albumartist"]>> THEN Append(albums[k], n)
        ELSE albums[k]]

IndexExact(n) ==
    [f \in Fields |-> [v \in Values |->
        IF songs[n][f] # Unset /\ Lower[songs[n][f]] = v THEN Append(exact[f][v], n)
        ELSE exact[f][v]]]

IndexSong ==
    /\ pc = "building" /\ built < Len(songs)
    /\ built' = built + 1
    /\ artists' = IndexArtists(built + 1)
    /\ albums' = IndexAlbums(built + 1)
    /\ exact' = IndexExact(built + 1)
    /\ UNCHANGED <<songs, merge, pc, query, out, hits, result>>

Built ==
    /\ pc = "building" /\ built = Len(songs)
    /\ pc' = "idle"
    /\ UNCHANGED <<index, merge, query, out, hits, result>>

-----------------------------------------------------------------------------
(* Asking.                                                                 *)

\* The constraints of q that have a value, by position, and their lists.
Wanted(q) == {n \in 1..Len(q.exact) : q.exact[n][2] # Unset}
Key(q, n) == <<q.exact[n][1], Lower[q.exact[n][2]]>>
List(q, n) == exact[Key(q, n)[1]][Key(q, n)[2]]

\* Query::is_empty, and the route's test of the kinds
MatchesNothing(q) == q.kinds = {} \/ (q.term = NoTerm /\ Wanted(q) = {})

\* The first of the shortest lists.
IsSmallest(q, n) ==
    \A m \in Wanted(q) : /\ Len(List(q, n)) <= Len(List(q, m))
                         /\ m < n => Len(List(q, n)) < Len(List(q, m))

\* exact_candidates up to its loop: a constraint nothing satisfies ends it.
Ask(q) ==
    /\ pc \in {"idle", "answered"}
    /\ query' = q
    /\ turn' = 1
    /\ result' = <<>>
    /\ \/ MatchesNothing(q) /\ pc' = "answered" /\ out' = <<>> /\ UNCHANGED start
       \/ /\ ~MatchesNothing(q)
          /\ \/ Wanted(q) = {} /\ pc' = "pool" /\ out' = All /\ UNCHANGED start
             \/ /\ \E n \in Wanted(q) : List(q, n) = <<>>
                /\ pc' = "pool" /\ out' = <<>> /\ UNCHANGED start
             \/ /\ \A n \in Wanted(q) : List(q, n) # <<>>
                /\ \E n \in Wanted(q) :
                      IsSmallest(q, n) /\ start' = n /\ out' = List(q, n) /\ pc' = "lists"
    /\ UNCHANGED <<index, i, j, common, hits>>

\* The next list to merge; the one the merge started from is passed over.
TakeList ==
    /\ pc = "lists" /\ turn <= Len(query.exact)
    /\ IF turn \notin Wanted(query) \/ Key(query, turn) = Key(query, start)
       THEN turn' = turn + 1 /\ UNCHANGED <<pc, i, j, common>>
       ELSE pc' = "merge" /\ i' = 1 /\ j' = 1 /\ common' = <<>> /\ UNCHANGED turn
    /\ UNCHANGED <<index, start, query, out, hits, result>>

ListsDone ==
    /\ pc = "lists" /\ turn > Len(query.exact)
    /\ pc' = "pool"
    /\ UNCHANGED <<index, merge, query, out, hits, result>>

\* Mutant: the smaller side stays where it is.
CompareSwapped ==
    LET b == List(query, turn) IN
    /\ pc = "merge" /\ i <= Len(out) /\ j <= Len(b)
    /\ \/ out[i] < b[j] /\ j' = j + 1 /\ UNCHANGED <<i, common>>
       \/ out[i] > b[j] /\ i' = i + 1 /\ UNCHANGED <<j, common>>
       \/ out[i] = b[j] /\ common' = Append(common, out[i]) /\ i' = i + 1 /\ j' = j + 1
    /\ UNCHANGED <<index, start, turn, pc, query, out, hits, result>>

\* `intersect`, one comparison
Compare ==
    LET b == List(query, turn) IN
    /\ pc = "merge" /\ i <= Len(out) /\ j <= Len(b)
    /\ \/ out[i] < b[j] /\ i' = i + 1 /\ UNCHANGED <<j, common>>
       \/ out[i] > b[j] /\ j' = j + 1 /\ UNCHANGED <<i, common>>
       \/ out[i] = b[j] /\ common' = Append(common, out[i]) /\ i' = i + 1 /\ j' = j + 1
    /\ UNCHANGED <<index, start, turn, pc, query, out, hits, result>>

Merged ==
    /\ pc = "merge"
    /\ i > Len(out) \/ j > Len(List(query, turn))
    /\ out' = common
    /\ turn' = turn + 1 /\ i' = 1 /\ j' = 1 /\ common' = <<>>
    /\ pc' = "lists"
    /\ UNCHANGED <<index, start, query, hits, result>>

-----------------------------------------------------------------------------
(* Answering.                                                              *)

\* Mutant: the merge that counts misses the last song of a list.
CountInShort(a, b) ==
    LET count[at \in (1..Len(a) + 1) \X (1..Len(b) + 1)] ==
          LET m == at[1]
              n == at[2]
          IN  IF m >= Len(a) \/ n > Len(b) THEN 0
              ELSE IF a[m] < b[n] THEN count[<<m + 1, n>>]
              ELSE IF a[m] > b[n] THEN count[<<m, n + 1>>]
              ELSE 1 + count[<<m + 1, n + 1>>]
    IN  count[<<1, 1>>]

\* count_in, from its indices on
CountIn(a, b) ==
    LET count[at \in (1..Len(a) + 1) \X (1..Len(b) + 1)] ==
          LET m == at[1]
              n == at[2]
          IN  IF m > Len(a) \/ n > Len(b) THEN 0
              ELSE IF a[m] < b[n] THEN count[<<m + 1, n>>]
              ELSE IF a[m] > b[n] THEN count[<<m, n + 1>>]
              ELSE 1 + count[<<m + 1, n + 1>>]
    IN  count[<<1, 1>>]

\* An artist or album is counted within the pool, if the query has one.
Count(list) == IF query.exact = <<>> THEN Len(list) ELSE CountIn(list, out)

Present(vs) == vs \ {Unset}
Scored(hs) == {h \in hs : h.score > 0}

ArtistHits == Scored({[kind |-> "artist", name |-> v,
                       key |-> IF artists[v].own THEN "albumartist" ELSE "artist",
                       count |-> Count(artists[v].songs), score |-> Score[query.term][{v}]] :
                      v \in {w \in Values : artists[w].songs # <<>>}})
AlbumHits == Scored({[kind |-> "album", name |-> k[1], artist |-> k[2],
                      count |-> Count(albums[k]), score |-> Score[query.term][Present({k[1], k[2]})]] :
                     k \in {a \in DOMAIN albums : albums[a] # <<>>}})
Track(n, score) == [kind |-> "track", song |-> n, score |-> score]
TrackHits == Scored({Track(n, Score[query.term][Present({songs[n][f] : f \in Fields})]) :
                     n \in Elements(out)})

Counted(hs) == {h \in hs : h.count > 0}

\* Mutant: the kinds are left to the end.
CandidatesOfAnyKind == Counted(ArtistHits) \cup Counted(AlbumHits) \cup TrackHits

\* fuzzy_rank before it sorts: a kind that is not enabled is not scored at all.
Candidates ==
    (IF "artist" \in query.kinds THEN Counted(ArtistHits) ELSE {}) \cup
    (IF "album" \in query.kinds THEN Counted(AlbumHits) ELSE {}) \cup
    (IF "track" \in query.kinds THEN TrackHits ELSE {})

\* Without a term the pool is the answer, uncapped and whatever the kinds.
AnswerPool ==
    /\ pc = "pool" /\ query.term = NoTerm
    /\ result' = [n \in 1..Len(out) |-> Track(out[n], 0)]
    /\ pc' = "answered"
    /\ UNCHANGED <<index, merge, query, out, hits>>

StartRanking ==
    /\ pc = "pool" /\ query.term # NoTerm
    /\ hits' = Candidates
    /\ pc' = "rank"
    /\ UNCHANGED <<index, merge, query, out, result>>

RankBest ==
    /\ pc = "rank" /\ Len(result) < query.limit
    /\ \E h \in hits : /\ \A g \in hits : g.score <= h.score
                       /\ hits' = hits \ {h}
                       /\ result' = Append(result, h)
    /\ UNCHANGED <<index, merge, pc, query, out>>

Ranked ==
    /\ pc = "rank" /\ (hits = {} \/ Len(result) = query.limit)
    /\ hits' = {}
    /\ pc' = "answered"
    /\ UNCHANGED <<index, merge, query, out, result>>

Next == \/ IndexSong \/ Built \/ (\E q \in Queries : Ask(q))
        \/ TakeList \/ ListsDone \/ Compare \/ Merged
        \/ AnswerPool \/ StartRanking \/ RankBest \/ Ranked

Spec == Init /\ [][Next]_vars

-----------------------------------------------------------------------------
(* Properties.                                                             *)

Fits(n, q, k) == LET v == songs[n][q.exact[k][1]] IN v # Unset /\ Lower[v] = Key(q, k)[2]
Matching(q) == {n \in 1..Len(songs) : \A k \in Wanted(q) : Fits(n, q, k)}

\* The lists of the inverted map are complete and strictly ascending, which
\* `intersect` and `count_in` rely on ("all lists are strictly ascending, built in
\* song order", search.rs:351).
ListsWellFormed ==
    \A f \in Fields, v \in Values :
        /\ Ascending(exact[f][v])
        /\ Elements(exact[f][v]) = {n \in 1..built : songs[n][f] # Unset /\ Lower[songs[n][f]] = v}

\* "Every track satisfying the exact constraints is returned in library order ...
\* uncapped" (search.rs:516-518), and no other.
DrillDownComplete ==
    pc = "answered" /\ query.term = NoTerm /\ ~MatchesNothing(query) =>
        /\ \A m, n \in 1..Len(result) : m < n => result[m].song < result[n].song
        /\ {result[n].song : n \in 1..Len(result)} = Matching(query)

\* The pool a free-text query ranks is the same set of songs.
PoolExact == pc \in {"pool", "rank"} => Ascending(out) /\ Elements(out) = Matching(query)

\* What makes the pool exact: while the constraints are merged, `out` is what those
\* already merged, and the one the merge started from, leave; and `common` what the
\* parts compared so far of `out` and of the next list share.
MergeInv ==
    pc \in {"lists", "merge"} =>
        /\ start \in Wanted(query) /\ ~MatchesNothing(query)
        /\ Ascending(out)
        /\ Elements(out) = {n \in 1..Len(songs) : \A k \in Wanted(query) :
               k < turn \/ Key(query, k) = Key(query, start) => Fits(n, query, k)}

CompareInv ==
    pc = "merge" =>
        LET b == List(query, turn) IN
        /\ turn \in Wanted(query)
        /\ i <= Len(out) + 1 /\ j <= Len(b) + 1
        /\ Ascending(common)
        /\ \A m \in 1..Len(common) : \E x \in 1..i - 1, y \in 1..j - 1 :
              common[m] = out[x] /\ common[m] = b[y]
        /\ \A x \in 1..Len(out), y \in 1..Len(b) :
              out[x] = b[y] /\ (x < i \/ y < j) => \E m \in 1..Len(common) : common[m] = out[x]

IInv == TypeOK /\ ListsWellFormed /\ MergeInv /\ CompareInv /\ PoolExact /\ DrillDownComplete

\* An artist's or album's count is the number of songs of the pool attributed to it.
CountRight(h) ==
    /\ h.kind = "artist" =>
          h.count = Cardinality({m \in Matching(query) :
                       h.name \in {songs[m]["artist"], songs[m]["albumartist"]}})
    /\ h.kind = "album" =>
          h.count = Cardinality({m \in Matching(query) :
                       songs[m]["album"] = h.name /\ songs[m]["albumartist"] = h.artist})

CountsRight == pc = "answered" => \A n \in 1..Len(result) : CountRight(result[n])

\* "The cap falls on the remaining kinds" (search.rs:379-381): disabling a kind
\* makes room for hits of the others.  The hits of a kind are taken one for each
\* song, or distinct name, that matches the term.
CapOnEnabledKinds ==
    pc = "answered" /\ query.term # NoTerm =>
        LET tracks == {n \in Matching(query) :
                         Score[query.term][Present({songs[n][f] : f \in Fields})] > 0}
            shown == {n \in 1..Len(result) : result[n].kind = "track"}
        IN  /\ \A n \in 1..Len(result) : result[n].kind \in query.kinds
            /\ query.kinds = {"track"} =>
                  Cardinality(shown) = IF Cardinality(tracks) < query.limit
                                       THEN Cardinality(tracks) ELSE query.limit

\* The place an artist hit leads to is never empty, and the one an album hit leads
\* to lists all the songs the hit stands for ("a search hit straight to the
\* collection that shows the item in full", library.js:435): their exact queries
\* match those songs.
Drill(pairs) == [exact |-> pairs, term |-> NoTerm, kinds |-> Kinds, limit |-> 1]
HitsLeadSomewhere ==
    pc = "idle" =>
        /\ \A v \in Values : artists[v].songs # <<>> =>
              Matching(Drill(<< <<IF artists[v].own THEN "albumartist" ELSE "artist", v>> >>)) # {}
        /\ \A k \in DOMAIN albums :
              Elements(albums[k]) \subseteq Matching(Drill(<< <<"albumartist", k[2]>>, <<"album", k[1]>> >>))
=============================================================================
