------------------------------ MODULE MCLibrary ------------------------------
(* Instances of Library for TLC. *)
EXTENDS Library

\* Three values, two of them spellings of one another, the third with what needs
\* escaping.
va == <<"a">>
vA == <<"A">>
vq == <<"'", "\\", "\"">>
MCFields == {"artist", "albumartist", "album"}
MCValues == {va, vA, vq}
MCUnset == <<>>
MCTerms == {va, vq}
MCLower == [v \in MCValues |-> IF v = vA THEN va ELSE v]

\* A term is a value: found in a haystack up to case, best when alone.
MCScore == [t \in {va, vq} |-> [ws \in SUBSET MCValues |->
    IF t \notin {MCLower[w] : w \in ws} THEN 0 ELSE 4 - Cardinality(ws)]]

\* Songs with all tags, without one, with a repeated one, in any order.
MCTags == {<< <<"Artist", va>>, <<"AlbumArtist", va>>, <<"Album", va>> >>,
           << <<"Album", va>>, <<"Artist", vA>>, <<"AlbumArtist", vq>> >>,
           << <<"Artist", vq>>, <<"Title", va>>, <<"Album", vA>> >>,
           << <<"Artist", va>>, <<"Artist", vq>>, <<"AlbumArtist", vA>>, <<"Album", vq>> >>,
           << <<"AlbumArtist", va>>, <<"Artist", <<Space>> \o va>>, <<"Title", <<Space>> >> >>,
           << <<"Artist", vq>>, <<"AlbumArtist", vq>>, <<"Album", va>> >>}

Files == << <<"f">>, <<"g">>, <<"h">>, <<"i">>, <<"j">>, <<"k">> >>
Music(tags, time, ds) ==
    [songs |-> [n \in DOMAIN tags |-> [file |-> Files[n], tags |-> tags[n], time |-> time]],
     dirs |-> ds]
Dir(p, n, t) == [path |-> p, songs |-> n, time |-> t]

MCDatabases ==
    {Music(tags, 3, << Dir(<<"d">>, 2, 5) >>) : tags \in {<<>>} \cup [1..2 -> MCTags]} \cup
    {Music(tags \o << << <<"Artist", va>>, <<"Artist", vq>>, <<"AlbumArtist", vA>>, <<"Album", vq>> >> >>,
        3, <<>>) : tags \in [1..2 -> MCTags]} \cup
    {Music(<< << <<"Artist", va>>, <<"AlbumArtist", va>>, <<"Album", va>> >>,
           << <<"Artist", vq>>, <<"AlbumArtist", vq>>, <<"Album", va>> >>,
           << <<"Artist", va>>, <<"AlbumArtist", vA>>, <<"Album", vq>> >>,
           << <<"Album", va>>, <<"Artist", vA>>, <<"AlbumArtist", vq>> >>,
           << <<"Artist", va>>, <<"AlbumArtist", va>>, <<"Album", va>> >>,
           << <<"Artist", vq>>, <<"Title", va>>, <<"Album", vA>> >> >>, Unknown, <<>>)} \cup
    {Music(<< << <<"Artist", va>> >>, <<>> >>, t, ds) :
        t \in {3, Unknown},
        ds \in {<<>>, << Dir(<<"d">>, 2, 5), Dir(<<"e", Space>>, 1, 4) >>,
               << Dir(<<"d">>, Unknown, Unknown), Dir(<<"e">>, 1, 4) >>}}
MCLibraries == {Indexed(d) : d \in MCDatabases}

Q(pairs, term, kinds, limit) ==
    [exact |-> pairs, term |-> term, kinds |-> kinds, limit |-> limit]
MCQueries ==
    {Q(ps, NoTerm, Kinds, 1) :
       ps \in {<< <<"artist", vA>> >>, << <<"artist", va>>, <<"album", va>> >>,
               << <<"albumartist", vq>>, <<"artist", vA>>, <<"album", vA>> >>,
               << <<"album", va>>, <<"artist", Unset>>, <<"album", vA>> >>,
               << <<"artist", Unset>> >>}} \cup
    {Q(<<>>, va, Kinds, 2), Q(<<>>, vq, {"track"}, 2), Q(<<>>, va, {}, 2),
     Q(<< <<"artist", vq>> >>, vq, {"artist", "album"}, 3),
     Q(<< <<"album", va>>, <<"albumartist", vq>> >>, vq, Kinds, 3)}

\* Up to two characters of those that mean something to MPD, and the values.
Characters == {"x", Apostrophe, DoubleQuote, Backslash, Space, "/"}
MCTexts == UNION {[1..n -> Characters] : n \in 0..2}
              \cup MCValues \cup {<<Space, ")", Space, "AND", Space, "(">>}

MCLists == {<<t, <<>>, <<>> >> : t \in {"artist", "albumartist", "album", "title", "file"}}
              \cup {<<"album", v, <<>> >> : v \in MCValues}
              \cup {<<"artist", va, <<>> >>, <<"file", va, <<>> >>}
MCDrills == MCLists \cup {<<"album", <<>>, v>> : v \in MCValues}
=============================================================================
