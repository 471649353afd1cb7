------------------------------ MODULE Protocol ------------------------------
(***************************************************************************)
(* The text side of the MPD client (crates/mpd-client/src/protocol.rs):    *)
(* quoting of arguments, building of filters, and parsing of responses.    *)
(*                                                                         *)
(* A text is a sequence of characters, in which a tag name, an operator or *)
(* AND counts as one.  A response is a sequence of lines: "field" lines    *)
(* with a key and a value, the final "OK" or "ACK", and "stray" ones       *)
(* without a colon.  The value of a numeric key is a number, -1 when it    *)
(* does not parse.  A missing text is the empty one, which the code treats *)
(* alike (opt_str), and a missing number is Unknown.                       *)
(***************************************************************************)
EXTENDS Integers, SequencesExt

Backslash == "\\"
DoubleQuote == "\""
Apostrophe == "'"
Space == " "

Unknown == -1

Field(k, v) == [line |-> "field", key |-> k, value |-> v]
Terminator(t) == [line |-> t]

Joined(texts, separator) ==
    FlattenSeq([n \in DOMAIN texts |-> IF n = 1 THEN texts[1] ELSE separator \o texts[n]])

-----------------------------------------------------------------------------
(* Commands.                                                               *)

\* Mutant: quotes are escaped and backslashes are not.
EscapedQuotesOnly(text, special) ==
    FlattenSeq([n \in DOMAIN text |->
        IF text[n] \in special \ {Backslash} THEN <<Backslash, text[n]>> ELSE <<text[n]>>])

Escaped(text, special) ==
    FlattenSeq([n \in DOMAIN text |->
        IF text[n] \in special THEN <<Backslash, text[n]>> ELSE <<text[n]>>])

EscapeFilterValue(value) == Escaped(value, {Backslash, Apostrophe})
QuoteArg(text) == <<DoubleQuote>> \o Escaped(text, {Backslash, DoubleQuote}) \o <<DoubleQuote>>

FilterClause(tag, op, value) ==
    <<"(", tag, Space, op, Space, Apostrophe>> \o EscapeFilterValue(value) \o <<Apostrophe, ")">>

\* Of pairs without a value nothing is left; only several clauses are wrapped.
BuildSearchFilters(pairs, op) ==
    LET clauses == FlattenSeq([n \in DOMAIN pairs |->
            IF pairs[n][2] = <<>> THEN <<>> ELSE << FilterClause(pairs[n][1], op, pairs[n][2]) >>])
    IN  IF Len(clauses) <= 1 THEN FlattenSeq(clauses)
        ELSE <<"(">> \o Joined(clauses, <<Space, "AND", Space>>) \o <<")">>

\* The commands of the client that carry a text.
AddCommand(path) == <<"add", Space>> \o QuoteArg(path)
LsinfoCommand(path) == <<"lsinfo", Space>> \o QuoteArg(path)
FilterCommand(name, pairs) == <<name, Space>> \o QuoteArg(BuildSearchFilters(pairs, "=="))
ListCommand(tag, artist, albumartist) ==
    <<"list", Space, tag>>
        \o (IF artist # <<>> THEN <<Space>> \o QuoteArg(artist) ELSE <<>>)
        \o (IF albumartist # <<>> THEN <<Space>> \o QuoteArg(albumartist) ELSE <<>>)
LibraryCommand == <<"search", Space>> \o QuoteArg(FilterClause("File", "contains", <<>>))

-----------------------------------------------------------------------------
(* Responses.                                                              *)

TrimStart(text) ==
    LET blank == {n \in DOMAIN text : \A m \in 1..n : text[m] = Space} IN
    SubSeq(text, Cardinality(blank) + 1, Len(text))

\* parse_text: the fields up to the terminator, and whether that is an ACK.
ParseText(lines) ==
    LET ends == SelectInSeq(lines, LAMBDA l : l.line \in {"OK", "ACK"})
        body == IF ends = 0 THEN lines ELSE SubSeq(lines, 1, ends - 1)
    IN  [fields |-> FlattenSeq([n \in DOMAIN body |->
                       IF body[n].line = "field" THEN <<body[n]>> ELSE <<>>]),
         ack    |-> ends # 0 /\ lines[ends].line = "ACK"]

GetAll(fields, key) ==
    FlattenSeq([n \in DOMAIN fields |->
        IF fields[n].key = key THEN <<fields[n].value>> ELSE <<>>])

\* Response::get and opt_str: the first value, trimmed by parse_text.
Text(fields, key) ==
    LET vs == GetAll(fields, key) IN IF vs = <<>> THEN <<>> ELSE TrimStart(vs[1])
Number(fields, key) ==
    LET vs == GetAll(fields, key) IN IF vs = <<>> THEN Unknown ELSE vs[1]

\* One line of group_items, of which every caller ignores the flat lines.
GroupStep(acc, field, starts) ==
    IF field.key \in starts
    THEN [items |-> IF acc.current = <<>> THEN acc.items ELSE Append(acc.items, acc.current),
          current |-> <<field>>]
    ELSE IF acc.current # <<>> THEN [acc EXCEPT !.current = Append(@, field)]
    ELSE acc
Grouped(fields, starts) ==
    LET read[n \in 0..Len(fields)] ==
            IF n = 0 THEN [items |-> <<>>, current |-> <<>>]
            ELSE GroupStep(read[n - 1], fields[n], starts)
    IN  read[Len(fields)]

\* Mutant: the last group is forgotten.
GroupItemsButLast(fields, starts) == Grouped(fields, starts).items

\* group_items
GroupItems(fields, starts) ==
    LET grouped == Grouped(fields, starts)
    IN  IF grouped.current = <<>> THEN grouped.items ELSE Append(grouped.items, grouped.current)

\* The tags of a Song this project tells apart; each is the first of its name.
ParseSong(fields) ==
    [file |-> Text(fields, "file"), artist |-> Text(fields, "Artist"),
     albumartist |-> Text(fields, "AlbumArtist"), album |-> Text(fields, "Album"),
     time |-> Number(fields, "Time")]

ParseSongList(lines) ==
    LET items == GroupItems(ParseText(lines).fields, {"file"})
    IN  [n \in DOMAIN items |-> ParseSong(items[n])]

\* canonical_tag, of the tags the routes let through.
CanonicalTag(tag) ==
    CASE tag = "artist" -> "Artist" [] tag = "albumartist" -> "AlbumArtist" [] tag = "album" -> "Album"
      [] tag = "genre" -> "Genre" [] tag = "date" -> "Date" [] tag = "title" -> "Title"
      [] tag = "composer" -> "Composer" [] OTHER -> tag

\* Mutant: blank values are kept.
ParseListBlanks(lines, tag) ==
    LET found == GetAll(ParseText(lines).fields, CanonicalTag(tag))
    IN  [n \in DOMAIN found |-> TrimStart(found[n])]

\* parse_list: blank values are dropped.
ParseList(lines, tag) ==
    LET found == GetAll(ParseText(lines).fields, CanonicalTag(tag))
    IN  FlattenSeq([n \in DOMAIN found |->
            IF TrimStart(found[n]) = <<>> THEN <<>> ELSE <<TrimStart(found[n])>>])

\* Summed up one after the other.
SumOf(ns) ==
    LET sum[n \in 0..Len(ns)] == IF n = 0 THEN 0 ELSE sum[n - 1] + ns[n] IN sum[Len(ns)]

\* Mutant: what is unknown counts as nothing.
TotalOfKnown(ns) == SumOf(SelectSeq(ns, LAMBDA n : n # Unknown))

\* The sum, or Unknown if one of the numbers is.
Total(ns) == IF Contains(ns, Unknown) THEN Unknown ELSE SumOf(ns)

\* The items of one kind, in their order.
ItemsOf(items, key) ==
    FlattenSeq([n \in DOMAIN items |-> IF items[n][1].key = key THEN <<items[n]>> ELSE <<>>])

\* parse_lsinfo: directories, songs, and the totals over both.
ParseLsinfo(lines) ==
    LET items == GroupItems(ParseText(lines).fields, {"directory", "file"})
        dirs == ItemsOf(items, "directory")
        files == ItemsOf(items, "file")
        dirEntry(it) == [path |-> Text(it, "directory"), songs |-> Number(it, "songcount"),
                         time |-> Number(it, "playtime")]
        dirEntries == [n \in DOMAIN dirs |-> dirEntry(dirs[n])]
        songs == [n \in DOMAIN files |-> ParseSong(files[n])]
    IN  [directories |-> dirEntries, files |-> songs,
         songcount |-> Total([n \in DOMAIN dirs |-> dirEntries[n].songs]
                                \o [n \in DOMAIN files |-> 1]),
         playtime  |-> Total([n \in DOMAIN dirs |-> dirEntries[n].time]
                                \o [n \in DOMAIN files |-> songs[n].time])]
=============================================================================
