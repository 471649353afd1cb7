------------------------------- MODULE Library -------------------------------
(***************************************************************************)
(* The user's ways into the music database, end to end: MPD's database is  *)
(* dumped and parsed (MpdClient::library), indexed and searched            *)
(* (SearchIndex); collections are listed and directories browsed by MPD    *)
(* itself (routes/library.rs, MpdClient::list and lsinfo); and what has    *)
(* been found is added to the queue by tag or path (routes/queue.rs,       *)
(* validate_target and add_target).  The database does not change.         *)
(***************************************************************************)
EXTENDS SearchIndex, MpdDatabase

CONSTANTS Databases,
          Texts,      \* what may be asked for: a tag's value or a path
          Lists       \* what may be listed: <<tag, artist, albumartist>>

ASSUME FieldsAreTags == Fields = {"artist", "albumartist", "album"} /\ Unset = <<>>

IsSequence(t) == t \in Seq({t[n] : n \in DOMAIN t})

\* MPD keeps no tag with an empty value, and none is named like another line.
ASSUME DatabasesAssumption ==
    \A d \in Databases :
        /\ IsSequence(d.songs)
        /\ \A n \in DOMAIN d.songs :
              /\ IsSequence(d.songs[n].tags)
              /\ \A m \in DOMAIN d.songs[n].tags :
                    LET tag == d.songs[n].tags[m]
                    IN  /\ tag[1] \notin {"file", "directory", "Time"}
                        /\ tag[2] # <<>> /\ IsSequence(tag[2])
              /\ d.songs[n].time \in Nat \cup {Unknown}
        /\ IsSequence(d.dirs)
        /\ \A n \in DOMAIN d.dirs :
              d.dirs[n].songs \in Nat \cup {Unknown} /\ d.dirs[n].time \in Nat \cup {Unknown}

ASSUME TextsAssumption == \A t \in Texts : IsSequence(t)
ASSUME ListsAssumption == \A l \in Lists : IsSequence(l[2]) /\ IsSequence(l[3])

VARIABLES
    db,
    asked,     \* what the user wants: the command, its pairs or path
    sent,      \* the last command with a text that was sent for it
    answer     \* what came of it

browsing == <<asked, sent, answer>>
libraryVars == <<vars, db, browsing>>

\* MpdClient::library, as the index takes it: of a song, the searchable fields.
Indexed(d) ==
    LET dump == ParseSongList(SearchReply(d, LibraryCommand))
    IN  [n \in DOMAIN dump |-> [f \in Fields |-> dump[n][f]]]

Nothing == [what |-> "nothing"]

LibraryInit ==
    /\ db \in Databases
    /\ songs = Indexed(db)
    /\ Init
    /\ asked = Nothing /\ sent = <<>> /\ answer = Nothing

Search ==
    /\ asked = Nothing
    /\ Next
    /\ UNCHANGED <<db, browsing>>

-----------------------------------------------------------------------------
(* The other requests, one at a time.                                      *)

Asks(request) ==
    /\ pc = "idle" /\ asked = Nothing
    /\ asked' = request
    /\ UNCHANGED <<vars, db>>

\* Nothing is sent for pairs without a value.
Sent(name, pairs) ==
    IF BuildSearchFilters(pairs, "==") = <<>> THEN <<>> ELSE FilterCommand(name, pairs)

\* A target by tag: counted (validate_target), and added if there is something.
AddByTag(pairs) ==
    LET count == Sent("count", pairs)
        found == IF count = <<>> THEN 0
                 ELSE Number(ParseText(CountReply(db, count)).fields, "songs")
    IN  /\ Asks([what |-> "add by tag", pairs |-> pairs])
        /\ sent' = IF found = 0 THEN count ELSE Sent("searchadd", pairs)
        /\ answer' = IF found = 0 THEN [what |-> "no matching tracks"]
                     ELSE [what |-> "added", songs |-> Selected(db, FilterOf(sent'))]

AddByPath(path) ==
    /\ Asks([what |-> "add by path", path |-> path])
    /\ sent' = AddCommand(path)
    /\ answer' = Nothing

\* normalize_browse_path; only the root has anything in it.
Browse(path) ==
    LET relative == SubSeq(path, Cardinality({n \in DOMAIN path : \A m \in 1..n : path[m] = "/"}) + 1,
                           Len(path))
    IN  /\ Asks([what |-> "browse", path |-> relative])
        /\ sent' = LsinfoCommand(relative)
        /\ answer' = IF relative = <<>> THEN ParseLsinfo(LsinfoReply(db)) ELSE Nothing

\* GET /api/list
ListTags == {"artist", "albumartist", "album", "genre", "date", "title", "composer"}
ListTag(tag, artist, albumartist) ==
    /\ Asks([what |-> "list", tag |-> tag, artist |-> artist, albumartist |-> albumartist])
    /\ sent' = IF tag \in ListTags THEN ListCommand(tag, artist, albumartist) ELSE <<>>
    /\ LET reply == ListReply(db, sent') IN
       answer' = IF tag \notin ListTags \/ ParseText(reply).ack THEN [what |-> "error"]
                 ELSE [what |-> "listed", values |-> Elements(ParseList(reply, tag))]

Answered ==
    /\ asked # Nothing
    /\ asked' = Nothing /\ sent' = <<>> /\ answer' = Nothing
    /\ UNCHANGED <<vars, db>>

LibraryNext ==
    \/ Search \/ Answered
    \/ \E t \in Texts : \/ AddByPath(t) \/ Browse(t)
                       \/ AddByTag(<< <<"Artist", t>> >>)
                       \/ AddByTag(<< <<"Album", t>>, <<"Artist", t>> >>)
    \/ \E l \in Lists : ListTag(l[1], l[2], l[3])

LibrarySpec == LibraryInit /\ [][LibraryNext]_libraryVars

-----------------------------------------------------------------------------
(* Properties.                                                             *)

Wishes(n, pairs) == \A k \in DOMAIN pairs : pairs[k][2] \in TagValues(db.songs[n], pairs[k][1])

\* Whatever the quotes, backslashes, blanks and parentheses in a tag or path, MPD
\* takes the command as it was meant: a path as it is, and of a tag exactly the songs
\* that have it are added (protocol.rs:151-184 and build_search_filters: a compound
\* filter "must itself be wrapped in parentheses").
MpdUnderstands ==
    /\ asked.what \in {"add by path", "browse"} => Arguments(Tail(sent)) = <<asked.path>>
    /\ asked.what = "add by tag" =>
          LET meant == {n \in DOMAIN db.songs : Wishes(n, asked.pairs)}
          IN  answer = IF meant = {} THEN [what |-> "no matching tracks"]
                       ELSE [what |-> "added", songs |-> meant]

FirstOf(song, tag) ==
    LET own == {m \in DOMAIN song.tags : song.tags[m][1] = tag}
    IN  IF own = {} THEN Unset ELSE TrimStart(song.tags[Min(own)][2])

\* Every song of the database comes out of the dump with its own tags, whatever
\* lines, missing or repeated ones, its neighbours have: of a repeated tag the first
\* value, without leading blanks.
DumpFaithful ==
    /\ Len(songs) = Len(db.songs)
    /\ \A n \in DOMAIN songs, f \in Fields : songs[n][f] = FirstOf(db.songs[n], CanonicalTag(f))

\* Every directory and every file is there, in its place and with its own numbers and
\* tags, and "if any directory omits them the true total is unknown, so we report None
\* rather than a misleading partial sum" (protocol.rs:439-441).
BrowseFaithful ==
    asked.what = "browse" /\ asked.path = <<>> =>
        LET dirs == db.dirs
            files == db.songs
            songcounts == [n \in DOMAIN dirs |-> dirs[n].songs]
            lengths == [n \in DOMAIN dirs |-> dirs[n].time]
            times == [n \in DOMAIN files |-> files[n].time]
            known(ns) == \A n \in DOMAIN ns : ns[n] # Unknown
        IN  /\ Len(answer.directories) = Len(dirs)
            /\ \A n \in DOMAIN dirs :
                  /\ answer.directories[n].path = TrimStart(dirs[n].path)
                  /\ answer.directories[n].songs = dirs[n].songs
                  /\ answer.directories[n].time = dirs[n].time
            /\ Len(answer.files) = Len(files)
            /\ \A n \in DOMAIN files :
                  /\ answer.files[n].file = TrimStart(files[n].file)
                  /\ answer.files[n].time = files[n].time
                  /\ \A f \in Fields : answer.files[n][f] = FirstOf(files[n], CanonicalTag(f))
            /\ answer.songcount = IF known(songcounts) THEN SumOf(songcounts) + Len(files) ELSE Unknown
            /\ answer.playtime = IF known(lengths) /\ known(times) THEN SumOf(lengths) + SumOf(times)
                                 ELSE Unknown

Listed(tag, ns) ==
    LET values == UNION {TagValues(db.songs[n], CanonicalTag(tag)) : n \in ns}
    IN  [what |-> "listed", values |-> {TrimStart(v) : v \in values} \ {<<>>}]
Of(tag, value) == {n \in DOMAIN db.songs : Wishes(n, << <<tag, value>> >>)}

\* A list holds every value of the tag, of an artist's songs if one is named, and no
\* blank one ("those are dropped so the UI never shows blank entries",
\* protocol.rs:451-452); what the route or MPD refuses is an error and never an empty
\* list.
ListsComplete ==
    asked.what = "list" /\ asked.albumartist = <<>> =>
        answer = IF asked.tag \in ListTags /\ asked.artist = <<>>
                 THEN Listed(asked.tag, DOMAIN db.songs)
                 ELSE IF asked.tag = "album" THEN Listed("album", Of("Artist", asked.artist))
                 ELSE [what |-> "error"]

\* What library.js:435 says of an artist hit, "an artist lists their albums", also
\* of one that is drilled into as an album artist.  Violated: MPD reads the only
\* value of `list album "X"` as an artist (client.rs:185).
AlbumArtistListsAlbums ==
    asked.what = "list" /\ asked.tag = "album" /\ asked.artist = <<>> /\ asked.albumartist # <<>> =>
        answer = Listed("album", Of("AlbumArtist", asked.albumartist))
=============================================================================
