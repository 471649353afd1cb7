----------------------------- MODULE MpdDatabase -----------------------------
(***************************************************************************)
(* MPD's side of the database commands, as far as the client uses it: how  *)
(* it takes a command apart, which songs a filter selects, and the lines   *)
(* it answers with.  External: MPD is not part of the repository.          *)
(*                                                                         *)
(* A database is [songs, dirs]: songs with a path, tags (a name may occur  *)
(* several times) and a length, and directories with totals.               *)
(***************************************************************************)
EXTENDS Protocol

Malformed == << [tag |-> "malformed", op |-> "", value |-> <<>>] >>

\* The arguments of a command, unquoted, character by character.
NoArgument == [args |-> <<>>, at |-> "between", arg |-> <<>>]
ArgumentStep(acc, c) ==
    LET grown == [acc EXCEPT !.arg = Append(@, c)]
        ended == [args |-> Append(acc.args, acc.arg), at |-> "between", arg |-> <<>>]
    IN  CASE acc.at = "between" -> IF c = Space THEN acc
                                   ELSE IF c = DoubleQuote THEN [acc EXCEPT !.at = "quoted"]
                                   ELSE [grown EXCEPT !.at = "plain"]
          [] acc.at = "plain"   -> IF c = Space THEN ended ELSE grown
          [] acc.at = "quoted"  -> IF c = Backslash THEN [acc EXCEPT !.at = "escaped"]
                                   ELSE IF c = DoubleQuote THEN ended ELSE grown
          [] acc.at = "escaped" -> [grown EXCEPT !.at = "quoted"]
ReadArguments(text) ==
    LET read[n \in 0..Len(text)] ==
            IF n = 0 THEN NoArgument ELSE ArgumentStep(read[n - 1], text[n])
    IN  read[Len(text)]
Arguments(text) ==
    LET read == ReadArguments(text)
    IN  CASE read.at = "between" -> read.args
          [] read.at = "plain" -> Append(read.args, read.arg)
          [] OTHER -> <<>>

\* The clauses of a filter expression: (tag op 'value'), or several joined by AND in
\* another pair of parentheses.
NoClause == [at |-> "start", wrapped |-> FALSE, tag |-> "", op |-> "", value |-> <<>>,
             clauses |-> <<>>]
ClauseStep(acc, c) ==
    LET goes(at) == [acc EXCEPT !.at = at]
        expects(x, at) == goes(IF c = x THEN at ELSE "malformed")
        named == [acc EXCEPT !.at = "before op", !.tag = c]
        grown == [acc EXCEPT !.at = "value", !.value = Append(@, c)]
        clause == [tag |-> acc.tag, op |-> acc.op, value |-> acc.value]
    IN  CASE acc.at = "start"     -> expects("(", "first")
          [] acc.at = "first"     -> IF c = "(" THEN [acc EXCEPT !.at = "tag", !.wrapped = TRUE]
                                     ELSE named
          [] acc.at = "tag"       -> named
          [] acc.at = "before op" -> expects(Space, "op")
          [] acc.at = "op"        -> [acc EXCEPT !.at = "before value", !.op = c]
          [] acc.at = "before value" -> expects(Space, "quote")
          [] acc.at = "quote"     -> expects(Apostrophe, "value")
          [] acc.at = "value"     -> IF c = Backslash THEN goes("escaped")
                                     ELSE IF c = Apostrophe THEN goes("close") ELSE grown
          [] acc.at = "escaped"   -> grown
          [] acc.at = "close"     ->
               IF c # ")" THEN goes("malformed")
               ELSE [acc EXCEPT !.at = IF acc.wrapped THEN "next" ELSE "end",
                                !.value = <<>>, !.clauses = Append(@, clause)]
          [] acc.at = "next"      -> IF c = ")" THEN goes("end") ELSE expects(Space, "and")
          [] acc.at = "and"       -> expects("AND", "after and")
          [] acc.at = "after and" -> expects(Space, "again")
          [] acc.at = "again"     -> expects("(", "tag")
          [] OTHER                -> goes("malformed")
ReadClauses(text) ==
    LET read[n \in 0..Len(text)] ==
            IF n = 0 THEN NoClause ELSE ClauseStep(read[n - 1], text[n])
    IN  read[Len(text)]
Clauses(text) ==
    LET read == ReadClauses(text) IN IF read.at = "end" THEN read.clauses ELSE Malformed

\* What MPD reads a filter command as.
FilterOf(command) ==
    LET args == Arguments(Tail(command))
    IN  IF Len(args) # 1 THEN Malformed ELSE Clauses(args[1])

-----------------------------------------------------------------------------
TagValues(song, tag) == {song.tags[n][2] : n \in {m \in DOMAIN song.tags : song.tags[m][1] = tag}}
Selected(db, clauses) ==
    {n \in DOMAIN db.songs :
        \A k \in DOMAIN clauses :
            CASE clauses[k].op = "==" -> clauses[k].value \in TagValues(db.songs[n], clauses[k].tag)
              [] clauses[k] = [tag |-> "File", op |-> "contains", value |-> <<>>] -> TRUE
              [] OTHER -> FALSE}

SongLines(song) ==
    <<Field("file", song.file)>>
        \o [n \in DOMAIN song.tags |-> Field(song.tags[n][1], song.tags[n][2])]
        \o (IF song.time = Unknown THEN <<>> ELSE <<Field("Time", song.time)>>)

OK == <<Terminator("OK")>>
ACK == <<Terminator("ACK")>>

SearchReply(db, command) ==
    LET found == Selected(db, FilterOf(command))
    IN  FlattenSeq([n \in DOMAIN db.songs |->
                       IF n \in found THEN SongLines(db.songs[n]) ELSE <<>>]) \o OK

CountReply(db, command) ==
    <<Field("songs", Cardinality(Selected(db, FilterOf(command))))>> \o OK

\* A second argument without a filter is an artist, and only albums are listed so; a
\* third one is not understood.  A song without the tag counts as an empty value.
ListReply(db, command) ==
    LET args == Arguments(Tail(command))
        tag == CanonicalTag(args[1][1])
        artist == IF Len(args) = 2 THEN << [tag |-> "Artist", op |-> "==", value |-> args[2]] >>
                  ELSE <<>>
        values(n) == IF TagValues(db.songs[n], tag) = {} THEN {<<>>} ELSE TagValues(db.songs[n], tag)
        listed == SetToSeq(UNION {values(n) : n \in Selected(db, artist)})
    IN  IF Len(args) > 2 \/ (Len(args) = 2 /\ tag # "Album") THEN ACK
        ELSE [n \in DOMAIN listed |-> Field(tag, listed[n])] \o OK

\* The root directory.
LsinfoReply(db) ==
    LET numbers(dir) == (IF dir.songs = Unknown THEN <<>> ELSE <<Field("songcount", dir.songs)>>)
                        \o (IF dir.time = Unknown THEN <<>> ELSE <<Field("playtime", dir.time)>>)
    IN  FlattenSeq([n \in DOMAIN db.dirs |->
                       <<Field("directory", db.dirs[n].path)>> \o numbers(db.dirs[n])])
        \o FlattenSeq([n \in DOMAIN db.songs |-> SongLines(db.songs[n])]) \o OK
=============================================================================
